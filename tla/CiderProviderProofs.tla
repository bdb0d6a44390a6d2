-------------------------- MODULE CiderProviderProofs --------------------------
(***************************************************************************)
(* Proofs about CiderProvider: the lyrics it offers are of the track it    *)
(* offers them with and in the language that is configured, for any tracks,*)
(* answers, languages and number of requests under way, and whatever the   *)
(* rest of the program does with the display meanwhile.                    *)
(***************************************************************************)
EXTENDS CiderProvider, TLAPS

\* The type invariant of the provider and its tasks.  A poll that waits for them
\* holds what it has fetched.
TypeOK ==
    /\ cider \in Providers
    /\ cider.phase = "joining" => cider.fetched \in Reports
    /\ requests \in [Slots -> Requests \cup {None}]

\* A task asks for a track that has an id; one of the present generation asks in
\* the language that is configured.
RequestsInv ==
    \A i \in Slots : requests[i] # None =>
        /\ TrackRef(requests[i].track) # None
        /\ requests[i].gen <= cider.gen
        /\ requests[i].gen = cider.gen => requests[i].lang = cider.lang

\* The current task is alive.
CurrentInv == cider.current # None => requests[cider.current] # None

\* Lyrics were attempted for no track or for the one observed.
AttemptedInv == cider.attempted \in {None, RefOf(cider.obs)}

\* The document is of the track observed and in the language configured.
DocumentInv ==
    cider.doc # None =>
        /\ RefOf(cider.obs) # None
        /\ cider.doc.song \in {cider.obs.track.song, None}
        /\ answered.lang = cider.lang

\* The shape of the gate's state, as far as the provider relies on it.
OwnOK(o) ==
    /\ DOMAIN o = {"mode", "bound", "sources", "cands", "timings", "seq", "tick"}
    /\ DOMAIN o.cands = Gate!Clients

\* The gate retains nothing, a report without lyrics, or the provider's own facts.
Offers(o, obs, doc) ==
    /\ OwnOK(o)
    /\ o.cands[CiderApi] # None /\ o.cands[CiderApi].doc # None =>
          o.cands[CiderApi].doc = doc /\ o.cands[CiderApi].obs = obs

IInv ==
    /\ TypeOK /\ RequestsInv /\ CurrentInv /\ AttemptedInv /\ DocumentInv
    /\ Offers(own, cider.obs, cider.doc)

-------------------------------------------------------------------------------
(* The gate, as far as Cider's own candidate goes.                         *)

\* Two states of the gate with the same candidates.
SameCandidates(s, t) == OwnOK(t) /\ t.cands = s.cands

LEMMA CiderIsAClient == CiderApi \in Gate!Clients
BY DEF CiderApi, Gate!Clients

\* An election moves the owner, not the candidates.
LEMMA ElectKeeps ==
    ASSUME NEW s, OwnOK(s)
    PROVE  SameCandidates(s, Gate!Elect(s)) /\ SameCandidates(s, Gate!ElectIfStandalone(s))
<1> DEFINE owner == Gate!Owner(s.cands, s.sources)
           t == [s EXCEPT !.mode = "standalone", !.bound = owner]
<1>1. Gate!Elect(s) = t
  BY DEF Gate!Elect
<1> HIDE DEF owner
<1>2. SameCandidates(s, t) /\ SameCandidates(s, s)
  BY DEF OwnOK, SameCandidates
<1>3. Gate!ElectIfStandalone(s) \in {Gate!Elect(s), s}
  BY DEF Gate!ElectIfStandalone
<1> HIDE DEF t
<1>4. QED BY <1>1, <1>2, <1>3

\* Neither does any way of selecting an owner.
LEMMA SelectKeeps ==
    ASSUME NEW s, OwnOK(s), NEW c
    PROVE  /\ SameCandidates(s, Gate!SelectStandalone(s))
           /\ SameCandidates(s, Gate!SelectExternal(s))
           /\ SameCandidates(s, Gate!SelectLive(s, c))
<1> DEFINE external == [s EXCEPT !.mode = "external", !.bound = Gate!Mpris]
           live == [s EXCEPT !.mode = "live", !.bound = c]
<1>1. SameCandidates(s, Gate!SelectStandalone(s))
  BY ElectKeeps DEF Gate!SelectStandalone
<1>2. SameCandidates(s, external) /\ SameCandidates(s, live)
  BY DEF OwnOK, SameCandidates
<1>3. /\ Gate!SelectExternal(s) \in {external, Gate!SelectStandalone(s)}
      /\ Gate!SelectLive(s, c) \in {live, Gate!SelectStandalone(s)}
  BY DEF Gate!SelectExternal, Gate!SelectLive
<1> HIDE DEF external, live
<1>4. QED BY <1>1, <1>2, <1>3

\* Nor a change of the configured slots.
LEMMA ConfigureKeeps ==
    ASSUME NEW s, OwnOK(s), NEW raw
    PROVE  SameCandidates(s, Gate!SetDisplaySources(s, raw))
<1> DEFINE sources == Gate!Normalized(raw)
           u == [s EXCEPT !.sources = sources]
<1> HIDE DEF sources
<1>1. SameCandidates(s, u) /\ SameCandidates(s, s)
  BY DEF OwnOK, SameCandidates
<1>2. Gate!SetDisplaySources(s, raw)
         \in {s, Gate!SelectStandalone(u), Gate!ElectIfStandalone(u)}
  BY DEF Gate!SetDisplaySources, sources
<1> HIDE DEF u
<1>3. SameCandidates(s, Gate!SelectStandalone(u)) /\ SameCandidates(s, Gate!ElectIfStandalone(u))
  BY <1>1, SelectKeeps, ElectKeeps DEF SameCandidates
<1>4. QED BY <1>1, <1>2, <1>3

\* A retained snapshot is offered as it was published; its clock changes nothing
\* about that.
LEMMA RetainingOffers ==
    ASSUME NEW o, OwnOK(o), NEW obs, NEW doc
    PROVE  Offers(Retaining(o, obs, doc), obs, doc)
<1> DEFINE cand == [seq |-> o.seq + 1, obs |-> obs, doc |-> doc]
           u == [o EXCEPT !.seq = @ + 1, !.cands[CiderApi] = cand]
           observed == Gate!Observe(o, CiderApi, obs, doc)
           ref == RefOf(obs)
           timing == [tick |-> observed.tick + 1, seq |-> observed.cands[CiderApi].seq, ref |-> ref]
           clocked == [observed EXCEPT !.tick = @ + 1, !.timings[CiderApi] = timing]
<1>1. observed = Gate!ElectIfStandalone(u)
  BY DEF Gate!Observe
<1>2. cand.obs = obs /\ cand.doc = doc
  OBVIOUS
<1> HIDE DEF cand
<1>3. OwnOK(u) /\ u.cands[CiderApi] = cand
  BY CiderIsAClient DEF OwnOK
<1> HIDE DEF u
<1>4. OwnOK(observed) /\ observed.cands[CiderApi] = cand
  BY <1>1, <1>3, ElectKeeps DEF SameCandidates
<1>5. Retaining(o, obs, doc) \in {observed, clocked}
  BY DEF Retaining, Gate!ObserveClock
<1> HIDE DEF observed, timing
<1>6. OwnOK(clocked) /\ clocked.cands = observed.cands
  BY <1>4 DEF OwnOK
<1> HIDE DEF clocked
<1>7. QED BY <1>2, <1>4, <1>5, <1>6 DEF Offers

\* A client that is cleared offers nothing.
LEMMA ClearOffersNothing ==
    ASSUME NEW o, OwnOK(o), NEW obs, NEW doc
    PROVE  Offers(Gate!ClearClient(o, CiderApi), obs, doc)
<1> DEFINE seq == IF o.cands[CiderApi] # None THEN o.seq + 1 ELSE o.seq
           u == [o EXCEPT !.timings[CiderApi] = None, !.cands[CiderApi] = None, !.seq = seq]
<1>1. Gate!ClearClient(o, CiderApi) = Gate!ElectIfStandalone(u)
  BY DEF Gate!ClearClient, OwnOK
<1> HIDE DEF seq
<1>2. OwnOK(u) /\ u.cands[CiderApi] = None
  BY CiderIsAClient DEF OwnOK
<1> HIDE DEF u
<1>3. SameCandidates(u, Gate!ElectIfStandalone(u))
  BY <1>2, ElectKeeps
<1>4. QED BY <1>1, <1>2, <1>3 DEF SameCandidates, Offers

\* The gate keeps what it offers while its candidates stay.
LEMMA SameOffers ==
    ASSUME NEW s, NEW t, NEW obs, NEW doc, Offers(s, obs, doc), SameCandidates(s, t)
    PROVE  Offers(t, obs, doc)
BY DEF Offers, SameCandidates

-------------------------------------------------------------------------------
(* Requests and their answers.                                             *)

\* The tracks asked for are tracks.
LEMMA ItemsAreTracks ==
    /\ \A obs \in Reports : obs.track \in Tracks \cup {None}
    /\ \A obs \in Reports : obs.track # None => obs.track \in Items
    /\ Items \subseteq Tracks
BY ItemsAssumption DEF Items, Observations

\* References are what TrackRef gives.
LEMMA ReferencesOfReports ==
    \A obs \in Reports \cup {None} : RefOf(obs) \in Gate!References
<1>1. \A t : Gate!TrackRef(t) = TrackRef(t)
  BY DEF Gate!TrackRef, TrackRef
<1>2. Gate!Tracks = Tracks
  BY DEF Gate!Tracks, Tracks
<1>3. \A t \in Tracks : TrackRef(t) \in Gate!References
  BY <1>1, <1>2, Zenon DEF Gate!References
<1>4. None \in Gate!References /\ TrackRef(None) = None
  BY DEF Gate!References, TrackRef
<1>5. QED BY <1>3, <1>4, ItemsAreTracks DEF RefOf

\* Whatever is now playing, and whatever fails, lyrics are of the track they were
\* asked for, or do not say whose they are.
LEMMA FetchedIsOfTheTrack ==
    ASSUME NEW track \in Items, NEW lang \in Languages, NEW doc \in Fetched[track, lang]
    PROVE  /\ doc \in Documents \cup {None}
           /\ doc # None => doc.song \in {track.song, None}
<1>1. PICK chain \in Chains(track) : doc = Lyrics(track, lang, chain)
  <2>1. Fetched[<<track, lang>>] = {Lyrics(track, lang, chain) : chain \in Chains(track)}
    BY DEF Fetched
  <2>2. QED BY <2>1
<1> DEFINE current == chain.current
           listed == chain.listed
<1>2. track.song \in Songs \cup {None}
  BY ItemsAreTracks DEF Tracks
<1>3. current \in Replies(Songs) /\ listed \in Replies({track.song})
  BY DEF Chains
<1> HIDE DEF current, listed
<1>4. listed.doc # None => listed.doc \in Documents /\ listed.doc.song \in {track.song, None}
  BY <1>2, <1>3 DEF Replies, Documents, Origins
<1>5. current.doc # None => current.doc \in Documents /\ current.status = "found"
  BY <1>3 DEF Replies, Documents, Origins
<1>6. ~AsksById(track, current) /\ current.doc # None => current.doc.song \in {track.song, None}
  BY <1>5 DEF AsksById
<1>7. doc \in {None, IF AsksById(track, current) THEN listed.doc ELSE current.doc}
  BY <1>1 DEF Lyrics, current, listed
<1>8. QED BY <1>4, <1>5, <1>6, <1>7

\* A cancelled task has asked for the same, and is not forgotten.
LEMMA CancelKeeps ==
    ASSUME TypeOK, RequestsInv, CurrentInv
    PROVE  LET r == CancelCurrent(cider, requests)
           IN  /\ r \in [Slots -> Requests \cup {None}]
               /\ \A i \in Slots : r[i] # None => /\ requests[i] # None
                                                   /\ r[i].track = requests[i].track
                                                   /\ r[i].gen = requests[i].gen
                                                   /\ r[i].lang = requests[i].lang
<1> DEFINE c == cider.current
           r == CancelCurrent(cider, requests)
<1>1. CASE c = None
  BY <1>1 DEF CancelCurrent, TypeOK
<1>2. CASE c # None
  <2>1. c \in Slots /\ requests[c] \in Requests
    BY <1>2 DEF TypeOK, CurrentInv, Providers
  <2> DEFINE cancelled == [requests[c] EXCEPT !.cancelled = TRUE]
  <2>2. /\ cancelled \in Requests /\ cancelled.track = requests[c].track
        /\ cancelled.gen = requests[c].gen /\ cancelled.lang = requests[c].lang
    BY <2>1 DEF Requests
  <2>3. r = [requests EXCEPT ![c] = cancelled]
    BY <1>2 DEF CancelCurrent
  <2>4. requests[c] # None
    BY <1>2 DEF CurrentInv
  <2> HIDE DEF cancelled, r
  <2>5. QED BY <2>1, <2>2, <2>3, <2>4 DEF TypeOK, r
<1>3. QED BY <1>1, <1>2

-------------------------------------------------------------------------------
(* The actions.                                                            *)

LEMMA InitIsGood == Init => IInv
<1> SUFFICES ASSUME Init PROVE IInv
  OBVIOUS
<1>1. PICK raw : own = Gate!InitialOwnership(raw)
  BY DEF Init
<1>2. OwnOK(own) /\ own.cands[CiderApi] = None
  BY <1>1, CiderIsAClient DEF Gate!InitialOwnership, OwnOK
<1>3. PICK enabled \in BOOLEAN, lang \in Languages :
         cider = [enabled |-> enabled, lang |-> lang, phase |-> "off", fetched |-> None,
                  gen |-> 0, attempted |-> None, obs |-> None, doc |-> None,
                  current |-> None]
  BY DEF Init
<1>4. cider \in Providers
  BY <1>3 DEF Providers, Gate!References
<1>5. requests \in [Slots -> Requests \cup {None}] /\ \A i \in Slots : requests[i] = None
  BY DEF Init
<1>6. QED BY <1>2, <1>3, <1>4, <1>5 DEF IInv, TypeOK, RequestsInv, CurrentInv, AttemptedInv,
                                       DocumentInv, Offers

\* The rest of a poll, for the provider p it goes on with: one whose document, if
\* any, is of the track fetched.
LEMMA ContinuesIsGood ==
    ASSUME TypeOK, RequestsInv, NEW p \in Providers, p.gen = cider.gen, p.lang = cider.lang,
           p.current # None => requests[p.current] # None,
           NEW obs \in Reports, p.attempted \in {None, RefOf(obs)},
           p.doc # None => /\ RefOf(obs) # None
                           /\ p.doc.song \in {obs.track.song, None}
                           /\ answered.lang = p.lang,
           NEW o, OwnOK(o), Continues(p, o, obs), answered' = answered
    PROVE  IInv'
<1> DEFINE ask == obs.track # None /\ p.attempted # RefOf(obs)
           slot == CHOOSE i \in Slots : requests[i] = None
           request == [gen |-> p.gen, track |-> obs.track, lang |-> p.lang, cancelled |-> FALSE]
           attempted == IF ask THEN RefOf(obs) ELSE p.attempted
           current == IF ask THEN slot ELSE p.current
<1>1. ask => slot \in Slots
  BY DEF Continues, Alive
<1>2. /\ cider' = [p EXCEPT !.phase = "idle", !.obs = obs, !.fetched = None,
                            !.attempted = attempted, !.current = current]
      /\ requests' = IF ask THEN [requests EXCEPT ![slot] = request] ELSE requests
      /\ own' = Retaining(o, obs, p.doc)
  BY DEF Continues, Publishes
<1> HIDE DEF slot
<1>3. ask => request \in Requests /\ RefOf(obs) # None /\ TrackRef(request.track) = RefOf(obs)
  <2> SUFFICES ASSUME ask
               PROVE  request \in Requests /\ RefOf(obs) # None
                      /\ TrackRef(request.track) = RefOf(obs)
    OBVIOUS
  <2>1. obs.track \in Items /\ p.gen \in Nat /\ p.lang \in Languages
    BY ItemsAreTracks DEF Providers
  <2>2. RefOf(obs) # None
    OBVIOUS
  <2>3. TrackRef(obs.track) = RefOf(obs)
    BY NoneAssumption DEF RefOf
  <2>4. QED BY <2>1, <2>2, <2>3 DEF Requests
<1>4. request.gen = p.gen /\ request.lang = p.lang
  OBVIOUS
<1>5. attempted \in Gate!References /\ attempted \in {None, RefOf(obs)}
  BY ReferencesOfReports DEF Providers
<1>6. current \in Slots \cup {None}
  BY <1>1 DEF Providers
<1> HIDE DEF attempted, current, request, ask
<1>7. /\ cider' \in Providers /\ cider'.gen = cider.gen /\ cider'.lang = cider.lang
      /\ cider'.doc = p.doc /\ cider'.obs = obs /\ cider'.attempted = attempted
      /\ cider'.current = current /\ cider'.phase = "idle"
  BY <1>2, <1>5, <1>6 DEF Providers
<1>8. TypeOK'
  BY <1>1, <1>2, <1>3, <1>7 DEF TypeOK
<1>9. RequestsInv'
  <2> SUFFICES ASSUME NEW i \in Slots, requests'[i] # None
               PROVE  /\ TrackRef(requests'[i].track) # None
                      /\ requests'[i].gen <= cider'.gen
                      /\ requests'[i].gen = cider'.gen => requests'[i].lang = cider'.lang
    BY DEF RequestsInv
  <2>1. CASE ask /\ i = slot
    <3>1. requests'[i] = request
      BY <1>1, <1>2, <2>1 DEF TypeOK
    <3>2. cider.gen \in Nat
      BY DEF TypeOK, Providers
    <3>3. QED BY <1>3, <1>4, <1>7, <2>1, <3>1, <3>2
  <2>2. CASE ~(ask /\ i = slot)
    <3>1. requests'[i] = requests[i]
      BY <1>2, <2>2 DEF TypeOK
    <3>2. QED BY <1>7, <3>1 DEF RequestsInv
  <2>3. QED BY <2>1, <2>2
<1>10. CurrentInv'
  <2>1. CASE ask
    <3>1. requests'[slot] = request /\ request # None
      BY <1>1, <1>2, <1>3, <2>1, NoneAssumption DEF TypeOK
    <3>2. QED BY <1>7, <2>1, <3>1 DEF CurrentInv, current
  <2>2. CASE ~ask
    BY <1>2, <1>7, <2>2 DEF CurrentInv, current
  <2>3. QED BY <2>1, <2>2
<1>11. AttemptedInv' /\ DocumentInv'
  BY <1>5, <1>7 DEF AttemptedInv, DocumentInv
<1>12. Offers(own', cider'.obs, cider'.doc)
  BY <1>2, <1>7, RetainingOffers
<1>13. QED BY <1>8, <1>9, <1>10, <1>11, <1>12 DEF IInv

LEMMA FetchSameTrackIsGood ==
    ASSUME IInv, NEW obs \in Reports, FetchSameTrack(obs)
    PROVE  IInv'
<1>1. /\ RefOf(obs) = RefOf(cider.obs) /\ Continues(cider, own, obs) /\ answered' = answered
  BY DEF FetchSameTrack
<1>2. cider.doc # None => /\ RefOf(obs) # None
                          /\ cider.doc.song \in {obs.track.song, None}
                          /\ answered.lang = cider.lang
  <2> SUFFICES ASSUME cider.doc # None
               PROVE  /\ RefOf(obs) # None
                      /\ cider.doc.song \in {obs.track.song, None}
                      /\ answered.lang = cider.lang
    OBVIOUS
  <2>1. /\ RefOf(cider.obs) # None /\ cider.doc.song \in {cider.obs.track.song, None}
        /\ answered.lang = cider.lang
    BY DEF IInv, DocumentInv
  <2>2. cider.obs \in Reports
    BY <2>1 DEF IInv, TypeOK, Providers, RefOf
  <2>3. /\ obs.track \in Items /\ cider.obs.track \in Items
        /\ TrackRef(obs.track) = TrackRef(cider.obs.track) /\ TrackRef(obs.track) # None
    BY <1>1, <2>1, <2>2, NoneAssumption, ItemsAreTracks DEF RefOf, TrackRef
  <2>4. obs.track.song = cider.obs.track.song
    BY <2>3, ItemsAssumption
  <2>5. QED BY <1>1, <2>1, <2>4
<1>3. QED
  BY <1>1, <1>2, ContinuesIsGood DEF IInv, TypeOK, CurrentInv, AttemptedInv, Offers

LEMMA JoinedIsGood ==
    ASSUME IInv, Joined
    PROVE  IInv'
<1> DEFINE p == Forgotten(cider)
           o == Gate!ClearClient(own, CiderApi)
<1>1. Continues(p, o, cider.fetched) /\ answered' = answered /\ cider.fetched \in Reports
  BY DEF Joined, IInv, TypeOK
<1>2. /\ p \in Providers /\ p.gen = cider.gen /\ p.lang = cider.lang
      /\ p.current = cider.current /\ p.doc = None /\ p.attempted = None
  BY DEF IInv, TypeOK, Providers, Forgotten, Gate!References
<1>3. OwnOK(o)
  BY ClearOffersNothing DEF IInv, Offers
<1> HIDE DEF p, o
<1>4. QED BY <1>1, <1>2, <1>3, ContinuesIsGood DEF IInv, CurrentInv

\* A step that leaves the document, what was observed and the tasks alone.
LEMMA QuietStepIsGood ==
    ASSUME IInv, cider' \in Providers, cider'.phase = "joining" => cider'.fetched \in Reports,
           cider'.gen = cider.gen, cider'.lang = cider.lang, cider'.doc = cider.doc,
           cider'.obs = cider.obs, cider'.current = cider.current,
           cider'.attempted \in {None, cider.attempted},
           SameCandidates(own, own'), UNCHANGED <<requests, answered>>
    PROVE  IInv'
<1>1. TypeOK' /\ RequestsInv' /\ CurrentInv' /\ AttemptedInv' /\ DocumentInv'
  BY DEF IInv, TypeOK, RequestsInv, CurrentInv, AttemptedInv, DocumentInv
<1>2. Offers(own', cider'.obs, cider'.doc)
  BY SameOffers DEF IInv
<1>3. QED BY <1>1, <1>2 DEF IInv

\* A step that cancels the current task: the generation goes on, unless neither the
\* language nor the document changes.
LEMMA CancellingIsGood ==
    ASSUME IInv, cider' \in Providers, cider'.phase = "joining" => cider'.fetched \in Reports,
           cider'.gen >= cider.gen, cider'.gen = cider.gen => cider'.lang = cider.lang,
           cider'.current = None, requests' = CancelCurrent(cider, requests),
           AttemptedInv', DocumentInv', Offers(own', cider'.obs, cider'.doc)
    PROVE  IInv'
<1> DEFINE r == CancelCurrent(cider, requests)
<1>1. /\ r \in [Slots -> Requests \cup {None}]
      /\ \A i \in Slots : r[i] # None => /\ requests[i] # None
                                          /\ r[i].track = requests[i].track
                                          /\ r[i].gen = requests[i].gen
                                          /\ r[i].lang = requests[i].lang
  BY CancelKeeps DEF IInv
<1>2. requests' = r
  OBVIOUS
<1> HIDE DEF r
<1>3. cider.gen \in Nat /\ cider'.gen \in Nat
  BY DEF IInv, TypeOK, Providers
<1>4. RequestsInv'
  <2> SUFFICES ASSUME NEW i \in Slots, r[i] # None
               PROVE  /\ TrackRef(r[i].track) # None
                      /\ r[i].gen <= cider'.gen
                      /\ r[i].gen = cider'.gen => r[i].lang = cider'.lang
    BY <1>2 DEF RequestsInv
  <2>1. /\ TrackRef(requests[i].track) # None /\ requests[i].gen <= cider.gen
        /\ requests[i].gen = cider.gen => requests[i].lang = cider.lang
    BY <1>1 DEF IInv, RequestsInv
  <2>2. r[i].gen \in Nat
    BY <1>1 DEF Requests
  <2>3. QED BY <1>1, <1>3, <2>1, <2>2
<1>5. TypeOK' /\ CurrentInv'
  BY <1>1, <1>2 DEF TypeOK, CurrentInv
<1>6. QED BY <1>4, <1>5 DEF IInv

LEMMA FetchOtherTrackIsGood ==
    ASSUME IInv, NEW obs \in Reports, FetchOtherTrack(obs)
    PROVE  IInv'
<1>1. /\ cider' = [cider EXCEPT !.phase = "joining", !.fetched = obs, !.gen = @ + 1,
                                !.current = None]
      /\ requests' = CancelCurrent(cider, requests) /\ own' = own /\ answered' = answered
  BY DEF FetchOtherTrack
<1> DEFINE gen == cider.gen + 1
<1>2. cider \in Providers /\ cider.gen \in Nat /\ gen \in Nat /\ gen > cider.gen
  BY DEF IInv, TypeOK, Providers
<1>3. cider' = [cider EXCEPT !.phase = "joining", !.fetched = obs, !.gen = gen, !.current = None]
  BY <1>1
<1> HIDE DEF gen
<1>4. /\ cider' \in Providers /\ cider'.fetched = obs /\ cider'.gen = gen
      /\ cider'.current = None /\ cider'.lang = cider.lang /\ cider'.obs = cider.obs
      /\ cider'.doc = cider.doc /\ cider'.attempted = cider.attempted
  BY <1>2, <1>3 DEF Providers
<1>5. AttemptedInv' /\ DocumentInv' /\ Offers(own', cider'.obs, cider'.doc)
  BY <1>1, <1>4 DEF IInv, AttemptedInv, DocumentInv
<1>6. cider'.gen >= cider.gen /\ cider'.gen # cider.gen
  BY <1>2, <1>4
<1>7. QED BY <1>1, <1>4, <1>5, <1>6, CancellingIsGood

\* A task that has ended is no longer the current one.
LEMMA EndedIsGood ==
    ASSUME IInv, NEW i \in Slots, requests' = [requests EXCEPT ![i] = None],
           cider' \in Providers, cider'.phase = cider.phase, cider'.fetched = cider.fetched,
           cider'.gen = cider.gen, cider'.lang = cider.lang, cider'.obs = cider.obs,
           cider'.attempted = cider.attempted, cider'.current = Current(cider, i),
           DocumentInv', Offers(own', cider'.obs, cider'.doc)
    PROVE  IInv'
<1>1. TypeOK' /\ RequestsInv' /\ AttemptedInv'
  BY DEF IInv, TypeOK, RequestsInv, AttemptedInv
<1>2. CurrentInv'
  BY DEF IInv, TypeOK, CurrentInv, Current, Providers
<1>3. QED BY <1>1, <1>2 DEF IInv

LEMMA CancelledEndsIsGood ==
    ASSUME IInv, NEW i \in Slots, CancelledEnds(i)
    PROVE  IInv'
<1> DEFINE current == Current(cider, i)
<1>1. /\ requests' = [requests EXCEPT ![i] = None] /\ cider' = [cider EXCEPT !.current = current]
      /\ own' = own /\ answered' = answered
  BY DEF CancelledEnds
<1>2. current \in Slots \cup {None}
  BY DEF IInv, TypeOK, Providers, Current
<1> HIDE DEF current
<1>3. /\ cider' \in Providers /\ cider'.phase = cider.phase /\ cider'.fetched = cider.fetched
      /\ cider'.gen = cider.gen /\ cider'.lang = cider.lang /\ cider'.obs = cider.obs
      /\ cider'.doc = cider.doc
      /\ cider'.attempted = cider.attempted /\ cider'.current = current
  BY <1>1, <1>2 DEF IInv, TypeOK, Providers
<1>4. DocumentInv' /\ Offers(own', cider'.obs, cider'.doc)
  BY <1>1, <1>3 DEF IInv, DocumentInv
<1>5. QED BY <1>1, <1>3, <1>4, EndedIsGood DEF current

\* An answer that is wanted was asked of the track observed, in the language that is
\* configured still.
LEMMA WantedIsOfTheTrack ==
    ASSUME IInv, NEW i \in Slots, requests[i] # None, Wanted(cider, requests[i])
    PROVE  /\ requests[i] \in Requests /\ cider.obs \in Reports
           /\ RefOf(cider.obs) # None
           /\ requests[i].track.song = cider.obs.track.song
           /\ requests[i].lang = cider.lang
<1>1. /\ requests[i] \in Requests /\ cider.obs \in Reports
  BY DEF IInv, TypeOK, Providers, Wanted
<1>2. /\ requests[i].gen = cider.gen /\ cider.obs.track # None
      /\ RefOf(cider.obs) = TrackRef(requests[i].track)
  BY DEF Wanted
<1>3. TrackRef(requests[i].track) # None /\ requests[i].lang = cider.lang
  BY <1>2 DEF IInv, RequestsInv
<1>4. requests[i].track \in Items /\ cider.obs.track \in Items
  BY <1>1, <1>2, ItemsAreTracks DEF Requests
<1>5. TrackRef(cider.obs.track) = TrackRef(requests[i].track)
  BY <1>1, <1>2, NoneAssumption DEF RefOf
<1>6. QED BY <1>1, <1>2, <1>3, <1>4, <1>5, ItemsAssumption

LEMMA LyricsArriveIsGood ==
    ASSUME IInv, NEW i \in Slots, LyricsArrive(i)
    PROVE  IInv'
<1>1. requests[i] # None /\ requests[i] \in Requests
  BY DEF LyricsArrive, Uncancelled, Alive, IInv, TypeOK
<1>2. requests[i].track \in Items /\ requests[i].lang \in Languages
  BY <1>1 DEF Requests
<1>3. PICK doc \in Fetched[requests[i].track, requests[i].lang] : Answer(i, doc)
  BY DEF LyricsArrive
<1>4. doc \in Documents \cup {None} /\ (doc # None => doc.song \in {requests[i].track.song, None})
  BY <1>2, <1>3, FetchedIsOfTheTrack
<1> DEFINE current == Current(cider, i)
<1>5. current \in Slots \cup {None}
  BY DEF IInv, TypeOK, Providers, Current
<1>6. CASE Wanted(cider, requests[i])
  <2>1. /\ requests' = [requests EXCEPT ![i] = None]
        /\ cider' = [cider EXCEPT !.doc = doc, !.current = current]
        /\ own' = Retaining(own, cider.obs, doc)
        /\ answered' = [ref |-> RefOf(cider.obs), lang |-> requests[i].lang]
    BY <1>3, <1>6 DEF Answer, Publishes
  <2> HIDE DEF current
  <2>2. /\ cider' \in Providers /\ cider'.phase = cider.phase /\ cider'.fetched = cider.fetched
        /\ cider'.gen = cider.gen /\ cider'.lang = cider.lang /\ cider'.obs = cider.obs
        /\ cider'.doc = doc
        /\ cider'.attempted = cider.attempted /\ cider'.current = current
    BY <1>4, <1>5, <2>1 DEF IInv, TypeOK, Providers
  <2>3. answered'.lang = requests[i].lang
    BY <2>1
  <2>4. DocumentInv'
    BY <1>1, <1>4, <1>6, <2>2, <2>3, WantedIsOfTheTrack DEF DocumentInv
  <2>5. Offers(own', cider'.obs, cider'.doc)
    <3>1. OwnOK(own)
      BY DEF IInv, Offers
    <3>2. QED BY <2>1, <2>2, <3>1, RetainingOffers
  <2>6. QED BY <2>1, <2>2, <2>4, <2>5, EndedIsGood DEF current
<1>7. CASE ~Wanted(cider, requests[i])
  <2>1. /\ requests' = [requests EXCEPT ![i] = None] /\ cider' = [cider EXCEPT !.current = current]
        /\ own' = own /\ answered' = answered
    BY <1>3, <1>7 DEF Answer
  <2> HIDE DEF current
  <2>2. /\ cider' \in Providers /\ cider'.phase = cider.phase /\ cider'.fetched = cider.fetched
        /\ cider'.gen = cider.gen /\ cider'.lang = cider.lang /\ cider'.obs = cider.obs
        /\ cider'.doc = cider.doc
        /\ cider'.attempted = cider.attempted /\ cider'.current = current
    BY <1>5, <2>1 DEF IInv, TypeOK, Providers
  <2>3. DocumentInv' /\ Offers(own', cider'.obs, cider'.doc)
    BY <2>1, <2>2 DEF IInv, DocumentInv
  <2>4. QED BY <2>1, <2>2, <2>3, EndedIsGood DEF current
<1>8. QED BY <1>6, <1>7

\* A cleared provider observes nothing and holds no document.
LEMMA ClearingIsGood ==
    ASSUME IInv, cider' \in Providers, cider'.phase = "joining" => cider'.fetched \in Reports,
           cider'.gen >= cider.gen, cider'.gen # cider.gen, cider'.attempted = None, cider'.doc = None, cider'.current = None,
           requests' = CancelCurrent(cider, requests),
           own' = Gate!ClearClient(own, CiderApi)
    PROVE  IInv'
<1>1. AttemptedInv' /\ DocumentInv'
  BY DEF AttemptedInv, DocumentInv
<1>2. OwnOK(own)
  BY DEF IInv, Offers
<1>3. Offers(own', cider'.obs, cider'.doc)
  BY <1>2, ClearOffersNothing
<1>4. QED BY <1>1, <1>3, CancellingIsGood

LEMMA SetEnabledIsGood ==
    ASSUME IInv, NEW enabled \in BOOLEAN, SetEnabled(enabled)
    PROVE  IInv'
<1>1. CASE enabled
  <2>1. /\ cider' = [cider EXCEPT !.enabled = TRUE, !.attempted = None]
        /\ UNCHANGED <<own, requests, answered>>
    BY <1>1 DEF SetEnabled
  <2>2. /\ cider' \in Providers /\ cider'.phase = cider.phase /\ cider'.fetched = cider.fetched
        /\ cider'.gen = cider.gen /\ cider'.lang = cider.lang /\ cider'.obs = cider.obs
        /\ cider'.doc = cider.doc /\ cider'.attempted = None /\ cider'.current = cider.current
    BY <2>1 DEF IInv, TypeOK, Providers, Gate!References
  <2>3. SameCandidates(own, own')
    BY <2>1 DEF IInv, Offers, SameCandidates
  <2>4. cider'.phase = "joining" => cider'.fetched \in Reports
    BY <2>2 DEF IInv, TypeOK
  <2>5. QED BY <2>1, <2>2, <2>3, <2>4, QuietStepIsGood
<1>2. CASE ~enabled
  <2> DEFINE gen == cider.gen + 1
  <2>1. cider \in Providers /\ cider.gen \in Nat /\ gen \in Nat /\ gen > cider.gen
    BY DEF IInv, TypeOK, Providers
  <2>2. /\ cider' = [cider EXCEPT !.enabled = FALSE, !.current = None, !.gen = gen,
                                  !.doc = None, !.obs = None, !.attempted = None]
        /\ requests' = CancelCurrent(cider, requests)
        /\ own' = Gate!ClearClient(own, CiderApi)
    BY <1>2, <2>1 DEF SetEnabled, Cleared, ShowsCleared, Providers
  <2> HIDE DEF gen
  <2>3. /\ cider' \in Providers /\ cider'.phase = cider.phase /\ cider'.fetched = cider.fetched
        /\ cider'.gen = gen /\ cider'.doc = None /\ cider'.obs = None
        /\ cider'.attempted = None /\ cider'.current = None
    BY <2>1, <2>2 DEF Providers, Gate!References
  <2>4. cider'.phase = "joining" => cider'.fetched \in Reports
    BY <2>3 DEF IInv, TypeOK
  <2>5. cider'.gen >= cider.gen /\ cider'.gen # cider.gen
    BY <2>1, <2>3
  <2>6. QED BY <2>2, <2>3, <2>4, <2>5, ClearingIsGood
<1>3. QED BY <1>1, <1>2

LEMMA SetTranslationLanguageIsGood ==
    ASSUME IInv, NEW lang \in Languages, SetTranslationLanguage(lang)
    PROVE  IInv'
<1> DEFINE gen == cider.gen + 1
<1>1. cider \in Providers /\ cider.gen \in Nat /\ gen \in Nat /\ gen > cider.gen
  BY DEF IInv, TypeOK, Providers
<1>2. /\ cider' = [cider EXCEPT !.lang = lang, !.attempted = None, !.doc = None, !.gen = gen,
                                !.current = None]
      /\ requests' = CancelCurrent(cider, requests)
      /\ own' = Gate!ClearClient(own, CiderApi)
  BY DEF SetTranslationLanguage, Translated
<1> HIDE DEF gen
<1>3. /\ cider' \in Providers /\ cider'.phase = cider.phase /\ cider'.fetched = cider.fetched
      /\ cider'.gen = gen /\ cider'.doc = None
      /\ cider'.attempted = None /\ cider'.current = None
  BY <1>1, <1>2 DEF Providers, Gate!References
<1>4. cider'.phase = "joining" => cider'.fetched \in Reports
  BY <1>3 DEF IInv, TypeOK
<1>5. cider'.gen >= cider.gen /\ cider'.gen # cider.gen
  BY <1>1, <1>3
<1>6. QED BY <1>2, <1>3, <1>4, <1>5, ClearingIsGood

LEMMA StopIsGood ==
    ASSUME IInv, Stop
    PROVE  IInv'
<1>1. /\ cider' = [cider EXCEPT !.phase = "stopping", !.fetched = None, !.current = None]
      /\ requests' = CancelCurrent(cider, requests) /\ own' = own /\ answered' = answered
  BY DEF Stop
<1>2. /\ cider' \in Providers /\ cider'.phase = "stopping" /\ cider'.gen = cider.gen
      /\ cider'.lang = cider.lang /\ cider'.obs = cider.obs /\ cider'.doc = cider.doc
      /\ cider'.attempted = cider.attempted /\ cider'.current = None
  BY <1>1 DEF IInv, TypeOK, Providers
<1>3. cider'.gen >= cider.gen
  BY <1>2 DEF IInv, TypeOK, Providers
<1>4. AttemptedInv' /\ DocumentInv' /\ Offers(own', cider'.obs, cider'.doc)
  BY <1>1, <1>2 DEF IInv, AttemptedInv, DocumentInv
<1>5. QED BY <1>1, <1>2, <1>3, <1>4, CancellingIsGood

LEMMA StoppedIsGood ==
    ASSUME IInv, Stopped
    PROVE  IInv'
<1> DEFINE gen == cider.gen + 1
<1>1. cider \in Providers /\ cider.gen \in Nat /\ gen \in Nat /\ gen > cider.gen
  BY DEF IInv, TypeOK, Providers
<1>2. /\ cider' = [cider EXCEPT !.gen = gen, !.doc = None, !.obs = None, !.attempted = None,
                                !.phase = "off"]
      /\ requests' = requests /\ own' = Gate!ClearClient(own, CiderApi) /\ Alive = {}
  BY DEF Stopped, Cleared, ShowsCleared
<1>3. cider.current = None
  BY <1>1, <1>2 DEF IInv, CurrentInv, Alive, Providers
<1>4. requests' = CancelCurrent(cider, requests)
  BY <1>2, <1>3 DEF CancelCurrent
<1> HIDE DEF gen
<1>5. /\ cider' \in Providers /\ cider'.phase = "off" /\ cider'.gen = gen
      /\ cider'.doc = None /\ cider'.attempted = None /\ cider'.current = None
  BY <1>1, <1>2, <1>3 DEF Providers, Gate!References
<1>6. cider'.gen >= cider.gen /\ cider'.gen # cider.gen /\ cider'.phase # "joining"
  BY <1>1, <1>5
<1>7. QED BY <1>2, <1>4, <1>5, <1>6, ClearingIsGood

\* Starting, sending a poll and a poll that fails move nothing but the phase.
LEMMA PollingIsGood ==
    ASSUME IInv, Start \/ Poll \/ FetchFails
    PROVE  IInv'
<1>1. PICK phase \in {"idle", "fetching"} : cider' = [cider EXCEPT !.phase = phase]
  BY DEF Start, Poll, FetchFails
<1>2. UNCHANGED <<own, requests, answered>>
  BY DEF Start, Poll, FetchFails
<1>3. /\ cider' \in Providers /\ cider'.phase # "joining"
      /\ cider'.gen = cider.gen /\ cider'.lang = cider.lang /\ cider'.obs = cider.obs
      /\ cider'.doc = cider.doc /\ cider'.attempted = cider.attempted
      /\ cider'.current = cider.current
  BY <1>1 DEF IInv, TypeOK, Providers
<1>4. SameCandidates(own, own')
  BY <1>2 DEF IInv, Offers, SameCandidates
<1>5. QED BY <1>2, <1>3, <1>4, QuietStepIsGood

\* The environment moves the owner of the display and its slots, not what Cider offers.
LEMMA EnvironmentIsGood ==
    ASSUME IInv, Reserve \/ BindLive \/ Release \/ Configure
    PROVE  IInv'
<1>1. UNCHANGED <<cider, requests, answered>>
  BY DEF Reserve, BindLive, Release, Configure
<1>2. OwnOK(own)
  BY DEF IInv, Offers
<1>3. SameCandidates(own, own')
  <2>1. CASE Reserve
    BY <1>2, <2>1, SelectKeeps DEF Reserve
  <2>2. CASE BindLive
    <3>1. PICK obs \in LocalReports : own' = Gate!SelectLive(own, Gate!CurrentMatch(own, obs.track.song))
      BY <2>2 DEF BindLive
    <3>2. QED BY <1>2, <3>1, SelectKeeps
  <2>3. CASE Release
    BY <1>2, <2>3, SelectKeeps DEF Release
  <2>4. CASE Configure
    BY <1>2, <2>4, ConfigureKeeps DEF Configure
  <2>5. QED BY <2>1, <2>2, <2>3, <2>4
<1>4. cider' \in Providers /\ (cider'.phase = "joining" => cider'.fetched \in Reports)
  BY <1>1 DEF IInv, TypeOK
<1>5. QED BY <1>1, <1>3, <1>4, QuietStepIsGood

-------------------------------------------------------------------------------
(* The theorems.                                                           *)

LEMMA StepIsGood == IInv /\ [Next]_vars => IInv'
<1> SUFFICES ASSUME IInv, [Next]_vars PROVE IInv'
  OBVIOUS
<1>1. CASE Start \/ Poll \/ FetchFails
  BY <1>1, PollingIsGood
<1>2. CASE Fetch
  <2>1. PICK obs \in Reports : FetchSameTrack(obs) \/ FetchOtherTrack(obs)
    BY <1>2 DEF Fetch
  <2>2. QED BY <2>1, FetchSameTrackIsGood, FetchOtherTrackIsGood
<1>3. CASE Joined
  BY <1>3, JoinedIsGood
<1>4. CASE Stop \/ Stopped
  BY <1>4, StopIsGood, StoppedIsGood
<1>5. CASE \E i \in Slots : RequestEnds(i)
  BY <1>5, CancelledEndsIsGood, LyricsArriveIsGood DEF RequestEnds
<1>6. CASE \E enabled \in BOOLEAN : SetEnabled(enabled)
  BY <1>6, SetEnabledIsGood
<1>7. CASE \E lang \in Languages : SetTranslationLanguage(lang)
  BY <1>7, SetTranslationLanguageIsGood
<1>8. CASE Reserve \/ BindLive \/ Release \/ Configure
  BY <1>8, EnvironmentIsGood
<1>9. CASE UNCHANGED vars
  BY <1>9 DEF vars, IInv, TypeOK, RequestsInv, CurrentInv, AttemptedInv, DocumentInv
<1>10. QED
  BY <1>1, <1>2, <1>3, <1>4, <1>5, <1>6, <1>7, <1>8, <1>9 DEF Next, Provider

\* In every reachable state of every instance, the provider, its tasks and the
\* candidate the gate retains for it agree as IInv says.
THEOREM Invariance == Spec => []IInv
<1>1. Init => IInv
  BY InitIsGood
<1>2. IInv /\ [Next]_vars => IInv'
  BY StepIsGood
<1>3. QED BY <1>1, <1>2, PTL DEF Spec

\* The provider and its tasks always have their types: a poll that waits for the
\* tasks of the former track still holds what it has fetched.
THEOREM TypeCorrect == Spec => []TypeOK
<1>1. IInv => TypeOK
  BY DEF IInv
<1>2. QED BY <1>1, Invariance, PTL

\* _poll_once, _load_lyrics: the lyrics Cider's candidate carries are of the track it
\* carries them with, as far as Cider says whose they are, they are those the
\* provider holds, and they were asked for in the language now configured.
THEOREM LyricsAreAlwaysOfTheTrack == Spec => []LyricsAreOfTheTrack
<1>1. IInv => LyricsAreOfTheTrack
  <2> SUFFICES ASSUME IInv PROVE LyricsAreOfTheTrack
    OBVIOUS
  <2> DEFINE cand == own.cands[CiderApi]
  <2>1. cider.doc # None => answered.lang = cider.lang
    BY DEF IInv, DocumentInv
  <2>2. CASE cand # None /\ cand.doc # None
    <3>1. cand.doc = cider.doc /\ cand.obs = cider.obs
      BY <2>2 DEF IInv, Offers
    <3>2. RefOf(cider.obs) # None /\ cider.doc.song \in {cider.obs.track.song, None}
      BY <2>2, <3>1 DEF IInv, DocumentInv
    <3>3. cider.obs.track # None
      BY <3>2 DEF RefOf, TrackRef
    <3>4. QED BY <2>1, <3>1, <3>2, <3>3 DEF LyricsAreOfTheTrack
  <2>3. CASE ~(cand # None /\ cand.doc # None)
    BY <2>1, <2>3 DEF LyricsAreOfTheTrack
  <2>4. QED BY <2>2, <2>3
<1>2. QED BY <1>1, Invariance, PTL
===============================================================================
