------------------------- MODULE SourceOwnershipProofs -------------------------
(***************************************************************************)
(* Proofs about SourceOwnership, for every set of connections, every       *)
(* snapshot and every slot order.                                          *)
(***************************************************************************)
EXTENDS SourceOwnership, WellFoundedInduction, TLAPS

\* Every non-empty set of naturals has a least element.
LEMMA LeastNatural ==
    ASSUME NEW S \in SUBSET Nat, S # {}
    PROVE  \E m \in S : \A n \in S : m <= n
<1>1. PICK m \in S : \A n \in S : ~ (<<n, m>> \in OpToRel(<, Nat))
  BY NatLessThanWellFounded, WFMin
<1>2. \A n \in S : ~ (n < m)
  BY <1>1 DEF OpToRel
<1>3. QED BY <1>2

-------------------------------------------------------------------------------
(* Arbitration.                                                            *)

CandidateMaps == [Clients -> Candidates \cup {None}]

\* No two retained candidates carry the same revision.
Distinct(cands) ==
    \A c, d \in Retained(cands) : c # d => cands[c].seq # cands[d].seq

\* A slot priority is an index of the source list, or one past its end.
LEMMA PriorityType ==
    ASSUME NEW cands \in CandidateMaps, NEW sources \in Seq(DisplaySources), NEW c
    PROVE  Priority(cands, sources, c) \in Nat
<1>1. DOMAIN sources = 1 .. Len(sources) /\ Len(sources) \in Nat
  OBVIOUS
<1>2. CASE Enabled(cands, sources, c)
  <2>1. \E i \in DOMAIN sources : sources[i] = SlotOf(cands, c)
    BY <1>2 DEF Enabled, SlotEnabled
  <2>2. Priority(cands, sources, c) \in DOMAIN sources
    BY <1>2, <2>1 DEF Priority
  <2>3. QED BY <1>1, <2>2
<1>3. CASE ~Enabled(cands, sources, c)
  BY <1>1, <1>3 DEF Priority
<1>4. QED BY <1>2, <1>3

\* A stamp that orders the clients of a set: natural, bounded and injective.
Stamps(stamp, S) ==
    /\ \E bound \in Nat : \A c \in S : stamp[c] \in 0 .. bound
    /\ \A c, d \in S : c # d => stamp[c] # stamp[d]

\* A non-empty set of clients has a first one in the arbitration order.
LEMMA FirstExists ==
    ASSUME NEW cands \in CandidateMaps, NEW sources \in Seq(DisplaySources),
           NEW S, S # {}, NEW stamp, Stamps(stamp, S)
    PROVE  \E c \in S : \A d \in S \ {c} : Precedes(cands, sources, stamp, c, d)
<1> PICK bound \in Nat : \A c \in S : stamp[c] \in 0 .. bound
  BY DEF Stamps
<1> DEFINE rank(c) == Priority(cands, sources, c)
           age(c) == bound - stamp[c]
<1>1. \A c \in S : rank(c) \in Nat
  BY PriorityType
<1>2. \A c \in S : stamp[c] \in Nat /\ age(c) \in Nat
  OBVIOUS
<1>3. PICK p \in {rank(c) : c \in S} : \A q \in {rank(c) : c \in S} : p <= q
  <2>1. {rank(c) : c \in S} \in SUBSET Nat /\ {rank(c) : c \in S} # {}
    BY <1>1
  <2>2. QED BY <2>1, LeastNatural
<1> DEFINE T == {c \in S : rank(c) = p}
<1>4. PICK a \in {age(c) : c \in T} : \A b \in {age(c) : c \in T} : a <= b
  <2>1. {age(c) : c \in T} \in SUBSET Nat /\ {age(c) : c \in T} # {}
    BY <1>2, <1>3
  <2>2. QED BY <2>1, LeastNatural
<1>5. PICK c \in T : age(c) = a
  BY <1>4
<1>6. ASSUME NEW d \in S \ {c} PROVE Precedes(cands, sources, stamp, c, d)
  <2>1. rank(c) <= rank(d)
    BY <1>3, <1>5
  <2>2. CASE rank(c) < rank(d)
    BY <2>2 DEF Precedes
  <2>3. CASE rank(c) = rank(d)
    <3>1. d \in T
      BY <1>5, <2>3
    <3>2. age(c) <= age(d)
      BY <1>4, <1>5, <3>1
    <3>3. stamp[c] # stamp[d]
      BY <1>5, <1>6 DEF Stamps
    <3>4. stamp[c] > stamp[d]
      BY <1>2, <1>5, <3>2, <3>3
    <3>5. QED BY <2>3, <3>4 DEF Precedes
  <2>4. QED BY <1>1, <1>5, <2>1, <2>2, <2>3
<1>7. QED BY <1>5, <1>6

\* First is that client.
LEMMA FirstIsBest ==
    ASSUME NEW cands \in CandidateMaps, NEW sources \in Seq(DisplaySources),
           NEW S, S # {}, NEW stamp, Stamps(stamp, S)
    PROVE  /\ First(cands, sources, stamp, S) \in S
           /\ \A d \in S :
                ~Precedes(cands, sources, stamp, d, First(cands, sources, stamp, S))
<1> DEFINE f == First(cands, sources, stamp, S)
<1>1. f \in S /\ \A d \in S \ {f} : Precedes(cands, sources, stamp, f, d)
  BY FirstExists DEF First
<1>2. ASSUME NEW d \in S PROVE ~Precedes(cands, sources, stamp, d, f)
  <2>1. Priority(cands, sources, d) \in Nat /\ Priority(cands, sources, f) \in Nat
    BY PriorityType
  <2>2. stamp[d] \in Nat /\ stamp[f] \in Nat
    BY <1>1 DEF Stamps
  <2>3. CASE d = f
    BY <2>1, <2>2, <2>3 DEF Precedes
  <2>4. CASE d # f
    <3>1. Precedes(cands, sources, stamp, f, d)
      BY <1>1, <2>4
    <3>2. QED BY <2>1, <2>2, <3>1 DEF Precedes
  <2>5. QED BY <2>3, <2>4
<1>3. QED BY <1>1, <1>2

\* Retained revisions are distinct naturals, so they order the candidates.
LEMMA RevisionsAreStamps ==
    ASSUME NEW cands \in CandidateMaps, Distinct(cands),
           NEW S \in SUBSET Retained(cands)
    PROVE  Stamps(Revisions(cands), S)
<1>1. \A c \in S : Revisions(cands)[c] = cands[c].seq
  BY DEF Revisions
<1>2. \A c \in S : cands[c].seq \in 0 .. MaxSequence
  BY ClientsAssumption DEF CandidateMaps, Candidates, Retained
<1>3. QED BY <1>1, <1>2, ClientsAssumption DEF Stamps, Distinct
-------------------------------------------------------------------------------
(* The inductive invariant.                                                *)

\* What the registry keeps: revisions and clock stamps are unique and not ahead
\* of their counters, and a clock refers to its client's retained snapshot or to
\* an older one.
ClocksOK(timings, tick) ==
    \A c, d \in {x \in Clients : timings[x] # None} :
        /\ timings[c].tick <= tick
        /\ c # d => timings[c].tick # timings[d].tick

RegistryOK(s) ==
    /\ s \in States
    /\ Distinct(s.cands)
    /\ \A c \in Retained(s.cands) : s.cands[c].seq <= s.seq
    /\ \A c \in Clients : s.timings[c] # None =>
           /\ c \in Retained(s.cands)
           /\ s.timings[c].seq <= s.cands[c].seq
           /\ s.timings[c].seq = s.cands[c].seq =>
                  s.timings[c].ref = TrackRef(s.cands[c].obs.track)
    /\ ClocksOK(s.timings, s.tick)

\* What the ownership mode promises.
ModeOK(s) ==
    /\ s.mode = "live" => s.bound \in Clients
    /\ s.mode = "live" /\ s.bound \in Connections => s.bound \in Retained(s.cands)
    /\ s.mode = "external" => SlotEnabled(s.sources, "mpris")
    /\ s.mode = "standalone" => s.bound = Owner(s.cands, s.sources)

IInv == RegistryOK(own) /\ ModeOK(own)

\* An election yields a client or nobody.
LEMMA OwnerType ==
    ASSUME NEW cands \in CandidateMaps, NEW sources \in Seq(DisplaySources),
           Distinct(cands)
    PROVE  Owner(cands, sources) \in Clients \cup {None}
<1>1. Eligible(cands, sources) \in SUBSET Retained(cands)
  BY DEF Eligible, WithLyrics, Active
<1>2. CASE Eligible(cands, sources) = {}
  BY <1>2 DEF Owner, First
<1>3. CASE Eligible(cands, sources) # {}
  <2>1. Stamps(Revisions(cands), Eligible(cands, sources))
    BY <1>1, RevisionsAreStamps
  <2>2. Owner(cands, sources) \in Eligible(cands, sources)
    BY <1>3, <2>1, FirstIsBest DEF Owner
  <2>3. Owner(cands, sources) \in Retained(cands)
    BY <1>1, <2>2
  <2>4. QED BY <2>3 DEF Retained
<1>4. QED BY <1>2, <1>3

\* An election establishes the standalone part of the invariant.
LEMMA ElectOK ==
    ASSUME NEW s, RegistryOK(s)
    PROVE  RegistryOK(Elect(s)) /\ ModeOK(Elect(s))
<1>1. Owner(s.cands, s.sources) \in Clients \cup {None}
  BY OwnerType DEF RegistryOK, States, CandidateMaps
<1>2. /\ Elect(s) \in States
      /\ Elect(s).mode = "standalone"
      /\ Elect(s).bound = Owner(s.cands, s.sources)
      /\ Elect(s).cands = s.cands /\ Elect(s).sources = s.sources
      /\ Elect(s).timings = s.timings /\ Elect(s).seq = s.seq /\ Elect(s).tick = s.tick
  BY <1>1 DEF RegistryOK, States, Elect
<1>3. QED BY <1>2 DEF RegistryOK, ModeOK

\* Outside standalone mode nothing is elected, so the mode must already hold.
LEMMA ElectIfStandaloneOK ==
    ASSUME NEW s, RegistryOK(s), s.mode # "standalone" => ModeOK(s)
    PROVE  RegistryOK(ElectIfStandalone(s)) /\ ModeOK(ElectIfStandalone(s))
BY ElectOK DEF ElectIfStandalone

\* select_external keeps the invariant.
LEMMA SelectExternalOK ==
    ASSUME NEW s, RegistryOK(s)
    PROVE  RegistryOK(SelectExternal(s)) /\ ModeOK(SelectExternal(s))
<1>1. CASE SlotEnabled(s.sources, "mpris")
  <2> DEFINE t == [s EXCEPT !.mode = "external", !.bound = Mpris]
  <2>1. /\ t \in States /\ t.mode = "external"
        /\ t.cands = s.cands /\ t.sources = s.sources
        /\ t.timings = s.timings /\ t.seq = s.seq
    BY DEF RegistryOK, States
  <2>2. RegistryOK(t) /\ ModeOK(t)
    BY <1>1, <2>1 DEF RegistryOK, ModeOK
  <2>3. QED BY <1>1, <2>2 DEF SelectExternal
<1>2. CASE ~SlotEnabled(s.sources, "mpris")
  BY <1>2, ElectOK DEF SelectExternal, SelectStandalone
<1>3. QED BY <1>1, <1>2

\* select_live keeps the invariant when it is given a retained client.
LEMMA SelectLiveOK ==
    ASSUME NEW s, RegistryOK(s), NEW c \in Retained(s.cands)
    PROVE  RegistryOK(SelectLive(s, c)) /\ ModeOK(SelectLive(s, c))
<1>1. CASE Enabled(s.cands, s.sources, c)
  <2> DEFINE t == [s EXCEPT !.mode = "live", !.bound = c]
  <2>0. c \in Clients
    BY DEF Retained
  <2>1. /\ t \in States /\ t.mode = "live" /\ t.bound = c
        /\ t.cands = s.cands /\ t.sources = s.sources
        /\ t.timings = s.timings /\ t.seq = s.seq
    BY <2>0 DEF RegistryOK, States
  <2>2. RegistryOK(t) /\ ModeOK(t)
    BY <2>0, <2>1 DEF RegistryOK, ModeOK
  <2>3. QED BY <1>1, <2>2 DEF SelectLive
<1>2. CASE ~Enabled(s.cands, s.sources, c)
  BY <1>2, ElectOK DEF SelectLive, SelectStandalone
<1>3. QED BY <1>1, <1>2

\* set_display_sources keeps the invariant.
LEMMA SetDisplaySourcesOK ==
    ASSUME NEW s, RegistryOK(s), ModeOK(s), NEW raw \in DisplaySourceLists
    PROVE  LET t == SetDisplaySources(s, raw) IN RegistryOK(t) /\ ModeOK(t)
<1> DEFINE u == [s EXCEPT !.sources = Normalized(raw)]
<1>1. /\ u \in States /\ u.mode = s.mode /\ u.bound = s.bound
      /\ u.cands = s.cands /\ u.sources = Normalized(raw)
      /\ u.timings = s.timings /\ u.seq = s.seq
  BY ClientsAssumption DEF RegistryOK, States
<1>2. RegistryOK(u)
  BY <1>1 DEF RegistryOK
<1> DEFINE lost == \/ s.mode = "external" /\ ~SlotEnabled(u.sources, "mpris")
                   \/ s.mode = "live" /\ ~Enabled(s.cands, u.sources, s.bound)
<1>3. CASE u = s
  BY <1>3 DEF SetDisplaySources
<1>4. CASE u # s /\ lost
  <2>1. SetDisplaySources(s, raw) = Elect(u)
    BY <1>4 DEF SetDisplaySources, SelectStandalone
  <2>2. QED BY <1>2, <2>1, ElectOK
<1>5. CASE u # s /\ ~lost
  <2>1. SetDisplaySources(s, raw) = ElectIfStandalone(u)
    BY <1>5 DEF SetDisplaySources
  <2>2. s.mode \in {"standalone", "external", "live"}
    BY DEF RegistryOK, States
  <2>3. u.mode # "standalone" => ModeOK(u)
    BY <1>1, <1>5, <2>2 DEF ModeOK
  <2>4. QED BY <1>2, <2>1, <2>3, ElectIfStandaloneOK
<1>6. QED BY <1>3, <1>4, <1>5

\* observe keeps the invariant.
LEMMA ObserveOK ==
    ASSUME NEW s, RegistryOK(s), ModeOK(s), s.seq < MaxSequence,
           NEW c \in Clients, NEW obs \in Observations, NEW doc \in Documents \cup {None}
    PROVE  LET t == Observe(s, c, obs, doc) IN RegistryOK(t) /\ ModeOK(t)
<1> DEFINE cand == [seq |-> s.seq + 1, obs |-> obs, doc |-> doc]
           u == [s EXCEPT !.seq = @ + 1, !.cands[c] = cand]
<1>1. s \in States /\ s.seq \in Nat /\ MaxSequence \in Nat
  BY ClientsAssumption DEF RegistryOK, States
<1>2. cand \in Candidates /\ cand # None
  BY <1>1, ClientsAssumption DEF Candidates
<1>3. /\ u \in States /\ u.mode = s.mode /\ u.bound = s.bound
      /\ u.cands = [s.cands EXCEPT ![c] = cand] /\ u.sources = s.sources
      /\ u.timings = s.timings /\ u.seq = s.seq + 1
  <2> HIDE DEF cand
  <2>1. [s.cands EXCEPT ![c] = cand] \in [Clients -> Candidates \cup {None}]
    BY <1>1, <1>2 DEF States
  <2>2. s.seq + 1 \in 0 .. MaxSequence
    BY <1>1
  <2>3. QED BY <1>1, <2>1, <2>2 DEF States
<1>4. Retained(u.cands) = Retained(s.cands) \cup {c}
  BY <1>1, <1>2, <1>3 DEF Retained, States
<1>5. \A d \in Retained(s.cands) : s.cands[d].seq \in Nat /\ s.cands[d].seq <= s.seq
  BY <1>1 DEF RegistryOK, States, Candidates, Retained
<1>6. \A d \in Clients : u.cands[d] = IF d = c THEN cand ELSE s.cands[d]
  BY <1>1, <1>3 DEF States
<1>7. Distinct(u.cands)
  BY <1>1, <1>4, <1>5, <1>6 DEF Distinct, Retained, RegistryOK
<1>8. \A d \in Retained(u.cands) : u.cands[d].seq <= u.seq
  BY <1>1, <1>3, <1>4, <1>5, <1>6 DEF Retained
<1>9. ASSUME NEW d \in Clients, u.timings[d] # None
      PROVE  /\ d \in Retained(u.cands)
             /\ u.timings[d].seq <= u.cands[d].seq
             /\ u.timings[d].seq = u.cands[d].seq =>
                    u.timings[d].ref = TrackRef(u.cands[d].obs.track)
  <2>1. /\ d \in Retained(s.cands) /\ s.timings[d].seq <= s.cands[d].seq
        /\ s.timings[d].seq = s.cands[d].seq =>
               s.timings[d].ref = TrackRef(s.cands[d].obs.track)
    BY <1>3, <1>9 DEF RegistryOK
  <2>2. s.timings[d].seq \in Nat
    BY <1>1, <1>3, <1>9 DEF States, Timings
  <2>3. CASE d = c
    <3>1. u.cands[d].seq = s.seq + 1
      BY <1>6, <2>3
    <3>2. s.timings[d].seq < s.seq + 1
      BY <1>1, <1>5, <2>1, <2>2
    <3>3. QED BY <1>1, <1>3, <1>4, <2>2, <2>3, <3>1, <3>2
  <2>4. CASE d # c
    BY <1>3, <1>4, <1>6, <2>1, <2>4
  <2>5. QED BY <2>3, <2>4
<1>10. RegistryOK(u)
  BY <1>3, <1>7, <1>8, <1>9 DEF RegistryOK
<1>11. u.mode # "standalone" => ModeOK(u)
  BY <1>3, <1>4 DEF ModeOK
<1>12. Observe(s, c, obs, doc) = ElectIfStandalone(u)
  BY DEF Observe
<1>13. QED BY <1>10, <1>11, <1>12, ElectIfStandaloneOK

\* observe_clock keeps the invariant.
LEMMA ObserveClockOK ==
    ASSUME NEW s, RegistryOK(s), ModeOK(s), s.tick < MaxTick,
           NEW c \in Clients, NEW ref
    PROVE  LET t == ObserveClock(s, c, ref) IN RegistryOK(t) /\ ModeOK(t)
<1>1. CASE ~ClockAccepted(s, c, ref)
  BY <1>1 DEF ObserveClock
<1>2. CASE ClockAccepted(s, c, ref)
  <2> DEFINE timing == [tick |-> s.tick + 1, seq |-> s.cands[c].seq, ref |-> ref]
             u == [s EXCEPT !.tick = @ + 1, !.timings[c] = timing]
  <2>1. s \in States /\ s.tick + 1 \in 1 .. MaxTick /\ s.tick + 1 \in 0 .. MaxTick
    BY ClientsAssumption DEF RegistryOK, States
  <2>2. s.cands[c] \in Candidates /\ c \in Retained(s.cands)
    BY <1>2, <2>1 DEF ClockAccepted, Retained, States
  <2>3. ref \in References
    BY <1>2, <2>2 DEF ClockAccepted, References, Candidates, Observations, TrackRef
  <2>4. timing \in Timings
    BY <2>1, <2>2, <2>3 DEF Timings, Candidates
  <2>5. [s.timings EXCEPT ![c] = timing] \in [Clients -> Timings \cup {None}]
    <3> HIDE DEF timing
    <3>1. QED BY <2>1, <2>4 DEF States
  <2>6. /\ u \in States /\ u.mode = s.mode /\ u.bound = s.bound
        /\ u.cands = s.cands /\ u.sources = s.sources /\ u.seq = s.seq
        /\ u.timings = [s.timings EXCEPT ![c] = timing]
    <3> HIDE DEF timing
    <3>1. QED BY <2>1, <2>5 DEF States
  <2>7. ASSUME NEW d \in Clients, u.timings[d] # None
        PROVE  /\ d \in Retained(u.cands)
               /\ u.timings[d].seq <= u.cands[d].seq
               /\ u.timings[d].seq = u.cands[d].seq =>
                      u.timings[d].ref = TrackRef(u.cands[d].obs.track)
    <3>1. CASE d = c
      <4>1. u.timings[d] = timing
        BY <2>1, <2>6, <3>1 DEF States
      <4>2. s.cands[c].seq \in Nat
        BY <2>2, ClientsAssumption DEF Candidates
      <4>3. QED BY <1>2, <2>2, <2>6, <3>1, <4>1, <4>2 DEF ClockAccepted
    <3>2. CASE d # c
      <4>1. u.timings[d] = s.timings[d]
        BY <2>1, <2>6, <3>2 DEF States
      <4>2. QED BY <2>6, <2>7, <4>1 DEF RegistryOK
    <3>3. QED BY <3>1, <3>2
  <2>8. RegistryOK(u) /\ ModeOK(u)
    <3>1. u.timings[c].tick = s.tick + 1 /\ u.tick = s.tick + 1 /\ s.tick \in Nat
      BY <2>1, <2>6 DEF States
    <3>2. \A d \in Clients : d # c => u.timings[d] = s.timings[d]
      BY <2>1, <2>6 DEF States
    <3>3. \A d \in Clients : s.timings[d] # None =>
              s.timings[d].tick \in Nat /\ s.timings[d].tick <= s.tick
      BY <2>1, ClientsAssumption DEF RegistryOK, ClocksOK, States, Timings
    <3>4. ClocksOK(u.timings, u.tick)
      <4> HIDE DEF u
      <4>1. QED BY <3>1, <3>2, <3>3 DEF ClocksOK, RegistryOK
    <3>5. QED BY <2>6, <2>7, <3>4 DEF RegistryOK, ModeOK
  <2>9. ObserveClock(s, c, ref) = u
    BY <1>2 DEF ObserveClock
  <2>10. QED BY <2>8, <2>9
<1>3. QED BY <1>1, <1>2

\* Clearing a client, seen before the election that may follow it.
LEMMA ClearedOK ==
    ASSUME NEW s, RegistryOK(s), s.seq < MaxSequence, NEW c \in Clients
    PROVE  LET u == [s EXCEPT !.timings[c] = None, !.cands[c] = None,
                              !.seq = IF s.cands[c] # None THEN @ + 1 ELSE @]
           IN  /\ RegistryOK(u)
               /\ u.mode = s.mode /\ u.bound = s.bound /\ u.sources = s.sources
               /\ Retained(u.cands) = Retained(s.cands) \ {c}
<1> DEFINE seq == IF s.cands[c] # None THEN s.seq + 1 ELSE s.seq
           u == [s EXCEPT !.timings[c] = None, !.cands[c] = None, !.seq = seq]
<1>1. /\ s \in States /\ seq \in 0 .. MaxSequence /\ s.seq \in Nat /\ seq \in Nat
      /\ s.seq <= seq
  BY ClientsAssumption DEF RegistryOK, States
<1>2. /\ [s.timings EXCEPT ![c] = None] \in [Clients -> Timings \cup {None}]
      /\ [s.cands EXCEPT ![c] = None] \in [Clients -> Candidates \cup {None}]
  BY <1>1 DEF States
<1>3. /\ u \in States /\ u.mode = s.mode /\ u.bound = s.bound /\ u.sources = s.sources
      /\ u.timings = [s.timings EXCEPT ![c] = None]
      /\ u.cands = [s.cands EXCEPT ![c] = None]
      /\ u.seq = seq
  <2> HIDE DEF seq
  <2>1. QED BY <1>1, <1>2 DEF States
<1>4. \A d \in Clients : /\ u.cands[d] = IF d = c THEN None ELSE s.cands[d]
                         /\ u.timings[d] = IF d = c THEN None ELSE s.timings[d]
  BY <1>1, <1>3 DEF States
<1>5. Retained(u.cands) = Retained(s.cands) \ {c}
  BY <1>4 DEF Retained
<1>6. Distinct(u.cands)
  BY <1>4, <1>5 DEF Distinct, RegistryOK, Retained
<1>7. \A d \in Retained(u.cands) : u.cands[d].seq <= u.seq
  <2>1. \A d \in Retained(s.cands) : s.cands[d].seq \in Nat /\ s.cands[d].seq <= s.seq
    BY <1>1, ClientsAssumption DEF RegistryOK, States, Candidates, Retained
  <2> HIDE DEF seq
  <2>2. QED BY <1>1, <1>3, <1>4, <1>5, <2>1 DEF Retained
<1>8. ClocksOK(u.timings, u.tick)
  <2>1. u.tick = s.tick
    BY <1>1 DEF States
  <2> HIDE DEF u
  <2>2. QED BY <1>4, <2>1 DEF ClocksOK, RegistryOK
<1>9. RegistryOK(u)
  BY <1>3, <1>4, <1>5, <1>6, <1>7, <1>8 DEF RegistryOK
<1>10. QED BY <1>3, <1>5, <1>9

\* clear_client is called for Cider, which may be bound live without a candidate.
LEMMA ClearClientOK ==
    ASSUME NEW s, RegistryOK(s), ModeOK(s), s.seq < MaxSequence
    PROVE  LET t == ClearClient(s, CiderApi) IN RegistryOK(t) /\ ModeOK(t)
<1> DEFINE u == [s EXCEPT !.timings[CiderApi] = None, !.cands[CiderApi] = None,
                          !.seq = IF s.cands[CiderApi] # None THEN @ + 1 ELSE @]
<1>1. /\ RegistryOK(u)
      /\ u.mode = s.mode /\ u.bound = s.bound /\ u.sources = s.sources
      /\ Retained(u.cands) = Retained(s.cands) \ {CiderApi}
  BY ClearedOK DEF Clients
<1>2. u.mode # "standalone" => ModeOK(u)
  BY <1>1, ClientsAssumption DEF ModeOK
<1>3. ClearClient(s, CiderApi) = ElectIfStandalone(u)
  BY DEF ClearClient
<1>4. QED BY <1>1, <1>2, <1>3, ElectIfStandaloneOK

\* drop_client keeps the invariant.
LEMMA DropClientOK ==
    ASSUME NEW s, RegistryOK(s), ModeOK(s), s.seq < MaxSequence,
           NEW c \in Connections
    PROVE  LET t == DropClient(s, c) IN RegistryOK(t) /\ ModeOK(t)
<1> DEFINE u == [s EXCEPT !.timings[c] = None, !.cands[c] = None,
                          !.seq = IF s.cands[c] # None THEN @ + 1 ELSE @]
           cleared == ClearClient(s, c)
<1>1. /\ RegistryOK(u)
      /\ u.mode = s.mode /\ u.bound = s.bound /\ u.sources = s.sources
      /\ Retained(u.cands) = Retained(s.cands) \ {c}
  BY ClearedOK DEF Clients
<1>2. cleared = ElectIfStandalone(u)
  BY DEF ClearClient
<1>3. CASE s.mode = "live" /\ s.bound = c
  <2>1. cleared = u
    BY <1>1, <1>2, <1>3 DEF ElectIfStandalone
  <2>2. DropClient(s, c) = SelectExternal(u)
    BY <1>3, <2>1 DEF DropClient
  <2>3. QED BY <1>1, <2>2, SelectExternalOK
<1>4. CASE ~(s.mode = "live" /\ s.bound = c)
  <2>1. u.mode # "standalone" => ModeOK(u)
    BY <1>1, <1>4 DEF ModeOK
  <2>2. RegistryOK(cleared) /\ ModeOK(cleared)
    BY <1>1, <1>2, <2>1, ElectIfStandaloneOK
  <2>3. DropClient(s, c) = ElectIfStandalone(cleared)
    BY <1>4 DEF DropClient
  <2>4. QED BY <2>2, <2>3, ElectIfStandaloneOK
<1>5. QED BY <1>3, <1>4

\* A match is a retained, enabled client with lyrics.
LEMMA CurrentMatchRetained ==
    ASSUME NEW s, RegistryOK(s), NEW song, CurrentMatch(s, song) # None
    PROVE  CurrentMatch(s, song) \in Retained(s.cands)
<1> DEFINE S == {c \in WithLyrics(s.cands, s.sources) : Matches(s.cands[c], song)}
<1>1. S \in SUBSET Retained(s.cands)
  BY DEF WithLyrics, Active
<1>2. CurrentMatch(s, song) = First(s.cands, s.sources, Revisions(s.cands), S)
  BY DEF CurrentMatch
<1>3. S # {}
  BY <1>2 DEF First
<1>4. s.cands \in CandidateMaps /\ s.sources \in Seq(DisplaySources) /\ Distinct(s.cands)
  BY DEF RegistryOK, States, CandidateMaps
<1> HIDE DEF S
<1>5. QED BY <1>1, <1>2, <1>3, <1>4, RevisionsAreStamps, FirstIsBest
-------------------------------------------------------------------------------
(* The theorems.                                                           *)

\* The initial states satisfy the invariant.
LEMMA InitOK == Init => IInv
<1> SUFFICES ASSUME NEW raw \in DisplaySourceLists, own = InitialOwnership(raw)
             PROVE  IInv
  BY DEF Init
<1>1. own \in States
  BY ClientsAssumption DEF InitialOwnership, States
<1>2. own.cands = [c \in Clients |-> None] /\ own.timings = [c \in Clients |-> None]
  BY DEF InitialOwnership
<1>3. Retained(own.cands) = {}
  BY <1>2 DEF Retained
<1>4. RegistryOK(own)
  BY <1>1, <1>2, <1>3 DEF RegistryOK, Distinct, ClocksOK
<1>5. Owner(own.cands, own.sources) = None
  BY <1>3 DEF Owner, First, Eligible, WithLyrics, Active
<1>6. ModeOK(own)
  BY <1>5 DEF ModeOK, InitialOwnership
<1>7. QED BY <1>4, <1>6 DEF IInv

\* Every method keeps the invariant.
LEMMA StepOK == IInv /\ [Next]_own => IInv'
<1> SUFFICES ASSUME RegistryOK(own), ModeOK(own), [Next]_own
             PROVE  RegistryOK(own') /\ ModeOK(own')
  BY DEF IInv
<1>1. ASSUME NEW c \in Clients, ObserveStep(c) PROVE RegistryOK(own') /\ ModeOK(own')
  <2>1. PICK r \in Snapshots[c] : own' = Observe(own, c, r.obs, r.doc)
    BY <1>1 DEF ObserveStep
  <2>2. r.obs \in Observations /\ r.doc \in Documents \cup {None}
    BY <2>1, ClientsAssumption
  <2>3. own.seq < MaxSequence
    BY <1>1 DEF ObserveStep
  <2>4. QED BY <2>1, <2>2, <2>3, ObserveOK
<1>2. ASSUME NEW c \in Clients, ClockStep(c) PROVE RegistryOK(own') /\ ModeOK(own')
  BY <1>2, ObserveClockOK DEF ClockStep
<1>3. CASE ClearStep(CiderApi)
  BY <1>3, ClearClientOK DEF ClearStep
<1>4. ASSUME NEW c \in Connections, DropStep(c) PROVE RegistryOK(own') /\ ModeOK(own')
  BY <1>4, DropClientOK DEF DropStep
<1>5. CASE SelectExternalStep
  BY <1>5, SelectExternalOK DEF SelectExternalStep
<1>6. CASE SelectLiveStep
  <2>1. PICK song \in Songs : /\ CurrentMatch(own, song) # None
                              /\ own' = SelectLive(own, CurrentMatch(own, song))
    BY <1>6 DEF SelectLiveStep
  <2>2. CurrentMatch(own, song) \in Retained(own.cands)
    BY <2>1, CurrentMatchRetained
  <2>3. QED BY <2>1, <2>2, SelectLiveOK
<1>7. CASE SelectStandaloneStep
  BY <1>7, ElectOK DEF SelectStandaloneStep, SelectStandalone
<1>8. CASE ConfigureStep
  BY <1>8, SetDisplaySourcesOK DEF ConfigureStep
<1>9. CASE UNCHANGED own
  BY <1>9
<1>10. QED
  BY <1>1, <1>2, <1>3, <1>4, <1>5, <1>6, <1>7, <1>8, <1>9 DEF Next

\* The inductive invariant holds in every reachable state.
THEOREM Invariance == Spec => []IInv
BY InitOK, StepOK, PTL DEF Spec

\* The coordinator's attributes keep their shape (source_gate.py:28).
THEOREM TypeCorrect == Spec => []TypeOK
<1>1. IInv => TypeOK
  BY DEF IInv, RegistryOK, ModeOK, TypeOK
<1>2. QED BY <1>1, Invariance, PTL

\* Every method of the coordinator leaves standalone ownership with the best
\* eligible client of the slot order (source_gate.py:191).
THEOREM OwnerIsAlwaysBest == Spec => []OwnerIsBest
<1>1. IInv => OwnerIsBest
  <2> SUFFICES ASSUME IInv, own.mode = "standalone"
               PROVE  LET eligible == Eligible(own.cands, own.sources)
                      IN  IF eligible = {} THEN own.bound = None
                          ELSE /\ own.bound \in eligible
                               /\ \A c \in eligible :
                                    ~Precedes(own.cands, own.sources,
                                              Revisions(own.cands), c, own.bound)
    BY DEF OwnerIsBest
  <2> DEFINE E == Eligible(own.cands, own.sources)
  <2>1. own.bound = First(own.cands, own.sources, Revisions(own.cands), E)
    BY DEF IInv, ModeOK, Owner
  <2>2. own.cands \in CandidateMaps /\ own.sources \in Seq(DisplaySources)
        /\ Distinct(own.cands)
    BY DEF IInv, RegistryOK, States, CandidateMaps
  <2>3. E \in SUBSET Retained(own.cands)
    BY DEF Eligible, WithLyrics, Active
  <2> HIDE DEF E
  <2>4. CASE E = {}
    BY <2>1, <2>4 DEF First, E
  <2>5. CASE E # {}
    <3>1. Stamps(Revisions(own.cands), E)
      BY <2>2, <2>3, RevisionsAreStamps
    <3>2. QED BY <2>1, <2>2, <2>5, <3>1, FirstIsBest DEF E
  <2>6. QED BY <2>4, <2>5
<1>2. QED BY <1>1, Invariance, PTL

\* External ownership never outlives the "mpris" slot (source_gate.py:61).
THEOREM ExternalAlwaysEnabled == Spec => []ExternalNeedsMpris
<1>1. IInv => ExternalNeedsMpris
  BY DEF IInv, ModeOK, ExternalNeedsMpris
<1>2. QED BY <1>1, Invariance, PTL

\* A live binding to an adapter never outlives its connection (source_gate.py:186).
THEOREM LiveConnectionAlwaysRetained == Spec => []LiveConnectionRetained
<1>1. IInv => LiveConnectionRetained
  BY DEF IInv, ModeOK, LiveConnectionRetained
<1>2. QED BY <1>1, Invariance, PTL

\* The clock offered to an external player always belongs to the snapshot that
\* matches its song (source_gate.py:135).
THEOREM TimingAlwaysOfTheCandidate == Spec => []TimingIsOfTheCandidate
<1>1. IInv => TimingIsOfTheCandidate
  <2> SUFFICES ASSUME IInv, NEW song \in Songs, CurrentTiming(own, song) # None
               PROVE  LET c == CurrentTiming(own, song)
                      IN  /\ own.timings[c].ref = TrackRef(own.cands[c].obs.track)
                          /\ CandidateSong(own.cands[c]) = song
    BY DEF TimingIsOfTheCandidate
  <2> DEFINE U == UsableTimings(own, song)
             ticks == [c \in U |-> own.timings[c].tick]
             f == First(own.cands, own.sources, ticks, U)
  <2>1. CurrentTiming(own, song) = f /\ U # {}
    BY DEF CurrentTiming, First
  <2>2. \A c \in U : c \in Clients /\ own.timings[c] # None
    BY DEF UsableTimings, Retained
  <2>3. own \in States /\ ClocksOK(own.timings, own.tick)
    BY DEF IInv, RegistryOK
  <2>4. Stamps(ticks, U)
    <3>1. \A c \in U : own.timings[c].tick \in 0 .. MaxTick
      BY <2>2, <2>3, ClientsAssumption DEF States, Timings
    <3>2. \A c, d \in U : c # d => own.timings[c].tick # own.timings[d].tick
      BY <2>2, <2>3 DEF ClocksOK
    <3> HIDE DEF U
    <3>3. QED BY <3>1, <3>2, ClientsAssumption DEF Stamps
  <2>5. f \in U
    <3>1. own.cands \in CandidateMaps /\ own.sources \in Seq(DisplaySources)
      BY <2>3 DEF States, CandidateMaps
    <3> HIDE DEF U, ticks
    <3>2. QED BY <2>1, <2>4, <3>1, FirstIsBest
  <2>6. own.timings[f].seq = own.cands[f].seq /\ Matches(own.cands[f], song)
    <3> HIDE DEF f
    <3>1. QED BY <2>5 DEF UsableTimings
  <2>7. own.timings[f].ref = TrackRef(own.cands[f].obs.track)
    <3> HIDE DEF f, U
    <3>1. QED BY <2>2, <2>5, <2>6 DEF IInv, RegistryOK
  <2>8. QED BY <2>1, <2>6, <2>7 DEF Matches
<1>2. QED BY <1>1, Invariance, PTL

-------------------------------------------------------------------------------
(* The revision.                                                           *)

\* A method that only elects or selects leaves the registry alone.
LEMMA SelectionKeepsRegistry ==
    ASSUME NEW s, s \in States
    PROVE  /\ Elect(s).seq = s.seq /\ Elect(s).cands = s.cands
           /\ ElectIfStandalone(s).seq = s.seq /\ ElectIfStandalone(s).cands = s.cands
           /\ SelectExternal(s).seq = s.seq /\ SelectExternal(s).cands = s.cands
           /\ \A c : SelectLive(s, c).seq = s.seq /\ SelectLive(s, c).cands = s.cands
BY DEF Elect, ElectIfStandalone, SelectExternal, SelectLive, SelectStandalone, States

\* What a method may do to the candidates and the revision.
Revised(s, t) == t.seq >= s.seq /\ (t.cands # s.cands => t.seq > s.seq)

\* clear_client advances the revision exactly when it forgets a candidate.
LEMMA ClearClientRevises ==
    ASSUME NEW s, RegistryOK(s), s.seq < MaxSequence, NEW c \in Clients
    PROVE  Revised(s, ClearClient(s, c))
<1> DEFINE u == [s EXCEPT !.timings[c] = None, !.cands[c] = None,
                          !.seq = IF s.cands[c] # None THEN @ + 1 ELSE @]
<1>1. s \in States /\ s.seq \in Nat
  BY ClientsAssumption DEF RegistryOK, States
<1>2. u \in States
  BY ClearedOK DEF RegistryOK
<1>3. u.seq = IF s.cands[c] # None THEN s.seq + 1 ELSE s.seq
  BY <1>1 DEF States
<1>4. u.cands = [s.cands EXCEPT ![c] = None]
  BY <1>1 DEF States
<1>5. s.cands[c] = None => u.cands = s.cands
  BY <1>1, <1>4 DEF States
<1>6. ClearClient(s, c).seq = u.seq /\ ClearClient(s, c).cands = u.cands
  BY <1>2, SelectionKeepsRegistry DEF ClearClient
<1> HIDE DEF u
<1>7. QED BY <1>1, <1>3, <1>5, <1>6 DEF Revised

\* The revision is a faithful change counter of the candidates
\* (source_registry.py:24), so equal revisions mean equal candidates.
THEOREM RevisionAlwaysMarksChange == Spec => RevisionMarksChange
<1>1. IInv /\ [Next]_own => [Revised(own, own')]_own
  <2> SUFFICES ASSUME RegistryOK(own), ModeOK(own), Next PROVE Revised(own, own')
    BY DEF IInv
  <2>0. own \in States /\ own.seq \in Nat
    BY ClientsAssumption DEF RegistryOK, States
  <2>1. ASSUME NEW c \in Clients, ObserveStep(c) PROVE Revised(own, own')
    <3>1. PICK r \in Snapshots[c] : own' = Observe(own, c, r.obs, r.doc)
      BY <2>1 DEF ObserveStep
    <3> DEFINE u == [own EXCEPT !.seq = @ + 1,
                       !.cands[c] = [seq |-> own.seq + 1, obs |-> r.obs, doc |-> r.doc]]
    <3>2. u.seq = own.seq + 1
      BY <2>0 DEF States
    <3>3. own'.seq = u.seq
      BY <2>0, <3>1 DEF Observe, ElectIfStandalone, Elect, States
    <3>4. QED BY <2>0, <3>2, <3>3 DEF Revised
  <2>2. ASSUME NEW c \in Clients, ClockStep(c) PROVE Revised(own, own')
    <3>1. PICK ref : own' = ObserveClock(own, c, ref)
      BY <2>2 DEF ClockStep
    <3>2. own'.seq = own.seq /\ own'.cands = own.cands
      BY <2>0, <3>1 DEF ObserveClock, States
    <3>3. QED BY <2>0, <3>2 DEF Revised
  <2>3. CASE ClearStep(CiderApi)
    BY <2>3, ClearClientRevises DEF ClearStep, Clients
  <2>4. ASSUME NEW c \in Connections, DropStep(c) PROVE Revised(own, own')
    <3> DEFINE t == ClearClient(own, c)
    <3>1. Revised(own, t)
      BY <2>4, ClearClientRevises DEF DropStep, Clients
    <3>2. t \in States
      BY <2>4, ClearedOK, ElectIfStandaloneOK, ElectOK
         DEF DropStep, Clients, ClearClient, ElectIfStandalone, RegistryOK
    <3>3. own'.seq = t.seq /\ own'.cands = t.cands
      BY <2>4, <3>2, SelectionKeepsRegistry DEF DropStep, DropClient
    <3>4. QED BY <3>1, <3>3 DEF Revised
  <2>5. CASE SelectExternalStep
    BY <2>0, <2>5, SelectionKeepsRegistry DEF SelectExternalStep, Revised
  <2>6. CASE SelectLiveStep
    BY <2>0, <2>6, SelectionKeepsRegistry DEF SelectLiveStep, Revised
  <2>7. CASE SelectStandaloneStep
    BY <2>0, <2>7, SelectionKeepsRegistry DEF SelectStandaloneStep, SelectStandalone, Revised
  <2>8. CASE ConfigureStep
    <3>1. PICK raw \in DisplaySourceLists : own' = SetDisplaySources(own, raw)
      BY <2>8 DEF ConfigureStep
    <3> DEFINE u == [own EXCEPT !.sources = Normalized(raw)]
    <3>2. u \in States /\ u.seq = own.seq /\ u.cands = own.cands
      BY <2>0, ClientsAssumption DEF States
    <3>3. own' \in {own, Elect(u), ElectIfStandalone(u)}
      BY <3>1 DEF SetDisplaySources, SelectStandalone
    <3>4. own'.seq = own.seq /\ own'.cands = own.cands
      <4> HIDE DEF u
      <4>1. QED BY <3>2, <3>3, SelectionKeepsRegistry
    <3>5. QED BY <2>0, <3>4 DEF Revised
  <2>9. QED BY <2>1, <2>2, <2>3, <2>4, <2>5, <2>6, <2>7, <2>8 DEF Next
<1>2. [Revised(own, own')]_own => [/\ own'.seq >= own.seq
                                   /\ own'.cands # own.cands => own'.seq > own.seq]_own
  BY DEF Revised
<1>3. QED BY <1>1, <1>2, Invariance, PTL DEF Spec, RevisionMarksChange
===============================================================================
