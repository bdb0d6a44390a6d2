----------------------------- MODULE CiderProvider -----------------------------
(***************************************************************************)
(* CiderApiProvider (providers/cider_api.py) and its client                *)
(* (providers/cider_client.py): polls the Cider player, asks for the       *)
(* lyrics of each track once, and publishes both through the ownership     *)
(* coordinator (SourceOwnership) to the display (DisplayCoordinator).      *)
(*                                                                         *)
(* Between two awaits the event loop runs nothing else, so a step is the   *)
(* code from one await to the next.  Requests are the tasks of             *)
(* _load_lyrics; a cancelled one ends without touching the provider, but   *)
(* stays in the set of tasks a track change joins until it has ended.      *)
(* Positions advance smoothly here, so the clock of the display never      *)
(* stalls, and its task is left out (DisplayCoordinator has both).         *)
(***************************************************************************)
EXTENDS PlaybackFacts, Naturals, FiniteSets

CONSTANTS Playbacks,     \* what Cider may answer a poll: [state, item, time]
          Languages,     \* translation languages, None for no translation
          MaxRequests,   \* bound on the lyric requests alive at once
          DisplaySourceLists, MaxSequence, MaxTick,
          MaxGeneration, \* bound on the generation
          LocalReports   \* observations of the local player

VARIABLES own, disp,
          cider,         \* the provider's attributes
          requests,      \* its lyric tasks
          answered       \* history: the last answer taken, as [ref, lang]

vars == <<own, disp, cider, requests, answered>>

Gate == INSTANCE SourceOwnership WITH
            Connections <- {}, Snapshots <- [c \in {"cider-api"} |-> {}]

Screen == INSTANCE DisplayCoordinator

CiderApi == Gate!CiderApi

ASSUME RequestsAssumption == MaxRequests \in Nat \ {0}

\* CiderPlaybackResponseAdapter: a stopped player still names the item it played.
Adapted(playback) ==
    LET stopped == playback.state = "Stopped"
        obs == [adapter |-> "cider", player |-> CiderApi,
                track |-> IF stopped THEN None ELSE playback.item,
                status |-> playback.state, position |-> None]
    IN  [obs EXCEPT !.position = IF ~stopped /\ playback.time THEN TrackKey(obs) ELSE None]

Reports == {Adapted(playback) : playback \in Playbacks}

\* The tracks Cider may report.
Items == {obs.track : obs \in Reports} \ {None}

\* Cider's id of a track names one song, as it does in its catalogue; an item without
\* an id names none.
ASSUME ItemsAssumption ==
    /\ Reports \subseteq Observations
    /\ \A item, other \in Items :
          TrackRef(item) # None /\ TrackRef(item) = TrackRef(other) => item.song = other.song

\* The lyric tasks, each with what it was asked for.
Requests == [gen : Nat, track : Items, lang : Languages, cancelled : BOOLEAN]

ASSUME NoneAssumption == None \notin Reports \cup Requests

Slots == 1 .. MaxRequests

Alive == {i \in Slots : requests[i] # None}

Uncancelled == {i \in Alive : ~requests[i].cancelled}

RefOf(obs) == IF obs = None THEN None ELSE TrackRef(obs.track)

\* The revisions that publications under way and due may still take.  A step of
\* the environment leaves room for them under the bound, so that the bound does
\* not stop a publication the code would make.
Needed(p, alive) ==
    alive + CASE p.phase = "joining" -> 3
              [] p.phase \in {"off", "stopping"} -> 0
              [] p.enabled /\ (p.obs = None \/ p.attempted # RefOf(p.obs)) -> 3
              [] OTHER -> 0

HasRoom ==
    /\ cider'.gen <= MaxGeneration
    /\ own'.seq + Needed(cider', Cardinality({i \in Slots : requests'[i] # None})) <= MaxSequence
-------------------------------------------------------------------------------
(* Publication.                                                            *)

EmptyObservation == [adapter |-> "cider", player |-> CiderApi, track |-> None,
                     status |-> "Stopped", position |-> None]

\* The ownership after _publish has retained the snapshot and its clock.
Retaining(o, obs, doc) ==
    Gate!ObserveClock(Gate!Observe(o, CiderApi, obs, doc), CiderApi, RefOf(obs))

Resolution(obs, doc, resolving) == IF resolving THEN "Resolving" ELSE FromFacts(obs, doc)

\* _publish: retain the candidate, and show it if Cider owns the display.
Publishes(o, obs, doc, res) ==
    /\ own' = Retaining(o, obs, doc)
    /\ disp' = IF Gate!Accepts(own', CiderApi)
               THEN Screen!PublishResolution(disp, obs, doc, res, FALSE)
               ELSE disp

\* _cancel_current_lyrics
CancelCurrent(p, r) ==
    IF p.current = None THEN r ELSE [r EXCEPT ![p.current].cancelled = TRUE]

\* _clear_content(publish=True)
Cleared(p) == [p EXCEPT !.gen = @ + 1, !.doc = None, !.obs = None, !.attempted = None]

ShowsCleared ==
    /\ own' = Gate!ClearClient(own, CiderApi)
    /\ disp' = IF Gate!Accepts(own', CiderApi)
               THEN Screen!Publish(disp, EmptyObservation, None, FALSE)
               ELSE disp
-------------------------------------------------------------------------------
(* Polling.                                                                *)

Start ==
    /\ cider.phase = "off"
    /\ cider' = [cider EXCEPT !.phase = "idle"]
    /\ UNCHANGED <<own, disp, requests, answered>>

\* The poll is due and Cider is enabled: the playback request is sent.
Poll ==
    /\ cider.phase = "idle" /\ cider.enabled
    /\ cider' = [cider EXCEPT !.phase = "fetching"]
    /\ UNCHANGED <<own, disp, requests, answered>>

FetchFails ==
    /\ cider.phase = "fetching"
    /\ cider' = [cider EXCEPT !.phase = "idle"]
    /\ UNCHANGED <<own, disp, requests, answered>>

\* The rest of _poll_once once the former track, if any, is forgotten.
Continues(p, o, obs) ==
    LET ask == obs.track # None /\ p.attempted # RefOf(obs)
        slot == CHOOSE i \in Slots : requests[i] = None
        resolving == obs.track # None /\ p.doc = None /\ (ask \/ p.current # None)
    IN  /\ ask => Alive # Slots
        /\ cider' = [p EXCEPT !.phase = "idle", !.obs = obs, !.fetched = None,
                              !.attempted = IF ask THEN RefOf(obs) ELSE @,
                              !.current = IF ask THEN slot ELSE @]
        /\ requests' = IF ask THEN [requests EXCEPT ![slot] =
                                        [gen |-> p.gen, track |-> obs.track,
                                         lang |-> p.lang, cancelled |-> FALSE]]
                       ELSE requests
        /\ Publishes(o, obs, p.doc, Resolution(obs, p.doc, resolving))

\* What _poll_once resets when the track has changed.
Forgotten(p) == [p EXCEPT !.doc = None, !.attempted = None]

\* The playback arrives and the track is still the one observed before.
FetchSameTrack(obs) ==
    /\ cider.phase = "fetching" /\ RefOf(obs) = RefOf(cider.obs)
    /\ Continues(cider, own, obs)
    /\ UNCHANGED answered
    /\ HasRoom

\* The playback arrives with another track: the current request is cancelled,
\* and every request still alive is joined first.
FetchOtherTrack(obs) ==
    /\ cider.phase = "fetching" /\ RefOf(obs) # RefOf(cider.obs)
    /\ cider' = [cider EXCEPT !.phase = "joining", !.fetched = obs, !.gen = @ + 1,
                              !.current = None]
    /\ requests' = CancelCurrent(cider, requests)
    /\ UNCHANGED <<own, disp, answered>>
    /\ HasRoom

Joined ==
    /\ cider.phase = "joining" /\ Alive = {}
    /\ Continues(Forgotten(cider), Gate!ClearClient(own, CiderApi), cider.fetched)
    /\ UNCHANGED answered
    /\ own'.seq <= MaxSequence
-------------------------------------------------------------------------------
(* Lyric requests.                                                         *)

\* _lyrics_finished forgets the request if it is still the current one.
Current(p, i) == IF p.current = i THEN None ELSE p.current

CancelledEnds(i) ==
    /\ i \in Alive /\ requests[i].cancelled
    /\ requests' = [requests EXCEPT ![i] = None]
    /\ cider' = [cider EXCEPT !.current = Current(cider, i)]
    /\ UNCHANGED <<own, disp, answered>>

\* An answer counts only for the generation and the track it was asked for.
Wanted(p, request) ==
    /\ request.gen = p.gen
    /\ p.obs # None /\ p.obs.track # None /\ RefOf(p.obs) = TrackRef(request.track)

\* What Cider may answer a request for lyrics: a document, of which it may leave
\* open whose it is, that it has none, or nothing that can be used.
Replies(songs) ==
    [status : {"found"}, doc : [song : songs \cup {None}, lines : BOOLEAN, origin : {"cider"}]]
      \cup [status : {"missing", "failed"}, doc : {None}]

\* Mutant: lyrics of the track now playing are taken for those asked for.
AsksByIdIfMissing(track, reply) == reply.status = "missing"

\* The lyrics of the item now playing are asked for; if that is another, or has
\* none, those of the track's id.
AsksById(track, reply) ==
    \/ reply.status = "missing"
    \/ reply.status = "found" /\ reply.doc.song \notin {None, track.song}

\* A translation is asked for the lyrics' own id; if it fails, and is not only
\* missing, the lyrics are lost with it.
Translatable(doc, lang) == lang # None /\ doc # None /\ doc.song # None /\ doc.lines

\* What the requests of one task may be answered: what is now playing may be any
\* song, and an id names one.
Chains(track) == [current : Replies(Songs), listed : Replies({track.song}),
                  translation : {"found", "missing", "failed"}]

\* CiderApiClient.lyrics, for the answers it gets; None if it raises.
Lyrics(track, lang, chain) ==
    LET doc == IF AsksById(track, chain.current) THEN chain.listed.doc ELSE chain.current.doc
    IN  IF Translatable(doc, lang) /\ chain.translation = "failed" THEN None ELSE doc

\* Every document a request may end with.
Fetched ==
    [asked \in Items \X Languages |->
        {Lyrics(asked[1], asked[2], chain) : chain \in Chains(asked[1])}]

Answer(i, doc) ==
    /\ i \in Uncancelled
    /\ requests' = [requests EXCEPT ![i] = None]
    /\ IF Wanted(cider, requests[i])
       THEN /\ cider' = [cider EXCEPT !.doc = doc, !.current = Current(cider, i)]
            /\ Publishes(own, cider.obs, doc, IF doc = None THEN "NotFound" ELSE "Available")
            /\ answered' = [ref |-> RefOf(cider.obs), lang |-> requests[i].lang]
       ELSE /\ cider' = [cider EXCEPT !.current = Current(cider, i)]
            /\ UNCHANGED <<own, disp, answered>>
    /\ own'.seq <= MaxSequence

LyricsArrive(i) ==
    /\ i \in Uncancelled
    /\ \E doc \in Fetched[requests[i].track, requests[i].lang] : Answer(i, doc)
-------------------------------------------------------------------------------
(* Settings and shutdown.                                                  *)

SetEnabled(enabled) ==
    /\ enabled # cider.enabled
    /\ IF enabled
       THEN /\ cider' = [cider EXCEPT !.enabled = TRUE, !.attempted = None]
            /\ UNCHANGED <<own, disp, requests>>
       ELSE /\ cider' = Cleared([cider EXCEPT !.enabled = FALSE, !.current = None])
            /\ requests' = CancelCurrent(cider, requests)
            /\ ShowsCleared
    /\ UNCHANGED answered
    /\ HasRoom

TranslatedAsksNoMore(p, lang) ==
    [p EXCEPT !.lang = lang, !.doc = None, !.gen = @ + 1, !.current = None]

\* The attributes set_translation_language leaves.
Translated(p, lang) ==
    [p EXCEPT !.lang = lang, !.attempted = None, !.doc = None, !.gen = @ + 1, !.current = None]

SetTranslationLanguage(lang) ==
    /\ lang # cider.lang
    /\ cider' = Translated(cider, lang)
    /\ requests' = CancelCurrent(cider, requests)
    /\ own' = Gate!ClearClient(own, CiderApi)
    /\ UNCHANGED <<disp, answered>>
    /\ HasRoom

\* stop(): the poll is cancelled and ended, and the current request cancelled.
Stop ==
    /\ cider.phase \in {"idle", "fetching", "joining"}
    /\ cider' = [cider EXCEPT !.phase = "stopping", !.fetched = None, !.current = None]
    /\ requests' = CancelCurrent(cider, requests)
    /\ UNCHANGED <<own, disp, answered>>

\* stop(): every request has ended.
Stopped ==
    /\ cider.phase = "stopping" /\ Alive = {}
    /\ cider' = [Cleared(cider) EXCEPT !.phase = "off"]
    /\ ShowsCleared
    /\ UNCHANGED <<requests, answered>>
    /\ HasRoom
-------------------------------------------------------------------------------
(* The environment: the local player and the settings.                     *)

Reserve == own' = Gate!SelectExternal(own) /\ UNCHANGED <<disp, cider, requests, answered>>

\* The MPRIS workflow binds Cider's candidate to the local track, and shows it.
BindLive ==
    \E obs \in LocalReports :
        LET c == Gate!CurrentMatch(own, obs.track.song)
        IN  /\ own.mode = "external" /\ c # None
            /\ own' = Gate!SelectLive(own, c)
            /\ disp' = Screen!Publish(disp, obs, own.cands[c].doc, FALSE)
            /\ UNCHANGED <<cider, requests, answered>>

Release ==
    /\ own' = Gate!SelectStandalone(own)
    /\ disp' = Screen!PublishEmpty(disp)
    /\ UNCHANGED <<cider, requests, answered>>

Configure ==
    /\ \E raw \in DisplaySourceLists : own' = Gate!SetDisplaySources(own, raw)
    /\ UNCHANGED <<disp, cider, requests, answered>>

Init ==
    /\ \E raw \in DisplaySourceLists : own = Gate!InitialOwnership(raw)
    /\ disp = Screen!Initially
    /\ \E enabled \in BOOLEAN, lang \in Languages :
         cider = [enabled |-> enabled, lang |-> lang, phase |-> "off", fetched |-> None,
                  gen |-> 0, attempted |-> None, obs |-> None, doc |-> None,
                  current |-> None]
    /\ requests = [i \in Slots |-> None]
    /\ answered = None

Fetch == \E obs \in Reports : FetchSameTrack(obs) \/ FetchOtherTrack(obs)

RequestEnds(i) == CancelledEnds(i) \/ LyricsArrive(i)

Provider ==
    \/ Start \/ Poll \/ FetchFails \/ Fetch \/ Joined \/ Stop \/ Stopped
    \/ \E i \in Slots : RequestEnds(i)
    \/ \E enabled \in BOOLEAN : SetEnabled(enabled)
    \/ \E lang \in Languages : SetTranslationLanguage(lang)

Next == Provider \/ Reserve \/ BindLive \/ Release \/ Configure

Spec == Init /\ [][Next]_vars

\* The event loop runs what is due; a request ends, if only by its HTTP
\* timeout; and Cider answers some poll if it is polled for ever.
FairSpec ==
    /\ Spec
    /\ WF_vars(Poll) /\ SF_vars(Fetch) /\ WF_vars(Joined)
    /\ \A i \in Slots : WF_vars(RequestEnds(i))
-------------------------------------------------------------------------------
Providers ==
    [enabled : BOOLEAN, lang : Languages, gen : Nat,
     phase : {"off", "idle", "fetching", "joining", "stopping"},
     fetched : Reports \cup {None}, attempted : Gate!References,
     obs : Reports \cup {None}, doc : Documents \cup {None}, current : Slots \cup {None}]

\* Lyrics are offered only with the track they are of, as far as Cider says whose
\* they are: neither a slow answer nor one about what Cider plays by now attaches
\* itself to another track; nor does an answer in the
\* former translation language, not even of a request that outlived the change
\* because disabling and enabling Cider had left it behind.
LyricsAreOfTheTrack ==
    LET cand == own.cands[CiderApi]
    IN  /\ cider.doc # None => answered.lang = cider.lang
        /\ cand # None /\ cand.doc # None =>
               /\ cand.obs.track # None /\ cand.doc.song \in {cand.obs.track.song, None}
               /\ cand.doc = cider.doc /\ cand.obs = cider.obs

Running == cider.enabled /\ cider.phase \notin {"off", "stopping"}

\* The lyrics of a track are asked for in the language that is configured, and
\* an answer arrives: whatever was cancelled, changed or toggled meanwhile, once
\* the track and the language change no more, a provider that keeps running gets
\* to know about its track.
EveryTrackIsAnswered ==
    <>[][RefOf(cider'.obs) = RefOf(cider.obs) /\ cider'.lang = cider.lang]_vars
        => []<>(\/ ~Running \/ RefOf(cider.obs) = None
                \/ /\ answered = [ref |-> RefOf(cider.obs), lang |-> cider.lang]
                   /\ cider.attempted = answered.ref)
===============================================================================
