---------------------------- MODULE SourceOwnership ----------------------------
(***************************************************************************)
(* SourceOwnershipCoordinator (app/source_gate.py) on top of               *)
(* LiveSourceRegistry (app/source_registry.py): the latest candidate and   *)
(* clock of every live source client, and which client may publish to the  *)
(* display.                                                                *)
(*                                                                         *)
(* Every method is an operator from the coordinator's state to its next    *)
(* state, so that a module that calls several of them in one step of the   *)
(* event loop composes them.  The specification at the end lets any caller *)
(* call any method in any order.                                           *)
(***************************************************************************)
EXTENDS PlaybackFacts, Naturals, SequencesExt

CONSTANTS Connections,        \* adapter connections (integers in the code)
          Snapshots,          \* Snapshots[c]: what client c may report, as
                              \* records [obs, doc]
          DisplaySourceLists, \* raw display_sources lists the settings may hold
          MaxSequence,        \* bound on the candidate revision
          MaxTick             \* bound on the number of retained clocks

VARIABLE own

CiderApi == "cider-api"
Mpris == "mpris"
Clients == Connections \cup {CiderApi}

\* VALID_DISPLAY_SOURCES, and DEFAULT_DISPLAY_SOURCES in their order.
DisplaySources == {"mpris", "cider", "adapter"}
DefaultSources == <<"mpris", "cider", "adapter">>

-------------------------------------------------------------------------------
(* Arbitration: a function of the candidates and the slot order alone.     *)

Retained(cands) == {c \in Clients : cands[c] # None}

\* _normalize_display_sources: valid slots, first occurrence, never empty.
Normalized(raw) ==
    LET kept == FoldLeft(LAMBDA acc, x :
                           IF x \in DisplaySources /\ x \notin ToSet(acc)
                           THEN Append(acc, x) ELSE acc, <<>>, raw)
    IN  IF kept = <<>> THEN DefaultSources ELSE kept

ASSUME ClientsAssumption ==
    /\ None \notin Clients \cup {Mpris}
    /\ Mpris \notin Clients
    /\ CiderApi \notin Connections
    /\ MaxSequence \in Nat /\ MaxTick \in Nat
    /\ \A c \in Clients : Snapshots[c] \subseteq
           [obs : Observations, doc : Documents \cup {None}]
    /\ \A raw \in DisplaySourceLists : Normalized(raw) \in Seq(DisplaySources)
    /\ None \notin [seq : Nat, obs : Observations, doc : Documents \cup {None}]

DefaultSlot(c) ==
    CASE c = CiderApi -> "cider"
      [] c = Mpris -> "mpris"
      [] OTHER -> "adapter"

\* _source_id: a candidate claims the slot its adapter id names.
SlotOf(cands, c) ==
    IF c \in Retained(cands) /\ cands[c].obs.adapter \in DisplaySources
    THEN cands[c].obs.adapter
    ELSE DefaultSlot(c)

SlotEnabled(sources, slot) == \E i \in DOMAIN sources : sources[i] = slot

Enabled(cands, sources, c) == c # None /\ SlotEnabled(sources, SlotOf(cands, c))

Priority(cands, sources, c) ==
    IF Enabled(cands, sources, c)
    THEN CHOOSE i \in DOMAIN sources : sources[i] = SlotOf(cands, c)
    ELSE Len(sources) + 1

\* The sort key of both arbitrations: slot priority, then the larger age stamp.
Precedes(cands, sources, stamp, c, d) ==
    \/ Priority(cands, sources, c) < Priority(cands, sources, d)
    \/ /\ Priority(cands, sources, c) = Priority(cands, sources, d)
       /\ stamp[c] > stamp[d]

First(cands, sources, stamp, S) ==
    IF S = {} THEN None
    ELSE CHOOSE c \in S : \A d \in S \ {c} : Precedes(cands, sources, stamp, c, d)

\* Snapshots are stamped with the revision that retained them.
Revisions(cands) == [c \in Retained(cands) |-> cands[c].seq]

\* _ordered_candidates, as the set it sorts.
Active(cands, sources) ==
    {c \in Retained(cands) : /\ Enabled(cands, sources, c)
                             /\ cands[c].obs.status # "Stopped"}

WithLyrics(cands, sources) ==
    {c \in Active(cands, sources) : HasLyrics(cands[c].doc)}

\* Candidates with lyrics are preferred to all others.
Eligible(cands, sources) ==
    IF WithLyrics(cands, sources) # {} THEN WithLyrics(cands, sources)
    ELSE Active(cands, sources)

\* The owner a standalone election chooses.
Owner(cands, sources) ==
    First(cands, sources, Revisions(cands), Eligible(cands, sources))
-------------------------------------------------------------------------------
(* The coordinator's methods.                                              *)

Elect(s) == [s EXCEPT !.mode = "standalone", !.bound = Owner(s.cands, s.sources)]

ElectIfStandalone(s) == IF s.mode = "standalone" THEN Elect(s) ELSE s

SelectStandalone(s) == Elect(s)

SelectExternal(s) ==
    IF SlotEnabled(s.sources, "mpris") THEN [s EXCEPT !.mode = "external", !.bound = Mpris]
    ELSE SelectStandalone(s)

SelectLive(s, c) ==
    IF Enabled(s.cands, s.sources, c) THEN [s EXCEPT !.mode = "live", !.bound = c]
    ELSE SelectStandalone(s)

SetDisplaySourcesOnly(s, raw) == [s EXCEPT !.sources = Normalized(raw)]

SetDisplaySources(s, raw) ==
    LET updated == [s EXCEPT !.sources = Normalized(raw)]
        slotLost == \/ s.mode = "external" /\ ~SlotEnabled(updated.sources, "mpris")
                    \/ s.mode = "live" /\ ~Enabled(s.cands, updated.sources, s.bound)
    IN  IF updated = s THEN s
        ELSE IF slotLost THEN SelectStandalone(updated)
        ELSE ElectIfStandalone(updated)

Observe(s, c, obs, doc) ==
    ElectIfStandalone(
        [s EXCEPT !.seq = @ + 1,
                  !.cands[c] = [seq |-> s.seq + 1, obs |-> obs, doc |-> doc]])

\* observe_clock answers False, and retains nothing, for another track.
ClockAccepted(s, c, ref) ==
    s.cands[c] # None /\ ref = TrackRef(s.cands[c].obs.track)

ObserveClock(s, c, ref) ==
    IF ClockAccepted(s, c, ref)
    THEN [s EXCEPT !.tick = @ + 1,
                   !.timings[c] = [tick |-> s.tick + 1,
                                   seq |-> s.cands[c].seq, ref |-> ref]]
    ELSE s

ClearClientKeepsRevision(s, c) ==
    ElectIfStandalone([s EXCEPT !.timings[c] = None, !.cands[c] = None])

ClearClient(s, c) ==
    ElectIfStandalone(
        [s EXCEPT !.timings[c] = None, !.cands[c] = None,
                  !.seq = IF s.cands[c] # None THEN @ + 1 ELSE @])

DropClientOnlyClears(s, c) == ClearClient(s, c)

DropClient(s, c) ==
    LET cleared == ClearClient(s, c)
    IN  IF s.mode = "live" /\ s.bound = c THEN SelectExternal(cleared)
        ELSE ElectIfStandalone(cleared)

\* accepts(): in standalone mode it elects again before it answers.
Accepts(s, c) ==
    LET now == ElectIfStandalone(s)
    IN  IF s.mode = "external" THEN c = Mpris /\ SlotEnabled(s.sources, "mpris")
        ELSE c = now.bound /\ Enabled(s.cands, s.sources, c)

LiveActive(s) ==
    /\ s.mode = "live"
    /\ s.bound \in Retained(s.cands)
    /\ HasLyrics(s.cands[s.bound].doc)
-------------------------------------------------------------------------------
(* Matching candidates and clocks with the external player's track.  The   *)
(* matcher is reduced to equal metadata.                                   *)

CandidateSong(cand) ==
    IF cand.obs.track # None THEN cand.obs.track.song
    ELSE IF cand.doc # None THEN cand.doc.song ELSE None

Matches(cand, song) == song # None /\ CandidateSong(cand) = song

\* current_match: the client whose document is chosen, or None.
CurrentMatch(s, song) ==
    First(s.cands, s.sources, Revisions(s.cands),
          {c \in WithLyrics(s.cands, s.sources) : Matches(s.cands[c], song)})

UsableTimingsOfAnySnapshot(s, song) ==
    {c \in Retained(s.cands) : /\ s.timings[c] # None
                         /\ Enabled(s.cands, s.sources, c)
                         /\ Matches(s.cands[c], song)}

UsableTimings(s, song) ==
    {c \in Retained(s.cands) : /\ s.timings[c] # None
                         /\ Enabled(s.cands, s.sources, c)
                         /\ s.timings[c].seq = s.cands[c].seq
                         /\ Matches(s.cands[c], song)}

\* current_timing: the client whose clock drives the display, or None.
CurrentTiming(s, song) ==
    LET usable == UsableTimings(s, song)
    IN  First(s.cands, s.sources, [c \in usable |-> s.timings[c].tick], usable)
-------------------------------------------------------------------------------
(* Any caller, any method, any order.                                      *)

InitialOwnership(raw) ==
    [mode |-> "standalone", bound |-> None, sources |-> Normalized(raw),
     cands |-> [c \in Clients |-> None], timings |-> [c \in Clients |-> None],
     seq |-> 0, tick |-> 0]

Init == \E raw \in DisplaySourceLists : own = InitialOwnership(raw)

ObserveStep(c) ==
    /\ own.seq < MaxSequence
    /\ \E r \in Snapshots[c] : own' = Observe(own, c, r.obs, r.doc)

ClockStep(c) ==
    /\ own.tick < MaxTick
    /\ \E ref \in {TrackRef(r.obs.track) : r \in Snapshots[c]} :
         own' = ObserveClock(own, c, ref)

ClearStep(c) == own.seq < MaxSequence /\ own' = ClearClient(own, c)

DropStep(c) == own.seq < MaxSequence /\ own' = DropClient(own, c)

SelectExternalStep == own' = SelectExternal(own)

\* The MPRIS workflow binds only the match it has just looked up.
SelectLiveStep ==
    \E song \in Songs : /\ CurrentMatch(own, song) # None
                        /\ own' = SelectLive(own, CurrentMatch(own, song))

SelectStandaloneStep == own' = SelectStandalone(own)

ConfigureStep == \E raw \in DisplaySourceLists : own' = SetDisplaySources(own, raw)

Next ==
    \/ \E c \in Clients : ObserveStep(c) \/ ClockStep(c)
    \/ ClearStep(CiderApi)
    \/ \E c \in Connections : DropStep(c)
    \/ SelectExternalStep
    \/ SelectLiveStep
    \/ SelectStandaloneStep
    \/ ConfigureStep

Spec == Init /\ [][Next]_own
-------------------------------------------------------------------------------
Candidates == [seq : 1 .. MaxSequence, obs : Observations, doc : Documents \cup {None}]

References == {TrackRef(t) : t \in Tracks} \cup {None}

Timings == [tick : 1 .. MaxTick, seq : 1 .. MaxSequence, ref : References]

States == [mode : {"standalone", "external", "live"},
           bound : Clients \cup {Mpris, None},
           sources : Seq(DisplaySources),
           cands : [Clients -> Candidates \cup {None}],
           timings : [Clients -> Timings \cup {None}],
           seq : 0 .. MaxSequence, tick : 0 .. MaxTick]

\* The shape of the coordinator's state (the attributes of source_gate.py:28
\* and source_registry.py:17); only a live source client is ever bound live.
TypeOK == own \in States /\ (own.mode = "live" => own.bound \in Clients)

\* Whatever was observed, cleared, dropped or reconfigured last, the owner in
\* standalone mode is an enabled client that is not stopped, one with lyrics
\* if any has them, and no such client has a better slot or, in the same
\* slot, a newer snapshot.  Nobody owns the display only if nobody could.
OwnerIsBest ==
    own.mode = "standalone" =>
        LET eligible == Eligible(own.cands, own.sources)
        IN  IF eligible = {} THEN own.bound = None
            ELSE /\ own.bound \in eligible
                 /\ \A c \in eligible : ~Precedes(own.cands, own.sources,
                                                  Revisions(own.cands), c, own.bound)

\* The display is reserved for the local player only while the "mpris" slot is
\* enabled: switching the slot off at run time releases the reservation.
ExternalNeedsMpris == own.mode = "external" => SlotEnabled(own.sources, "mpris")

\* A live binding to an adapter connection never outlives the connection: a
\* disconnect hands the display back to the local player.
LiveConnectionRetained ==
    own.mode = "live" /\ own.bound \in Connections => own.bound \in Retained(own.cands)

\* The clock that drives an external player's display was taken on the very
\* snapshot that is matched now: never on an earlier track of that client, nor
\* on a snapshot the client has since replaced, cleared or lost.
TimingIsOfTheCandidate ==
    \A song \in Songs :
        LET c == CurrentTiming(own, song)
        IN  c # None => /\ own.timings[c].ref = TrackRef(own.cands[c].obs.track)
                        /\ CandidateSong(own.cands[c]) = song

\* Whenever the retained candidates change the revision grows, and it never
\* falls: a caller that saw the same revision twice saw the same candidates
\* (the late-source decision of the MPRIS workflow relies on it).
RevisionMarksChange ==
    [][/\ own'.seq >= own.seq
       /\ own'.cands # own.cands => own'.seq > own.seq]_own
===============================================================================
