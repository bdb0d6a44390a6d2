---------------------------- MODULE AdapterReceiver ----------------------------
(***************************************************************************)
(* AdapterReceiver (receiver.py): the WebSocket and POST ingress of        *)
(* external adapters, on top of the ownership coordinator (SourceOwnership)*)
(* and the display (DisplayCoordinator).                                   *)
(*                                                                         *)
(* ingest() runs without an await, so a message is one step: it moves the  *)
(* session, the retained candidates and the display together.  A message   *)
(* whose publication raises ends the WebSocket that carried it; the POST   *)
(* session survives.  The rest of the program, which also reserves the     *)
(* gate, publishes and reconfigures, is the environment.                   *)
(***************************************************************************)
EXTENDS SharedDisplay, SequencesExt

CONSTANTS Post,          \* the client id all POST requests share
          Receiver,      \* adapter id of the frames the receiver makes itself
          LocalReports,  \* observations of the local player
          ManualDocuments,  \* documents a user may apply by hand
          MaxMessage     \* bound on the adapters' sequence numbers

VARIABLES sessions,      \* per client: last accepted sequence and track ref
          displayClient, \* the client that published the current frame
          listening      \* the endpoint is bound

vars == <<own, disp, sessions, displayClient, listening>>

\* References of tracks that have a stable id (TrackRef).
References == Adapters \X Players \X StableIds

Sessions == [last : Nat \cup {None}, ref : References \cup {None}]

ASSUME ReceiverAssumption ==
    /\ Post \in Connections /\ IsFiniteSet(Connections)
    /\ Connections \cap {Gate!Mpris, Gate!CiderApi, None} = {}
    /\ Receiver \in Adapters /\ Receiver \in Players
    /\ \A c \in Connections :
           Snapshots[c] \subseteq [obs : Observations, doc : Documents \cup {None}]
    /\ LocalReports \subseteq Observations /\ MaxMessage \in Nat
    /\ None \notin Nat /\ None \notin Tracks /\ None \notin Observations
    /\ None \notin Keys /\ None \notin References /\ None \notin Sessions
    /\ None \notin [seq : Nat, obs : Observations, doc : Documents \cup {None}]

\* The receiver's view of the state, which its handlers map to the next one.
Ingress == [own |-> own, disp |-> disp, sessions |-> sessions, client |-> displayClient]

Becomes(r) ==
    /\ own' = r.own /\ disp' = r.disp
    /\ sessions' = r.sessions /\ displayClient' = r.client
-------------------------------------------------------------------------------
(* Handlers.                                                               *)

NewSession == [last |-> None, ref |-> None]

\* The frame that replaces the lyrics of a client that has gone.
GoneObservation == [adapter |-> Receiver, player |-> Receiver, track |-> None,
                    status |-> "Stopped", position |-> None]

\* _drop_client: the display is cleared only if the client still owns it, which
\* is asked before the client is forgotten.
Dropped(r, c) ==
    LET shown == r.client = c
        owner == Gate!Accepts(r.own, c)
        gone == [r EXCEPT !.sessions[c] = None, !.own = Gate!DropClient(@, c)]
    IN  IF ~shown THEN gone
        ELSE IF ~owner THEN [gone EXCEPT !.client = None]
        ELSE [gone EXCEPT !.client = None,
                          !.disp = Screen!Publish(@, GoneObservation, None, TRUE)]

\* An exception leaves ingest(): _handle_ws ends and drops its client.
Raised(r, c) == IF c = Post THEN r ELSE Dropped(r, c)

Opened(r, c) == IF r.sessions[c] = None THEN [r EXCEPT !.sessions[c] = NewSession] ELSE r

\* Mutant: only a repeated sequence is refused.
StaleOnlyIfEqual(r, c, seq) == r.sessions[c] # None /\ seq = r.sessions[c].last

Stale(r, c, seq) == r.sessions[c] # None /\ r.sessions[c].last # None /\ seq <= r.sessions[c].last

\* Mutant: the session keeps the reference of its first track.
SnapshotKeepsSessionTrack(r, c, obs, doc, seq, stalled) ==
    LET observed == [r EXCEPT !.own = Gate!Observe(@, c, obs, doc)]
        accepted == [observed EXCEPT !.sessions[c].last = seq]
    IN  IF ~Gate!Accepts(observed.own, c) THEN accepted
        ELSE [accepted EXCEPT !.disp = Screen!Publish(@, obs, doc, stalled), !.client = c]

\* _publish_snapshot, and the sequence ingest() records once it returns.
Snapshot(r, c, obs, doc, seq, stalled) ==
    LET observed == [r EXCEPT !.sessions[c].ref = TrackRef(obs.track),
                              !.own = Gate!Observe(@, c, obs, doc)]
        shown == [observed EXCEPT !.disp = Screen!Publish(@, obs, doc, stalled)]
    IN  IF ~Gate!Accepts(observed.own, c) THEN [observed EXCEPT !.sessions[c].last = seq]
        ELSE IF ~Screen!Publishable(r.disp, obs, doc, FromFacts(obs, doc)) THEN Raised(shown, c)
        ELSE [shown EXCEPT !.client = c, !.sessions[c].last = seq]

\* Mutant: an accepted clock is shown without asking for the display.
ClockWithoutAsking(r, c, ref, pos, status, seq, stalled) ==
    IF ref # r.sessions[c].ref \/ ~Gate!ClockAccepted(r.own, c, ref) THEN r
    ELSE [r EXCEPT !.own = Gate!ObserveClock(@, c, ref), !.client = c, !.sessions[c].last = seq,
                   !.disp = Screen!Tick(@, pos, status, stalled)]

\* _publish_clock, and the sequence ingest() records if it was accepted.
Clock(r, c, ref, pos, status, seq, stalled) ==
    LET observed == [r EXCEPT !.own = Gate!ObserveClock(@, c, ref)]
        shown == [observed EXCEPT !.disp = Screen!Tick(@, pos, status, stalled)]
    IN  IF ref # r.sessions[c].ref \/ ~Gate!ClockAccepted(r.own, c, ref) THEN r
        ELSE IF ~Gate!Accepts(observed.own, c) THEN [observed EXCEPT !.sessions[c].last = seq]
        ELSE IF Screen!Poisoned(r.disp) THEN Raised(shown, c)
        ELSE [shown EXCEPT !.client = c, !.sessions[c].last = seq]

\* The clients of a sequence are dropped one after the other.
Reset(r, order) ==
    LET after[n \in 0 .. Len(order)] ==
            IF n = 0 THEN r ELSE Dropped(after[n - 1], order[n])
    IN  after[Len(order)]
-------------------------------------------------------------------------------
(* Steps of the receiver.                                                  *)

\* The clients a WebSocket handler or the POST route may be serving.
IngestSnapshot(c) ==
    /\ listening /\ own.seq < MaxSequence
    /\ \E m \in Snapshots[c], seq \in 1 .. MaxMessage, stalled \in BOOLEAN :
         LET r == Opened(Ingress, c)
         IN  Becomes(IF Stale(Ingress, c, seq) THEN r
                     ELSE Snapshot(r, c, m.obs, m.doc, seq, stalled))
    /\ UNCHANGED listening

\* A client sends the clock of a track it reports.
IngestClock(c) ==
    /\ listening /\ own.tick < MaxTick /\ own.seq < MaxSequence
    /\ \E m \in Snapshots[c], timed \in BOOLEAN, status \in {"Playing", "Paused"},
          seq \in 1 .. MaxMessage, stalled \in BOOLEAN :
         LET r == Opened(Ingress, c)
             pos == IF timed THEN TrackKey(m.obs) ELSE None
         IN  Becomes(IF Stale(Ingress, c, seq) THEN r
                     ELSE Clock(r, c, TrackRef(m.obs.track), pos, status, seq, stalled))
    /\ UNCHANGED listening

Disconnect(c) ==
    /\ c # Post /\ own.seq < MaxSequence
    /\ Becomes(Dropped(Ingress, c))
    /\ UNCHANGED listening

\* stop(): whatever is left is dropped, in the order the set happens to have.
Stop ==
    /\ listening /\ own.seq + Cardinality(Connections) <= MaxSequence
    /\ LET left == {c \in Connections : sessions[c] # None} \cup {Post}
                   \cup (IF displayClient = None THEN {} ELSE {displayClient})
       IN  \E order \in SetToSeqs(left) : Becomes(Reset(Ingress, order))
    /\ listening' = FALSE

Start == ~listening /\ listening' = TRUE /\ UNCHANGED <<own, disp, sessions, displayClient>>
-------------------------------------------------------------------------------
(* The environment: the MPRIS workflow, settings and the display task.     *)

Reserve == own' = Gate!SelectExternal(own) /\ UNCHANGED <<disp, sessions, displayClient, listening>>

\* The local player publishes while the gate is reserved for it.
PublishLocally ==
    /\ Gate!Accepts(own, Gate!Mpris)
    /\ \E obs \in LocalReports, stalled \in BOOLEAN :
         disp' = Screen!PublishResolution(disp, obs, None, "Resolving", stalled)
    /\ UNCHANGED <<own, sessions, displayClient, listening>>

\* A late live source is bound, and its document shown with the local track.
BindLive ==
    \E obs \in LocalReports, stalled \in BOOLEAN :
        LET c == Gate!CurrentMatch(own, obs.track.song)
        IN  /\ own.mode = "external" /\ c # None
            /\ own' = Gate!SelectLive(own, c)
            /\ disp' = Screen!Publish(disp, obs, own.cands[c].doc, stalled)
            /\ UNCHANGED <<sessions, displayClient, listening>>

Release ==
    /\ own' = Gate!SelectStandalone(own)
    /\ disp' = Screen!PublishEmpty(disp)
    /\ UNCHANGED <<sessions, displayClient, listening>>

Configure ==
    /\ \E raw \in DisplaySourceLists : own' = Gate!SetDisplaySources(own, raw)
    /\ UNCHANGED <<disp, sessions, displayClient, listening>>

\* The search window applies the lyrics chosen there for a song.
ApplyManual ==
    /\ \E song \in Songs, document \in ManualDocuments, stalled \in BOOLEAN :
         disp' = Screen!ApplyManual(disp, song, document, stalled)
    /\ UNCHANGED <<own, sessions, displayClient, listening>>

SetOptions ==
    /\ disp' = Screen!SetOptions(disp)
    /\ UNCHANGED <<own, sessions, displayClient, listening>>

\* The application stops the display after its sources.
StopDisplay ==
    /\ ~listening /\ disp' = Screen!Stopped(disp)
    /\ UNCHANGED <<own, sessions, displayClient, listening>>

RunDisplay ==
    /\ Screen!LoopDue(disp) /\ disp' = Screen!Iterate(disp)
    /\ UNCHANGED <<own, sessions, displayClient, listening>>

Init ==
    /\ \E raw \in DisplaySourceLists : own = Gate!InitialOwnership(raw)
    /\ disp = Screen!Started(Screen!Initially)
    /\ sessions = [c \in Connections |-> None]
    /\ displayClient = None
    /\ listening = TRUE

Receive == \E c \in Connections : IngestSnapshot(c) \/ IngestClock(c) \/ Disconnect(c)

Next == \/ Receive \/ Stop \/ Start
        \/ Reserve \/ PublishLocally \/ BindLive \/ Release \/ Configure
        \/ ApplyManual \/ SetOptions \/ StopDisplay \/ RunDisplay

Spec == Init /\ [][Next]_vars
-------------------------------------------------------------------------------
\* The two checks a clock passes, against the session and against the retained
\* candidate, never disagree: a session names the track of the candidate that
\* is retained for the client, and no candidate outlives its session.  A clock
\* is thus never accepted by one and lost, with its sequence, by the other.
SessionMatchesCandidate ==
    \A c \in Connections :
        IF own.cands[c] = None
        THEN sessions[c] # None => sessions[c].last = None /\ sessions[c].ref = None
        ELSE sessions[c] # None /\ sessions[c].ref = TrackRef(own.cands[c].obs.track)

\* While the local player holds the display no adapter changes what is on
\* screen: not by a snapshot, a clock, a disconnect, nor by the receiver's
\* shutdown.
ReservedDisplayUntouched ==
    [][own.mode = "external" /\ (Receive \/ Stop) => disp' = disp]_vars

\* What the display promises (DisplayCoordinator), with all of its callers:
\* adapters, the local player, the search window, settings and its own task.
ManualStaysWithItsTrack == Screen!ManualStaysWithItsTrack

\* See DisplayCoordinator!FrameShowsTheFacts.
FrameShowsTheFacts == Screen!FrameShowsTheFacts

\* The sequence of a session only grows, so that a message is applied at most
\* once and never after a later one; only a new session starts over.  The
\* exception is a message whose publication raised on the POST route: it has
\* been retained, but its sequence is not recorded.
SequenceOnlyGrows ==
    [][\A c \in Connections :
           sessions[c] # None /\ sessions'[c] # None /\ sessions[c].last # None =>
               /\ sessions'[c].last # None /\ sessions'[c].last >= sessions[c].last
               /\ own'.cands[c] # own.cands[c] =>
                     sessions'[c].last > sessions[c].last \/ Screen!Poisoned(disp')]_vars
===============================================================================
