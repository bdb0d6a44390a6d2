--------------------------- MODULE DisplayCoordinator ---------------------------
(***************************************************************************)
(* DisplayCoordinator (app/display_coordinator.py): the sole publisher of  *)
(* display frames.  It owns the current document and resolution, the       *)
(* manual override, the timeline (display/timeline.py over clock.py) and   *)
(* the task that republishes the frame while the clock advances.           *)
(*                                                                         *)
(* Every method is an operator from the coordinator's state to its next    *)
(* state.  A method that raises leaves what it had assigned before, so an  *)
(* operator that meets incoherent facts returns the state at that point.   *)
(***************************************************************************)
EXTENDS PlaybackFacts

VARIABLE disp       \* the coordinator's state

EmptyFrame == [state |-> "NoTrack", track |-> None, doc |-> None,
               pos |-> None, playing |-> FALSE]

Initially == [doc |-> None, res |-> "NoTrack", mdoc |-> None, mtrack |-> None,
              obs |-> None, key |-> None, anchor |-> None, paused |-> FALSE,
              frame |-> EmptyFrame, loop |-> "off", wake |-> FALSE]
-------------------------------------------------------------------------------
(* The timeline and its clock.  The clock is reduced to the identity its    *)
(* anchor was measured on and to whether it is paused.                      *)

Playing(d) == d.anchor # None /\ ~d.paused

\* MediaClock.sync.  After the first report the clock pauses only when the
\* reported time has stalled past the grace period and the player does not
\* claim to play; stalled is that condition on the times.
Sync(d, pos, status, stalled) ==
    IF pos = None THEN d
    ELSE [d EXCEPT !.anchor = pos,
                   !.paused = status # "Playing" /\ (d.anchor = None \/ stalled)]

SetObservation(d, obs, stalled) ==
    LET fresh == IF TrackKey(obs) = d.key THEN d
                 ELSE [d EXCEPT !.key = TrackKey(obs), !.anchor = None, !.paused = FALSE]
    IN  Sync([fresh EXCEPT !.obs = obs], obs.position, obs.status, stalled)

\* advance(): the observation at the clock's position, when there is one.
Now(d) == IF d.obs # None /\ d.anchor # None
          THEN [d.obs EXCEPT !.position = d.anchor] ELSE d.obs
-------------------------------------------------------------------------------
(* Projection.                                                             *)

\* DisplayInput.__post_init__ raises unless the facts are coherent.
Coherent(obs, doc, res) ==
    CASE res = "NoTrack"   -> obs.track = None /\ doc = None
      [] res = "Available" -> doc # None
      [] res = "Resolving" -> obs.track # None
      [] res = "NotFound"  -> obs.track # None /\ ~HasLyrics(doc)

Frame(obs, doc, res) ==
    [state |-> IF res = "Available" /\ ~HasLyrics(doc) THEN "NotFound" ELSE res,
     track |-> obs.track, doc |-> doc, pos |-> obs.position,
     playing |-> obs.status = "Playing"]

\* publish_frame(_project_observation(playback)): a frame without a track
\* also forgets the document, the manual override and the timeline.
Show(d, playback) ==
    LET frame == Frame(playback, d.doc, d.res)
    IN  IF ~Coherent(playback, d.doc, d.res) THEN d
        ELSE IF frame.state = "NoTrack"
             THEN [Initially EXCEPT !.frame = frame, !.loop = d.loop, !.wake = d.wake]
        ELSE [d EXCEPT !.frame = frame]

\* The current facts cannot be projected: the next projection raises.
Poisoned(d) == d.obs # None /\ ~Coherent(Now(d), d.doc, d.res)

\* Mutant: a task that sleeps is not woken.
WokenWhileTimed(d) == [d EXCEPT !.wake = d.loop = "timed"]

Woken(d) == [d EXCEPT !.wake = d.loop # "off"]

\* _same_track: by reference within one player, by metadata across players.
SameTrack(expected, actual) ==
    /\ expected # None /\ actual # None
    /\ IF /\ TrackRef(expected) # None /\ TrackRef(actual) # None
          /\ expected.adapter = actual.adapter /\ expected.player = actual.player
       THEN TrackRef(expected) = TrackRef(actual)
       ELSE expected.song = actual.song
-------------------------------------------------------------------------------
(* Publication.                                                            *)

\* Mutant: the manual lyrics outlive their track.
ManualForEver(d, track) == d

\* _clear_manual_override_if_track_changed
ManualFor(d, track) ==
    IF SameTrack(d.mtrack, track) THEN d ELSE [d EXCEPT !.mdoc = None, !.mtrack = None]

\* The facts publish_resolution installs before it projects them.
Installed(d, obs, doc, res, stalled) ==
    LET kept == ManualFor(d, obs.track)
        manual == kept.mdoc # None
    IN  SetObservation([kept EXCEPT !.doc = IF manual THEN kept.mdoc ELSE doc,
                                    !.res = IF manual THEN "Available" ELSE res],
                       obs, stalled)

PublishResolution(d, obs, doc, res, stalled) ==
    LET s == Installed(d, obs, doc, res, stalled)
    IN  IF ~Coherent(obs, s.doc, s.res) THEN s ELSE Woken(Show(s, obs))

\* publish raises exactly when this does not hold.
Publishable(d, obs, doc, res) ==
    LET s == Installed(d, obs, doc, res, TRUE) IN Coherent(obs, s.doc, s.res)

Publish(d, obs, doc, stalled) ==
    PublishResolution(d, obs, doc, FromFacts(obs, doc), stalled)

\* publish_frame(EMPTY_FRAME)
PublishEmpty(d) == [Initially EXCEPT !.loop = d.loop, !.wake = d.wake]

\* apply_manual_artifact: refused unless the expected track is still active.
ApplyManual(d, song, document, stalled) ==
    IF d.obs = None \/ d.obs.track = None \/ song = None \/ d.obs.track.song # song THEN d
    ELSE PublishResolution([d EXCEPT !.mtrack = d.obs.track, !.mdoc = document],
                           Now(d), document, "Available", stalled)

\* set_options: projects the current facts again, and wakes nobody.
SetOptions(d) == IF d.obs = None THEN d ELSE Show(d, Now(d))

\* TimelineEngine.observe
Calibrated(d, pos, status, stalled) ==
    Sync([d EXCEPT !.obs.status = status,
                   !.obs.position = IF pos # None THEN pos ELSE @], pos, status, stalled)

Tick(d, pos, status, stalled) ==
    IF d.obs = None THEN d
    ELSE LET s == Calibrated(d, pos, status, stalled)
         IN  IF Poisoned(s) THEN s ELSE Woken(Show(s, Now(s)))
-------------------------------------------------------------------------------
(* The display clock task.                                                 *)

Started(d) == IF d.loop \in {"off", "failed"} THEN [d EXCEPT !.loop = "timed", !.wake = FALSE]
              ELSE d

Stopped(d) == [d EXCEPT !.loop = "off", !.wake = FALSE]

\* The task runs again when its timeout expires or the wake event is set.
LoopDue(d) == d.loop = "timed" \/ (d.loop = "asleep" /\ d.wake)

\* One turn of _run: publish, clear the event, then wait with a timeout only
\* while the clock advances.  A projection that raises ends the task.
Iterate(d) ==
    IF Poisoned(d) THEN [d EXCEPT !.loop = "failed"]
    ELSE LET s == IF d.obs = None THEN d ELSE Show(d, Now(d))
         IN  [s EXCEPT !.wake = FALSE, !.loop = IF Playing(s) THEN "timed" ELSE "asleep"]
-------------------------------------------------------------------------------
\* Lyrics chosen by hand stay with the track they were chosen for: while the
\* override is in force the active track is that track and the override is
\* the document shown, whatever sources publish meanwhile.
ManualStaysWithItsTrack ==
    disp.mdoc # None =>
        /\ disp.obs # None
        /\ SameTrack(disp.mtrack, disp.obs.track)
        /\ disp.doc = disp.mdoc /\ disp.res = "Available"

\* The frame on screen is never out of step with the facts: every call that
\* changes the observation, the document or the resolution has published them
\* before it returns, unless they cannot be projected at all.  And while the clock
\* advances, the task that redraws the frame does not sleep through it.
FrameShowsTheFacts ==
    IF disp.obs = None
    THEN disp.frame.state = "NoTrack" /\ disp.frame.track = None /\ disp.frame.doc = None
    ELSE ~Poisoned(disp) =>
            /\ Playing(disp) /\ disp.loop = "asleep" => disp.wake
            /\ \E pos \in {disp.obs.position, disp.anchor} :
                  disp.frame = Frame([disp.obs EXCEPT !.position = pos], disp.doc, disp.res)
===============================================================================
