--------------------------- MODULE LyricSourceProofs ---------------------------
(***************************************************************************)
(* Proofs about the two live users of the shared display.                  *)
(*                                                                         *)
(* AdapterReceiver: the sessions agree with the candidates and the screen  *)
(* follows the facts, for every set of adapters, every report and every    *)
(* order of messages, whatever the rest of the program does to the gate    *)
(* and to the display meanwhile.                                           *)
(*                                                                         *)
(* MprisLyrics: a load is always of the commit that is followed, and the   *)
(* lyrics on screen are those of the track on screen, whatever lookups,    *)
(* samples and adapters are interleaved.                                   *)
(***************************************************************************)
EXTENDS AdapterReceiver, MprisLyrics, FiniteSetTheorems, WellFoundedInduction, TLAPS

(* The display, for any caller.                                            *)

Resolutions == {"NoTrack", "Available", "Resolving", "NotFound"}

\* The shape of the display's state, as far as its methods rely on it.
DispOK(d) ==
    /\ DOMAIN d = {"doc", "res", "mdoc", "mtrack", "obs", "key", "anchor", "paused",
                   "frame", "loop", "wake"}
    /\ d.res \in Resolutions
    /\ d.obs \in Observations \cup {None}
    /\ d.anchor \in Keys \cup {None}

\* ManualStaysWithItsTrack of a display.
ManualKept(d) ==
    d.mdoc # None =>
        /\ d.obs # None
        /\ Screen!SameTrack(d.mtrack, d.obs.track)
        /\ d.doc = d.mdoc /\ d.res = "Available"

\* FrameShowsTheFacts of a display.
FrameCurrent(d) ==
    IF d.obs = None
    THEN d.frame.state = "NoTrack" /\ d.frame.track = None /\ d.frame.doc = None
    ELSE ~Screen!Poisoned(d) =>
            /\ Screen!Playing(d) /\ d.loop = "asleep" => d.wake
            /\ \E pos \in {d.obs.position, d.anchor} :
                  d.frame = Screen!Frame([d.obs EXCEPT !.position = pos], d.doc, d.res)

ScreenOK(d) == DispOK(d) /\ ManualKept(d) /\ FrameCurrent(d)

\* The two halves of FrameCurrent: the frame shows the facts, and the task that
\* redraws it will run.
FrameDrawn(d) ==
    IF d.obs = None
    THEN d.frame.state = "NoTrack" /\ d.frame.track = None /\ d.frame.doc = None
    ELSE ~Screen!Poisoned(d) =>
            \E pos \in {d.obs.position, d.anchor} :
               d.frame = Screen!Frame([d.obs EXCEPT !.position = pos], d.doc, d.res)

RedrawDue(d) == Screen!Playing(d) /\ d.loop = "asleep" => d.wake

Drawn(d) == DispOK(d) /\ ManualKept(d) /\ FrameDrawn(d)

\* Whether facts can be projected depends on the track, not on the rest of
\* the observation.
LEMMA CoherenceIsOfTheTrack ==
    ASSUME NEW o1, NEW o2, o1.track = o2.track, NEW doc, NEW res \in Resolutions
    PROVE  Screen!Coherent(o1, doc, res) <=> Screen!Coherent(o2, doc, res)
BY DEF Screen!Coherent, Resolutions

\* advance() moves the position of an observation and nothing else.
LEMMA NowType ==
    ASSUME NEW d, DispOK(d), d.obs # None
    PROVE  /\ Screen!Now(d) \in Observations
           /\ Screen!Now(d).track = d.obs.track
           /\ \E pos \in {d.obs.position, d.anchor} :
                 Screen!Now(d) = [d.obs EXCEPT !.position = pos]
<1>1. d.obs \in Observations
  BY DEF DispOK
<1>2. CASE d.anchor = None
  <2>1. Screen!Now(d) = d.obs
    BY <1>2 DEF Screen!Now
  <2>2. d.obs = [d.obs EXCEPT !.position = d.obs.position]
    BY <1>1 DEF Observations
  <2>3. QED BY <1>1, <2>1, <2>2
<1>3. CASE d.anchor # None
  <2>1. Screen!Now(d) = [d.obs EXCEPT !.position = d.anchor]
    BY <1>3 DEF Screen!Now
  <2>2. d.anchor \in Keys
    BY <1>3 DEF DispOK
  <2>3. QED BY <1>1, <2>1, <2>2 DEF Observations
<1>4. QED BY <1>2, <1>3

\* The facts in force can be projected exactly when their track allows it.
LEMMA PoisonedIsOfTheTrack ==
    ASSUME NEW d, DispOK(d), d.obs # None
    PROVE  Screen!Poisoned(d) <=> ~Screen!Coherent(d.obs, d.doc, d.res)
<1>1. d.res \in Resolutions /\ Screen!Now(d).track = d.obs.track
  BY NowType DEF DispOK
<1>2. Screen!Coherent(Screen!Now(d), d.doc, d.res) <=> Screen!Coherent(d.obs, d.doc, d.res)
  BY <1>1, CoherenceIsOfTheTrack
<1>3. QED BY <1>2 DEF Screen!Poisoned

\* What a projection of coherent facts leaves behind: the empty display, or the
\* same facts under a frame that shows them.
LEMMA ShowResult ==
    ASSUME NEW d, DispOK(d), NEW playback, d.obs # None,
           Screen!Coherent(playback, d.doc, d.res)
    PROVE  LET s == Screen!Show(d, playback)
           IN  \/ /\ s = [Screen!Initially EXCEPT
                            !.frame = Screen!Frame(playback, d.doc, d.res),
                            !.loop = d.loop, !.wake = d.wake]
                  /\ Screen!Frame(playback, d.doc, d.res).state = "NoTrack"
                  /\ playback.track = None /\ d.doc = None
               \/ s = [d EXCEPT !.frame = Screen!Frame(playback, d.doc, d.res)]
<1> DEFINE frame == Screen!Frame(playback, d.doc, d.res)
<1>1. frame.state = IF d.res = "Available" /\ ~Screen!HasLyrics(d.doc) THEN "NotFound" ELSE d.res
  BY DEF Screen!Frame
<1>2. CASE frame.state = "NoTrack"
  <2>1. d.res = "NoTrack"
    BY <1>1, <1>2
  <2>2. playback.track = None /\ d.doc = None
    BY <2>1 DEF Screen!Coherent
  <2>3. QED BY <1>2, <2>2 DEF Screen!Show
<1>3. CASE frame.state # "NoTrack"
  BY <1>3 DEF Screen!Show
<1>4. QED BY <1>2, <1>3

\* A display that has forgotten its track shows nothing of it.
LEMMA EmptyOK ==
    ASSUME NEW frame, frame.state = "NoTrack", frame.track = None, frame.doc = None,
           NEW loop, NEW wake
    PROVE  LET s == [Screen!Initially EXCEPT !.frame = frame, !.loop = loop, !.wake = wake]
           IN  ScreenOK(s) /\ Drawn(s)
<1> DEFINE s == [Screen!Initially EXCEPT !.frame = frame, !.loop = loop, !.wake = wake]
<1> SUFFICES ScreenOK(s) /\ Drawn(s)
  OBVIOUS
<1>1. /\ DOMAIN s = {"doc", "res", "mdoc", "mtrack", "obs", "key", "anchor", "paused",
                     "frame", "loop", "wake"}
      /\ s.res = "NoTrack" /\ s.obs = None /\ s.anchor = None /\ s.mdoc = None
      /\ s.frame = frame
  BY DEF Screen!Initially
<1> HIDE DEF s
<1>2. QED BY <1>1 DEF ScreenOK, Drawn, DispOK, ManualKept, FrameCurrent, FrameDrawn, Resolutions

\* A frame drawn from the facts at the clock's position shows them, and the task
\* that redraws it runs if it would have run before.
LEMMA ShowOK ==
    ASSUME NEW d, DispOK(d), ManualKept(d), d.obs # None,
           NEW pos \in {d.obs.position, d.anchor},
           LET playback == [d.obs EXCEPT !.position = pos]
           IN  Screen!Coherent(playback, d.doc, d.res)
    PROVE  LET t == Screen!Show(d, [d.obs EXCEPT !.position = pos])
           IN  Drawn(t) /\ (RedrawDue(d) => ScreenOK(t))
<1> DEFINE playback == [d.obs EXCEPT !.position = pos]
           frame == Screen!Frame(playback, d.doc, d.res)
           s == [d EXCEPT !.frame = frame]
<1>1. \/ /\ Screen!Show(d, playback) = [Screen!Initially EXCEPT
                      !.frame = frame, !.loop = d.loop, !.wake = d.wake]
         /\ frame.state = "NoTrack" /\ playback.track = None /\ d.doc = None
      \/ Screen!Show(d, playback) = s
  BY ShowResult
<1>2. frame.track = playback.track /\ frame.doc = d.doc
  BY DEF Screen!Frame
<1>3. CASE frame.state = "NoTrack" /\ playback.track = None /\ d.doc = None
  <2> DEFINE e == [Screen!Initially EXCEPT !.frame = frame, !.loop = d.loop, !.wake = d.wake]
  <2>1. ScreenOK(e) /\ Drawn(e)
    <3> HIDE DEF frame, playback
    <3>1. QED BY <1>2, <1>3, EmptyOK
  <2>2. Screen!Show(d, playback) =
           [Screen!Initially EXCEPT !.frame = frame, !.loop = d.loop, !.wake = d.wake]
    BY <1>3 DEF Screen!Show
  <2>3. QED BY <2>1, <2>2
<1>4. CASE Screen!Show(d, playback) = s
  <2>1. /\ DOMAIN s = DOMAIN d /\ s.obs = d.obs /\ s.doc = d.doc /\ s.res = d.res
        /\ s.mdoc = d.mdoc /\ s.mtrack = d.mtrack /\ s.anchor = d.anchor
        /\ s.paused = d.paused /\ s.loop = d.loop /\ s.wake = d.wake /\ s.frame = frame
    <3> HIDE DEF frame
    <3>1. QED BY DEF DispOK
  <2> HIDE DEF s
  <2>2. DispOK(s) /\ ManualKept(s)
    BY <2>1 DEF DispOK, ManualKept
  <2>3. RedrawDue(d) => RedrawDue(s)
    BY <2>1 DEF RedrawDue, Screen!Playing
  <2>4. FrameDrawn(s)
    BY <2>1 DEF FrameDrawn
  <2>5. QED BY <1>4, <2>2, <2>3, <2>4 DEF ScreenOK, Drawn, FrameCurrent, FrameDrawn, RedrawDue
<1>5. QED BY <1>1, <1>3, <1>4

\* What publish_resolution installs before it projects: the observation, and
\* either the lyrics chosen by hand for its track or what the source resolved.
LEMMA InstalledOK ==
    ASSUME NEW d, DispOK(d), NEW obs \in Observations, NEW doc, NEW res \in Resolutions,
           NEW stalled
    PROVE  LET s == Screen!Installed(d, obs, doc, res, stalled)
           IN  DispOK(s) /\ ManualKept(s) /\ s.obs = obs /\ s.loop = d.loop
<1> DEFINE kept == Screen!ManualFor(d, obs.track)
           u == [kept EXCEPT !.doc = IF kept.mdoc # None THEN kept.mdoc ELSE doc,
                             !.res = IF kept.mdoc # None THEN "Available" ELSE res]
           fresh == IF Screen!TrackKey(obs) = u.key THEN u
                    ELSE [u EXCEPT !.key = Screen!TrackKey(obs), !.anchor = None,
                                   !.paused = FALSE]
           v == [fresh EXCEPT !.obs = obs]
           s == Screen!Sync(v, obs.position, obs.status, stalled)
<1>1. Screen!Installed(d, obs, doc, res, stalled) = s
  BY DEF Screen!Installed, Screen!SetObservation
<1>2. /\ DispOK(kept) /\ kept.loop = d.loop
      /\ kept.mdoc # None => Screen!SameTrack(kept.mtrack, obs.track)
  BY DEF Screen!ManualFor, DispOK
<1>3. /\ DispOK(u) /\ u.loop = d.loop /\ u.mtrack = kept.mtrack /\ u.mdoc = kept.mdoc
      /\ u.mdoc # None => u.doc = u.mdoc /\ u.res = "Available"
  <2> HIDE DEF kept
  <2>1. QED BY <1>2 DEF DispOK, Resolutions
<1>4. /\ DispOK(fresh) /\ fresh.loop = d.loop /\ fresh.mtrack = kept.mtrack
      /\ fresh.mdoc = u.mdoc /\ fresh.doc = u.doc /\ fresh.res = u.res
  <2> HIDE DEF u, kept
  <2>1. QED BY <1>3 DEF DispOK
<1>5. /\ DispOK(v) /\ v.loop = d.loop /\ v.mtrack = kept.mtrack
      /\ v.mdoc = u.mdoc /\ v.doc = u.doc /\ v.res = u.res /\ v.obs = obs
  <2> HIDE DEF fresh, u, kept
  <2>1. QED BY <1>4 DEF DispOK
<1>6. obs.position \in Keys \cup {None}
  BY DEF Observations
<1>7. /\ DispOK(s) /\ s.loop = d.loop /\ s.mtrack = kept.mtrack
      /\ s.mdoc = u.mdoc /\ s.doc = u.doc /\ s.res = u.res /\ s.obs = obs
  <2> HIDE DEF v, fresh, u, kept
  <2>1. QED BY <1>5, <1>6 DEF DispOK, Screen!Sync
<1>8. ManualKept(s)
  <2>1. s.mdoc # None =>
           /\ Screen!SameTrack(s.mtrack, s.obs.track) /\ s.doc = s.mdoc /\ s.res = "Available"
    BY <1>2, <1>3, <1>7
  <2>2. s.obs # None
    BY <1>7, ReceiverAssumption
  <2> HIDE DEF s
  <2>3. QED BY <2>1, <2>2 DEF ManualKept
<1> HIDE DEF s
<1>9. QED BY <1>1, <1>7, <1>8

\* Waking the display task changes nothing but the wake event, and a task that
\* has been woken runs.
LEMMA WokenOK ==
    ASSUME NEW d, Drawn(d)
    PROVE  ScreenOK(Screen!Woken(d))
<1> DEFINE s == Screen!Woken(d)
<1>1. /\ DOMAIN s = DOMAIN d /\ s.obs = d.obs /\ s.doc = d.doc /\ s.res = d.res
      /\ s.mdoc = d.mdoc /\ s.mtrack = d.mtrack /\ s.anchor = d.anchor
      /\ s.paused = d.paused /\ s.loop = d.loop /\ s.frame = d.frame
  BY DEF Screen!Woken, Drawn, DispOK
<1>2. s.wake = (d.loop # "off")
  BY DEF Screen!Woken, Drawn, DispOK
<1>3. RedrawDue(s)
  BY <1>1, <1>2 DEF RedrawDue
<1>4. Screen!Poisoned(s) <=> Screen!Poisoned(d)
  BY <1>1 DEF Screen!Poisoned, Screen!Now
<1> SUFFICES ScreenOK(s)
  OBVIOUS
<1> HIDE DEF s
<1>5. DispOK(s) /\ ManualKept(s)
  BY <1>1 DEF Drawn, DispOK, ManualKept
<1>6. FrameCurrent(s)
  BY <1>1, <1>3, <1>4 DEF Drawn, FrameCurrent, FrameDrawn, RedrawDue
<1>7. QED BY <1>5, <1>6 DEF ScreenOK

\* publish_resolution: whatever was on display, the lyrics chosen by hand stay
\* with their track and the frame shows the new facts, unless they cannot be
\* projected.
LEMMA PublishResolutionOK ==
    ASSUME NEW d, DispOK(d), NEW obs \in Observations, NEW doc, NEW res \in Resolutions,
           NEW stalled
    PROVE  LET t == Screen!PublishResolution(d, obs, doc, res, stalled)
           IN  /\ ScreenOK(t)
               /\ ~Screen!Coherent(obs, Screen!Installed(d, obs, doc, res, stalled).doc,
                                   Screen!Installed(d, obs, doc, res, stalled).res)
                    => Screen!Poisoned(t)
<1> DEFINE s == Screen!Installed(d, obs, doc, res, stalled)
<1>1. DispOK(s) /\ ManualKept(s) /\ s.obs = obs /\ s.obs # None
  BY InstalledOK, ReceiverAssumption
<1>2. Screen!PublishResolution(d, obs, doc, res, stalled) =
         IF ~Screen!Coherent(obs, s.doc, s.res) THEN s
         ELSE Screen!Woken(Screen!Show(s, obs))
  BY DEF Screen!PublishResolution
<1> HIDE DEF s
<1>3. CASE ~Screen!Coherent(obs, s.doc, s.res)
  <2>1. Screen!Poisoned(s)
    BY <1>1, <1>3, PoisonedIsOfTheTrack
  <2>2. FrameCurrent(s)
    BY <1>1, <2>1 DEF FrameCurrent
  <2>3. QED BY <1>1, <1>2, <1>3, <2>1, <2>2 DEF ScreenOK, s
<1>4. CASE Screen!Coherent(obs, s.doc, s.res)
  <2>1. obs = [s.obs EXCEPT !.position = s.obs.position]
    BY <1>1 DEF Observations
  <2>2. Drawn(Screen!Show(s, obs))
    BY <1>1, <1>4, <2>1, ShowOK
  <2>3. ScreenOK(Screen!Woken(Screen!Show(s, obs)))
    BY <2>2, WokenOK
  <2>4. QED BY <1>2, <1>4, <2>3 DEF s
<1>5. QED BY <1>3, <1>4

\* A projection of the facts in force at the clock's position.
LEMMA ShowNowOK ==
    ASSUME NEW d, DispOK(d), ManualKept(d), d.obs # None, ~Screen!Poisoned(d)
    PROVE  LET t == Screen!Show(d, Screen!Now(d))
           IN  Drawn(t) /\ (RedrawDue(d) => ScreenOK(t))
<1>1. PICK pos \in {d.obs.position, d.anchor} :
         Screen!Now(d) = [d.obs EXCEPT !.position = pos]
  BY NowType
<1>2. Screen!Coherent([d.obs EXCEPT !.position = pos], d.doc, d.res)
  BY <1>1 DEF Screen!Poisoned
<1>3. QED BY <1>1, <1>2, ShowOK

\* A display that satisfies ScreenOK is drawn.
LEMMA ScreenIsDrawn == \A d : ScreenOK(d) => Drawn(d)
BY DEF ScreenOK, Drawn, FrameCurrent, FrameDrawn

\* publish_frame(EMPTY_FRAME)
LEMMA PublishEmptyOK ==
    ASSUME NEW d
    PROVE  ScreenOK(Screen!PublishEmpty(d))
<1> DEFINE empty == Screen!EmptyFrame
           s == Screen!PublishEmpty(d)
<1>1. empty.state = "NoTrack" /\ empty.track = None /\ empty.doc = None
  BY DEF Screen!EmptyFrame
<1> HIDE DEF empty
<1>2. /\ DOMAIN s = {"doc", "res", "mdoc", "mtrack", "obs", "key", "anchor", "paused",
                     "frame", "loop", "wake"}
      /\ s.res = "NoTrack" /\ s.obs = None /\ s.anchor = None /\ s.mdoc = None
      /\ s.frame = empty
  BY DEF Screen!PublishEmpty, Screen!Initially, empty
<1> HIDE DEF s
<1>3. ScreenOK(s)
  BY <1>1, <1>2 DEF ScreenOK, DispOK, ManualKept, FrameCurrent, Resolutions
<1>4. QED BY <1>3 DEF s

\* The document and the resolution do not depend on the clock.
LEMMA InstalledFacts ==
    ASSUME NEW d, DispOK(d), NEW obs, NEW doc, NEW res, NEW stalled1, NEW stalled2
    PROVE  LET s(b) == Screen!Installed(d, obs, doc, res, b)
           IN  s(stalled1).doc = s(stalled2).doc /\ s(stalled1).res = s(stalled2).res
<1> DEFINE kept == Screen!ManualFor(d, obs.track)
           u == [kept EXCEPT !.doc = IF kept.mdoc # None THEN kept.mdoc ELSE doc,
                             !.res = IF kept.mdoc # None THEN "Available" ELSE res]
           fresh == IF Screen!TrackKey(obs) = u.key THEN u
                    ELSE [u EXCEPT !.key = Screen!TrackKey(obs), !.anchor = None,
                                   !.paused = FALSE]
           v == [fresh EXCEPT !.obs = obs]
<1>1. ASSUME NEW b
      PROVE  LET s == Screen!Installed(d, obs, doc, res, b)
             IN  s.doc = v.doc /\ s.res = v.res
  <2>1. Screen!Installed(d, obs, doc, res, b) = Screen!Sync(v, obs.position, obs.status, b)
    BY DEF Screen!Installed, Screen!SetObservation
  <2> HIDE DEF v
  <2>2. QED BY <2>1 DEF Screen!Sync
<1> HIDE DEF v
<1>2. QED BY <1>1

\* publish
LEMMA PublishOK ==
    ASSUME NEW d, DispOK(d), NEW obs \in Observations, NEW doc, NEW stalled
    PROVE  LET t == Screen!Publish(d, obs, doc, stalled)
           IN  /\ ScreenOK(t)
               /\ ~Screen!Publishable(d, obs, doc, Screen!FromFacts(obs, doc))
                    => Screen!Poisoned(t)
<1> DEFINE res == Screen!FromFacts(obs, doc)
           s(b) == Screen!Installed(d, obs, doc, res, b)
<1>1. res \in Resolutions
  BY DEF Screen!FromFacts, Resolutions
<1> HIDE DEF res
<1>2. ASSUME NEW b PROVE s(stalled).doc = s(b).doc /\ s(stalled).res = s(b).res
  BY InstalledFacts
<1>3. s(stalled).doc = s(TRUE).doc /\ s(stalled).res = s(TRUE).res
  BY <1>2, Zenon
<1>4. QED BY <1>1, <1>3, PublishResolutionOK DEF Screen!Publish, Screen!Publishable, res

\* apply_manual_artifact
LEMMA ApplyManualOK ==
    ASSUME NEW d, ScreenOK(d), NEW song, NEW document, NEW stalled
    PROVE  ScreenOK(Screen!ApplyManual(d, song, document, stalled))
<1> DEFINE refused == d.obs = None \/ d.obs.track = None \/ song = None \/ d.obs.track.song # song
           u == [d EXCEPT !.mtrack = d.obs.track, !.mdoc = document]
<1>1. CASE refused
  BY <1>1 DEF Screen!ApplyManual
<1>2. CASE ~refused
  <2>1. DispOK(u)
    BY DEF ScreenOK, DispOK
  <2>2. Screen!Now(d) \in Observations
    BY <1>2, NowType DEF ScreenOK
  <2>3. Screen!ApplyManual(d, song, document, stalled) =
           Screen!PublishResolution(u, Screen!Now(d), document, "Available", stalled)
    BY <1>2 DEF Screen!ApplyManual
  <2>4. "Available" \in Resolutions
    BY DEF Resolutions
  <2> HIDE DEF u
  <2>5. QED BY <2>1, <2>2, <2>3, <2>4, PublishResolutionOK
<1>3. QED BY <1>1, <1>2

\* set_options wakes nobody, and need not: the clock is what it was.
LEMMA SetOptionsOK ==
    ASSUME NEW d, ScreenOK(d)
    PROVE  ScreenOK(Screen!SetOptions(d))
<1>1. CASE d.obs = None
  BY <1>1 DEF Screen!SetOptions
<1>2. CASE d.obs # None /\ Screen!Poisoned(d)
  BY <1>2 DEF Screen!SetOptions, Screen!Show, Screen!Poisoned
<1>3. CASE d.obs # None /\ ~Screen!Poisoned(d)
  <2>1. RedrawDue(d)
    BY <1>3 DEF ScreenOK, FrameCurrent, RedrawDue
  <2>2. ScreenOK(Screen!Show(d, Screen!Now(d)))
    BY <1>3, <2>1, ShowNowOK DEF ScreenOK
  <2>3. QED BY <1>3, <2>2 DEF Screen!SetOptions
<1>4. QED BY <1>1, <1>2, <1>3

\* tick: the clock of the observed track moves, and only that.
LEMMA TickOK ==
    ASSUME NEW d, ScreenOK(d), NEW pos \in Keys \cup {None}, NEW status \in Statuses,
           NEW stalled
    PROVE  ScreenOK(Screen!Tick(d, pos, status, stalled))
<1> DEFINE u == [d EXCEPT !.obs.status = status,
                          !.obs.position = IF pos # None THEN pos ELSE @]
           s == Screen!Sync(u, pos, status, stalled)
<1>1. CASE d.obs = None
  BY <1>1 DEF Screen!Tick
<1>2. CASE d.obs # None
  <2>1. /\ d.obs \in Observations
        /\ u.obs = [d.obs EXCEPT !.status = status,
                                 !.position = IF pos # None THEN pos ELSE d.obs.position]
        /\ DOMAIN u = DOMAIN d /\ u.res = d.res /\ u.doc = d.doc /\ u.mdoc = d.mdoc
        /\ u.mtrack = d.mtrack /\ u.anchor = d.anchor
    BY <1>2 DEF ScreenOK, DispOK
  <2>2. u.obs \in Observations /\ u.obs.track = d.obs.track
    <3> HIDE DEF u
    <3>1. QED BY <2>1 DEF Observations
  <2>3. DispOK(u)
    BY <2>1, <2>2 DEF ScreenOK, DispOK
  <2>4. /\ DispOK(s) /\ s.obs = u.obs /\ s.doc = d.doc /\ s.res = d.res
        /\ s.mdoc = d.mdoc /\ s.mtrack = d.mtrack
    <3> HIDE DEF u
    <3>1. QED BY <2>1, <2>3 DEF DispOK, Screen!Sync
  <2>5. s.obs # None
    BY <2>2, <2>4, ReceiverAssumption
  <2>6. Screen!Tick(d, pos, status, stalled) =
           IF Screen!Poisoned(s) THEN s ELSE Screen!Woken(Screen!Show(s, Screen!Now(s)))
    BY <1>2 DEF Screen!Tick, Screen!Calibrated
  <2> HIDE DEF s, u
  <2>7. ManualKept(s)
    BY <1>2, <2>2, <2>4, <2>5 DEF ScreenOK, ManualKept
  <2>8. CASE Screen!Poisoned(s)
    BY <2>4, <2>5, <2>6, <2>7, <2>8 DEF ScreenOK, FrameCurrent
  <2>9. CASE ~Screen!Poisoned(s)
    <3>1. Drawn(Screen!Show(s, Screen!Now(s)))
      BY <2>4, <2>5, <2>7, <2>9, ShowNowOK
    <3>2. QED BY <2>6, <2>9, <3>1, WokenOK
  <2>10. QED BY <2>8, <2>9
<1>3. QED BY <1>1, <1>2

\* The state of the task is not among the facts.
LEMMA TaskOK ==
    ASSUME NEW d, Drawn(d), NEW loop, NEW wake,
           loop = "asleep" /\ Screen!Playing(d) /\ ~Screen!Poisoned(d) => wake
    PROVE  ScreenOK([d EXCEPT !.wake = wake, !.loop = loop])
<1> DEFINE s == [d EXCEPT !.wake = wake, !.loop = loop]
<1>1. /\ DOMAIN s = DOMAIN d /\ s.obs = d.obs /\ s.doc = d.doc /\ s.res = d.res
      /\ s.mdoc = d.mdoc /\ s.mtrack = d.mtrack /\ s.anchor = d.anchor
      /\ s.paused = d.paused /\ s.loop = loop /\ s.wake = wake /\ s.frame = d.frame
  BY DEF Drawn, DispOK
<1> SUFFICES ScreenOK(s)
  OBVIOUS
<1> HIDE DEF s
<1>2. Screen!Poisoned(s) <=> Screen!Poisoned(d)
  BY <1>1 DEF Screen!Poisoned, Screen!Now
<1>3. Screen!Playing(s) <=> Screen!Playing(d)
  BY <1>1 DEF Screen!Playing
<1>4. DispOK(s) /\ ManualKept(s)
  BY <1>1 DEF Drawn, DispOK, ManualKept
<1>5. FrameCurrent(s)
  BY <1>1, <1>2, <1>3 DEF Drawn, FrameCurrent, FrameDrawn
<1>6. QED BY <1>4, <1>5 DEF ScreenOK

\* stop
LEMMA StoppedOK ==
    ASSUME NEW d, ScreenOK(d)
    PROVE  ScreenOK(Screen!Stopped(d))
<1>1. Drawn(d)
  BY ScreenIsDrawn
<1>2. Screen!Stopped(d) = [d EXCEPT !.wake = FALSE, !.loop = "off"]
  BY <1>1 DEF Screen!Stopped, Drawn, DispOK
<1>3. ScreenOK([d EXCEPT !.wake = FALSE, !.loop = "off"])
  BY <1>1, TaskOK
<1>4. QED BY <1>2, <1>3

\* One turn of the display task.
LEMMA IterateOK ==
    ASSUME NEW d, ScreenOK(d)
    PROVE  ScreenOK(Screen!Iterate(d))
<1>1. Drawn(d)
  BY ScreenIsDrawn
<1>2. CASE Screen!Poisoned(d)
  <2>1. Screen!Iterate(d) = [d EXCEPT !.wake = d.wake, !.loop = "failed"]
    BY <1>1, <1>2 DEF Screen!Iterate, Drawn, DispOK
  <2>2. ScreenOK([d EXCEPT !.wake = d.wake, !.loop = "failed"])
    BY <1>1, TaskOK
  <2>3. QED BY <2>1, <2>2
<1>3. CASE ~Screen!Poisoned(d)
  <2> DEFINE s == IF d.obs = None THEN d ELSE Screen!Show(d, Screen!Now(d))
             loop == IF Screen!Playing(s) THEN "timed" ELSE "asleep"
  <2>1. Drawn(s)
    BY <1>1, <1>3, ShowNowOK DEF Drawn
  <2>2. Screen!Iterate(d) = [s EXCEPT !.wake = FALSE, !.loop = loop]
    BY <1>3 DEF Screen!Iterate
  <2> HIDE DEF s
  <2>3. ScreenOK([s EXCEPT !.wake = FALSE, !.loop = loop])
    BY <2>1, TaskOK
  <2>4. QED BY <2>2, <2>3
<1>4. QED BY <1>2, <1>3
-------------------------------------------------------------------------------
(* The gate: what its methods do to the candidates the sessions mirror.    *)

\* The shape of the gate's state, as far as the receiver relies on it.
OwnOK(s) ==
    /\ DOMAIN s = {"mode", "bound", "sources", "cands", "timings", "seq", "tick"}
    /\ DOMAIN s.cands = Gate!Clients
    /\ s.seq \in Nat

\* Two states of the gate with the same candidates; a reservation for the local
\* player still stands in the second.
SameCandidates(s, t) ==
    OwnOK(t) /\ t.cands = s.cands /\ (s.mode = "external" => t.mode = "external")

\* An election moves the owner, not the candidates.
LEMMA ElectKeeps ==
    ASSUME NEW s, OwnOK(s)
    PROVE  /\ OwnOK(Gate!Elect(s)) /\ Gate!Elect(s).cands = s.cands
           /\ SameCandidates(s, Gate!ElectIfStandalone(s))
<1> DEFINE t == Gate!Elect(s)
           owner == Gate!Owner(s.cands, s.sources)
<1>1. t = [s EXCEPT !.mode = "standalone", !.bound = owner]
  BY DEF Gate!Elect
<1> HIDE DEF owner
<1>2. OwnOK(t) /\ t.cands = s.cands
  BY <1>1 DEF OwnOK
<1>3. Gate!ElectIfStandalone(s) = IF s.mode = "standalone" THEN t ELSE s
  BY DEF Gate!ElectIfStandalone
<1> HIDE DEF t
<1>4. QED BY <1>2, <1>3 DEF SameCandidates, t

\* Neither does any way of selecting an owner.
LEMMA SelectKeeps ==
    ASSUME NEW s, OwnOK(s), NEW c
    PROVE  /\ OwnOK(Gate!SelectExternal(s)) /\ Gate!SelectExternal(s).cands = s.cands
           /\ OwnOK(Gate!SelectLive(s, c)) /\ Gate!SelectLive(s, c).cands = s.cands
           /\ OwnOK(Gate!SelectStandalone(s)) /\ Gate!SelectStandalone(s).cands = s.cands
<1>1. OwnOK(Gate!Elect(s)) /\ Gate!Elect(s).cands = s.cands
  BY ElectKeeps
<1>2. OwnOK(Gate!SelectStandalone(s)) /\ Gate!SelectStandalone(s).cands = s.cands
  BY <1>1 DEF Gate!SelectStandalone
<1>3. OwnOK(Gate!SelectExternal(s)) /\ Gate!SelectExternal(s).cands = s.cands
  <2> DEFINE t == [s EXCEPT !.mode = "external", !.bound = Gate!Mpris]
  <2>1. OwnOK(t) /\ t.cands = s.cands
    BY DEF OwnOK
  <2>2. Gate!SelectExternal(s) \in {t, Gate!SelectStandalone(s)}
    BY DEF Gate!SelectExternal
  <2>3. QED BY <1>2, <2>1, <2>2
<1>4. OwnOK(Gate!SelectLive(s, c)) /\ Gate!SelectLive(s, c).cands = s.cands
  <2> DEFINE t == [s EXCEPT !.mode = "live", !.bound = c]
  <2>1. OwnOK(t) /\ t.cands = s.cands
    BY DEF OwnOK
  <2>2. Gate!SelectLive(s, c) \in {t, Gate!SelectStandalone(s)}
    BY DEF Gate!SelectLive
  <2>3. QED BY <1>2, <2>1, <2>2
<1>5. QED BY <1>2, <1>3, <1>4

\* Nor a change of the configured slots.
LEMMA ConfigureKeeps ==
    ASSUME NEW s, OwnOK(s), NEW raw
    PROVE  LET t == Gate!SetDisplaySources(s, raw) IN OwnOK(t) /\ t.cands = s.cands
<1> DEFINE sources == Gate!Normalized(raw)
           u == [s EXCEPT !.sources = sources]
<1> HIDE DEF sources
<1>1. OwnOK(u) /\ u.cands = s.cands
  BY DEF OwnOK
<1>2. Gate!SetDisplaySources(s, raw)
         \in {s, Gate!SelectStandalone(u), Gate!ElectIfStandalone(u)}
  BY DEF Gate!SetDisplaySources, sources
<1> HIDE DEF u
<1>3. /\ OwnOK(Gate!SelectStandalone(u)) /\ Gate!SelectStandalone(u).cands = s.cands
      /\ OwnOK(Gate!ElectIfStandalone(u)) /\ Gate!ElectIfStandalone(u).cands = s.cands
  BY <1>1, SelectKeeps, ElectKeeps DEF SameCandidates
<1>4. QED BY <1>2, <1>3

\* observe retains the report as the client's candidate.
LEMMA ObserveKeeps ==
    ASSUME NEW s, OwnOK(s), NEW c \in Connections, NEW obs, NEW doc
    PROVE  LET t == Gate!Observe(s, c, obs, doc)
           IN  /\ OwnOK(t)
               /\ t.cands = [s.cands EXCEPT ![c] = [seq |-> s.seq + 1, obs |-> obs, doc |-> doc]]
               /\ s.mode = "external" => t.mode = "external"
<1> DEFINE cand == [seq |-> s.seq + 1, obs |-> obs, doc |-> doc]
           u == [s EXCEPT !.seq = @ + 1, !.cands[c] = cand]
<1>1. Gate!Observe(s, c, obs, doc) = Gate!ElectIfStandalone(u)
  BY DEF Gate!Observe
<1> HIDE DEF cand
<1>2. OwnOK(u) /\ u.cands = [s.cands EXCEPT ![c] = cand] /\ u.mode = s.mode
  BY DEF OwnOK
<1> HIDE DEF u
<1>3. SameCandidates(u, Gate!ElectIfStandalone(u))
  BY <1>2, ElectKeeps
<1>4. QED BY <1>1, <1>2, <1>3 DEF SameCandidates, cand

\* observe_clock retains a clock and no candidate.
LEMMA ObserveClockKeeps ==
    ASSUME NEW s, OwnOK(s), NEW c, NEW ref
    PROVE  SameCandidates(s, Gate!ObserveClock(s, c, ref))
<1> DEFINE timing == [tick |-> s.tick + 1, seq |-> s.cands[c].seq, ref |-> ref]
           u == [s EXCEPT !.tick = @ + 1, !.timings[c] = timing]
<1>1. Gate!ObserveClock(s, c, ref) \in {s, u}
  BY DEF Gate!ObserveClock
<1> HIDE DEF timing
<1>2. SameCandidates(s, u)
  BY DEF SameCandidates, OwnOK
<1>3. QED BY <1>1, <1>2 DEF SameCandidates

\* drop_client forgets the client's candidate, whoever owns the display then.
LEMMA DropClientKeeps ==
    ASSUME NEW s, OwnOK(s), NEW c \in Connections
    PROVE  LET t == Gate!DropClient(s, c)
           IN  /\ OwnOK(t) /\ t.cands = [s.cands EXCEPT ![c] = None]
               /\ s.mode = "external" => t.mode = "external"
<1> DEFINE seq == IF s.cands[c] # None THEN s.seq + 1 ELSE s.seq
           u == [s EXCEPT !.timings[c] = None, !.cands[c] = None, !.seq = seq]
           cleared == Gate!ClearClient(s, c)
<1>1. cleared = Gate!ElectIfStandalone(u)
  BY DEF Gate!ClearClient, OwnOK
<1>2. seq \in Nat
  BY DEF OwnOK
<1> HIDE DEF seq
<1>3. OwnOK(u) /\ u.cands = [s.cands EXCEPT ![c] = None] /\ u.mode = s.mode
  BY <1>2 DEF OwnOK
<1> HIDE DEF u
<1>4. SameCandidates(u, cleared)
  BY <1>1, <1>3, ElectKeeps
<1> HIDE DEF cleared
<1>5. Gate!DropClient(s, c) =
         IF s.mode = "live" /\ s.bound = c THEN Gate!SelectExternal(cleared)
         ELSE Gate!ElectIfStandalone(cleared)
  BY DEF Gate!DropClient, cleared
<1>6. /\ OwnOK(Gate!SelectExternal(cleared))
      /\ Gate!SelectExternal(cleared).cands = cleared.cands
      /\ SameCandidates(cleared, Gate!ElectIfStandalone(cleared))
  BY <1>4, SelectKeeps, ElectKeeps DEF SameCandidates
<1>7. QED BY <1>3, <1>4, <1>5, <1>6 DEF SameCandidates

\* No adapter may publish while the display is reserved for the local player.
LEMMA ReservedRefusesAdapters ==
    ASSUME NEW s, s.mode = "external", NEW c \in Connections
    PROVE  ~Gate!Accepts(s, c)
BY ReceiverAssumption DEF Gate!Accepts
-------------------------------------------------------------------------------
(* The receiver's handlers.                                                *)

\* SessionMatchesCandidate of a gate and its sessions.
MatchedFor(own_, sessions_, c) ==
    IF own_.cands[c] = None
    THEN sessions_[c] # None => sessions_[c].last = None /\ sessions_[c].ref = None
    ELSE sessions_[c] # None /\ sessions_[c].ref = TrackRef(own_.cands[c].obs.track)

Matched(own_, sessions_) == \A c \in Connections : MatchedFor(own_, sessions_, c)

\* The receiver's view of a state, its parts in order, and in order together.
Shaped(r) ==
    /\ DOMAIN r = {"own", "disp", "sessions", "client"}
    /\ OwnOK(r.own) /\ ScreenOK(r.disp)
    /\ r.sessions \in [Connections -> Sessions \cup {None}]
    /\ r.client \in Connections \cup {None}

Sound(r) == Shaped(r) /\ Matched(r.own, r.sessions)

IInv == Sound(Ingress)

\* What serving client c may do: the other clients keep their sessions and
\* candidates, and a reserved display is left alone.
OthersKept(r, t, c) ==
    \A d \in Connections \ {c} :
        t.sessions[d] = r.sessions[d] /\ t.own.cands[d] = r.own.cands[d]

OnlyTouches(r, t, c) ==
    /\ OthersKept(r, t, c)
    /\ r.own.mode = "external" => t.own.mode = "external" /\ t.disp = r.disp

\* A state in which only the client c has changed is in order if c is.
LEMMA SoundWith ==
    ASSUME NEW r, Sound(r), NEW t, Shaped(t), NEW c \in Connections,
           OthersKept(r, t, c), MatchedFor(t.own, t.sessions, c)
    PROVE  Sound(t)
BY DEF Sound, Matched, MatchedFor, OthersKept

\* References are the same whichever part computes them.
LEMMA SameRef == \A track : Gate!TrackRef(track) = TrackRef(track)
BY DEF Gate!TrackRef, TrackRef

\* And so is the resolution of a completed snapshot.
LEMMA SameFacts == \A obs, doc : Screen!FromFacts(obs, doc) = FromFacts(obs, doc)
BY DEF Screen!FromFacts, FromFacts, Screen!HasLyrics, HasLyrics

\* A reported track has a reference, and the report a playback identity.
LEMMA RefType ==
    ASSUME NEW obs \in Observations
    PROVE  TrackRef(obs.track) \in References \cup {None} /\ TrackKey(obs) \in Keys
<1>1. obs.track \in Tracks \cup {None} /\ obs.adapter \in Adapters /\ obs.player \in Players
  BY DEF Observations
<1>2. CASE obs.track = None
  BY <1>1, <1>2 DEF TrackRef, TrackKey, Keys
<1>3. CASE obs.track # None
  BY <1>1, <1>3 DEF TrackRef, TrackKey, Keys, Tracks, References
<1>4. QED BY <1>2, <1>3

\* _drop_client: the client is forgotten, and its frame is replaced only if it
\* still had the display.
LEMMA DroppedOK ==
    ASSUME NEW r, Sound(r), NEW c \in Connections
    PROVE  LET t == Dropped(r, c)
           IN  /\ Sound(t) /\ OnlyTouches(r, t, c)
               /\ t.sessions[c] = None
<1> DEFINE own_ == Gate!DropClient(r.own, c)
           sessions_ == [r.sessions EXCEPT ![c] = None]
           screen == Screen!Publish(r.disp, GoneObservation, None, TRUE)
           gone == [r EXCEPT !.sessions[c] = None, !.own = Gate!DropClient(@, c)]
           t == Dropped(r, c)
<1>1. /\ OwnOK(own_) /\ own_.cands = [r.own.cands EXCEPT ![c] = None]
      /\ r.own.mode = "external" => own_.mode = "external"
  BY DropClientKeeps DEF Sound, Shaped
<1>2. ScreenOK(screen)
  <2>1. GoneObservation \in Observations
    BY ReceiverAssumption DEF GoneObservation, Observations, Statuses
  <2>2. QED BY <2>1, PublishOK DEF Sound, Shaped, ScreenOK
<1>3. /\ DOMAIN gone = {"own", "disp", "sessions", "client"}
      /\ gone.own = own_ /\ gone.disp = r.disp
      /\ gone.sessions = sessions_ /\ gone.client = r.client
  <2> HIDE DEF own_
  <2>1. QED BY DEF Sound, Shaped, own_
<1>4. \/ t = gone
      \/ t = [gone EXCEPT !.client = None]
      \/ t = [gone EXCEPT !.client = None, !.disp = screen] /\ Gate!Accepts(r.own, c)
  <2>1. Screen!Publish(gone.disp, GoneObservation, None, TRUE) = screen
    BY <1>3
  <2> HIDE DEF screen, gone, own_
  <2>2. QED BY <2>1 DEF Dropped, gone, screen
<1> HIDE DEF gone, own_, screen, t
<1>5. /\ DOMAIN t = {"own", "disp", "sessions", "client"} /\ t.own = own_
      /\ t.sessions = sessions_ /\ t.client \in {r.client, None}
      /\ t.disp # r.disp => t.disp = screen /\ Gate!Accepts(r.own, c)
  BY <1>3, <1>4
<1>6. sessions_ \in [Connections -> Sessions \cup {None}]
  BY DEF Sound, Shaped
<1>7. Shaped(t) /\ t.sessions[c] = None
  BY <1>1, <1>2, <1>5, <1>6 DEF Sound, Shaped
<1>8. OthersKept(r, t, c) /\ MatchedFor(t.own, t.sessions, c)
  BY <1>1, <1>5, <1>7 DEF Sound, Shaped, OwnOK, Gate!Clients, OthersKept, MatchedFor
<1>9. Sound(t) /\ OnlyTouches(r, t, c)
  <2>1. r.own.mode = "external" => ~Gate!Accepts(r.own, c)
    BY ReservedRefusesAdapters
  <2>2. QED BY <1>1, <1>5, <1>7, <1>8, <2>1, SoundWith DEF OnlyTouches
<1>10. QED BY <1>7, <1>9 DEF t

\* A message of a client without a session opens one.
LEMMA OpenedOK ==
    ASSUME NEW r, Sound(r), NEW c \in Connections
    PROVE  LET t == Opened(r, c)
           IN  /\ Sound(t) /\ OnlyTouches(r, t, c)
               /\ t.sessions[c] # None /\ t.own = r.own /\ t.disp = r.disp
               /\ r.sessions[c] # None => t.sessions = r.sessions
<1>1. CASE r.sessions[c] # None
  BY <1>1 DEF Opened, OnlyTouches, OthersKept
<1>2. CASE r.sessions[c] = None
  <2> DEFINE sessions_ == [r.sessions EXCEPT ![c] = NewSession]
             t == [r EXCEPT !.sessions[c] = NewSession]
  <2>1. NewSession \in Sessions /\ NewSession # None
    BY ReceiverAssumption DEF NewSession, Sessions
  <2>2. NewSession.last = None /\ NewSession.ref = None
    BY DEF NewSession
  <2>3. /\ DOMAIN t = {"own", "disp", "sessions", "client"} /\ t.own = r.own
        /\ t.disp = r.disp /\ t.client = r.client /\ t.sessions = sessions_
    BY DEF Sound, Shaped
  <2>4. Opened(r, c) = t
    BY <1>2 DEF Opened
  <2> HIDE DEF t
  <2>5. sessions_ \in [Connections -> Sessions \cup {None}] /\ sessions_[c] = NewSession
    BY <2>1 DEF Sound, Shaped
  <2>6. r.own.cands[c] = None
    BY <1>2 DEF Sound, Matched, MatchedFor
  <2>7. \A d \in Connections \ {c} : sessions_[d] = r.sessions[d]
    BY DEF Sound, Shaped
  <2> HIDE DEF sessions_
  <2>8. Shaped(t) /\ OthersKept(r, t, c)
    BY <2>3, <2>5, <2>7 DEF Sound, Shaped, OthersKept
  <2>9. MatchedFor(t.own, t.sessions, c)
    BY <2>2, <2>3, <2>5, <2>6 DEF MatchedFor
  <2>10. Sound(t) /\ OnlyTouches(r, t, c)
    BY <2>3, <2>8, <2>9, SoundWith DEF OnlyTouches
  <2>11. QED BY <1>2, <2>1, <2>3, <2>4, <2>5, <2>10
<1>3. QED BY <1>1, <1>2

\* What serving a message of client c with a sequence may do: end the session,
\* record the sequence, or leave the recorded one; then either the candidate is
\* what it was, or the report was retained and its publication raised.
Served(r, t, c, seq) ==
    /\ Sound(t) /\ OnlyTouches(r, t, c)
    /\ \/ t.sessions[c] = None
       \/ t.sessions[c] # None /\ t.sessions[c].last = seq
       \/ /\ t.sessions[c] # None /\ t.sessions[c].last = r.sessions[c].last
          /\ t.own.cands[c] = r.own.cands[c] \/ Screen!Poisoned(t.disp)

\* An exception ends the WebSocket that carried the message, never the POST
\* session, and leaves the other clients alone.
LEMMA RaisedOK ==
    ASSUME NEW r, Sound(r), NEW c \in Connections
    PROVE  LET t == Raised(r, c)
           IN  Sound(t) /\ OnlyTouches(r, t, c) /\ (t = r \/ t.sessions[c] = None)
<1>1. CASE c = Post
  BY <1>1 DEF Raised, OnlyTouches, OthersKept
<1>2. CASE c # Post
  <2>1. Raised(r, c) = Dropped(r, c)
    BY <1>2 DEF Raised
  <2>2. QED BY <2>1, DroppedOK
<1>3. QED BY <1>1, <1>2

\* _publish_snapshot and the sequence recorded after it.
LEMMA SnapshotOK ==
    ASSUME NEW r, Sound(r), NEW c \in Connections, r.sessions[c] # None,
           NEW obs \in Observations, NEW doc \in Documents \cup {None},
           NEW seq \in Nat, NEW stalled
    PROVE  Served(r, Snapshot(r, c, obs, doc, seq, stalled), c, seq)
<1> DEFINE ref_ == TrackRef(obs.track)
           own_ == Gate!Observe(r.own, c, obs, doc)
           session == [r.sessions[c] EXCEPT !.ref = ref_]
           recorded == [session EXCEPT !.last = seq]
           screen == Screen!Publish(r.disp, obs, doc, stalled)
           observed == [r EXCEPT !.sessions[c].ref = TrackRef(obs.track),
                                 !.own = Gate!Observe(@, c, obs, doc)]
           shown == [observed EXCEPT !.disp = Screen!Publish(@, obs, doc, stalled)]
           accepted == [observed EXCEPT !.sessions[c].last = seq]
           published == [shown EXCEPT !.client = c, !.sessions[c].last = seq]
           t == Snapshot(r, c, obs, doc, seq, stalled)
<1>1. /\ OwnOK(own_)
      /\ own_.cands = [r.own.cands EXCEPT
                         ![c] = [seq |-> r.own.seq + 1, obs |-> obs, doc |-> doc]]
      /\ r.own.mode = "external" => own_.mode = "external"
  BY ObserveKeeps DEF Sound, Shaped
<1>2. /\ own_.cands[c] # None /\ own_.cands[c].obs = obs
      /\ \A d \in Connections \ {c} : own_.cands[d] = r.own.cands[d]
  <2>1. r.own.seq + 1 \in Nat /\ DOMAIN r.own.cands = Gate!Clients
    BY DEF Sound, Shaped, OwnOK
  <2>2. [seq |-> r.own.seq + 1, obs |-> obs, doc |-> doc] # None
    BY <2>1, ReceiverAssumption
  <2>3. \A d \in Connections : d \in DOMAIN r.own.cands
    BY <2>1 DEF Gate!Clients
  <2> HIDE DEF own_
  <2>4. QED BY <1>1, <2>2, <2>3
<1>3. ScreenOK(screen)
  BY PublishOK DEF Sound, Shaped, ScreenOK
<1>4. /\ session \in Sessions /\ recorded \in Sessions
      /\ session.ref = ref_ /\ recorded.ref = ref_
      /\ session.last = r.sessions[c].last /\ recorded.last = seq
  <2>1. r.sessions[c] \in Sessions
    BY DEF Sound, Shaped
  <2>2. ref_ \in References \cup {None}
    BY RefType
  <2> HIDE DEF ref_
  <2>3. QED BY <2>1, <2>2 DEF Sessions
<1>5. /\ DOMAIN observed = {"own", "disp", "sessions", "client"}
      /\ observed.own = own_ /\ observed.disp = r.disp /\ observed.client = r.client
      /\ observed.sessions = [r.sessions EXCEPT ![c] = session]
  <2> HIDE DEF own_, ref_
  <2>1. QED BY DEF Sound, Shaped, own_, ref_
<1> HIDE DEF own_, session, recorded, screen
<1>6. /\ DOMAIN shown = {"own", "disp", "sessions", "client"}
      /\ shown.own = own_ /\ shown.disp = screen /\ shown.client = r.client
      /\ shown.sessions = [r.sessions EXCEPT ![c] = session]
  <2> HIDE DEF observed
  <2>1. QED BY <1>5 DEF screen
<1>7. [[r.sessions EXCEPT ![c] = session] EXCEPT ![c].last = seq]
         = [r.sessions EXCEPT ![c] = recorded]
  BY DEF Sound, Shaped, recorded
<1>8. /\ DOMAIN accepted = {"own", "disp", "sessions", "client"}
      /\ accepted.own = own_ /\ accepted.disp = r.disp /\ accepted.client = r.client
      /\ accepted.sessions = [r.sessions EXCEPT ![c] = recorded]
  <2> HIDE DEF observed
  <2>1. QED BY <1>5, <1>7
<1>9. /\ DOMAIN published = {"own", "disp", "sessions", "client"}
      /\ published.own = own_ /\ published.disp = screen /\ published.client = c
      /\ published.sessions = [r.sessions EXCEPT ![c] = recorded]
  <2> HIDE DEF shown
  <2>1. QED BY <1>6, <1>7
<1>10. \/ t = accepted
       \/ t = Raised(shown, c) /\ Gate!Accepts(own_, c) /\ Screen!Poisoned(screen)
       \/ t = published /\ Gate!Accepts(own_, c)
  <2>1. ~Screen!Publishable(r.disp, obs, doc, FromFacts(obs, doc)) => Screen!Poisoned(screen)
    BY PublishOK, SameFacts DEF Sound, Shaped, ScreenOK, screen
  <2> HIDE DEF accepted, published, shown
  <2>2. t = IF ~Gate!Accepts(own_, c) THEN accepted
            ELSE IF ~Screen!Publishable(r.disp, obs, doc, FromFacts(obs, doc))
                 THEN Raised(shown, c) ELSE published
    BY <1>5 DEF Snapshot, accepted, published, shown
  <2>3. QED BY <2>1, <2>2
<1> SUFFICES Served(r, t, c, seq)
  OBVIOUS
<1> HIDE DEF observed, accepted, shown, published, t
<1>11. /\ Shaped(accepted) /\ Shaped(shown) /\ Shaped(published)
       /\ accepted.sessions[c] = recorded /\ published.sessions[c] = recorded
       /\ shown.sessions[c] = session
  BY <1>1, <1>3, <1>4, <1>6, <1>8, <1>9 DEF Sound, Shaped
<1>12. /\ OthersKept(r, accepted, c) /\ OthersKept(r, shown, c) /\ OthersKept(r, published, c)
  BY <1>2, <1>6, <1>8, <1>9 DEF Sound, Shaped, OthersKept
<1>13. recorded # None /\ session # None
  BY <1>4, ReceiverAssumption
<1>14. Sound(accepted) /\ Sound(shown) /\ Sound(published)
  <2>1. /\ MatchedFor(accepted.own, accepted.sessions, c)
        /\ MatchedFor(shown.own, shown.sessions, c)
        /\ MatchedFor(published.own, published.sessions, c)
    BY <1>2, <1>4, <1>6, <1>8, <1>9, <1>11, <1>13 DEF MatchedFor
  <2>2. QED BY <1>11, <1>12, <2>1, SoundWith
<1>15. r.own.mode = "external" => ~Gate!Accepts(own_, c)
  BY <1>1, ReservedRefusesAdapters
<1>16. CASE t = accepted
  <2>1. OnlyTouches(r, accepted, c)
    BY <1>1, <1>8, <1>12 DEF OnlyTouches
  <2>2. QED BY <1>4, <1>11, <1>13, <1>14, <1>16, <2>1 DEF Served
<1>17. CASE t = published /\ Gate!Accepts(own_, c)
  <2>1. OnlyTouches(r, published, c)
    BY <1>12, <1>15, <1>17 DEF OnlyTouches
  <2>2. QED BY <1>4, <1>11, <1>13, <1>14, <1>17, <2>1 DEF Served
<1>18. CASE t = Raised(shown, c) /\ Gate!Accepts(own_, c) /\ Screen!Poisoned(screen)
  <2>1. /\ Sound(t) /\ OnlyTouches(shown, t, c)
        /\ t = shown \/ t.sessions[c] = None
    BY <1>14, <1>18, RaisedOK
  <2>2. OnlyTouches(r, t, c)
    BY <1>12, <1>15, <1>18, <2>1 DEF OnlyTouches, OthersKept
  <2>3. CASE t = shown
    BY <1>4, <1>6, <1>11, <1>13, <1>18, <2>1, <2>2, <2>3 DEF Served
  <2>4. CASE t.sessions[c] = None
    BY <2>1, <2>2, <2>4 DEF Served
  <2>5. QED BY <2>1, <2>3, <2>4
<1>19. QED BY <1>10, <1>16, <1>17, <1>18

\* _publish_clock and the sequence recorded after it.
LEMMA ClockOK ==
    ASSUME NEW r, Sound(r), NEW c \in Connections, r.sessions[c] # None, NEW ref,
           NEW pos \in Keys \cup {None}, NEW status \in Statuses,
           NEW seq \in Nat, NEW stalled
    PROVE  Served(r, Clock(r, c, ref, pos, status, seq, stalled), c, seq)
<1> DEFINE own_ == Gate!ObserveClock(r.own, c, ref)
           recorded == [r.sessions[c] EXCEPT !.last = seq]
           screen == Screen!Tick(r.disp, pos, status, stalled)
           observed == [r EXCEPT !.own = Gate!ObserveClock(@, c, ref)]
           shown == [observed EXCEPT !.disp = Screen!Tick(@, pos, status, stalled)]
           accepted == [observed EXCEPT !.sessions[c].last = seq]
           published == [shown EXCEPT !.client = c, !.sessions[c].last = seq]
           refused == ref # r.sessions[c].ref \/ ~Gate!ClockAccepted(r.own, c, ref)
           t == Clock(r, c, ref, pos, status, seq, stalled)
<1>1. SameCandidates(r.own, own_)
  BY ObserveClockKeeps DEF Sound, Shaped
<1>2. ScreenOK(screen)
  BY TickOK DEF Sound, Shaped
<1>3. /\ r.sessions[c] \in Sessions /\ recorded \in Sessions
      /\ recorded.ref = r.sessions[c].ref /\ recorded.last = seq
  <2>1. r.sessions[c] \in Sessions
    BY DEF Sound, Shaped
  <2>2. QED BY <2>1 DEF Sessions
<1>4. /\ DOMAIN observed = {"own", "disp", "sessions", "client"}
      /\ observed.own = own_ /\ observed.disp = r.disp /\ observed.client = r.client
      /\ observed.sessions = r.sessions
  <2> HIDE DEF own_
  <2>1. QED BY DEF Sound, Shaped, own_
<1> HIDE DEF own_, screen
<1>5. /\ DOMAIN shown = {"own", "disp", "sessions", "client"}
      /\ shown.own = own_ /\ shown.disp = screen /\ shown.client = r.client
      /\ shown.sessions = r.sessions
  <2> HIDE DEF observed
  <2>1. QED BY <1>4 DEF screen
<1>6. /\ DOMAIN accepted = {"own", "disp", "sessions", "client"}
      /\ accepted.own = own_ /\ accepted.disp = r.disp /\ accepted.client = r.client
      /\ accepted.sessions = [r.sessions EXCEPT ![c] = recorded]
  <2> HIDE DEF observed
  <2>1. QED BY <1>4
<1>7. /\ DOMAIN published = {"own", "disp", "sessions", "client"}
      /\ published.own = own_ /\ published.disp = screen /\ published.client = c
      /\ published.sessions = [r.sessions EXCEPT ![c] = recorded]
  <2> HIDE DEF shown
  <2>1. QED BY <1>5
<1>8. \/ t = r /\ refused
      \/ t = accepted /\ ~refused
      \/ t = Raised(shown, c) /\ Gate!Accepts(own_, c) /\ ~refused
      \/ t = published /\ Gate!Accepts(own_, c) /\ ~refused
  <2> HIDE DEF accepted, published, shown
  <2>1. t = IF refused THEN r
            ELSE IF ~Gate!Accepts(own_, c) THEN accepted
            ELSE IF Screen!Poisoned(r.disp) THEN Raised(shown, c) ELSE published
    BY <1>4 DEF Clock, accepted, published, shown
  <2>2. QED BY <2>1
<1>9. ~refused => r.own.cands[c] # None
  BY DEF Gate!ClockAccepted
<1> SUFFICES Served(r, t, c, seq)
  OBVIOUS
<1> HIDE DEF observed, accepted, shown, published, recorded, refused, t
<1>10. /\ Shaped(accepted) /\ Shaped(shown) /\ Shaped(published)
       /\ accepted.sessions[c] = recorded /\ published.sessions[c] = recorded
  BY <1>1, <1>2, <1>3, <1>5, <1>6, <1>7 DEF Sound, Shaped, SameCandidates
<1>11. OthersKept(r, accepted, c) /\ OthersKept(r, shown, c) /\ OthersKept(r, published, c)
  BY <1>1, <1>5, <1>6, <1>7 DEF Sound, Shaped, SameCandidates, OthersKept
<1>12. recorded # None
  BY <1>3, ReceiverAssumption
<1>13. ~refused => Sound(accepted) /\ Sound(shown) /\ Sound(published)
  <2>1. MatchedFor(r.own, r.sessions, c)
    BY DEF Sound, Matched
  <2>2. ~refused => /\ MatchedFor(accepted.own, accepted.sessions, c)
                    /\ MatchedFor(shown.own, shown.sessions, c)
                    /\ MatchedFor(published.own, published.sessions, c)
    BY <1>1, <1>3, <1>5, <1>6, <1>7, <1>9, <1>10, <1>12, <2>1 DEF MatchedFor, SameCandidates
  <2>3. QED BY <1>10, <1>11, <2>2, SoundWith
<1>14. r.own.mode = "external" => ~Gate!Accepts(own_, c)
  BY <1>1, ReservedRefusesAdapters DEF SameCandidates
<1>15. CASE t = r
  BY <1>15 DEF Served, OnlyTouches, OthersKept
<1>16. CASE t = accepted /\ ~refused
  <2>1. OnlyTouches(r, accepted, c)
    BY <1>1, <1>6, <1>11 DEF OnlyTouches, SameCandidates
  <2>2. QED BY <1>3, <1>10, <1>12, <1>13, <1>16, <2>1 DEF Served
<1>17. CASE t = published /\ Gate!Accepts(own_, c) /\ ~refused
  <2>1. OnlyTouches(r, published, c)
    BY <1>11, <1>14, <1>17 DEF OnlyTouches
  <2>2. QED BY <1>3, <1>10, <1>12, <1>13, <1>17, <2>1 DEF Served
<1>18. CASE t = Raised(shown, c) /\ Gate!Accepts(own_, c) /\ ~refused
  <2>1. /\ Sound(t) /\ OnlyTouches(shown, t, c)
        /\ t = shown \/ t.sessions[c] = None
    BY <1>13, <1>18, RaisedOK
  <2>2. OnlyTouches(r, t, c)
    BY <1>11, <1>14, <1>18, <2>1 DEF OnlyTouches, OthersKept
  <2>3. CASE t = shown
    <3>1. t.sessions[c] = r.sessions[c] /\ t.own.cands[c] = r.own.cands[c]
      BY <1>1, <1>5, <2>3 DEF SameCandidates
    <3>2. QED BY <2>1, <2>2, <3>1 DEF Served
  <2>4. CASE t.sessions[c] = None
    BY <2>1, <2>2, <2>4 DEF Served
  <2>5. QED BY <2>1, <2>3, <2>4
<1>19. QED BY <1>8, <1>15, <1>16, <1>17, <1>18
-------------------------------------------------------------------------------
(* stop(): the clients are dropped one after the other.                    *)

\* Every non-empty set of naturals has a least element.
LEMMA LeastNatural ==
    ASSUME NEW S \in SUBSET Nat, S # {}
    PROVE  \E m \in S : \A n \in S : m <= n
<1>1. PICK m \in S : \A n \in S : ~ (<<n, m>> \in OpToRel(<, Nat))
  BY NatLessThanWellFounded, WFMin
<1>2. \A n \in S : ~ (n < m)
  BY <1>1 DEF OpToRel
<1>3. QED BY <1>2

\* f holds the state after each of the first n drops.
Drops(r, order, f, n) ==
    f = [m \in 0 .. n |-> IF m = 0 THEN r ELSE Dropped(f[m - 1], order[m])]

\* The drops can be made, one after the other.
LEMMA DropsExist ==
    ASSUME NEW r, NEW order, NEW N \in Nat
    PROVE  \E f : Drops(r, order, f, N)
<1> DEFINE Missing == {n \in Nat : ~ \E f : Drops(r, order, f, n)}
<1> SUFFICES ASSUME Missing # {} PROVE FALSE
  OBVIOUS
<1>1. PICK n \in Missing : \A k \in Missing : n <= k
  BY LeastNatural
<1>2. Drops(r, order, [m \in 0 .. 0 |-> r], 0)
  BY DEF Drops
<1>3. n # 0
  BY <1>1, <1>2
<1>4. n - 1 \in Nat /\ ~ (n <= n - 1)
  BY <1>3
<1>5. PICK f : Drops(r, order, f, n - 1)
  BY <1>1, <1>4
<1> DEFINE last == Dropped(f[n - 1], order[n])
           g == [m \in 0 .. n |-> IF m < n THEN f[m] ELSE last]
<1>6. \A m \in 0 .. n : g[m] = IF m = 0 THEN r ELSE Dropped(g[m - 1], order[m])
  <2> SUFFICES ASSUME NEW m \in 0 .. n
               PROVE  g[m] = IF m = 0 THEN r ELSE Dropped(g[m - 1], order[m])
    OBVIOUS
  <2>1. m # 0 => m - 1 \in 0 .. n /\ m - 1 < n
    BY <1>4
  <2>2. m # 0 => g[m - 1] = f[m - 1]
    BY <2>1
  <2>3. CASE m < n
    <3>1. m \in 0 .. n - 1
      BY <1>4, <2>3
    <3>2. f[m] = IF m = 0 THEN r ELSE Dropped(f[m - 1], order[m])
      BY <1>5, <3>1 DEF Drops
    <3>3. g[m] = f[m]
      BY <2>3
    <3> HIDE DEF g
    <3>4. QED BY <2>2, <3>2, <3>3
  <2>4. CASE m = n
    <3>1. g[m] = last /\ m # 0
      BY <1>3, <2>4
    <3> HIDE DEF g
    <3>2. QED BY <2>2, <2>4, <3>1
  <2>5. QED BY <2>3, <2>4
<1>7. g = [m \in 0 .. n |-> IF m = 0 THEN r ELSE Dropped(g[m - 1], order[m])]
  <2>1. g = [m \in 0 .. n |-> g[m]]
    OBVIOUS
  <2> HIDE DEF g
  <2>2. QED BY <1>6, <2>1
<1>8. Drops(r, order, g, n)
  BY <1>7 DEF Drops
<1>9. QED BY <1>1, <1>8

\* However the clients are ordered, each is dropped, none gets a session back,
\* and a display that is reserved for the local player is left alone.
LEMMA ResetOK ==
    ASSUME NEW r, Sound(r), NEW order \in Seq(Connections)
    PROVE  LET t == Reset(r, order)
           IN  /\ Sound(t)
               /\ \A i \in 1 .. Len(order) : t.sessions[order[i]] = None
               /\ \A c \in Connections : r.sessions[c] = None => t.sessions[c] = None
               /\ r.own.mode = "external" => t.disp = r.disp
<1> DEFINE N == Len(order)
           f == CHOOSE g : Drops(r, order, g, N)
<1>1. N \in Nat /\ \A i \in 1 .. N : order[i] \in Connections
  OBVIOUS
<1>2. Drops(r, order, f, N)
  BY <1>1, DropsExist
<1>3. Reset(r, order) = f[N]
  BY DEF Reset, Drops
<1> DEFINE Good(n) ==
              /\ Sound(f[n])
              /\ \A i \in 1 .. n : f[n].sessions[order[i]] = None
              /\ \A c \in Connections : r.sessions[c] = None => f[n].sessions[c] = None
              /\ r.own.mode = "external" => /\ f[n].own.mode = "external"
                                            /\ f[n].disp = r.disp
           Bad == {n \in 0 .. N : ~Good(n)}
<1> HIDE DEF f
<1>4. f[0] = r /\ \A n \in 1 .. N : f[n] = Dropped(f[n - 1], order[n])
  BY <1>1, <1>2 DEF Drops
<1>5. Good(0)
  BY <1>4
<1>6. ASSUME NEW n \in 1 .. N, Good(n - 1)
      PROVE  Good(n)
  <2> DEFINE before == f[n - 1]
             c == order[n]
  <2>1. c \in Connections /\ f[n] = Dropped(before, c)
    BY <1>1, <1>4
  <2>2. /\ Sound(f[n]) /\ OnlyTouches(before, f[n], c) /\ f[n].sessions[c] = None
    BY <1>6, <2>1, DroppedOK
  <2>3. \A d \in Connections : before.sessions[d] = None => f[n].sessions[d] = None
    BY <2>2 DEF OnlyTouches, OthersKept
  <2>4. ASSUME NEW i \in 1 .. n PROVE f[n].sessions[order[i]] = None
    <3>1. CASE i = n
      BY <2>2, <3>1
    <3>2. CASE i # n
      <4>1. i \in 1 .. n - 1 /\ i \in 1 .. N
        BY <1>1, <3>2
      <4>2. before.sessions[order[i]] = None /\ order[i] \in Connections
        BY <1>1, <1>6, <4>1
      <4>3. QED BY <2>3, <4>2
    <3>3. QED BY <3>1, <3>2
  <2>5. QED BY <1>6, <2>2, <2>3, <2>4 DEF OnlyTouches
<1>7. Bad = {}
  <2> SUFFICES ASSUME Bad # {} PROVE FALSE
    OBVIOUS
  <2>1. Bad \in SUBSET Nat
    BY <1>1
  <2>2. PICK n \in Bad : \A k \in Bad : n <= k
    BY <2>1, LeastNatural
  <2>3. n \in 1 .. N
    BY <1>1, <1>5, <2>2
  <2>4. n - 1 \in 0 .. N /\ ~ (n <= n - 1)
    BY <1>1, <2>3
  <2>5. Good(n - 1)
    BY <2>2, <2>4
  <2>6. QED BY <1>6, <2>2, <2>3, <2>5
<1>8. Good(N)
  BY <1>1, <1>7
<1>9. QED BY <1>3, <1>8

\* A sequence of all members of a finite set names every one of them.
LEMMA SetToSeqsCovers ==
    ASSUME NEW S, IsFiniteSet(S), NEW order \in SetToSeqs(S)
    PROVE  /\ order \in Seq(S)
           /\ \A x \in S : \E i \in 1 .. Len(order) : order[i] = x
<1> DEFINE N == Cardinality(S)
           D == 1 .. N
<1>1. N \in Nat
  BY FS_CardinalityType
<1>2. order \in [D -> S] /\ \A i, j \in D : i # j => order[i] # order[j]
  BY DEF SetToSeqs
<1>3. order \in Seq(S) /\ Len(order) = N
  BY <1>1, <1>2
<1>4. order \in Injection(D, S)
  BY <1>2 DEF Injection, IsInjective
<1>5. IsFiniteSet(D) /\ Cardinality(D) = N
  BY <1>1, FS_Interval
<1>6. order \in Surjection(D, S)
  BY <1>4, <1>5, FS_Injection
<1>7. \A x \in S : \E i \in D : order[i] = x
  BY <1>6 DEF Surjection
<1>8. QED BY <1>3, <1>7
-------------------------------------------------------------------------------
(* The steps.                                                              *)

\* SequenceOnlyGrows of one step and one client.
Grows(c) ==
    sessions[c] # None /\ sessions'[c] # None /\ sessions[c].last # None =>
        /\ sessions'[c].last # None /\ sessions'[c].last >= sessions[c].last
        /\ own'.cands[c] # own.cands[c] =>
              sessions'[c].last > sessions[c].last \/ Screen!Poisoned(disp')

\* What every step promises: the next state is in order and sequences grow.
Promise == IInv' /\ \A c \in Connections : Grows(c)

\* The last sequence of a session is a number.
LEMMA LastType ==
    ASSUME IInv, NEW c \in Connections, sessions[c] # None, sessions[c].last # None
    PROVE  sessions[c].last \in Nat
BY DEF IInv, Ingress, Sound, Shaped, Sessions

\* The fields of the receiver's view.
LEMMA IngressFields ==
    /\ Ingress.own = own /\ Ingress.disp = disp
    /\ Ingress.sessions = sessions /\ Ingress.client = displayClient
    /\ DOMAIN Ingress = {"own", "disp", "sessions", "client"}
BY DEF Ingress

\* A handler's result that is in order makes the next state so.
LEMMA BecomesSound ==
    ASSUME NEW t, Sound(t), Becomes(t)
    PROVE  IInv'
BY DEF Becomes, IInv, Ingress, Sound, Shaped

\* A client that keeps its session and its candidate keeps its promise.
LEMMA GrowsIfKept ==
    ASSUME IInv, NEW c \in Connections,
           sessions'[c] = sessions[c], own'.cands[c] = own.cands[c]
    PROVE  Grows(c)
BY LastType DEF Grows

\* A message moves its client's session forward, touches no other client, and
\* leaves a reserved display alone.
LEMMA MessageOK ==
    ASSUME IInv, NEW c \in Connections, NEW seq \in Nat, NEW t,
           Becomes(IF Stale(Ingress, c, seq) THEN Opened(Ingress, c) ELSE t),
           ~Stale(Ingress, c, seq) => Served(Opened(Ingress, c), t, c, seq)
    PROVE  Promise /\ (own.mode = "external" => disp' = disp)
<1> DEFINE r == Opened(Ingress, c)
<1>1. /\ Sound(r) /\ OnlyTouches(Ingress, r, c)
      /\ r.own = own /\ r.disp = disp /\ r.sessions[c] # None
      /\ sessions[c] # None => r.sessions = sessions
  BY OpenedOK, IngressFields DEF IInv
<1> HIDE DEF r
<1>2. CASE Stale(Ingress, c, seq)
  <2>1. Becomes(r)
    BY <1>2 DEF r
  <2>2. IInv'
    BY <1>1, <2>1, BecomesSound
  <2>3. sessions[c] # None
    BY <1>2, IngressFields DEF Stale
  <2>4. own' = own /\ disp' = disp /\ sessions' = sessions
    BY <1>1, <2>1, <2>3 DEF Becomes
  <2>5. QED BY <2>2, <2>4, GrowsIfKept DEF Promise
<1>3. CASE ~Stale(Ingress, c, seq)
  <2>1. Becomes(t) /\ Served(r, t, c, seq)
    BY <1>3 DEF r
  <2>2. IInv'
    BY <2>1, BecomesSound DEF Served
  <2>3. /\ \A d \in Connections \ {c} :
               sessions'[d] = sessions[d] /\ own'.cands[d] = own.cands[d]
        /\ own.mode = "external" => disp' = disp
    BY <1>1, <2>1, IngressFields DEF Served, OnlyTouches, OthersKept, Becomes
  <2>4. \A d \in Connections \ {c} : Grows(d)
    BY <2>3, GrowsIfKept
  <2>5. Grows(c)
    <3> SUFFICES ASSUME sessions[c] # None, sessions'[c] # None, sessions[c].last # None
                 PROVE  /\ sessions'[c].last # None
                        /\ sessions'[c].last >= sessions[c].last
                        /\ own'.cands[c] # own.cands[c] =>
                              \/ sessions'[c].last > sessions[c].last
                              \/ Screen!Poisoned(disp')
      BY DEF Grows
    <3>1. sessions[c].last \in Nat /\ seq > sessions[c].last
      BY <1>3, LastType, IngressFields DEF Stale
    <3>2. sessions' = t.sessions /\ own' = t.own /\ disp' = t.disp
      BY <2>1 DEF Becomes
    <3>3. r.sessions = sessions /\ r.own = own
      BY <1>1
    <3>4. CASE sessions'[c].last = seq
      BY <3>1, <3>4, ReceiverAssumption
    <3>5. CASE /\ sessions'[c].last = sessions[c].last
               /\ own'.cands[c] = own.cands[c] \/ Screen!Poisoned(disp')
      BY <3>1, <3>5
    <3>6. QED BY <2>1, <3>2, <3>3, <3>4, <3>5 DEF Served
  <2>6. QED BY <2>2, <2>3, <2>4, <2>5 DEF Promise
<1>4. QED BY <1>2, <1>3

\* Every message of an adapter.
LEMMA IngestOK ==
    ASSUME IInv, NEW c \in Connections, IngestSnapshot(c) \/ IngestClock(c)
    PROVE  Promise /\ (own.mode = "external" => disp' = disp)
<1> DEFINE r == Opened(Ingress, c)
<1>1. Sound(r) /\ r.sessions[c] # None
  BY OpenedOK DEF IInv
<1>2. Snapshots[c] \subseteq [obs : Observations, doc : Documents \cup {None}]
      /\ 1 .. MaxMessage \subseteq Nat
  BY ReceiverAssumption
<1>3. CASE IngestSnapshot(c)
  <2>1. PICK m \in Snapshots[c], seq \in 1 .. MaxMessage, stalled \in BOOLEAN :
           Becomes(IF Stale(Ingress, c, seq) THEN r
                   ELSE Snapshot(r, c, m.obs, m.doc, seq, stalled))
    BY <1>3 DEF IngestSnapshot
  <2>2. m.obs \in Observations /\ m.doc \in Documents \cup {None} /\ seq \in Nat
    BY <1>2
  <2> DEFINE t == Snapshot(r, c, m.obs, m.doc, seq, stalled)
  <2>3. Served(r, t, c, seq)
    BY <1>1, <2>2, SnapshotOK
  <2> HIDE DEF t
  <2>4. QED BY <2>1, <2>2, <2>3, MessageOK DEF t
<1>4. CASE IngestClock(c)
  <2>1. PICK m \in Snapshots[c], timed \in BOOLEAN, status \in {"Playing", "Paused"},
             seq \in 1 .. MaxMessage, stalled \in BOOLEAN :
           Becomes(IF Stale(Ingress, c, seq) THEN r
                   ELSE Clock(r, c, TrackRef(m.obs.track),
                              IF timed THEN TrackKey(m.obs) ELSE None,
                              status, seq, stalled))
    BY <1>4 DEF IngestClock
  <2>2. m.obs \in Observations /\ seq \in Nat
    BY <1>2
  <2> DEFINE pos == IF timed THEN TrackKey(m.obs) ELSE None
             t == Clock(r, c, TrackRef(m.obs.track), pos, status, seq, stalled)
  <2>3. pos \in Keys \cup {None} /\ status \in Statuses
    BY <2>2, RefType DEF Statuses
  <2> HIDE DEF pos
  <2>4. Served(r, t, c, seq)
    BY <1>1, <2>2, <2>3, ClockOK
  <2> HIDE DEF t
  <2>5. QED BY <2>1, <2>2, <2>4, MessageOK DEF t, pos
<1>5. QED BY <1>3, <1>4

\* A disconnect ends the session.
LEMMA DisconnectOK ==
    ASSUME IInv, NEW c \in Connections, Disconnect(c)
    PROVE  Promise /\ (own.mode = "external" => disp' = disp)
<1> DEFINE t == Dropped(Ingress, c)
<1>1. Sound(t) /\ OnlyTouches(Ingress, t, c) /\ t.sessions[c] = None
  BY DroppedOK DEF IInv
<1>2. Becomes(t)
  BY DEF Disconnect
<1> HIDE DEF t
<1>3. IInv'
  BY <1>1, <1>2, BecomesSound
<1>4. /\ \A d \in Connections \ {c} :
             sessions'[d] = sessions[d] /\ own'.cands[d] = own.cands[d]
      /\ own.mode = "external" => disp' = disp
      /\ sessions'[c] = None
  BY <1>1, <1>2, IngressFields DEF OnlyTouches, OthersKept, Becomes
<1>5. \A d \in Connections \ {c} : Grows(d)
  BY <1>4, GrowsIfKept
<1>6. Grows(c)
  BY <1>4 DEF Grows
<1>7. QED BY <1>3, <1>4, <1>5, <1>6 DEF Promise

\* stop() ends every session, whichever order it finds them in.
LEMMA StopOK ==
    ASSUME IInv, Stop
    PROVE  Promise /\ (own.mode = "external" => disp' = disp)
<1> DEFINE left == {c \in Connections : sessions[c] # None} \cup {Post}
                   \cup (IF displayClient = None THEN {} ELSE {displayClient})
<1>1. PICK order \in SetToSeqs(left) : Becomes(Reset(Ingress, order))
  BY DEF Stop
<1>2. left \subseteq Connections
  BY ReceiverAssumption DEF IInv, Sound, Shaped, Ingress
<1>3. IsFiniteSet(left)
  BY <1>2, ReceiverAssumption, FS_Subset
<1> DEFINE t == Reset(Ingress, order)
<1>4. /\ order \in Seq(left) /\ order \in Seq(Connections)
      /\ \A c \in left : \E i \in 1 .. Len(order) : order[i] = c
  <2> HIDE DEF left
  <2>1. order \in Seq(left) /\ \A c \in left : \E i \in 1 .. Len(order) : order[i] = c
    BY <1>3, SetToSeqsCovers
  <2>2. QED BY <1>2, <2>1
<1>5. /\ Sound(t)
      /\ \A i \in 1 .. Len(order) : t.sessions[order[i]] = None
      /\ \A c \in Connections : sessions[c] = None => t.sessions[c] = None
      /\ own.mode = "external" => t.disp = disp
  <2> HIDE DEF left
  <2>1. QED BY <1>4, ResetOK, IngressFields DEF IInv
<1> HIDE DEF t
<1>6. \A c \in Connections : t.sessions[c] = None
  <2>1. \A c \in Connections : sessions[c] # None => c \in left
    OBVIOUS
  <2> HIDE DEF left
  <2>2. QED BY <1>4, <1>5, <2>1
<1>7. Becomes(t)
  BY <1>1 DEF t
<1>8. IInv' /\ sessions' = t.sessions /\ disp' = t.disp
  BY <1>5, <1>7, BecomesSound DEF Becomes
<1>9. QED BY <1>5, <1>6, <1>8 DEF Promise, Grows

\* The rest of the program changes the gate's owner and the display, never the
\* sessions or the candidates they mirror.
LEMMA EnvironmentOK ==
    ASSUME IInv, UNCHANGED <<sessions, displayClient>>,
           OwnOK(own'), own'.cands = own.cands, ScreenOK(disp')
    PROVE  Promise
<1>1. IInv'
  BY DEF IInv, Ingress, Sound, Shaped, Matched, MatchedFor
<1>2. QED BY <1>1, GrowsIfKept DEF Promise

\* Each of its steps is such a change.
LEMMA EnvironmentStepOK ==
    ASSUME IInv,
           \/ Start \/ Reserve \/ PublishLocally \/ BindLive \/ Release \/ Configure
           \/ ApplyManual \/ SetOptions \/ StopDisplay \/ RunDisplay
    PROVE  Promise
<1>0. OwnOK(own) /\ ScreenOK(disp)
  BY DEF IInv, Ingress, Sound, Shaped
<1>1. CASE Start
  BY <1>0, <1>1, EnvironmentOK DEF Start
<1>2. CASE Reserve
  <2>1. OwnOK(own') /\ own'.cands = own.cands
    BY <1>0, <1>2, SelectKeeps DEF Reserve
  <2>2. QED BY <1>0, <1>2, <2>1, EnvironmentOK DEF Reserve
<1>3. CASE PublishLocally
  <2>1. PICK obs \in LocalReports, stalled \in BOOLEAN :
           disp' = Screen!PublishResolution(disp, obs, None, "Resolving", stalled)
    BY <1>3 DEF PublishLocally
  <2>2. obs \in Observations /\ "Resolving" \in Resolutions /\ DispOK(disp)
    BY <1>0, ReceiverAssumption DEF Resolutions, ScreenOK
  <2>3. ScreenOK(disp')
    BY <2>1, <2>2, PublishResolutionOK
  <2>4. QED BY <1>0, <1>3, <2>3, EnvironmentOK DEF PublishLocally
<1>4. CASE BindLive
  <2>1. PICK obs \in LocalReports, stalled \in BOOLEAN :
           LET c == Gate!CurrentMatch(own, obs.track.song)
           IN  /\ own' = Gate!SelectLive(own, c)
               /\ disp' = Screen!Publish(disp, obs, own.cands[c].doc, stalled)
    BY <1>4 DEF BindLive
  <2> DEFINE c == Gate!CurrentMatch(own, obs.track.song)
             doc == own.cands[c].doc
  <2>2. own' = Gate!SelectLive(own, c) /\ disp' = Screen!Publish(disp, obs, doc, stalled)
    BY <2>1
  <2>3. obs \in Observations /\ DispOK(disp)
    BY <1>0, ReceiverAssumption DEF ScreenOK
  <2> HIDE DEF c, doc
  <2>4. OwnOK(own') /\ own'.cands = own.cands
    BY <1>0, <2>2, SelectKeeps
  <2>5. ScreenOK(disp')
    BY <2>2, <2>3, PublishOK
  <2>6. UNCHANGED <<sessions, displayClient>>
    BY <1>4 DEF BindLive
  <2>7. QED BY <2>4, <2>5, <2>6, EnvironmentOK
<1>5. CASE Release
  <2>1. OwnOK(own') /\ own'.cands = own.cands
    BY <1>0, <1>5, SelectKeeps DEF Release
  <2>2. ScreenOK(disp')
    BY <1>5, PublishEmptyOK DEF Release
  <2>3. QED BY <1>5, <2>1, <2>2, EnvironmentOK DEF Release
<1>6. CASE Configure
  <2>1. OwnOK(own') /\ own'.cands = own.cands
    BY <1>0, <1>6, ConfigureKeeps DEF Configure
  <2>2. QED BY <1>0, <1>6, <2>1, EnvironmentOK DEF Configure
<1>7. CASE ApplyManual
  <2>1. ScreenOK(disp')
    BY <1>0, <1>7, ApplyManualOK DEF ApplyManual
  <2>2. QED BY <1>0, <1>7, <2>1, EnvironmentOK DEF ApplyManual
<1>8. CASE SetOptions
  <2>1. ScreenOK(disp')
    BY <1>0, <1>8, SetOptionsOK DEF SetOptions
  <2>2. QED BY <1>0, <1>8, <2>1, EnvironmentOK DEF SetOptions
<1>9. CASE StopDisplay
  <2>1. ScreenOK(disp')
    BY <1>0, <1>9, StoppedOK DEF StopDisplay
  <2>2. QED BY <1>0, <1>9, <2>1, EnvironmentOK DEF StopDisplay
<1>10. CASE RunDisplay
  <2>1. ScreenOK(disp')
    BY <1>0, <1>10, IterateOK DEF RunDisplay
  <2>2. QED BY <1>0, <1>10, <2>1, EnvironmentOK DEF RunDisplay
<1>11. QED
  BY <1>1, <1>2, <1>3, <1>4, <1>5, <1>6, <1>7, <1>8, <1>9, <1>10

\* The program starts with no sessions, no candidates and an empty display.
LEMMA InitOK == Init => IInv
<1> SUFFICES ASSUME Init PROVE IInv
  OBVIOUS
<1>1. PICK raw \in DisplaySourceLists : own = Gate!InitialOwnership(raw)
  BY DEF Init
<1>2. OwnOK(own) /\ \A c \in Connections : own.cands[c] = None
  BY <1>1 DEF OwnOK, Gate!InitialOwnership, Gate!Clients
<1>3. ScreenOK(disp)
  <2> DEFINE empty == Screen!EmptyFrame
  <2>1. /\ DOMAIN disp = {"doc", "res", "mdoc", "mtrack", "obs", "key", "anchor", "paused",
                          "frame", "loop", "wake"}
        /\ disp.res = "NoTrack" /\ disp.obs = None /\ disp.anchor = None /\ disp.mdoc = None
        /\ disp.frame = empty
    <3> HIDE DEF empty
    <3>1. QED BY DEF Init, Screen!Started, Screen!Initially, empty
  <2>2. empty.state = "NoTrack" /\ empty.track = None /\ empty.doc = None
    BY DEF Screen!EmptyFrame
  <2> HIDE DEF empty
  <2>3. QED BY <2>1, <2>2 DEF ScreenOK, DispOK, ManualKept, FrameCurrent, Resolutions
<1>4. Shaped(Ingress)
  BY <1>2, <1>3 DEF Shaped, Ingress, Init
<1>5. Matched(own, sessions)
  BY <1>2 DEF Matched, MatchedFor, Init
<1>6. QED BY <1>4, <1>5, IngressFields DEF IInv, Sound

\* Every step keeps the promise, and those of the receiver leave a reserved
\* display alone.
LEMMA StepOK ==
    ASSUME IInv, Next
    PROVE  Promise /\ (own.mode = "external" /\ (Receive \/ Stop) => disp' = disp)
<1>1. CASE Receive
  <2>1. PICK c \in Connections : IngestSnapshot(c) \/ IngestClock(c) \/ Disconnect(c)
    BY <1>1 DEF Receive
  <2>2. CASE IngestSnapshot(c) \/ IngestClock(c)
    BY <2>2, IngestOK
  <2>3. CASE Disconnect(c)
    BY <2>3, DisconnectOK
  <2>4. QED BY <2>1, <2>2, <2>3
<1>2. CASE Stop
  BY <1>2, StopOK
<1>3. CASE ~Receive /\ ~Stop
  <2>1. \/ Start \/ Reserve \/ PublishLocally \/ BindLive \/ Release \/ Configure
        \/ ApplyManual \/ SetOptions \/ StopDisplay \/ RunDisplay
    BY <1>3 DEF Next
  <2>2. QED BY <1>3, <2>1, EnvironmentStepOK
<1>4. QED BY <1>1, <1>2, <1>3

\* The invariant holds in every reachable state, for every set of adapters.
THEOREM Invariance == Spec => []IInv
<1>1. IInv /\ [Next]_vars => IInv'
  <2> SUFFICES ASSUME IInv, [Next]_vars PROVE IInv'
    OBVIOUS
  <2>1. CASE Next
    BY <2>1, StepOK DEF Promise
  <2>2. CASE UNCHANGED vars
    BY <2>2 DEF vars, IInv, Ingress
  <2>3. QED BY <2>1, <2>2
<1>2. QED BY InitOK, <1>1, PTL DEF Spec

\* The two checks a clock passes never disagree, whatever the adapters send and
\* in whatever order they come and go.
THEOREM SessionsAlwaysMatch == Spec => []SessionMatchesCandidate
<1>1. IInv => SessionMatchesCandidate
  BY DEF IInv, Sound, Ingress, Matched, MatchedFor, SessionMatchesCandidate
<1>2. QED BY Invariance, <1>1, PTL

\* Lyrics chosen by hand are never shown with another track.
THEOREM ManualAlwaysStays == Spec => []ManualStaysWithItsTrack
<1>1. IInv => ManualStaysWithItsTrack
  <2>1. IInv => ManualKept(disp)
    BY DEF IInv, Sound, Shaped, Ingress, ScreenOK
  <2>2. QED BY <2>1 DEF ManualKept, ManualStaysWithItsTrack, Screen!ManualStaysWithItsTrack
<1>2. QED BY Invariance, <1>1, PTL

\* The frame is never out of step with facts that can be shown.
THEOREM FrameAlwaysShowsTheFacts == Spec => []FrameShowsTheFacts
<1>1. IInv => FrameShowsTheFacts
  <2>1. IInv => FrameCurrent(disp)
    BY DEF IInv, Sound, Shaped, Ingress, ScreenOK
  <2>2. QED BY <2>1 DEF FrameCurrent, FrameShowsTheFacts, Screen!FrameShowsTheFacts
<1>2. QED BY Invariance, <1>1, PTL

\* No message, disconnect or shutdown of an adapter changes a display that is
\* reserved for the local player.
THEOREM ReservedDisplayIsUntouched == Spec => ReservedDisplayUntouched
<1>1. IInv /\ [Next]_vars =>
         [own.mode = "external" /\ (Receive \/ Stop) => disp' = disp]_vars
  BY StepOK
<1>2. QED BY Invariance, <1>1, PTL DEF Spec, ReservedDisplayUntouched

\* A message is applied at most once and never after a later one.
THEOREM SequencesOnlyGrow == Spec => SequenceOnlyGrows
<1>1. IInv /\ [Next]_vars => [\A c \in Connections : Grows(c)]_vars
  BY StepOK DEF Promise
<1>2. QED BY Invariance, <1>1, PTL DEF Spec, SequenceOnlyGrows, Grows
-------------------------------------------------------------------------------
(* The MPRIS lyric workflow: its load.                                     *)

\* The attributes of the workflow.
WorkflowOK(m) ==
    /\ DOMAIN m = {"running", "commit", "stable", "owner", "since", "seen", "latest", "load", "plan"}
    /\ m.running \in BOOLEAN /\ m.stable \in Nat /\ m.plan \in Plans
    /\ m.commit \in Commits \cup {None}
    /\ m.owner \in {"none", "resolving", "live", "external"}
    /\ m.since \in {"present", "recent", "elapsed"}
    /\ m.latest \in LocalObservations \cup {None}
    /\ m.load \in Loads \cup {None}
    /\ m.load # None /\ m.load.phase \in {"waiting", "decided"} => m.load.obs # None
    /\ m.load # None /\ m.load.phase = "decided" =>
          m.load.decision \in {"provider", "live", "nothing", "raised"}

\* LoadIsOfTheCommit of some attributes.
LoadRight(m) ==
    /\ m.load # None <=> m.owner = "resolving"
    /\ m.load # None => m.load.commit = m.commit

\* The attributes, and which load they may hold.
WorkflowInv(m) == WorkflowOK(m) /\ LoadRight(m)

\* The state a handler works on.
StateOK(s) == DOMAIN s = {"own", "disp", "mp"} /\ WorkflowOK(s.mp)

\* What a late decision leaves: all but the revision it was about, unless it binds
\* a live source.
Late(m, n) ==
    /\ WorkflowOK(n)
    /\ n.running = m.running /\ n.commit = m.commit /\ n.stable = m.stable
    /\ n.since = m.since /\ n.latest = m.latest /\ n.load = m.load /\ n.plan = m.plan
    /\ n.owner \in {m.owner, "live"}

\* No commit, load or observation is the absent value.
LEMMA NothingIsNone ==
    /\ \A commit \in Commits : commit # None
    /\ \A load \in Loads : load # None
    /\ \A obs \in LocalObservations : obs # None
BY LyricsAssumption

\* The facts the display is told do not touch the workflow.
LEMMA PublishingMoves ==
    ASSUME NEW s, StateOK(s), NEW obs, NEW x, NEW song
    PROVE  /\ PublishResolution(s, obs, x).mp = s.mp /\ StateOK(PublishResolution(s, obs, x))
           /\ PublishResolution(s, obs, x).own = s.own
           /\ PublishDocument(s, x, song).mp = s.mp /\ StateOK(PublishDocument(s, x, song))
           /\ PublishDocument(s, x, song).own = s.own
           /\ PublishExternalDocument(s, x, song).mp = s.mp
           /\ StateOK(PublishExternalDocument(s, x, song))
           /\ PublishExternalDocument(s, x, song).own = s.own
           /\ PublishExternalSample(s, obs).mp = s.mp /\ StateOK(PublishExternalSample(s, obs))
           /\ PublishExternalSample(s, obs).own = s.own
<1>1. \A d : LET t == [s EXCEPT !.disp = d]
             IN  StateOK(t) /\ t.mp = s.mp /\ t.own = s.own /\ t.disp = d
  BY DEF StateOK
<1>2. \E d : PublishResolution(s, obs, x) = [s EXCEPT !.disp = d] \/ PublishResolution(s, obs, x) = s
  BY DEF PublishResolution
<1>3. \E d : PublishDocument(s, x, song) = [s EXCEPT !.disp = d]
  BY DEF PublishDocument
<1>4. PublishExternalDocument(s, x, song) \in {PublishDocument(s, x, song), s}
  BY DEF PublishExternalDocument
<1>5. \E d : PublishExternalSample(s, obs) = [s EXCEPT !.disp = d] \/ PublishExternalSample(s, obs) = s
  BY DEF PublishExternalSample
<1> DEFINE Kept(t) == t.mp = s.mp /\ StateOK(t) /\ t.own = s.own
<1>6. \A d : Kept([s EXCEPT !.disp = d]) BY <1>1
<1>7. Kept(s) OBVIOUS
<1> HIDE DEF Kept
<1>8. Kept(PublishResolution(s, obs, x)) BY <1>2, <1>6, <1>7
<1>9. Kept(PublishDocument(s, x, song)) BY <1>3, <1>6
<1>10. Kept(PublishExternalDocument(s, x, song)) BY <1>4, <1>7, <1>9
<1>11. Kept(PublishExternalSample(s, obs)) BY <1>5, <1>6, <1>7
<1> QED BY <1>8, <1>9, <1>10, <1>11 DEF Kept

\* Binding a live source makes it the owner.
LEMMA BindingMoves ==
    ASSUME NEW s, StateOK(s), NEW c
    PROVE  /\ StateOK(BoundTo(s, c)) /\ Late(s.mp, BoundTo(s, c).mp)
           /\ BoundTo(s, c).mp.owner = "live"
           /\ BoundTo(s, c).own = Gate!SelectLive(s.own, c)
<1> DEFINE own1 == Gate!SelectLive(s.own, c)
           bound == [s EXCEPT !.own = own1, !.mp.owner = "live"]
<1>1. BoundTo(s, c) = PublishDocument(bound, s.own.cands[c].doc, s.mp.commit.song)
  BY DEF BoundTo
<1> HIDE DEF own1
<1>2. /\ StateOK(bound) /\ Late(s.mp, bound.mp) /\ bound.mp.owner = "live" /\ bound.own = own1
  BY DEF StateOK, Late, WorkflowOK
<1> HIDE DEF bound
<1> QED BY <1>1, <1>2, PublishingMoves DEF own1

\* Choosing a live source late touches nothing but the owner.
LEMMA DecidingMoves ==
    ASSUME NEW s, StateOK(s), NEW before
    PROVE  /\ StateOK(SelectLate(s, before)) /\ Late(s.mp, SelectLate(s, before).mp)
<1> DEFINE decided == [s EXCEPT !.mp.seen = s.own.seq]
           c == Gate!CurrentMatch(s.own, s.mp.commit.song)
<1>1. SelectLate(s, before) \in {s, decided, BoundTo(decided, c)}
  BY DEF SelectLate
<1> HIDE DEF c
<1>2. StateOK(decided) /\ Late(s.mp, decided.mp) /\ StateOK(s) /\ Late(s.mp, s.mp)
  BY DEF StateOK, Late, WorkflowOK
<1> HIDE DEF decided
<1>3. StateOK(BoundTo(decided, c)) /\ Late(decided.mp, BoundTo(decided, c).mp)
  BY <1>2, BindingMoves
<1> QED BY <1>1, <1>2, <1>3 DEF Late

\* A late decision for a workflow that does not load.
LEMMA LateIsRight ==
    ASSUME NEW m, NEW n, Late(m, n), m.load = None, m.owner # "resolving"
    PROVE  WorkflowInv(n)
BY DEF Late, WorkflowInv, LoadRight

\* A scheduled commit is resolving, with a load of its own.
LEMMA SchedulingMoves ==
    ASSUME NEW s, StateOK(s), NEW commit \in Commits
    PROVE  LET t == Schedule(s, commit)
           IN  StateOK(t) /\ WorkflowInv(t.mp) /\ t.mp.owner = "resolving" /\ t.mp.commit = commit
<1> DEFINE own1 == Gate!SelectExternal(s.own)
           load == NewLoad(commit)
           t == [s EXCEPT !.own = own1, !.mp.commit = commit, !.mp.owner = "resolving",
                          !.mp.load = load]
<1>1. Schedule(s, commit) = t
  BY DEF Schedule
<1>2. load \in Loads /\ load.commit = commit /\ load.phase = "created"
  BY DEF NewLoad, Loads
<1> HIDE DEF own1, load
<1>3. StateOK(t) /\ t.mp.owner = "resolving" /\ t.mp.commit = commit /\ t.mp.load = load
  BY <1>2 DEF StateOK, WorkflowOK
<1> HIDE DEF t
<1> QED BY <1>1, <1>2, <1>3, NothingIsNone DEF WorkflowInv, LoadRight, StateOK

\* A forced reload replaces the load by one of the same commit.
LEMMA ReloadingMoves ==
    ASSUME NEW s, StateOK(s), WorkflowInv(s.mp)
    PROVE  StateOK(ForceReload(s)) /\ WorkflowInv(ForceReload(s).mp)
<1>1. CASE s.mp.commit = None BY <1>1 DEF ForceReload
<1>2. CASE s.mp.commit # None
  <2> DEFINE commit == [s.mp.commit EXCEPT !.gen = @ + 1]
  <2>1. s.mp.commit \in Commits BY <1>2 DEF StateOK, WorkflowOK
  <2>2. commit \in Commits BY <2>1 DEF Commits
  <2>3. ForceReload(s) = Schedule(s, commit) BY <1>2 DEF ForceReload
  <2> QED BY <2>2, <2>3, SchedulingMoves
<1> QED BY <1>1, <1>2

\* So does taking the content over again.
LEMMA EnsuringMoves ==
    ASSUME NEW s, StateOK(s), WorkflowInv(s.mp)
    PROVE  StateOK(EnsureContentOwner(s)) /\ WorkflowInv(EnsureContentOwner(s).mp)
<1>1. \/ EnsureContentOwner(s) = ForceReload(s)
      \/ EnsureContentOwner(s) = SelectLate(s, None) /\ s.mp.owner = "none"
      \/ EnsureContentOwner(s) = s
  BY DEF EnsureContentOwner
<1>2. s.mp.owner = "none" => s.mp.load = None
  BY DEF WorkflowInv, LoadRight
<1> QED BY <1>1, <1>2, ReloadingMoves, DecidingMoves, LateIsRight

\* A sample of the local player leaves the load right.
LEMMA SamplingMoves ==
    ASSUME NEW s, StateOK(s), WorkflowInv(s.mp), NEW obs \in LocalObservations,
           NEW transitioning \in BOOLEAN
    PROVE  LET t == Sampled(s, obs, transitioning) IN StateOK(t) /\ WorkflowInv(t.mp)
<1> DEFINE external == Gate!SelectExternal(s.own)
           claimed == IF transitioning \/ s.mp.commit = None
                      THEN [s EXCEPT !.own = external] ELSE s
           seen == [claimed EXCEPT !.mp.latest = obs]
           ensured == EnsureContentOwner(seen)
<1>1. Sampled(s, obs, transitioning) \in {seen, ensured, PublishExternalSample(ensured, obs)}
  BY DEF Sampled
<1> HIDE DEF external
<1>2. StateOK(claimed) /\ claimed.mp = s.mp
  BY DEF StateOK
<1> HIDE DEF claimed
<1>3. StateOK(seen) /\ WorkflowInv(seen.mp)
  BY <1>2 DEF StateOK, WorkflowInv, WorkflowOK, LoadRight
<1> HIDE DEF seen
<1>4. StateOK(ensured) /\ WorkflowInv(ensured.mp)
  BY <1>3, EnsuringMoves
<1> HIDE DEF ensured
<1> QED BY <1>1, <1>3, <1>4, PublishingMoves

\* A reset leaves no commit and no load.
LEMMA ResettingMoves ==
    ASSUME NEW s, StateOK(s)
    PROVE  StateOK(ResetWorkflow(s)) /\ WorkflowInv(ResetWorkflow(s).mp)
<1> DEFINE standalone == Gate!SelectStandalone(s.own)
           empty == Screen!PublishEmpty(s.disp)
           seq == standalone.seq
           m == [s.mp EXCEPT !.commit = None, !.owner = "none", !.since = "present",
                             !.seen = seq, !.latest = None, !.load = None]
<1>1. ResetWorkflow(s) = [own |-> standalone, disp |-> empty, mp |-> m]
  BY DEF ResetWorkflow
<1> HIDE DEF standalone, empty, seq
<1>2. WorkflowInv(m)
  BY DEF StateOK, WorkflowOK, WorkflowInv, LoadRight
<1> HIDE DEF m
<1> QED BY <1>1, <1>2 DEF StateOK, WorkflowInv

\* The state of the specification as a record.
LEMMA Here ==
    ASSUME WorkflowInv(mp)
    PROVE  /\ StateOK(Workflow) /\ WorkflowInv(Workflow.mp)
           /\ Workflow.mp = mp /\ Workflow.own = own /\ Workflow.disp = disp
BY DEF Workflow, StateOK, WorkflowInv

\* A committed track.
LEMMA CommitMoves ==
    ASSUME WorkflowInv(mp), NEW song \in Songs, Commit(song)
    PROVE  WorkflowInv(mp')
<1> DEFINE s == [Workflow EXCEPT !.mp.stable = @ + 1]
           commit == [gen |-> Generation, song |-> song]
           t == Schedule(s, commit)
<1>1. mp' = Sampled(t, LocalObs(song), FALSE).mp
  BY DEF Commit, Reaches
<1>2. StateOK(s)
  BY DEF Workflow, StateOK, WorkflowInv, WorkflowOK
<1>3. mp.commit # None => mp.commit.gen \in Nat
  BY DEF WorkflowInv, WorkflowOK, Commits
<1>4. Generation \in Nat
  BY <1>3 DEF Generation, WorkflowInv, WorkflowOK
<1>5. commit \in Commits
  BY <1>4 DEF Commits
<1> HIDE DEF s, commit
<1>6. StateOK(t) /\ WorkflowInv(t.mp)
  BY <1>2, <1>5, SchedulingMoves
<1> HIDE DEF t
<1>7. LocalObs(song) \in LocalObservations
  BY DEF LocalObservations
<1> QED BY <1>1, <1>6, <1>7, SamplingMoves

\* A sample, settled or in transition.
LEMMA SampleMoves ==
    ASSUME WorkflowInv(mp), SettledSample \/ \E song \in Songs : TransitioningSample(song)
    PROVE  WorkflowInv(mp')
<1>1. ASSUME SettledSample PROVE WorkflowInv(mp')
  <2>1. mp.commit.song \in Songs
    BY <1>1 DEF SettledSample, WorkflowInv, WorkflowOK, Commits
  <2>2. LocalObs(mp.commit.song) \in LocalObservations
    BY <2>1 DEF LocalObservations
  <2>3. mp' = Sampled(Workflow, LocalObs(mp.commit.song), FALSE).mp
    BY <1>1 DEF SettledSample, Reaches
  <2> QED BY <2>2, <2>3, Here, SamplingMoves
<1>2. ASSUME NEW song \in Songs, TransitioningSample(song) PROVE WorkflowInv(mp')
  <2>1. mp' = Sampled(Workflow, LocalObs(song), TRUE).mp
    BY <1>2 DEF TransitioningSample, Reaches
  <2>2. LocalObs(song) \in LocalObservations
    BY DEF LocalObservations
  <2> QED BY <2>1, <2>2, Here, SamplingMoves
<1> QED BY <1>1, <1>2

\* No player, and the end of the grace period.
LEMMA AbsenceMoves ==
    ASSUME WorkflowInv(mp), NoPlayer \/ GraceExpires
    PROVE  WorkflowInv(mp')
<1>1. CASE GraceExpires
  BY <1>1 DEF GraceExpires, WorkflowInv, WorkflowOK, LoadRight
<1>2. CASE NoPlayer
  <2> DEFINE recent == [Workflow EXCEPT !.mp.since = "recent"]
  <2>1. mp.since \in {"present", "recent", "elapsed"}
    BY DEF WorkflowInv, WorkflowOK
  <2>2. mp' \in {Workflow.mp, recent.mp, ResetWorkflow(Workflow).mp}
    BY <1>2, <2>1 DEF NoPlayer, Reaches
  <2>3. recent.mp = [mp EXCEPT !.since = "recent"]
    BY DEF Workflow
  <2>4. WorkflowInv(recent.mp)
    BY <2>3 DEF WorkflowInv, WorkflowOK, LoadRight
  <2> QED BY <2>2, <2>4, Here, ResettingMoves
<1> QED BY <1>1, <1>2

\* The end of a load that found nothing.
LEMMA NothingFoundMoves ==
    ASSUME NEW s, StateOK(s), s.mp.load = None, NEW obs
    PROVE  WorkflowInv(NothingFound(s, obs).mp)
<1> DEFINE free == [s EXCEPT !.mp.owner = "none"]
           late == SelectLate(free, None)
<1>1. NothingFound(s, obs) \in {late, PublishResolution(late, obs, "NotFound")}
  BY DEF NothingFound
<1>2. StateOK(free) /\ free.mp.load = None /\ free.mp.owner = "none"
  BY DEF StateOK, WorkflowOK
<1> HIDE DEF free
<1>3. StateOK(late) /\ WorkflowInv(late.mp)
  BY <1>2, DecidingMoves, LateIsRight
<1> HIDE DEF late
<1> QED BY <1>1, <1>3, PublishingMoves

\* The end of a load that prefers a live source.
LEMMA LiveFoundMoves ==
    ASSUME NEW s, StateOK(s), s.mp.load = None, NEW obs
    PROVE  WorkflowInv(LiveFound(s, obs).mp)
<1> DEFINE c == Gate!CurrentMatch(s.own, s.mp.commit.song)
           decided == [s EXCEPT !.mp.seen = s.own.seq]
           free == [decided EXCEPT !.mp.owner = "none"]
<1>1. LiveFound(s, obs) \in {PublishResolution(free, obs, "NotFound"), BoundTo(decided, c)}
  BY DEF LiveFound
<1> HIDE DEF c
<1>2. StateOK(decided) /\ decided.mp.load = None
  BY DEF StateOK, WorkflowOK
<1> HIDE DEF decided
<1>3. StateOK(free) /\ free.mp.load = None /\ free.mp.owner = "none"
  BY <1>2 DEF StateOK, WorkflowOK
<1> HIDE DEF free
<1>4. WorkflowInv(free.mp) BY <1>3 DEF WorkflowInv, LoadRight, StateOK
<1>5. WorkflowInv(BoundTo(decided, c).mp)
  BY <1>2, BindingMoves DEF WorkflowInv, LoadRight, Late
<1> QED BY <1>1, <1>3, <1>4, <1>5, PublishingMoves

\* The end of a load that found lyrics.
LEMMA ProviderFoundMoves ==
    ASSUME NEW s, StateOK(s), s.mp.load = None
    PROVE  WorkflowInv(ProviderFound(s).mp)
<1> DEFINE late == SelectLate(s, "provider")
           seq == s.own.seq
           external == [late EXCEPT !.mp.owner = "external", !.mp.seen = seq]
           song == s.mp.commit.song
<1>1. \/ ProviderFound(s) = late /\ late.mp.owner = "live"
      \/ ProviderFound(s) = PublishExternalDocument(external, Lyrics(song), song)
  BY DEF ProviderFound
<1> HIDE DEF seq, song
<1>2. StateOK(late) /\ late.mp.load = None
  BY DecidingMoves DEF Late
<1> HIDE DEF late
<1>3. StateOK(external) /\ external.mp.load = None /\ external.mp.owner = "external"
  BY <1>2 DEF StateOK, WorkflowOK
<1> HIDE DEF external
<1>4. WorkflowInv(external.mp) /\ (late.mp.owner = "live" => WorkflowInv(late.mp))
  BY <1>2, <1>3 DEF WorkflowInv, LoadRight, StateOK
<1> QED BY <1>1, <1>3, <1>4, PublishingMoves

\* The load task runs for the first time.
LEMMA LoadStartsMoves ==
    ASSUME WorkflowInv(mp), LoadStarts
    PROVE  WorkflowInv(mp')
<1> DEFINE song == mp.load.commit.song
           obs == IF mp.latest # None /\ mp.latest.track.song = song THEN mp.latest
                  ELSE LocalObs(song)
           told == PublishResolution(Workflow, obs, "Resolving")
           waits == [told EXCEPT !.mp.load.phase = "waiting", !.mp.load.obs = obs]
           over == [told EXCEPT !.mp.load = None]
<1>1. mp' \in {waits.mp, NothingFound(over, obs).mp}
  BY DEF LoadStarts, Reaches
<1>2. mp.load \in Loads /\ mp.latest \in LocalObservations \cup {None}
  BY DEF LoadStarts, WorkflowInv, WorkflowOK
<1>3. song \in Songs
  BY <1>2 DEF Loads, Commits
<1>4. obs \in LocalObservations
  BY <1>2, <1>3 DEF LocalObservations
<1> HIDE DEF song, obs
<1>5. StateOK(told) /\ told.mp = mp
  BY Here, PublishingMoves
<1> HIDE DEF told
<1>6. StateOK(over) /\ over.mp.load = None
  BY <1>5 DEF StateOK, WorkflowOK
<1>7. waits.mp = [mp EXCEPT !.load.phase = "waiting", !.load.obs = obs]
  BY <1>5 DEF StateOK
<1> HIDE DEF waits, over
<1> DEFINE load == [mp.load EXCEPT !.phase = "waiting", !.obs = obs]
<1>8. load \in Loads /\ load.commit = mp.load.commit /\ load.phase = "waiting" /\ load.obs # None
  BY <1>2, <1>4, NothingIsNone DEF Loads
<1>9. waits.mp = [mp EXCEPT !.load = load]
  BY <1>7
<1> HIDE DEF load
<1>10. WorkflowInv(waits.mp)
  BY <1>2, <1>8, <1>9, NothingIsNone DEF WorkflowInv, WorkflowOK, LoadRight
<1> QED BY <1>1, <1>6, <1>10, NothingFoundMoves

\* The load task runs on after its lookup.
LEMMA LoadEndsMoves ==
    ASSUME WorkflowInv(mp), LoadEnds
    PROVE  WorkflowInv(mp')
<1> DEFINE s == [Workflow EXCEPT !.mp.load = None]
           failed == [Workflow EXCEPT !.mp.load.phase = "failed"]
<1>1. mp.load \in Loads /\ mp.load # None /\ mp.commit = mp.load.commit
  BY DEF LoadEnds, WorkflowInv, WorkflowOK, LoadRight
<1>2. StateOK(s) /\ s.mp.load = None
  BY Here DEF StateOK, WorkflowOK
<1>3. mp.load.decision \in {"raised", "nothing", "live", "provider"} =>
        mp' \in {failed.mp, NothingFound(s, mp.load.obs).mp, LiveFound(s, mp.load.obs).mp,
                 ProviderFound(s).mp}
  BY <1>1 DEF LoadEnds, Reaches
<1>4. failed.mp = [mp EXCEPT !.load.phase = "failed"]
  BY DEF Workflow
<1>5. WorkflowInv(failed.mp)
  <2> DEFINE load == [mp.load EXCEPT !.phase = "failed"]
  <2>1. load \in Loads /\ load.commit = mp.load.commit /\ load.phase = "failed" BY <1>1 DEF Loads
  <2>2. failed.mp = [mp EXCEPT !.load = load] BY <1>4
  <2> HIDE DEF load, failed
  <2> QED BY <1>1, <2>1, <2>2, NothingIsNone DEF WorkflowInv, WorkflowOK, LoadRight
<1> HIDE DEF s, failed
<1>6. mp.load.decision \in {"raised", "nothing", "live", "provider"}
  BY DEF LoadEnds, WorkflowInv, WorkflowOK
<1> QED BY <1>2, <1>3, <1>5, <1>6, NothingFoundMoves, LiveFoundMoves, ProviderFoundMoves

\* A lookup ends, for a load that waits for it or for none.
LEMMA LookupMoves ==
    ASSUME WorkflowInv(mp), NEW song, NEW plan, LookupEnds(song, plan)
    PROVE  WorkflowInv(mp')
<1>1. PICK decision \in Decisions(plan, lookups[song, plan]) :
        mp' = IF Waiting(song, plan)
              THEN [mp EXCEPT !.load.phase = "decided", !.load.decision = decision] ELSE mp
  BY DEF LookupEnds
<1>2. decision \in {"provider", "raised", "live", "nothing"}
  BY <1>1 DEF Decisions
<1>3. CASE Waiting(song, plan)
  <2> DEFINE load == [mp.load EXCEPT !.phase = "decided", !.decision = decision]
  <2>1. mp.load \in Loads /\ mp.load.obs # None
    BY <1>3, NothingIsNone DEF Waiting, WorkflowInv, WorkflowOK
  <2>2. /\ load \in Loads /\ load.commit = mp.load.commit /\ load.decision = decision
        /\ load.obs # None
    BY <1>2, <2>1 DEF Loads
  <2>3. mp' = [mp EXCEPT !.load = load] BY <1>1, <1>3
  <2> HIDE DEF load
  <2> QED BY <1>2, <2>1, <2>2, <2>3, NothingIsNone DEF WorkflowInv, WorkflowOK, LoadRight
<1> QED BY <1>1, <1>3

\* Every step of the workflow keeps the load right.
LEMMA WorkflowSteps == WorkflowInv(mp) /\ [LyricsNext]_lyricVars => WorkflowInv(mp)'
<1> SUFFICES ASSUME WorkflowInv(mp), [LyricsNext]_lyricVars PROVE WorkflowInv(mp')
  OBVIOUS
<1>1. CASE Player
  BY <1>1, SongsAssumption, CommitMoves, SampleMoves, AbsenceMoves DEF Player
<1>2. CASE GraceExpires
  BY <1>2, AbsenceMoves
<1>3. CASE LoadStarts
  BY <1>3, LoadStartsMoves
<1>4. CASE LoadEnds
  BY <1>4, LoadEndsMoves
<1>5. ASSUME NEW song \in Songs, NEW plan \in Plans, Lookup(song, plan) PROVE WorkflowInv(mp')
  BY <1>5, LookupMoves DEF Lookup, LookLive
<1>6. ASSUME NEW plan \in Plans, SetLyricsSources(plan) PROVE WorkflowInv(mp')
  <2> DEFINE s == [Workflow EXCEPT !.mp.plan = plan]
  <2>1. mp' = ForceReload(s).mp BY <1>6 DEF SetLyricsSources, Reaches
  <2>2. StateOK(s) /\ WorkflowInv(s.mp)
    BY DEF Workflow, StateOK, WorkflowInv, WorkflowOK, LoadRight
  <2> HIDE DEF s
  <2> QED BY <2>1, <2>2, ReloadingMoves
<1>7. CASE StopFollowing
  <2> DEFINE s == [Workflow EXCEPT !.mp.running = FALSE]
  <2>1. mp' = ResetWorkflow(s).mp BY <1>7 DEF StopFollowing, Reaches
  <2>2. StateOK(s) BY DEF Workflow, StateOK, WorkflowInv, WorkflowOK
  <2> HIDE DEF s
  <2> QED BY <2>1, <2>2, ResettingMoves
<1>8. CASE StartFollowing
  BY <1>8 DEF StartFollowing, WorkflowInv, WorkflowOK, LoadRight
<1>9. CASE Reconfigure
  BY <1>9 DEF Reconfigure
<1>10. ASSUME NEW c, LiveReports(c) \/ LiveTicks(c) \/ LiveGone(c) PROVE WorkflowInv(mp')
  BY <1>10 DEF LiveReports, LiveTicks, LiveGone
<1>11. CASE UNCHANGED lyricVars
  BY <1>11 DEF lyricVars
<1> QED
  BY <1>1, <1>2, <1>3, <1>4, <1>5, <1>6, <1>7, <1>8, <1>9, <1>10, <1>11 DEF LyricsNext

\* The attributes of the MPRIS lyric workflow are of their types, and it resolves
\* exactly with a load of its commit, for all songs, plans and live sources.
THEOREM WorkflowIsRight == LyricsSpec => []WorkflowInv(mp)
<1>1. LyricsInit => WorkflowInv(mp)
  BY DEF LyricsInit, WorkflowInv, WorkflowOK, LoadRight
<1> QED BY <1>1, WorkflowSteps, PTL DEF LyricsSpec

\* A commit, a reload, a reset or a stop never leaves a load of an earlier track
\* behind (lyrics/mpris.py): the workflow is resolving exactly while it has a load,
\* and the load is for the commit it follows.
THEOREM LoadIsAlwaysOfTheCommit == LyricsSpec => []LoadIsOfTheCommit
<1>1. WorkflowInv(mp) => LoadIsOfTheCommit
  BY DEF WorkflowInv, LoadRight, LoadIsOfTheCommit
<1> QED BY <1>1, WorkflowIsRight, PTL

-------------------------------------------------------------------------------
(* The MPRIS lyric workflow: the gate it shares with the adapters.           *)

\* The candidate of a client is what an adapter has sent.
Sent(c, cand) ==
    c \in Connections /\ \E r \in Snapshots[c] : cand.obs = r.obs /\ cand.doc = r.doc

\* The list of display sources names the local player.
Reservable(o) == Gate!SlotEnabled(o.sources, "mpris")

\* The candidates are numbered apart, what they offer has been sent, and the
\* display is reserved for the local player only where the list allows it.
GateOK(o) ==
    /\ DOMAIN o = {"mode", "bound", "sources", "cands", "timings", "seq", "tick"}
    /\ DOMAIN o.cands = Gate!Clients
    /\ o.sources \in Seq(Gate!DisplaySources)
    /\ o.seq \in Nat
    /\ \A c \in Gate!Clients : o.cands[c] # None =>
          o.cands[c].seq \in Nat /\ o.cands[c].seq <= o.seq /\ Sent(c, o.cands[c])
    /\ \A c, d \in Gate!Clients :
          o.cands[c] # None /\ o.cands[d] # None /\ c # d => o.cands[c].seq # o.cands[d].seq
    /\ o.mode = "external" => Reservable(o)

\* The same candidates under the same slots.
Alike(o, p) == p.sources = o.sources /\ p.cands = o.cands /\ p.seq = o.seq

\* An election moves the binding alone.
LEMMA ElectingIsRight ==
    ASSUME NEW o, GateOK(o)
    PROVE  LET p == Gate!SelectStandalone(o)
           IN  GateOK(p) /\ Alike(o, p) /\ p.mode = "standalone"
<1> DEFINE owner == Gate!Owner(o.cands, o.sources)
           p == [o EXCEPT !.mode = "standalone", !.bound = owner]
<1>1. Gate!SelectStandalone(o) = p
  BY DEF Gate!SelectStandalone, Gate!Elect
<1> HIDE DEF owner
<1>2. GateOK(p) /\ Alike(o, p) /\ p.mode = "standalone"
  BY DEF GateOK, Alike, Reservable
<1> QED BY <1>1, <1>2

\* So does the election that follows a change.
LEMMA MaybeElecting ==
    ASSUME NEW o, GateOK(o)
    PROVE  LET p == Gate!ElectIfStandalone(o)
           IN  GateOK(p) /\ Alike(o, p) /\ p.mode = o.mode
<1>1. \/ o.mode = "standalone" /\ Gate!ElectIfStandalone(o) = Gate!SelectStandalone(o)
      \/ Gate!ElectIfStandalone(o) = o
  BY DEF Gate!ElectIfStandalone, Gate!SelectStandalone
<1> QED BY <1>1, ElectingIsRight DEF Alike

\* A reservation is granted exactly if the list allows it.
LEMMA ReservingIsRight ==
    ASSUME NEW o, GateOK(o)
    PROVE  LET p == Gate!SelectExternal(o)
           IN  /\ GateOK(p) /\ Alike(o, p)
               /\ p.mode = IF Reservable(o) THEN "external" ELSE "standalone"
<1> DEFINE p == [o EXCEPT !.mode = "external", !.bound = Gate!Mpris]
<1>1. Reservable(o) => Gate!SelectExternal(o) = p
  BY DEF Reservable, Gate!SelectExternal
<1>2. ~Reservable(o) => Gate!SelectExternal(o) = Gate!SelectStandalone(o)
  BY DEF Reservable, Gate!SelectExternal
<1>3. Reservable(o) => GateOK(p) /\ Alike(o, p) /\ p.mode = "external"
  BY DEF GateOK, Alike, Reservable
<1> HIDE DEF p
<1> QED BY <1>1, <1>2, <1>3, ElectingIsRight

\* Choosing a live source keeps the candidates.
LEMMA LivingIsRight ==
    ASSUME NEW o, GateOK(o), NEW c
    PROVE  LET p == Gate!SelectLive(o, c) IN GateOK(p) /\ Alike(o, p)
<1> DEFINE p == [o EXCEPT !.mode = "live", !.bound = c]
<1>1. Gate!SelectLive(o, c) \in {p, Gate!SelectStandalone(o)}
  BY DEF Gate!SelectLive
<1>2. GateOK(p) /\ Alike(o, p)
  BY DEF GateOK, Alike, Reservable
<1> HIDE DEF p
<1> QED BY <1>1, <1>2, ElectingIsRight

\* A report of an adapter neither takes nor loses a reservation.
LEMMA ObservingIsRight ==
    ASSUME NEW o, GateOK(o), NEW c \in Connections, NEW r \in Snapshots[c]
    PROVE  LET p == Gate!Observe(o, c, r.obs, r.doc)
           IN  GateOK(p) /\ p.sources = o.sources /\ p.mode = o.mode
<1> DEFINE cand == [seq |-> o.seq + 1, obs |-> r.obs, doc |-> r.doc]
           p == [o EXCEPT !.seq = @ + 1, !.cands[c] = cand]
<1>1. Gate!Observe(o, c, r.obs, r.doc) = Gate!ElectIfStandalone(p)
  BY DEF Gate!Observe
<1>2. cand.seq = o.seq + 1 /\ Sent(c, cand)
  BY DEF Sent
<1>3. c \in Gate!Clients
  BY DEF Gate!Clients
<1> HIDE DEF cand
<1>4. /\ DOMAIN p = DOMAIN o /\ DOMAIN p.cands = Gate!Clients /\ p.sources = o.sources
      /\ p.mode = o.mode /\ p.seq = o.seq + 1
      /\ p.cands[c] = cand /\ \A d \in Gate!Clients \ {c} : p.cands[d] = o.cands[d]
  BY <1>3 DEF GateOK
<1> HIDE DEF p
<1>5. GateOK(p)
  BY <1>2, <1>3, <1>4 DEF GateOK, Reservable
<1> QED BY <1>1, <1>4, <1>5, MaybeElecting DEF Alike

\* Nor does a clock of one.
LEMMA ClockingIsRight ==
    ASSUME NEW o, GateOK(o), NEW c, NEW ref
    PROVE  LET p == Gate!ObserveClock(o, c, ref)
           IN  GateOK(p) /\ p.sources = o.sources /\ p.mode = o.mode
<1> DEFINE timing == [tick |-> o.tick + 1, seq |-> o.cands[c].seq, ref |-> ref]
           p == [o EXCEPT !.tick = @ + 1, !.timings[c] = timing]
<1>1. Gate!ObserveClock(o, c, ref) \in {o, p}
  BY DEF Gate!ObserveClock
<1> HIDE DEF timing
<1>2. GateOK(p) /\ p.sources = o.sources /\ p.mode = o.mode
  BY DEF GateOK, Reservable
<1> HIDE DEF p
<1> QED BY <1>1, <1>2

\* Nor does an adapter that goes, unless it was the chosen source: then the
\* reservation comes back.
LEMMA DroppingIsRight ==
    ASSUME NEW o, GateOK(o), NEW c \in Connections
    PROVE  LET p == Gate!DropClient(o, c)
           IN  /\ GateOK(p) /\ p.sources = o.sources
               /\ \/ p.mode = o.mode
                  \/ o.mode = "live" /\ p.mode = IF Reservable(o) THEN "external" ELSE "standalone"
<1> DEFINE seq == IF o.cands[c] # None THEN o.seq + 1 ELSE o.seq
           q == [o EXCEPT !.timings[c] = None, !.cands[c] = None, !.seq = seq]
           cleared == Gate!ElectIfStandalone(q)
<1>1. Gate!ClearClient(o, c) = cleared
  BY DEF Gate!ClearClient
<1>2. c \in Gate!Clients
  BY DEF Gate!Clients
<1>3. seq \in Nat /\ seq >= o.seq
  BY DEF GateOK
<1> HIDE DEF seq
<1>4. /\ DOMAIN q = DOMAIN o /\ DOMAIN q.cands = Gate!Clients /\ q.sources = o.sources
      /\ q.mode = o.mode /\ q.seq = seq
      /\ q.cands[c] = None /\ \A d \in Gate!Clients \ {c} : q.cands[d] = o.cands[d]
  BY <1>2 DEF GateOK
<1> HIDE DEF q
<1>5. GateOK(q)
  BY <1>2, <1>3, <1>4 DEF GateOK, Reservable
<1>6. GateOK(cleared) /\ cleared.sources = o.sources /\ cleared.mode = o.mode
  BY <1>4, <1>5, MaybeElecting DEF Alike
<1> HIDE DEF cleared
<1>7. \/ Gate!DropClient(o, c) = Gate!SelectExternal(cleared) /\ o.mode = "live"
      \/ Gate!DropClient(o, c) = Gate!ElectIfStandalone(cleared)
  BY <1>1 DEF Gate!DropClient
<1> QED BY <1>6, <1>7, ReservingIsRight, MaybeElecting DEF Alike, Reservable

\* New settings that leave the slots as they are.
LEMMA ConfiguringIsRight ==
    ASSUME NEW o, GateOK(o), NEW raw, Gate!SetDisplaySources(o, raw).sources = o.sources
    PROVE  LET p == Gate!SetDisplaySources(o, raw)
           IN  GateOK(p) /\ (p.mode = o.mode \/ (o.mode = "live" /\ p.mode = "standalone"))
<1> DEFINE sources == Gate!Normalized(raw)
           q == [o EXCEPT !.sources = sources]
           p == Gate!SetDisplaySources(o, raw)
<1> HIDE DEF sources
<1>1. /\ DOMAIN q = DOMAIN o /\ q.sources = sources /\ q.cands = o.cands /\ q.seq = o.seq
      /\ q.mode = o.mode
  BY DEF GateOK
<1>2. \/ p = o
      \/ /\ p = Gate!SelectStandalone(q)
         /\ \/ o.mode = "external" /\ ~Gate!SlotEnabled(q.sources, "mpris")
            \/ o.mode = "live"
      \/ p = Gate!ElectIfStandalone(q)
  BY DEF Gate!SetDisplaySources, sources
<1>3. Gate!SelectStandalone(q).sources = q.sources
  <2> DEFINE owner == Gate!Owner(q.cands, q.sources)
  <2>1. Gate!SelectStandalone(q) = [q EXCEPT !.mode = "standalone", !.bound = owner]
    BY DEF Gate!SelectStandalone, Gate!Elect
  <2> HIDE DEF owner, q
  <2> QED BY <1>1, <2>1 DEF GateOK
<1>4. Gate!ElectIfStandalone(q) \in {Gate!SelectStandalone(q), q}
  BY DEF Gate!ElectIfStandalone, Gate!SelectStandalone
<1> HIDE DEF q
<1>5. CASE p = o BY <1>5
<1>6. CASE p # o
  <2>1. q.sources = o.sources BY <1>2, <1>3, <1>4, <1>6
  <2>2. GateOK(q) BY <1>1, <2>1 DEF GateOK, Reservable
  <2>3. o.mode = "external" => Gate!SlotEnabled(q.sources, "mpris")
    BY <2>1 DEF GateOK, Reservable
  <2> HIDE DEF p
  <2> QED BY <1>1, <1>2, <1>6, <2>2, <2>3, ElectingIsRight, MaybeElecting DEF p
<1> QED BY <1>5, <1>6

\* While the display is reserved the local player may publish, and no adapter.
LEMMA ReservedForOne ==
    ASSUME NEW o, GateOK(o), o.mode = "external", NEW c \in Connections
    PROVE  Gate!Accepts(o, Gate!Mpris) /\ ~Gate!Accepts(o, c)
<1>1. c # Gate!Mpris BY LyricsAssumption
<1> QED BY <1>1 DEF Gate!Accepts, GateOK, Reservable

\* The place of a client in the list of display sources.
LEMMA PriorityIsANumber ==
    ASSUME NEW o, GateOK(o), NEW c
    PROVE  Gate!Priority(o.cands, o.sources, c) \in Nat
<1> DEFINE slot == Gate!SlotOf(o.cands, c)
<1>1. o.sources \in Seq(Gate!DisplaySources) BY DEF GateOK
<1>2. Len(o.sources) \in Nat /\ DOMAIN o.sources = 1 .. Len(o.sources) BY <1>1
<1>3. CASE Gate!Enabled(o.cands, o.sources, c)
  <2>1. \E i \in DOMAIN o.sources : o.sources[i] = slot
    BY <1>3 DEF Gate!Enabled, Gate!SlotEnabled
  <2> HIDE DEF slot
  <2>2. (CHOOSE i \in DOMAIN o.sources : o.sources[i] = slot) \in DOMAIN o.sources
    BY <2>1
  <2>3. Gate!Priority(o.cands, o.sources, c) = CHOOSE i \in DOMAIN o.sources : o.sources[i] = slot
    BY <1>3 DEF Gate!Priority, slot
  <2> QED BY <1>2, <2>2, <2>3
<1>4. CASE ~Gate!Enabled(o.cands, o.sources, c)
  BY <1>2, <1>4 DEF Gate!Priority
<1> QED BY <1>3, <1>4

\* Of some candidates one is before the others.
LEMMA OneIsFirst ==
    ASSUME NEW o, GateOK(o), NEW S \in SUBSET Gate!Retained(o.cands), S # {}
    PROVE  Gate!First(o.cands, o.sources, Gate!Revisions(o.cands), S) \in S
<1> DEFINE P(c) == Gate!Priority(o.cands, o.sources, c)
           stamp == Gate!Revisions(o.cands)
           priorities == {P(c) : c \in S}
<1>1. \A c \in S : P(c) \in Nat BY PriorityIsANumber
<1>2. \A c \in S : c \in Gate!Clients /\ o.cands[c] # None BY DEF Gate!Retained
<1>3. \A c \in S : stamp[c] = o.cands[c].seq BY DEF Gate!Revisions
<1>4. \A c \in S : stamp[c] \in Nat /\ stamp[c] <= o.seq /\ o.seq \in Nat
  BY <1>2, <1>3 DEF GateOK
<1>5. \A c, d \in S : c # d => stamp[c] # stamp[d]
  BY <1>2, <1>3 DEF GateOK
<1>6. \A c, d : Gate!Precedes(o.cands, o.sources, stamp, c, d)
                  <=> P(c) < P(d) \/ (P(c) = P(d) /\ stamp[c] > stamp[d])
  BY DEF Gate!Precedes
<1>7. Gate!First(o.cands, o.sources, stamp, S)
        = CHOOSE c \in S : \A d \in S \ {c} : Gate!Precedes(o.cands, o.sources, stamp, c, d)
  BY DEF Gate!First
<1> HIDE DEF P, stamp
<1>8. priorities \in SUBSET Nat /\ priorities # {} BY <1>1
<1>9. PICK p \in priorities : \A n \in priorities : p <= n BY <1>8, LeastNatural
<1> DEFINE T == {c \in S : P(c) = p}
           ages == {o.seq - stamp[c] : c \in T}
<1>10. ages \in SUBSET Nat /\ ages # {} BY <1>4, <1>9
<1>11. PICK a \in ages : \A n \in ages : a <= n BY <1>10, LeastNatural
<1>12. PICK c \in T : a = o.seq - stamp[c] BY <1>11
<1>13. ASSUME NEW d \in S \ {c} PROVE Gate!Precedes(o.cands, o.sources, stamp, c, d)
  <2>1. P(c) = p /\ P(c) <= P(d) /\ P(c) \in Nat /\ P(d) \in Nat BY <1>1, <1>9
  <2>2. CASE P(d) = p
    <3>1. o.seq - stamp[c] <= o.seq - stamp[d] BY <1>11, <1>12, <2>2
    <3>2. stamp[c] # stamp[d] BY <1>5
    <3>3. stamp[c] > stamp[d] BY <1>4, <3>1, <3>2
    <3> QED BY <1>6, <2>1, <2>2, <3>3
  <2>3. CASE P(d) # p BY <1>6, <2>1, <2>3
  <2> QED BY <2>2, <2>3
<1>14. \E x \in S : \A d \in S \ {x} : Gate!Precedes(o.cands, o.sources, stamp, x, d)
  BY <1>13
<1> QED BY <1>7, <1>14 DEF stamp

\* The live source that is found for a song offers lyrics it sent with that song.
LEMMA MatchIsOfTheSong ==
    ASSUME NEW o, GateOK(o), NEW song, Gate!CurrentMatch(o, song) # None
    PROVE  LET doc == o.cands[Gate!CurrentMatch(o, song)].doc
           IN  doc # None /\ doc \in LyricsOf(song)
<1> DEFINE S == {c \in Gate!WithLyrics(o.cands, o.sources) : Gate!Matches(o.cands[c], song)}
           c == Gate!CurrentMatch(o, song)
<1>1. c = Gate!First(o.cands, o.sources, Gate!Revisions(o.cands), S)
  BY DEF Gate!CurrentMatch
<1>2. S \in SUBSET Gate!Retained(o.cands)
  BY DEF Gate!WithLyrics, Gate!Active
<1>3. S # {}
  BY <1>1 DEF Gate!First
<1>4. c \in S
  BY <1>1, <1>2, <1>3, OneIsFirst
<1>5. /\ c \in Gate!Clients /\ o.cands[c] # None /\ HasLyrics(o.cands[c].doc)
      /\ Gate!Matches(o.cands[c], song)
  BY <1>2, <1>4 DEF Gate!Retained, Gate!WithLyrics, HasLyrics, Gate!HasLyrics
<1> HIDE DEF c
<1>6. o.cands[c].doc # None /\ Sent(c, o.cands[c])
  BY <1>5 DEF HasLyrics, GateOK
<1>7. PICK r \in Snapshots[c] : o.cands[c].obs = r.obs /\ o.cands[c].doc = r.doc
  BY <1>6 DEF Sent
<1>8. c \in Connections BY <1>6 DEF Sent
<1>9. r \in Reports BY <1>7, <1>8 DEF Reports
<1>10. Gate!CandidateSong(r) = song
  BY <1>5, <1>7 DEF Gate!Matches, Gate!CandidateSong
<1>11. r.doc \in LyricsOf(song) BY <1>9, <1>10 DEF LyricsOf
<1> QED BY <1>6, <1>7, <1>11 DEF c

-------------------------------------------------------------------------------
(* The MPRIS lyric workflow: what its handlers show.                         *)

\* The lyrics on the display go with the track on it.
DisplayOK(d) ==
    /\ DOMAIN d = {"doc", "res", "mdoc", "mtrack", "obs", "key", "anchor", "paused",
                   "frame", "loop", "wake"}
    /\ d.mdoc = None
    /\ d.obs # None => "track" \in DOMAIN d.obs
    /\ d.doc # None => Together(d.obs.track, d.doc)

\* A projection shows the facts, or nothing.
LEMMA ShowIsFitting ==
    ASSUME NEW d, DisplayOK(d), NEW playback
    PROVE  LET t == Screen!Woken(Screen!Show(d, playback))
           IN  DisplayOK(t) /\ t.doc \in {None, d.doc}
<1> DEFINE frame == Screen!Frame(playback, d.doc, d.res)
           empty == [Screen!Initially EXCEPT !.frame = frame, !.loop = d.loop, !.wake = d.wake]
           drawn == [d EXCEPT !.frame = frame]
           shown == Screen!Show(d, playback)
<1>1. shown \in {d, empty, drawn}
  BY DEF Screen!Show
<1> HIDE DEF frame
<1>2. DisplayOK(empty) /\ empty.doc = None
  BY DEF Screen!Initially, DisplayOK
<1>3. DisplayOK(drawn) /\ drawn.doc = d.doc
  BY DEF DisplayOK
<1> HIDE DEF empty, drawn, shown
<1>4. DisplayOK(shown) /\ shown.doc \in {None, d.doc}
  BY <1>1, <1>2, <1>3
<1> DEFINE due == shown.loop # "off"
           woken == [shown EXCEPT !.wake = due]
<1>5. Screen!Woken(shown) = woken
  BY DEF Screen!Woken
<1> HIDE DEF due
<1>6. DisplayOK(woken) /\ woken.doc = shown.doc
  BY <1>4 DEF DisplayOK
<1> HIDE DEF woken
<1> QED BY <1>4, <1>5, <1>6 DEF shown

\* Facts that belong together are shown together.
LEMMA PublishingFits ==
    ASSUME NEW d, DisplayOK(d), NEW obs, "track" \in DOMAIN obs, NEW doc,
           doc # None => Together(obs.track, doc),
           NEW res, NEW stalled
    PROVE  LET t == Screen!PublishResolution(d, obs, doc, res, stalled)
           IN  DisplayOK(t) /\ t.doc \in {None, doc}
<1> DEFINE kept == Screen!ManualFor(d, obs.track)
           told == [kept EXCEPT !.doc = doc, !.res = res]
           key == TrackKey(obs)
           fresh == IF key = told.key THEN told
                    ELSE [told EXCEPT !.key = key, !.anchor = None, !.paused = FALSE]
           seen == [fresh EXCEPT !.obs = obs]
           s == Screen!Installed(d, obs, doc, res, stalled)
<1>1. /\ DOMAIN kept = DOMAIN d /\ kept.mdoc = None
  BY DEF Screen!ManualFor, DisplayOK
<1>2. s = Screen!SetObservation(told, obs, stalled)
  BY <1>1 DEF Screen!Installed
<1> HIDE DEF kept
<1>3. DOMAIN told = DOMAIN d /\ told.mdoc = None /\ told.doc = doc
  BY <1>1 DEF DisplayOK
<1>4. Screen!SetObservation(told, obs, stalled) = Screen!Sync(seen, obs.position, obs.status, stalled)
  BY DEF Screen!SetObservation, Screen!TrackKey, TrackKey
<1> HIDE DEF told, key
<1>5. DOMAIN fresh = DOMAIN d /\ fresh.mdoc = None /\ fresh.doc = doc
  BY <1>3 DEF DisplayOK
<1> HIDE DEF fresh
<1>6. DisplayOK(seen) /\ seen.doc = doc
  BY <1>5 DEF DisplayOK
<1> DEFINE paused == obs.status # "Playing" /\ (seen.anchor = None \/ stalled)
           synced == [seen EXCEPT !.anchor = obs.position, !.paused = paused]
<1>7. Screen!Sync(seen, obs.position, obs.status, stalled) \in {seen, synced}
  BY DEF Screen!Sync
<1> HIDE DEF seen, paused
<1>8. DisplayOK(synced) /\ synced.doc = doc
  BY <1>6 DEF DisplayOK
<1> HIDE DEF synced, s
<1>9. DisplayOK(s) /\ s.doc = doc
  BY <1>2, <1>4, <1>6, <1>7, <1>8
<1>10. Screen!PublishResolution(d, obs, doc, res, stalled) \in {s, Screen!Woken(Screen!Show(s, obs))}
  BY DEF Screen!PublishResolution, s
<1> QED BY <1>9, <1>10, ShowIsFitting

\* A clock moves the position, not the track.
LEMMA TickingFits ==
    ASSUME NEW d, DisplayOK(d), NEW pos, NEW status, NEW stalled
    PROVE  LET t == Screen!Tick(d, pos, status, stalled)
           IN  DisplayOK(t) /\ t.doc \in {None, d.doc}
<1> DEFINE s == Screen!Calibrated(d, pos, status, stalled)
           at == IF pos # None THEN pos ELSE d.obs.position
           obs == [[d.obs EXCEPT !.status = status] EXCEPT !.position =
                       IF pos # None THEN pos ELSE [d.obs EXCEPT !.status = status].position]
           moved == [d EXCEPT !.obs = obs]
           paused == status # "Playing" /\ (moved.anchor = None \/ stalled)
           synced == [moved EXCEPT !.anchor = pos, !.paused = paused]
<1>1. CASE d.obs = None
  BY <1>1 DEF Screen!Tick
<1>2. CASE d.obs # None
  <2>1. Screen!Tick(d, pos, status, stalled) \in {s, Screen!Woken(Screen!Show(s, Screen!Now(s)))}
    BY <1>2 DEF Screen!Tick
  <2>2. moved = [d EXCEPT !.obs.status = status,
                          !.obs.position = IF pos # None THEN pos ELSE @]
    BY <1>2 DEF DisplayOK
  <2>3. s \in {moved, synced}
    BY <2>2 DEF Screen!Calibrated, Screen!Sync
  <2>4. obs.track = d.obs.track /\ "track" \in DOMAIN obs
    BY <1>2 DEF DisplayOK
  <2> HIDE DEF obs
  <2>5. DisplayOK(moved) /\ moved.doc = d.doc
    BY <2>4 DEF DisplayOK
  <2> HIDE DEF moved, paused
  <2>6. DisplayOK(synced) /\ synced.doc = d.doc
    BY <2>5 DEF DisplayOK
  <2> HIDE DEF synced, s
  <2>7. DisplayOK(s) /\ s.doc = d.doc
    BY <2>3, <2>5, <2>6
  <2> QED BY <2>1, <2>7, ShowIsFitting
<1> QED BY <1>1, <1>2

\* The whole state, while it is handled.
Whole(s) == StateOK(s) /\ GateOK(s.own) /\ DisplayOK(s.disp)

\* A track whose lyrics are looked for or shown by the workflow has the display reserved,
\* if it can be, and what is shown then is of the track.
Claimed(s) ==
    /\ s.mp.owner \in {"resolving", "external"} =>
          s.own.mode = "external" \/ ~Reservable(s.own)
    /\ s.mp.owner = "external" /\ s.own.mode = "external" /\ s.disp.doc # None =>
          s.disp.doc = Lyrics(s.mp.commit.song)

\* The invariant, of a state.
Fits(s) == Whole(s) /\ Claimed(s)

\* The local player always reports a track.
LEMMA LocalFacts ==
    ASSUME NEW obs \in LocalObservations
    PROVE  "track" \in DOMAIN obs /\ obs.track # None
BY LyricsAssumption DEF LocalObservations, LocalObs

\* The state with another display.
LEMMA Redisplayed ==
    ASSUME NEW s, Whole(s), NEW d, DisplayOK(d)
    PROVE  LET t == [s EXCEPT !.disp = d]
           IN  Whole(t) /\ t.mp = s.mp /\ t.own = s.own /\ t.disp = d
BY DEF Whole, StateOK

\* A resolution is told with the track it is of.
LEMMA TellingFits ==
    ASSUME NEW s, Whole(s), NEW obs \in LocalObservations, NEW res
    PROVE  /\ Whole(PublishResolution(s, obs, res))
           /\ Claimed(s) => Claimed(PublishResolution(s, obs, res))
<1> DEFINE d == Screen!PublishResolution(s.disp, obs, None, res, FALSE)
           t == [s EXCEPT !.disp = d]
<1>1. PublishResolution(s, obs, res) \in {s, t}
  BY DEF PublishResolution
<1>2. DisplayOK(d) /\ d.doc = None
  BY LocalFacts, PublishingFits DEF Whole
<1> HIDE DEF d
<1>3. Whole(t) /\ t.mp = s.mp /\ t.own = s.own /\ t.disp = d
  BY <1>2, Redisplayed
<1> HIDE DEF t
<1>4. Claimed(s) => Claimed(t)
  BY <1>2, <1>3 DEF Claimed
<1> QED BY <1>1, <1>3, <1>4

\* A document is shown with a track that has the title of its song.
LEMMA DocumentFits ==
    ASSUME NEW s, Whole(s), NEW song \in Songs, NEW doc \in LyricsOf(song)
    PROVE  LET t == PublishDocument(s, doc, song)
           IN  Whole(t) /\ t.mp = s.mp /\ t.own = s.own /\ t.disp.doc \in {None, doc}
<1> DEFINE latest == s.mp.latest
           obs == IF latest = None THEN LocalObs(song)
                  ELSE IF Title[latest.track.song] = Title[song] THEN latest
                  ELSE [LocalObs(song) EXCEPT !.position = latest.position]
           d == Screen!Publish(s.disp, obs, doc, FALSE)
<1>1. PublishDocument(s, doc, song) = [s EXCEPT !.disp = d]
  BY DEF PublishDocument
<1>2. \A x \in Songs : LocalObs(x) \in LocalObservations /\ LocalObs(x).track.song = x
  BY DEF LocalObservations, LocalObs
<1>3. latest \in LocalObservations \cup {None}
  BY DEF Whole, StateOK, WorkflowOK
<1>4. \A x : LET moved == [LocalObs(song) EXCEPT !.position = x]
             IN  "track" \in DOMAIN moved /\ moved.track = LocalObs(song).track
  BY DEF LocalObs
<1>5. /\ "track" \in DOMAIN obs /\ obs.track # None
      /\ obs.track.song \in Songs /\ Title[obs.track.song] = Title[song]
  <2>1. CASE latest = None BY <1>2, <2>1, LocalFacts
  <2>2. CASE latest # None /\ Title[latest.track.song] = Title[song]
    <3>1. PICK x \in Songs : latest = LocalObs(x) BY <1>3, <2>2 DEF LocalObservations
    <3>2. latest.track.song \in Songs BY <1>2, <3>1
    <3> QED BY <1>3, <2>2, <3>2, LocalFacts
  <2>3. CASE latest # None /\ Title[latest.track.song] # Title[song]
    <3>1. obs = [LocalObs(song) EXCEPT !.position = latest.position] BY <2>3
    <3> HIDE DEF obs
    <3> QED BY <1>2, <1>4, <3>1, LocalFacts
  <2> QED BY <2>1, <2>2, <2>3
<1> HIDE DEF obs
<1>6. Together(obs.track, doc) BY <1>5 DEF Together
<1>7. DisplayOK(d) /\ d.doc \in {None, doc}
  BY <1>5, <1>6, PublishingFits DEF Screen!Publish, Whole
<1> HIDE DEF d
<1> QED BY <1>1, <1>7, Redisplayed

\* A sample on a display the local player holds.
LEMMA SampleFits ==
    ASSUME NEW s, Fits(s), NEW obs
    PROVE  Fits(PublishExternalSample(s, obs))
<1> DEFINE c == Gate!CurrentTiming(s.own, s.mp.commit.song)
           pos == IF c = None THEN obs.position ELSE TrackKey(s.own.cands[c].obs)
           d == Screen!Tick(s.disp, pos, obs.status, FALSE)
           t == [s EXCEPT !.disp = d]
<1>1. PublishExternalSample(s, obs) \in {s, t}
  BY DEF PublishExternalSample
<1> HIDE DEF c, pos
<1>2. DisplayOK(d) /\ d.doc \in {None, s.disp.doc}
  BY TickingFits DEF Fits, Whole
<1> HIDE DEF d
<1>3. Whole(t) /\ t.mp = s.mp /\ t.own = s.own /\ t.disp = d
  BY <1>2, Redisplayed DEF Fits
<1> HIDE DEF t
<1>4. Claimed(t) BY <1>2, <1>3 DEF Claimed, Fits
<1> QED BY <1>1, <1>3, <1>4 DEF Fits

\* The source that matches the commit may be bound.
LEMMA BindingFits ==
    ASSUME NEW s, Whole(s), s.mp.commit # None,
           NEW c, c # None, c = Gate!CurrentMatch(s.own, s.mp.commit.song)
    PROVE  Fits(BoundTo(s, c)) /\ BoundTo(s, c).mp.owner = "live"
<1> DEFINE own1 == Gate!SelectLive(s.own, c)
           bound == [s EXCEPT !.own = own1, !.mp.owner = "live"]
           doc == s.own.cands[c].doc
           song == s.mp.commit.song
<1>1. BoundTo(s, c) = PublishDocument(bound, doc, song)
  BY DEF BoundTo
<1>2. GateOK(own1) BY LivingIsRight DEF Whole
<1>3. doc \in LyricsOf(song) BY MatchIsOfTheSong DEF Whole
<1>4. song \in Songs BY DEF Whole, StateOK, WorkflowOK, Commits
<1> HIDE DEF own1, doc, song
<1>5. Whole(bound) /\ bound.mp.owner = "live"
  BY <1>2 DEF Whole, StateOK, WorkflowOK
<1> HIDE DEF bound
<1>6. Whole(BoundTo(s, c)) /\ BoundTo(s, c).mp.owner = "live"
  BY <1>1, <1>3, <1>4, <1>5, DocumentFits
<1> QED BY <1>6 DEF Fits, Claimed

\* A late decision either binds a live source or changes nothing.
LEMMA DecidingFits ==
    ASSUME NEW s, Whole(s), NEW before
    PROVE  LET t == SelectLate(s, before)
           IN  /\ Whole(t)
               /\ \/ t.mp.owner = "live" /\ Fits(t)
                  \/ /\ t.mp.owner = s.mp.owner /\ t.mp.commit = s.mp.commit
                     /\ t.own = s.own /\ t.disp = s.disp
<1> DEFINE seq == s.own.seq
           decided == [s EXCEPT !.mp.seen = seq]
           c == Gate!CurrentMatch(s.own, s.mp.commit.song)
<1>1. \/ SelectLate(s, before) \in {s, decided}
      \/ SelectLate(s, before) = BoundTo(decided, c) /\ c # None /\ s.mp.commit # None
  BY DEF SelectLate
<1> HIDE DEF seq
<1>2. /\ Whole(decided) /\ decided.own = s.own /\ decided.disp = s.disp
      /\ decided.mp.owner = s.mp.owner /\ decided.mp.commit = s.mp.commit
  BY DEF Whole, StateOK, WorkflowOK
<1> HIDE DEF decided
<1>3. c # None /\ s.mp.commit # None =>
        Fits(BoundTo(decided, c)) /\ BoundTo(decided, c).mp.owner = "live"
  BY <1>2, BindingFits
<1> HIDE DEF c
<1> QED BY <1>1, <1>2, <1>3 DEF Fits

\* So it keeps the invariant.
LEMMA DecidedFits ==
    ASSUME NEW s, Fits(s), NEW before
    PROVE  Fits(SelectLate(s, before))
BY DecidingFits DEF Fits, Claimed

\* A scheduled commit reserves the display, if it can be, and empties it.
LEMMA SchedulingFits ==
    ASSUME NEW s, Whole(s), NEW commit \in Commits
    PROVE  Fits(Schedule(s, commit))
<1> DEFINE t == Schedule(s, commit)
           own1 == Gate!SelectExternal(s.own)
           load == NewLoad(commit)
<1>1. StateOK(t) /\ t.mp.owner = "resolving"
  BY SchedulingMoves DEF Whole
<1>2. t.own = own1 /\ t.disp = s.disp
  BY DEF Schedule, Whole, StateOK
<1>3. GateOK(own1) /\ (own1.mode = "external" \/ ~Reservable(own1))
  BY ReservingIsRight DEF Whole, Alike, Reservable
<1> HIDE DEF t, own1
<1> QED BY <1>1, <1>2, <1>3 DEF Fits, Whole, Claimed, t

\* A forced reload starts the commit anew.
LEMMA ReloadingFits ==
    ASSUME NEW s, Fits(s)
    PROVE  Fits(ForceReload(s))
<1>1. CASE s.mp.commit = None BY <1>1 DEF ForceReload
<1>2. CASE s.mp.commit # None
  <2> DEFINE commit == [s.mp.commit EXCEPT !.gen = @ + 1]
  <2>1. s.mp.commit \in Commits BY <1>2 DEF Fits, Whole, StateOK, WorkflowOK
  <2>2. commit \in Commits BY <2>1 DEF Commits
  <2>3. ForceReload(s) = Schedule(s, commit) BY <1>2 DEF ForceReload
  <2> QED BY <2>2, <2>3, SchedulingFits DEF Fits
<1> QED BY <1>1, <1>2

\* A sample of the local player shows what is of the commit.
LEMMA SamplingFits ==
    ASSUME NEW s, Fits(s), NEW obs \in LocalObservations, NEW transitioning \in BOOLEAN
    PROVE  Fits(Sampled(s, obs, transitioning))
<1> DEFINE external == Gate!SelectExternal(s.own)
           reserved == [s EXCEPT !.own = external]
           claimed == IF transitioning \/ s.mp.commit = None THEN reserved ELSE s
           seen == [claimed EXCEPT !.mp.latest = obs]
           ensured == EnsureContentOwner(seen)
<1>1. Sampled(s, obs, transitioning) \in {seen, ensured, PublishExternalSample(ensured, obs)}
  BY DEF Sampled
<1>2. /\ GateOK(external) /\ external.sources = s.own.sources
      /\ external.mode = IF Reservable(s.own) THEN "external" ELSE "standalone"
  BY ReservingIsRight DEF Fits, Whole, Alike
<1>3. Reservable(external) <=> Reservable(s.own)
  BY <1>2 DEF Reservable
<1> HIDE DEF external
<1>4. /\ DOMAIN reserved = {"own", "disp", "mp"} /\ reserved.own = external
      /\ reserved.mp = s.mp /\ reserved.disp = s.disp
  BY DEF Fits, Whole, StateOK
<1> HIDE DEF reserved
<1>5. Fits(reserved)
  BY <1>2, <1>3, <1>4 DEF Fits, Whole, StateOK, Claimed
<1>6. Fits(claimed) BY <1>5
<1> HIDE DEF claimed
<1>7. /\ StateOK(seen) /\ seen.own = claimed.own /\ seen.disp = claimed.disp
      /\ seen.mp.owner = claimed.mp.owner /\ seen.mp.commit = claimed.mp.commit
  BY <1>6 DEF Fits, Whole, StateOK, WorkflowOK
<1> HIDE DEF seen
<1>8. Fits(seen) BY <1>6, <1>7 DEF Fits, Whole, Claimed
<1>9. ensured \in {ForceReload(seen), SelectLate(seen, None), seen}
  BY DEF EnsureContentOwner
<1>10. Fits(ensured) BY <1>8, <1>9, ReloadingFits, DecidedFits
<1> HIDE DEF ensured
<1> QED BY <1>1, <1>8, <1>10, SampleFits

\* A reset gives the display back.
LEMMA ResettingFits ==
    ASSUME NEW s, Whole(s)
    PROVE  Fits(ResetWorkflow(s))
<1> DEFINE t == ResetWorkflow(s)
           standalone == Gate!SelectStandalone(s.own)
           empty == Screen!PublishEmpty(s.disp)
<1>1. StateOK(t) BY ResettingMoves DEF Whole
<1>2. t.own = standalone /\ t.disp = empty
  BY DEF ResetWorkflow
<1>3. t.mp.owner = "none"
  BY DEF ResetWorkflow, Whole, StateOK, WorkflowOK
<1>4. GateOK(standalone) BY ElectingIsRight DEF Whole
<1>5. DisplayOK(empty)
  BY DEF Screen!PublishEmpty, Screen!Initially, DisplayOK
<1> HIDE DEF t, standalone, empty
<1> QED BY <1>1, <1>2, <1>3, <1>4, <1>5 DEF Fits, Whole, Claimed, t

\* The end of a load that found nothing.
LEMMA NothingFoundFits ==
    ASSUME NEW s, Whole(s), NEW obs \in LocalObservations
    PROVE  Fits(NothingFound(s, obs))
<1> DEFINE free == [s EXCEPT !.mp.owner = "none"]
           late == SelectLate(free, None)
<1>1. NothingFound(s, obs) \in {late, PublishResolution(late, obs, "NotFound")}
  BY DEF NothingFound
<1>2. Whole(free) /\ free.mp.owner = "none"
  BY DEF Whole, StateOK, WorkflowOK
<1> HIDE DEF free
<1>3. Fits(free) BY <1>2 DEF Fits, Claimed
<1>4. Fits(late) BY <1>3, DecidedFits
<1> HIDE DEF late
<1> QED BY <1>1, <1>4, TellingFits DEF Fits

\* The end of a load that prefers a live source.
LEMMA LiveFoundFits ==
    ASSUME NEW s, Whole(s), s.mp.commit # None, NEW obs \in LocalObservations
    PROVE  Fits(LiveFound(s, obs))
<1> DEFINE c == Gate!CurrentMatch(s.own, s.mp.commit.song)
           seq == s.own.seq
           decided == [s EXCEPT !.mp.seen = seq]
           free == [decided EXCEPT !.mp.owner = "none"]
<1>1. \/ LiveFound(s, obs) = PublishResolution(free, obs, "NotFound")
      \/ c # None /\ LiveFound(s, obs) = BoundTo(decided, c)
  BY DEF LiveFound
<1> HIDE DEF seq
<1>2. Whole(decided) /\ decided.own = s.own /\ decided.mp.commit = s.mp.commit
  BY DEF Whole, StateOK, WorkflowOK
<1> HIDE DEF decided
<1>3. Whole(free) /\ free.mp.owner = "none"
  BY <1>2 DEF Whole, StateOK, WorkflowOK
<1> HIDE DEF free
<1>4. Claimed(free) BY <1>3 DEF Claimed
<1>5. c # None => Fits(BoundTo(decided, c)) BY <1>2, BindingFits
<1> HIDE DEF c
<1> QED BY <1>1, <1>3, <1>4, <1>5, TellingFits DEF Fits

\* The end of a load that found lyrics: they are of the commit, and the display
\* is reserved for them if it can be.
LEMMA ProviderFoundFits ==
    ASSUME NEW s, Whole(s), s.mp.commit # None,
           s.own.mode = "external" \/ ~Reservable(s.own)
    PROVE  Fits(ProviderFound(s))
<1> DEFINE late == SelectLate(s, "provider")
           seq == s.own.seq
           external == [late EXCEPT !.mp.owner = "external", !.mp.seen = seq]
           song == s.mp.commit.song
           doc == Lyrics(song)
<1>1. \/ ProviderFound(s) = late /\ late.mp.owner = "live"
      \/ /\ ProviderFound(s) = PublishExternalDocument(external, doc, song)
         /\ late.mp.owner # "live"
  BY DEF ProviderFound
<1>2. song \in Songs BY DEF Whole, StateOK, WorkflowOK, Commits
<1>3. doc \in LyricsOf(song) BY DEF LyricsOf
<1>4. /\ Whole(late)
      /\ \/ late.mp.owner = "live" /\ Fits(late)
         \/ late.mp.commit = s.mp.commit /\ late.own = s.own
  BY DecidingFits
<1> HIDE DEF late, seq, doc
<1>5. /\ Whole(external) /\ external.own = late.own /\ external.mp.owner = "external"
      /\ external.mp.commit = late.mp.commit
  BY <1>4 DEF Whole, StateOK, WorkflowOK
<1> HIDE DEF external
<1>6. CASE late.mp.owner = "live" BY <1>1, <1>4, <1>6 DEF Fits, Claimed
<1>7. CASE late.mp.owner # "live"
  <2> DEFINE t == PublishDocument(external, doc, song)
  <2>1. external.mp.commit.song = song /\ external.own = s.own BY <1>4, <1>5, <1>7
  <2>2. Whole(t) /\ t.mp = external.mp /\ t.own = s.own /\ t.disp.doc \in {None, doc}
    BY <1>2, <1>3, <1>5, <2>1, DocumentFits
  <2>3. PublishExternalDocument(external, doc, song)
          = IF Gate!Accepts(external.own, Gate!Mpris) THEN t ELSE external
    BY DEF PublishExternalDocument
  <2>4. doc = Lyrics(external.mp.commit.song) BY <2>1 DEF doc
  <2> HIDE DEF t, song
  <2>7. Claimed(t) BY <1>5, <2>1, <2>2, <2>4 DEF Claimed
  <2>5. external.own.mode = "external" => Gate!Accepts(external.own, Gate!Mpris)
    BY <1>5 DEF Whole, GateOK, Reservable, Gate!Accepts
  <2>6. external.own.mode # "external" => Claimed(external) BY <2>1 DEF Claimed
  <2> QED BY <1>1, <1>5, <1>7, <2>2, <2>3, <2>5, <2>6, <2>7 DEF Fits
<1> QED BY <1>6, <1>7

-------------------------------------------------------------------------------
(* The MPRIS lyric workflow: the steps.                                      *)

\* A step to a state that fits.
LEMMA ReachingFits ==
    ASSUME NEW t, Fits(t), Reaches(t)
    PROVE  Fits(Workflow')
BY DEF Reaches, Workflow, Fits, Whole, StateOK, Claimed

\* The state of the specification, with other attributes of the workflow.
LEMMA ElsewhereFits ==
    ASSUME Fits(Workflow), NEW m, WorkflowOK(m), m.owner = mp.owner, m.commit = mp.commit
    PROVE  Fits([Workflow EXCEPT !.mp = m])
BY DEF Workflow, Fits, Whole, StateOK, Claimed

\* The parts of the state.
LEMMA Attributes ==
    ASSUME Fits(Workflow)
    PROVE  /\ Workflow.own = own /\ Workflow.disp = disp /\ Workflow.mp = mp
           /\ WorkflowOK(mp) /\ GateOK(own) /\ DisplayOK(disp)
BY DEF Workflow, Fits, Whole, StateOK

\* The state of the specification after a step that leaves the workflow alone.
LEMMA OutsideFits ==
    ASSUME Fits(Workflow), mp' = mp, GateOK(own'), DisplayOK(disp'),
           own'.mode # "external" => ~Reservable(own') \/ mp.owner \notin {"resolving", "external"},
           own'.mode = "external" /\ mp.owner = "external" => own.mode = "external" /\ disp' = disp
    PROVE  Fits(Workflow')
BY DEF Workflow, Fits, Whole, StateOK, Claimed

\* A committed track.
LEMMA CommitFits ==
    ASSUME Fits(Workflow), NEW song \in Songs, Commit(song)
    PROVE  Fits(Workflow')
<1> DEFINE s == [Workflow EXCEPT !.mp.stable = @ + 1]
           m == [mp EXCEPT !.stable = @ + 1]
           commit == [gen |-> Generation, song |-> song]
           t == Schedule(s, commit)
           u == Sampled(t, LocalObs(song), FALSE)
<1>1. Reaches(u)
  BY DEF Commit
<1>2. mp.commit # None => mp.commit.gen \in Nat
  BY Attributes DEF WorkflowOK, Commits
<1>3. Generation \in Nat
  BY <1>2, Attributes DEF Generation, WorkflowOK
<1>4. commit \in Commits
  BY <1>3 DEF Commits
<1>5. WorkflowOK(m) /\ m.owner = mp.owner /\ m.commit = mp.commit
  BY Attributes DEF WorkflowOK
<1>6. s = [Workflow EXCEPT !.mp = m]
  BY DEF Workflow
<1> HIDE DEF s, m, commit
<1>7. Fits(s) BY <1>5, <1>6, ElsewhereFits
<1>8. Fits(t) BY <1>4, <1>7, SchedulingFits DEF Fits
<1> HIDE DEF t
<1>9. LocalObs(song) \in LocalObservations BY DEF LocalObservations
<1>10. Fits(u) BY <1>8, <1>9, SamplingFits
<1> HIDE DEF u
<1> QED BY <1>1, <1>10, ReachingFits

\* A sample, settled or in transition.
LEMMA PlayerFits ==
    ASSUME Fits(Workflow), SettledSample \/ \E song \in Songs : TransitioningSample(song)
    PROVE  Fits(Workflow')
<1>1. ASSUME SettledSample PROVE Fits(Workflow')
  <2> DEFINE u == Sampled(Workflow, LocalObs(mp.commit.song), FALSE)
  <2>1. mp.commit.song \in Songs
    BY <1>1, Attributes DEF SettledSample, WorkflowOK, Commits
  <2>2. LocalObs(mp.commit.song) \in LocalObservations
    BY <2>1 DEF LocalObservations
  <2>3. Reaches(u) BY <1>1 DEF SettledSample
  <2>4. Fits(u) BY <2>2, SamplingFits
  <2> HIDE DEF u
  <2> QED BY <2>3, <2>4, ReachingFits
<1>2. ASSUME NEW song \in Songs, TransitioningSample(song) PROVE Fits(Workflow')
  <2> DEFINE u == Sampled(Workflow, LocalObs(song), TRUE)
  <2>1. LocalObs(song) \in LocalObservations
    BY DEF LocalObservations
  <2>2. Reaches(u) BY <1>2 DEF TransitioningSample
  <2>3. Fits(u) BY <2>1, SamplingFits
  <2> HIDE DEF u
  <2> QED BY <2>2, <2>3, ReachingFits
<1> QED BY <1>1, <1>2

\* A step that moves only what says nothing about lyrics.
LEMMA AsideFits ==
    ASSUME Fits(Workflow), WorkflowOK(mp'), mp'.owner = mp.owner, mp'.commit = mp.commit,
           own' = own, disp' = disp
    PROVE  Fits(Workflow')
BY DEF Workflow, Fits, Whole, StateOK, Claimed

\* No player, and the end of the grace period.
LEMMA AbsenceFits ==
    ASSUME Fits(Workflow), NoPlayer \/ GraceExpires
    PROVE  Fits(Workflow')
<1>1. CASE GraceExpires
  BY <1>1, Attributes, AsideFits DEF GraceExpires, WorkflowOK
<1>2. CASE NoPlayer
  <2> DEFINE recent == [Workflow EXCEPT !.mp.since = "recent"]
             m == [mp EXCEPT !.since = "recent"]
             u == ResetWorkflow(Workflow)
  <2>1. mp.since \in {"present", "recent", "elapsed"} BY Attributes DEF WorkflowOK
  <2>2. Reaches(Workflow) \/ Reaches(recent) \/ Reaches(u)
    BY <1>2, <2>1 DEF NoPlayer
  <2>3. recent = [Workflow EXCEPT !.mp = m] BY DEF Workflow
  <2>4. WorkflowOK(m) /\ m.owner = mp.owner /\ m.commit = mp.commit
    BY Attributes DEF WorkflowOK
  <2> HIDE DEF recent, m
  <2>5. Fits(recent) BY <2>3, <2>4, ElsewhereFits
  <2>6. Fits(u) BY ResettingFits DEF Fits
  <2> HIDE DEF u
  <2> QED BY <2>2, <2>5, <2>6, ReachingFits
<1> QED BY <1>1, <1>2

\* The load task runs for the first time.
LEMMA LoadStartsFits ==
    ASSUME Fits(Workflow), LoadStarts
    PROVE  Fits(Workflow')
<1> DEFINE song == mp.load.commit.song
           obs == IF mp.latest # None /\ mp.latest.track.song = song THEN mp.latest
                  ELSE LocalObs(song)
           told == PublishResolution(Workflow, obs, "Resolving")
           waits == [told EXCEPT !.mp.load.phase = "waiting", !.mp.load.obs = obs]
           over == [told EXCEPT !.mp.load = None]
           u == NothingFound(over, obs)
<1>1. Reaches(waits) \/ Reaches(u)
  BY DEF LoadStarts
<1>2. mp.load \in Loads /\ mp.latest \in LocalObservations \cup {None}
  BY Attributes DEF LoadStarts, WorkflowOK
<1>3. song \in Songs
  BY <1>2 DEF Loads, Commits
<1>4. obs \in LocalObservations
  BY <1>2, <1>3 DEF LocalObservations
<1> HIDE DEF song, obs
<1>5. Fits(told) /\ told.mp = mp
  BY <1>4, Attributes, TellingFits, PublishingMoves DEF Fits, Whole
<1> HIDE DEF told
<1>6. Whole(over)
  BY <1>5 DEF Fits, Whole, StateOK, WorkflowOK
<1> HIDE DEF over
<1>7. Fits(u) BY <1>4, <1>6, NothingFoundFits
<1> HIDE DEF u
<1> DEFINE load == [mp.load EXCEPT !.phase = "waiting", !.obs = obs]
           m == [mp EXCEPT !.load = load]
<1>8. load \in Loads /\ load.phase = "waiting" /\ load.obs # None
  BY <1>2, <1>4, NothingIsNone DEF Loads
<1>9. waits = [told EXCEPT !.mp = m]
  BY <1>5 DEF Fits, Whole, StateOK
<1> HIDE DEF load, waits
<1>10. WorkflowOK(m) /\ m.owner = mp.owner /\ m.commit = mp.commit
  BY <1>8, Attributes DEF WorkflowOK
<1> HIDE DEF m
<1>11. Fits(waits)
  BY <1>5, <1>9, <1>10 DEF Fits, Whole, StateOK, Claimed
<1> QED BY <1>1, <1>7, <1>11, ReachingFits

\* The load task runs on after its lookup.
LEMMA LoadEndsFits ==
    ASSUME Fits(Workflow), LoadRight(mp), LoadEnds
    PROVE  Fits(Workflow')
<1> DEFINE s == [Workflow EXCEPT !.mp.load = None]
           failed == [Workflow EXCEPT !.mp.load.phase = "failed"]
           obs == mp.load.obs
<1>1. /\ mp.load \in Loads /\ mp.load # None /\ mp.commit = mp.load.commit
      /\ mp.owner = "resolving" /\ mp.commit \in Commits
      /\ mp.load.decision \in {"raised", "nothing", "live", "provider"} /\ mp.load.obs # None
  BY Attributes DEF LoadEnds, WorkflowOK, LoadRight, Loads
<1>2. \/ Reaches(failed)
      \/ Reaches(NothingFound(s, obs)) \/ Reaches(LiveFound(s, obs)) \/ Reaches(ProviderFound(s))
  BY <1>1 DEF LoadEnds
<1>3. /\ Whole(s) /\ s.mp.commit = mp.commit /\ s.own = own
  BY DEF Workflow, Fits, Whole, StateOK, WorkflowOK
<1>4. own.mode = "external" \/ ~Reservable(own)
  BY <1>1, Attributes DEF Fits, Claimed
<1>5. obs \in LocalObservations
  BY <1>1 DEF Loads
<1> HIDE DEF s, obs
<1>6. /\ Fits(NothingFound(s, obs)) /\ Fits(LiveFound(s, obs)) /\ Fits(ProviderFound(s))
  BY <1>1, <1>3, <1>4, <1>5, NothingIsNone, NothingFoundFits, LiveFoundFits, ProviderFoundFits
<1> DEFINE load == [mp.load EXCEPT !.phase = "failed"]
           m == [mp EXCEPT !.load = load]
<1>7. load \in Loads /\ load.phase = "failed" BY <1>1 DEF Loads
<1>8. failed = [Workflow EXCEPT !.mp = m] BY DEF Workflow
<1> HIDE DEF load, failed
<1>9. WorkflowOK(m) /\ m.owner = mp.owner /\ m.commit = mp.commit
  BY <1>7, Attributes DEF WorkflowOK
<1> HIDE DEF m
<1>10. Fits(failed) BY <1>8, <1>9, ElsewhereFits
<1> QED BY <1>2, <1>6, <1>10, ReachingFits

\* What the live sources do.
LEMMA LiveFits ==
    ASSUME Fits(Workflow), NEW c \in Connections,
           LiveReports(c) \/ LiveTicks(c) \/ LiveGone(c)
    PROVE  Fits(Workflow')
<1>0. /\ mp.owner \in {"resolving", "external"} => own.mode = "external" \/ ~Reservable(own)
      /\ own.mode = "external" => Reservable(own)
  BY Attributes DEF Fits, Claimed, GateOK
<1>1. CASE LiveReports(c)
  <2>1. PICK r \in Snapshots[c] :
          /\ own' = Gate!Observe(own, c, r.obs, r.doc)
          /\ disp' = IF Gate!Accepts(own', c) THEN Screen!Publish(disp, r.obs, r.doc, FALSE)
                     ELSE disp
    BY <1>1 DEF LiveReports
  <2>2. mp' = mp BY <1>1 DEF LiveReports
  <2>3. r.doc # None => Together(r.obs.track, r.doc)
    BY DEF Together, Reports
  <2>4. GateOK(own') /\ own'.sources = own.sources /\ own'.mode = own.mode
    BY <2>1, Attributes, ObservingIsRight
  <2>5. r \in [obs : Observations, doc : Documents \cup {None}] BY LyricsAssumption
  <2>6. "track" \in DOMAIN r.obs BY <2>5 DEF Observations
  <2>7. DisplayOK(Screen!Publish(disp, r.obs, r.doc, FALSE))
    BY <2>3, <2>6, Attributes, PublishingFits DEF Screen!Publish
  <2>8. DisplayOK(disp') BY <2>1, <2>7, Attributes
  <2>9. own.mode = "external" => disp' = disp BY <2>1, <2>4, ReservedForOne
  <2> QED BY <1>0, <2>2, <2>4, <2>8, <2>9, OutsideFits DEF Reservable
<1>2. CASE LiveTicks(c)
  <2>1. own' = Gate!ObserveClock(own, c, TrackRef(own.cands[c].obs.track)) /\ disp' = disp /\ mp' = mp
    BY <1>2 DEF LiveTicks
  <2>2. GateOK(own') /\ own'.sources = own.sources /\ own'.mode = own.mode
    BY <2>1, Attributes, ClockingIsRight
  <2> QED BY <1>0, <2>1, <2>2, Attributes, OutsideFits DEF Reservable
<1>3. CASE LiveGone(c)
  <2>1. own' = Gate!DropClient(own, c) /\ disp' = disp /\ mp' = mp
    BY <1>3 DEF LiveGone
  <2>2. /\ GateOK(own') /\ own'.sources = own.sources
        /\ \/ own'.mode = own.mode
           \/ own.mode = "live" /\ own'.mode = IF Reservable(own) THEN "external" ELSE "standalone"
    BY <2>1, Attributes, DroppingIsRight
  <2> QED BY <1>0, <2>1, <2>2, Attributes, OutsideFits DEF Reservable
<1> QED BY <1>1, <1>2, <1>3

\* Every step that leaves the list of display sources alone keeps the invariant.
LEMMA StepFits ==
    ASSUME Fits(Workflow), LoadRight(mp), WorkflowOK(mp'),
           [LyricsNext]_lyricVars, [own'.sources = own.sources]_lyricVars
    PROVE  Fits(Workflow')
<1>1. CASE Player
  BY <1>1, SongsAssumption, CommitFits, PlayerFits, AbsenceFits DEF Player
<1>2. CASE GraceExpires
  BY <1>2, AbsenceFits
<1>3. CASE LoadStarts
  BY <1>3, LoadStartsFits
<1>4. CASE LoadEnds
  BY <1>4, LoadEndsFits
<1>5. ASSUME NEW song \in Songs, NEW plan \in Plans, Lookup(song, plan) PROVE Fits(Workflow')
  <2>1. own' = own /\ disp' = disp BY <1>5 DEF Lookup, LookLive, LookupEnds
  <2>2. mp'.owner = mp.owner /\ mp'.commit = mp.commit
    BY <1>5, Attributes DEF Lookup, LookLive, LookupEnds, WorkflowOK
  <2> QED BY <2>1, <2>2, AsideFits
<1>6. ASSUME NEW plan \in Plans, SetLyricsSources(plan) PROVE Fits(Workflow')
  <2> DEFINE s == [Workflow EXCEPT !.mp.plan = plan]
             m == [mp EXCEPT !.plan = plan]
             u == ForceReload(s)
  <2>1. Reaches(u) BY <1>6 DEF SetLyricsSources
  <2>2. s = [Workflow EXCEPT !.mp = m] BY DEF Workflow
  <2>3. WorkflowOK(m) /\ m.owner = mp.owner /\ m.commit = mp.commit
    BY Attributes DEF WorkflowOK
  <2> HIDE DEF s, m
  <2>4. Fits(s) BY <2>2, <2>3, ElsewhereFits
  <2>5. Fits(u) BY <2>4, ReloadingFits
  <2> HIDE DEF u
  <2> QED BY <2>1, <2>5, ReachingFits
<1>7. CASE StopFollowing
  <2> DEFINE s == [Workflow EXCEPT !.mp.running = FALSE]
             u == ResetWorkflow(s)
  <2>1. Reaches(u) BY <1>7 DEF StopFollowing
  <2>2. Whole(s) BY DEF Workflow, Fits, Whole, StateOK, WorkflowOK
  <2> HIDE DEF s
  <2>3. Fits(u) BY <2>2, ResettingFits
  <2> HIDE DEF u
  <2> QED BY <2>1, <2>3, ReachingFits
<1>8. CASE StartFollowing
  BY <1>8, Attributes, AsideFits DEF StartFollowing, WorkflowOK
<1>9. CASE Reconfigure
  <2>1. PICK raw \in DisplaySourceLists : own' = Gate!SetDisplaySources(own, raw)
    BY <1>9 DEF Reconfigure
  <2>2. disp' = disp /\ mp' = mp BY <1>9 DEF Reconfigure
  <2>3. own'.sources = own.sources BY DEF lyricVars
  <2>4. /\ GateOK(own')
        /\ own'.mode = own.mode \/ (own.mode = "live" /\ own'.mode = "standalone")
    BY <2>1, <2>3, Attributes, ConfiguringIsRight
  <2>5. mp.owner \in {"resolving", "external"} => own.mode = "external" \/ ~Reservable(own)
    BY Attributes DEF Fits, Claimed
  <2> QED BY <2>2, <2>3, <2>4, <2>5, Attributes, OutsideFits DEF Reservable
<1>10. ASSUME NEW c \in Connections, LiveReports(c) \/ LiveTicks(c) \/ LiveGone(c)
       PROVE  Fits(Workflow')
  BY <1>10, LiveFits
<1>11. CASE UNCHANGED lyricVars
  BY <1>11, Attributes, AsideFits DEF lyricVars
<1> QED
  BY <1>1, <1>2, <1>3, <1>4, <1>5, <1>6, <1>7, <1>8, <1>9, <1>10, <1>11 DEF LyricsNext

\* A workflow that has just been built holds nothing.
LEMMA BeginsFitting == LyricsInit => Fits(Workflow)
<1> SUFFICES ASSUME LyricsInit PROVE Fits(Workflow) OBVIOUS
<1>1. PICK raw \in DisplaySourceLists : own = Gate!InitialOwnership(raw) BY DEF LyricsInit
<1>2. Gate!Normalized(raw) \in Seq(Gate!DisplaySources) BY LyricsAssumption
<1>3. GateOK(own) BY <1>1, <1>2 DEF Gate!InitialOwnership, GateOK
<1>4. DisplayOK(disp) BY DEF LyricsInit, Screen!Initially, DisplayOK
<1>5. WorkflowOK(mp) /\ mp.owner = "none" BY DEF LyricsInit, WorkflowOK
<1> QED BY <1>3, <1>4, <1>5 DEF Workflow, Fits, Whole, StateOK, Claimed

\* Stale results cannot update the active display (docs/SPEC-lyrics.md:66): if the
\* list of display sources stays, the lyrics on screen go with the track on screen,
\* as far as titles tell tracks apart (providers/mpris_display.py), and they are
\* those of the committed track while the local player holds the display with lyrics.
THEOREM ShownLyricsAreOfTheTrack ==
    LyricsSpec /\ [][own'.sources = own.sources]_lyricVars => []LyricsAreOfTheTrackShown
<1> DEFINE I == Fits(Workflow) /\ LoadRight(mp)
<1>1. LyricsInit => I
  <2> SUFFICES ASSUME LyricsInit PROVE I OBVIOUS
  <2>1. Fits(Workflow) BY BeginsFitting
  <2>2. mp.load = None /\ mp.owner = "none" BY DEF LyricsInit
  <2> QED BY <2>1, <2>2 DEF LoadRight
<1>2. ASSUME I, [LyricsNext]_lyricVars, [own'.sources = own.sources]_lyricVars PROVE I'
  <2>1. WorkflowInv(mp) BY <1>2, Attributes DEF WorkflowInv
  <2>2. WorkflowInv(mp') BY <1>2, <2>1, WorkflowSteps
  <2>3. Fits(Workflow') BY <1>2, <2>2, StepFits DEF WorkflowInv
  <2> QED BY <2>2, <2>3 DEF WorkflowInv
<1>3. I => LyricsAreOfTheTrackShown
  <2> SUFFICES ASSUME I PROVE LyricsAreOfTheTrackShown OBVIOUS
  <2> QED BY Attributes DEF Fits, Claimed, DisplayOK, LyricsAreOfTheTrackShown
<1> HIDE DEF I
<1> QED BY <1>1, <1>2, <1>3, PTL DEF LyricsSpec

===============================================================================
