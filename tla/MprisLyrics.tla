------------------------------ MODULE MprisLyrics ------------------------------
(***************************************************************************)
(* MprisLyricsCoordinator (providers/mpris_lyrics.py) with its display     *)
(* binding (providers/mpris_display.py): follows the local player, reserves*)
(* the display for it, resolves the lyrics of every track it commits to,   *)
(* and prefers or falls back to the document of a live source              *)
(* (SourceOwnership).  The screen is DisplayCoordinator.                   *)
(*                                                                         *)
(* A load is the task of one commit.  It waits for a lookup of the         *)
(* resolver, which is shared by everyone who asks for the same track under *)
(* the same source plan and survives those who asked (lyrics/resolver.py). *)
(* Handlers map the state [own, disp, mp] to the next; a step runs from    *)
(* one await to the next.                                                  *)
(***************************************************************************)
EXTENDS SharedDisplay, Sequences

CONSTANTS LocalPlayer,   \* the local player followed
          Plans,         \* source plans the settings may choose
          NotSongs,      \* songs whose title or length may rule a lookup out
          Settling,      \* songs that stay on long enough to be committed to
          Passing,       \* songs that may be found before they have settled
          Title,         \* Title[song]: the song's title, which artists may share
          MaxCommits     \* bound on the commits and reloads

VARIABLES mp,        \* the coordinator's attributes
          lookups    \* lookups[song, plan]: the resolver's shared lookups

lyricVars == <<own, disp, mp, lookups>>

\* Where the live source stands in the plan: before the providers, after them,
\* or not at all.
AllPlans == {"liveFirst", "liveLast", "noLive"}

ASSUME PlansAssumption == Plans \subseteq AllPlans /\ NotSongs \subseteq Songs

ASSUME SongsAssumption == DOMAIN Title = Songs /\ Settling \cup Passing \subseteq Songs

\* lyrics_lookup_reason: the title, or the length reported, is not that of one song.
RuledOut(song) == song \in NotSongs

LocalObs(song) ==
    LET track == [adapter |-> Gate!Mpris, player |-> LocalPlayer, stable |-> None, song |-> song]
    IN  [adapter |-> Gate!Mpris, player |-> LocalPlayer, track |-> track, status |-> "Playing",
         position |-> <<Gate!Mpris, LocalPlayer, None, song>>]

\* The commits to a track, and the tasks that load the lyrics of one.
Commits == [gen : Nat, song : Songs]

LocalObservations == {LocalObs(song) : song \in Songs}

Loads == [commit : Commits, phase : {"created", "waiting", "decided", "failed"},
          obs : LocalObservations \cup {None},
          decision : {"provider", "live", "nothing", "raised", None}]

ASSUME LyricsAssumption ==
    /\ None \notin Commits /\ None \notin Loads
    /\ None \notin LocalObservations /\ None \notin Documents
    /\ \A song \in Songs : LocalObs(song).track # None
    /\ Connections \cap {Gate!Mpris, Gate!CiderApi, None} = {}
    /\ \A c \in Connections :
           Snapshots[c] \subseteq [obs : Observations, doc : Documents \cup {None}]
    /\ \A raw \in DisplaySourceLists : Gate!Normalized(raw) \in Seq(Gate!DisplaySources)

Workflow == [own |-> own, disp |-> disp, mp |-> mp]

Reaches(s) == own' = s.own /\ disp' = s.disp /\ mp' = s.mp
-------------------------------------------------------------------------------
(* The display binding.                                                    *)

\* MprisDisplayBinding.publish_resolution
PublishResolution(s, obs, res) ==
    IF Gate!Accepts(s.own, Gate!Mpris)
    THEN [s EXCEPT !.disp = Screen!PublishResolution(@, obs, None, res, FALSE)] ELSE s

PublishDocumentWithLatest(s, doc, song) ==
    [s EXCEPT !.disp = Screen!Publish(@, IF s.mp.latest = None THEN LocalObs(song)
                                         ELSE s.mp.latest, doc, FALSE)]

\* publish_document: with the latest sample if it has the title of the document's
\* track, and otherwise with the track's own facts at the latest position.
PublishDocument(s, doc, song) ==
    LET latest == s.mp.latest
        obs == IF latest = None THEN LocalObs(song)
               ELSE IF Title[latest.track.song] = Title[song] THEN latest
               ELSE [LocalObs(song) EXCEPT !.position = latest.position]
    IN  [s EXCEPT !.disp = Screen!Publish(@, obs, doc, FALSE)]

PublishExternalDocument(s, doc, song) ==
    IF Gate!Accepts(s.own, Gate!Mpris) THEN PublishDocument(s, doc, song) ELSE s

\* publish_external_sample: the clock of a live source that plays the same song
\* takes precedence over the sample.
PublishExternalSample(s, obs) ==
    LET c == Gate!CurrentTiming(s.own, s.mp.commit.song)
        pos == IF c = None THEN obs.position ELSE TrackKey(s.own.cands[c].obs)
    IN  IF Gate!Accepts(s.own, Gate!Mpris)
        THEN [s EXCEPT !.disp = Screen!Tick(@, pos, obs.status, FALSE)] ELSE s
-------------------------------------------------------------------------------
(* The workflow.                                                           *)

NewLoad(commit) == [commit |-> commit, phase |-> "created", obs |-> None, decision |-> None]

\* _schedule_load: the running load is cancelled and the display is claimed
\* before the new load has begun.
Schedule(s, commit) ==
    [s EXCEPT !.own = Gate!SelectExternal(@),
              !.mp.commit = commit, !.mp.owner = "resolving", !.mp.load = NewLoad(commit)]

ForceReload(s) ==
    IF s.mp.commit = None THEN s
    ELSE Schedule(s, [s.mp.commit EXCEPT !.gen = @ + 1])

Allowed(plan, before) ==
    CASE plan = "noLive" -> FALSE
      [] plan = "liveLast" -> before = None
      [] plan = "liveFirst" -> TRUE

\* A live source is bound, and its document shown with the local track.
BoundTo(s, c) ==
    LET bound == [s EXCEPT !.own = Gate!SelectLive(@, c), !.mp.owner = "live"]
    IN  PublishDocument(bound, s.own.cands[c].doc, s.mp.commit.song)

\* _select_late_live_source: decides at most once on each revision of the
\* candidates.  It has bound a source iff the owner has become "live".
SelectLate(s, before) ==
    LET decided == [s EXCEPT !.mp.seen = s.own.seq]
        Bound(c) == IF c = None THEN decided ELSE BoundTo(decided, c)
    IN  IF s.mp.commit = None \/ s.own.seq = s.mp.seen THEN s
        ELSE IF ~Allowed(s.mp.plan, before) THEN decided
        ELSE Bound(Gate!CurrentMatch(s.own, s.mp.commit.song))

EnsureOwnerUnlessLive(s) ==
    IF s.mp.owner = "none" /\ s.mp.commit # None THEN SelectLate(s, None) ELSE s

\* _ensure_content_owner
EnsureContentOwner(s) ==
    IF s.mp.owner = "live" /\ ~Gate!LiveActive(s.own) THEN ForceReload(s)
    ELSE IF s.mp.owner = "none" /\ s.mp.commit # None THEN SelectLate(s, None)
    ELSE s

\* on_playback_sample
Sampled(s, obs, transitioning) ==
    LET claimed == IF transitioning \/ s.mp.commit = None
                   THEN [s EXCEPT !.own = Gate!SelectExternal(@)] ELSE s
        seen == [claimed EXCEPT !.mp.latest = obs]
        Shown(w) == IF w.mp.owner = "external" /\ w.mp.commit # None
                    THEN PublishExternalSample(w, obs) ELSE w
    IN  IF transitioning THEN seen ELSE Shown(EnsureContentOwner(seen))

ResetKeepsLoad(s) ==
    LET standalone == Gate!SelectStandalone(s.own)
    IN  [own |-> standalone, disp |-> Screen!PublishEmpty(s.disp),
         mp |-> [s.mp EXCEPT !.commit = None, !.owner = "none", !.since = "present",
                             !.seen = standalone.seq, !.latest = None]]

\* _reset
ResetWorkflow(s) ==
    LET standalone == Gate!SelectStandalone(s.own)
    IN  [own |-> standalone, disp |-> Screen!PublishEmpty(s.disp),
         mp |-> [s.mp EXCEPT !.commit = None, !.owner = "none", !.since = "present",
                             !.seen = standalone.seq, !.latest = None, !.load = None]]
-------------------------------------------------------------------------------
(* The player.                                                             *)

\* The generation of a new commit is the stabilizer's, or the next after a
\* reload that got ahead of it.
Generation ==
    IF mp.commit # None /\ mp.stable + 1 <= mp.commit.gen THEN mp.commit.gen + 1
    ELSE mp.stable + 1

\* The stabilizer commits to a track; the same poll delivers its sample.
Commit(song) ==
    /\ mp.running /\ Generation <= MaxCommits
    /\ mp.commit # None => mp.commit.song # song
    /\ LET s == Schedule([Workflow EXCEPT !.mp.stable = @ + 1], [gen |-> Generation, song |-> song])
       IN  Reaches(Sampled(s, LocalObs(song), FALSE))
    /\ UNCHANGED lookups

\* A poll finds the committed track.
SettledSample ==
    /\ mp.running /\ mp.commit # None
    /\ mp.commit.gen < MaxCommits \/ mp.owner # "live" \/ Gate!LiveActive(own)
    /\ Reaches(Sampled(Workflow, LocalObs(mp.commit.song), FALSE))
    /\ UNCHANGED lookups

\* A poll finds a track that has not settled.
TransitioningSample(song) ==
    /\ mp.running
    /\ mp.commit # None => mp.commit.song # song
    /\ Reaches(Sampled(Workflow, LocalObs(song), TRUE))
    /\ UNCHANGED lookups

\* handle_no_player
NoPlayer ==
    /\ mp.running
    /\ IF mp.commit = None /\ mp.owner = "none" THEN Reaches(Workflow)
       ELSE CASE mp.since = "present" ->
                   Reaches([Workflow EXCEPT !.mp.since = "recent"])
              [] mp.since = "recent" -> Reaches(Workflow)
              [] mp.since = "elapsed" -> Reaches(ResetWorkflow(Workflow))
    /\ UNCHANGED lookups

\* The grace period of 0.35 s after the first poll without a player expires.
GraceExpires ==
    /\ mp.since = "recent"
    /\ mp' = [mp EXCEPT !.since = "elapsed"]
    /\ UNCHANGED <<own, disp, lookups>>
-------------------------------------------------------------------------------
(* The load task and the resolver.                                         *)

\* The lookup reaches the live source (lyrics/live_source.py).
LookLive(song, plan) ==
    /\ lookups[song, plan] = "pending" /\ plan # "noLive"
    /\ lookups' = [lookups EXCEPT ![<<song, plan>>] =
                       IF Gate!CurrentMatch(own, song) # None THEN "hit" ELSE "miss"]
    /\ UNCHANGED <<own, disp, mp>>

\* What a lookup may return, given what the live source has answered: a provider
\* may win before or after the live source was asked; a lookup that found it
\* does not end with nothing.  A call of the cache that times out ends a lookup
\* with an exception.
Decisions(plan, look) ==
    {"provider", "raised"} \cup (IF look = "hit" THEN {"live"} ELSE {})
                 \cup (IF look = "miss" \/ plan = "noLive" THEN {"nothing"} ELSE {})

WaitingOfTheStabilizer(song, plan) ==
    /\ mp.load # None /\ mp.load.phase = "waiting"
    /\ mp.load.commit = [gen |-> mp.stable, song |-> song] /\ mp.plan = plan

Waiting(song, plan) ==
    /\ mp.load # None /\ mp.load.phase = "waiting"
    /\ mp.load.commit.song = song /\ mp.plan = plan

\* The lookup ends; the load that waits for it, if any, has yet to run.
LookupEnds(song, plan) ==
    /\ lookups[song, plan] # None
    /\ \E decision \in Decisions(plan, lookups[song, plan]) :
         mp' = IF Waiting(song, plan)
               THEN [mp EXCEPT !.load.phase = "decided", !.load.decision = decision] ELSE mp
    /\ lookups' = [lookups EXCEPT ![<<song, plan>>] = None]
    /\ UNCHANGED <<own, disp>>

Lyrics(song) == [song |-> song, lines |-> TRUE, origin |-> "provider"]

\* The branches of _load_song after the resolution.
NothingFound(s, obs) ==
    LET Told(late) ==
            IF late.mp.owner = "live" THEN late ELSE PublishResolution(late, obs, "NotFound")
    IN  Told(SelectLate([s EXCEPT !.mp.owner = "none"], None))

LiveFound(s, obs) ==
    LET c == Gate!CurrentMatch(s.own, s.mp.commit.song)
        decided == [s EXCEPT !.mp.seen = s.own.seq]
    IN  IF c = None
        THEN PublishResolution([decided EXCEPT !.mp.owner = "none"], obs, "NotFound")
        ELSE BoundTo(decided, c)

ProviderFound(s) ==
    LET Shown(late) ==
            IF late.mp.owner = "live" THEN late
            ELSE PublishExternalDocument([late EXCEPT !.mp.owner = "external", !.mp.seen = s.own.seq],
                                         Lyrics(s.mp.commit.song), s.mp.commit.song)
    IN  Shown(SelectLate(s, "provider"))

\* resolve() joins the lookup of the song and the plan, or starts it.
Asked(song) ==
    IF lookups[song, mp.plan] = None THEN [lookups EXCEPT ![<<song, mp.plan>>] = "pending"] ELSE lookups

\* _load_song publishes the resolving state and asks, unless the track is no song.
LoadStarts ==
    /\ mp.load # None /\ mp.load.phase = "created"
    /\ LET song == mp.load.commit.song
           obs == IF mp.latest # None /\ mp.latest.track.song = song THEN mp.latest
                  ELSE LocalObs(song)
           told == PublishResolution(Workflow, obs, "Resolving")
       IN  \/ /\ Reaches([told EXCEPT !.mp.load.phase = "waiting", !.mp.load.obs = obs])
              /\ lookups' = Asked(song)
           \/ /\ RuledOut(song)
              /\ Reaches(NothingFound([told EXCEPT !.mp.load = None], obs))
              /\ UNCHANGED lookups

\* The lookup has ended.  After an exception nothing is decided: the workflow goes on
\* resolving, with a task that is over, until the next commit or reload.
LoadEnds ==
    /\ mp.load # None /\ mp.load.phase = "decided"
    /\ LET s == [Workflow EXCEPT !.mp.load = None]
           current == mp.commit = mp.load.commit
       IN  Reaches(IF mp.load.decision = "raised" THEN [Workflow EXCEPT !.mp.load.phase = "failed"]
                   ELSE IF ~current THEN s
                   ELSE CASE mp.load.decision = "nothing" -> NothingFound(s, mp.load.obs)
                          [] mp.load.decision = "live" -> LiveFound(s, mp.load.obs)
                          [] mp.load.decision = "provider" -> ProviderFound(s))
    /\ UNCHANGED lookups
-------------------------------------------------------------------------------
(* Settings, shutdown, and the live sources.                               *)

SetLyricsSources(plan) ==
    /\ plan # mp.plan
    /\ mp.commit # None => mp.commit.gen < MaxCommits
    /\ Reaches(ForceReload([Workflow EXCEPT !.mp.plan = plan]))
    /\ UNCHANGED lookups

\* stop(): polling has ended; the load and the lookups are cancelled.
StopFollowing ==
    /\ mp.running
    /\ Reaches(ResetWorkflow([Workflow EXCEPT !.mp.running = FALSE]))
    /\ lookups' = [k \in Songs \X Plans |-> None]

StartFollowing ==
    /\ ~mp.running
    /\ mp' = [mp EXCEPT !.running = TRUE]
    /\ UNCHANGED <<own, disp, lookups>>

\* A live source publishes what it plays, and is shown if it owns the display.
LiveReports(c) ==
    /\ own.seq < MaxSequence
    /\ \E r \in Snapshots[c] :
         /\ own' = Gate!Observe(own, c, r.obs, r.doc)
         /\ disp' = IF Gate!Accepts(own', c) THEN Screen!Publish(disp, r.obs, r.doc, FALSE)
                    ELSE disp
    /\ UNCHANGED <<mp, lookups>>

LiveTicks(c) ==
    /\ own.tick < MaxTick /\ own.cands[c] # None
    /\ own' = Gate!ObserveClock(own, c, TrackRef(own.cands[c].obs.track))
    /\ UNCHANGED <<disp, mp, lookups>>

LiveGone(c) ==
    /\ own.seq < MaxSequence /\ own.cands[c] # None
    /\ own' = Gate!DropClient(own, c)
    /\ UNCHANGED <<disp, mp, lookups>>

Reconfigure ==
    /\ \E raw \in DisplaySourceLists : own' = Gate!SetDisplaySources(own, raw)
    /\ UNCHANGED <<disp, mp, lookups>>

LyricsInit ==
    /\ \E raw \in DisplaySourceLists : own = Gate!InitialOwnership(raw)
    /\ disp = Screen!Initially
    /\ \E plan \in Plans :
         mp = [running |-> TRUE, commit |-> None, stable |-> 0, owner |-> "none",
               since |-> "present", seen |-> 0, latest |-> None, load |-> None, plan |-> plan]
    /\ lookups = [k \in Songs \X Plans |-> None]

Player == \/ SettledSample \/ NoPlayer
          \/ \E song \in Settling : Commit(song)
          \/ \E song \in Passing : TransitioningSample(song)

Lookup(song, plan) == LookLive(song, plan) \/ LookupEnds(song, plan)

LyricsNext ==
    \/ Player \/ GraceExpires \/ LoadStarts \/ LoadEnds
    \/ \E song \in Songs, plan \in Plans : Lookup(song, plan)
    \/ \E plan \in Plans : SetLyricsSources(plan)
    \/ StopFollowing \/ StartFollowing \/ Reconfigure
    \/ \E c \in Connections : LiveReports(c) \/ LiveTicks(c) \/ LiveGone(c)

LyricsSpec == LyricsInit /\ [][LyricsNext]_lyricVars

LoadIsDue == mp.load # None /\ mp.load.phase \in {"created", "decided"}

\* ENABLED <<SettledSample>>_lyricVars
SampleMatters ==
    /\ mp.running /\ mp.commit # None
    /\ mp.commit.gen < MaxCommits \/ mp.owner # "live" \/ Gate!LiveActive(own)
    /\ Sampled(Workflow, LocalObs(mp.commit.song), FALSE) # Workflow

\* The event loop runs a task that is due, every lookup ends (its sources have
\* time limits), and a player that is followed is polled for ever.  This is weak
\* fairness, with the condition that enables each action written out.  Only songs
\* that were committed to are looked up.
FairSpec ==
    /\ LyricsSpec
    /\ []<>~LoadIsDue \/ []<><<LoadStarts \/ LoadEnds>>_lyricVars
    /\ []<>~SampleMatters \/ []<><<SettledSample>>_lyricVars
    /\ \A song \in Settling, plan \in Plans :
         []<>(lookups[song, plan] = None) \/ []<><<Lookup(song, plan)>>_lyricVars
-------------------------------------------------------------------------------
\* The workflow is resolving exactly while a load runs, or after one that raised,
\* and the load is for the very commit that is followed: no commit, reload, reset or stop leaves a load
\* of an earlier track behind or the workflow waiting for nobody.
LoadIsOfTheCommit ==
    /\ mp.load # None <=> mp.owner = "resolving"
    /\ mp.load # None => mp.load.commit = mp.commit

\* The lyrics there are for a song: what a provider finds, and what a live source
\* sends while it plays that song.
Reports == UNION {Snapshots[c] : c \in Connections}

LyricsOf(song) == {Lyrics(song)} \cup {r.doc : r \in {x \in Reports : Gate!CandidateSong(x) = song}}

\* Lyrics shown with a track: a live source sent the two together, or they are lyrics
\* of a song that has the title of the track.
Together(track, doc) ==
    \/ \E r \in Reports : r.obs.track = track /\ r.doc = doc
    \/ /\ track # None /\ track.song \in Songs
       /\ \E song \in Songs : Title[song] = Title[track.song] /\ doc \in LyricsOf(song)

\* Stale results cannot update the active display (docs/SPEC-lyrics.md:66), as far
\* as the binding tells tracks apart, by their titles (mpris_display.py:128): the
\* lyrics on screen go with the track on screen, through transitions, reloads and
\* shared lookups, and while the local player holds the display and its workflow
\* has lyrics they are those of the very track it is committed to.  Two tracks of
\* one title may be mixed: the lyrics of one are shown with the facts of the other.
LyricsAreOfTheTrackShown ==
    /\ disp.doc # None => Together(disp.obs.track, disp.doc)
    /\ own.mode = "external" /\ mp.owner = "external" /\ disp.doc # None
         => disp.doc = Lyrics(mp.commit.song)

\* A lookup ends for whoever waits: a load never lasts for ever, whatever happens
\* to the lookup's other users, the settings and the player meanwhile; it ends with
\* an owner of the display, unless the lookup raised.
ResolvingEnds == []<>(mp.owner # "resolving" \/ mp.load.phase = "failed")

\* A live source that offers the lyrics of the current track after nothing was
\* found, if it is in the plan and still offers them.
Offered == /\ mp.owner = "none" /\ mp.commit # None /\ mp.plan # "noLive"
           /\ Gate!CurrentMatch(own, mp.commit.song) # None

LiveLost == mp.owner = "live" /\ ~Gate!LiveActive(own) /\ mp.commit.gen < MaxCommits

\* The workflow follows its live sources: one that offers lyrics late is shown,
\* and when the one that was bound loses its lyrics or its connection the track
\* is resolved again, unless the source recovers.
LiveIsFollowed ==
    /\ Offered /\ own.seq # mp.seen ~> ~Offered
    /\ []<>~LiveLost
===============================================================================
