# Kotonoha: formal models

Kotonoha is a desktop overlay that shows the lyrics of what is playing, in time
with it.  It is one asyncio event loop (under Qt) with a few worker threads.
This directory holds TLA+ models of its coordination code, the TLC
configurations that check them, and TLAPS proofs.  Paths such as
`app/source_gate.py` are relative to `src/kotonoha/`.

## The system

Three kinds of *playback source* report what plays: the local player (over
D-Bus/MPRIS), the Cider application (polled over HTTP), and *adapters*, programs
that connect over a WebSocket or post to a local port.  Each may bring lyrics.
One *owner* of the display is elected among them; the local player additionally
has its lyrics resolved by a search over providers, a cache and the live sources.

| Component | State it keeps | Operations | Hard because | Correct when |
|---|---|---|---|---|
| Source ownership (`app/source_gate.py`, `app/source_registry.py`) | mode, bound client, retained candidates with their clocks, order of the slots | observe, observe_clock, clear, drop, select_external / live / standalone, set_display_sources, accepts | called by every source and by settings, in any order | the owner is the best candidate there is; a dead or disabled client never owns; a clock belongs to the lyrics it times |
| Display (`app/display_coordinator.py`, `display/`, `clock.py`) | facts, document, manual document, clock, frame, frame loop and its wake-up event | publish, publish_resolution, tick, apply_manual, set_options, start, stop, the loop | the loop sleeps; publications arrive between its steps | a frame is never older than the facts; a manual choice ends with its track; a wake-up is never lost |
| Adapter receiver (`receiver.py`, `lyrics/protocol.py`) | sessions: client, sequence, track | snapshot, clock, drop, post, start, stop | messages duplicated and out of order; drops while owning | stale messages are ignored; a source without the display does not touch it |
| Cider provider (`providers/cider_api.py`, `providers/cider_client.py`) | last observation and document, generation, attempted track, poll task, lyric tasks | poll, lyric task, enable, language, start, stop | two tasks await while settings and tracks change; the player is asked about what it plays, which changes too | an answer is stored only for the track and language it was asked for; each track is answered |
| MPRIS lyrics (`providers/mpris_lyrics.py`, `mpris_display.py`, `mpris_resolution.py`) | commit, content owner, load task, revision decided, absence timer | commit, sample, no player, load, reload, stop | a load awaits a shared lookup; everything may change meanwhile | the display is reserved as soon as a track is committed; stale results never show; a load always ends |
| MPRIS playback (`providers/mpris_playback.py`, `mpris_track.py`, `player_selection.py`, `mpris_session.py`, `mpris_timeline.py`) | followed player, pending track and since when, position calibration | poll, property change, lock, reconnect | players come, go and report a track piecemeal | a track is committed once, after it settled |
| Lyric resolution (`lyrics/workflow.py`, `lyrics/resolver.py`, `lyrics/sources.py`, `lyrics/live_source.py`) | the newest request, lookups in flight, negative results, options | resolve, resolve_hint, settings, cancel, start, stop | lookups are shared and shielded from the cancellation of one caller; providers are asked at once and those that cannot win are dropped | the best match wins; "no lyrics" is the truth; a request ends |
| Lyric cache (`lyrics/cache/`) | SQLite rows, selections, the order of access | lookup, store, select, search, delete, clear | a lookup writes; eviction; rows of an older program | what a user chose stays; no selection names a row that is gone |
| Network providers (`lyrics/netease.py`, `kugou.py`, `lrclib.py`, `amll.py`, `qqmusic.py`) | none to speak of | search, search by hand, by id | each tries what it finds in its own order, within a budget, and treats failures its own way | what the resolver is told is what the service has |
| Matching (`lyrics/match.py`) | none | evaluate, rank | a ladder of rules on incomplete metadata | a match is of the same version; a fuzzy search only adds |
| Settings, track offsets (`app/config_service.py`, `app/track_offset_service.py`, `state/`, `config/store.py`) | current value, pending value, save task, status | edit, save, retry, flush, close | edits during a save, failing and late saves, closing, a dialog with old values, migration | what is reported saved is saved; an older value never overwrites a newer one |
| Background calls (`async_worker.py`) | one thread, its queue, closed or not | run, close | a caller gives up while its call goes on | calls run one at a time and in order; a caller never waits beyond its deadline |
| Search and cache windows (`app/lyrics_search.py`, `app/cache_management.py`, `ui/settings/lyrics_search_*.py`, `ui/settings/cache_dialog.py`) | tasks, generation, selection, filter, rows shown, confirmation | open, search, apply, list, delete, clear, close | answers after the window closed or asked again; the track changes | what is displayed is what is remembered; the manager shows the cache; no window stays busy |
| Application lifecycle (`main.py`, `app/application_controller.py`, `app/lifecycle.py`) | lock of the single instance, started components, lifecycle lock, tasks | launch, start, stop, restart, open settings | a component fails to start or stop; a replacement starts beside its predecessor | one instance runs; everything started is stopped, producers before the display they publish to |
| Window platform and overlay (`platform/`, `ui/overlay/`) | surface, output it is on or waits for, place, input region, drag, timers | activate, rebuild, move, drag, lock, resize, close; outputs that come and go | the compositor may refuse any of it; rebuilding is retried later, while everything goes on | an active overlay is shown; a place is saved only if the surface is there; closed stays closed |

Components call each other directly (there are no queues): a source calls
`ownership.observe`, asks `ownership.accepts`, and if it owns the display calls
the display coordinator.  Between two `await`s nothing else runs, so a model's
step is the code from one await to the next, through all the components it calls.

## Modules

| Module | Models | Notes |
|---|---|---|
| `PlaybackFacts` | tracks, observations, documents, track keys (`playback/`, `lyrics/models.py`) | the shared vocabulary |
| `SourceOwnership` | `SourceOwnershipCoordinator` and `LiveSourceRegistry` | every operation is an operator on a state record `own`, so that other modules can use it in a larger step; its own actions call them in any order |
| `SourceOwnershipProofs` | | the theorems about it |
| `DisplayCoordinator` | the coordinator, its timeline, media clock and frame loop | likewise operators on `disp` |
| `SharedDisplay` | the one ownership and the one display `app/composition.py` builds | the variables `own` and `disp`, extended by the next one and by `MprisLyrics` |
| `AdapterReceiver` | `AdapterReceiver` | composes the two above; the other sources are four environment actions |
| `CiderProvider` | `CiderApiProvider`, `CiderApiClient` | composes ownership and display |
| `CiderProviderProofs` | | the theorems about it |
| `MprisLyrics` | `MprisLyricsCoordinator`, `MprisDisplayBinding`, the lookups a load waits for | composes ownership and display |
| `LyricSourceProofs` | | the theorems about `AdapterReceiver`, `MprisLyrics` and the display under them |
| `StableTrack` | what the playback of the local player promises to its lyric workflow | the abstract specification `MprisPlayback` implements |
| `MprisPlayback` | `MprisPlaybackCoordinator`, `PlayerSelector`, `TrackStabilizer` | |
| `MprisPlaybackProofs` | | the theorems about it |
| `BlockingWorker` | `BlockingCallRunner` as the owner of one call sees it | extended by the two services |
| `DurableEdits` | what a service that keeps edits promises | the abstract specification both services are shown to implement |
| `TrackOffsets` | `TrackOffsetService`, its worker and its process | |
| `TrackOffsetsProofs` | | the theorems about it |
| `TrackOffsetStore` | `TrackOffsetStore`: schema, migration, the two operations | one action per durable step |
| `ConfigPersistence` | `ConfigService`, the form state of the Settings dialog, `ConfigStore` | |
| `ConfigPersistenceProofs` | | the theorems about it |
| `AppLifecycle` | instances of the program: lock, build, start, stop, restart | |
| `LyricMatching` | `evaluate_match` and the orders of evidence | operators on records of metadata |
| `LyricCache` | the storage: one operator per transaction | extends `LyricMatching`; operators on a record, used by the two modules below |
| `LyricProviders` | what each provider asks for and what it answers | extends `LyricCache`; operators only |
| `SharedCache` | the one cache `app/composition.py` builds | the variable `cache`, extended by the next two |
| `LyricResolution` | `LyricsResolutionWorkflow`, `LyricsResolver` and the sources | composes providers, cache and matching |
| `LyricLibrary` | the search window, the cache manager, the worker of the cache, what the display shows as chosen | composes providers, cache and matching; the resolver is an environment that reads and writes the cache |
| `LyricProofs` | | the theorems about matching, the cache, the two windows and the resolver |
| `OverlayPlatform` | the layer-shell and the ordinary window platform with their drag strategies | operators on the record `overlay` |
| `OverlaySurface` | `SurfaceLifecycleOwner`, the surface, position and drag controllers, `LyricsOverlay` | extends `OverlayPlatform` |
| `ApplicationProofs` | | the theorems about `AppLifecycle` and `OverlaySurface` |
| `MC...` | | the constants of an instance, nothing else |

**SourceOwnership.** `own.mode`, `own.bound`, `own.sources` are `_mode`,
`_bound_client_id`, `_display_sources`; `own.cands` and `own.clocks` are the
registry's entries, `own.seq` its revision and `own.tick` the order of clocks.
`accepts` elects before it answers, like the code.  A match is equality of songs:
the ladder of `lyrics/match.py` is in `LyricMatching`, and `LyricResolution` uses it.

**DisplayCoordinator.** `disp.obs`, `disp.doc`, `disp.res` are the input;
`disp.key` is the timeline's track key and `disp.clock` the media clock: which
track's position it was last synchronised with, and whether it runs.  The loop is
in one of three places (waiting for its event, sleeping for a frame, ended).
A position is the identity of the clock it comes from, which is what tells a
right position from a wrong one.

**AdapterReceiver.** A session is `_AdapterSession`.  A message carries a
sequence number; the model lets any number arrive at any time, so that
duplicates and reordering are cases of it.

**CiderProvider.** `cider.phase` says where the poll task is suspended.
A request is a task of `_load_lyrics`; `cancelled` is a cancellation that was
requested and not yet delivered.  `answered` records the last answer taken.
`Lyrics` is the chain of requests of one task: what Cider plays, then the track's
id if that is another or has none, then the translation.  The task reads nothing
of the provider between them, so they are one step, whose outcomes are all that
any answers can lead to (`Fetched`): what Cider plays may be any song by then.
A document whose song is None names no id, and the code takes it for the one
asked for.  A lookup by id answers for that id.

**MprisLyrics.** `mp` holds the attributes of the coordinator; `mp.load` is the
load task with the place it is suspended at; `lookups` are the resolver's tasks in
flight, shared by song and plan.  `mp.since` is `_empty_since` by age.

A lookup may be skipped, for a title or length that is no song's (`NotSongs`: the
length may meanwhile be one a live source reported), and it may raise, which ends
the load and leaves the display "resolving".

**MprisPlayback.** A step is one read of a poll, which may be answered with anything
or not at all; the listing of the players is part of the step in which the poll
starts.  `selector` is the `PlayerSelector`, with `playing_since` by age and, for
players that have played long, by order (`later`); `stab` is the `TrackStabilizer`.
What a poll records is stamped with the time it started, so ages advance there
only.  The readings of metadata before and after that of the position are one
step, `Empty` when they differ.  `missed` is `_empty_since` of the workflow, which
decides the reset after an absence; `last` is a history variable.  Subscriptions
only wake the poll, which may start at any time anyway.  The position, and the
offset a commit takes from it, are left out.

**BlockingWorker.** `call` is the awaited future, `late` the call that occupies the
thread although nobody awaits it any more.  A deadline withdraws a queued call
only; closing the worker withdraws what is queued, too.

**TrackOffsets.** An offset is the number of the edit that made it, so that "is the
entry that was written" (the code's `is`) is equality.  `pending` is
`_pending_entries`, with `since` the order of the dictionary: replacing an entry
keeps its place.  `task` is `_save_task` (not yet run, or awaiting its call).
`Quit` is `_cancel_pending` of `main.py` followed by the controller's stop;
`ProcessEnds` may come at any moment, and takes the thread along.  The drain
without an event loop is left out: production always has one.

**TrackOffsetStore.** Python's `sqlite3` opens a transaction at the first `INSERT`,
not for `ALTER` and `CREATE`: the model has one action per durable step, and
`Interrupted` between any two.  A row without a valid identity has `NoKey`.

**ConfigPersistence.** A configuration is the edit number of each field.  `fresh` tells
a pending copy from the one being written.  `form` is `_applied_config`; Apply and
Reset page both are `ApplySettings` with the fields that differ.  The file is
replaced as a whole (temporary file and rename); it may become unreadable or
corrupt at any time, which is when `DurableEdits` may lose what it has.  Values of the command line and the validation of
fields are left out, and opening the dialog is one step.

**AppLifecycle.** `StartOrder` and `StopOrder` are the two sequences of the controller;
"surface" stands for overlay and tray, "search" for the search and cache services.
A start may fail half done: the component may run or not.  A stop may fail in one of the
five ways `_stop_component` expects: the component is then `stuck`, and the rest is stopped.
Or it raises something else (`StopRaises`), which leaves the stop: after a start that did not
succeed (`aborting`) `stop` begins anew, and otherwise the process ends with the later
components running (`escaped`).  A killed instance's lock is stale at once (`QLockFile`
looks at the process).

**LyricMatching.** Metadata are records; names are normalised, and how alike two of
them are is a constant function, which stands for both measures of the code.  The
likeness of artists is 100, 50 (some shared) or 0.  A song is judged as its provider
describes it (`Seen`).  `Salvaged` and `Rescued` in `LyricProviders` are
`ranked_matches` with its readings of a noisy title; the near miss it logs is left out.

**LyricCache.** A row stands for an artifact and is valid, current or chosen (`only`);
`recent` is the order of last access, as the pairs of which the first row was
accessed after the second (`last_accessed` in the code).  A row keeps one title of its song: one that was
matched by an alias is not found again.

**LyricProviders.** A *book* is what a service has for a track, by kind of request.  A
*trouble* is one failing request, or the service being away; it is late if it is the
total timeout, which is no error of the HTTP client and passes other handlers.
LRCLIB's answer depends on which of its requests is answered first, so it is a set.
The budgets (6, 5 and 3 downloads; 10 results by hand) are `MaxFetches` and `MaxOffers`.

**LyricResolution.** `lookups` is `_inflight`, by request key; a lookup's `phase` is the
await it is at, and its policy is partly that of its key and partly the present one,
as in the code.  A request that is superseded leaves its lookup running.  `world`
chooses what the services have.  `spent.swallowed` records that a provider answered in
spite of a failed request of its own.  Its actions have names of their own (`ResolverNext`),
since `LyricProofs` is about this module and `LyricLibrary`, which share `SharedCache`.
`Artifacts` are all that may be stored; the user of the model chooses among `Selectable`.

**LyricLibrary.** `queue` is the worker of the cache with the calls of both windows and of
the resolver; a call that timed out may still be carried out.  `finder` and `manager`
are the windows with their controllers; what a window shows (rows, note, busy, picked
result, filter) are its fields.  `halfway` and `dirty` are history variables: a choice
nobody waits for, and a write the manager has not seen.

**OverlayPlatform, OverlaySurface.** `overlay` is one record: `native` is the surface in the
compositor, `state`, `active`, `pending`, `free`, `retry` those of the life-cycle owner,
`layer`, `selected`, `chosen`, `placing` those of the position controller, `region`
and `sure` the cached input region, and `soon`, `later`, `resize` the timers of the
window.  Places have one dimension.  An output is an object with a name: one that
returns is another object.  Every call into the compositor may be refused.  A panel
is as large as its surface in drags; a drag holds the pointer, so nothing else is
clicked meanwhile.  Blur, painting, labels, the window menu and a compositor that
closes the surface by itself are left out.

## What the runs check

| Run | Question | Bounds |
|---|---|---|
| `ownership` | Who owns the display after any sequence of reports, clocks, drops and settings? | two adapters and Cider, two songs, revisions to 4, two clocks |
| `adapter` | Can messages in a bad order, or a drop, corrupt the session, the candidates or a display that belongs to someone else; is what is on screen what was published, and does a manual choice end with its track? | two connections, a few sequence numbers, a manual document |
| `cider` | Do slow answers, settings and shutdown ever mix tracks or languages, and is every track that stays asked for and answered? | two tracks and a stopped player, with and without translation, two requests alive, generation to 3, revisions to 5 |
| `mpris` | Does a load ever act for another commit than the one followed; does each load end; is a late live source shown and a lost one noticed? | three songs, two of one title, of which one may be ruled out, two commits, to the first and the last, while the last two may pass without settling; two plans, two revisions of an adapter that plays the first; the display slots stay as they are |
| `mpris_playback` | Is a track committed only after an earlier poll saw it and none in between saw another; when the players go on answering the same, and none makes the selection flip, is a track committed for good? | two players, a song and a video without an artist, one player that may be pinned; the players both play, one is paused beside one without a track, or the selection flips between two |
| `offsets` | Is a correction ever forgotten, reported saved when it is not, or taken back by a late write; does a pending write end, whatever the thread does? | two keys, four edits, any number of processes |
| `config` | Does an Apply revert what changed outside the dialog; does the file ever go back, unless it is damaged? | two fields, one of them also changed at run time, three edits, damage to the file at any time |
| `lifecycle` | Does an instance without the lock ever run components, does a producer ever run without its display, is everything stopped, and does an instance that does not stay up end? | two instances, every failure of every start and stop, expected by the code or not |
| `resolution` | Does the best match win whatever the order of answers; is "no lyrics" never invented; does a manual choice survive everything automatic; does each request end? | two tracks, a live source and four providers in two worlds, in one of which a fuzzy search misses what a strict one finds, two plans, four policies, two requests, one change (setting, choice, deletion, restart), one fault, one row besides those chosen |
| `library` | Is what is displayed as chosen what is remembered, where names agree; does the manager show the cache; does a window stay busy? | a track in two albums and another with two lengths, two openings of the windows, two commands, one fault, one access by the resolver, one query per title, two results per provider of which a search lists one, one row besides those chosen |
| `overlay` | Is an active overlay on screen, with the region and at the place the program takes it to have; are only places saved that it has; is an output that waits retried, unless a rebuild raised; does closed stay closed? | two outputs, five kinds of session (layer shell or ordinary, Niri or not), heights 1 and 2 of 3, one fault, three events besides timers and frames |
| `offset_migration` | a place where the code does other than its documentation says | two keys, old rows that collide, are invalid or absent |

The bounds suffice because each hazard involves at most two tracks (an old one
and a new one), two sources that compete, and one answer that is late; counters
are only compared, and the bounds let each be passed at least once.  In `resolution`,
`library` and `overlay` one fault is enough for a property to be about it, as the
properties say what holds until a first failure or in spite of one.  Those three and
`lifecycle` may stop for good once their bounds are used up or all is closed, so they
do not check for deadlock.  A publication
that is due never fails for the bound on revisions: in `CiderProvider` each step of
the environment leaves room for what must follow it (`HasRoom`).  In the `mpris` run
the third plan, "live source last", is left out: it behaves as "first" when no
provider has lyrics and as "none" when one has, and the run has both of these.  In
each passing run every property has a mutant of a definition that breaks it.

### Fairness

*Persistence*: the event loop runs its tasks and deadlines pass (`Loop`), and a
close that can finish does.  The thread gets no fairness at all: it may hang for
ever, as the file system under it may.  `EveryWaitEnds`, of the offsets, needs no more:
a call that waits has a deadline, which belongs to the loop.  *Lifecycle*: an instance takes its next step (starting
or stopping a component returns or raises).  *Display*: the frame loop takes its step
when it is due (an asyncio timer or event that is set wakes its task).  *Cider*:
the poll task runs, a cancelled task ends and a request ends (the HTTP client
has a time limit).  *MPRIS lyrics*: a task that is ready runs, a lookup ends (its
sources have time limits; only songs that stay long enough to be committed to
(`Settling`) are looked up) and a player that is followed is polled.  In
`MprisLyrics` weak fairness is written out with the enabling condition, since
TLC's evaluation of `ENABLED` is too slow there; the condition is exactly that
the step would change something.  A property of Cider (`EveryTrackIsAnswered`) is
stated for a track and a language that change no more.  Nothing is assumed of settings, of users, of
adapters or of the player.  *Resolution*: a request and a lookup take their next step
(each await of theirs has a deadline), again with the condition written out.
*Library*: the worker and the tasks of the windows go on (`CanWork`); a hanging call
meets its deadline.  *MPRIS playback*: a read ends (`ask` gives up after a
deadline), and time passes between polls; strong fairness, for polls that follow
each other within an instant do not keep time from passing.

## Disagreements between code and documentation

One has a run in which the statement is violated:

1. `offset_migration`: an interrupted migration leaves a database that cannot be
   opened any more; the rows are still in it (`state/track_offset_store.py:149`;
   line 143 says "without losing saved corrections").

The models have these behaviours too; the properties above are stated so that
they admit them, and no run singles them out:

2. The replacement exits when the instance it replaces still holds
   the lock after 50 ms, and nothing remains (`main.py:110`;
   `app/application_controller.py:343` says "Quitting here would leave the user
   with nothing running" of what a restart must avoid).
3. A snapshot without a track but with lyrics is accepted and stops the display's
   clock task when it is projected (`display/models.py:127`; `lyrics/protocol.py:97`
   says "a malformed document is rejected as a whole").  In `AdapterReceiver` this
   is the loop in state "failed".
4. A clock message is checked against its own session's track, not against the
   track on display (`receiver.py:171`; `plugins/README.md:153`).
5. An answer that arrives after Cider was disabled is offered all the same, since
   `_poll_once` does not look at `_enabled` after its awaits
   (`providers/cider_api.py:205`; `docs/SPEC-lyrics.md:29`).
6. The absence timer is not cleared when the player returns, so two short
   absences count as one long one (`providers/mpris_lyrics.py:147`, docstring at
   line 144).
7. Enabling the MPRIS slot again does not give the display back to the track
   that plays (`app/source_gate.py:55`; `README.md:136`).
8. Quitting cancels the save tasks before their services are closed, so `close`
   waits for nothing and an edit may be lost without a report (`main.py:59`;
   `app/track_offset_service.py:99`).  The settings service is in the same
   position, and so is the Apply that precedes a restart
   (`ui/settings/dialog.py:400`).
9. The failure of an older write is reported of the latest correction, which was
   not tried (`app/track_offset_service.py:159`, docstring at line 73).
10. A file of settings that cannot be read, as opposed to parsed, is not set aside
    and the next save replaces it (`config/store.py:63`, comment at line 73).
11. A player that reports an artist but no title, started more than the margin
    after one that reports both, is preferred while it is not followed and not
    while it is, so the poll changes between them and commits to neither
    (`providers/player_selection.py:94`; the comment at line 16 gives the margin
    as what keeps the overlay from flipping).  `PlaybackSettles` excludes such worlds by
    name (`Flips`); the instance has one, in which the property fails without the exclusion.
12. A lookup that runs already is used after lyrics were chosen by hand, although it looked
    for a manual choice before there was one (`lyrics/resolver.py:129`; `README.md:138`
    says "Manual selections remain authoritative.").
13. A deadline of the cache's worker is no `LyricsCacheError`, so it ends the lookup
    (`lyrics/resolver.py:226`, `:307`) and the display stays "resolving" until the next
    commit (`providers/mpris_lyrics.py:277`).
14. A lookup that ends after the settings changed remembers its misses under the new ones
    (`lyrics/resolver.py:333`; `:427` clears them for the change).  No property says that
    it does not.
15. NetEase, Kugou and LRCLIB pass over a failed request, and what is then an empty answer is
    remembered as a miss (`lyrics/kugou.py:205`, `lyrics/resolver.py:333`); a download that
    times out ends the search although one that fails does not.
16. Cider's lyrics are lost with a translation that fails (`providers/cider_client.py:200`), and a
    failed request is not repeated while the track stays (`providers/cider_api.py:206`).
17. The search window: a choice whose window was closed is saved and not shown; a write that
    timed out is reported failed and may be made later; an automatic store of the same
    artifact takes its manual mode, though not the choice (`app/lyrics_search.py:212`).
18. Choices are displayed for tracks that match, and remembered for tracks of the same name
    (`app/display_coordinator.py:221`, `lyrics/cache/storage.py:438`).  `ShownIsRemembered` is
    about the tracks for which this is the same (`NameAgrees`); of the four tracks of the
    `library` run two are such, and it fails for the others.
19. `_fuzzy_contains` asks for any artist of the song; its docstring says all
    (`lyrics/match.py:129`, comment below it).
20. The overlay: a first activation that fails is repeated after the window was shown, when it
    can no longer become a layer surface (`layer_shell_bridge.cpp:8`), and yet counts as
    active, so that drags are saved though nothing moves.
21. `activate` records the output it had aimed at even when it served a pending rebuild on
    another (`ui/overlay/surface.py:351`).
22. After a close that failed, an output that disappears schedules the surface's rebuilding
    (`platform/surface_lifecycle.py:137`; `close` says "Stop deferred work and release the
    surface exactly once.").  The rebuilt surface is shown, and a place that waited for the
    output is saved with a margin that may be of an older content height.
23. A drag of an ordinary window is saved whether or not its last correction took effect
    (`ui/overlay/surface.py:490` says "only after its platform operation succeeds").
24. A bottom-anchored overlay that hangs off its edge is saved at the edge; a place that waits
    for a rebuild given up may be saved by a later one; a content height that changes
    meanwhile leaves the place one activation behind; a drag that loses its surface keeps
    counting as one (`ui/overlay/position.py:192`, `ui/overlay/window.py:605`).
25. The binding of the display tells tracks apart by their titles: a document that is
    published while the latest observation is of another track with the same title is shown
    with that observation (`providers/mpris_display.py:128`; `docs/SPEC-lyrics.md:66` says
    "stale results cannot update the active display").  `LyricsAreOfTheTrackShown` says what
    is left of that: lyrics and track on screen have a title in common.  Two of the three
    songs of the `mpris` run have one title.
26. `_stop_component` swallows five types of exceptions (`app/application_controller.py:196`); any
    other, as the `ValueError` that `MprisProvider.stop` raises again (`providers/mpris.py:128`),
    leaves `_stop_locked` before the later components have been stopped, although it is there for
    "preserving the rest of shutdown" (line 189) and `stop` to "release every composed resource"
    (line 147).  `EverythingIsStopped` admits this, for what comes after the component that raised.
27. A place that waits for an output is kept with its `QScreen`.  When that output is removed and
    a rebuild on another one is tried, `begin_rebuild` asks the removed object for its name
    (`ui/overlay/position.py:264`; `complete_rebind` would at line 283).  That raises, outside the
    `try` of the rebuild (`ui/overlay/surface.py:511`), so the owner stays in `REBINDING` with an
    output that waits and no retry, and the overlay stays hidden
    (`platform/surface_lifecycle.py:190` says "preserve failed intent").  A change of the
    outputs arms the retry again, and that raises in the same way.  `PendingIsRetried` names
    the state, which the `overlay` run reaches.
28. A miss is remembered without the kind of search that missed (`lyrics/resolver.py:333`).  A
    fuzzy search finds more, may use up its downloads on loose finds without lyrics, and so miss
    what a strict one finds; a strict search then believes the miss, and the other way about.
    `NothingMeansNothing` says only that one of the two searches has nothing.  One world of the
    `resolution` run is such a case, in which it would be false of strict searches.

## What is proved

`SourceOwnershipProofs` proves the type invariant, all the properties of the
`ownership` run, and that the display is reserved for the local player only while
its slot is enabled (`ExternalNeedsMpris`), for every set of clients, snapshots, songs, slots and settings,
and without the bounds of TLC.  Assumptions: the snapshots are observations and
documents of the declared sets, and the settings are lists of slots.

The owner being best is not inductive by itself: whether a candidate is the best
depends on the enabled slots, the retained candidates and their revisions, so the
inductive invariant `IInv` adds that revisions identify candidates (no two
candidates share one, none exceeds the counter) and that a bound client is
retained and enabled.  The argument then is one lemma per operator (`Observe`,
`ObserveClock`, `ClearClient`, `DropClient`, the three selections, the settings):
each leaves a state satisfying the invariant's parts, because each that can change
the order ends with an election.  The theorem `RevisionAlwaysMarksChange` is an
action property that follows from the type invariant alone.

`TrackOffsetsProofs` proves the type invariant, `NothingForgotten`, `SavedWhenIdle`
and that the service implements `DurableEdits`, for every set of keys and every
bound on edits (`MaxEditsAssumption` says that it is a natural number).  None of
them is inductive.  The refinement needs that a write, whenever it ends, is not
older than what the database has; so the invariant adds `CallInv` (the awaited
entry is still pending, perhaps in a newer version, and nothing newer is in the
database), `LateInv` (the same of a call that was given up, and that the awaited
one has not started beside it: this is what the one-thread worker is for),
`OrderInv` (row <= last edit <= number of edits), `StatusInv` (idle only with
nothing pending, a task only while pending) and `DownInv` (without a process,
nothing in memory).  One lemma per action shows that it keeps the invariant; a
second group that it is a step of `DurableEdits` or a stutter.

`LyricProofs` is about lyrics.  Of the rules that decide a match it proves, for every
song, track and measure of likeness: no match crosses a version marker or disjoint artists; a fuzzy
search finds what a strict one finds, with the same confidence; what only it finds is
never sure; and without an artist to compare, a sure match has the track's album.

Of the cache and the windows over it, it proves `CacheIsConsistent`, `ManagerShowsTheCache`
and `ShownIsRemembered` of the `library` run, and the action property `ChoicesOutlive`: no
eviction, lookup or store takes what was chosen for a track; only a call of the user's
does, or the deletion of a row that cannot be parsed.  This holds for any artifacts,
tracks, providers and queries, and without the bounds of TLC.  First come lemmas about
the transactions: each takes tables that are in order (`Tabled`) to such tables, and says
which rows and choices remain.  That the rows left after an eviction are within the limit
is a fact about finite orders: those with fewer than `n` members before them are `n` at
most (`FewAreEarly`).  That a lookup has a best row at all needs that the sort keys
and the last access together order the rows (`FirstRowExists`).

Then the windows.  `ManagerShowsTheCache` is not inductive: the rows shown come from a
call queued long before.  The invariant `LibraryInv` is the conjunction of `Consistent`;
`FinderIsRight` (one call at a time, and busy meanwhile); `ManagerIsRight` (a call belongs
to the window that made it, but for a clear from the settings; a query never goes with a
command, nor a deletion with a clear of the same window); `QueueIsRight` (every task waits
for one job at most, and the job is the one it asked for); and `AnswersAreRight` (rows that
were answered and not shown yet are the cache's, or others have written since).  One
lemma per action shows that it keeps all of them; those of the cache's thread share
`ToldIsRight` (whoever awaits a job is told, and nobody else) and `AnswersStayRight`.
Assumptions: `LibraryAssumption` (a session begins with a consistent cache; queries are sets
of artifacts), `MetadataAssumption` (a song has aliases and a length, which is a number or
unknown) and `NoneAssumption` (`None` is nothing else).  TLC has checked `LibraryInv` and
`ChoicesOutlive` on the instance of the `library` run.

`ShownIsRemembered` relates the display to the cache, which never speak to each other: the
window saves a choice, learns of it, and then asks the display to show it.  `ChoicesAgree`
follows a choice along that way.  What is displayed was chosen for a track of the name that
plays, which an open window is for (`WindowAgrees`); the call and its job are for the track
of the window (`CallsAgree`); and the cache holds what is displayed, and what was written
and is about to be displayed, in a row that lookups take (`RowsAgree`).  Stores, evictions and
lookups hold on to it (`StoreHoldsOn`, `ReadHoldsOn`); a choice that times out or whose
window closes is written while nobody follows, which is what `halfway` records.  The theorem
has no hypothesis.  What it says of the track that plays needs that a choice is displayed for
it just when it is remembered under its name (`NameAgrees`); the property asks that of this
track alone, as the code does not ensure it (disagreement 18).  So `WindowAgrees` and what
`RowsAgree` says of the display are about such tracks, and what is written is followed for all.

The last part is about the resolver, and proves `BestAnswerWins`, `NothingMeansNothing` and
`SelectionsSurvive` of the `resolution` run, for any providers, plans, policies, hints and
tracks, without the bounds on requests, changes and faults.  The first two are about
the moment a lookup ends, and what they say was lost or won earlier, so the
invariant `ResolverInv` follows a lookup through its phases (`TaskIsRight`).  While answers are
out, whoever was asked and is not awaited any more, or was not asked at all, may have
nothing better than the best so far (`Beaten`).  While nothing was found and nobody failed, each
provider that is not awaited has nothing; in sequential mode, each one passed has nothing.
Both rest on `MissesAreRight`: whoever is remembered as having missed has nothing for a
search of the track, strict or fuzzy (`MayMiss`).  Since a
failure that a provider hides makes a false miss, all of this holds until one does
(`spent.swallowed`), as the properties do; the misses outlive the lookup, so the
invariant cannot be of one lookup alone.

That whom nobody awaits could not win is arithmetic of scores: the ceiling of a provider
(`CouldBeat`) is compared with the score of the best, and its answer counts no more than
the ceiling (`CannotWin`).  A batch of answers may hold several finds; the best of them is
the best of a finite set of scores (`BestOfBatch`), and they are stored by a recursive
function over the plan.  That this keeps the cache's tables and all choices is shown by the
first position at which it would not (`KeptInTurnIsKept`, by the least number, as elsewhere).  Reads are the
library's lemmas again.  Then one lemma per step of a lookup and of a request.

`ResolverAssumption` says what the constants are: what may be stored covers what a provider
may find, plans have fewer than ten slots (`Score` packs the
triple the code compares into one number; the program has six), and a session begins with a
consistent cache of rows that parse.  `AnswersAssumption` says of the providers that
they answer, with a song, nothing or an error; what a fuzzy search finds is not assumed to
have anything to do with what a strict one finds, which is why `NothingMeansNothing` says no
more than that one of them has nothing (disagreement 28).  TLC evaluates both assumptions in the
`resolution` run.

`ConfigPersistenceProofs` proves the same of the settings: types, that what waits to be
saved is the current configuration (`NewestWaits`), that an idle service has it in the
file unless the file was damaged (`IdleIsSaved`), and that the service implements
`DurableEdits`, for every set of fields
and every bound on edits (`ConfigAssumption`: a number; the fields a program may change by itself
are among them).  The argument is that of the offsets: the refinement needs
that no write under way is older than the file (`CallInv`, `LateInv`, with `OrderInv` for
the order of edits).  Damage to the file is where the abstract specification may lose
an edit, so the map of steps sends it there and nothing else.

`ApplicationProofs` has three parts.  The first proves the three safety properties of the
`lifecycle` run for any number of instances (`InstancesAssumption`).  Its invariant says who holds the lock
(`LockInv`) and, per instance, which components run at each place of the two orders
(`Sound`): while it stops, what comes before the next component is stopped or stuck, and after
a stop that was left by an exception (`escaped`) what comes before the one that raised.  A
step moves one instance, so its lemmas are about one `Sound`.  That
the producers stop before the display is a fact about the two sequences
(`StartOrderFacts`, `StopOrderFacts`), stated once.

The second part is about the window, and proves `ActiveIsShown`, `RegionIsKnown`,
`ClosedStaysClosed` and `PendingIsRetried` of the `overlay` run, for any outputs, sessions,
settings, heights and margins, for every adapter, and without bounds on the events or on the
calls of the window system that fail.  Assumptions: `OutputsAssumption` (the toolkit lists
outputs, and what stands for no output or a removed one is none) and `ConfigsAssumption`
(settings hold what is read of them, and a margin is a number).  None of the four is inductive: that an active surface is shown depends on
whether the release hid it, whether it was rebuilt as a layer surface, whether it was recreated by
an adapter that asked for its handle, and on a retry that is armed or not, in the middle of an
event.  So the invariant `SurfaceInv` comes in two groups.  `Base` also holds while an event is
handled: `Whole` (the fields are there; the lock shown is the lock wanted; a cached region is the
compositor's while the surface is active), `Closed` (owner, adapter and window agree on what is
closed), `Hides` (a released surface is not shown), `Waits` (only a layer surface
waits for an output, and only for one that is connected) and `Unbegun` (before the start
nothing is shown).  `Shown` holds between events: what waits has its retry, or a rebuild raised
since a place waits for an output that is gone (`Waiting`); what is active is shown
on its output, and what was degraded without an output to wait for is an ordinary window.

Most of the code a handler runs touches neither the surface's life nor its output: placing,
dragging, blurring, resizing.  `Calm` says so of a call, it is transitive, and it
keeps the invariant; the lemmas about such calls are the bulk of the module.  What is left
is one lemma for each step of the life (`FreeForRebind`, promotion, `CompleteRebind`,
`Rebind`, the outputs that go and come, close) and one for each event, in the order the
handler calls them.  TLC has checked `SurfaceInv` on the instance of the `overlay` run.

The third part is about the place, and proves `PlaceIsKnown` and `OnlyShownPlacesAreSaved`
with the arithmetic that `Calm` leaves out, for any height of the screen, strip, heights, margins, bounds and
order of events.  It further assumes that heights and margins are numbers and that there is a height
(`PixelsAssumption`), that the bounds are (`BoundsAssumption`) and that the strip fits on the screen
(`SpaceAssumption`).  `Firm` holds whatever fails: numbers are numbers, only a window that is
shown holds the pointer, and no surface is taken to be on an output that was removed.  `Tidy`
holds while nothing failed: no close is half done (`closing`), a stroke reckons from the
place the controller knows (`DragsFrom`), and the surface is at that place (`InPlace`).  `InPlace` is
not inductive without the other two, because a stroke moves the surface from the place
it began at, and because a half-closed overlay has no activation to come that would
place it.  `Proper(o, p)` says of a call what it does to the place: it keeps `Firm`, keeps `Tidy` if
nothing failed, and if it saves then the surface is shown, on the output that is saved, and
at the margin that is saved (`SavedWell`).  There is one lemma for each event (`BeginIsProper` to `ShutdownIsTidy`), which rest on
what each operator does to the place (`MoveDoes`, `GeometryDoes`, `ConfigDoes`, `SaveDoes`, `CommitDoes`)
and on one fact of arithmetic: the margin that is saved for a place gives that place back, but for
the part that hangs off the lower edge (`SavedPlace`).  The invariant is `PlaceInv`, which adds
these to `SurfaceInv` and ties `Tidy` to the count of failures; TLC has checked it on the
instance of the `overlay` run.  Of the three timers that place the surface again only the first
excuses `PlaceIsKnown`: a retry of the activation or a resize that is due does not mean that the place is not known.
`OnlyShownPlacesAreSaved` sets apart the margin of an overlay whose close failed (item 22 above):
no activation is due that would place it, and the content may have changed since the drag.  That takes
two failures, one more than the run allows; TLC finds such a behaviour with `MaxFaults = 2` and
`MaxEvents = 4`; the theorem holds for every value of both.

`LyricSourceProofs` has two parts.  The first proves all the invariants and action properties of the
`adapter` run for any finite set of connections and any messages (`ReceiverAssumption`:
what they carry is of the declared sets).  The display comes first: each of its
methods keeps `ScreenOK` (the frame is of the facts unless the loop is about to draw
it, a manual document is of the track observed, and the wake-up event is set when a
frame is due), whoever calls it and in whatever state of the gate; so this
holds for every other source too.  Then the receiver: each message leaves a session
that agrees with its candidate (`Matched`) and touches nobody else's
(`OnlyTouches`).  A stop drops the sessions one by one, through a recursive function;
that it keeps the invariant is shown by the least session for which it would not.

The second part proves both invariants of the `mpris` run, for any songs, plans, live
sources and lookups, and whatever the bound on commits.  `LoadIsOfTheCommit` is
inductive with the types (`WorkflowInv`: a load that waits has its observation, one that
has been decided has a decision), since every handler that touches the owner
touches the load in the same step.  `LyricsAreOfTheTrackShown` is not inductive at all:
a load that ends shows its lyrics through whatever the gate then is, and the gate has
been in the hands of the adapters meanwhile.  The invariant (`Fits`) has three parts.
`GateOK`: what a candidate offers was sent by its source, candidates are
numbered apart, so that one of those that match comes first (`OneIsFirst`) and the
live source found for a song has lyrics it sent with that song (`MatchIsOfTheSong`).  `DisplayOK`: the
document on the display was sent with the track on it, or is of a song with its title (`Together`).
`Claimed`: a workflow that resolves or shows
lyrics of its own has the display reserved, unless the slot of the local player is disabled, and
a document on a reserved display is of the commit.  So the lyrics a load brings meet
either the track they were looked up for, or a display that will not take them, or one
they are published to with their own track.  One lemma per handler keeps the
three, then one per step.

One hypothesis is part of that theorem: the list of display sources stays as it is.  When the
slot of the local player is enabled again the display is not reserved again, which is
disagreement 7.  Nothing is assumed of the live sources: the protocol lets a document name a
title of its own (`lyrics/protocol.py:212`), so what the theorem says of their lyrics is that
they were sent with the track, or with a song of its title.
`LyricsAssumption` says that what stands for nothing is no commit, load, observation or
document, and that a report carries what an observation has.  TLC has checked both
invariants, and the assumption, on the instance of the `mpris` run.

`MprisPlaybackProofs` proves that the playback of the local player implements
`StableTrack` (`TracksAreStable`), for any players, names and answers.  The invariant
adds to the types only that a track the stabilizer waits for was seen
(`CandidateWasSeen`); one lemma per step shows that it maps to a step of `StableTrack`
or to none.  That the selector's choice is a player there is, or nobody, needs that a
finite set of scores has a greatest one: it is taken by a least number, since induction
is not at hand.  `NamesAssumption` and `NoneAssumption` say what the constants are.

`CiderProviderProofs` proves `LyricsAreOfTheTrack` for any tracks, answers, languages and
number of tasks.  What is offered is right because what is held is (`DocumentInv`) and
the gate holds nothing older (`Offers`); what is held is right because a task of the present
generation was asked in the present language (`RequestsInv`: every change of language
and every track change starts a generation), is dropped unless its track is
still observed, and asks for lyrics that are of its track or do not say whose they are
(`FetchedIsOfTheTrack`, from `AsksById`).  A poll that waits for its tasks goes on
with what it fetched (`TypeOK`), and the observation it replaced may be of an
equal track, so `ItemsAssumption` is needed: one id, one song, as in Cider's catalogue.

Not proved: liveness and fairness, which are outside the prover's reach.  `OnlyUpRemains` of
the lifecycle and the other liveness properties are model-checked only.

## Not modelled

* Text: parsing of lyric formats and protocols, normalisation and grammars of titles,
  layout and painting.  They are functions without shared state.
* The HTTP client, and the renewal of the AMLL catalog.
* The position calibration of the local player, its detector of cumulative lengths, and the
  list of players for the settings.
* Operations of the cache nobody calls (`update`, `get`, `delete`, `count`, `upsert` by hand).
* Widgets of the settings window, strings, icons.
* Time is ages and order, never seconds.

## Plan

Done: ownership, receiver with display, Cider, MPRIS playback and lyrics, persistence,
lifecycle, matching, cache and dialogs, overlay, with proofs; providers, resolution.

Left, in this order:

1. A composition of all sources over one ownership and one display.
2. The position calibration of the local player.
