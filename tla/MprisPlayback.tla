----------------------------- MODULE MprisPlayback -----------------------------
(***************************************************************************)
(* MprisPlaybackCoordinator (providers/mpris_playback.py) with the         *)
(* selection of the player (providers/player_selection.py) and the track   *)
(* stabilizer (providers/mpris_track.py): polls the players on the session *)
(* bus one after the other, follows one, and commits to its track when it  *)
(* has settled.                                                            *)
(*                                                                         *)
(* Every read may be answered with anything or not at all: players come,   *)
(* go, hang and change between any two reads.  All that a poll records is  *)
(* stamped with the time at which it started, so ages advance between      *)
(* polls only, however long the reads of one take.  Subscriptions wake the *)
(* poll, and it may start at any time here.                                *)
(***************************************************************************)
EXTENDS Integers, Sequences

CONSTANTS None,
          Names,        \* the bus names players may have, in their order
          Reports,      \* Reports[p]: metadata of p: [title, artist, id], each None when empty
          Locks,        \* players the settings may pin, or None
          Worlds,       \* what the players may go on answering: [status, info] of each
          ShortSettle,  \* how long a track settles before it is committed
          LongSettle,   \* ... without an artist, or after a track of the same
          Margin        \* RECENT_PLAYER_MARGIN

Players == {Names[i] : i \in DOMAIN Names}

Infos == UNION {Reports[p] : p \in Players}

VARIABLES running,
          selector,     \* current player, lock, and the players playing, by age
          stab,         \* the stabilizer
          poll,         \* the poll under way
          missed,       \* an absence was noticed since the last reset
          last          \* history: the last sample delivered

vars == <<running, selector, stab, poll, missed, last>>

Empty == [title |-> None, artist |-> None, id |-> None]

Followable == {"Playing", "Paused"}

\* What a player may answer: its status (an unanswered one counts as stopped) and,
\* if it may be followed, its metadata; None when there is no answer.
AnswersOf(p) ==
    {[status |-> "Stopped", info |-> None]} \cup [status : Followable, info : Reports[p] \cup {None}]

Answers == UNION {AnswersOf(p) : p \in Players}

ASSUME TimesAssumption ==
    /\ {ShortSettle, LongSettle, Margin} \subseteq Nat /\ ShortSettle \in 1 .. LongSettle
    /\ Locks \subseteq Players \cup {None}

ASSUME NamesAssumption == Names \in Seq(Players)

ASSUME NoneAssumption == None \notin Nat /\ None \notin Players \X Infos

ASSUME WorldsAssumption ==
    Worlds \subseteq {w \in [Players -> Answers] : \A p \in Players : w[p] \in AnswersOf(p)}

NoSample == [key |-> None, transitioning |-> FALSE]

NoPoll == [phase |-> "idle", todo |-> {}, found |-> <<>>]
-------------------------------------------------------------------------------
(* The stabilizer.                                                         *)

Unsettled == [cand |-> None, age |-> 0, committed |-> None, transitioning |-> FALSE]

SameArtist(info, key) ==
    key # None /\ info.title # key[2].title /\ info.artist # None /\ info.artist = key[2].artist

Settle(info, committed) ==
    IF info.artist = None \/ SameArtist(info, committed) THEN LongSettle ELSE ShortSettle

\* Mutant: tracks are told apart by their titles only.
ObserveTitles(s, player, info) ==
    LET key == <<player, info>>
    IN  IF info.title = None /\ info.artist = None
        THEN [s EXCEPT !.cand = None, !.transitioning = (s.committed # None)]
        ELSE IF s.cand = None \/ info.title # s.cand[2].title
        THEN [s EXCEPT !.cand = key, !.age = 0, !.transitioning = (key # s.committed)]
        ELSE IF s.age < Settle(info, s.committed) THEN s
        ELSE [s EXCEPT !.committed = key, !.transitioning = FALSE]

\* TrackStabilizer.observe: a track is committed when it is the candidate for
\* long enough.
Observe(s, player, info) ==
    LET key == <<player, info>>
    IN  IF info.title = None /\ info.artist = None
        THEN [s EXCEPT !.cand = None, !.transitioning = (s.committed # None)]
        ELSE IF key # s.cand
        THEN [s EXCEPT !.cand = key, !.age = 0, !.transitioning = (key # s.committed)]
        ELSE IF s.age < Settle(info, s.committed) THEN s
        ELSE [s EXCEPT !.committed = key, !.transitioning = FALSE]
-------------------------------------------------------------------------------
(* The selection of the player.                                            *)

NoSelection(lock) == [current |-> None, lock |-> lock, since |-> [p \in Players |-> None],
                      later |-> {}]

\* A player is seen not playing, or no more.
NotPlaying(s, p) ==
    [s EXCEPT !.since[p] = None, !.later = {pair \in @ : p \notin {pair[1], pair[2]}}]

\* PlayerSelector.observe: since when a player plays.  later holds the pairs of
\* players of which the first has started more than the margin after the second.
Noticed(s, p, status) ==
    IF status # "Playing" THEN NotPlaying(s, p)
    ELSE IF s.since[p] # None THEN s
    ELSE [s EXCEPT !.since[p] = 0,
                   !.later = @ \cup {<<p, q>> : q \in {r \in Players : s.since[r] # None
                                                                       /\ s.since[r] > Margin}}]

\* PlayerSelector.forget_absent
Present(s, names) ==
    [s EXCEPT !.since = [p \in Players |-> IF p \in names THEN @[p] ELSE None],
              !.later = {pair \in @ : pair[1] \in names /\ pair[2] \in names}]

HasTrack(record) == record.info.title # None \/ record.info.artist # None

Bit(b) == IF b THEN 1 ELSE 0

\* PlayerSelector.score: performer, recency, title, continuity.
Score(s, record) ==
    8 * Bit(record.info.artist # None) + 4 * Bit(<<record.player, s.current>> \in s.later)
        + 2 * Bit(record.info.title # None) + Bit(record.player = s.current)

\* The player of the first of the records with these indices.
FirstOf(records, those) ==
    IF those = {} THEN None
    ELSE records[CHOOSE i \in those : \A j \in those : i <= j].player

\* ... of the first among those with the highest score.
Highest(s, records, those) ==
    records[CHOOSE i \in those :
                \A j \in those : /\ Score(s, records[j]) <= Score(s, records[i])
                                 /\ j < i => Score(s, records[j]) < Score(s, records[i])].player

WithStatus(records, status) == {i \in DOMAIN records : records[i].status = status}

WithTrack(records, status) == {i \in WithStatus(records, status) : HasTrack(records[i])}

OfPlayer(records, p) == {i \in DOMAIN records : records[i].player = p}

\* Mutant: the pinned player has no precedence over others that play.
ChooseWithoutLock(s, records) ==
    IF WithTrack(records, "Playing") # {}
    THEN Highest(s, records, WithTrack(records, "Playing"))
    ELSE FirstOf(records, DOMAIN records)

\* PlayerSelector.choose over the records in the order of the poll.
Choose(s, records) ==
    LET paused == WithTrack(records, "Paused")
    IN  IF OfPlayer(records, s.lock) # {} THEN s.lock
        ELSE IF WithTrack(records, "Playing") # {}
        THEN Highest(s, records, WithTrack(records, "Playing"))
        ELSE IF paused \cap OfPlayer(records, s.current) # {} THEN s.current
        ELSE IF paused # {} THEN FirstOf(records, paused)
        ELSE FirstOf(records, WithStatus(records, "Playing"))
-------------------------------------------------------------------------------
(* Polling.                                                                *)

Capped(age, e, cap) == IF age = None THEN None ELSE IF age + e < cap THEN age + e ELSE cap

\* PlayerSelector.order_to_poll: the current player is the first of those to read,
\* then the others in their order.
FirstToPoll(todo) ==
    IF selector.current \in todo THEN selector.current
    ELSE Names[CHOOSE i \in DOMAIN Names :
                   Names[i] \in todo /\ \A j \in DOMAIN Names : Names[j] \in todo => i <= j]

NobodyKeepsTrack(sel, s) == selector' = sel /\ stab' = s /\ missed' = TRUE /\ UNCHANGED last

\* Everything is forgotten but the lock.
Forgets(sel) ==
    /\ selector' = NoSelection(sel.lock) /\ stab' = Unsettled
    /\ missed' = FALSE /\ last' = NoSample

\* handle_no_player: an absence that lasts resets playback, if a track has been
\* committed.
NobodyFollowed(sel, s) ==
    IF s.committed = None THEN selector' = sel /\ stab' = s /\ UNCHANGED <<missed, last>>
    ELSE NobodyKeepsTrack(sel, s) \/ (missed /\ Forgets(sel))

\* The reads go on, or end with the selection of the player.
Continues(sel, s, todo, found) ==
    LET chosen == [sel EXCEPT !.current = Choose(sel, found)]
    IN  IF todo # {}
        THEN /\ poll' = [phase |-> "reading", todo |-> todo, found |-> found]
             /\ selector' = sel /\ stab' = s /\ UNCHANGED <<missed, last>>
        ELSE IF chosen.current = None THEN poll' = NoPoll /\ NobodyFollowed(chosen, s)
        ELSE /\ poll' = [NoPoll EXCEPT !.phase = "sampling"]
             /\ selector' = chosen /\ stab' = s /\ UNCHANGED <<missed, last>>

\* A poll starts some time after the former one started, and the bus lists the
\* players.  (When it does not, the poll ends without effect.)
PollStarts(e, names) ==
    /\ running /\ poll.phase = "idle"
    /\ LET aged == [selector EXCEPT !.since = [p \in Players |-> Capped(@[p], e, Margin + 1)]]
       IN  Continues(Present(aged, names), [stab EXCEPT !.age = Capped(@, e, LongSettle)],
                     names, <<>>)
    /\ UNCHANGED running

\* A player is asked for its status and, if it may be followed, its metadata; one
\* without an answer is passed over unless it is pinned.
ReadPlayer(answer) ==
    LET p == FirstToPoll(poll.todo)
        known == IF answer.info = None THEN Empty ELSE answer.info
        record == [player |-> p, status |-> answer.status, info |-> known]
        kept == answer.status \in Followable /\ (answer.info # None \/ p = selector.lock)
    IN  /\ poll.phase = "reading"
        /\ Continues(Noticed(selector, p, answer.status), stab, poll.todo \ {p},
                     IF kept THEN Append(poll.found, record) ELSE poll.found)
        /\ UNCHANGED running

\* The player followed is read again: its status, then its metadata before and
\* after its position, Empty when the two differ: the track is not known then.
Sample(answer) ==
    LET info == answer.info
        seen == Observe(stab, selector.current, info)
    IN  /\ poll.phase = "sampling"
        /\ poll' = NoPoll
        /\ IF answer.status \notin Followable THEN NobodyFollowed(selector, stab)
           ELSE IF info = None THEN UNCHANGED <<selector, stab, missed, last>>
           ELSE /\ stab' = seen
                /\ last' = IF info.title = None /\ info.artist = None THEN last
                           ELSE [key |-> <<selector.current, info>>,
                                 transitioning |-> seen.transitioning]
                /\ UNCHANGED <<selector, missed>>
        /\ UNCHANGED running
-------------------------------------------------------------------------------
(* Settings, start and stop.                                               *)

SetPlayerLock(lock) ==
    /\ selector' = [selector EXCEPT !.lock = lock]
    /\ UNCHANGED <<running, stab, poll, missed, last>>

Stop == running /\ running' = FALSE /\ poll' = NoPoll /\ Forgets(selector)

Start ==
    /\ ~running /\ running' = TRUE
    /\ UNCHANGED <<selector, stab, poll, missed, last>>

Init ==
    /\ running = TRUE /\ missed = FALSE /\ last = NoSample
    /\ stab = Unsettled /\ poll = NoPoll
    /\ selector = NoSelection(None)

\* The player asked answers.
Read ==
    \E p \in Players :
        \/ /\ poll.phase = "reading" /\ p = FirstToPoll(poll.todo)
           /\ \E answer \in AnswersOf(p) : ReadPlayer(answer)
        \/ /\ poll.phase = "sampling" /\ p = selector.current
           /\ \E answer \in AnswersOf(p) : Sample(answer)

Polls(elapsed) == \E e \in elapsed, names \in SUBSET Players : PollStarts(e, names)

Next ==
    \/ Polls(0 .. LongSettle) \/ Read
    \/ \E lock \in Locks : SetPlayerLock(lock)
    \/ Stop \/ Start

Spec == Init /\ [][Next]_vars

\* Every read is answered or given up, and time passes between polls.
FairSpec == Spec /\ WF_vars(Read) /\ SF_vars(Polls(1 .. LongSettle))
-------------------------------------------------------------------------------
(* Properties.                                                             *)

Keys == Players \X Infos

\* The lyric workflow hears of tracks as it expects: no commit without a sighting
\* by an earlier poll, none after another track was seen in between, none twice,
\* and no settled sample of a track that is not committed.
Promised == INSTANCE StableTrack WITH committed <- stab.committed, NoKey <- None
TracksAreStable == Promised!Spec

\* A step in which the players answer what they do in the world.
Steadily(world) ==
    \/ \E e \in 0 .. LongSettle : PollStarts(e, Players)
    \/ poll.phase = "reading" /\ ReadPlayer(world[FirstToPoll(poll.todo)])
    \/ poll.phase = "sampling" /\ Sample(world[selector.current])

\* A player that names its track beside one that names no more than the artist,
\* both playing.  When the latter started later the selection goes back and forth
\* between the two for ever, against the comment on the margin
\* (player_selection.py:16): it is the later one by its recency, and then the former
\* by its title.
Flips(world) ==
    \E p, q \in Players :
        /\ world[p].status = "Playing" /\ world[q].status = "Playing"
        /\ world[p].info.artist # None /\ world[p].info.title = None
        /\ world[q].info.artist # None /\ world[q].info.title # None

\* Playback settles unless the selection flips: whatever was before, when the players
\* go on answering the same in a world without such a pair, one of them is followed
\* and its track committed for good, the one that is pinned if it may be followed.
PlaybackSettles ==
    \A world \in {w \in Worlds : ~Flips(w)} :
        <>[]running /\ <>[][Steadily(world)]_vars =>
            \E p \in Players : <>[](/\ stab.committed = <<p, world[p].info>>
                                   /\ \/ selector.lock \in {None, p}
                                      \/ world[selector.lock].status = "Stopped")
===============================================================================
