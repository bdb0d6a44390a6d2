------------------------------- MODULE LyricCache -------------------------------
(***************************************************************************)
(* The cache of lyrics (lyrics/cache/): one row per artifact (a provider   *)
(* and its song id), and the artifact a user chose by hand for a playback  *)
(* track.  Each operation is one SQLite transaction, so it is one operator *)
(* from the state of the database to the next; a lookup writes as well, as *)
(* it touches the row it returns and deletes the rows it cannot parse.     *)
(*                                                                         *)
(* A cache is a record: rows[a] for the artifacts stored, recent the pairs *)
(* of which the first was accessed after the second, and binds[k] the      *)
(* artifact chosen for the selection key k.                                *)
(***************************************************************************)
EXTENDS LyricMatching

CONSTANTS Songs, Tracks,
          Metadata,      \* Metadata[x], for a song and for a track
          Artifacts,     \* records [provider, song]
          MaxEntries     \* rows the cache keeps of those nobody chose

ASSUME MaxEntriesAssumption == MaxEntries \in Nat \ {0}

\* A length is a number of seconds, if it is known.
ASSUME MetadataAssumption ==
    /\ \A x \in Songs \cup Tracks : /\ {"aliases", "length"} \subseteq DOMAIN Metadata[x]
                                    /\ Metadata[x].length \in {None} \cup Nat
    /\ None \notin Artifacts /\ \A a \in Artifacts : a.song \in Songs

Modes == {"auto", "manual"}

\* valid: the payload can be parsed; current: it was written under the present
\* schema and normalizer; only: selection_only.
Rows == [mode : Modes, only : BOOLEAN, valid : BOOLEAN, current : BOOLEAN]

\* The playback identity: players alter the album while a track plays.
SelectionKey(track) ==
    LET t == Metadata[track] IN <<t.title, t.artists, t.length>>

LegacySelectionKey(track) ==
    LET t == Metadata[track] IN <<t.title, t.artists, t.album, t.length>>

SelectionKeys == {SelectionKey(t) : t \in Tracks} \cup {LegacySelectionKey(t) : t \in Tracks}
-------------------------------------------------------------------------------
Stored(c) == DOMAIN c.rows

Newer(c, a, b) == <<a, b>> \in c.recent

\* Mutant: the rows go, and what was chosen stays.
WithoutRowsOnly(c, gone) ==
    LET left == Stored(c) \ gone
    IN  [rows |-> [a \in left |-> c.rows[a]], recent |-> c.recent \cap (left \X left),
         binds |-> c.binds]

\* DELETE FROM lyrics: what was chosen goes with its row.
Without(c, gone) ==
    LET left == Stored(c) \ gone
    IN  [rows |-> [a \in left |-> c.rows[a]], recent |-> c.recent \cap (left \X left),
         binds |-> [k \in {j \in DOMAIN c.binds : c.binds[j] \notin gone} |-> c.binds[k]]]

\* UPDATE lyrics SET last_accessed: the row is newer than every other.
Touched(c, a) ==
    LET others == Stored(c) \ {a}
    IN  [c EXCEPT !.recent = (@ \cap (others \X others)) \cup {<<a, b>> : b \in others}]

\* _match_row: a row keeps one title of its song, without the aliases.
RowEvidence ==
    [pair \in Songs \X Tracks |->
        Evaluate([Metadata[pair[1]] EXCEPT !.aliases = {}], Metadata[pair[2]], FALSE)]

\* _match_sort_key and _manual_sort_key
RowKey(e) ==
    <<e.conf, Bit(e.exact), Bit(e.overlap), Bit(e.album), Nearness(e)[1], Nearness(e)[2]>>

\* The rows of a search with their keys.
Keyed(rows, track) == [a \in rows |-> RowKey(RowEvidence[a.song, track])]

\* What the keys leave open, the last access decides.
Before(c, keys, a, b) ==
    Above(keys[a], keys[b]) \/ (keys[a] = keys[b] /\ Newer(c, a, b))

\* _read_hit, over rows by their keys: those that cannot be parsed are deleted until
\* one can, which is the hit.
ReadFirst(c, keys) ==
    LET valid == {a \in DOMAIN keys : c.rows[a].valid}
        Hit(found, broken) ==
            [hit |-> found, cache |-> IF found = None THEN Without(c, broken)
                                      ELSE Touched(Without(c, broken), found)]
    IN  IF valid = {} THEN Hit(None, DOMAIN keys)
        ELSE LET hit == CHOOSE a \in valid : \A b \in valid \ {a} : Before(c, keys, a, b)
             IN  Hit(hit, {a \in DOMAIN keys \ valid : Before(c, keys, a, hit)})

\* The automatic rows of a provider that match with high confidence.
Lookup(c, provider, track) ==
    ReadFirst(c, Keyed({a \in Stored(c) : /\ a.provider = provider
                                          /\ c.rows[a].mode = "auto" /\ c.rows[a].current
                                          /\ RowEvidence[a.song, track].conf = High}, track))

\* The chosen artifact, under the present selection key before the former one.
Chosen(c, track) ==
    LET usable == {k \in {SelectionKey(track), LegacySelectionKey(track)} \cap DOMAIN c.binds :
                       c.rows[c.binds[k]].current}
    IN  IF SelectionKey(track) \in usable THEN c.binds[SelectionKey(track)]
        ELSE IF usable # {} THEN c.binds[LegacySelectionKey(track)] ELSE None

\* Rows written by hand before selections were bound to tracks.
Unbound(c, track) ==
    {a \in Stored(c) : /\ c.rows[a].mode = "manual" /\ c.rows[a].current /\ ~c.rows[a].only
                       /\ RowEvidence[a.song, track].conf > 0}

\* conf is the confidence the hit is returned with.
LookupManual(c, track) ==
    LET chosen == Chosen(c, track)
        conf(hit) == IF chosen # None THEN High
                     ELSE IF hit # None THEN RowEvidence[hit.song, track].conf ELSE 0
        Found(read) == [hit |-> read.hit, cache |-> read.cache, conf |-> conf(read.hit)]
    IN  Found(ReadFirst(c, Keyed(IF chosen # None THEN {chosen} ELSE Unbound(c, track), track)))
-------------------------------------------------------------------------------
\* Mutant: chosen rows are evicted like any other.
EvictableOfAnyKind(c) == {a \in Stored(c) : c.rows[a].mode = "auto"}

Evictable(c) == {a \in Stored(c) : c.rows[a].mode = "auto" /\ ~c.rows[a].only}

\* The least recently accessed rows beyond the limit.
Pruned(c) ==
    Without(c, {a \in Evictable(c) :
                    Cardinality({b \in Evictable(c) : Newer(c, b, a)}) >= MaxEntries})

\* INSERT ... ON CONFLICT DO UPDATE: the mark of a row that was ever chosen stays.
Written(c, a, mode, chosen) ==
    LET only == chosen \/ (a \in Stored(c) /\ c.rows[a].only)
        row == [mode |-> mode, only |-> only, valid |-> TRUE, current |-> TRUE]
        wider == [c EXCEPT !.rows = [b \in Stored(c) \cup {a} |-> IF b = a THEN row ELSE @[b]]]
    IN  Touched(wider, a)

\* store(): what was found with high confidence.
Store(c, a, conf) == IF conf = High THEN Pruned(Written(c, a, "auto", FALSE)) ELSE c

Select(c, track, a) ==
    LET chosen == Written(c, a, "manual", TRUE)
        key == SelectionKey(track)
    IN  Pruned([chosen EXCEPT !.binds =
                    [k \in DOMAIN c.binds \cup {key} |-> IF k = key THEN a ELSE @[k]]])

DeleteMany(c, gone) == Without(c, gone)

Clear(c) == Without(c, Stored(c))

\* A later version of the program reads the payload no more.
Unreadable(c, a) == [c EXCEPT !.rows[a].valid = FALSE]
-------------------------------------------------------------------------------
\* Of any two rows one was accessed later.
Ordered(c) ==
    /\ c.recent \subseteq Stored(c) \X Stored(c)
    /\ \A a, b \in Stored(c) : a = b \/ Newer(c, a, b) \/ Newer(c, b, a)
    /\ \A a \in Stored(c) : ~Newer(c, a, a)
    /\ \A a, b, d \in Stored(c) : Newer(c, a, b) /\ Newer(c, b, d) => Newer(c, a, d)

\* The tables: the rows are a finite set in order of access, and every choice names a
\* row that exists and is marked.
Tabled(c) ==
    /\ DOMAIN c = {"rows", "recent", "binds"}
    /\ Stored(c) \subseteq Artifacts /\ IsFiniteSet(Stored(c)) /\ c.rows \in [Stored(c) -> Rows]
    /\ Ordered(c)
    /\ DOMAIN c.binds \subseteq SelectionKeys
    /\ \A k \in DOMAIN c.binds : c.binds[k] \in Stored(c) /\ c.rows[c.binds[k]].only

\* The rows nobody chose are within the limit, too.
Consistent(c) == Tabled(c) /\ Cardinality(Evictable(c)) <= MaxEntries

Empty == [rows |-> [a \in {} |-> None], recent |-> {}, binds |-> [k \in {} |-> None]]

===============================================================================
