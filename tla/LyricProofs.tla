------------------------------ MODULE LyricProofs ------------------------------
(***************************************************************************)
(* Proofs about the matching of songs, the cache of lyrics, the windows    *)
(* over it and the resolver before it: what a match guarantees, for any    *)
(* song and any track; that no sequence of searches, choices, deletions,   *)
(* evictions and failures breaks the schema of the database; that the      *)
(* manager shows what is in it; and that the resolver answers with the     *)
(* best that was found, and with nothing only if nothing was there.        *)
(***************************************************************************)
EXTENDS LyricLibrary, LyricResolution, FiniteSetTheorems, SequenceTheorems, NaturalsInduction,
        WellFoundedInduction, TLAPS

-------------------------------------------------------------------------------
(* What the ladder of rules guarantees of every song and every track.      *)

\* The degrees of confidence are three.
LEMMA Degrees == High # NoMatch /\ High # Medium
BY DEF High, Medium, NoMatch

\* A match never crosses a version: a live take is no match for the studio
\* recording, however alike everything else is, and neither is a song all of whose
\* artists are others (_is_compatible and the artist gate of evaluate_match).
THEOREM MatchesAreCompatible ==
    ASSUME NEW c, NEW t, NEW fuzzy \in BOOLEAN, Evaluate(c, t, fuzzy).conf # NoMatch
    PROVE  t.versions = c.versions /\ (t.artists = {} \/ c.artists = {} \/ c.artists \cap t.artists # {})
<1>1. Sure(c, t) \/ Likely(c, t, fuzzy)  BY DEF Evaluate
<1>2. Compatible(c, t)  BY <1>1 DEF Sure, Likely
<1> QED  BY <1>2 DEF Compatible, Overlap

\* A fuzzy search only adds matches: what was found without it is found with it,
\* and as sure (the fuzzy flag of evaluate_match).
THEOREM FuzzyOnlyAdds ==
    ASSUME NEW c, NEW t, Evaluate(c, t, FALSE).conf # NoMatch
    PROVE  Evaluate(c, t, TRUE).conf = Evaluate(c, t, FALSE).conf
<1>1. Sure(c, t) \/ Likely(c, t, FALSE)  BY DEF Evaluate
<1>2. Likely(c, t, FALSE) => Likely(c, t, TRUE)  BY DEF Likely
<1> QED  BY <1>1, <1>2 DEF Evaluate

\* What a fuzzy search adds is never sure, so the cache never keeps it of its own
\* accord and never prefers it (LyricsCache.store).
THEOREM FuzzyIsNeverSure ==
    ASSUME NEW c, NEW t, Evaluate(c, t, FALSE).conf = NoMatch
    PROVE  Evaluate(c, t, TRUE).conf # High
<1>1. Sure(c, t) => Evaluate(c, t, FALSE).conf = High  BY DEF Evaluate
<1>2. ~Sure(c, t)  BY <1>1, Degrees
<1>3. Evaluate(c, t, TRUE).conf \in {Medium, NoMatch}  BY <1>2 DEF Evaluate
<1> QED  BY <1>3, Degrees

\* A title that is only like the track's is never sure on its length alone when the
\* track names no artist (the corroboration of evaluate_match).
THEOREM SureNeedsMore ==
    ASSUME NEW c, NEW t, Evaluate(c, t, FALSE).conf = High, t.artists = {}
    PROVE  SameAlbum(c, t) /\ Strong(c, t)
<1>1. Sure(c, t)
  <2>1. SUFFICES ASSUME ~Sure(c, t) PROVE FALSE  OBVIOUS
  <2>2. Evaluate(c, t, FALSE).conf \in {Medium, NoMatch}  BY <2>1 DEF Evaluate
  <2> QED  BY <2>2, Degrees
<1>2. ~SameArtists(c, t)  BY DEF SameArtists
<1>3. Strong(c, t) /\ Supported(c, t)  BY <1>1, <1>2 DEF Sure
<1>4. c.artists \cap t.artists = {}  OBVIOUS
<1> QED  BY <1>3, <1>4 DEF Supported

-------------------------------------------------------------------------------
(* Orders of finite sets.                                                  *)

\* A strict total order of S, as a set of pairs.
OrderOn(R, S) ==
    /\ R \subseteq S \X S
    /\ \A a, b \in S : a = b \/ <<a, b>> \in R \/ <<b, a>> \in R
    /\ \A a \in S : <<a, a>> \notin R
    /\ \A a, b, d \in S : <<a, b>> \in R /\ <<b, d>> \in R => <<a, d>> \in R

\* Of some numbers one is the least.
LEMMA LeastNatural ==
    ASSUME NEW S \in SUBSET Nat, S # {}
    PROVE  \E m \in S : \A n \in S : m <= n
<1>1. PICK m \in S : \A n \in S : ~ (<<n, m>> \in OpToRel(<, Nat))
  BY NatLessThanWellFounded, WFMin
<1>2. \A n \in S : ~ (n < m)
  BY <1>1 DEF OpToRel
<1>3. QED BY <1>2

\* A part of an ordered set is ordered.
LEMMA PartIsOrdered ==
    ASSUME NEW R, NEW S, OrderOn(R, S), NEW T \in SUBSET S
    PROVE  OrderOn(R \cap (T \X T), T)
BY DEF OrderOn

\* A finite set has a last member in its order: it has more members before it than
\* any other.
LEMMA LastExists ==
    ASSUME NEW R, NEW S, OrderOn(R, S), IsFiniteSet(S), S # {}
    PROVE  \E m \in S : \A a \in S \ {m} : <<a, m>> \in R
<1> DEFINE Earlier(a) == {b \in S : <<b, a>> \in R}
           Lack(a) == Cardinality(S) - Cardinality(Earlier(a))
           Lacks == {Lack(a) : a \in S}
<1>1. ASSUME NEW a \in S
      PROVE  /\ IsFiniteSet(Earlier(a)) /\ Cardinality(Earlier(a)) \in Nat
             /\ Cardinality(Earlier(a)) <= Cardinality(S) /\ Lack(a) \in Nat
  <2>1. Earlier(a) \in SUBSET S
    OBVIOUS
  <2>2. IsFiniteSet(Earlier(a)) /\ Cardinality(Earlier(a)) <= Cardinality(S)
    BY <2>1, FS_Subset
  <2>3. Cardinality(S) \in Nat /\ Cardinality(Earlier(a)) \in Nat
    BY <2>2, FS_CardinalityType
  <2>4. QED BY <2>2, <2>3
<1>2. Lacks \in SUBSET Nat /\ Lacks # {}
  BY <1>1
<1>3. PICK n \in Lacks : \A k \in Lacks : n <= k
  BY <1>2, LeastNatural
<1>4. PICK m \in S : n = Lack(m)
  BY <1>3
<1>5. ASSUME NEW a \in S \ {m}, <<a, m>> \notin R
      PROVE  FALSE
  <2>1. <<m, a>> \in R
    BY <1>5 DEF OrderOn
  <2>2. m \notin Earlier(m) /\ Earlier(m) \cup {m} \subseteq Earlier(a)
    BY <2>1 DEF OrderOn
  <2> HIDE DEF Earlier
  <2>3. Cardinality(Earlier(m) \cup {m}) = Cardinality(Earlier(m)) + 1
    BY <1>1, <2>2, FS_AddElement
  <2>4. Cardinality(Earlier(m) \cup {m}) <= Cardinality(Earlier(a))
    BY <1>1, <2>2, FS_Subset
  <2>5. Lack(m) <= Lack(a)
    BY <1>3, <1>4
  <2>6. Cardinality(S) \in Nat
    BY FS_CardinalityType
  <2>7. QED BY <1>1, <2>3, <2>4, <2>5, <2>6
<1>6. QED BY <1>5

\* Those with fewer than n members before them are n at most.
LEMMA FewAreEarly ==
    ASSUME NEW R, NEW S, OrderOn(R, S), IsFiniteSet(S), NEW n \in Nat \ {0},
           NEW early \in SUBSET S, \A a \in early : Cardinality({b \in S : <<b, a>> \in R}) < n
    PROVE  Cardinality(early) <= n
<1>1. IsFiniteSet(early)
  BY FS_Subset
<1>2. CASE early = {}
  BY <1>2, FS_EmptySet
<1>3. CASE early # {}
  <2>1. OrderOn(R \cap (early \X early), early)
    BY PartIsOrdered
  <2>2. PICK m \in early : \A a \in early \ {m} : <<a, m>> \in R \cap (early \X early)
    BY <1>1, <1>3, <2>1, LastExists
  <2> DEFINE earlier == {b \in S : <<b, m>> \in R}
  <2>3. early \ {m} \subseteq earlier
    BY <2>2
  <2>4. IsFiniteSet(earlier) /\ Cardinality(earlier) < n
    BY FS_Subset
  <2> HIDE DEF earlier
  <2>5. Cardinality(early \ {m}) <= Cardinality(earlier)
    BY <2>3, <2>4, FS_Subset
  <2>6. Cardinality(early \ {m}) = Cardinality(early) - 1
    BY <1>1, FS_RemoveElement
  <2>7. Cardinality(early) \in Nat /\ Cardinality(earlier) \in Nat
    BY <1>1, <2>4, FS_CardinalityType
  <2>8. QED BY <2>4, <2>5, <2>6, <2>7
<1>4. QED BY <1>2, <1>3

\* A member that is put in front of the others, or added there.
LEMMA InFrontIsOrdered ==
    ASSUME NEW R, NEW S, OrderOn(R, S), NEW a
    PROVE  LET others == S \ {a}
           IN  OrderOn((R \cap (others \X others)) \cup {<<a, b>> : b \in others}, S \cup {a})
<1> DEFINE others == S \ {a}
           Q == (R \cap (others \X others)) \cup {<<a, b>> : b \in others}
<1>1. \A x, y : <<x, y>> \in Q <=> \/ x = a /\ y \in others
                                   \/ x \in others /\ y \in others /\ <<x, y>> \in R
  OBVIOUS
<1>2. Q \subseteq (S \cup {a}) \X (S \cup {a})
  OBVIOUS
<1> HIDE DEF Q
<1>3. \A x, y \in S \cup {a} : x = y \/ <<x, y>> \in Q \/ <<y, x>> \in Q
  BY <1>1 DEF OrderOn
<1>4. \A x \in S \cup {a} : <<x, x>> \notin Q
  BY <1>1 DEF OrderOn
<1>5. \A x, y, z \in S \cup {a} : <<x, y>> \in Q /\ <<y, z>> \in Q => <<x, z>> \in Q
  BY <1>1 DEF OrderOn
<1>6. QED BY <1>2, <1>3, <1>4, <1>5 DEF OrderOn, Q

-------------------------------------------------------------------------------
(* The order of evidence.                                                  *)

\* The keys rows are sorted by.
Keys == [1 .. 6 -> Int]

\* Of two keys that differ, the first difference decides.
LEMMA AboveIsTotal ==
    ASSUME NEW k \in Keys, NEW l \in Keys, k # l
    PROVE  Above(k, l) \/ Above(l, k)
<1> DEFINE differ == {i \in 1 .. 6 : k[i] # l[i]}
<1>1. differ # {} /\ differ \in SUBSET Nat
  BY DEF Keys
<1>2. PICK m \in differ : \A i \in differ : m <= i
  BY <1>1, LeastNatural
<1>3. \A j \in 1 .. (m - 1) : k[j] = l[j]
  BY <1>2
<1>4. DOMAIN k = 1 .. 6 /\ DOMAIN l = 1 .. 6 /\ k[m] \in Int /\ l[m] \in Int
  BY DEF Keys
<1>5. QED BY <1>2, <1>3, <1>4 DEF Above

\* No key is above itself.
LEMMA AboveIsStrict ==
    ASSUME NEW k \in Keys
    PROVE  ~Above(k, k)
BY DEF Above, Keys

\* What is above a key is above those under it.
LEMMA AboveIsTransitive ==
    ASSUME NEW k \in Keys, NEW l \in Keys, NEW m \in Keys, Above(k, l), Above(l, m)
    PROVE  Above(k, m)
<1>1. PICK i \in 1 .. 6 : k[i] > l[i] /\ \A n \in 1 .. (i - 1) : k[n] = l[n]
  BY DEF Above, Keys
<1>2. PICK j \in 1 .. 6 : l[j] > m[j] /\ \A n \in 1 .. (j - 1) : l[n] = m[n]
  BY DEF Above, Keys
<1>3. \A n \in 1 .. 6 : k[n] \in Int /\ l[n] \in Int /\ m[n] \in Int
  BY DEF Keys
<1> DEFINE first == IF i < j THEN i ELSE j
<1>4. first \in 1 .. 6 /\ first <= i /\ first <= j
  OBVIOUS
<1>5. k[first] > m[first]
  <2>1. CASE i < j
    BY <1>1, <1>2, <1>3, <2>1
  <2>2. CASE j < i
    BY <1>1, <1>2, <1>3, <2>2
  <2>3. CASE i = j
    BY <1>1, <1>2, <1>3, <2>3
  <2>4. QED BY <2>1, <2>2, <2>3
<1>6. \A n \in 1 .. (first - 1) : k[n] = m[n]
  BY <1>1, <1>2, <1>4
<1>7. QED BY <1>4, <1>5, <1>6 DEF Above, Keys

\* Every row matches a track to some degree, and has a key.
LEMMA RowsHaveKeys ==
    ASSUME NEW song \in Songs, NEW track \in Tracks
    PROVE  RowKey(RowEvidence[song, track]) \in Keys
<1> DEFINE c == [Metadata[song] EXCEPT !.aliases = {}]
           t == Metadata[track]
           e == Evaluate(c, t, FALSE)
<1>1. RowEvidence[song, track] = e
  <2>1. RowEvidence[<<song, track>>] = e
    BY DEF RowEvidence
  <2>2. QED BY <2>1
<1>2. c.length \in {None} \cup Nat /\ t.length \in {None} \cup Nat
  BY MetadataAssumption
<1> HIDE DEF c, t
<1>3. Gap(c, t) = None \/ Gap(c, t) \in Int
  BY <1>2 DEF Gap
<1>4. e.gap = Gap(c, t) /\ e.conf \in {0, 1, 2}
  BY DEF Evaluate, High, Medium, NoMatch
<1> HIDE DEF e
<1>5. Nearness(e)[1] \in Int /\ Nearness(e)[2] \in Int
  BY <1>3, <1>4 DEF Nearness
<1>6. \A b : Bit(b) \in Int
  BY DEF Bit
<1>7. \A x1, x2, x3, x4, x5, x6 \in Int : <<x1, x2, x3, x4, x5, x6>> \in Keys
  BY DEF Keys
<1>8. e.conf \in Int
  BY <1>4
<1>9. RowKey(e) \in Keys
  BY <1>5, <1>6, <1>7, <1>8 DEF RowKey
<1>10. QED BY <1>1, <1>9

-------------------------------------------------------------------------------
(* The transactions.                                                       *)

\* The rows of a cache are in order of access.
LEMMA OrderOfRows ==
    ASSUME NEW c
    PROVE  Ordered(c) <=> OrderOn(c.recent, Stored(c))
BY DEF Ordered, OrderOn, Newer

\* What can be evicted is some of the rows.
LEMMA EvictableIsFinite ==
    ASSUME NEW c, Tabled(c)
    PROVE  IsFiniteSet(Evictable(c)) /\ Cardinality(Evictable(c)) \in Nat
<1>1. Evictable(c) \in SUBSET Stored(c)
  BY DEF Evictable
<1>2. QED BY <1>1, FS_Subset, FS_CardinalityType DEF Tabled

\* A cache that keeps its tables, and has no more rows to evict, stays within the limit.
LEMMA NoMoreRows ==
    ASSUME NEW c, Consistent(c), NEW d, Tabled(d), Evictable(d) \subseteq Evictable(c)
    PROVE  Consistent(d)
<1>1. IsFiniteSet(Evictable(c)) /\ Cardinality(Evictable(c)) \in Nat
  BY EvictableIsFinite DEF Consistent
<1>2. Cardinality(Evictable(d)) <= Cardinality(Evictable(c)) /\ Cardinality(Evictable(d)) \in Nat
  BY <1>1, FS_Subset, EvictableIsFinite
<1>3. QED BY <1>1, <1>2, MaxEntriesAssumption DEF Consistent

\* Rows that are deleted take the choices of them along.
LEMMA WithoutIsTabled ==
    ASSUME NEW c, Tabled(c), NEW gone
    PROVE  LET d == Without(c, gone)
           IN  /\ Tabled(d) /\ Stored(d) = Stored(c) \ gone
               /\ \A a \in Stored(d) : d.rows[a] = c.rows[a]
               /\ \A k \in DOMAIN c.binds : c.binds[k] \notin gone =>
                     k \in DOMAIN d.binds /\ d.binds[k] = c.binds[k]
<1> DEFINE left == Stored(c) \ gone
           kept == {k \in DOMAIN c.binds : c.binds[k] \notin gone}
           rows == [a \in left |-> c.rows[a]]
           binds == [k \in kept |-> c.binds[k]]
           recent == c.recent \cap (left \X left)
           d == Without(c, gone)
<1>1. d = [rows |-> rows, recent |-> recent, binds |-> binds]
  BY DEF Without
<1>2. left \in SUBSET Stored(c) /\ IsFiniteSet(left)
  BY FS_Subset DEF Tabled
<1>3. rows \in [left -> Rows] /\ \A a \in left : rows[a] = c.rows[a]
  BY DEF Tabled
<1>4. DOMAIN binds = kept /\ \A k \in kept : binds[k] = c.binds[k]
  OBVIOUS
<1>5. OrderOn(recent, left)
  BY <1>2, PartIsOrdered, OrderOfRows DEF Tabled
<1> SUFFICES /\ Tabled(d) /\ Stored(d) = left
             /\ \A a \in Stored(d) : d.rows[a] = c.rows[a]
             /\ \A k \in DOMAIN c.binds : c.binds[k] \notin gone =>
                   k \in DOMAIN d.binds /\ d.binds[k] = c.binds[k]
  OBVIOUS
<1> HIDE DEF rows, binds, recent, d
<1>6. d.rows = rows /\ d.recent = recent /\ d.binds = binds
      /\ DOMAIN d = {"rows", "recent", "binds"}
  BY <1>1
<1>7. Stored(d) = left
  BY <1>3, <1>6 DEF Stored
<1>8. Ordered(d)
  BY <1>5, <1>6, <1>7, OrderOfRows
<1>9. \A k \in DOMAIN d.binds : d.binds[k] \in Stored(d) /\ d.rows[d.binds[k]].only
  BY <1>3, <1>4, <1>6, <1>7 DEF Tabled
<1>10. DOMAIN d.binds \subseteq SelectionKeys
  BY <1>4, <1>6 DEF Tabled
<1>11. Stored(d) \subseteq Artifacts /\ d.rows \in [Stored(d) -> Rows]
  BY <1>2, <1>3, <1>6, <1>7 DEF Tabled
<1>12. Tabled(d)
  BY <1>2, <1>6, <1>7, <1>8, <1>9, <1>10, <1>11 DEF Tabled
<1>13. QED BY <1>3, <1>4, <1>6, <1>7, <1>12

\* Deleting rows keeps the schema and the limit.
LEMMA WithoutIsConsistent ==
    ASSUME NEW c, Consistent(c), NEW gone
    PROVE  Consistent(Without(c, gone))
<1> DEFINE d == Without(c, gone)
<1>1. Tabled(d) /\ Stored(d) = Stored(c) \ gone /\ \A a \in Stored(d) : d.rows[a] = c.rows[a]
  BY WithoutIsTabled DEF Consistent
<1>2. Evictable(d) \subseteq Evictable(c)
  BY <1>1 DEF Evictable
<1>3. QED BY <1>1, <1>2, NoMoreRows

\* A row that is accessed moves to the front, and nothing else does.
LEMMA TouchedIsTabled ==
    ASSUME NEW c, Tabled(c), NEW a \in Stored(c)
    PROVE  LET d == Touched(c, a)
           IN  Tabled(d) /\ d.rows = c.rows /\ d.binds = c.binds
<1> DEFINE others == Stored(c) \ {a}
           recent == (c.recent \cap (others \X others)) \cup {<<a, b>> : b \in others}
           d == Touched(c, a)
<1>1. d = [c EXCEPT !.recent = recent]
  BY DEF Touched
<1>2. OrderOn(recent, Stored(c))
  <2>1. Stored(c) \cup {a} = Stored(c)
    OBVIOUS
  <2>2. OrderOn(c.recent, Stored(c))
    BY OrderOfRows DEF Tabled
  <2>3. OrderOn(recent, Stored(c) \cup {a})
    BY <2>2, InFrontIsOrdered
  <2>4. QED BY <2>1, <2>3
<1> SUFFICES Tabled(d) /\ d.rows = c.rows /\ d.binds = c.binds
  OBVIOUS
<1> HIDE DEF recent, d
<1>3. d.rows = c.rows /\ d.binds = c.binds /\ d.recent = recent /\ DOMAIN d = DOMAIN c
  BY <1>1 DEF Tabled
<1>4. Stored(d) = Stored(c)
  BY <1>3 DEF Stored
<1>5. Ordered(d)
  BY <1>2, <1>3, <1>4, OrderOfRows
<1>6. QED BY <1>3, <1>4, <1>5 DEF Tabled

\* A row that is written is the newest, and keeps the mark of a choice.
LEMMA WrittenIsTabled ==
    ASSUME NEW c, Tabled(c), NEW a \in Artifacts, NEW mode \in Modes, NEW chosen \in BOOLEAN
    PROVE  LET d == Written(c, a, mode, chosen)
           IN  /\ Tabled(d) /\ Stored(d) = Stored(c) \cup {a} /\ d.binds = c.binds
               /\ \A b \in Stored(c) : c.rows[b].only => d.rows[b].only
               /\ chosen => d.rows[a].only
<1> DEFINE only == chosen \/ (a \in Stored(c) /\ c.rows[a].only)
           row == [mode |-> mode, only |-> only, valid |-> TRUE, current |-> TRUE]
           S == Stored(c) \cup {a}
           rows == [b \in S |-> IF b = a THEN row ELSE c.rows[b]]
           wider == [c EXCEPT !.rows = rows]
           others == S \ {a}
           recent == (c.recent \cap (others \X others)) \cup {<<a, b>> : b \in others}
           d == Written(c, a, mode, chosen)
<1>1. wider.rows = rows /\ wider.binds = c.binds /\ wider.recent = c.recent
      /\ DOMAIN wider = {"rows", "recent", "binds"}
  BY DEF Tabled
<1>2. d = Touched(wider, a)
  BY DEF Written
<1>3. only \in BOOLEAN
  <2>1. a \in Stored(c) => c.rows[a].only \in BOOLEAN
    BY DEF Tabled, Rows
  <2>2. QED BY <2>1
<1>4. \A b \in BOOLEAN : [mode |-> mode, only |-> b, valid |-> TRUE, current |-> TRUE] \in Rows
  BY DEF Rows
<1>5. row \in Rows
  BY <1>3, <1>4, Zenon
<1>6. row.only = only
  OBVIOUS
<1> HIDE DEF row
<1>7. rows \in [S -> Rows] /\ rows[a] = row /\ \A b \in S \ {a} : rows[b] = c.rows[b]
  BY <1>5 DEF Tabled
<1> SUFFICES /\ Tabled(d) /\ Stored(d) = S /\ d.binds = c.binds
             /\ \A b \in Stored(c) : c.rows[b].only => d.rows[b].only
             /\ chosen => d.rows[a].only
  OBVIOUS
<1> HIDE DEF rows, wider, d
<1>8. Stored(wider) = S
  BY <1>1, <1>7 DEF Stored
<1>9. OrderOn(recent, S)
  <2>1. OrderOn(c.recent, Stored(c))
    BY OrderOfRows DEF Tabled
  <2>2. others = Stored(c) \ {a}
    OBVIOUS
  <2>3. QED BY <2>1, <2>2, InFrontIsOrdered
<1> HIDE DEF recent
<1>10. d = [wider EXCEPT !.recent = recent]
  BY <1>1, <1>2, <1>8 DEF Touched, recent
<1>11. /\ d.rows = rows /\ d.binds = c.binds /\ d.recent = recent
       /\ DOMAIN d = {"rows", "recent", "binds"}
  BY <1>1, <1>10
<1>12. Stored(d) = S
  BY <1>7, <1>11 DEF Stored
<1>13. Ordered(d)
  BY <1>9, <1>11, <1>12, OrderOfRows
<1>14. \A b \in Stored(c) : c.rows[b].only => d.rows[b].only
  BY <1>6, <1>7, <1>11
<1>15. chosen => d.rows[a].only
  BY <1>6, <1>7, <1>11
<1>16. \A k \in DOMAIN d.binds : d.binds[k] \in Stored(d) /\ d.rows[d.binds[k]].only
  BY <1>11, <1>12, <1>14 DEF Tabled
<1>17. IsFiniteSet(S) /\ S \subseteq Artifacts /\ DOMAIN c.binds \subseteq SelectionKeys
  BY FS_AddElement DEF Tabled
<1>18. Tabled(d)
  BY <1>7, <1>11, <1>12, <1>13, <1>16, <1>17 DEF Tabled
<1>19. QED BY <1>11, <1>12, <1>14, <1>15, <1>18

\* After an eviction the rows nobody chose are within the limit, and no row that was
\* chosen is gone.
LEMMA PrunedIsConsistent ==
    ASSUME NEW c, Tabled(c)
    PROVE  LET d == Pruned(c)
           IN  /\ Consistent(d)
               /\ \A k \in DOMAIN c.binds : /\ k \in DOMAIN d.binds /\ d.binds[k] = c.binds[k]
                                            /\ d.rows[c.binds[k]].only
<1> DEFINE E == Evictable(c)
           Later(a) == {b \in E : Newer(c, b, a)}
           gone == {a \in E : Cardinality(Later(a)) >= MaxEntries}
           d == Pruned(c)
<1>1. d = Without(c, gone)
  BY DEF Pruned
<1> HIDE DEF gone
<1>2. /\ Tabled(d) /\ Stored(d) = Stored(c) \ gone /\ \A a \in Stored(d) : d.rows[a] = c.rows[a]
      /\ \A k \in DOMAIN c.binds : c.binds[k] \notin gone =>
            k \in DOMAIN d.binds /\ d.binds[k] = c.binds[k]
  BY <1>1, WithoutIsTabled
<1> HIDE DEF d
<1>3. Evictable(d) = E \ gone
  BY <1>2 DEF Evictable
<1>4. E \in SUBSET Stored(c) /\ IsFiniteSet(E)
  BY EvictableIsFinite DEF Evictable
<1>5. OrderOn(c.recent \cap (E \X E), E)
  BY <1>4, PartIsOrdered, OrderOfRows DEF Tabled
<1>6. ASSUME NEW a \in E \ gone
      PROVE  Cardinality({b \in E : <<b, a>> \in c.recent \cap (E \X E)}) < MaxEntries
  <2>1. {b \in E : <<b, a>> \in c.recent \cap (E \X E)} = Later(a)
    BY DEF Newer
  <2>2. Cardinality(Later(a)) \in Nat
    BY <1>4, FS_Subset, FS_CardinalityType
  <2>3. ~(Cardinality(Later(a)) >= MaxEntries)
    BY DEF gone
  <2>4. \A n \in Nat : ~(n >= MaxEntries) => n < MaxEntries
    BY MaxEntriesAssumption
  <2> HIDE DEF Later, E
  <2>5. Cardinality(Later(a)) < MaxEntries
    BY <2>2, <2>3, <2>4
  <2>6. QED BY <2>1, <2>5
<1>7. Cardinality(E \ gone) <= MaxEntries
  BY <1>4, <1>5, <1>6, FewAreEarly, MaxEntriesAssumption
<1>8. ASSUME NEW k \in DOMAIN c.binds
      PROVE  c.binds[k] \in Stored(c) /\ c.binds[k] \notin gone /\ c.rows[c.binds[k]].only
  BY DEF Tabled, gone, Evictable
<1>9. QED BY <1>2, <1>3, <1>7, <1>8 DEF Consistent, d

\* Choices of c are in d.
Keeps(c, d, keys) == \A k \in keys : k \in DOMAIN d.binds /\ d.binds[k] = c.binds[k]

\* What a provider answered is stored, and whatever is evicted for it nobody chose.
LEMMA StoreIsConsistent ==
    ASSUME NEW c, Consistent(c), NEW a \in Artifacts, NEW conf
    PROVE  Consistent(Store(c, a, conf)) /\ Keeps(c, Store(c, a, conf), DOMAIN c.binds)
<1>1. CASE conf = High
  <2> DEFINE w == Written(c, a, "auto", FALSE)
  <2>1. Tabled(w) /\ w.binds = c.binds
    BY WrittenIsTabled DEF Consistent, Modes
  <2>2. Store(c, a, conf) = Pruned(w)
    BY <1>1 DEF Store
  <2> HIDE DEF w
  <2>3. Consistent(Pruned(w)) /\ Keeps(w, Pruned(w), DOMAIN w.binds)
    BY <2>1, PrunedIsConsistent DEF Keeps
  <2>4. QED BY <2>1, <2>2, <2>3 DEF Keeps
<1>2. CASE conf # High
  BY <1>2 DEF Store, Keeps
<1>3. QED BY <1>1, <1>2

\* A choice is remembered, and takes the place of the track's former one only.
LEMMA SelectIsConsistent ==
    ASSUME NEW c, Consistent(c), NEW track \in Tracks, NEW a \in Artifacts
    PROVE  LET d == Select(c, track, a)
           IN  /\ Consistent(d) /\ Keeps(c, d, DOMAIN c.binds \ {SelectionKey(track)})
               /\ SelectionKey(track) \in DOMAIN d.binds /\ d.binds[SelectionKey(track)] = a
<1> DEFINE w == Written(c, a, "manual", TRUE)
           key == SelectionKey(track)
           binds == [k \in DOMAIN c.binds \cup {key} |-> IF k = key THEN a ELSE c.binds[k]]
           v == [w EXCEPT !.binds = binds]
<1>1. /\ Tabled(w) /\ Stored(w) = Stored(c) \cup {a} /\ w.binds = c.binds
      /\ \A b \in Stored(c) : c.rows[b].only => w.rows[b].only
      /\ w.rows[a].only
  BY WrittenIsTabled DEF Consistent, Modes
<1> HIDE DEF w
<1>2. Select(c, track, a) = Pruned(v)
  BY <1>1 DEF Select, w
<1>3. key \in SelectionKeys
  BY DEF SelectionKeys
<1>4. DOMAIN binds = DOMAIN c.binds \cup {key} /\ binds[key] = a
      /\ \A k \in DOMAIN c.binds : binds[k] \in {a, c.binds[k]}
      /\ \A j \in DOMAIN c.binds \ {key} : binds[j] = c.binds[j]
  OBVIOUS
<1> HIDE DEF binds, key
<1>5. /\ v.rows = w.rows /\ v.recent = w.recent /\ v.binds = binds
      /\ DOMAIN v = {"rows", "recent", "binds"}
  BY <1>1 DEF Tabled
<1> HIDE DEF v
<1>6. Stored(v) = Stored(w)
  BY <1>5 DEF Stored
<1>7. Ordered(v)
  BY <1>1, <1>5, <1>6, OrderOfRows DEF Tabled
<1>8. \A k \in DOMAIN v.binds : v.binds[k] \in Stored(v) /\ v.rows[v.binds[k]].only
  <2> SUFFICES ASSUME NEW k \in DOMAIN v.binds
               PROVE  v.binds[k] \in Stored(v) /\ v.rows[v.binds[k]].only
    OBVIOUS
  <2>1. CASE v.binds[k] = a
    BY <1>1, <1>5, <1>6, <2>1
  <2>2. CASE v.binds[k] # a
    <3>1. k \in DOMAIN c.binds /\ v.binds[k] = c.binds[k]
      BY <1>4, <1>5, <2>2
    <3>2. c.binds[k] \in Stored(c) /\ c.rows[c.binds[k]].only
      BY <3>1 DEF Consistent, Tabled
    <3>3. QED BY <1>1, <1>5, <1>6, <3>1, <3>2
  <2>3. QED BY <2>1, <2>2
<1>9. DOMAIN v.binds \subseteq SelectionKeys
  BY <1>3, <1>4, <1>5 DEF Consistent, Tabled
<1>10. Tabled(v)
  BY <1>1, <1>5, <1>6, <1>7, <1>8, <1>9 DEF Tabled
<1>11. Consistent(Pruned(v)) /\ Keeps(v, Pruned(v), DOMAIN v.binds)
  BY <1>10, PrunedIsConsistent DEF Keeps
<1> DEFINE d == Pruned(v)
<1>12. Keeps(c, d, DOMAIN c.binds \ {key}) /\ key \in DOMAIN d.binds /\ d.binds[key] = a
  <2> HIDE DEF d
  <2>1. Keeps(v, d, DOMAIN v.binds)
    BY <1>11 DEF d
  <2>2. QED BY <1>4, <1>5, <2>1 DEF Keeps
<1>13. QED BY <1>2, <1>11, <1>12 DEF key

\* A row that can be read no more is a row.
LEMMA UnreadableIsConsistent ==
    ASSUME NEW c, Consistent(c), NEW a \in Stored(c)
    PROVE  Consistent(Unreadable(c, a)) /\ Stored(Unreadable(c, a)) = Stored(c)
           /\ Unreadable(c, a).binds = c.binds
<1> DEFINE row == [c.rows[a] EXCEPT !.valid = FALSE]
           rows == [c.rows EXCEPT ![a] = row]
           d == Unreadable(c, a)
<1>1. Tabled(c) /\ c.rows[a] \in Rows
  BY DEF Consistent, Tabled
<1>2. d = [c EXCEPT !.rows = rows]
  BY DEF Unreadable
<1>3. \A r \in Rows : /\ [r EXCEPT !.valid = FALSE] \in Rows
                      /\ [r EXCEPT !.valid = FALSE].only = r.only
                      /\ [r EXCEPT !.valid = FALSE].mode = r.mode
  BY DEF Rows
<1>4. row \in Rows /\ row.only = c.rows[a].only /\ row.mode = c.rows[a].mode
  BY <1>1, <1>3
<1> HIDE DEF row
<1>5. rows \in [Stored(c) -> Rows] /\ rows[a] = row /\ \A b \in Stored(c) \ {a} : rows[b] = c.rows[b]
  BY <1>1, <1>4 DEF Tabled
<1> HIDE DEF rows, d
<1>6. d.rows = rows /\ d.binds = c.binds /\ d.recent = c.recent /\ DOMAIN d = DOMAIN c
  BY <1>1, <1>2 DEF Tabled
<1>7. Stored(d) = Stored(c)
  BY <1>5, <1>6 DEF Stored
<1>8. \A b \in Stored(c) : d.rows[b].only = c.rows[b].only /\ d.rows[b].mode = c.rows[b].mode
  BY <1>4, <1>5, <1>6
<1>9. Evictable(d) = Evictable(c)
  BY <1>7, <1>8 DEF Evictable
<1>10. Ordered(d)
  BY <1>1, <1>6, <1>7, OrderOfRows DEF Tabled
<1>11. Tabled(d)
  BY <1>1, <1>5, <1>6, <1>7, <1>8, <1>10 DEF Tabled
<1>12. Consistent(d)
  BY <1>9, <1>11, NoMoreRows
<1>13. QED BY <1>6, <1>7, <1>12 DEF d

\* Of rows that can be parsed there is a first, by their keys and their last access.
LEMMA FirstRowExists ==
    ASSUME NEW c, Tabled(c), NEW rows \in SUBSET Stored(c), rows # {},
           NEW keys, \A a \in rows : keys[a] \in Keys
    PROVE  \E a \in rows : \A b \in rows \ {a} : Before(c, keys, a, b)
<1> DEFINE R == {pair \in rows \X rows : Before(c, keys, pair[2], pair[1])}
<1>1. \A a, b \in rows : <<a, b>> \in R <=> Before(c, keys, b, a)
  OBVIOUS
<1>2. OrderOn(c.recent, Stored(c))
  BY OrderOfRows DEF Tabled
<1>3. OrderOn(R, rows)
  <2>1. R \subseteq rows \X rows
    OBVIOUS
  <2> HIDE DEF R
  <2>2. \A a, b \in rows : a = b \/ <<a, b>> \in R \/ <<b, a>> \in R
    <3> SUFFICES ASSUME NEW a \in rows, NEW b \in rows, a # b
                 PROVE  Before(c, keys, a, b) \/ Before(c, keys, b, a)
      BY <1>1
    <3>1. CASE keys[a] # keys[b]
      BY <3>1, AboveIsTotal DEF Before
    <3>2. CASE keys[a] = keys[b]
      BY <1>2, <3>2 DEF Before, OrderOn, Newer
    <3>3. QED BY <3>1, <3>2
  <2>3. \A a \in rows : <<a, a>> \notin R
    BY <1>1, <1>2, AboveIsStrict DEF Before, OrderOn, Newer
  <2>4. \A a, b, e \in rows : <<a, b>> \in R /\ <<b, e>> \in R => <<a, e>> \in R
    <3> SUFFICES ASSUME NEW a \in rows, NEW b \in rows, NEW e \in rows,
                        Before(c, keys, b, a), Before(c, keys, e, b)
                 PROVE  Before(c, keys, e, a)
      BY <1>1
    <3>1. CASE keys[a] = keys[b] /\ keys[b] = keys[e]
      <4>1. Newer(c, b, a) /\ Newer(c, e, b)
        BY <3>1, AboveIsStrict DEF Before
      <4>2. Newer(c, e, a)
        BY <1>2, <4>1 DEF OrderOn, Newer
      <4>3. QED BY <3>1, <4>2 DEF Before
    <3>2. CASE Above(keys[e], keys[b]) \/ Above(keys[b], keys[a])
      <4>1. /\ keys[e] = keys[b] \/ Above(keys[e], keys[b])
            /\ keys[b] = keys[a] \/ Above(keys[b], keys[a])
        BY DEF Before
      <4>2. Above(keys[e], keys[a])
        BY <3>2, <4>1, AboveIsTransitive
      <4>3. QED BY <4>2 DEF Before
    <3>3. QED BY <3>1, <3>2 DEF Before
  <2>5. QED BY <2>1, <2>2, <2>3, <2>4 DEF OrderOn
<1>4. IsFiniteSet(rows)
  BY FS_Subset DEF Tabled
<1> HIDE DEF R
<1>5. PICK a \in rows : \A b \in rows \ {a} : <<b, a>> \in R
  BY <1>3, <1>4, LastExists
<1>6. QED BY <1>1, <1>5

\* A lookup returns a row it was to look at, and deletes only such rows as cannot be
\* parsed.
LEMMA ReadFirstIsConsistent ==
    ASSUME NEW c, Consistent(c), NEW keys, DOMAIN keys \subseteq Stored(c),
           \A a \in DOMAIN keys : keys[a] \in Keys
    PROVE  LET read == ReadFirst(c, keys)
           IN  /\ Consistent(read.cache) /\ read.hit \in DOMAIN keys \cup {None}
               /\ Stored(read.cache) \subseteq Stored(c)
               /\ \A a \in Stored(read.cache) : read.cache.rows[a] = c.rows[a]
               /\ \A k \in DOMAIN c.binds : c.rows[c.binds[k]].valid =>
                     k \in DOMAIN read.cache.binds /\ read.cache.binds[k] = c.binds[k]
<1> DEFINE read == ReadFirst(c, keys)
           rows == DOMAIN keys
           valid == {a \in rows : c.rows[a].valid}
           hit == CHOOSE a \in valid : \A b \in valid \ {a} : Before(c, keys, a, b)
           broken == IF valid = {} THEN rows ELSE {a \in rows \ valid : Before(c, keys, a, hit)}
           w == Without(c, broken)
           d == IF valid = {} THEN w ELSE Touched(w, hit)
<1>1. Tabled(c)
  BY DEF Consistent
<1>2. valid # {} => hit \in valid
  <2>1. valid # {} => \E a \in valid : \A b \in valid \ {a} : Before(c, keys, a, b)
    BY <1>1, FirstRowExists
  <2>2. QED BY <2>1
<1>3. valid # {} => hit # None
  BY <1>1, <1>2, MetadataAssumption DEF Tabled
<1>4. read = [hit |-> IF valid = {} THEN None ELSE hit, cache |-> d]
  <2>1. CASE valid = {}
    <3>1. read = [hit |-> None, cache |-> Without(c, rows)]
      BY <2>1 DEF ReadFirst
    <3>2. QED BY <2>1, <3>1, Zenon
  <2>2. CASE valid # {}
    <3> DEFINE bad == {a \in rows \ valid : Before(c, keys, a, hit)}
    <3>1. read = [hit |-> hit, cache |-> IF hit = None THEN Without(c, bad)
                                         ELSE Touched(Without(c, bad), hit)]
      BY <2>2, Zenon DEF ReadFirst
    <3> HIDE DEF hit
    <3>2. QED BY <1>3, <2>2, <3>1, Zenon
  <2>3. QED BY <2>1, <2>2
<1>5. \A a \in broken : a \in Stored(c) /\ ~c.rows[a].valid
  OBVIOUS
<1>6. valid # {} => hit \in Stored(c) \ broken
  <2> HIDE DEF hit
  <2>1. valid # {} => broken \cap valid = {}
    OBVIOUS
  <2>2. valid \subseteq Stored(c)
    OBVIOUS
  <2> HIDE DEF broken, valid
  <2>3. QED BY <1>2, <2>1, <2>2
<1> HIDE DEF broken, hit
<1>7. /\ Consistent(w) /\ Stored(w) = Stored(c) \ broken /\ \A a \in Stored(w) : w.rows[a] = c.rows[a]
      /\ \A k \in DOMAIN c.binds : c.binds[k] \notin broken =>
            k \in DOMAIN w.binds /\ w.binds[k] = c.binds[k]
  BY <1>1, WithoutIsTabled, WithoutIsConsistent
<1> HIDE DEF w
<1>8. Consistent(d) /\ d.rows = w.rows /\ d.binds = w.binds
  <2>1. CASE valid = {}
    BY <1>7, <2>1
  <2>2. CASE valid # {}
    <3>1. Tabled(d) /\ d.rows = w.rows /\ d.binds = w.binds
      BY <1>6, <1>7, <2>2, TouchedIsTabled DEF Consistent
    <3>2. Evictable(d) = Evictable(w)
      BY <3>1 DEF Evictable, Stored
    <3>3. QED BY <1>7, <3>1, <3>2, NoMoreRows
  <2>3. QED BY <2>1, <2>2
<1>9. read.hit \in rows \cup {None} /\ read.cache = d
  BY <1>2, <1>4
<1> SUFFICES /\ Consistent(read.cache) /\ read.hit \in DOMAIN keys \cup {None}
             /\ Stored(read.cache) \subseteq Stored(c)
             /\ \A a \in Stored(read.cache) : read.cache.rows[a] = c.rows[a]
             /\ \A k \in DOMAIN c.binds : c.rows[c.binds[k]].valid =>
                   k \in DOMAIN read.cache.binds /\ read.cache.binds[k] = c.binds[k]
  OBVIOUS
<1> HIDE DEF d, read, valid
<1>10. Stored(d) = Stored(w)
  BY <1>8 DEF Stored
<1>11. QED BY <1>5, <1>7, <1>8, <1>9, <1>10

\* Every row of a search has a key.
LEMMA RowsAreKeyed ==
    ASSUME NEW c, Consistent(c), NEW rows \in SUBSET Stored(c), NEW track \in Tracks
    PROVE  LET keys == Keyed(rows, track)
           IN  DOMAIN keys = rows /\ \A a \in rows : keys[a] \in Keys
<1>1. \A a \in rows : a.song \in Songs
  BY MetadataAssumption DEF Consistent, Tabled
<1>2. \A a \in rows : RowKey(RowEvidence[a.song, track]) \in Keys
  BY <1>1, RowsHaveKeys
<1>3. QED BY <1>2 DEF Keyed

\* A lookup of what was found before keeps the schema, and deletes only rows that
\* cannot be parsed.
LEMMA LookupIsConsistent ==
    ASSUME NEW c, Consistent(c), NEW provider, NEW track \in Tracks
    PROVE  LET read == Lookup(c, provider, track)
           IN  /\ Consistent(read.cache) /\ Stored(read.cache) \subseteq Stored(c)
               /\ \A a \in Stored(read.cache) : read.cache.rows[a] = c.rows[a]
               /\ \A k \in DOMAIN c.binds : c.rows[c.binds[k]].valid =>
                     k \in DOMAIN read.cache.binds /\ read.cache.binds[k] = c.binds[k]
<1> DEFINE rows == {a \in Stored(c) : /\ a.provider = provider
                                      /\ c.rows[a].mode = "auto" /\ c.rows[a].current
                                      /\ RowEvidence[a.song, track].conf = High}
           keys == Keyed(rows, track)
<1>1. DOMAIN keys = rows /\ \A a \in rows : keys[a] \in Keys
  BY RowsAreKeyed
<1>2. Lookup(c, provider, track) = ReadFirst(c, keys)
  BY DEF Lookup
<1>3. rows \subseteq Stored(c)
  OBVIOUS
<1> HIDE DEF keys, rows
<1>4. QED BY <1>1, <1>2, <1>3, ReadFirstIsConsistent

\* What a track's listener chose, if anything, is a row.
LEMMA ChosenIsStored ==
    ASSUME NEW c, Tabled(c), NEW track
    PROVE  Chosen(c, track) \in Stored(c) \cup {None}
BY DEF Chosen, Tabled

\* So does a lookup of what was chosen.
LEMMA LookupManualIsConsistent ==
    ASSUME NEW c, Consistent(c), NEW track \in Tracks
    PROVE  LET read == LookupManual(c, track)
           IN  /\ Consistent(read.cache) /\ Stored(read.cache) \subseteq Stored(c)
               /\ \A a \in Stored(read.cache) : read.cache.rows[a] = c.rows[a]
               /\ \A k \in DOMAIN c.binds : c.rows[c.binds[k]].valid =>
                     k \in DOMAIN read.cache.binds /\ read.cache.binds[k] = c.binds[k]
<1> DEFINE rows == IF Chosen(c, track) # None THEN {Chosen(c, track)} ELSE Unbound(c, track)
           keys == Keyed(rows, track)
<1>1. rows \subseteq Stored(c)
  BY ChosenIsStored DEF Consistent, Unbound
<1>2. LookupManual(c, track).cache = ReadFirst(c, keys).cache
  BY DEF LookupManual
<1> HIDE DEF rows
<1>3. DOMAIN keys = rows /\ \A a \in rows : keys[a] \in Keys
  BY <1>1, RowsAreKeyed
<1> HIDE DEF keys
<1>4. QED BY <1>1, <1>2, <1>3, ReadFirstIsConsistent

\* What the rows of a cache are.
LEMMA StoredAreArtifacts ==
    ASSUME NEW c, Consistent(c)
    PROVE  Stored(c) \in SUBSET Artifacts
BY DEF Consistent, Tabled

-------------------------------------------------------------------------------
(* The windows.                                                            *)

Names == {"list", "delete", "clear"}

Notes == {"", "busy", "error", "listed", "delete", "clear"}

Windows == [window : Nat, query : SUBSET Artifacts, rows : SUBSET Artifacts, busy : BOOLEAN,
            note : Notes, asking : BOOLEAN, keys : SUBSET Artifacts, list : Calls \cup {None},
            delete : Calls \cup {None}, clear : Calls \cup {None}]

\* The search window makes one call at a time, and is busy meanwhile.
FinderIsRight ==
    /\ DOMAIN finder = DOMAIN Closed
    /\ finder.window \in Nat /\ (finder.window # 0 => finder.track \in Tracks)
    /\ finder.picked \in Artifacts \cup {None} /\ finder.status \in Artifacts \cup {None}
    /\ finder.apply \in Saves \cup {None} /\ finder.busy \in BOOLEAN
    /\ finder.window = 0 \/ ~finder.busy => finder.search = None /\ finder.apply = None
    /\ finder.search = None \/ finder.apply = None
    /\ playing \in Tracks \cup {None} /\ shown \in Artifacts \cup {None}

\* The manager's calls are its window's, but for a clear from the settings; a query
\* never goes with a command, nor one command with another.
ManagerIsRight ==
    /\ manager \in Windows /\ used \in [{"opens", "commands", "faults", "others"} -> Nat]
    /\ manager.list # None => /\ manager.list.owner = manager.window /\ manager.window # 0
                              /\ manager.list.phase \in {"called", "returned", "raised"}
                              /\ ~Mutating(manager)
    /\ manager.delete # None => manager.delete.owner = manager.window /\ manager.window # 0
    /\ manager.clear # None => manager.clear.owner \in {0, manager.window}
    /\ manager.clear # None /\ manager.clear.phase \in {"listing", "listed"} => manager.clear.owner # 0
    /\ manager.delete = None \/ manager.clear = None \/ manager.clear.owner # manager.window
    /\ manager.asking => manager.window # 0

\* The task that awaits a job.
Awaited(job) ==
    /\ job.task = "apply" => finder.apply \in Saves /\ finder.apply.phase = "called" /\ job.op = "select"
    /\ job.task \in Names =>
          /\ manager[job.task] \in Calls
          /\ \/ job.op = job.task /\ manager[job.task].phase = "called"
             \/ job.op = "list" /\ manager[job.task].phase = "listing"
          /\ job.op = "list" => job.keys = manager.query

\* No task awaits two jobs.
TypedQueue(q) ==
    /\ q \in Seq(Jobs)
    /\ \A i \in DOMAIN q : q[i].op = "select" => q[i].choice \in Picks
    /\ \A i, j \in DOMAIN q : q[i].task = q[j].task => i = j \/ q[i].task = None

QueueIsRight == TypedQueue(queue) /\ \A job \in ToSet(queue) : Awaited(job)

\* What the manager was told, or shows, is what the cache holds, if nobody else has
\* written since.
AnswersAreRight ==
    LET right(rows) == dirty \/ rows = manager.query \cap Stored(cache)
    IN  /\ manager.list # None /\ manager.list.phase = "returned" => right(manager.list.value)
        /\ \A name \in {"delete", "clear"} :
              manager[name] # None /\ manager[name].phase = "listed" => right(manager[name].value)
        /\ manager.window # 0 /\ ~manager.busy /\ manager.note # "error" =>
              manager.list = None /\ ~Mutating(manager) /\ right(manager.rows)

LibraryInv ==
    /\ Consistent(cache) /\ FinderIsRight /\ ManagerIsRight /\ QueueIsRight /\ AnswersAreRight

\* A job whose task is cancelled is a job.
LEMMA OrphansAreJobs ==
    ASSUME NEW job \in Jobs
    PROVE  LET orphan == [job EXCEPT !.task = None]
           IN  orphan \in Jobs /\ orphan.task = None /\ orphan.op = job.op
               /\ orphan.choice = job.choice /\ orphan.keys = job.keys
BY DEF Jobs

\* What is queued.
LEMMA QueuedAreJobs ==
    ASSUME NEW q, TypedQueue(q), NEW job \in ToSet(q)
    PROVE  job \in Jobs /\ job.keys \in SUBSET Artifacts /\ (job.op = "select" => job.choice \in Picks)
<1>1. PICK i \in DOMAIN q : job = q[i]
  BY DEF ToSet
<1>2. q[i] \in Jobs
  BY DEF TypedQueue
<1>3. QED BY <1>1, <1>2 DEF TypedQueue, Jobs

\* Tasks that are cancelled leave their jobs, which nobody awaits.
LEMMA AbandonedIsTyped ==
    ASSUME TypedQueue(queue), NEW names
    PROVE  /\ TypedQueue(Abandoned(names))
           /\ \A job \in ToSet(Abandoned(names)) :
                 job.task = None \/ (job \in ToSet(queue) /\ job.task \notin names)
<1> DEFINE q == Abandoned(names)
<1>1. /\ DOMAIN q = DOMAIN queue
      /\ \A i \in DOMAIN q : q[i] = IF queue[i].task \in names THEN [queue[i] EXCEPT !.task = None]
                                    ELSE queue[i]
  BY DEF Abandoned
<1> HIDE DEF q
<1>2. \A i \in DOMAIN q : queue[i] \in Jobs
  BY <1>1 DEF TypedQueue
<1>3. \A i \in DOMAIN q : /\ q[i] \in Jobs /\ q[i].op = queue[i].op /\ q[i].choice = queue[i].choice
                          /\ q[i].task = None \/ (q[i] = queue[i] /\ queue[i].task \notin names)
  BY <1>1, <1>2, OrphansAreJobs
<1>4. q \in Seq(Jobs)
  <2>1. DOMAIN q = 1 .. Len(queue) /\ Len(queue) \in Nat
    BY <1>1 DEF TypedQueue
  <2>2. q = [i \in 1 .. Len(queue) |-> q[i]]
    BY <2>1 DEF q, Abandoned
  <2>3. q \in [1 .. Len(queue) -> Jobs]
    BY <1>3, <2>1, <2>2
  <2>4. QED BY <2>1, <2>3
<1>5. TypedQueue(q)
  BY <1>1, <1>3, <1>4 DEF TypedQueue
<1>6. \A job \in ToSet(q) : job.task = None \/ (job \in ToSet(queue) /\ job.task \notin names)
  BY <1>1, <1>3 DEF ToSet
<1>7. QED BY <1>5, <1>6 DEF q

\* A job is queued for a task that awaits none.
LEMMA AppendIsTyped ==
    ASSUME NEW q, TypedQueue(q), NEW job \in Jobs, job.op = "select" => job.choice \in Picks,
           \A other \in ToSet(q) : other.task # job.task
    PROVE  /\ TypedQueue(Append(q, job))
           /\ \A k \in ToSet(Append(q, job)) : k = job \/ k \in ToSet(q)
<1> DEFINE r == Append(q, job)
           n == Len(q)
<1>1. q \in Seq(Jobs) /\ n \in Nat /\ DOMAIN q = 1 .. n
  BY DEF TypedQueue
<1>2. /\ r \in Seq(Jobs) /\ DOMAIN r = 1 .. (n + 1) /\ r[n + 1] = job
      /\ \A i \in 1 .. n : r[i] = q[i]
  BY <1>1
<1> HIDE DEF r, n
<1>3. \A i \in DOMAIN r : i = n + 1 \/ i \in DOMAIN q
  BY <1>1, <1>2
<1>4. \A i \in DOMAIN q : q[i].task # job.task
  BY DEF ToSet
<1>5. \A i, j \in DOMAIN r : r[i].task = r[j].task => i = j \/ r[i].task = None
  BY <1>1, <1>2, <1>3, <1>4 DEF TypedQueue
<1>6. \A i \in DOMAIN r : r[i].op = "select" => r[i].choice \in Picks
  BY <1>1, <1>2, <1>3 DEF TypedQueue
<1>7. \A k \in ToSet(r) : k = job \/ k \in ToSet(q)
  BY <1>1, <1>2, <1>3 DEF ToSet
<1>8. QED BY <1>2, <1>5, <1>6, <1>7 DEF TypedQueue, r

\* A job leaves the queue, and no other is for its task.
LEMMA TailIsTyped ==
    ASSUME NEW q, TypedQueue(q), q # <<>>
    PROVE  /\ Head(q) \in ToSet(q) /\ TypedQueue(Tail(q))
           /\ \A k \in ToSet(Tail(q)) :
                 k.task = None \/ (k \in ToSet(q) /\ k.task # Head(q).task)
<1> DEFINE r == Tail(q)
           n == Len(q)
<1>1. q \in Seq(Jobs) /\ n \in Nat \ {0} /\ DOMAIN q = 1 .. n /\ Head(q) = q[1]
  BY DEF TypedQueue
<1>2. r \in Seq(Jobs) /\ DOMAIN r = 1 .. (n - 1) /\ \A i \in 1 .. (n - 1) : r[i] = q[i + 1]
  BY <1>1
<1> HIDE DEF r, n
<1>3. \A i \in DOMAIN r : i + 1 \in DOMAIN q /\ i + 1 # 1 /\ r[i] = q[i + 1] /\ i \in Nat
  BY <1>1, <1>2
<1>4. \A i, j \in DOMAIN r : r[i].task = r[j].task => i = j \/ r[i].task = None
  BY <1>3 DEF TypedQueue
<1>5. \A i \in DOMAIN r : r[i].op = "select" => r[i].choice \in Picks
  BY <1>3 DEF TypedQueue
<1>6. \A k \in ToSet(r) : k.task = None \/ (k \in ToSet(q) /\ k.task # Head(q).task)
  <2> SUFFICES ASSUME NEW i \in DOMAIN r, r[i].task # None
               PROVE  r[i] \in ToSet(q) /\ r[i].task # q[1].task
    BY <1>1 DEF ToSet
  <2>1. QED BY <1>1, <1>3 DEF ToSet, TypedQueue
<1>7. Head(q) \in ToSet(q)
  BY <1>1 DEF ToSet
<1>8. QED BY <1>2, <1>4, <1>5, <1>6, <1>7 DEF TypedQueue, r

\* What is left of a sequence when one element is removed.
LEMMA RemainingElements ==
    ASSUME NEW S, NEW q \in Seq(S), NEW i \in 1 .. Len(q)
    PROVE  LET r == RemoveAt(q, i)
           IN  /\ r \in Seq(S) /\ DOMAIN r = 1 .. (Len(q) - 1)
               /\ \A j \in 1 .. (Len(q) - 1) : r[j] = q[IF j < i THEN j ELSE j + 1]
<1> DEFINE before == SubSeq(q, 1, i - 1)
           after == SubSeq(q, i + 1, Len(q))
           r == RemoveAt(q, i)
<1>1. r = before \o after
  BY DEF RemoveAt
<1>2. Len(q) \in Nat /\ i \in Nat /\ 1 <= i /\ i <= Len(q) /\ \A j \in 1 .. Len(q) : q[j] \in S
  OBVIOUS
<1>3. before \in Seq(S) /\ Len(before) = i - 1 /\ \A j \in 1 .. (i - 1) : before[j] = q[j]
  BY <1>2
<1>4. after \in Seq(S) /\ Len(after) = Len(q) - i /\ \A j \in 1 .. (Len(q) - i) : after[j] = q[i + j]
  BY <1>2
<1> SUFFICES /\ r \in Seq(S) /\ DOMAIN r = 1 .. (Len(q) - 1)
             /\ \A j \in 1 .. (Len(q) - 1) : r[j] = q[IF j < i THEN j ELSE j + 1]
  OBVIOUS
<1> HIDE DEF before, after, r
<1>5. r \in Seq(S) /\ Len(r) = Len(before) + Len(after)
  BY <1>1, <1>3, <1>4, ConcatProperties
<1>6. \A j \in 1 .. Len(before) + Len(after) :
          r[j] = IF j <= Len(before) THEN before[j] ELSE after[j - Len(before)]
  BY <1>1, <1>3, <1>4, ConcatProperties
<1>7. DOMAIN r = 1 .. Len(r) /\ Len(r) = Len(q) - 1
  BY <1>2, <1>3, <1>4, <1>5
<1>8. ASSUME NEW j \in 1 .. (Len(q) - 1)
      PROVE  r[j] = q[IF j < i THEN j ELSE j + 1]
  <2>1. CASE j < i
    <3>1. r[j] = before[j]
      BY <1>2, <1>3, <1>4, <1>6, <2>1
    <3>2. QED BY <1>2, <1>3, <2>1, <3>1
  <2>2. CASE ~(j < i)
    <3>1. r[j] = after[j - (i - 1)]
      BY <1>2, <1>3, <1>4, <1>6, <2>2
    <3>2. j - (i - 1) \in 1 .. (Len(q) - i) /\ i + (j - (i - 1)) = j + 1
      BY <1>2, <2>2
    <3>3. QED BY <1>4, <2>2, <3>1, <3>2
  <2>3. QED BY <2>1, <2>2
<1>9. QED BY <1>5, <1>7, <1>8

\* The queue when the caller of a job has given it up: TimeOut.
Withdrawn(q, i) == IF i = 1 THEN [q EXCEPT ![1].task = None] ELSE RemoveAt(q, i)

\* A job that nobody awaits any more is withdrawn, or runs on.
LEMMA WithdrawnIsTyped ==
    ASSUME NEW q, TypedQueue(q), NEW i \in DOMAIN q, q[i].task # None
    PROVE  LET r == Withdrawn(q, i)
           IN  /\ q[i] \in ToSet(q) /\ TypedQueue(r)
               /\ \A k \in ToSet(r) : k.task = None \/ (k \in ToSet(q) /\ k.task # q[i].task)
<1> SUFFICES ASSUME NEW r, r = Withdrawn(q, i)
             PROVE  /\ q[i] \in ToSet(q) /\ TypedQueue(r)
                    /\ \A k \in ToSet(r) : k.task = None \/ (k \in ToSet(q) /\ k.task # q[i].task)
  OBVIOUS
<1> DEFINE n == Len(q)
<1>1. q \in Seq(Jobs) /\ n \in Nat /\ DOMAIN q = 1 .. n /\ \A j \in 1 .. n : q[j] \in Jobs
  BY DEF TypedQueue
<1>2. CASE i = 1
  <2> DEFINE orphan == [q[1] EXCEPT !.task = None]
  <2>1. orphan \in Jobs /\ orphan.task = None /\ orphan.op = q[1].op /\ orphan.choice = q[1].choice
    BY <1>1, <1>2, OrphansAreJobs
  <2>2. r = [q EXCEPT ![1] = orphan]
    BY <1>2 DEF Withdrawn
  <2> HIDE DEF orphan
  <2>3. r \in Seq(Jobs) /\ DOMAIN r = DOMAIN q /\ r[1] = orphan /\ \A j \in DOMAIN q \ {1} : r[j] = q[j]
    BY <1>1, <1>2, <2>1, <2>2
  <2>4. TypedQueue(r)
    BY <1>2, <2>1, <2>3 DEF TypedQueue
  <2>5. \A k \in ToSet(r) : k.task = None \/ (k \in ToSet(q) /\ k.task # q[i].task)
    BY <1>2, <2>1, <2>3 DEF TypedQueue, ToSet
  <2>6. QED BY <1>1, <2>4, <2>5 DEF ToSet
<1>3. CASE i # 1
  <2> DEFINE from(j) == IF j < i THEN j ELSE j + 1
  <2>1. r = RemoveAt(q, i)
    BY <1>3 DEF Withdrawn
  <2>2. i \in 2 .. n
    BY <1>1, <1>3
  <2>3. r \in Seq(Jobs) /\ DOMAIN r = 1 .. (n - 1) /\ \A j \in 1 .. (n - 1) : r[j] = q[from(j)]
    <3>1. i \in 1 .. Len(q)
      BY <1>1
    <3>2. /\ RemoveAt(q, i) \in Seq(Jobs) /\ DOMAIN RemoveAt(q, i) = 1 .. (n - 1)
          /\ \A j \in 1 .. (n - 1) : RemoveAt(q, i)[j] = q[from(j)]
      BY <1>1, <3>1, RemainingElements
    <3>3. QED BY <2>1, <3>2, Zenon
  <2>4. \A j \in DOMAIN r : from(j) \in DOMAIN q /\ from(j) # i
    BY <1>1, <2>2, <2>3
  <2>5. \A j, k \in DOMAIN r : from(j) = from(k) => j = k
    BY <1>1, <2>2, <2>3
  <2> HIDE DEF from
  <2>6. \A j, k \in DOMAIN r : r[j].task = r[k].task => j = k \/ r[j].task = None
    BY <2>3, <2>4, <2>5 DEF TypedQueue
  <2>7. \A j \in DOMAIN r : r[j].op = "select" => r[j].choice \in Picks
    BY <2>3, <2>4 DEF TypedQueue
  <2>8. \A j \in DOMAIN r : r[j].task = None \/ (r[j] \in ToSet(q) /\ r[j].task # q[i].task)
    BY <2>3, <2>4 DEF TypedQueue, ToSet
  <2>9. QED BY <1>1, <2>3, <2>6, <2>7, <2>8 DEF TypedQueue, ToSet
<1>4. QED BY <1>2, <1>3

\* A task of the manager learns how its call ended: it keeps its owner, and the window
\* and the other tasks are as they were.
LEMMA ToldIsAnswered ==
    ASSUME LibraryInv, NEW job \in ToSet(queue), NEW outcome \in {"returned", "raised"},
           Told(job, outcome), job.task \in Names
    PROVE  LET told == manager[job.task]'
               before == manager[job.task]
           IN  /\ manager' \in Windows /\ finder' = finder
               /\ told \in Calls /\ told.owner = before.owner
               /\ told.phase = IF outcome = "raised" THEN "raised"
                               ELSE IF before.phase = "listing" THEN "listed" ELSE "returned"
               /\ told.value = IF job.op = "list" THEN job.keys \cap Stored(cache) ELSE before.value
               /\ \A field \in DOMAIN manager \ {job.task} : manager'[field] = manager[field]
<1> DEFINE name == job.task
           phase == IF outcome = "raised" THEN "raised" ELSE Answered(manager[name].phase)
           value == IF job.op = "list" THEN job.keys \cap Stored(cache) ELSE manager[name].value
           call == [manager[name] EXCEPT !.phase = phase, !.value = value]
<1>1. manager[name] \in Calls /\ manager \in Windows /\ job.task # "apply"
  BY DEF LibraryInv, QueueIsRight, Awaited, ManagerIsRight, Names
<1>2. job.keys \in SUBSET Artifacts
  BY QueuedAreJobs DEF LibraryInv, QueueIsRight
<1>3. phase \in {"raised", "listed", "returned"} /\ value \in SUBSET Artifacts
  BY <1>1, <1>2 DEF Answered, Calls
<1>4. /\ call \in Calls /\ call.owner = manager[name].owner
      /\ call.phase = phase /\ call.value = value
  <2> HIDE DEF phase, value
  <2>1. QED BY <1>1, <1>3 DEF Calls
<1>5. manager' = [manager EXCEPT ![name] = call]
  BY <1>1 DEF Told, Names
<1>6. finder' = finder
  BY <1>1 DEF Told
<1> HIDE DEF call
<1>7. DOMAIN manager = {"window", "query", "rows", "busy", "note", "asking", "keys", "list", "delete", "clear"}
  BY <1>1 DEF Windows
<1>8. manager'[name] = call /\ \A field \in DOMAIN manager \ {name} : manager'[field] = manager[field]
  BY <1>5, <1>7 DEF Names
<1>9. manager' \in Windows
  <2>1. CASE name = "list"
    BY <1>1, <1>4, <1>5, <2>1 DEF Windows
  <2>2. CASE name = "delete"
    BY <1>1, <1>4, <1>5, <2>2 DEF Windows
  <2>3. CASE name = "clear"
    BY <1>1, <1>4, <1>5, <2>3 DEF Windows
  <2>4. QED BY <2>1, <2>2, <2>3 DEF Names
<1>10. QED BY <1>4, <1>6, <1>8, <1>9 DEF Answered

\* When a task learns how its call ended, every window stays right, and so does what is
\* left of the queue.
LEMMA ToldIsRight ==
    ASSUME LibraryInv, NEW job \in ToSet(queue), NEW outcome \in {"returned", "raised"},
           Told(job, outcome), playing' = playing, shown' = shown,
           used' \in [{"opens", "commands", "faults", "others"} -> Nat], TypedQueue(queue'),
           \A k \in ToSet(queue') : k.task = None \/ (k \in ToSet(queue) /\ k.task # job.task)
    PROVE  FinderIsRight' /\ ManagerIsRight' /\ QueueIsRight'
<1>1. job.task \in Names \cup {"apply", None} /\ Awaited(job)
  BY QueuedAreJobs DEF LibraryInv, QueueIsRight, Jobs, Names
<1>2. \A k \in ToSet(queue') : k.task # None => Awaited(k) /\ k.task # job.task
  BY DEF LibraryInv, QueueIsRight
<1>3. None \notin Names \cup {"apply"} /\ None \notin Saves \cup Calls
  BY NoneAssumption DEF Names
<1>4. ASSUME job.task \in Names
      PROVE  FinderIsRight' /\ ManagerIsRight' /\ \A k \in ToSet(queue') : Awaited(k)'
  <2> DEFINE told == manager[job.task]'
             before == manager[job.task]
  <2>1. /\ manager' \in Windows /\ finder' = finder
        /\ told \in Calls /\ told.owner = before.owner
        /\ told.phase = IF outcome = "raised" THEN "raised"
                        ELSE IF before.phase = "listing" THEN "listed" ELSE "returned"
        /\ \A field \in DOMAIN manager \ {job.task} : manager'[field] = manager[field]
    BY <1>4, ToldIsAnswered
  <2>2. DOMAIN manager = {"window", "query", "rows", "busy", "note", "asking", "keys", "list", "delete", "clear"}
    BY DEF LibraryInv, ManagerIsRight, Windows
  <2>3. /\ manager'.window = manager.window /\ manager'.query = manager.query
        /\ manager'.asking = manager.asking
    BY <1>4, <2>1, <2>2 DEF Names
  <2>4. \A n \in Names : n # job.task => manager'[n] = manager[n]
    BY <2>1, <2>2 DEF Names
  <2>5. before \in Calls
    BY <1>1, <1>4 DEF Awaited
  <2>6. \A n \in Names : /\ manager'[n] = None <=> manager[n] = None
                         /\ manager[n] # None => manager'[n].owner = manager[n].owner
    BY <1>3, <2>1, <2>4, <2>5
  <2>7. Mutating(manager') <=> Mutating(manager)
    BY <2>3, <2>6 DEF Mutating, Names
  <2>8. manager.list # None => manager'.list.phase \in {"called", "returned", "raised"}
    <3>1. CASE job.task = "list"
      BY <2>1, <3>1 DEF LibraryInv, ManagerIsRight
    <3>2. CASE job.task # "list"
      BY <2>4, <3>2 DEF LibraryInv, ManagerIsRight, Names
    <3>3. QED BY <3>1, <3>2
  <2>9. manager'.clear # None /\ manager'.clear.phase \in {"listing", "listed"} => manager'.clear.owner # 0
    <3>1. CASE job.task = "clear"
      BY <1>3, <2>1, <2>5, <3>1 DEF LibraryInv, ManagerIsRight
    <3>2. CASE job.task # "clear"
      BY <2>4, <3>2 DEF LibraryInv, ManagerIsRight, Names
    <3>3. QED BY <3>1, <3>2
  <2>10. ManagerIsRight'
    BY <2>1, <2>3, <2>6, <2>7, <2>8, <2>9 DEF LibraryInv, ManagerIsRight, Names
  <2>11. FinderIsRight'
    BY <2>1 DEF LibraryInv, FinderIsRight
  <2>12. ASSUME NEW k \in ToSet(queue')
         PROVE  Awaited(k)'
    <3>1. CASE k.task = None
      BY <1>3, <3>1 DEF Awaited
    <3>2. CASE k.task # None
      BY <1>2, <2>1, <2>3, <2>4, <3>2 DEF Awaited
    <3>3. QED BY <3>1, <3>2
  <2>13. QED BY <2>10, <2>11, <2>12
<1>5. ASSUME job.task = "apply"
      PROVE  FinderIsRight' /\ ManagerIsRight' /\ \A k \in ToSet(queue') : Awaited(k)'
  <2>1. manager' = manager
    BY <1>5 DEF Told
  <2> DEFINE phase == IF outcome = "raised" THEN "raised" ELSE "returned"
             save == [finder.apply EXCEPT !.phase = phase]
  <2>2. finder' = [finder EXCEPT !.apply = save]
    BY <1>5 DEF Told
  <2>3. finder.apply \in Saves
    BY <1>1, <1>5 DEF Awaited
  <2>4. save \in Saves
    BY <2>3 DEF Saves
  <2> HIDE DEF save
  <2>5. DOMAIN finder = DOMAIN Closed
    BY DEF LibraryInv, FinderIsRight
  <2>6. FinderIsRight'
    BY <1>3, <2>2, <2>3, <2>4, <2>5 DEF LibraryInv, FinderIsRight, Closed
  <2>7. ManagerIsRight'
    BY <2>1 DEF LibraryInv, ManagerIsRight
  <2>8. ASSUME NEW k \in ToSet(queue')
        PROVE  Awaited(k)'
    <3>1. CASE k.task = None
      BY <1>3, <3>1 DEF Awaited
    <3>2. CASE k.task # None
      BY <1>2, <1>5, <2>1, <3>2 DEF Awaited
    <3>3. QED BY <3>1, <3>2
  <2>9. QED BY <2>6, <2>7, <2>8
<1>6. ASSUME job.task = None
      PROVE  FinderIsRight' /\ ManagerIsRight' /\ \A k \in ToSet(queue') : Awaited(k)'
  <2>1. manager' = manager /\ finder' = finder
    BY <1>3, <1>6 DEF Told, Names
  <2>2. FinderIsRight' /\ ManagerIsRight'
    BY <2>1 DEF LibraryInv, FinderIsRight, ManagerIsRight
  <2>3. ASSUME NEW k \in ToSet(queue')
        PROVE  Awaited(k)'
    <3>1. CASE k.task = None
      BY <1>3, <3>1 DEF Awaited
    <3>2. CASE k.task # None
      BY <1>2, <2>1, <3>2 DEF Awaited
    <3>3. QED BY <3>1, <3>2
  <2>4. QED BY <2>2, <2>3
<1>7. FinderIsRight' /\ ManagerIsRight' /\ \A k \in ToSet(queue') : Awaited(k)'
  BY <1>1, <1>4, <1>5, <1>6
<1>8. QED BY <1>7 DEF QueueIsRight

-------------------------------------------------------------------------------
(* The search window.                                                      *)

Uses == [{"opens", "commands", "faults", "others"} -> Nat]

\* What does not touch the cache, its thread or the manager.
LEMMA FinderMoves ==
    ASSUME LibraryInv, cache' = cache, queue' = queue, manager' = manager, dirty' = dirty,
           used' \in Uses, FinderIsRight',
           finder'.apply = finder.apply \/ finder.apply = None \/ finder.apply.phase # "called"
    PROVE  LibraryInv'
<1>1. ManagerIsRight' /\ AnswersAreRight'
  BY DEF LibraryInv, ManagerIsRight, AnswersAreRight, Uses
<1>2. \A job \in ToSet(queue) : Awaited(job)'
  BY NoneAssumption DEF LibraryInv, QueueIsRight, Awaited
<1>3. QED BY <1>1, <1>2 DEF LibraryInv, QueueIsRight

\* The counters of the model stay numbers.
LEMMA UsesCount ==
    ASSUME LibraryInv, NEW kind \in {"opens", "commands", "faults", "others"}, NEW n \in Nat
    PROVE  [used EXCEPT ![kind] = @ + n] \in Uses
BY DEF LibraryInv, ManagerIsRight, Uses

\* A window begins to search when it is idle.
LEMMA SearchBegins ==
    ASSUME NEW f, DOMAIN f = DOMAIN Closed, NEW query
    PROVE  LET g == Searching(f, query)
           IN  /\ DOMAIN g = DOMAIN f /\ g.window = f.window /\ g.track = f.track
               /\ g.picked = f.picked /\ g.status = f.status /\ g.apply = f.apply
               /\ g = f \/ (f.window # 0 /\ f.search = None /\ f.apply = None /\ g.busy = TRUE)
<1>1. CASE f.window = 0 \/ f.search # None \/ f.apply # None
  BY <1>1 DEF Searching
<1>2. CASE ~(f.window = 0 \/ f.search # None \/ f.apply # None)
  BY <1>2 DEF Searching, Busy, Closed
<1>3. QED BY <1>1, <1>2

\* The search window opens, and begins to search.
LEMMA OpenFinderKeeps == ASSUME LibraryInv, OpenFinder PROVE LibraryInv'
<1> DEFINE f == FinderFor(used.opens + 1)
<1>1. used' \in Uses
  BY UsesCount DEF OpenFinder
<1>2. used.opens \in Nat
  BY DEF LibraryInv, ManagerIsRight
<1>3. /\ DOMAIN f = DOMAIN Closed /\ f.window = used.opens + 1 /\ f.track = playing
      /\ f.picked = None /\ f.status = shown /\ f.apply = None /\ f.search = None /\ f.busy = FALSE
  BY DEF FinderFor, Closed
<1>4. finder' = Searching(f, playing)
  BY DEF OpenFinder
<1> HIDE DEF f
<1>5. /\ DOMAIN finder' = DOMAIN f /\ finder'.window = f.window /\ finder'.track = f.track
      /\ finder'.picked = f.picked /\ finder'.status = f.status /\ finder'.apply = f.apply
      /\ finder' = f \/ (f.window # 0 /\ f.search = None /\ f.apply = None /\ finder'.busy = TRUE)
  <2> DEFINE g == Searching(f, playing)
  <2>1. /\ DOMAIN g = DOMAIN f /\ g.window = f.window /\ g.track = f.track
        /\ g.picked = f.picked /\ g.status = f.status /\ g.apply = f.apply
        /\ g = f \/ (f.window # 0 /\ f.search = None /\ f.apply = None /\ g.busy = TRUE)
    <3>1. DOMAIN f = DOMAIN Closed
      BY <1>3
    <3>2. QED BY <3>1, SearchBegins, Zenon
  <2> HIDE DEF g
  <2>2. QED BY <1>4, <2>1 DEF g
<1>6. finder'.window \in Nat /\ finder'.window # 0 /\ finder'.track \in Tracks
  BY <1>2, <1>3, <1>5 DEF OpenFinder, Asks, LibraryInv, FinderIsRight
<1>7. FinderIsRight'
  BY <1>3, <1>5, <1>6 DEF OpenFinder, LibraryInv, FinderIsRight
<1>8. finder.apply = None
  BY DEF OpenFinder, LibraryInv, FinderIsRight
<1>9. QED BY <1>1, <1>7, <1>8, FinderMoves DEF OpenFinder

\* The user searches for another query.
LEMMA SearchForKeeps == ASSUME LibraryInv, NEW t \in Tracks, SearchFor(t) PROVE LibraryInv'
<1>1. used' \in Uses
  BY UsesCount DEF SearchFor, Command
<1>2. /\ DOMAIN finder' = DOMAIN finder /\ finder'.window = finder.window /\ finder'.track = finder.track
      /\ finder'.picked = finder.picked /\ finder'.status = finder.status /\ finder'.apply = finder.apply
      /\ finder' = finder \/ (finder.search = None /\ finder.apply = None /\ finder'.busy = TRUE)
  BY SearchBegins DEF SearchFor, LibraryInv, FinderIsRight
<1>3. FinderIsRight'
  BY <1>2 DEF SearchFor, LibraryInv, FinderIsRight
<1>4. QED BY <1>1, <1>2, <1>3, FinderMoves DEF SearchFor

\* The providers have answered, or the search has failed.
LEMMA SearchEndsKeeps ==
    ASSUME LibraryInv, NEW troubled, NEW offers, NEW raised \in BOOLEAN,
           SearchEnds(troubled, offers, raised)
    PROVE  LibraryInv'
<1>1. used' \in Uses
  <2>1. \E n \in {0, 1} : used' = [used EXCEPT !.faults = @ + n]
    BY DEF SearchEnds
  <2>2. QED BY <2>1, UsesCount
<1>2. DOMAIN finder = DOMAIN Closed /\ finder.search # None /\ finder.apply = None
  BY DEF SearchEnds, LibraryInv, FinderIsRight
<1>3. CASE raised
  <2>1. finder' = [Failed(finder) EXCEPT !.search = None]
    BY <1>3 DEF SearchEnds
  <2>2. /\ DOMAIN finder' = DOMAIN finder /\ finder'.window = finder.window /\ finder'.track = finder.track
        /\ finder'.picked = finder.picked /\ finder'.status = finder.status
        /\ finder'.apply = finder.apply /\ finder'.busy = FALSE /\ finder'.search = None
    BY <1>2, <2>1 DEF Failed, Closed
  <2>3. FinderIsRight'
    BY <1>2, <2>2 DEF SearchEnds, LibraryInv, FinderIsRight
  <2>4. QED BY <1>1, <2>2, <2>3, FinderMoves DEF SearchEnds
<1>4. CASE ~raised
  <2> DEFINE told == [finder EXCEPT !.status = shown]
             results == Found(finder.search, troubled, offers)
             picked == Picked(told, results)
  <2>1. finder' = [[told EXCEPT !.results = results, !.rows = results, !.query = finder.search,
                         !.picked = picked, !.busy = FALSE, !.note = "results"] EXCEPT !.search = None]
    BY <1>4 DEF SearchEnds
  <2>2. told.status = shown
    BY <1>2 DEF Closed
  <2>3. picked \in {shown, None}
    BY <2>2 DEF Picked
  <2> HIDE DEF results, picked
  <2>4. /\ DOMAIN finder' = DOMAIN finder /\ finder'.window = finder.window /\ finder'.track = finder.track
        /\ finder'.picked = picked /\ finder'.status = shown
        /\ finder'.apply = finder.apply /\ finder'.busy = FALSE /\ finder'.search = None
    BY <1>2, <2>1 DEF Closed
  <2>5. FinderIsRight'
    BY <1>2, <2>3, <2>4 DEF SearchEnds, LibraryInv, FinderIsRight
  <2>6. QED BY <1>1, <2>4, <2>5, FinderMoves DEF SearchEnds
<1>5. QED BY <1>3, <1>4

\* The user selects a result.
LEMMA PickKeeps == ASSUME LibraryInv, NEW a \in Artifacts, Pick(a) PROVE LibraryInv'
<1>1. /\ DOMAIN finder' = DOMAIN finder /\ finder'.window = finder.window /\ finder'.track = finder.track
      /\ finder'.picked = a /\ finder'.status = finder.status /\ finder'.search = finder.search
      /\ finder'.apply = finder.apply /\ finder'.busy = finder.busy
  BY DEF Pick, LibraryInv, FinderIsRight, Closed
<1>2. FinderIsRight'
  BY <1>1 DEF Pick, LibraryInv, FinderIsRight
<1>3. used' \in Uses
  BY DEF Pick, LibraryInv, ManagerIsRight, Uses
<1>4. QED BY <1>1, <1>2, <1>3, FinderMoves DEF Pick

\* The user filters the results.
LEMMA FilterHighKeeps == ASSUME LibraryInv, NEW high, FilterHigh(high) PROVE LibraryInv'
<1> DEFINE f == [finder EXCEPT !.highOnly = high]
<1>1. \E p \in {f.picked, None} : finder' = [f EXCEPT !.picked = p]
  BY DEF FilterHigh
<1>2. /\ DOMAIN finder' = DOMAIN finder /\ finder'.window = finder.window /\ finder'.track = finder.track
      /\ finder'.picked \in {finder.picked, None} /\ finder'.status = finder.status
      /\ finder'.search = finder.search /\ finder'.apply = finder.apply /\ finder'.busy = finder.busy
  BY <1>1 DEF LibraryInv, FinderIsRight, Closed
<1>3. FinderIsRight'
  BY <1>2 DEF FilterHigh, LibraryInv, FinderIsRight
<1>4. used' \in Uses
  BY UsesCount DEF FilterHigh, Command
<1>5. QED BY <1>2, <1>3, <1>4, FinderMoves DEF FilterHigh

\* The display takes a choice, or not.
LEMMA ApplyEndsKeeps == ASSUME LibraryInv, ApplyEnds PROVE LibraryInv'
<1>1. /\ finder.apply \in Saves /\ finder.apply.phase # "called" /\ finder.search = None
      /\ DOMAIN finder = DOMAIN Closed
  BY DEF ApplyEnds, LibraryInv, FinderIsRight
<1>2. finder.apply.choice.artifact \in Artifacts
  BY <1>1 DEF Saves, Picks
<1>3. shown' \in Artifacts \cup {None}
  BY <1>2 DEF ApplyEnds, LibraryInv, FinderIsRight
<1>4. ASSUME finder.apply.phase = "returned"
      PROVE  FinderIsRight'
  <2>1. \E note : finder' = [[finder EXCEPT !.busy = FALSE, !.status = shown', !.note = note] EXCEPT !.apply = None]
    BY <1>4 DEF ApplyEnds
  <2>2. /\ DOMAIN finder' = DOMAIN finder /\ finder'.window = finder.window /\ finder'.track = finder.track
        /\ finder'.picked = finder.picked /\ finder'.status = shown' /\ finder'.search = finder.search
        /\ finder'.apply = None /\ finder'.busy = FALSE
    BY <1>1, <2>1 DEF Closed
  <2>3. QED BY <1>1, <1>3, <2>2 DEF ApplyEnds, LibraryInv, FinderIsRight
<1>5. ASSUME finder.apply.phase # "returned"
      PROVE  FinderIsRight'
  <2>1. finder' = [Failed(finder) EXCEPT !.apply = None]
    BY <1>5 DEF ApplyEnds
  <2>2. /\ DOMAIN finder' = DOMAIN finder /\ finder'.window = finder.window /\ finder'.track = finder.track
        /\ finder'.picked = finder.picked /\ finder'.status = finder.status /\ finder'.search = finder.search
        /\ finder'.apply = None /\ finder'.busy = FALSE
    BY <1>1, <2>1 DEF Closed, Failed
  <2>3. QED BY <1>1, <1>3, <2>2 DEF ApplyEnds, LibraryInv, FinderIsRight
<1>6. used' \in Uses
  BY DEF ApplyEnds, LibraryInv, ManagerIsRight, Uses
<1>7. QED BY <1>1, <1>4, <1>5, <1>6, FinderMoves DEF ApplyEnds

\* Another track plays.
LEMMA PlayKeeps == ASSUME LibraryInv, NEW t \in Tracks, Play(t) PROVE LibraryInv'
<1>1. used' \in Uses
  BY UsesCount DEF Play, Other
<1>2. FinderIsRight'
  BY DEF Play, LibraryInv, FinderIsRight
<1>3. QED BY <1>1, <1>2, FinderMoves DEF Play

\* What is awaited when tasks were cancelled and, perhaps, a job was added.
LEMMA StillAwaited ==
    ASSUME LibraryInv, NEW names, NEW q, q = Abandoned(names),
           \A k \in ToSet(queue) : k.task # None /\ k.task \notin names => Awaited(k)'
    PROVE  TypedQueue(q) /\ \A k \in ToSet(q) : Awaited(k)' /\ (k.task \notin names \/ k.task = None)
<1>1. TypedQueue(q) /\ \A k \in ToSet(q) : k.task = None \/ (k \in ToSet(queue) /\ k.task \notin names)
  BY AbandonedIsTyped DEF LibraryInv, QueueIsRight
<1>2. ASSUME NEW k \in ToSet(q)
      PROVE  Awaited(k)' /\ (k.task \notin names \/ k.task = None)
  <2>1. CASE k.task = None
    BY <2>1, NoneAssumption DEF Awaited, Names
  <2>2. CASE k.task # None
    BY <1>1, <2>2
  <2>3. QED BY <2>1, <2>2
<1>3. QED BY <1>1, <1>2

\* A choice that is to be saved is what the user picked, for the track of the window.
LEMMA ApplyKeeps == ASSUME LibraryInv, Apply PROVE LibraryInv'
<1>1. used' \in Uses
  BY UsesCount DEF Apply, Command
<1>2. /\ finder.picked \in Artifacts /\ finder.track \in Tracks /\ finder.apply = None
      /\ finder.search = None /\ DOMAIN finder = DOMAIN Closed /\ finder.window # 0
  BY DEF Apply, CanApply, LibraryInv, FinderIsRight
<1>3. ASSUME finder.picked \notin ToSet(finder.results)
      PROVE  LibraryInv'
  <2>1. finder' = [finder EXCEPT !.note = "error"] /\ queue' = queue
    BY <1>3 DEF Apply
  <2>2. /\ DOMAIN finder' = DOMAIN finder /\ finder'.window = finder.window /\ finder'.track = finder.track
        /\ finder'.picked = finder.picked /\ finder'.status = finder.status
        /\ finder'.search = finder.search /\ finder'.apply = finder.apply /\ finder'.busy = finder.busy
    BY <1>2, <2>1 DEF Closed
  <2>3. FinderIsRight'
    BY <2>2 DEF Apply, LibraryInv, FinderIsRight
  <2>4. QED BY <1>1, <2>1, <2>2, <2>3, FinderMoves DEF Apply
<1>4. ASSUME finder.picked \in ToSet(finder.results)
      PROVE  LibraryInv'
  <2> DEFINE choice == ApplyFor(finder)
             save == [choice |-> choice, phase |-> "called"]
  <2>1. choice \in Picks
    BY <1>2 DEF ApplyFor, Picks
  <2> HIDE DEF choice
  <2>2. save \in Saves /\ save.phase = "called"
    BY <2>1 DEF Saves
  <2>3. PICK job \in Jobs : job = Selection(choice) /\ job.choice = choice
                           /\ job.task = "apply" /\ job.op = "select"
    <3>1. \A c \in Picks : /\ Selection(c) \in Jobs /\ Selection(c).choice = c
                            /\ Selection(c).task = "apply" /\ Selection(c).op = "select"
      BY DEF Selection, Jobs
    <3>2. QED BY <2>1, <3>1, Zenon
  <2>4. finder' = [Busy(finder) EXCEPT !.status = shown, !.apply = save] /\ queue' = Append(queue, job)
    BY <1>4, <2>3 DEF Apply, choice
  <2> HIDE DEF save
  <2>5. /\ DOMAIN finder' = DOMAIN finder /\ finder'.window = finder.window /\ finder'.track = finder.track
        /\ finder'.picked = finder.picked /\ finder'.status = shown
        /\ finder'.search = finder.search /\ finder'.apply = save /\ finder'.busy = TRUE
    BY <1>2, <2>4 DEF Closed, Busy
  <2>6. FinderIsRight'
    BY <1>2, <2>2, <2>5 DEF Apply, LibraryInv, FinderIsRight
  <2>7. \A k \in ToSet(queue) : k.task # "apply"
    BY <1>2, NoneAssumption DEF LibraryInv, QueueIsRight, Awaited
  <2>8. TypedQueue(queue') /\ \A k \in ToSet(queue') : k = job \/ k \in ToSet(queue)
    BY <2>1, <2>3, <2>4, <2>7, AppendIsTyped DEF LibraryInv, QueueIsRight
  <2>9. manager' = manager /\ cache' = cache /\ dirty' = dirty
    BY DEF Apply
  <2>10. \A k \in ToSet(queue') : Awaited(k)'
    <3>1. Awaited(job)'
      BY <2>2, <2>3, <2>5 DEF Awaited, Names
    <3>2. ASSUME NEW k \in ToSet(queue) PROVE Awaited(k)'
      BY <2>7, <2>9 DEF LibraryInv, QueueIsRight, Awaited
    <3>3. QED BY <2>8, <3>1, <3>2
  <2>11. ManagerIsRight' /\ AnswersAreRight'
    BY <1>1, <2>9 DEF LibraryInv, ManagerIsRight, AnswersAreRight, Uses
  <2>12. QED BY <2>6, <2>8, <2>9, <2>10, <2>11 DEF LibraryInv, QueueIsRight
<1>5. QED BY <1>3, <1>4

\* The search window closes; its choice is still written.
LEMMA CloseFinderKeeps == ASSUME LibraryInv, CloseFinder PROVE LibraryInv'
<1>1. manager' = manager /\ cache' = cache /\ dirty' = dirty /\ used' = used /\ finder' = Closed
  BY DEF CloseFinder
<1>2. FinderIsRight'
  <2>1. /\ Closed.window = 0 /\ Closed.picked = None /\ Closed.status = None /\ Closed.apply = None
        /\ Closed.search = None /\ Closed.busy = FALSE
    BY DEF Closed
  <2>2. playing' = playing /\ shown' = shown /\ playing \in Tracks \cup {None} /\ shown \in Artifacts \cup {None}
    BY DEF CloseFinder, LibraryInv, FinderIsRight
  <2>3. DOMAIN finder' = DOMAIN Closed
    BY <1>1
  <2>4. /\ finder'.window = 0 /\ finder'.picked = None /\ finder'.status = None /\ finder'.apply = None
        /\ finder'.search = None /\ finder'.busy = FALSE
    BY <1>1, <2>1, Zenon
  <2>5. /\ DOMAIN finder' = DOMAIN Closed
        /\ finder'.window \in Nat /\ (finder'.window # 0 => finder'.track \in Tracks)
        /\ finder'.picked \in Artifacts \cup {None} /\ finder'.status \in Artifacts \cup {None}
        /\ finder'.apply \in Saves \cup {None} /\ finder'.busy \in BOOLEAN
    <3>1. finder'.window \in Nat /\ (finder'.window # 0 => finder'.track \in Tracks)
      BY <2>4
    <3>2. finder'.picked \in Artifacts \cup {None} /\ finder'.status \in Artifacts \cup {None}
      BY <2>4
    <3>3. finder'.apply \in Saves \cup {None}
      BY <2>4
    <3>4. finder'.busy \in BOOLEAN
      BY <2>4
    <3> QED BY <2>3, <3>1, <3>2, <3>3, <3>4
  <2>6. /\ finder'.search = None /\ finder'.apply = None
        /\ playing' \in Tracks \cup {None} /\ shown' \in Artifacts \cup {None}
    BY <2>2, <2>4
  <2>7. QED BY <2>5, <2>6 DEF FinderIsRight
<1>3. \A k \in ToSet(queue) : k.task # None /\ k.task \notin {"apply"} => Awaited(k)'
  BY <1>1 DEF LibraryInv, QueueIsRight, Awaited
<1>4. TypedQueue(queue') /\ \A k \in ToSet(queue') : Awaited(k)'
  <2>1. queue' = Abandoned({"apply"})
    BY DEF CloseFinder
  <2>2. QED BY <1>3, <2>1, StillAwaited
<1>5. ManagerIsRight' /\ AnswersAreRight'
  BY <1>1 DEF LibraryInv, ManagerIsRight, AnswersAreRight, Uses
<1>6. QED BY <1>1, <1>2, <1>4, <1>5 DEF LibraryInv, QueueIsRight

-------------------------------------------------------------------------------
(* The manager.                                                            *)

\* What a task awaits when it is made.
LEMMA TasksAreCalls ==
    ASSUME NEW owner \in Nat
    PROVE  /\ Task(owner) \in Calls /\ Task(owner) # None
           /\ Task(owner).owner = owner /\ Task(owner).phase = "called"
<1>1. Task(owner) \in Calls /\ Task(owner).owner = owner /\ Task(owner).phase = "called"
  BY DEF Task, Calls
<1>2. QED BY <1>1, NoneAssumption

\* What the manager asks of the cache is a job.
LEMMA JobsOfTheManager ==
    ASSUME NEW op \in Names, NEW keys \in SUBSET Artifacts, NEW name \in Names
    PROVE  LET job == Job(op, keys, name)
           IN  job \in Jobs /\ job.op = op /\ job.keys = keys /\ job.task = name
BY DEF Job, Jobs, Names

\* A query begins, with no command of the window under way.
LEMMA QueryBegins ==
    ASSUME LibraryInv, NEW query \in SUBSET Artifacts, manager' \in Windows, manager'.window # 0,
           manager'.query = query, manager'.list = Task(manager'.window), manager'.delete = None,
           manager'.clear = manager.clear, manager'.busy = TRUE,
           manager.delete = None, manager.clear # None => manager.clear.owner = 0,
           queue' = Append(Abandoned({"list"}), Job("list", query, "list")),
           cache' = cache, playing' = playing, shown' = shown, finder' = finder, dirty' = dirty,
           used' \in Uses
    PROVE  LibraryInv'
<1>1. /\ manager'.list \in Calls /\ manager'.list # None
      /\ manager'.list.owner = manager'.window /\ manager'.list.phase = "called"
  <2>1. manager'.window \in Nat
    BY DEF Windows
  <2>2. QED BY <2>1, TasksAreCalls
<1>2. ~Mutating(manager')
  BY DEF Mutating
<1>3. manager.clear # None => manager.clear.phase \notin {"listing", "listed"}
  BY DEF LibraryInv, ManagerIsRight
<1>4. ManagerIsRight'
  BY <1>1, <1>2, <1>3 DEF LibraryInv, ManagerIsRight, Uses
<1>5. AnswersAreRight'
  BY <1>1, <1>3 DEF AnswersAreRight
<1>6. FinderIsRight' /\ Consistent(cache')
  BY DEF LibraryInv, FinderIsRight
<1>7. \A k \in ToSet(queue) : k.task # None /\ k.task \notin {"list"} => Awaited(k)'
  <2> SUFFICES ASSUME NEW k \in ToSet(queue), k.task # None, k.task # "list"
               PROVE  Awaited(k)'
    OBVIOUS
  <2>1. Awaited(k)
    BY DEF LibraryInv, QueueIsRight
  <2>2. k.task # "delete"
    BY <2>1, NoneAssumption DEF Awaited, Names
  <2>3. k.task = "clear" => manager.clear \in Calls /\ manager.clear.phase = "called" /\ k.op = "clear"
    BY <1>3, <2>1, NoneAssumption DEF Awaited, Names
  <2>4. QED BY <2>1, <2>2, <2>3 DEF Awaited, Names
<1> DEFINE q == Abandoned({"list"})
<1>8. TypedQueue(q) /\ \A k \in ToSet(q) : Awaited(k)' /\ (k.task # "list" \/ k.task = None)
  BY <1>7, StillAwaited
<1>9. \A k \in ToSet(q) : k.task # "list"
  BY <1>8, NoneAssumption
<1>10. PICK job \in Jobs : /\ job = Job("list", query, "list")
                           /\ job.op = "list" /\ job.keys = query /\ job.task = "list"
  BY JobsOfTheManager DEF Names
<1> HIDE DEF q
<1>11. queue' = Append(q, job)
  BY <1>10 DEF q
<1>12. TypedQueue(queue') /\ \A k \in ToSet(queue') : k = job \/ k \in ToSet(q)
  <2>1. TypedQueue(q) /\ job \in Jobs /\ job.op # "select" /\ \A k \in ToSet(q) : k.task # job.task
    BY <1>8, <1>9, <1>10
  <2>2. QED BY <1>11, <2>1, AppendIsTyped
<1>13. Awaited(job)'
  BY <1>1, <1>10 DEF Awaited, Names
<1>14. QED BY <1>4, <1>5, <1>6, <1>8, <1>12, <1>13 DEF LibraryInv, QueueIsRight

\* A command begins, and the query under way is given up with the tasks named.
Begins(name, keys, names) ==
    /\ manager' \in Windows /\ manager'.window = manager.window /\ manager'.query = manager.query
    /\ manager'.list = None /\ manager'[name] = Task(manager.window)
    /\ name = "delete" => manager'.clear = manager.clear /\ manager.window # 0
    /\ name = "clear" => manager'.delete = None
    /\ manager.window # 0 => manager'.busy = TRUE
    /\ manager'.asking => manager.window # 0
    /\ manager.delete = None
    /\ manager.clear # None /\ manager.window # 0 => manager.clear.owner = 0
    /\ {"list"} \subseteq names /\ names \subseteq {"list", name}
    /\ \A k \in ToSet(queue) : k.task = name => name \in names
    /\ queue' = Append(Abandoned(names), Job(name, keys, name))
    /\ cache' = cache /\ playing' = playing /\ shown' = shown /\ finder' = finder /\ dirty' = dirty
    /\ used' \in Uses

\* A deletion begins, and the query that was out is cancelled.
LEMMA CommandBegins ==
    ASSUME LibraryInv, NEW name \in {"delete", "clear"}, NEW keys \in SUBSET Artifacts, NEW names,
           Begins(name, keys, names)
    PROVE  LibraryInv'
<1> USE DEF Begins
<1>1. /\ manager'[name] \in Calls /\ manager'[name] # None
      /\ manager'[name].owner = manager.window /\ manager'[name].phase = "called"
  <2>1. manager.window \in Nat
    BY DEF LibraryInv, ManagerIsRight, Windows
  <2>2. QED BY <2>1, TasksAreCalls
<1>2. name = "delete" /\ manager.clear # None =>
          manager.clear.owner = 0 /\ manager.clear.phase \notin {"listing", "listed"}
  BY DEF LibraryInv, ManagerIsRight
<1>3. ManagerIsRight'
  <2>1. CASE name = "delete"
    BY <1>1, <1>2, <2>1 DEF LibraryInv, ManagerIsRight, Uses
  <2>2. CASE name = "clear"
    BY <1>1, <2>2 DEF LibraryInv, ManagerIsRight, Uses
  <2>3. QED BY <2>1, <2>2
<1>4. AnswersAreRight'
  <2>1. CASE name = "delete"
    BY <1>1, <1>2, <2>1 DEF AnswersAreRight
  <2>2. CASE name = "clear"
    BY <1>1, <2>2 DEF AnswersAreRight
  <2>3. QED BY <2>1, <2>2
<1>5. FinderIsRight' /\ Consistent(cache')
  BY DEF LibraryInv, FinderIsRight
<1>6. \A k \in ToSet(queue) : k.task # None /\ k.task \notin names => Awaited(k)'
  <2> SUFFICES ASSUME NEW k \in ToSet(queue), k.task # None, k.task \notin names
               PROVE  Awaited(k)'
    OBVIOUS
  <2>1. Awaited(k) /\ k.task # "list" /\ k.task # name
    BY DEF LibraryInv, QueueIsRight
  <2>2. k.task # "delete"
    BY <2>1, NoneAssumption DEF Awaited, Names
  <2>3. k.task = "clear" => manager'.clear = manager.clear
    BY <2>1
  <2>4. QED BY <2>1, <2>2, <2>3 DEF Awaited, Names
<1> DEFINE q == Abandoned(names)
<1>7. TypedQueue(q) /\ \A k \in ToSet(q) : Awaited(k)' /\ (k.task \notin names \/ k.task = None)
  BY <1>6, StillAwaited
<1>8. \A k \in ToSet(q) : k.task # name
  <2>1. \A k \in ToSet(q) : k.task = None \/ k \in ToSet(queue)
    BY AbandonedIsTyped DEF LibraryInv, QueueIsRight
  <2>2. name # None
    BY NoneAssumption
  <2> HIDE DEF q
  <2>3. QED BY <1>7, <2>1, <2>2
<1>9. PICK job \in Jobs : /\ job = Job(name, keys, name)
                          /\ job.op = name /\ job.keys = keys /\ job.task = name
  BY JobsOfTheManager DEF Names
<1> HIDE DEF q
<1>10. queue' = Append(q, job)
  BY <1>9 DEF q
<1>11. TypedQueue(queue') /\ \A k \in ToSet(queue') : k = job \/ k \in ToSet(q)
  BY <1>7, <1>8, <1>9, <1>10, AppendIsTyped
<1>12. Awaited(job)'
  BY <1>1, <1>9 DEF Awaited, Names
<1>13. QED BY <1>3, <1>4, <1>5, <1>7, <1>11, <1>12 DEF LibraryInv, QueueIsRight

Fields == {"window", "query", "rows", "busy", "note", "asking", "keys", "list", "delete", "clear"}

\* The manager opens, and lists everything.
LEMMA OpenManagerKeeps == ASSUME LibraryInv, OpenManager PROVE LibraryInv'
<1>1. used' \in Uses /\ used.opens \in Nat
  BY UsesCount DEF OpenManager, LibraryInv, ManagerIsRight
<1> DEFINE window == used.opens + 1
<1>2. window \in Nat /\ window # 0
  BY <1>1
<1>3. manager \in Windows /\ manager.delete = None /\ (manager.clear # None => manager.clear.owner = 0)
  BY DEF OpenManager, LibraryInv, ManagerIsRight
<1>4. Task(window) \in Calls
  BY <1>2, TasksAreCalls
<1>5. manager' = [window |-> window, query |-> Artifacts, rows |-> {}, busy |-> TRUE, note |-> "busy",
                  asking |-> FALSE, keys |-> {}, list |-> Task(window), delete |-> None,
                  clear |-> manager.clear]
  BY DEF OpenManager, Listing, NoManager
<1> HIDE DEF window
<1>6. manager' \in Windows
  BY <1>2, <1>3, <1>4, <1>5 DEF Windows, Notes
<1>7. /\ manager'.window = window /\ manager'.query = Artifacts /\ manager'.list = Task(window)
      /\ manager'.delete = None /\ manager'.clear = manager.clear /\ manager'.busy = TRUE
  BY <1>5
<1>8. queue' = Append(Abandoned({"list"}), Job("list", Artifacts, "list"))
  BY DEF OpenManager
<1>9. cache' = cache /\ playing' = playing /\ shown' = shown /\ finder' = finder /\ dirty' = dirty
  BY DEF OpenManager
<1>10. QED BY <1>1, <1>2, <1>3, <1>6, <1>7, <1>8, <1>9, QueryBegins

\* Without a command of its own, the window has no deletion, and a clear is not its.
LEMMA NoCommand ==
    ASSUME LibraryInv, ~Mutating(manager)
    PROVE  manager.delete = None /\ (manager.clear # None => manager.clear.owner = 0)
BY DEF LibraryInv, ManagerIsRight, Mutating

\* The user lists other rows.
LEMMA ListKeeps == ASSUME LibraryInv, NEW query \in Keywords, List(query) PROVE LibraryInv'
<1>1. used' \in Uses
  BY UsesCount DEF List, Command
<1>2. query \in SUBSET Artifacts
  BY LibraryAssumption
<1>3. manager \in Windows /\ manager.window # 0
  BY DEF List, LibraryInv, ManagerIsRight
<1>4. manager.delete = None /\ (manager.clear # None => manager.clear.owner = 0)
  BY NoCommand DEF List
<1>5. Task(manager.window) \in Calls
  BY <1>3, TasksAreCalls DEF Windows
<1>6. manager' = [manager EXCEPT !.busy = TRUE, !.note = "busy", !.query = query,
                                 !.list = Task(manager.window)]
  BY DEF List, Listing
<1>7. manager' \in Windows
  BY <1>2, <1>3, <1>5, <1>6 DEF Windows, Notes
<1>8. /\ manager'.window = manager.window /\ manager'.query = query
      /\ manager'.list = Task(manager.window) /\ manager'.delete = manager.delete
      /\ manager'.clear = manager.clear /\ manager'.busy = TRUE
  BY <1>3, <1>6 DEF Windows
<1>9. queue' = Append(Abandoned({"list"}), Job("list", query, "list"))
  BY DEF List
<1>10. cache' = cache /\ playing' = playing /\ shown' = shown /\ finder' = finder /\ dirty' = dirty
  BY DEF List
<1>11. QED BY <1>1, <1>2, <1>3, <1>4, <1>7, <1>8, <1>9, <1>10, QueryBegins

\* A question alters nothing that was answered.
LEMMA QuestionMoves ==
    ASSUME LibraryInv, NEW asking \in BOOLEAN, NEW keys \in SUBSET Artifacts,
           asking => manager.window # 0,
           manager' = [manager EXCEPT !.asking = asking, !.keys = keys],
           cache' = cache, queue' = queue, playing' = playing, shown' = shown, finder' = finder,
           dirty' = dirty, used' \in Uses
    PROVE  LibraryInv'
<1>1. manager \in Windows
  BY DEF LibraryInv, ManagerIsRight
<1>2. manager' \in Windows
  BY <1>1 DEF Windows
<1>3. /\ manager'.asking = asking
      /\ \A field \in Fields \ {"asking", "keys"} : manager'[field] = manager[field]
  BY <1>1 DEF Windows, Fields
<1>4. /\ manager'.window = manager.window /\ manager'.query = manager.query /\ manager'.rows = manager.rows
      /\ manager'.busy = manager.busy /\ manager'.note = manager.note /\ manager'.list = manager.list
      /\ manager'.delete = manager.delete /\ manager'.clear = manager.clear
      /\ \A name \in Names : manager'[name] = manager[name]
  BY <1>3 DEF Fields, Names
<1>5. Mutating(manager') <=> Mutating(manager)
  BY <1>4 DEF Mutating
<1>6. ManagerIsRight'
  BY <1>2, <1>3, <1>4, <1>5 DEF LibraryInv, ManagerIsRight, Uses
<1>7. AnswersAreRight'
  BY <1>4, <1>5 DEF LibraryInv, AnswersAreRight, Names
<1>8. \A k \in ToSet(queue) : Awaited(k)'
  BY <1>4 DEF LibraryInv, QueueIsRight, Awaited
<1>9. FinderIsRight' /\ Consistent(cache')
  BY DEF LibraryInv, FinderIsRight
<1>10. QED BY <1>6, <1>7, <1>8, <1>9 DEF LibraryInv, QueueIsRight

\* The user is asked.
LEMMA AskToDeleteKeeps ==
    ASSUME LibraryInv, NEW keys \in SUBSET Artifacts, AskToDelete(keys) PROVE LibraryInv'
<1>1. used' \in Uses
  BY UsesCount DEF AskToDelete, Command
<1>2. QED BY <1>1, QuestionMoves DEF AskToDelete

\* The user confirms a deletion, or does not.
LEMMA ConfirmKeeps == ASSUME LibraryInv, NEW yes \in BOOLEAN, Confirm(yes) PROVE LibraryInv'
<1> DEFINE m == [manager EXCEPT !.asking = FALSE, !.keys = {}]
<1>1. /\ cache' = cache /\ playing' = playing /\ shown' = shown /\ finder' = finder
      /\ dirty' = dirty /\ used' \in Uses
  BY DEF Confirm, LibraryInv, ManagerIsRight, Uses
<1>2. manager \in Windows /\ manager.window # 0
  BY DEF Confirm, LibraryInv, ManagerIsRight
<1>3. ASSUME ~yes \/ Mutating(m)
      PROVE  LibraryInv'
  <2>1. manager' = m /\ queue' = queue
    BY <1>3 DEF Confirm
  <2>2. PICK asking \in BOOLEAN : asking = FALSE
    OBVIOUS
  <2>3. manager' = [manager EXCEPT !.asking = asking, !.keys = {}]
    BY <2>1, <2>2
  <2>4. ~asking /\ {} \in SUBSET Artifacts
    BY <2>2
  <2>5. QED BY <1>1, <2>1, <2>3, <2>4, QuestionMoves
<1>4. m \in Windows
  BY <1>2 DEF Windows
<1>5. /\ m.asking = FALSE /\ m.window = manager.window /\ m.query = manager.query
      /\ m.delete = manager.delete /\ m.clear = manager.clear
  BY <1>2 DEF Windows
<1>6. Mutating(m) <=> Mutating(manager)
  BY <1>5 DEF Mutating
<1>7. Task(manager.window) \in Calls
  BY <1>2, TasksAreCalls DEF Windows
<1>8. ASSUME yes, ~Mutating(m), manager.keys # {}
      PROVE  LibraryInv'
  <2>1. manager' = Deleting(m)
        /\ queue' = Append(Abandoned({"list"}), Job("delete", manager.keys, "delete"))
    BY <1>8 DEF Confirm
  <2>2. manager.delete = None /\ (manager.clear # None => manager.clear.owner = 0)
    BY <1>6, <1>8, NoCommand
  <2> HIDE DEF m
  <2>3. manager' = [m EXCEPT !.busy = TRUE, !.note = "busy", !.list = None, !.delete = Task(manager.window)]
    BY <1>5, <2>1 DEF Deleting
  <2>4. manager' \in Windows
    BY <1>4, <1>7, <2>3 DEF Windows, Notes
  <2>5. /\ manager'.window = manager.window /\ manager'.query = manager.query
        /\ manager'.list = None /\ manager'["delete"] = Task(manager.window)
        /\ manager'.clear = manager.clear /\ manager'.busy = TRUE /\ manager'.asking = FALSE
    BY <1>4, <1>5, <2>3 DEF Windows
  <2>6. \A k \in ToSet(queue) : k.task # "delete"
    BY <2>2, NoneAssumption DEF LibraryInv, QueueIsRight, Awaited, Names
  <2>7. manager.keys \in SUBSET Artifacts
    BY <1>2 DEF Windows
  <2>8. PICK keys \in SUBSET Artifacts : keys = manager.keys
    BY <2>7
  <2>9. Begins("delete", keys, {"list"})
    BY <1>1, <1>2, <2>1, <2>2, <2>4, <2>5, <2>6, <2>8 DEF Begins
  <2>10. QED BY <2>9, CommandBegins
<1>9. ASSUME yes, ~Mutating(m), manager.keys = {}
      PROVE  LibraryInv'
  <2>1. manager' = Clearing(m)
        /\ queue' = Append(Abandoned({"list", "clear"}), Job("clear", {}, "clear"))
    BY <1>9 DEF Confirm
  <2>2. manager.delete = None /\ (manager.clear # None => manager.clear.owner = 0)
    BY <1>6, <1>9, NoCommand
  <2> HIDE DEF m
  <2>3. manager' = [m EXCEPT !.busy = TRUE, !.note = "busy", !.list = None, !.clear = Task(manager.window)]
    BY <1>2, <1>5, <2>1 DEF Clearing
  <2>4. manager' \in Windows
    BY <1>4, <1>7, <2>3 DEF Windows, Notes
  <2>5. /\ manager'.window = manager.window /\ manager'.query = manager.query
        /\ manager'.list = None /\ manager'["clear"] = Task(manager.window)
        /\ manager'.delete = None /\ manager'.busy = TRUE /\ manager'.asking = FALSE
    BY <1>4, <1>5, <2>2, <2>3 DEF Windows
  <2>6. Begins("clear", {}, {"list", "clear"})
    BY <1>1, <1>2, <2>1, <2>2, <2>4, <2>5 DEF Begins
  <2>7. QED BY <2>6, CommandBegins
<1>10. QED BY <1>3, <1>8, <1>9

\* The cache is cleared from the settings, with the manager or without.
LEMMA ClearFromSettingsKeeps == ASSUME LibraryInv, ClearFromSettings PROVE LibraryInv'
<1>1. used' \in Uses
  BY UsesCount DEF ClearFromSettings, Command
<1>2. manager \in Windows
  BY DEF LibraryInv, ManagerIsRight
<1>3. manager.delete = None /\ (manager.clear # None /\ manager.window # 0 => manager.clear.owner = 0)
  <2>1. CASE manager.window # 0
    BY <2>1, NoCommand DEF ClearFromSettings, ClearIsRefused
  <2>2. CASE manager.window = 0
    BY <2>2 DEF LibraryInv, ManagerIsRight
  <2>3. QED BY <2>1, <2>2
<1>4. Task(manager.window) \in Calls
  BY <1>2, TasksAreCalls DEF Windows
<1>5. PICK busy \in BOOLEAN : busy = (manager.window # 0)
  OBVIOUS
<1>6. manager' = [manager EXCEPT !.busy = busy, !.note = "busy", !.list = None, !.clear = Task(manager.window)]
  BY <1>5 DEF ClearFromSettings, Clearing
<1>7. manager' \in Windows
  BY <1>2, <1>4, <1>6 DEF Windows, Notes
<1>8. /\ manager'.window = manager.window /\ manager'.query = manager.query
      /\ manager'.list = None /\ manager'["clear"] = Task(manager.window)
      /\ manager'.delete = manager.delete /\ manager'.busy = busy /\ manager'.asking = manager.asking
  BY <1>2, <1>6 DEF Windows
<1>9. queue' = Append(Abandoned({"list", "clear"}), Job("clear", {}, "clear"))
  BY DEF ClearFromSettings
<1>10. cache' = cache /\ playing' = playing /\ shown' = shown /\ finder' = finder /\ dirty' = dirty
  BY DEF ClearFromSettings
<1>11. manager'.asking => manager.window # 0
  BY <1>8 DEF LibraryInv, ManagerIsRight
<1>12. manager.window # 0 => manager'.busy = TRUE
  BY <1>5, <1>8
<1>13. Begins("clear", {}, {"list", "clear"})
  BY <1>1, <1>3, <1>7, <1>8, <1>9, <1>10, <1>11, <1>12 DEF Begins
<1>14. QED BY <1>13, CommandBegins

\* A task that awaits no job is over.
LEMMA TaskEnds ==
    ASSUME LibraryInv, NEW name \in Names, manager[name].phase \notin {"called", "listing"},
           manager' \in Windows, manager'.window = manager.window, manager'.query = manager.query,
           manager'.asking = manager.asking, manager'[name] = None,
           \A other \in Names \ {name} : manager'[other] = manager[other],
           queue' = queue, cache' = cache, playing' = playing, shown' = shown, finder' = finder,
           dirty' = dirty, used' \in Uses, AnswersAreRight'
    PROVE  LibraryInv'
<1>1. \A n \in Names : manager'[n] # None => manager'[n] = manager[n]
  OBVIOUS
<1>2. Mutating(manager') => Mutating(manager)
  BY <1>1 DEF Mutating, Names
<1>3. ManagerIsRight'
  BY <1>1, <1>2 DEF LibraryInv, ManagerIsRight, Uses, Names
<1>4. ASSUME NEW k \in ToSet(queue)
      PROVE  Awaited(k)'
  <2>1. Awaited(k)
    BY DEF LibraryInv, QueueIsRight
  <2>2. k.task # name
    BY <2>1 DEF Awaited
  <2>3. QED BY <2>1, <2>2 DEF Awaited
<1>5. FinderIsRight' /\ Consistent(cache')
  BY DEF LibraryInv, FinderIsRight
<1>6. QED BY <1>3, <1>4, <1>5 DEF LibraryInv, QueueIsRight

\* The answer to a query is shown as it was when the cache gave it.
LEMMA ListEndsKeeps == ASSUME LibraryInv, ListEnds PROVE LibraryInv'
<1>1. manager \in Windows /\ manager.list \in Calls /\ manager.list # None
  BY DEF ListEnds, LibraryInv, ManagerIsRight, Windows
<1>2. manager.list.phase \in {"returned", "raised"} /\ manager.list.value \in SUBSET Artifacts
  BY <1>1 DEF ListEnds, Calls
<1>3. /\ cache' = cache /\ queue' = queue /\ playing' = playing /\ shown' = shown /\ finder' = finder
      /\ dirty' = dirty /\ used' \in Uses
  BY DEF ListEnds, LibraryInv, ManagerIsRight, Uses
<1>4. ~Mutating(manager)
  BY <1>1 DEF LibraryInv, ManagerIsRight
<1>5. PICK rows \in SUBSET Artifacts, note \in Notes :
          /\ manager' = [[manager EXCEPT !.rows = rows, !.busy = FALSE, !.note = note] EXCEPT !.list = None]
          /\ note = "error" \/ (rows = manager.list.value /\ manager.list.phase = "returned")
  <2>1. CASE manager.list.phase = "returned"
    <3>1. manager' = [[manager EXCEPT !.rows = manager.list.value, !.busy = FALSE, !.note = "listed"]
                          EXCEPT !.list = None]
      BY <2>1 DEF ListEnds, Filled
    <3>2. "listed" \in Notes
      BY DEF Notes
    <3>3. QED BY <1>2, <2>1, <3>1, <3>2
  <2>2. CASE manager.list.phase # "returned"
    <3>1. manager' = [[manager EXCEPT !.busy = FALSE, !.note = "error"] EXCEPT !.list = None]
      BY <2>2 DEF ListEnds, Failed
    <3>2. [manager EXCEPT !.busy = FALSE, !.note = "error"]
            = [manager EXCEPT !.rows = manager.rows, !.busy = FALSE, !.note = "error"]
      BY <1>1 DEF Windows
    <3>3. "error" \in Notes /\ manager.rows \in SUBSET Artifacts
      BY <1>1 DEF Notes, Windows
    <3>4. QED BY <3>1, <3>2, <3>3
  <2>3. QED BY <2>1, <2>2
<1>6. manager' \in Windows
  BY <1>1, <1>5 DEF Windows
<1>7. /\ manager'.rows = rows /\ manager'.note = note
      /\ manager'.list = None /\ manager'.delete = manager.delete /\ manager'.clear = manager.clear
      /\ manager'.window = manager.window /\ manager'.query = manager.query
      /\ manager'.asking = manager.asking
  BY <1>1, <1>5 DEF Windows
<1>8. ~Mutating(manager')
  BY <1>4, <1>7 DEF Mutating
<1>9. AnswersAreRight'
  BY <1>1, <1>3, <1>5, <1>7, <1>8 DEF LibraryInv, AnswersAreRight
<1>10. manager.list.phase \notin {"called", "listing"}
  BY <1>2
<1>11. manager'["list"] = None /\ \A n \in Names \ {"list"} : manager'[n] = manager[n]
  BY <1>7 DEF Names
<1>12. "list" \in Names
  BY DEF Names
<1>13. QED BY <1>3, <1>6, <1>7, <1>9, <1>10, <1>11, <1>12, TaskEnds

Commands == {"delete", "clear"}

\* While a command of the window runs, nothing else of it does.
LEMMA OneCommandRuns ==
    ASSUME LibraryInv, NEW name \in Commands, manager[name] # None
    PROVE  /\ manager[name] \in Calls
           /\ manager[name].phase \in {"listing", "listed"} =>
                 manager[name].owner = manager.window /\ manager.window # 0
           /\ manager[name].owner = manager.window =>
                 /\ Mutating(manager) /\ manager.list = None
                 /\ \A other \in Commands \ {name} :
                       manager[other] = None \/ manager[other].owner # manager.window
<1>1. CASE name = "delete"
  BY <1>1 DEF LibraryInv, ManagerIsRight, Mutating, Windows, Commands
<1>2. CASE name = "clear"
  BY <1>2 DEF LibraryInv, ManagerIsRight, Mutating, Windows, Commands
<1>3. QED BY <1>1, <1>2 DEF Commands

\* The record of the manager when one of its tasks is replaced.
Replaced(m, name, task) == [m EXCEPT ![name] = task]

\* A command of the manager goes on.
LEMMA TaskIsReplaced ==
    ASSUME NEW m \in Windows, NEW name \in Commands, NEW task, task \in Calls \/ task = None
    PROVE  LET n == Replaced(m, name, task)
           IN  n \in Windows /\ n[name] = task /\ \A field \in Fields \ {name} : n[field] = m[field]
<1>1. CASE name = "delete"
  BY <1>1 DEF Windows, Fields, Replaced
<1>2. CASE name = "clear"
  BY <1>2 DEF Windows, Fields, Replaced
<1>3. QED BY <1>1, <1>2 DEF Commands

\* What the window keeps when fields other than the tasks and the rows are the same.
LEMMA FieldsOf ==
    ASSUME NEW m, NEW n, NEW name \in Commands, \A field \in Fields \ {name} : n[field] = m[field]
    PROVE  /\ n.window = m.window /\ n.query = m.query /\ n.rows = m.rows /\ n.busy = m.busy
           /\ n.note = m.note /\ n.asking = m.asking /\ n.list = m.list
           /\ \A other \in Names \ {name} : n[other] = m[other]
BY DEF Fields, Names, Commands

\* The rows are shown that were listed after a deletion.
LEMMA CommandRefreshedKeeps ==
    ASSUME LibraryInv, NEW name \in Commands, CommandRefreshed(name) PROVE LibraryInv'
<1>1. /\ manager[name] \in Calls /\ manager[name].phase = "listed" /\ manager \in Windows
      /\ manager[name].owner = manager.window /\ manager.list = None
      /\ \A other \in Commands \ {name} : manager[other] = None \/ manager[other].owner # manager.window
  BY OneCommandRuns DEF CommandRefreshed, LibraryInv, ManagerIsRight
<1>2. /\ cache' = cache /\ queue' = queue /\ playing' = playing /\ shown' = shown /\ finder' = finder
      /\ dirty' = dirty /\ used' \in Uses
  BY DEF CommandRefreshed, LibraryInv, ManagerIsRight, Uses
<1> DEFINE m == [manager EXCEPT !.rows = manager[name].value, !.busy = FALSE, !.note = name]
<1>3. manager' = Replaced(m, name, None)
  BY DEF CommandRefreshed, Filled, Replaced
<1>4. manager[name].value \in SUBSET Artifacts /\ name \in Notes
  BY <1>1 DEF Calls, Commands, Notes
<1>5. /\ m \in Windows /\ m.rows = manager[name].value /\ m.note = name
      /\ m.window = manager.window /\ m.query = manager.query /\ m.asking = manager.asking
      /\ m.list = manager.list /\ m.delete = manager.delete /\ m.clear = manager.clear
  BY <1>1, <1>4 DEF Windows
<1> HIDE DEF m
<1>6. manager' \in Windows /\ manager'[name] = None /\ \A f \in Fields \ {name} : manager'[f] = m[f]
  BY <1>3, <1>5, TaskIsReplaced
<1>7. /\ manager'.window = manager.window /\ manager'.query = manager.query
      /\ manager'.asking = manager.asking /\ manager'.rows = manager[name].value /\ manager'.list = None
      /\ \A other \in Names \ {name} : manager'[other] = m[other]
  BY <1>1, <1>5, <1>6, FieldsOf
<1>8. \A other \in Names \ {name} : manager'[other] = manager[other]
  BY <1>5, <1>7 DEF Names
<1>9. ~Mutating(manager')
  BY <1>1, <1>6, <1>7, <1>8 DEF Mutating, Names, Commands
<1>10. dirty \/ manager[name].value = manager.query \cap Stored(cache)
  BY <1>1, NoneAssumption DEF LibraryInv, AnswersAreRight, Commands
<1>11. \A other \in Commands :
           manager'[other] # None => other # name /\ manager'[other] = manager[other]
  BY <1>6, <1>8 DEF Commands, Names
<1>12. AnswersAreRight'
  BY <1>2, <1>7, <1>9, <1>10, <1>11 DEF LibraryInv, AnswersAreRight, Commands
<1>13. name \in Names /\ manager[name].phase \notin {"called", "listing"}
  BY <1>1 DEF Names, Commands
<1>14. QED BY <1>2, <1>6, <1>7, <1>8, <1>12, <1>13, TaskEnds

\* A deletion, or the refresh after it, has failed.
LEMMA CommandFailsKeeps ==
    ASSUME LibraryInv, NEW name \in Commands, CommandFails(name) PROVE LibraryInv'
<1>1. manager[name] \in Calls /\ manager[name].phase = "raised" /\ manager \in Windows
  BY OneCommandRuns DEF CommandFails, LibraryInv, ManagerIsRight
<1>2. /\ cache' = cache /\ queue' = queue /\ playing' = playing /\ shown' = shown /\ finder' = finder
      /\ dirty' = dirty /\ used' \in Uses
  BY DEF CommandFails, LibraryInv, ManagerIsRight, Uses
<1> DEFINE m == IF manager.window = 0 THEN manager ELSE Failed(manager)
<1>3. manager' = Replaced(m, name, None)
  BY DEF CommandFails, Replaced
<1>4. /\ m \in Windows /\ (m.window # 0 => m.note = "error")
      /\ m.window = manager.window /\ m.query = manager.query /\ m.asking = manager.asking
      /\ m.list = manager.list /\ m.delete = manager.delete /\ m.clear = manager.clear
  BY <1>1 DEF Windows, Failed, Notes
<1> HIDE DEF m
<1>5. manager' \in Windows /\ manager'[name] = None /\ \A f \in Fields \ {name} : manager'[f] = m[f]
  BY <1>3, <1>4, TaskIsReplaced
<1>6. /\ manager'.window = manager.window /\ manager'.query = manager.query
      /\ manager'.asking = manager.asking /\ manager'.note = m.note /\ manager'.list = manager.list
      /\ \A other \in Names \ {name} : manager'[other] = m[other]
  BY <1>4, <1>5, FieldsOf
<1>7. \A other \in Names \ {name} : manager'[other] = manager[other]
  BY <1>4, <1>6 DEF Names
<1>8. \A other \in Commands :
          manager'[other] # None => other # name /\ manager'[other] = manager[other]
  BY <1>5, <1>7 DEF Commands, Names
<1>9. AnswersAreRight'
  BY <1>2, <1>4, <1>6, <1>8 DEF LibraryInv, AnswersAreRight, Commands
<1>10. name \in Names /\ manager[name].phase \notin {"called", "listing"}
  BY <1>1 DEF Names, Commands
<1>11. QED BY <1>2, <1>5, <1>6, <1>7, <1>9, <1>10, TaskEnds

\* A deletion is done, and the rows are listed again.
LEMMA CommandReturnsKeeps ==
    ASSUME LibraryInv, NEW name \in Commands, CommandReturns(name) PROVE LibraryInv'
<1>1. /\ manager[name] \in Calls /\ manager[name] # None /\ manager[name].phase = "returned"
      /\ manager \in Windows /\ name \in Names
  BY OneCommandRuns DEF CommandReturns, LibraryInv, ManagerIsRight, Commands, Names
<1>2. /\ cache' = cache /\ playing' = playing /\ shown' = shown /\ finder' = finder
      /\ dirty' = dirty /\ used' \in Uses
  BY DEF CommandReturns, LibraryInv, ManagerIsRight, Uses
<1>3. ASSUME ~RefreshesAfterwards(manager, manager[name])
      PROVE  LibraryInv'
  <2>1. manager' = Replaced(manager, name, None) /\ queue' = queue
    BY <1>3 DEF CommandReturns, Replaced
  <2>2. manager' \in Windows /\ manager'[name] = None
        /\ \A f \in Fields \ {name} : manager'[f] = manager[f]
    BY <1>1, <2>1, TaskIsReplaced
  <2>3. /\ manager'.window = manager.window /\ manager'.query = manager.query
        /\ manager'.rows = manager.rows /\ manager'.busy = manager.busy /\ manager'.note = manager.note
        /\ manager'.asking = manager.asking /\ manager'.list = manager.list
        /\ \A other \in Names \ {name} : manager'[other] = manager[other]
    BY <2>2, FieldsOf
  <2>4. \A other \in Commands : manager'[other] # None => manager'[other] = manager[other]
    BY <2>2, <2>3 DEF Commands, Names
  <2>5. Mutating(manager') => Mutating(manager)
    BY <2>3, <2>4 DEF Mutating, Commands
  <2>6. AnswersAreRight'
    BY <1>2, <2>3, <2>4, <2>5 DEF LibraryInv, AnswersAreRight, Commands
  <2>7. manager[name].phase \notin {"called", "listing"}
    BY <1>1
  <2>8. QED BY <1>1, <1>2, <2>1, <2>2, <2>3, <2>6, <2>7, TaskEnds
<1>4. ASSUME RefreshesAfterwards(manager, manager[name])
      PROVE  LibraryInv'
  <2> DEFINE task == [manager[name] EXCEPT !.phase = "listing"]
  <2>1. manager' = Replaced(manager, name, task) /\ queue' = Append(queue, Job("list", manager.query, name))
    BY <1>4 DEF CommandReturns, Replaced
  <2>2. task \in Calls /\ task.phase = "listing" /\ task.owner = manager[name].owner
    BY <1>1 DEF Calls
  <2>3. manager[name].owner = manager.window /\ manager.window # 0
    BY <1>4 DEF RefreshesAfterwards
  <2> HIDE DEF task
  <2>4. manager' \in Windows /\ manager'[name] = task
        /\ \A f \in Fields \ {name} : manager'[f] = manager[f]
    BY <1>1, <2>1, <2>2, TaskIsReplaced
  <2>5. /\ manager'.window = manager.window /\ manager'.query = manager.query
        /\ manager'.rows = manager.rows /\ manager'.busy = manager.busy /\ manager'.note = manager.note
        /\ manager'.asking = manager.asking /\ manager'.list = manager.list
        /\ \A other \in Names \ {name} : manager'[other] = manager[other]
    BY <2>4, FieldsOf
  <2>6. Mutating(manager) /\ manager.list = None
        /\ \A other \in Commands \ {name} : manager[other] = None \/ manager[other].owner # manager.window
    BY <1>1, <2>3, OneCommandRuns
  <2>7. ManagerIsRight'
    <3>1. CASE name = "delete"
      BY <1>2, <2>2, <2>3, <2>4, <2>5, <2>6, <3>1 DEF LibraryInv, ManagerIsRight, Uses, Names, Commands
    <3>2. CASE name = "clear"
      BY <1>2, <2>2, <2>3, <2>4, <2>5, <2>6, <3>2 DEF LibraryInv, ManagerIsRight, Uses, Names, Commands
    <3>3. QED BY <3>1, <3>2 DEF Commands
  <2>8. Mutating(manager')
    <3>1. task # None
      BY <2>2, NoneAssumption
    <3>2. QED BY <2>2, <2>3, <2>4, <2>5, <3>1 DEF Mutating, Commands
  <2>9. ~(manager.window # 0 /\ ~manager.busy /\ manager.note # "error")
    BY <2>6 DEF LibraryInv, AnswersAreRight
  <2>10. AnswersAreRight'
    <3>1. \A other \in Commands : manager'[other].phase = "listed" => manager'[other] = manager[other]
      BY <2>2, <2>4, <2>5 DEF Commands, Names
    <3>2. QED BY <1>2, <2>5, <2>6, <2>9, <3>1 DEF LibraryInv, AnswersAreRight, Commands
  <2>11. ASSUME NEW k \in ToSet(queue)
         PROVE  Awaited(k)' /\ k.task # name
    <3>1. Awaited(k)
      BY DEF LibraryInv, QueueIsRight
    <3>2. k.task # name
      BY <1>1, <3>1 DEF Awaited
    <3>3. QED BY <1>2, <2>5, <3>1, <3>2 DEF Awaited
  <2>12. PICK query \in SUBSET Artifacts : query = manager.query
    BY <1>1 DEF Windows
  <2>13. PICK job \in Jobs : /\ job = Job("list", query, name)
                             /\ job.op = "list" /\ job.keys = query /\ job.task = name
    BY <1>1, JobsOfTheManager DEF Names
  <2>14. TypedQueue(queue') /\ \A k \in ToSet(queue') : k = job \/ k \in ToSet(queue)
    <3>1. TypedQueue(queue) /\ job.op # "select" /\ \A k \in ToSet(queue) : k.task # job.task
      BY <2>11, <2>13 DEF LibraryInv, QueueIsRight
    <3>2. queue' = Append(queue, job)
      BY <2>1, <2>12, <2>13
    <3>3. QED BY <3>1, <3>2, AppendIsTyped
  <2>15. Awaited(job)'
    BY <1>1, <2>2, <2>4, <2>5, <2>12, <2>13, NoneAssumption DEF Awaited, Names
  <2>16. FinderIsRight' /\ Consistent(cache')
    BY <1>2 DEF LibraryInv, FinderIsRight
  <2>17. QED BY <2>7, <2>10, <2>11, <2>14, <2>15, <2>16 DEF LibraryInv, QueueIsRight
<1>5. QED BY <1>3, <1>4

\* The manager closes; a clear from the settings goes on.
LEMMA CloseManagerKeeps == ASSUME LibraryInv, CloseManager PROVE LibraryInv'
<1> DEFINE keeps == manager.clear # None /\ manager.clear.owner = 0
           gone == {"list", "delete"} \cup (IF keeps THEN {} ELSE {"clear"})
           kept == IF keeps THEN manager.clear ELSE None
<1>1. /\ cache' = cache /\ playing' = playing /\ shown' = shown /\ finder' = finder
      /\ dirty' = dirty /\ used' \in Uses /\ queue' = Abandoned(gone)
  BY DEF CloseManager, LibraryInv, ManagerIsRight, Uses
<1>2. manager' = [window |-> 0, query |-> {}, rows |-> {}, busy |-> FALSE, note |-> "", asking |-> FALSE,
                  keys |-> {}, list |-> None, delete |-> None, clear |-> kept]
  BY DEF CloseManager, NoManager
<1>3. kept \in Calls \cup {None} /\ (kept # None => kept = manager.clear /\ kept.owner = 0)
  BY DEF LibraryInv, ManagerIsRight, Windows
<1>4. kept # None => kept.phase \notin {"listing", "listed"}
  BY <1>3 DEF LibraryInv, ManagerIsRight
<1> HIDE DEF kept
<1>5. manager' \in Windows
  BY <1>2, <1>3 DEF Windows, Notes
<1>6. /\ manager'.window = 0 /\ manager'.list = None /\ manager'.delete = None /\ manager'.clear = kept
      /\ manager'.asking = FALSE
  BY <1>2
<1>7. ManagerIsRight'
  BY <1>1, <1>3, <1>4, <1>5, <1>6 DEF ManagerIsRight, Uses
<1>8. AnswersAreRight'
  BY <1>3, <1>4, <1>6 DEF AnswersAreRight
<1>9. \A k \in ToSet(queue) : k.task # None /\ k.task \notin gone => Awaited(k)'
  <2> SUFFICES ASSUME NEW k \in ToSet(queue), k.task # None, k.task \notin gone
               PROVE  Awaited(k)'
    OBVIOUS
  <2>1. Awaited(k)
    BY DEF LibraryInv, QueueIsRight
  <2>2. k.task \notin {"list", "delete"} /\ (k.task = "clear" => keeps)
    OBVIOUS
  <2>3. k.task = "clear" => kept = manager.clear /\ kept # None
    BY <2>2 DEF kept
  <2>4. k.task = "clear" => k.op = "clear" /\ kept \in Calls /\ kept.phase = "called"
    BY <1>3, <1>4, <2>1, <2>3 DEF Awaited, Names
  <2>5. QED BY <1>1, <1>6, <2>1, <2>2, <2>4 DEF Awaited, Names
<1>10. TypedQueue(queue') /\ \A k \in ToSet(queue') : Awaited(k)'
  BY <1>1, <1>9, StillAwaited
<1>11. FinderIsRight' /\ Consistent(cache')
  BY <1>1 DEF LibraryInv, FinderIsRight
<1>12. QED BY <1>7, <1>8, <1>10, <1>11 DEF LibraryInv, QueueIsRight

-------------------------------------------------------------------------------
(* The cache's thread.                                                     *)

\* A call that ends alters nothing of the manager but the task that awaits it.
LEMMA ToldKeepsTheWindow ==
    ASSUME LibraryInv, NEW job \in ToSet(queue), NEW outcome \in {"returned", "raised"},
           Told(job, outcome)
    PROVE  /\ manager'.window = manager.window /\ manager'.query = manager.query
           /\ manager'.rows = manager.rows /\ manager'.busy = manager.busy /\ manager'.note = manager.note
           /\ \A n \in Names : /\ n # job.task => manager'[n] = manager[n]
                               /\ manager'[n] = None <=> manager[n] = None
                               /\ manager[n] # None => manager'[n].owner = manager[n].owner
           /\ Mutating(manager') <=> Mutating(manager)
<1>1. DOMAIN manager = Fields
  BY DEF LibraryInv, ManagerIsRight, Windows, Fields
<1>2. CASE job.task \notin Names
  <2>1. manager' = manager
    BY <1>2 DEF Told, Names
  <2>2. QED BY <2>1
<1>3. CASE job.task \in Names
  <2>1. /\ manager'[job.task] \in Calls /\ manager'[job.task].owner = manager[job.task].owner
        /\ \A field \in Fields \ {job.task} : manager'[field] = manager[field]
    BY <1>1, <1>3, ToldIsAnswered
  <2>2. manager[job.task] \in Calls
    BY <1>3 DEF LibraryInv, QueueIsRight, Awaited
  <2>3. \A n \in Names : /\ n # job.task => manager'[n] = manager[n]
                         /\ manager'[n] = None <=> manager[n] = None
                         /\ manager[n] # None => manager'[n].owner = manager[n].owner
    BY <2>1, <2>2, NoneAssumption DEF Fields, Names
  <2>4. /\ manager'.window = manager.window /\ manager'.query = manager.query
        /\ manager'.rows = manager.rows /\ manager'.busy = manager.busy /\ manager'.note = manager.note
    BY <1>3, <2>1 DEF Fields, Names
  <2>5. Mutating(manager') <=> Mutating(manager)
    BY <2>3, <2>4 DEF Mutating, Names
  <2>6. QED BY <2>3, <2>4, <2>5
<1>4. QED BY <1>2, <1>3

\* Whatever a call did to the cache, what the manager was told before it, or shows, is
\* either still right or known to be stale.
LEMMA AnswersStayRight ==
    ASSUME LibraryInv, NEW job \in ToSet(queue), NEW outcome \in {"returned", "raised"},
           Told(job, outcome),
           \/ outcome = "raised" /\ cache' = cache /\ dirty' = dirty
           \/ /\ outcome = "returned" /\ job.op = "list" /\ cache' = cache
              /\ job.task = None => dirty' = dirty
           \/ /\ outcome = "returned" /\ job.op # "list"
              /\ dirty' \/ (job.task \in Commands /\ manager[job.task].owner = manager.window)
    PROVE  AnswersAreRight'
<1>1. /\ manager'.window = manager.window /\ manager'.query = manager.query
      /\ manager'.rows = manager.rows /\ manager'.busy = manager.busy /\ manager'.note = manager.note
      /\ \A n \in Names : /\ n # job.task => manager'[n] = manager[n]
                          /\ manager'[n] = None <=> manager[n] = None
                          /\ manager[n] # None => manager'[n].owner = manager[n].owner
      /\ Mutating(manager') <=> Mutating(manager)
  BY ToldKeepsTheWindow
<1>2. Awaited(job)
  BY DEF LibraryInv, QueueIsRight
<1>3. job.task \in Names => manager[job.task] # None
  BY <1>2, NoneAssumption DEF Awaited
<1>4. job.task \in Names =>
          /\ manager'[job.task].phase = IF outcome = "raised" THEN "raised"
                                        ELSE IF manager[job.task].phase = "listing" THEN "listed" ELSE "returned"
          /\ manager'[job.task].value = IF job.op = "list" THEN job.keys \cap Stored(cache)
                                        ELSE manager[job.task].value
  BY ToldIsAnswered
<1>5. job.task \in Names \cup {"apply", None}
  BY QueuedAreJobs DEF LibraryInv, QueueIsRight, Jobs, Names
<1> DEFINE idle == manager.window # 0 /\ ~manager.busy /\ manager.note # "error"
<1>6. ASSUME outcome = "raised", cache' = cache, dirty' = dirty
      PROVE  AnswersAreRight'
  <2>1. \A n \in Names : manager'[n].phase \in {"returned", "listed"} => n # job.task /\ manager'[n] = manager[n]
    BY <1>1, <1>4, <1>6
  <2>2. QED BY <1>1, <1>6, <2>1 DEF LibraryInv, AnswersAreRight, Names
<1>7. ASSUME outcome = "returned", job.op = "list", cache' = cache, job.task = None => dirty' = dirty
      PROVE  AnswersAreRight'
  <2>1. CASE job.task \notin Names
    <3>1. job.task = None
      BY <1>2, <1>5, <1>7, <2>1 DEF Awaited
    <3>2. dirty' = dirty /\ manager' = manager
      BY <1>7, <2>1, <3>1 DEF Told, Names
    <3>3. QED BY <1>7, <3>2 DEF LibraryInv, AnswersAreRight
  <2>2. CASE job.task = "list"
    <3>1. manager'.list.value = manager'.query \cap Stored(cache)
      BY <1>1, <1>2, <1>4, <1>7, <2>2 DEF Awaited, Names
    <3>2. ~Mutating(manager) /\ manager.list # None /\ manager.window # 0
      BY <1>3, <2>2 DEF LibraryInv, ManagerIsRight, Names
    <3>3. \A n \in Commands : manager[n] # None => manager[n].phase # "listed"
      BY <3>2, OneCommandRuns
    <3>4. \A n \in Commands : manager'[n] = manager[n]
      BY <1>1, <2>2 DEF Commands, Names
    <3>5. ~idle
      BY <3>2 DEF LibraryInv, AnswersAreRight
    <3>6. QED BY <1>1, <1>7, <3>1, <3>3, <3>4, <3>5 DEF AnswersAreRight, Commands
  <2>3. CASE job.task \in Commands
    <3>1. manager'[job.task].value = manager'.query \cap Stored(cache)
      BY <1>1, <1>2, <1>4, <1>7, <2>3 DEF Awaited, Names, Commands
    <3>2. manager[job.task].phase = "listing"
      BY <1>2, <1>7, <2>3 DEF Awaited, Names, Commands
    <3>3. /\ Mutating(manager) /\ manager.list = None
          /\ \A other \in Commands \ {job.task} :
                manager[other] = None \/ manager[other].owner # manager.window
      BY <1>3, <2>3, <3>2, OneCommandRuns DEF Commands, Names
    <3>4. ~idle /\ manager'.list = None
      BY <1>1, <3>3 DEF LibraryInv, AnswersAreRight, Names
    <3>5. \A n \in Commands \ {job.task} : manager'[n] # None => manager'[n].phase # "listed"
      <4> SUFFICES ASSUME NEW n \in Commands \ {job.task}, manager[n] # None
                   PROVE  manager[n].phase # "listed"
        BY <1>1 DEF Commands, Names
      <4>1. QED BY <3>3, OneCommandRuns
    <3>6. QED BY <1>1, <1>7, <3>1, <3>4, <3>5 DEF AnswersAreRight, Commands
  <2>4. QED BY <2>1, <2>2, <2>3 DEF Names, Commands
<1>8. ASSUME outcome = "returned", job.op # "list", dirty'
      PROVE  AnswersAreRight'
  BY <1>1, <1>8 DEF LibraryInv, AnswersAreRight, Names
<1>9. ASSUME outcome = "returned", job.op # "list", job.task \in Commands,
             manager[job.task].owner = manager.window
      PROVE  AnswersAreRight'
  <2>1. job.task \in Names
    BY <1>9 DEF Names, Commands
  <2>2. manager'[job.task].phase = "returned"
    BY <1>2, <1>4, <1>9, <2>1 DEF Awaited
  <2>3. /\ Mutating(manager) /\ manager.list = None
        /\ \A other \in Commands \ {job.task} :
              manager[other] = None \/ manager[other].owner # manager.window
    BY <1>3, <1>9, <2>1, OneCommandRuns
  <2>4. ~idle /\ manager'.list = None
    BY <1>1, <2>3 DEF LibraryInv, AnswersAreRight, Names
  <2>5. \A n \in Commands : manager'[n] # None => manager'[n].phase # "listed"
    <3> SUFFICES ASSUME NEW n \in Commands, manager'[n] # None, n # job.task
                 PROVE  manager'[n].phase # "listed"
      BY <2>2
    <3>1. manager'[n] = manager[n]
      BY <1>1 DEF Commands, Names
    <3>2. QED BY <2>3, <3>1, OneCommandRuns
  <2>6. QED BY <1>1, <2>4, <2>5 DEF AnswersAreRight, Commands
<1>10. QED BY <1>6, <1>7, <1>8, <1>9

\* The calls that end the choice for k: another for the same track, or a deletion.
Takes(job, k) ==
    \/ job.op = "select" /\ SelectionKey(job.choice.track) = k
    \/ job.op = "delete" /\ cache.binds[k] \in job.keys
    \/ job.op = "clear"

\* No transaction breaks the schema, whatever was queued.
LEMMA EffectIsConsistent ==
    ASSUME LibraryInv, NEW job \in ToSet(queue)
    PROVE  /\ Consistent(Effect(job)) /\ (job.op = "list" => Effect(job) = cache)
           /\ Keeps(cache, Effect(job), {k \in DOMAIN cache.binds : ~Takes(job, k)})
<1>1. Consistent(cache) /\ job \in Jobs /\ (job.op = "select" => job.choice \in Picks)
  BY QueuedAreJobs DEF LibraryInv, QueueIsRight
<1>2. CASE job.op = "select"
  <2>1. job.choice.artifact \in Artifacts /\ job.choice.track \in Tracks
    BY <1>1, <1>2 DEF Picks
  <2>2. Effect(job) = Select(cache, job.choice.track, job.choice.artifact)
    BY <1>2 DEF Effect
  <2>3. {k \in DOMAIN cache.binds : ~Takes(job, k)}
            \subseteq DOMAIN cache.binds \ {SelectionKey(job.choice.track)}
    BY <1>2 DEF Takes
  <2>4. /\ Consistent(Effect(job))
        /\ Keeps(cache, Effect(job), DOMAIN cache.binds \ {SelectionKey(job.choice.track)})
    BY <1>1, <2>1, <2>2, SelectIsConsistent
  <2>5. QED BY <1>2, <2>3, <2>4 DEF Keeps
<1>3. CASE job.op = "delete"
  <2>1. Effect(job) = Without(cache, job.keys)
    BY <1>3 DEF Effect, DeleteMany
  <2>2. Consistent(Effect(job))
    BY <1>1, <2>1, WithoutIsConsistent
  <2>3. Keeps(cache, Effect(job), {k \in DOMAIN cache.binds : ~Takes(job, k)})
    BY <1>1, <1>3, <2>1, WithoutIsTabled DEF Keeps, Takes, Consistent
  <2>4. QED BY <1>3, <2>2, <2>3
<1>4. CASE job.op = "clear"
  <2>1. Effect(job) = Without(cache, Stored(cache))
    BY <1>4 DEF Effect, Clear
  <2>2. Consistent(Effect(job))
    BY <1>1, <2>1, WithoutIsConsistent
  <2>3. QED BY <1>4, <2>2 DEF Keeps, Takes
<1>5. CASE job.op = "list"
  BY <1>1, <1>5 DEF Effect, Keeps
<1>6. QED BY <1>1, <1>2, <1>3, <1>4, <1>5 DEF Jobs

\* The cache's thread runs the next job, and tells who awaits it.
LEMMA RunKeeps == ASSUME LibraryInv, Run PROVE LibraryInv'
<1>1. TypedQueue(queue) /\ queue # <<>>
  BY DEF Run, LibraryInv, QueueIsRight
<1>2. PICK job \in ToSet(queue) : job = Head(queue)
  BY <1>1, TailIsTyped
<1>3. /\ TypedQueue(queue')
      /\ \A k \in ToSet(queue') : k.task = None \/ (k \in ToSet(queue) /\ k.task # job.task)
  BY <1>1, <1>2, TailIsTyped DEF Run
<1>4. Told(job, "returned") /\ cache' = Effect(job)
  BY <1>2 DEF Run
<1>5. playing' = playing /\ shown' = shown /\ used' \in Uses
  BY DEF Run, LibraryInv, ManagerIsRight, Uses
<1>6. FinderIsRight' /\ ManagerIsRight' /\ QueueIsRight'
  <2>1. "returned" \in {"returned", "raised"}
    OBVIOUS
  <2>2. QED BY <1>3, <1>4, <1>5, <2>1, ToldIsRight DEF Uses
<1>7. Consistent(cache')
  BY <1>4, EffectIsConsistent
<1>8. AnswersAreRight'
  <2>1. CASE job.op = "list"
    <3>1. cache' = cache /\ (job.task = None => dirty' = dirty)
      BY <1>2, <1>4, <2>1, EffectIsConsistent DEF Run
    <3>2. QED BY <1>4, <2>1, <3>1, AnswersStayRight
  <2>2. CASE job.op # "list"
    <3>1. dirty' \/ (job.task \in Commands /\ manager[job.task].owner = manager.window)
      BY <1>2, <2>2 DEF Run, Commands
    <3>2. QED BY <1>4, <2>2, <3>1, AnswersStayRight
  <2>3. QED BY <2>1, <2>2
<1>9. QED BY <1>6, <1>7, <1>8 DEF LibraryInv

\* A call that fails, or is taken for failed, leaves the cache alone.
LEMMA RaisedKeeps ==
    ASSUME LibraryInv, NEW job \in ToSet(queue), Told(job, "raised"), TypedQueue(queue'),
           \A k \in ToSet(queue') : k.task = None \/ (k \in ToSet(queue) /\ k.task # job.task),
           cache' = cache, playing' = playing, shown' = shown, dirty' = dirty, used' \in Uses
    PROVE  LibraryInv'
<1>1. FinderIsRight' /\ ManagerIsRight' /\ QueueIsRight'
  <2>1. "raised" \in {"returned", "raised"}
    OBVIOUS
  <2>2. QED BY <2>1, ToldIsRight DEF Uses
<1>2. AnswersAreRight'
  BY AnswersStayRight
<1>3. QED BY <1>1, <1>2 DEF LibraryInv

\* SQLite fails, and the transaction is rolled back.
LEMMA FailKeeps == ASSUME LibraryInv, Fail PROVE LibraryInv'
<1>1. TypedQueue(queue) /\ queue # <<>>
  BY DEF Fail, LibraryInv, QueueIsRight
<1>2. PICK job \in ToSet(queue) : job = Head(queue)
  BY <1>1, TailIsTyped
<1>3. /\ TypedQueue(queue')
      /\ \A k \in ToSet(queue') : k.task = None \/ (k \in ToSet(queue) /\ k.task # job.task)
  BY <1>1, <1>2, TailIsTyped DEF Fail
<1>4. used' \in Uses
  BY UsesCount DEF Fail
<1>5. QED BY <1>2, <1>3, <1>4, RaisedKeeps DEF Fail

\* The deadline of a call passes.
LEMMA TimeOutKeeps == ASSUME LibraryInv, NEW i \in DOMAIN queue, TimeOut(i) PROVE LibraryInv'
<1>1. TypedQueue(queue) /\ queue[i].task # None
  BY DEF TimeOut, LibraryInv, QueueIsRight
<1>2. PICK job \in ToSet(queue) : job = queue[i]
  BY DEF ToSet
<1>3. queue' = Withdrawn(queue, i)
  BY DEF TimeOut, Withdrawn
<1>4. /\ TypedQueue(queue')
      /\ \A k \in ToSet(queue') : k.task = None \/ (k \in ToSet(queue) /\ k.task # job.task)
  BY <1>1, <1>2, <1>3, WithdrawnIsTyped
<1>5. used' \in Uses
  BY UsesCount DEF TimeOut
<1>6. QED BY <1>2, <1>4, <1>5, RaisedKeeps DEF TimeOut

-------------------------------------------------------------------------------
(* The others.                                                             *)

\* What others do to the cache is known to make the manager's rows stale.
LEMMA OthersMove ==
    ASSUME LibraryInv, Consistent(cache'), ~dirty' => ~dirty /\ Stored(cache') = Stored(cache),
           queue' = queue, playing' = playing, shown' = shown, finder' = finder, manager' = manager,
           used' \in Uses
    PROVE  LibraryInv'
<1>1. FinderIsRight' /\ ManagerIsRight' /\ \A k \in ToSet(queue) : Awaited(k)'
  BY DEF LibraryInv, FinderIsRight, ManagerIsRight, Uses, QueueIsRight, Awaited
<1>2. AnswersAreRight'
  <2>1. CASE dirty'
    BY <2>1 DEF LibraryInv, AnswersAreRight
  <2>2. CASE ~dirty'
    BY <2>2 DEF LibraryInv, AnswersAreRight
  <2>3. QED BY <2>1, <2>2
<1>3. QED BY <1>1, <1>2 DEF LibraryInv, QueueIsRight

\* The resolver looks for a row.
LEMMA ResolverReadsKeeps ==
    ASSUME LibraryInv, NEW t \in Tracks, ResolverReads(t) PROVE LibraryInv'
<1>1. used' \in Uses
  BY UsesCount DEF ResolverReads, Other
<1>2. Consistent(cache')
  BY LookupIsConsistent, LookupManualIsConsistent DEF ResolverReads, LibraryInv
<1>3. ~dirty' => ~dirty /\ Stored(cache') = Stored(cache)
  BY DEF ResolverReads
<1>4. QED BY <1>1, <1>2, <1>3, OthersMove DEF ResolverReads

\* The resolver stores what a provider answered.
LEMMA ResolverStoresKeeps ==
    ASSUME LibraryInv, NEW a \in Artifacts, ResolverStores(a) PROVE LibraryInv'
<1>1. used' \in Uses
  BY UsesCount DEF ResolverStores, Other
<1>2. Consistent(cache')
  BY StoreIsConsistent DEF ResolverStores, LibraryInv
<1>3. QED BY <1>1, <1>2, OthersMove DEF ResolverStores

\* A row can be parsed no more.
LEMMA SpoilKeeps == ASSUME LibraryInv, NEW a \in Artifacts, Spoil(a) PROVE LibraryInv'
<1>1. used' \in Uses
  BY UsesCount DEF Spoil, Other
<1>2. Consistent(cache') /\ Stored(cache') = Stored(cache)
  BY UnreadableIsConsistent DEF Spoil, LibraryInv
<1>3. QED BY <1>1, <1>2, OthersMove DEF Spoil

\* A session begins with a consistent cache and no window.
LEMMA LibraryStarts == ASSUME Init PROVE LibraryInv
<1>1. Consistent(cache) /\ queue = <<>> /\ finder = Closed /\ manager = NoManager
      /\ playing \in Tracks \cup {None} /\ shown = None
  BY LibraryAssumption DEF Init
<1>2. /\ finder.window = 0 /\ finder.picked = None /\ finder.status = None /\ finder.apply = None
      /\ finder.search = None /\ finder.busy = FALSE
  BY <1>1 DEF Closed
<1>3. finder.busy \in BOOLEAN
  BY <1>2
<1>4. finder.window \in Nat /\ DOMAIN finder = DOMAIN Closed
  BY <1>1, <1>2
<1>5. FinderIsRight
  BY <1>1, <1>2, <1>3, <1>4 DEF FinderIsRight
<1>6. manager = [window |-> 0, query |-> {}, rows |-> {}, busy |-> FALSE, note |-> "", asking |-> FALSE,
                 keys |-> {}, list |-> None, delete |-> None, clear |-> None]
  BY <1>1 DEF NoManager
<1>7. manager \in Windows
  BY <1>6 DEF Windows, Notes
<1>8. used \in [{"opens", "commands", "faults", "others"} -> Nat]
  BY DEF Init
<1>9. ManagerIsRight /\ AnswersAreRight
  <2>1. /\ manager.list = None /\ manager.delete = None /\ manager.clear = None
        /\ manager["delete"] = None /\ manager["clear"] = None
        /\ manager.window = 0 /\ manager.asking = FALSE /\ manager.busy = FALSE /\ manager.keys = {}
        /\ manager.note = ""
    BY <1>6
  <2>2. ManagerIsRight
    BY <1>7, <1>8, <2>1 DEF ManagerIsRight, Mutating
  <2>3. AnswersAreRight
    BY <2>1 DEF AnswersAreRight
  <2>4. QED BY <2>2, <2>3
<1>10. QueueIsRight
  BY <1>1 DEF QueueIsRight, TypedQueue, ToSet
<1>11. QED BY <1>1, <1>5, <1>9, <1>10 DEF LibraryInv

\* Every step keeps the invariant.
LEMMA LibraryStep == ASSUME LibraryInv, [Next]_vars PROVE LibraryInv'
<1>1. ASSUME UNCHANGED vars PROVE LibraryInv'
  BY <1>1 DEF vars, LibraryInv, FinderIsRight, ManagerIsRight, QueueIsRight, Awaited, AnswersAreRight
<1>2. ASSUME Works PROVE LibraryInv'
  BY <1>2, RunKeeps, ApplyEndsKeeps, ListEndsKeeps, CommandReturnsKeeps, CommandRefreshedKeeps,
     CommandFailsKeeps, SearchEndsKeeps DEF Works, Commands
<1>3. ASSUME User PROVE LibraryInv'
  BY <1>3, OpenFinderKeeps, CloseFinderKeeps, ApplyKeeps, SearchForKeeps, PickKeeps, FilterHighKeeps,
     OpenManagerKeeps, CloseManagerKeeps, ClearFromSettingsKeeps, ListKeeps, AskToDeleteKeeps,
     ConfirmKeeps, LibraryAssumption DEF User
<1>4. QED
  BY <1>1, <1>2, <1>3, FailKeeps, TimeOutKeeps, PlayKeeps, ResolverReadsKeeps, ResolverStoresKeeps,
     SpoilKeeps DEF Next

\* However the windows, the cache's thread, the player and the resolver interleave, and
\* whichever calls fail, time out or are cancelled.
THEOREM LibraryIsRight == Spec => []LibraryInv
<1>1. Init => LibraryInv
  BY LibraryStarts
<1>2. LibraryInv /\ [Next]_vars => LibraryInv'
  BY LibraryStep
<1>3. QED BY <1>1, <1>2, PTL DEF Spec

\* However searches, choices, deletions and evictions follow each other, the rows nobody
\* chose stay within the limit, the order of access stays an order, and no choice is left
\* that names a row that is gone.
THEOREM CacheStaysConsistent == Spec => []CacheIsConsistent
<1>1. LibraryInv => CacheIsConsistent
  BY DEF LibraryInv, CacheIsConsistent
<1>2. QED BY <1>1, LibraryIsRight, PTL

\* An idle manager lists the rows of the cache that match its latest query, as long as
\* nobody else has written since it last looked, however many queries, deletions,
\* windows and failures came before.
THEOREM ManagerAlwaysShowsTheCache == Spec => []ManagerShowsTheCache
<1>1. LibraryInv => ManagerShowsTheCache
  BY DEF LibraryInv, AnswersAreRight, ManagerShowsTheCache
<1>2. QED BY <1>1, LibraryIsRight, PTL

-------------------------------------------------------------------------------
(* What becomes of the choices.                                            *)

\* A step that keeps the choices whose rows can be parsed, but for those it ends.
KeptOrTaken ==
    \A k \in DOMAIN cache.binds : cache.rows[cache.binds[k]].valid =>
        \/ k \in DOMAIN cache'.binds /\ cache'.binds[k] = cache.binds[k]
        \/ queue # <<>> /\ queue' = Tail(queue) /\ Takes(Head(queue), k)

\* Steps that leave the cache alone keep its choices.
LEMMA UntouchedIsKept == ASSUME cache' = cache PROVE KeptOrTaken
BY DEF KeptOrTaken

\* The cache's thread ends what it was told to end.
LEMMA RunEndsWhatItTakes == ASSUME LibraryInv, Run PROVE KeptOrTaken
<1>1. TypedQueue(queue) /\ queue # <<>>
  BY DEF Run, LibraryInv, QueueIsRight
<1>2. PICK job \in ToSet(queue) : job = Head(queue)
  BY <1>1, TailIsTyped
<1>3. cache' = Effect(job) /\ queue' = Tail(queue)
  BY <1>2 DEF Run
<1>4. Keeps(cache, Effect(job), {k \in DOMAIN cache.binds : ~Takes(job, k)})
  BY EffectIsConsistent
<1>5. QED BY <1>1, <1>2, <1>3, <1>4 DEF KeptOrTaken, Keeps

\* The resolver reads, which deletes what cannot be parsed, and stores, which evicts.
LEMMA OthersKeepChoices ==
    ASSUME LibraryInv,
           \/ \E t \in Tracks : ResolverReads(t)
           \/ \E a \in Artifacts : ResolverStores(a) \/ Spoil(a)
    PROVE  KeptOrTaken
<1>1. Consistent(cache)
  BY DEF LibraryInv
<1>2. ASSUME NEW t \in Tracks, ResolverReads(t)
      PROVE  KeptOrTaken
  BY <1>1, <1>2, LookupIsConsistent, LookupManualIsConsistent DEF ResolverReads, KeptOrTaken
<1>3. ASSUME NEW a \in Artifacts, ResolverStores(a)
      PROVE  KeptOrTaken
  BY <1>1, <1>3, StoreIsConsistent DEF ResolverStores, KeptOrTaken, Keeps
<1>4. ASSUME NEW a \in Artifacts, Spoil(a)
      PROVE  KeptOrTaken
  BY <1>1, <1>4, UnreadableIsConsistent DEF Spoil, KeptOrTaken
<1>5. QED BY <1>2, <1>3, <1>4

\* However full the cache is, and whoever reads and writes it meanwhile, what the user
\* chose for a track stays chosen until the user chooses again or deletes, or a row can
\* be parsed no more: an eviction never takes it (LyricsCacheStorage's prune).
THEOREM ChoicesOutlive == Spec => [][KeptOrTaken]_vars
<1>1. LibraryInv /\ [Next]_vars => KeptOrTaken \/ UNCHANGED vars
  <2> SUFFICES ASSUME LibraryInv, Next
               PROVE  KeptOrTaken
    OBVIOUS
  <2>1. ASSUME Works
        PROVE  KeptOrTaken
    <3>1. Run \/ cache' = cache
      BY <2>1 DEF Works, ApplyEnds, ListEnds, CommandReturns, CommandRefreshed, CommandFails, SearchEnds
    <3>2. QED BY <3>1, RunEndsWhatItTakes, UntouchedIsKept
  <2>2. ASSUME User
        PROVE  KeptOrTaken
    <3>1. cache' = cache
      BY <2>2 DEF User, OpenFinder, CloseFinder, Apply, SearchFor, Pick, FilterHigh, OpenManager,
         CloseManager, ClearFromSettings, List, AskToDelete, Confirm
    <3>2. QED BY <3>1, UntouchedIsKept
  <2>3. ASSUME Fail \/ (\E i \in DOMAIN queue : TimeOut(i)) \/ (\E t \in Tracks : Play(t))
        PROVE  KeptOrTaken
    <3>1. cache' = cache
      BY <2>3 DEF Fail, TimeOut, Play
    <3>2. QED BY <3>1, UntouchedIsKept
  <2>4. QED BY <2>1, <2>2, <2>3, OthersKeepChoices DEF Next
<1>2. LibraryInv /\ [Next]_vars => [KeptOrTaken]_vars
  BY <1>1
<1>3. QED BY <1>2, LibraryIsRight, PTL DEF Spec

-------------------------------------------------------------------------------
(* What the display shows as chosen.                                       *)

\* The cache has the choice under the key, in a row that a lookup takes.
Holds(c, key, a) == key \in DOMAIN c.binds /\ c.binds[key] = a /\ c.rows[a].current

\* The choice of the search window is written, and not displayed yet.
Saved == finder.apply # None /\ finder.apply.phase = "returned"

\* The call of the window, and its job, are for the track of the window.
CallsAgree ==
    /\ finder.apply # None => finder.apply.choice.track = finder.track
    /\ \A job \in ToSet(queue) : job.task = "apply" => job.choice = finder.apply.choice

\* A window that is open over a choice is for a track of the name that plays.
WindowAgrees ==
    shown # None /\ NameAgrees(playing) =>
        /\ playing \in Tracks
        /\ finder.window # 0 => SelectionKey(finder.track) = SelectionKey(playing)

\* The cache holds what is displayed, and what is about to be displayed.
RowsAgree ==
    /\ \/ halfway \/ shown = None \/ ~NameAgrees(playing) \/ Saved
       \/ Holds(cache, SelectionKey(playing), shown)
    /\ Saved => halfway \/ Holds(cache, SelectionKey(finder.track), finder.apply.choice.artifact)

ChoicesAgree == CallsAgree /\ WindowAgrees /\ RowsAgree

\* A row that a lookup takes is one in the next cache, as long as it is there.
RowsStay(c, d) == \A a \in Stored(c) \cap Stored(d) : c.rows[a].current => d.rows[a].current

\* What one cache holds another does.
HoldsOn(c, d) == \A key \in DOMAIN c.binds : Holds(c, key, c.binds[key]) => Holds(d, key, c.binds[key])

\* Choices that stay are held, if their rows are taken still.
LEMMA KeptAreHeld ==
    ASSUME NEW c, Consistent(c), NEW d, Consistent(d), Keeps(c, d, DOMAIN c.binds), RowsStay(c, d)
    PROVE  HoldsOn(c, d)
<1>1. \A k \in DOMAIN c.binds : c.binds[k] \in Stored(c) /\ c.binds[k] \in Stored(d)
  BY DEF Consistent, Tabled, Keeps
<1>2. QED BY <1>1 DEF HoldsOn, Holds, Keeps, RowsStay

\* A row that is written is taken, and the others are as they were.
LEMMA WrittenStay ==
    ASSUME NEW c, Tabled(c), NEW a \in Artifacts, NEW mode \in Modes, NEW chosen \in BOOLEAN
    PROVE  LET d == Written(c, a, mode, chosen)
           IN  d.rows[a].current /\ \A b \in Stored(c) \ {a} : d.rows[b] = c.rows[b]
<1> DEFINE only == chosen \/ (a \in Stored(c) /\ c.rows[a].only)
           row == [mode |-> mode, only |-> only, valid |-> TRUE, current |-> TRUE]
           rows == [b \in Stored(c) \cup {a} |-> IF b = a THEN row ELSE c.rows[b]]
           d == Written(c, a, mode, chosen)
<1>1. DOMAIN c = {"rows", "recent", "binds"}
  BY DEF Tabled
<1>2. d = Touched([c EXCEPT !.rows = rows], a)
  BY DEF Written
<1>3. rows[a].current /\ \A b \in Stored(c) \ {a} : rows[b] = c.rows[b]
  OBVIOUS
<1> HIDE DEF rows, d
<1>4. d.rows = rows
  BY <1>1, <1>2 DEF Touched
<1>5. QED BY <1>3, <1>4 DEF d

\* An eviction leaves the rows that stay as they were.
LEMMA PrunedStay ==
    ASSUME NEW c, Tabled(c)
    PROVE  Stored(Pruned(c)) \subseteq Stored(c) /\ \A a \in Stored(Pruned(c)) : Pruned(c).rows[a] = c.rows[a]
BY WithoutIsTabled DEF Pruned

\* What a provider answered, once stored, leaves every choice held.
LEMMA StoreHoldsOn ==
    ASSUME NEW c, Consistent(c), NEW a \in Artifacts, NEW conf
    PROVE  HoldsOn(c, Store(c, a, conf))
<1> DEFINE d == Store(c, a, conf)
           w == Written(c, a, "auto", FALSE)
<1>1. Consistent(d) /\ Keeps(c, d, DOMAIN c.binds)
  BY StoreIsConsistent
<1>2. CASE conf = High
  <2>1. Tabled(w) /\ Stored(w) = Stored(c) \cup {a} /\ w.rows[a].current
        /\ \A b \in Stored(c) \ {a} : w.rows[b] = c.rows[b]
    BY WrittenIsTabled, WrittenStay DEF Consistent, Modes
  <2>2. d = Pruned(w)
    BY <1>2 DEF Store
  <2> HIDE DEF w, d
  <2>3. \A b \in Stored(d) : b \in Stored(w) /\ d.rows[b] = w.rows[b]
    BY <2>1, <2>2, PrunedStay
  <2>4. RowsStay(c, d)
    BY <2>1, <2>3 DEF RowsStay
  <2>5. HoldsOn(c, d)
    BY <1>1, <2>4, KeptAreHeld
  <2>6. QED BY <2>5 DEF d
<1>3. CASE conf # High
  BY <1>3 DEF Store, HoldsOn
<1>4. QED BY <1>2, <1>3

\* A choice that is written is held.
LEMMA SelectHolds ==
    ASSUME NEW c, Consistent(c), NEW track \in Tracks, NEW a \in Artifacts
    PROVE  Holds(Select(c, track, a), SelectionKey(track), a)
<1> DEFINE d == Select(c, track, a)
           w == Written(c, a, "manual", TRUE)
           binds == [k \in DOMAIN c.binds \cup {SelectionKey(track)} |->
                        IF k = SelectionKey(track) THEN a ELSE w.binds[k]]
           v == [w EXCEPT !.binds = binds]
<1>1. Consistent(d) /\ SelectionKey(track) \in DOMAIN d.binds /\ d.binds[SelectionKey(track)] = a
  BY SelectIsConsistent
<1>2. Tabled(w) /\ w.rows[a].current /\ w.binds = c.binds
  BY WrittenIsTabled, WrittenStay DEF Consistent, Modes
<1>3. d = Pruned(v)
  BY <1>2 DEF Select
<1>4. a \in Stored(d)
  BY <1>1 DEF Consistent, Tabled
<1> HIDE DEF w, binds
<1>5. v.rows = w.rows
  BY <1>2 DEF Tabled
<1> HIDE DEF v, d
<1>6. d.rows[a] = v.rows[a]
  BY <1>3, <1>4 DEF Pruned, Without, Stored
<1>7. QED BY <1>1, <1>2, <1>5, <1>6 DEF Holds, d

-------------------------------------------------------------------------------
(* Steps.                                                                  *)

\* Jobs that wait for the window are as before.
SameCalls == \A k \in ToSet(queue') : k.task = "apply" => k \in ToSet(queue)

\* A step of others: the cache may hold more, or is known to be ahead of the display.
LEMMA OthersAgree ==
    ASSUME LibraryInv, ChoicesAgree, playing' = playing, shown' = shown,
           finder'.window = finder.window, finder'.track = finder.track, finder'.apply = finder.apply,
           SameCalls, halfway' \/ (~halfway /\ HoldsOn(cache, cache'))
    PROVE  ChoicesAgree'
<1>1. CallsAgree' /\ WindowAgrees' /\ (Saved' <=> Saved)
  BY DEF ChoicesAgree, CallsAgree, WindowAgrees, SameCalls, Saved
<1>2. \A key, a : ~halfway' /\ Holds(cache, key, a) => Holds(cache', key, a)
  BY DEF HoldsOn, Holds
<1>3. RowsAgree'
  BY <1>1, <1>2 DEF ChoicesAgree, RowsAgree
<1>4. QED BY <1>1, <1>3 DEF ChoicesAgree

\* A cache holds on to what it holds.
LEMMA SameHoldsOn == ASSUME cache' = cache, halfway' = halfway PROVE halfway' \/ (~halfway /\ HoldsOn(cache, cache'))
BY DEF HoldsOn

\* A job that another task adds is not the window's.
LEMMA AddedForOthers ==
    ASSUME LibraryInv, NEW names, NEW job \in Jobs, job.task # "apply",
           queue' \in {queue, Abandoned(names), Append(queue, job), Append(Abandoned(names), job)}
    PROVE  SameCalls
<1>1. TypedQueue(queue) /\ TypedQueue(Abandoned(names))
      /\ \A k \in ToSet(Abandoned(names)) : k.task = None \/ k \in ToSet(queue)
  BY AbandonedIsTyped DEF LibraryInv, QueueIsRight
<1>2. \A q : TypedQueue(q) => \A k \in ToSet(Append(q, job)) : k = job \/ k \in ToSet(q)
  <2> SUFFICES ASSUME NEW q, TypedQueue(q), NEW i \in DOMAIN Append(q, job)
               PROVE  Append(q, job)[i] = job \/ Append(q, job)[i] \in ToSet(q)
    BY DEF ToSet
  <2>1. q \in Seq(Jobs)
    BY DEF TypedQueue
  <2>2. i \in 1 .. (Len(q) + 1) /\ DOMAIN q = 1 .. Len(q) /\ Len(q) \in Nat
    BY <2>1
  <2>3. Append(q, job)[i] = IF i = Len(q) + 1 THEN job ELSE q[i]
    BY <2>1, <2>2
  <2>4. i = Len(q) + 1 \/ i \in DOMAIN q
    BY <2>2
  <2>5. QED BY <2>3, <2>4 DEF ToSet
<1>3. None # "apply"
  BY NoneAssumption
<1>4. QED BY <1>1, <1>2, <1>3 DEF SameCalls

\* A search, or what the user does in its window, makes no choice.
LEMMA SearchAgrees ==
    ASSUME LibraryInv, ChoicesAgree,
           \/ \E t \in Tracks : SearchFor(t)
           \/ \E troubled, offers : \E raised \in BOOLEAN : SearchEnds(troubled, offers, raised)
           \/ \E a \in Artifacts : Pick(a)
           \/ \E high : FilterHigh(high)
    PROVE  ChoicesAgree'
<1>1. DOMAIN finder = DOMAIN Closed
  BY DEF LibraryInv, FinderIsRight
<1>2. /\ cache' = cache /\ halfway' = halfway /\ queue' = queue /\ playing' = playing /\ shown' = shown
  BY DEF SearchFor, SearchEnds, Pick, FilterHigh
<1>3. finder'.window = finder.window /\ finder'.track = finder.track /\ finder'.apply = finder.apply
  <2>1. ASSUME NEW t \in Tracks, SearchFor(t)
        PROVE  finder'.window = finder.window /\ finder'.track = finder.track /\ finder'.apply = finder.apply
    BY <1>1, <2>1, SearchBegins DEF SearchFor
  <2>2. ASSUME NEW troubled, NEW offers, NEW raised \in BOOLEAN, SearchEnds(troubled, offers, raised)
        PROVE  finder'.window = finder.window /\ finder'.track = finder.track /\ finder'.apply = finder.apply
    <3>1. CASE raised
      <4>1. finder' = [Failed(finder) EXCEPT !.search = None]
        BY <2>2, <3>1 DEF SearchEnds
      <4>2. QED BY <1>1, <4>1 DEF Failed, Closed
    <3>2. CASE ~raised
      <4> DEFINE told == [finder EXCEPT !.status = shown]
                 results == Found(finder.search, troubled, offers)
                 picked == Picked(told, results)
      <4>1. finder' = [[told EXCEPT !.results = results, !.rows = results, !.query = finder.search,
                             !.picked = picked, !.busy = FALSE, !.note = "results"] EXCEPT !.search = None]
        BY <2>2, <3>2 DEF SearchEnds
      <4> HIDE DEF results, picked
      <4>2. QED BY <1>1, <4>1 DEF Closed
    <3>3. QED BY <3>1, <3>2
  <2>3. ASSUME NEW a \in Artifacts, Pick(a)
        PROVE  finder'.window = finder.window /\ finder'.track = finder.track /\ finder'.apply = finder.apply
    BY <1>1, <2>3 DEF Pick, Closed
  <2>4. ASSUME NEW high, FilterHigh(high)
        PROVE  finder'.window = finder.window /\ finder'.track = finder.track /\ finder'.apply = finder.apply
    <3> DEFINE f == [finder EXCEPT !.highOnly = high]
    <3>1. \E p \in {f.picked, None} : finder' = [f EXCEPT !.picked = p]
      BY <2>4 DEF FilterHigh
    <3>2. QED BY <1>1, <3>1 DEF Closed
  <2>5. QED BY <2>1, <2>2, <2>3, <2>4
<1>4. SameCalls
  BY <1>2 DEF SameCalls
<1>5. QED BY <1>2, <1>3, <1>4, SameHoldsOn, OthersAgree

\* The manager makes no choice, and leaves the call of the search window alone.
LEMMA ManagerAgrees ==
    ASSUME LibraryInv, ChoicesAgree,
           \/ OpenManager \/ CloseManager \/ ClearFromSettings \/ ListEnds
           \/ \E q \in Keywords : List(q)
           \/ \E keys \in SUBSET Artifacts : AskToDelete(keys)
           \/ \E yes \in BOOLEAN : Confirm(yes)
           \/ \E name \in Commands : CommandReturns(name) \/ CommandRefreshed(name) \/ CommandFails(name)
    PROVE  ChoicesAgree'
<1>1. /\ cache' = cache /\ halfway' = halfway /\ playing' = playing /\ shown' = shown /\ finder' = finder
  BY DEF OpenManager, CloseManager, ClearFromSettings, ListEnds, List, AskToDelete, Confirm,
     CommandReturns, CommandRefreshed, CommandFails
<1>2. manager.query \in SUBSET Artifacts /\ manager.keys \in SUBSET Artifacts /\ {} \in SUBSET Artifacts
      /\ Artifacts \in SUBSET Artifacts
  BY DEF LibraryInv, ManagerIsRight, Windows
<1>3. \A op \in Names, keys \in SUBSET Artifacts, name \in Names :
          Job(op, keys, name) \in Jobs /\ Job(op, keys, name).task # "apply"
  BY DEF Job, Jobs, Names
<1>4. "list" \in Names /\ "delete" \in Names /\ "clear" \in Names
  BY DEF Names
<1>5. \E names : \E job \in Jobs :
          /\ job.task # "apply"
          /\ queue' \in {queue, Abandoned(names), Append(queue, job), Append(Abandoned(names), job)}
  <2> DEFINE Adds(job, names) ==
                 queue' \in {queue, Abandoned(names), Append(queue, job), Append(Abandoned(names), job)}
  <2> SUFFICES \E names : \E op, name \in Names : \E keys \in SUBSET Artifacts :
                   Adds(Job(op, keys, name), names)
    <3> HIDE DEF Adds
    <3>1. PICK names : \E op, name \in Names : \E keys \in SUBSET Artifacts :
              Adds(Job(op, keys, name), names)
      OBVIOUS
    <3>2. PICK job \in Jobs : job.task # "apply" /\ Adds(job, names)
      BY <1>3, <3>1
    <3>3. QED BY <3>2 DEF Adds
  <2>1. CASE OpenManager
    <3>1. queue' = Append(Abandoned({"list"}), Job("list", Artifacts, "list"))
      BY <2>1 DEF OpenManager
    <3>2. QED BY <1>2, <1>4, <3>1
  <2>2. ASSUME NEW q \in Keywords, List(q) PROVE Adds(Job("list", q, "list"), {"list"}) /\ q \in SUBSET Artifacts
    BY <2>2, LibraryAssumption DEF List
  <2>3. CASE CloseManager
    <3>1. \E names : queue' = Abandoned(names)
      BY <2>3 DEF CloseManager
    <3>2. QED BY <1>2, <1>4, <3>1
  <2>4. CASE ClearFromSettings
    <3>1. queue' = Append(Abandoned({"list", "clear"}), Job("clear", {}, "clear"))
      BY <2>4 DEF ClearFromSettings
    <3>2. QED BY <1>2, <1>4, <3>1
  <2>5. CASE queue' = queue
    BY <1>2, <1>4, <2>5
  <2>6. ASSUME NEW yes \in BOOLEAN, Confirm(yes), queue' # queue
        PROVE  \/ queue' = Append(Abandoned({"list"}), Job("delete", manager.keys, "delete"))
               \/ queue' = Append(Abandoned({"list", "clear"}), Job("clear", {}, "clear"))
    BY <2>6 DEF Confirm
  <2>7. ASSUME NEW yes \in BOOLEAN, Confirm(yes)
        PROVE  \E names : \E op, name \in Names : \E keys \in SUBSET Artifacts : Adds(Job(op, keys, name), names)
    BY <1>2, <1>4, <2>5, <2>6, <2>7
  <2>8. ASSUME NEW name \in Commands, CommandReturns(name), queue' # queue
        PROVE  queue' = Append(queue, Job("list", manager.query, name)) /\ name \in Names
    BY <2>8 DEF CommandReturns, Commands, Names
  <2>9. ASSUME NEW name \in Commands, CommandReturns(name)
        PROVE  \E names : \E op, task \in Names : \E keys \in SUBSET Artifacts : Adds(Job(op, keys, task), names)
    BY <1>2, <1>4, <2>5, <2>8, <2>9
  <2>10. ASSUME ListEnds \/ (\E keys \in SUBSET Artifacts : AskToDelete(keys))
                \/ \E name \in Commands : CommandRefreshed(name) \/ CommandFails(name)
         PROVE  queue' = queue
    BY <2>10 DEF ListEnds, AskToDelete, CommandRefreshed, CommandFails
  <2> HIDE DEF Adds
  <2>11. QED BY <1>4, <2>1, <2>2, <2>3, <2>4, <2>5, <2>7, <2>9, <2>10
<1>6. SameCalls
  BY <1>5, AddedForOthers
<1>7. QED BY <1>1, <1>6, SameHoldsOn, OthersAgree

\* Another track plays, and nothing is displayed as chosen.
LEMMA PlayAgrees == ASSUME ChoicesAgree, NEW t \in Tracks, Play(t) PROVE ChoicesAgree'
BY DEF Play, ChoicesAgree, CallsAgree, WindowAgrees, RowsAgree, Saved

\* The window opens over what is displayed.
LEMMA OpenFinderAgrees == ASSUME LibraryInv, ChoicesAgree, OpenFinder PROVE ChoicesAgree'
<1> DEFINE f == FinderFor(used.opens + 1)
<1>1. DOMAIN f = DOMAIN Closed /\ f.track = playing /\ f.apply = None
  BY DEF FinderFor, Closed
<1>2. finder' = Searching(f, playing)
  BY DEF OpenFinder
<1> HIDE DEF f
<1>3. finder'.track = playing /\ finder'.apply = None
  <2> DEFINE g == Searching(f, playing)
  <2>1. DOMAIN f = DOMAIN Closed
    BY <1>1
  <2>2. g.track = f.track /\ g.apply = f.apply
    BY <2>1, SearchBegins, Zenon
  <2> HIDE DEF g
  <2>3. QED BY <1>1, <1>2, <2>2 DEF g
<1>4. finder.apply = None /\ playing \in Tracks
  BY DEF OpenFinder, Asks, LibraryInv, FinderIsRight
<1>5. \A k \in ToSet(queue) : k.task # "apply"
  BY <1>4, NoneAssumption DEF LibraryInv, QueueIsRight, Awaited
<1>6. CallsAgree' /\ WindowAgrees' /\ ~Saved' /\ ~Saved
  BY <1>3, <1>4, <1>5 DEF OpenFinder, CallsAgree, WindowAgrees, Saved
<1>7. RowsAgree'
  BY <1>6 DEF OpenFinder, ChoicesAgree, RowsAgree
<1>8. QED BY <1>6, <1>7 DEF ChoicesAgree

\* The window closes, and what it has saved is known not to be displayed.
LEMMA CloseFinderAgrees == ASSUME LibraryInv, ChoicesAgree, CloseFinder PROVE ChoicesAgree'
<1>1. finder' = Closed /\ queue' = Abandoned({"apply"}) /\ halfway' = (halfway \/ finder.apply # None)
  BY DEF CloseFinder
<1>2. finder'.window = 0 /\ finder'.apply = None
  BY <1>1 DEF Closed
<1>3. \A k \in ToSet(queue') : k.task # "apply"
  BY <1>1, AbandonedIsTyped, NoneAssumption DEF LibraryInv, QueueIsRight
<1>4. CallsAgree' /\ WindowAgrees' /\ ~Saved'
  BY <1>2, <1>3 DEF CloseFinder, ChoicesAgree, CallsAgree, WindowAgrees, Saved
<1>5. RowsAgree'
  BY <1>1, <1>4 DEF CloseFinder, ChoicesAgree, RowsAgree, Saved
<1>6. QED BY <1>4, <1>5 DEF ChoicesAgree

\* The user chooses.
LEMMA ApplyAgrees == ASSUME LibraryInv, ChoicesAgree, Apply PROVE ChoicesAgree'
<1>1. /\ finder.apply = None /\ DOMAIN finder = DOMAIN Closed
  BY DEF Apply, CanApply, LibraryInv, FinderIsRight
<1>2. \A k \in ToSet(queue) : k.task # "apply"
  BY <1>1, NoneAssumption DEF LibraryInv, QueueIsRight, Awaited
<1>3. CASE finder.picked \notin ToSet(finder.results)
  <2>1. finder' = [finder EXCEPT !.note = "error"] /\ queue' = queue
    BY <1>3 DEF Apply
  <2>2. finder'.window = finder.window /\ finder'.track = finder.track /\ finder'.apply = finder.apply
    BY <1>1, <2>1 DEF Closed
  <2>3. SameCalls
    BY <2>1 DEF SameCalls
  <2>4. QED BY <2>2, <2>3, SameHoldsOn, OthersAgree DEF Apply
<1>4. CASE finder.picked \in ToSet(finder.results)
  <2> DEFINE choice == ApplyFor(finder)
             save == [choice |-> choice, phase |-> "called"]
  <2>1. finder' = [Busy(finder) EXCEPT !.status = shown, !.apply = save] /\ queue' = Append(queue, Selection(choice))
    BY <1>4 DEF Apply
  <2>2. save.choice = choice /\ save.phase = "called" /\ choice.track = finder.track
    BY DEF ApplyFor
  <2>3. Selection(choice).choice = choice
    BY DEF Selection
  <2> HIDE DEF choice, save
  <2>4. finder'.window = finder.window /\ finder'.track = finder.track /\ finder'.apply = save
    BY <1>1, <2>1 DEF Closed, Busy
  <2>5. \A k \in ToSet(queue') : k = Selection(choice) \/ k \in ToSet(queue)
    <3>1. queue \in Seq(Jobs)
      BY DEF LibraryInv, QueueIsRight, TypedQueue
    <3>2. \A i \in DOMAIN queue' : queue'[i] = Selection(choice) \/ (i \in DOMAIN queue /\ queue'[i] = queue[i])
      BY <2>1, <3>1
    <3>3. QED BY <3>2 DEF ToSet
  <2>6. CallsAgree' /\ WindowAgrees' /\ ~Saved' /\ ~Saved
    BY <1>1, <1>2, <2>2, <2>3, <2>4, <2>5 DEF Apply, ChoicesAgree, CallsAgree, WindowAgrees, Saved
  <2>7. RowsAgree'
    BY <2>6 DEF Apply, ChoicesAgree, RowsAgree
  <2>8. QED BY <2>6, <2>7 DEF ChoicesAgree
<1>5. QED BY <1>3, <1>4

\* The display takes what was saved: it is for a track of the name that plays.
LEMMA ApplyEndsAgrees == ASSUME LibraryInv, ChoicesAgree, ApplyEnds PROVE ChoicesAgree'
<1>1. /\ finder.apply \in Saves /\ finder.apply.phase # "called" /\ DOMAIN finder = DOMAIN Closed
      /\ finder.window # 0 /\ finder.track \in Tracks /\ finder.apply # None
      /\ finder.apply.choice.track = finder.track /\ playing \in Tracks \cup {None}
  BY DEF ApplyEnds, LibraryInv, FinderIsRight, ChoicesAgree, CallsAgree
<1>2. \A k \in ToSet(queue) : k.task # "apply"
  BY <1>1 DEF LibraryInv, QueueIsRight, Awaited
<1>3. NameAgrees(playing) =>
          (Suits(finder.track, playing) <=> SelectionKey(finder.track) = SelectionKey(playing))
  BY <1>1 DEF NameAgrees
<1>4. NameAgrees(playing) =>
          (Displays(finder.apply.choice) <=>
               playing \in Tracks /\ SelectionKey(finder.track) = SelectionKey(playing))
  <2>1. Displays(finder.apply.choice) <=> playing # None /\ Suits(finder.track, playing)
    BY <1>1 DEF Displays, Suits
  <2>2. None \notin Tracks
    BY NoneAssumption
  <2>3. QED BY <1>1, <1>3, <2>1, <2>2
<1>5. finder'.window = finder.window /\ finder'.track = finder.track /\ finder'.apply = None
  <2>1. CASE finder.apply.phase = "returned"
    <3>1. \E note : finder' = [[finder EXCEPT !.busy = FALSE, !.status = shown', !.note = note] EXCEPT !.apply = None]
      BY <2>1 DEF ApplyEnds
    <3>2. QED BY <1>1, <3>1 DEF Closed
  <2>2. CASE finder.apply.phase # "returned"
    <3>1. finder' = [Failed(finder) EXCEPT !.apply = None]
      BY <2>2 DEF ApplyEnds
    <3>2. QED BY <1>1, <3>1 DEF Closed, Failed
  <2>3. QED BY <2>1, <2>2
<1>6. /\ cache' = cache /\ queue' = queue /\ playing' = playing /\ halfway' = halfway
      /\ shown' = IF Saved /\ Displays(finder.apply.choice) THEN finder.apply.choice.artifact ELSE shown
  BY <1>1 DEF ApplyEnds, Saved
<1>7. CallsAgree' /\ ~Saved'
  BY <1>2, <1>5, <1>6 DEF CallsAgree, Saved
<1>8. WindowAgrees'
  BY <1>4, <1>5, <1>6 DEF ChoicesAgree, WindowAgrees
<1>9. RowsAgree'
  <2>1. CASE Saved /\ Displays(finder.apply.choice)
    BY <1>4, <1>6, <1>7, <2>1 DEF ChoicesAgree, RowsAgree
  <2>2. CASE Saved /\ ~Displays(finder.apply.choice)
    BY <1>1, <1>4, <1>6, <1>7, <2>2 DEF ChoicesAgree, RowsAgree, WindowAgrees
  <2>3. CASE ~Saved
    BY <1>6, <1>7, <2>3 DEF ChoicesAgree, RowsAgree
  <2>4. QED BY <2>1, <2>2, <2>3
<1>10. QED BY <1>7, <1>8, <1>9 DEF ChoicesAgree

-------------------------------------------------------------------------------
(* The cache's thread and the resolver.                                    *)

\* A task learns of an error: nothing was written, and the display stays.
LEMMA RaisedAgrees ==
    ASSUME LibraryInv, ChoicesAgree, NEW job \in ToSet(queue), Told(job, "raised"),
           cache' = cache, playing' = playing, shown' = shown, halfway' = halfway,
           \A k \in ToSet(queue') : k.task = None \/ (k \in ToSet(queue) /\ k.task # job.task)
    PROVE  ChoicesAgree'
<1>1. None # "apply" /\ None \notin Saves /\ DOMAIN finder = DOMAIN Closed
  BY NoneAssumption DEF LibraryInv, FinderIsRight
<1>2. CASE job.task = "apply"
  <2>1. finder.apply \in Saves /\ finder.apply.phase = "called"
    BY <1>2 DEF LibraryInv, QueueIsRight, Awaited
  <2> DEFINE save == [finder.apply EXCEPT !.phase = "raised"]
  <2>2. finder' = [finder EXCEPT !.apply = save]
    BY <1>2 DEF Told
  <2>3. save.phase = "raised" /\ save.choice = finder.apply.choice
    BY <2>1 DEF Saves
  <2> HIDE DEF save
  <2>4. finder'.window = finder.window /\ finder'.track = finder.track /\ finder'.apply = save
    BY <1>1, <2>2 DEF Closed
  <2>5. \A k \in ToSet(queue') : k.task # "apply"
    BY <1>1, <1>2
  <2>6. CallsAgree' /\ WindowAgrees' /\ ~Saved' /\ ~Saved
    BY <1>1, <2>1, <2>3, <2>4, <2>5 DEF ChoicesAgree, CallsAgree, WindowAgrees, Saved
  <2>7. RowsAgree'
    BY <2>6 DEF ChoicesAgree, RowsAgree
  <2>8. QED BY <2>6, <2>7 DEF ChoicesAgree
<1>3. CASE job.task # "apply"
  <2>1. finder' = finder
    BY <1>3 DEF Told
  <2>2. SameCalls
    BY <1>1 DEF SameCalls
  <2>3. QED BY <2>1, <2>2, SameHoldsOn, OthersAgree
<1>4. QED BY <1>2, <1>3

\* SQLite fails.
LEMMA FailAgrees == ASSUME LibraryInv, ChoicesAgree, Fail PROVE ChoicesAgree'
<1>1. TypedQueue(queue) /\ queue # <<>>
  BY DEF Fail, LibraryInv, QueueIsRight
<1>2. PICK job \in ToSet(queue) : job = Head(queue)
  BY <1>1, TailIsTyped
<1>3. \A k \in ToSet(queue') : k.task = None \/ (k \in ToSet(queue) /\ k.task # job.task)
  BY <1>1, <1>2, TailIsTyped DEF Fail
<1>4. QED BY <1>2, <1>3, RaisedAgrees DEF Fail

\* A call is taken for failed, and goes on or not: what it writes is then known to be
\* ahead of the display.
LEMMA TimeOutAgrees == ASSUME LibraryInv, ChoicesAgree, NEW i \in DOMAIN queue, TimeOut(i) PROVE ChoicesAgree'
<1>1. TypedQueue(queue) /\ queue[i].task # None
  BY DEF TimeOut, LibraryInv, QueueIsRight
<1>2. PICK job \in ToSet(queue) : job = queue[i]
  BY DEF ToSet
<1>3. queue' = Withdrawn(queue, i)
  BY DEF TimeOut, Withdrawn
<1>4. \A k \in ToSet(queue') : k.task = None \/ (k \in ToSet(queue) /\ k.task # job.task)
  BY <1>1, <1>2, <1>3, WithdrawnIsTyped
<1>5. QED BY <1>2, <1>4, RaisedAgrees DEF TimeOut

\* The cache's thread saves the choice of the window, or what the display does not follow.
LEMMA RunAgrees == ASSUME LibraryInv, ChoicesAgree, Run PROVE ChoicesAgree'
<1>1. TypedQueue(queue) /\ queue # <<>>
  BY DEF Run, LibraryInv, QueueIsRight
<1>2. PICK job \in ToSet(queue) : job = Head(queue)
  BY <1>1, TailIsTyped
<1>3. \A k \in ToSet(queue') : k.task = None \/ (k \in ToSet(queue) /\ k.task # job.task)
  BY <1>1, <1>2, TailIsTyped DEF Run
<1>4. /\ Told(job, "returned") /\ cache' = Effect(job) /\ playing' = playing /\ shown' = shown
      /\ halfway' = IF job.op = "list" THEN halfway ELSE ~(job.op = "select" /\ job.task = "apply")
  BY <1>2 DEF Run
<1>5. None # "apply" /\ None \notin Saves /\ DOMAIN finder = DOMAIN Closed
  BY NoneAssumption DEF LibraryInv, FinderIsRight
<1>6. CASE job.task = "apply"
  <2>1. /\ finder.apply \in Saves /\ finder.apply.phase = "called" /\ job.op = "select"
        /\ job.choice = finder.apply.choice /\ job.choice.track = finder.track /\ finder.apply # None
    BY <1>5, <1>6 DEF LibraryInv, QueueIsRight, Awaited, ChoicesAgree, CallsAgree
  <2>2. job.choice.track \in Tracks /\ job.choice.artifact \in Artifacts
    BY <2>1 DEF Saves, Picks
  <2> DEFINE save == [finder.apply EXCEPT !.phase = "returned"]
  <2>3. finder' = [finder EXCEPT !.apply = save]
    BY <1>4, <1>6 DEF Told
  <2>4. save.phase = "returned" /\ save.choice = finder.apply.choice /\ save \in Saves
    BY <2>1 DEF Saves
  <2> HIDE DEF save
  <2>5. finder'.window = finder.window /\ finder'.track = finder.track /\ finder'.apply = save
    BY <1>5, <2>3 DEF Closed
  <2>6. \A k \in ToSet(queue') : k.task # "apply"
    BY <1>3, <1>5, <1>6
  <2>7. CallsAgree' /\ WindowAgrees' /\ Saved'
    BY <1>4, <1>5, <2>1, <2>4, <2>5, <2>6 DEF ChoicesAgree, CallsAgree, WindowAgrees, Saved
  <2>8. cache' = Select(cache, job.choice.track, job.choice.artifact)
    BY <1>4, <2>1 DEF Effect
  <2>9. Holds(cache', SelectionKey(job.choice.track), job.choice.artifact)
    BY <2>2, <2>8, SelectHolds DEF LibraryInv
  <2>10. RowsAgree'
    BY <2>1, <2>4, <2>5, <2>7, <2>9 DEF RowsAgree
  <2>11. QED BY <2>7, <2>10 DEF ChoicesAgree
<1>7. CASE job.task # "apply"
  <2>1. finder' = finder
    BY <1>4, <1>7 DEF Told
  <2>2. SameCalls
    BY <1>3, <1>5 DEF SameCalls
  <2>3. job.op = "list" => cache' = cache /\ halfway' = halfway
    BY <1>4, EffectIsConsistent
  <2>4. job.op # "list" => halfway'
    BY <1>4, <1>7
  <2>5. halfway' \/ (~halfway /\ HoldsOn(cache, cache'))
    BY <2>3, <2>4, SameHoldsOn
  <2>6. QED BY <1>4, <2>1, <2>2, <2>5, OthersAgree
<1>8. QED BY <1>6, <1>7

\* A lookup deletes rows, and their choices; what it leaves is as it was.
LEMMA ReadHoldsOn ==
    ASSUME NEW c, Consistent(c), NEW d, Consistent(d), Stored(d) \subseteq Stored(c), d.binds = c.binds,
           \A a \in Stored(d) : d.rows[a] = c.rows[a]
    PROVE  HoldsOn(c, d)
BY KeptAreHeld DEF Keeps, RowsStay

\* The resolver looks for lyrics, stores them, and finds a row that it cannot parse.
LEMMA ResolverAgrees ==
    ASSUME LibraryInv, ChoicesAgree,
           \/ \E t \in Tracks : ResolverReads(t)
           \/ \E a \in Artifacts : ResolverStores(a) \/ Spoil(a)
    PROVE  ChoicesAgree'
<1>1. /\ Consistent(cache) /\ finder' = finder /\ playing' = playing /\ shown' = shown /\ SameCalls
      /\ halfway => halfway'
  <2>1. ASSUME NEW t \in Tracks, ResolverReads(t)
        PROVE  /\ finder' = finder /\ playing' = playing /\ shown' = shown /\ queue' = queue
               /\ halfway => halfway'
    BY <2>1 DEF ResolverReads
  <2>2. ASSUME NEW a \in Artifacts, ResolverStores(a) \/ Spoil(a)
        PROVE  /\ finder' = finder /\ playing' = playing /\ shown' = shown /\ queue' = queue
               /\ halfway => halfway'
    BY <2>2 DEF ResolverStores, Spoil
  <2>3. QED BY <2>1, <2>2 DEF LibraryInv, SameCalls
<1>2. ASSUME NEW t \in Tracks, ResolverReads(t), ~halfway'
      PROVE  HoldsOn(cache, cache')
  <2>1. cache'.binds = cache.binds
    BY <1>2 DEF ResolverReads
  <2>2. /\ Consistent(cache') /\ Stored(cache') \subseteq Stored(cache)
        /\ \A a \in Stored(cache') : cache'.rows[a] = cache.rows[a]
    BY <1>1, <1>2, LookupIsConsistent, LookupManualIsConsistent DEF ResolverReads
  <2>3. QED BY <1>1, <2>1, <2>2, ReadHoldsOn
<1>3. ASSUME NEW a \in Artifacts, ResolverStores(a)
      PROVE  HoldsOn(cache, cache')
  BY <1>1, <1>3, StoreHoldsOn DEF ResolverStores
<1>4. ASSUME NEW a \in Artifacts, Spoil(a)
      PROVE  HoldsOn(cache, cache')
  <2>1. a \in Stored(cache) /\ cache' = [cache EXCEPT !.rows[a].valid = FALSE]
        /\ DOMAIN cache = {"rows", "recent", "binds"} /\ cache.rows \in [Stored(cache) -> Rows]
    BY <1>1, <1>4 DEF Spoil, Unreadable, Consistent, Tabled
  <2>2. cache'.binds = cache.binds /\ \A b \in Stored(cache) : cache'.rows[b].current = cache.rows[b].current
    <3> DEFINE row == [cache.rows[a] EXCEPT !.valid = FALSE]
               rows == [cache.rows EXCEPT ![a] = row]
    <3>1. row.current = cache.rows[a].current
      BY <2>1 DEF Rows
    <3> HIDE DEF row
    <3>2. \A b \in Stored(cache) : rows[b].current = cache.rows[b].current
      BY <2>1, <3>1
    <3>3. cache' = [cache EXCEPT !.rows = rows]
      BY <2>1 DEF row
    <3> HIDE DEF rows
    <3>4. cache'.binds = cache.binds /\ cache'.rows = rows
      BY <2>1, <3>3
    <3>5. QED BY <3>2, <3>4
  <2>3. \A k \in DOMAIN cache.binds : cache.binds[k] \in Stored(cache)
    BY <1>1 DEF Consistent, Tabled
  <2>4. QED BY <2>2, <2>3 DEF HoldsOn, Holds
<1>5. halfway' \/ (~halfway /\ HoldsOn(cache, cache'))
  BY <1>1, <1>2, <1>3, <1>4
<1>6. QED BY <1>1, <1>5, OthersAgree

\* Every step keeps the display and the cache in agreement.
LEMMA AgreementStep == ASSUME LibraryInv, ChoicesAgree, [Next]_vars PROVE ChoicesAgree'
<1>1. ASSUME UNCHANGED vars PROVE ChoicesAgree'
  BY <1>1 DEF vars, ChoicesAgree, CallsAgree, WindowAgrees, RowsAgree, Saved
<1>2. ASSUME Works PROVE ChoicesAgree'
  BY <1>2, RunAgrees, ApplyEndsAgrees, ManagerAgrees, SearchAgrees DEF Works, Commands
<1>3. ASSUME User PROVE ChoicesAgree'
  BY <1>3, OpenFinderAgrees, CloseFinderAgrees, ApplyAgrees, SearchAgrees, ManagerAgrees, LibraryAssumption DEF User
<1>4. QED BY <1>1, <1>2, <1>3, FailAgrees, TimeOutAgrees, PlayAgrees, ResolverAgrees DEF Next

\* What the display shows as chosen by hand is what a lookup returns, whatever was
\* evicted, searched for or chosen again meanwhile, but after a deletion or a choice that
\* nobody waited for.  It holds of each track whose name agrees, whatever the others are
\* called; of one whose name does not, it fails (disagreement 18 of the README).
THEOREM ShownIsAlwaysRemembered == Spec => []ShownIsRemembered
<1>1. Init => LibraryInv /\ ChoicesAgree
  <2> SUFFICES ASSUME Init PROVE LibraryInv /\ ChoicesAgree
    OBVIOUS
  <2>1. finder.apply = None /\ shown = None /\ queue = <<>>
    BY DEF Init, Closed
  <2>2. ChoicesAgree
    BY <2>1 DEF ChoicesAgree, CallsAgree, WindowAgrees, RowsAgree, Saved, ToSet
  <2>3. QED BY <2>2, LibraryStarts
<1>2. LibraryInv /\ ChoicesAgree /\ [Next]_vars => (LibraryInv /\ ChoicesAgree)'
  BY LibraryStep, AgreementStep
<1>3. LibraryInv /\ ChoicesAgree => ShownIsRemembered
  <2> SUFFICES ASSUME ChoicesAgree, shown # None, ~halfway, finder.apply = None, NameAgrees(playing),
                      NEW t \in Tracks, SelectionKey(t) = SelectionKey(playing)
               PROVE  Chosen(cache, t) = shown
    BY DEF ShownIsRemembered
  <2>1. Holds(cache, SelectionKey(t), shown)
    BY DEF ChoicesAgree, RowsAgree, Saved
  <2>2. QED BY <2>1 DEF Holds, Chosen
<1>4. QED BY <1>1, <1>2, <1>3, PTL DEF Spec

-------------------------------------------------------------------------------
(* What a lookup knows.                                                    *)

\* The places of a plan.
Slots == Network \cup {Live}

\* What a request is looked up under.
LookupKeys ==
    [track : Tracks, sources : Seq(Slots), cache : BOOLEAN, best : BOOLEAN, fuzzy : BOOLEAN]

\* The best candidate so far, if there is one.
Leaders == {None} \cup [result : Results, index : Nat]

\* The states of a lookup.
Tasks ==
    [phase : {"manual", "free", "turn", "asked", "asking", "done", "raised"}, at : Nat \ {0},
     best : Leaders, resolved : SUBSET Slots, pending : SUBSET Network, asked : SUBSET Network,
     skipped : SUBSET Network, fuzzy : BOOLEAN, failed : SUBSET Network, result : {None} \cup Results]

\* The providers of a plan.
NetworkOf(k) == Network \cap ToSet(k.sources)

\* A search of the provider for the track, strict or fuzzy, may find nothing.
MayMiss(w, s, track) == \E fuzzy \in BOOLEAN : Nothing \in Replies[w, s, track, fuzzy]

\* A provider may answer no better than the best there is.
Beaten(w, k, s, fuzzy, best) ==
    \E reply \in Replies[w, s, k.track, fuzzy] :
        \/ Candidate(s, reply) = None
        \/ ~Better([result |-> Candidate(s, reply), index |-> Index(k.sources, s)], best)

\* Those a lookup asked, or had no need to ask.
Reached(k, task) == NetworkOf(k) \ (task.resolved \cup task.skipped \cup task.failed)

\* A lookup that has asked nobody has no answer out; what it has for free it has noted.
Quiet(task) ==
    /\ task.asked = {} /\ task.pending = {}
    /\ task.best = None => task.resolved = {}

\* The lookup of a key, while what the providers answered can be relied upon: a provider
\* that is not awaited cannot win, and if nothing is found nobody has anything.
TaskIsRight(w, honest, k, task) ==
    /\ task \in Tasks
    /\ task.phase \in {"free", "turn", "asked"} => task.at \in DOMAIN k.sources
    /\ task.phase = "asked" => k.sources[task.at] \in Network
    /\ task.phase \in {"manual", "free", "turn", "asked"} => Quiet(task)
    /\ task.phase = "manual" => task.at = 1
    /\ task.pending \subseteq ToSet(k.sources)
    /\ honest /\ task.phase \in {"turn", "asked"} /\ task.failed = {} =>
           \A i \in 1 .. (task.at - 1) : k.sources[i] \in Network => MayMiss(w, k.sources[i], k.track)
    /\ honest /\ task.phase = "asking" /\ task.best = None /\ task.failed = {} =>
           \A s \in NetworkOf(k) \ task.pending : MayMiss(w, s, k.track)
    /\ honest /\ task.phase = "asking" =>
           \A s \in Reached(k, task) \ task.pending : Beaten(w, k, s, task.fuzzy, task.best)
    /\ honest /\ task.phase = "done" /\ task.result = None /\ task.failed = {} =>
           \A s \in NetworkOf(k) : MayMiss(w, s, k.track)
    /\ honest /\ task.phase = "done" /\ task.asked # {} =>
           \A s \in Reached(k, task) : Beaten(w, k, s, task.fuzzy, task.best)

\* A request, and whom it waits for.
RequestIsRight ==
    request # None => /\ DOMAIN request = {"track", "hint", "phase", "sources", "exact", "key", "result",
                                            "failed", "wanted"}
                      /\ request.track \in Tracks /\ request.sources \in Seq(Slots)
                      /\ request.hint \in Network \cup {Local, None}
                      /\ request.phase \in {"hint", "exact"} => request.hint # None
                      /\ request.phase = "waiting" => request.key \in DOMAIN lookups

\* What is remembered of the providers is true.
MissesAreRight ==
    ~spent.swallowed => \A s \in Network, t \in Tracks : <<s, t>> \in negative => MayMiss(world, s, t)

\* The cache is consistent, and can be read.
Readable(c) == Consistent(c) /\ \A a \in Stored(c) : c.rows[a].valid

\* The inductive invariant.
ResolverInv ==
    /\ world \in DOMAIN Worlds /\ plan \in Seq(Slots) /\ heard \in Tracks \cup {None}
    /\ policy \in [cache : BOOLEAN, best : BOOLEAN, fuzzy : BOOLEAN]
    /\ spent.changes \in Nat /\ spent.swallowed \in BOOLEAN
    /\ DOMAIN spent = {"requests", "changes", "faults", "swallowed"}
    /\ Readable(cache) /\ RequestIsRight /\ MissesAreRight
    /\ DOMAIN lookups \subseteq LookupKeys
    /\ \A k \in DOMAIN lookups : TaskIsRight(world, ~spent.swallowed, k, lookups[k])

-------------------------------------------------------------------------------
(* Answers and their scores.                                               *)

\* The degrees of confidence, in order.
LEMMA DegreesAreNumbers ==
    /\ High = 2 /\ Medium = 1 /\ NoMatch = 0
BY DEF High, Medium, NoMatch

\* No score is above that of a timed match of high confidence.
LEMMA ScoreIsBounded ==
    ASSUME NEW r \in Results, NEW index \in Nat
    PROVE  Score(r, index) \in Int /\ Score(r, index) <= 20 * High + 10 - index
<1>1. r.conf \in {0, 1, 2}
  BY DegreesAreNumbers DEF Results
<1> DEFINE bonus == IF Timed[r.song] THEN 10 ELSE 0
<1>2. bonus \in {0, 10}
  OBVIOUS
<1>3. Score(r, index) = 20 * r.conf + bonus - index
  BY DEF Score
<1> HIDE DEF bonus
<1>4. QED BY <1>1, <1>2, <1>3, DegreesAreNumbers

\* Nothing a provider finds is better than what it could not beat.
LEMMA WhatCouldNotBeat ==
    ASSUME NEW best \in Leaders, NEW r \in Results, NEW index \in Nat, ~CouldBeat(best, index)
    PROVE  ~Better([result |-> r, index |-> index], best)
<1> DEFINE c == [result |-> r, index |-> index]
<1>1. c.result = r /\ c.index = index
  OBVIOUS
<1>2. best # None /\ ~(20 * High + 10 - index > Score(best.result, best.index))
  BY DEF CouldBeat
<1>3. Score(best.result, best.index) \in Int
  BY <1>2, ScoreIsBounded DEF Leaders
<1>4. Score(r, index) \in Int /\ Score(r, index) <= 20 * High + 10 - index
  BY ScoreIsBounded
<1>5. ~(Score(r, index) > Score(best.result, best.index))
  BY <1>2, <1>3, <1>4, DegreesAreNumbers
<1> HIDE DEF c
<1>6. QED BY <1>1, <1>2, <1>5 DEF Better, c

\* Better is better than what was better.
LEMMA BetterIsTransitive ==
    ASSUME NEW a \in Leaders, NEW b \in Leaders, NEW c \in Leaders, a # None, b # None,
           Better(a, b), b = c \/ Better(b, c)
    PROVE  Better(a, c)
<1>1. CASE c = None \/ b = c
  BY <1>1 DEF Better
<1>2. CASE c # None /\ b # c
  <2>1. Score(a.result, a.index) > Score(b.result, b.index) /\ Score(b.result, b.index) > Score(c.result, c.index)
    BY <1>2 DEF Better
  <2>2. /\ Score(a.result, a.index) \in Int /\ Score(b.result, b.index) \in Int
        /\ Score(c.result, c.index) \in Int
    BY <1>2, ScoreIsBounded DEF Leaders
  <2>3. QED BY <2>1, <2>2 DEF Better
<1>3. QED BY <1>1, <1>2

\* What has no better is not beaten by what does not beat less.
LEMMA StillBeaten ==
    ASSUME NEW a \in Leaders, NEW b \in Leaders, NEW c \in Leaders, a # None,
           ~Better(a, c), b = c \/ (b # None /\ Better(b, c))
    PROVE  ~Better(a, b)
<1>1. CASE b = c
  BY <1>1
<1>2. CASE b # None /\ Better(b, c)
  BY <1>2, BetterIsTransitive
<1>3. QED BY <1>1, <1>2

\* Of some finds one has none better.
LEMMA BestFindExists ==
    ASSUME NEW finds \in SUBSET [result : Results, index : Nat], finds # {}
    PROVE  \E r \in finds : \A q \in finds : ~Better(q, r)
<1> DEFINE Lack(r) == 20 * High + 10 - Score(r.result, r.index)
           Lacks == {Lack(r) : r \in finds}
<1>1. ASSUME NEW r \in finds
      PROVE  Score(r.result, r.index) \in Int /\ Lack(r) \in Nat
  <2>1. r.result \in Results /\ r.index \in Nat
    OBVIOUS
  <2>2. Score(r.result, r.index) \in Int /\ Score(r.result, r.index) <= 20 * High + 10 - r.index
    BY <2>1, ScoreIsBounded
  <2>3. QED BY <2>1, <2>2, DegreesAreNumbers
<1>2. Lacks \in SUBSET Nat /\ Lacks # {}
  BY <1>1
<1>3. PICK n \in Lacks : \A m \in Lacks : n <= m
  BY <1>2, LeastNatural
<1>4. PICK r \in finds : n = Lack(r)
  BY <1>3
<1>5. ASSUME NEW q \in finds PROVE ~Better(q, r)
  <2>1. Lack(r) <= Lack(q)
    BY <1>3, <1>4
  <2>2. r.index \in Nat /\ q.index \in Nat
    OBVIOUS
  <2>3. ~(Score(q.result, q.index) > Score(r.result, r.index))
    BY <1>1, <2>1, <2>2, DegreesAreNumbers
  <2>4. r # None
    BY ResolverAssumption
  <2>5. QED BY <2>3, <2>4 DEF Better
<1>6. QED BY <1>5

\* What a reply stands for: a find, a miss or a failure.
LEMMA RepliesAre ==
    ASSUME NEW s \in Network, NEW reply \in Outcomes
    PROVE  /\ Candidate(s, reply) \in {None} \cup Results
           /\ ~reply.raised /\ Candidate(s, reply) = None => reply = Nothing
           /\ Candidate(s, reply) # None => /\ Candidate(s, reply).source = s
                                            /\ Candidate(s, reply).song \in Songs
                                            /\ ~reply.raised
<1>1. CASE reply = Raises
  BY <1>1 DEF Raises, Candidate
<1>2. CASE reply = Nothing
  BY <1>2 DEF Nothing, Finds, Candidate
<1>3. ASSUME NEW song \in Songs, NEW conf \in {Medium, High}, reply = Finds(song, conf)
      PROVE  /\ Candidate(s, reply) \in Results /\ Candidate(s, reply).source = s
             /\ Candidate(s, reply).song \in Songs /\ ~reply.raised
  <2>1. song # None
    BY ResolverAssumption
  <2>2. reply.song = song /\ reply.conf = conf /\ reply.raised = FALSE
    BY <1>3 DEF Finds
  <2>3. Candidate(s, reply) = [source |-> s, song |-> song, conf |-> conf]
    BY <2>1, <2>2 DEF Candidate
  <2>4. QED BY <2>2, <2>3 DEF Results
<1>4. QED
  <2>1. reply \in {Raises, Nothing} \/ \E song \in Songs, conf \in {Medium, High} : reply = Finds(song, conf)
    BY DEF Outcomes
  <2>2. None \notin Results
    BY ResolverAssumption
  <2>3. QED BY <1>1, <1>2, <1>3, <2>1, <2>2

\* A source of a plan has a place in it.
LEMMA PlaceOfSource ==
    ASSUME NEW sources \in Seq(Slots), NEW s \in ToSet(sources)
    PROVE  /\ Index(sources, s) \in DOMAIN sources /\ sources[Index(sources, s)] = s
           /\ Index(sources, s) \in Nat
<1>1. \E i \in DOMAIN sources : sources[i] = s
  BY DEF ToSet
<1>2. Index(sources, s) \in DOMAIN sources /\ sources[Index(sources, s)] = s
  BY <1>1 DEF Index
<1>3. DOMAIN sources = 1 .. Len(sources)
  OBVIOUS
<1>4. QED BY <1>2, <1>3

-------------------------------------------------------------------------------
(* Plans without some of their sources, and caches after some answers.      *)

\* f holds what is left of each of the first n sources of a plan.
Remains(sources, gone, f, n) ==
    f = [m \in 0 .. n |-> IF m = 0 THEN <<>>
                          ELSE IF sources[m] \in gone THEN f[m - 1] ELSE Append(f[m - 1], sources[m])]

\* The sources can be taken in turn.
LEMMA RemainsExist ==
    ASSUME NEW sources, NEW gone, NEW N \in Nat
    PROVE  \E f : Remains(sources, gone, f, N)
<1> DEFINE Missing == {n \in Nat : ~ \E f : Remains(sources, gone, f, n)}
           Next1(f, m) == IF sources[m] \in gone THEN f[m - 1] ELSE Append(f[m - 1], sources[m])
<1> SUFFICES ASSUME Missing # {} PROVE FALSE
  OBVIOUS
<1>1. PICK n \in Missing : \A k \in Missing : n <= k
  BY LeastNatural
<1>2. Remains(sources, gone, [m \in 0 .. 0 |-> <<>>], 0)
  BY DEF Remains
<1>3. n # 0
  BY <1>1, <1>2
<1>4. n - 1 \in Nat /\ ~ (n <= n - 1)
  BY <1>3
<1>5. PICK f : Remains(sources, gone, f, n - 1)
  BY <1>1, <1>4
<1> DEFINE last == Next1(f, n)
           g == [m \in 0 .. n |-> IF m < n THEN f[m] ELSE last]
<1>6. \A m \in 0 .. n : g[m] = IF m = 0 THEN <<>> ELSE Next1(g, m)
  <2> SUFFICES ASSUME NEW m \in 0 .. n
               PROVE  g[m] = IF m = 0 THEN <<>> ELSE Next1(g, m)
    OBVIOUS
  <2>1. m # 0 => m - 1 \in 0 .. n /\ m - 1 < n
    BY <1>4
  <2>2. m # 0 => g[m - 1] = f[m - 1]
    BY <2>1
  <2>3. CASE m < n
    <3>1. m \in 0 .. n - 1
      BY <1>4, <2>3
    <3>2. f[m] = IF m = 0 THEN <<>> ELSE Next1(f, m)
      BY <1>5, <3>1 DEF Remains
    <3>3. g[m] = f[m]
      BY <2>3
    <3> HIDE DEF g
    <3>4. QED BY <2>2, <3>2, <3>3
  <2>4. CASE m = n
    <3>1. g[m] = last /\ m # 0
      BY <1>3, <2>4
    <3> HIDE DEF g
    <3>2. QED BY <2>2, <2>4, <3>1
  <2>5. QED BY <2>3, <2>4
<1>7. g = [m \in 0 .. n |-> IF m = 0 THEN <<>> ELSE Next1(g, m)]
  <2>1. g = [m \in 0 .. n |-> g[m]]
    OBVIOUS
  <2> HIDE DEF g
  <2>2. QED BY <1>6, <2>1
<1>8. Remains(sources, gone, g, n)
  BY <1>7 DEF Remains
<1>9. QED BY <1>1, <1>8

\* What is left of a plan is a plan.
LEMMA OthersAreAPlan ==
    ASSUME NEW sources \in Seq(Slots), NEW gone
    PROVE  Others(sources, gone) \in Seq(Slots)
<1> DEFINE N == Len(sources)
           f == CHOOSE g : Remains(sources, gone, g, N)
           Bad == {n \in 0 .. N : f[n] \notin Seq(Slots)}
<1>1. N \in Nat /\ \A i \in 1 .. N : sources[i] \in Slots
  OBVIOUS
<1>2. Remains(sources, gone, f, N)
  BY <1>1, RemainsExist
<1>3. Others(sources, gone) = f[N]
  BY DEF Others, Remains
<1> HIDE DEF f, N
<1>4. \A n \in 0 .. N : f[n] = IF n = 0 THEN <<>>
                               ELSE IF sources[n] \in gone THEN f[n - 1] ELSE Append(f[n - 1], sources[n])
  BY <1>2 DEF Remains
<1>5. ASSUME Bad # {} PROVE FALSE
  <2>1. Bad \in SUBSET Nat
    OBVIOUS
  <2>2. PICK n \in Bad : \A k \in Bad : n <= k
    BY <1>5, <2>1, LeastNatural
  <2>3. n # 0
    <3>1. 0 \in 0 .. N
      BY <1>1
    <3>2. f[0] = <<>>
      BY <1>4, <3>1
    <3>3. <<>> \in Seq(Slots)
      OBVIOUS
    <3>4. QED BY <2>2, <3>2, <3>3
  <2>4. n - 1 \in 0 .. N /\ n \in 1 .. N /\ ~(n <= n - 1)
    BY <1>1, <2>3
  <2>5. f[n - 1] \in Seq(Slots)
    BY <2>2, <2>4
  <2>6. f[n] \in Seq(Slots)
    <3>1. f[n] \in {f[n - 1], Append(f[n - 1], sources[n])}
      BY <1>4, <2>3, <2>4
    <3>2. sources[n] \in Slots
      BY <1>1, <2>4
    <3>3. Append(f[n - 1], sources[n]) \in Seq(Slots)
      BY <2>5, <3>2
    <3>4. QED BY <2>5, <3>1, <3>3
  <2>7. QED BY <2>2, <2>6
<1>6. QED BY <1>1, <1>3, <1>5

\* f holds the cache after each of the first n sources.
Stages(sources, answers, f, n) ==
    f = [m \in 0 .. n |-> IF m = 0 THEN cache
                          ELSE IF sources[m] \in DOMAIN answers THEN Kept(f[m - 1], answers[sources[m]])
                          ELSE f[m - 1]]

\* The answers can be stored in turn.
LEMMA StagesExist ==
    ASSUME NEW sources, NEW answers, NEW N \in Nat
    PROVE  \E f : Stages(sources, answers, f, N)
<1> DEFINE Missing == {n \in Nat : ~ \E f : Stages(sources, answers, f, n)}
           Next1(f, m) == IF sources[m] \in DOMAIN answers THEN Kept(f[m - 1], answers[sources[m]])
                          ELSE f[m - 1]
<1> SUFFICES ASSUME Missing # {} PROVE FALSE
  OBVIOUS
<1>1. PICK n \in Missing : \A k \in Missing : n <= k
  BY LeastNatural
<1>2. Stages(sources, answers, [m \in 0 .. 0 |-> cache], 0)
  BY DEF Stages
<1>3. n # 0
  BY <1>1, <1>2
<1>4. n - 1 \in Nat /\ ~ (n <= n - 1)
  BY <1>3
<1>5. PICK f : Stages(sources, answers, f, n - 1)
  BY <1>1, <1>4
<1> DEFINE last == Next1(f, n)
           g == [m \in 0 .. n |-> IF m < n THEN f[m] ELSE last]
<1>6. \A m \in 0 .. n : g[m] = IF m = 0 THEN cache ELSE Next1(g, m)
  <2> SUFFICES ASSUME NEW m \in 0 .. n
               PROVE  g[m] = IF m = 0 THEN cache ELSE Next1(g, m)
    OBVIOUS
  <2>1. m # 0 => m - 1 \in 0 .. n /\ m - 1 < n
    BY <1>4
  <2>2. m # 0 => g[m - 1] = f[m - 1]
    BY <2>1
  <2>3. CASE m < n
    <3>1. m \in 0 .. n - 1
      BY <1>4, <2>3
    <3>2. f[m] = IF m = 0 THEN cache ELSE Next1(f, m)
      BY <1>5, <3>1 DEF Stages
    <3>3. g[m] = f[m]
      BY <2>3
    <3> HIDE DEF g
    <3>4. QED BY <2>2, <3>2, <3>3
  <2>4. CASE m = n
    <3>1. g[m] = last /\ m # 0
      BY <1>3, <2>4
    <3> HIDE DEF g
    <3>2. QED BY <2>2, <2>4, <3>1
  <2>5. QED BY <2>3, <2>4
<1>7. g = [m \in 0 .. n |-> IF m = 0 THEN cache ELSE Next1(g, m)]
  <2>1. g = [m \in 0 .. n |-> g[m]]
    OBVIOUS
  <2> HIDE DEF g
  <2>2. QED BY <1>6, <2>1
<1>8. Stages(sources, answers, g, n)
  BY <1>7 DEF Stages
<1>9. QED BY <1>1, <1>8

\* What becomes of a cache that others than the user read and write.
OnlyAdded(c, d) == Readable(d) /\ Keeps(c, d, DOMAIN c.binds)

\* One that is left alone is kept.
LEMMA SameIsKept == ASSUME NEW c, Readable(c) PROVE OnlyAdded(c, c)
BY DEF OnlyAdded, Keeps

\* One step after the other.
LEMMA AddedInTurn ==
    ASSUME NEW c, NEW d, NEW e, OnlyAdded(c, d), OnlyAdded(d, e)
    PROVE  OnlyAdded(c, e)
BY DEF OnlyAdded, Keeps

\* Rows that are left can be read as before.
LEMMA StillReadable ==
    ASSUME NEW c, NEW d, \A a \in Stored(c) : c.rows[a].valid, Stored(d) \subseteq Stored(c),
           \A a \in Stored(d) : d.rows[a] = c.rows[a]
    PROVE  \A a \in Stored(d) : d.rows[a].valid
OBVIOUS

\* A row that is written can be read.
LEMMA WrittenIsReadable ==
    ASSUME NEW c, Tabled(c), \A a \in Stored(c) : c.rows[a].valid, NEW a \in Artifacts,
           NEW mode \in Modes, NEW chosen \in BOOLEAN
    PROVE  \A b \in Stored(Written(c, a, mode, chosen)) : Written(c, a, mode, chosen).rows[b].valid
<1> DEFINE only == chosen \/ (a \in Stored(c) /\ c.rows[a].only)
           row == [mode |-> mode, only |-> only, valid |-> TRUE, current |-> TRUE]
           S == Stored(c) \cup {a}
           rows == [b \in S |-> IF b = a THEN row ELSE c.rows[b]]
           wider == [c EXCEPT !.rows = rows]
           d == Written(c, a, mode, chosen)
<1>1. row.valid
  OBVIOUS
<1> HIDE DEF row
<1>2. DOMAIN rows = S /\ \A b \in S : rows[b].valid
  BY <1>1
<1>3. wider.rows = rows
  BY DEF Tabled
<1>4. d = Touched(wider, a)
  BY DEF Written, row
<1> HIDE DEF rows, wider
<1>5. d.rows = wider.rows
  BY <1>4 DEF Touched
<1>6. QED BY <1>2, <1>3, <1>5 DEF Stored

\* What a provider answered is stored, if the user lets it be.
LEMMA KeptIsKept ==
    ASSUME NEW c, Readable(c), NEW r, [provider |-> r.source, song |-> r.song] \in Artifacts
    PROVE  OnlyAdded(c, Kept(c, r))
<1> DEFINE a == [provider |-> r.source, song |-> r.song]
<1>1. CASE policy.cache /\ r.conf = High
  <2> DEFINE w == Written(c, a, "auto", FALSE)
             gone == {b \in Evictable(w) : Cardinality({e \in Evictable(w) : Newer(w, e, b)}) >= MaxEntries}
             d == Store(c, a, r.conf)
  <2>1. Tabled(c) /\ Consistent(c)
    BY DEF Readable, Consistent
  <2>2. Tabled(w) /\ \A b \in Stored(w) : w.rows[b].valid
    BY <2>1, WrittenIsTabled, WrittenIsReadable DEF Readable, Modes
  <2> HIDE DEF w
  <2>3. d = Without(w, gone)
    BY <1>1 DEF Store, Pruned, w
  <2> HIDE DEF gone
  <2>4. Stored(d) \subseteq Stored(w) /\ \A b \in Stored(d) : d.rows[b] = w.rows[b]
    BY <2>2, <2>3, WithoutIsTabled
  <2>5. \A b \in Stored(d) : d.rows[b].valid
    BY <2>2, <2>4, StillReadable
  <2>6. Consistent(d) /\ Keeps(c, d, DOMAIN c.binds)
    BY <2>1, StoreIsConsistent
  <2>7. Kept(c, r) = d
    BY <1>1 DEF Kept
  <2>8. QED BY <2>5, <2>6, <2>7 DEF OnlyAdded, Readable
<1>2. CASE ~(policy.cache /\ r.conf = High)
  <2>1. Kept(c, r) = c
    BY <1>2 DEF Kept, Store
  <2>2. QED BY <2>1, SameIsKept
<1>3. QED BY <1>1, <1>2

\* So is what several answered.
LEMMA KeptInTurnIsKept ==
    ASSUME NEW sources \in Seq(Slots), NEW answers, Readable(cache),
           \A s \in DOMAIN answers : [provider |-> answers[s].source, song |-> answers[s].song] \in Artifacts
    PROVE  OnlyAdded(cache, KeptInTurn(sources, answers))
<1> DEFINE N == Len(sources)
           f == CHOOSE g : Stages(sources, answers, g, N)
           Bad == {n \in 0 .. N : ~OnlyAdded(cache, f[n])}
<1>1. N \in Nat
  OBVIOUS
<1>2. Stages(sources, answers, f, N)
  BY <1>1, StagesExist
<1>3. KeptInTurn(sources, answers) = f[N]
  BY DEF KeptInTurn, Stages
<1> HIDE DEF f, N
<1>4. \A n \in 0 .. N : f[n] = IF n = 0 THEN cache
                               ELSE IF sources[n] \in DOMAIN answers THEN Kept(f[n - 1], answers[sources[n]])
                               ELSE f[n - 1]
  BY <1>2 DEF Stages
<1>5. ASSUME Bad # {} PROVE FALSE
  <2>1. Bad \in SUBSET Nat
    OBVIOUS
  <2>2. PICK n \in Bad : \A k \in Bad : n <= k
    BY <1>5, <2>1, LeastNatural
  <2>3. n # 0
    BY <1>1, <1>4, <2>2, SameIsKept
  <2>4. n - 1 \in 0 .. N /\ n \in 0 .. N /\ ~(n <= n - 1)
    BY <1>1, <2>3
  <2>5. OnlyAdded(cache, f[n - 1])
    BY <2>2, <2>4
  <2>6. OnlyAdded(f[n - 1], f[n])
    <3>1. Readable(f[n - 1])
      BY <2>5 DEF OnlyAdded
    <3>2. QED BY <1>4, <2>3, <2>4, <3>1, KeptIsKept, SameIsKept
  <2>7. QED BY <2>2, <2>5, <2>6, AddedInTurn
<1>6. QED BY <1>1, <1>3, <1>5

-------------------------------------------------------------------------------
(* What a lookup reads.                                                    *)

\* A read of some rows keeps what can be read.
LEMMA FirstReadIsKept ==
    ASSUME NEW c, Readable(c), NEW rows \in SUBSET Stored(c), NEW track \in Tracks
    PROVE  LET read == ReadFirst(c, Keyed(rows, track))
           IN  OnlyAdded(c, read.cache) /\ read.hit \in {None} \cup Artifacts
<1> DEFINE keys == Keyed(rows, track)
           read == ReadFirst(c, keys)
<1>1. DOMAIN keys = rows /\ \A a \in rows : keys[a] \in Keys
  BY RowsAreKeyed DEF Readable
<1>2. Stored(c) \subseteq Artifacts /\ Consistent(c)
  BY StoredAreArtifacts DEF Readable
<1> HIDE DEF keys
<1>3. /\ Consistent(read.cache) /\ read.hit \in DOMAIN keys \cup {None}
      /\ Stored(read.cache) \subseteq Stored(c)
      /\ \A a \in Stored(read.cache) : read.cache.rows[a] = c.rows[a]
      /\ \A k \in DOMAIN c.binds : c.rows[c.binds[k]].valid =>
            k \in DOMAIN read.cache.binds /\ read.cache.binds[k] = c.binds[k]
  BY <1>1, <1>2, ReadFirstIsConsistent
<1> HIDE DEF read
<1>4. \A a \in Stored(read.cache) : read.cache.rows[a].valid
  BY <1>3, StillReadable DEF Readable
<1>5. \A k \in DOMAIN c.binds : c.rows[c.binds[k]].valid
  BY <1>2 DEF Readable, Consistent, Tabled
<1>6. OnlyAdded(c, read.cache)
  BY <1>3, <1>4, <1>5 DEF OnlyAdded, Readable, Keeps
<1>7. read.hit \in {None} \cup Artifacts
  BY <1>1, <1>2, <1>3
<1>8. QED BY <1>6, <1>7 DEF read, keys

\* A row of the cache stands for a result.
LEMMA HitsAreResults ==
    ASSUME NEW a \in Artifacts, NEW conf \in {NoMatch, Medium, High}
    PROVE  FromCache(a, conf) \in Results
BY MetadataAssumption DEF FromCache, Results

\* A row matches a track to some degree.
LEMMA RowsHaveDegrees ==
    ASSUME NEW song \in Songs, NEW track \in Tracks
    PROVE  RowEvidence[song, track].conf \in {NoMatch, Medium, High}
<1> DEFINE e == Evaluate([Metadata[song] EXCEPT !.aliases = {}], Metadata[track], FALSE)
<1>1. RowEvidence[<<song, track>>] = e
  BY DEF RowEvidence
<1>2. e.conf \in {NoMatch, Medium, High}
  BY DEF Evaluate
<1>3. QED BY <1>1, <1>2

\* The lookup of what was chosen by hand.
LEMMA ReadManualIsKept ==
    ASSUME Readable(cache), NEW track \in Tracks, NEW fault
    PROVE  LET found == ReadManual(track, fault)
           IN  /\ OnlyAdded(cache, found.cache)
               /\ found.hit # None => FromCache(found.hit, found.conf) \in Results
<1> DEFINE found == ReadManual(track, fault)
<1>1. CASE policy.cache /\ fault = "none"
  <2> DEFINE chosen == Chosen(cache, track)
             rows == IF chosen # None THEN {chosen} ELSE Unbound(cache, track)
             read == ReadFirst(cache, Keyed(rows, track))
             conf == IF chosen # None THEN High
                     ELSE IF read.hit # None THEN RowEvidence[read.hit.song, track].conf ELSE 0
  <2>1. rows \subseteq Stored(cache)
    BY ChosenIsStored DEF Readable, Consistent, Unbound
  <2>2. found = [hit |-> read.hit, cache |-> read.cache, conf |-> conf]
    BY <1>1 DEF ReadManual, LookupManual
  <2> HIDE DEF rows, chosen
  <2>3. OnlyAdded(cache, read.cache) /\ read.hit \in {None} \cup Artifacts
    BY <2>1, FirstReadIsKept
  <2> HIDE DEF read
  <2>4. conf \in {NoMatch, Medium, High}
    BY <2>3, RowsHaveDegrees, MetadataAssumption, DegreesAreNumbers
  <2> HIDE DEF conf
  <2>5. found.hit = read.hit /\ found.cache = read.cache /\ found.conf = conf
    BY <2>2
  <2>6. QED BY <2>3, <2>4, <2>5, HitsAreResults
<1>2. CASE ~(policy.cache /\ fault = "none")
  <2>1. found.cache = cache /\ found.hit = None
    BY <1>2 DEF ReadManual, Unread
  <2>2. QED BY <2>1, SameIsKept
<1>3. QED BY <1>1, <1>2

\* The document of the live source is accepted to some degree.
LEMMA LiveIsAResult ==
    ASSUME NEW track \in Tracks
    PROVE  LiveResult(track) \in {None} \cup Results
<1>1. LiveConf[track] \in {NoMatch, Medium, High}
  <2> DEFINE e == Evaluate(Metadata[LiveSong], Metadata[track], FALSE)
  <2>1. LiveConf[track] = IF e.conf = High \/ (e.conf = Medium /\ e.exact) THEN e.conf ELSE NoMatch
    BY DEF LiveConf
  <2>2. e.conf \in {NoMatch, Medium, High}
    BY DEF Evaluate
  <2>3. QED BY <2>1, <2>2
<1>2. LiveSong \in Songs
  BY ResolverAssumption
<1>3. QED BY <1>1, <1>2 DEF LiveResult, Results

\* What a source has without asking anybody.
LEMMA ReadCachedIsKept ==
    ASSUME Readable(cache), NEW source \in Slots, NEW track \in Tracks, NEW fault
    PROVE  LET found == ReadCached(source, track, fault)
           IN  /\ OnlyAdded(cache, found.cache)
               /\ Has(source, track, found.hit) \in {None} \cup Results
<1> DEFINE found == ReadCached(source, track, fault)
<1>1. OnlyAdded(cache, found.cache) /\ found.hit \in {None} \cup Artifacts
  <2>1. CASE source # Live /\ policy.cache /\ fault = "none"
    <3> DEFINE rows == {a \in Stored(cache) : /\ a.provider = source
                                              /\ cache.rows[a].mode = "auto" /\ cache.rows[a].current
                                              /\ RowEvidence[a.song, track].conf = High}
    <3>1. found = ReadFirst(cache, Keyed(rows, track))
      BY <2>1 DEF ReadCached, Lookup
    <3>2. rows \in SUBSET Stored(cache)
      OBVIOUS
    <3> HIDE DEF rows
    <3>3. QED BY <3>1, <3>2, FirstReadIsKept
  <2>2. CASE ~(source # Live /\ policy.cache /\ fault = "none")
    <3>1. found.cache = cache /\ found.hit = None
      BY <2>2 DEF ReadCached, Unread
    <3>2. QED BY <3>1, SameIsKept
  <2>3. QED BY <2>1, <2>2
<1> HIDE DEF found
<1>2. Has(source, track, found.hit) \in {None} \cup Results
  BY <1>1, LiveIsAResult, HitsAreResults, DegreesAreNumbers DEF Has
<1>3. QED BY <1>1, <1>2 DEF found

-------------------------------------------------------------------------------
(* What may become of a lookup.                                            *)

\* The fields of a lookup.
LEMMA FieldsOfTask ==
    ASSUME NEW task \in Tasks
    PROVE  /\ DOMAIN task = {"phase", "at", "best", "resolved", "pending", "asked", "skipped", "fuzzy",
                             "failed", "result"}
           /\ task.at \in Nat \ {0} /\ task.best \in Leaders /\ task.resolved \subseteq Slots
           /\ task.pending \subseteq Network /\ task.asked \subseteq Network
           /\ task.skipped \subseteq Network /\ task.fuzzy \in BOOLEAN /\ task.failed \subseteq Network
           /\ task.result \in {None} \cup Results
BY DEF Tasks

\* What is relied upon less is right.
LEMMA TrustLess ==
    ASSUME NEW w, NEW honest, NEW k, NEW task, TaskIsRight(w, honest, k, task), NEW now, now => honest
    PROVE  TaskIsRight(w, now, k, task)
BY DEF TaskIsRight

\* A lookup begins.
LEMMA NewIsRight ==
    ASSUME NEW w, NEW honest, NEW k \in LookupKeys
    PROVE  TaskIsRight(w, honest, k, NewLookup)
<1>1. NewLookup \in Tasks
  BY DEF NewLookup, Tasks, Leaders
<1>2. /\ NewLookup.phase = "manual" /\ NewLookup.at = 1 /\ NewLookup.asked = {}
      /\ NewLookup.pending = {} /\ NewLookup.resolved = {}
  BY DEF NewLookup
<1>3. QED BY <1>1, <1>2 DEF TaskIsRight, Quiet

\* A lookup is ended by an exception.
LEMMA RaisedIsRight ==
    ASSUME NEW w, NEW honest, NEW k, NEW task \in Tasks
    PROVE  TaskIsRight(w, honest, k, Raised(task))
<1> DEFINE t == Raised(task)
<1>1. t \in Tasks
  BY DEF Raised, Tasks
<1>2. t.phase = "raised" /\ t.pending = {}
  BY FieldsOfTask DEF Raised
<1> HIDE DEF t
<1>3. TaskIsRight(w, honest, k, t)
  BY <1>1, <1>2 DEF TaskIsRight
<1>4. QED BY <1>3 DEF t

\* A lookup that has asked nobody ends with something.
LEMMA FoundIsRight ==
    ASSUME NEW w, NEW honest, NEW k, NEW task \in Tasks, Quiet(task), NEW r \in Results
    PROVE  TaskIsRight(w, honest, k, Done(task, r))
<1> DEFINE t == Done(task, r)
<1>1. t \in Tasks
  BY DEF Done, Tasks
<1>2. t.phase = "done" /\ t.pending = {} /\ t.asked = {} /\ t.result = r
  BY FieldsOfTask DEF Done, Quiet
<1>3. r # None
  BY ResolverAssumption
<1> HIDE DEF t
<1>4. TaskIsRight(w, honest, k, t)
  BY <1>1, <1>2, <1>3 DEF TaskIsRight
<1>5. QED BY <1>4 DEF t

\* One that has asked nobody, or nobody it still awaits, ends with nothing.
LEMMA MissedIsRight ==
    ASSUME NEW w, NEW honest, NEW k, NEW task \in Tasks, task.asked = {},
           honest /\ task.failed = {} => \A s \in NetworkOf(k) : MayMiss(w, s, k.track)
    PROVE  TaskIsRight(w, honest, k, Done(task, None))
<1> DEFINE t == Done(task, None)
<1>1. t \in Tasks
  BY DEF Done, Tasks
<1>2. t.phase = "done" /\ t.pending = {} /\ t.asked = {} /\ t.failed = task.failed
  BY FieldsOfTask DEF Done
<1> HIDE DEF t
<1>3. TaskIsRight(w, honest, k, t)
  BY <1>1, <1>2 DEF TaskIsRight
<1>4. QED BY <1>3 DEF t

\* The places of a plan are numbered.
LEMMA PlacesOf ==
    ASSUME NEW k \in LookupKeys
    PROVE  /\ k.sources \in Seq(Slots) /\ Len(k.sources) \in Nat /\ DOMAIN k.sources = 1 .. Len(k.sources)
           /\ k.track \in Tracks
           /\ \A i \in DOMAIN k.sources : k.sources[i] \in Slots
           /\ \A s \in NetworkOf(k) : \E i \in DOMAIN k.sources : k.sources[i] = s
BY DEF LookupKeys, NetworkOf, ToSet

\* A lookup goes on to the next source, or there is none.
LEMMA OnwardIsRight ==
    ASSUME NEW w, NEW honest, NEW k \in LookupKeys, NEW task \in Tasks, Quiet(task),
           task.at \in DOMAIN k.sources,
           honest /\ task.failed = {} =>
               \A i \in 1 .. task.at : k.sources[i] \in Network => MayMiss(w, k.sources[i], k.track)
    PROVE  TaskIsRight(w, honest, k, Onward(task, k))
<1>1. CASE task.at < Len(k.sources)
  <2> DEFINE t == [task EXCEPT !.phase = "turn", !.at = @ + 1]
  <2>1. Onward(task, k) = t
    BY <1>1 DEF Onward
  <2>2. task.at + 1 \in Nat \ {0} /\ task.at + 1 \in DOMAIN k.sources
    BY <1>1, PlacesOf
  <2>3. t \in Tasks
    BY <2>2 DEF Tasks
  <2>4. /\ t.phase = "turn" /\ t.at = task.at + 1 /\ t.asked = task.asked /\ t.pending = task.pending
        /\ t.best = task.best /\ t.resolved = task.resolved /\ t.failed = task.failed
    BY FieldsOfTask
  <2> HIDE DEF t
  <2>5. Quiet(t) /\ t.pending \subseteq ToSet(k.sources)
    BY <2>4 DEF Quiet
  <2>6. 1 .. (t.at - 1) = 1 .. task.at
    BY <2>4, FieldsOfTask
  <2>7. TaskIsRight(w, honest, k, t)
    BY <2>2, <2>3, <2>4, <2>5, <2>6 DEF TaskIsRight
  <2>8. QED BY <2>1, <2>7
<1>2. CASE ~(task.at < Len(k.sources))
  <2>1. Onward(task, k) = Done(task, None)
    BY <1>2 DEF Onward
  <2>2. task.at = Len(k.sources)
    BY <1>2, PlacesOf
  <2>3. honest /\ task.failed = {} => \A s \in NetworkOf(k) : MayMiss(w, s, k.track)
    <3> SUFFICES ASSUME honest, task.failed = {}, NEW s \in NetworkOf(k) PROVE MayMiss(w, s, k.track)
      OBVIOUS
    <3>1. PICK i \in DOMAIN k.sources : k.sources[i] = s
      BY PlacesOf
    <3>2. i \in 1 .. task.at /\ s \in Network
      BY <2>2, PlacesOf DEF NetworkOf
    <3>3. QED BY <3>1, <3>2
  <2>4. TaskIsRight(w, honest, k, Done(task, None))
    BY <2>3, MissedIsRight DEF Quiet
  <2>5. QED BY <2>1, <2>4
<1>3. QED BY <1>1, <1>2

-------------------------------------------------------------------------------
(* Steps of a lookup that await nobody.                                    *)

\* What is used up of the bounds, and whether a failure was not told, is only added to.
Spends ==
    /\ DOMAIN spent' = DOMAIN spent /\ spent'.changes \in Nat /\ spent'.changes >= spent.changes
    /\ spent'.swallowed \in BOOLEAN /\ (spent.swallowed => spent'.swallowed)

\* A fault of the cache changes neither.
LEMMA FaultSpends ==
    ASSUME ResolverInv, NEW fault, Fault(fault)
    PROVE  Spends /\ spent'.swallowed = spent.swallowed /\ spent'.changes = spent.changes
BY DEF ResolverInv, Fault, Spends

\* What is relied upon less is right of the misses, too.
LEMMA MissesStayRight ==
    ASSUME ResolverInv, negative' \subseteq negative, world' = world,
           spent.swallowed => spent'.swallowed
    PROVE  MissesAreRight'
BY DEF ResolverInv, MissesAreRight, MayMiss

\* A lookup moves on, and the others wait.
LEMMA LookupMoves ==
    ASSUME ResolverInv, NEW k \in DOMAIN lookups, NEW task, Becomes(k, task),
           TaskIsRight(world, ~spent'.swallowed, k, task), OnlyAdded(cache, cache'), MissesAreRight',
           Spends, UNCHANGED <<world, policy, plan, heard, request>>
    PROVE  ResolverInv'
<1>1. DOMAIN lookups' = DOMAIN lookups /\ lookups'[k] = task
      /\ \A j \in DOMAIN lookups \ {k} : lookups'[j] = lookups[j]
  BY DEF Becomes
<1>2. \A j \in DOMAIN lookups' : TaskIsRight(world, ~spent'.swallowed, j, lookups'[j])
  <2>1. \A j \in DOMAIN lookups \ {k} : TaskIsRight(world, ~spent'.swallowed, j, lookups[j])
    BY TrustLess DEF ResolverInv, Spends
  <2>2. QED BY <1>1, <2>1
<1>3. RequestIsRight'
  BY <1>1 DEF ResolverInv, RequestIsRight
<1>4. Readable(cache')
  BY DEF OnlyAdded
<1>5. QED BY <1>1, <1>2, <1>3, <1>4 DEF ResolverInv, Spends

\* The lookup of what was chosen by hand.
LEMMA ManualStepKeeps ==
    ASSUME ResolverInv, NEW k \in DOMAIN lookups, NEW fault, LookupManualStep(k, fault)
    PROVE  ResolverInv' /\ OnlyAdded(cache, cache')
<1> DEFINE task == lookups[k]
           next == IF policy.best THEN "free" ELSE "turn"
           onward == [task EXCEPT !.phase = next]
<1>1. k \in LookupKeys /\ TaskIsRight(world, ~spent.swallowed, k, task) /\ Readable(cache)
      /\ task.phase = "manual"
  BY DEF ResolverInv, LookupManualStep
<1>2. task \in Tasks /\ Quiet(task) /\ task.at = 1
  BY <1>1 DEF TaskIsRight
<1>3. k.track \in Tracks
  BY <1>1, PlacesOf
<1>4. PICK found : /\ found = ReadManual(k.track, fault) /\ cache' = found.cache
                   /\ Becomes(k, IF fault = "timeout" THEN Raised(task)
                                 ELSE IF found.hit # None THEN Done(task, FromCache(found.hit, found.conf))
                                 ELSE IF k.sources = <<>> THEN Done(task, None) ELSE onward)
  BY DEF LookupManualStep
<1>5. OnlyAdded(cache, cache') /\ (found.hit # None => FromCache(found.hit, found.conf) \in Results)
  BY <1>1, <1>3, <1>4, ReadManualIsKept
<1>6. Spends /\ spent'.swallowed = spent.swallowed
  BY FaultSpends DEF LookupManualStep
<1>7. TaskIsRight(world, ~spent'.swallowed, k, Raised(task))
  BY <1>2, RaisedIsRight
<1>8. found.hit # None => TaskIsRight(world, ~spent'.swallowed, k, Done(task, FromCache(found.hit, found.conf)))
  BY <1>2, <1>5, FoundIsRight
<1>9. k.sources = <<>> => TaskIsRight(world, ~spent'.swallowed, k, Done(task, None))
  <2>1. k.sources = <<>> => NetworkOf(k) = {}
    BY DEF NetworkOf, ToSet
  <2>2. QED BY <1>2, <2>1, MissedIsRight DEF Quiet
<1>10. k.sources # <<>> => TaskIsRight(world, ~spent'.swallowed, k, onward)
  <2> SUFFICES ASSUME k.sources # <<>> PROVE TaskIsRight(world, ~spent'.swallowed, k, onward)
    OBVIOUS
  <2>1. 1 \in DOMAIN k.sources
    BY <1>1, PlacesOf
  <2>2. onward \in Tasks
    BY <1>2 DEF Tasks
  <2>3. /\ onward.phase \in {"free", "turn"} /\ onward.at = 1 /\ onward.asked = task.asked
        /\ onward.pending = task.pending /\ onward.best = task.best /\ onward.resolved = task.resolved
    BY <1>2, FieldsOfTask
  <2> HIDE DEF onward
  <2>4. Quiet(onward) /\ onward.pending \subseteq ToSet(k.sources)
    BY <1>2, <2>3 DEF Quiet
  <2>5. 1 .. (onward.at - 1) = {}
    BY <2>3
  <2>6. QED BY <2>1, <2>2, <2>3, <2>4, <2>5 DEF TaskIsRight
<1>11. MissesAreRight'
  BY <1>6, MissesStayRight DEF LookupManualStep
<1> DEFINE moved == IF fault = "timeout" THEN Raised(task)
                    ELSE IF found.hit # None THEN Done(task, FromCache(found.hit, found.conf))
                    ELSE IF k.sources = <<>> THEN Done(task, None) ELSE onward
<1>12. TaskIsRight(world, ~spent'.swallowed, k, moved) /\ Becomes(k, moved)
  <2> HIDE DEF onward, task
  <2>1. QED BY <1>4, <1>7, <1>8, <1>9, <1>10
<1> HIDE DEF moved
<1>13. UNCHANGED <<world, policy, plan, heard, request>>
  BY DEF LookupManualStep
<1>14. ResolverInv'
  BY <1>5, <1>6, <1>11, <1>12, <1>13, LookupMoves
<1>15. QED BY <1>5, <1>14

\* A source of the plan has its turn.
LEMMA TurnStepKeeps ==
    ASSUME ResolverInv, NEW k \in DOMAIN lookups, NEW fault, TurnStep(k, fault)
    PROVE  ResolverInv' /\ OnlyAdded(cache, cache')
<1> DEFINE task == lookups[k]
           source == k.sources[task.at]
           missed == source # Live /\ <<source, k.track>> \in negative
           passed == [task EXCEPT !.skipped = @ \cup {source}]
           asking == [task EXCEPT !.phase = "asked", !.fuzzy = policy.fuzzy]
           Turned(result) ==
               IF result # None THEN Done(task, result)
               ELSE IF source = Live THEN Onward(task, k)
               ELSE IF missed THEN Onward(passed, k) ELSE asking
<1>1. k \in LookupKeys /\ TaskIsRight(world, ~spent.swallowed, k, task) /\ Readable(cache)
      /\ task.phase = "turn" /\ MissesAreRight /\ policy.fuzzy \in BOOLEAN
  BY DEF ResolverInv, TurnStep
<1>2. task \in Tasks /\ Quiet(task) /\ task.at \in DOMAIN k.sources
      /\ task.pending \subseteq ToSet(k.sources)
      /\ (~spent.swallowed /\ task.failed = {} =>
             \A i \in 1 .. (task.at - 1) : k.sources[i] \in Network => MayMiss(world, k.sources[i], k.track))
  BY <1>1 DEF TaskIsRight
<1>3. k.track \in Tracks /\ source \in Slots
  BY <1>1, <1>2, PlacesOf
<1>4. PICK found : /\ found = ReadCached(source, k.track, fault) /\ cache' = found.cache
                   /\ Becomes(k, IF fault = "timeout" THEN Raised(task)
                                 ELSE Turned(Has(source, k.track, found.hit)))
  BY DEF TurnStep
<1> DEFINE had == Has(source, k.track, found.hit)
<1>5. OnlyAdded(cache, cache') /\ had \in {None} \cup Results
  BY <1>1, <1>3, <1>4, ReadCachedIsKept
<1> HIDE DEF had
<1>6. Spends /\ spent'.swallowed = spent.swallowed
  BY FaultSpends DEF TurnStep
<1>7. TaskIsRight(world, ~spent'.swallowed, k, Raised(task))
  BY <1>2, RaisedIsRight
<1>8. had # None => TaskIsRight(world, ~spent'.swallowed, k, Done(task, had))
  BY <1>2, <1>5, FoundIsRight
<1>9. ASSUME source \in Network /\ ~spent.swallowed => MayMiss(world, source, k.track)
      PROVE  ~spent'.swallowed /\ task.failed = {} =>
                 \A i \in 1 .. task.at : k.sources[i] \in Network => MayMiss(world, k.sources[i], k.track)
  <2>1. \A i \in 1 .. task.at : i = task.at \/ i \in 1 .. (task.at - 1)
    BY <1>2, FieldsOfTask
  <2>2. QED BY <1>2, <1>6, <1>9, <2>1
<1>10. source = Live => TaskIsRight(world, ~spent'.swallowed, k, Onward(task, k))
  <2>1. source = Live => source \notin Network
    BY ResolverAssumption
  <2>2. QED BY <1>1, <1>2, <1>9, <2>1, OnwardIsRight
<1>11. source # Live => source \in Network
  BY <1>3 DEF Slots
<1>12. missed => TaskIsRight(world, ~spent'.swallowed, k, Onward(passed, k))
  <2> SUFFICES ASSUME missed PROVE TaskIsRight(world, ~spent'.swallowed, k, Onward(passed, k))
    OBVIOUS
  <2>1. source \in Network /\ (~spent.swallowed => MayMiss(world, source, k.track))
    BY <1>1, <1>3, <1>11 DEF MissesAreRight
  <2>2. passed \in Tasks
    BY <1>2, <2>1 DEF Tasks
  <2>3. /\ passed.at = task.at /\ passed.asked = task.asked /\ passed.pending = task.pending
        /\ passed.best = task.best /\ passed.resolved = task.resolved /\ passed.failed = task.failed
    BY <1>2, FieldsOfTask
  <2> HIDE DEF passed
  <2>4. Quiet(passed)
    BY <1>2, <2>3 DEF Quiet
  <2>5. ~spent'.swallowed /\ passed.failed = {} =>
             \A i \in 1 .. passed.at : k.sources[i] \in Network => MayMiss(world, k.sources[i], k.track)
    BY <1>9, <2>1, <2>3
  <2>6. passed.at \in DOMAIN k.sources
    BY <1>2, <2>3
  <2> HIDE DEF task
  <2>7. QED BY <1>1, <2>2, <2>4, <2>5, <2>6, OnwardIsRight
<1>13. source # Live => TaskIsRight(world, ~spent'.swallowed, k, asking)
  <2> SUFFICES ASSUME source # Live PROVE TaskIsRight(world, ~spent'.swallowed, k, asking)
    OBVIOUS
  <2>1. asking \in Tasks
    BY <1>1, <1>2 DEF Tasks
  <2>2. /\ asking.phase = "asked" /\ asking.at = task.at /\ asking.asked = task.asked
        /\ asking.pending = task.pending
        /\ asking.best = task.best /\ asking.resolved = task.resolved /\ asking.failed = task.failed
    BY <1>2, FieldsOfTask
  <2> HIDE DEF asking
  <2>3. Quiet(asking)
    BY <1>2, <2>2 DEF Quiet
  <2>4. k.sources[asking.at] \in Network
    BY <1>11, <2>2
  <2>5. QED BY <1>2, <1>6, <2>1, <2>2, <2>3, <2>4 DEF TaskIsRight
<1>14. MissesAreRight'
  BY <1>6, MissesStayRight DEF TurnStep
<1> DEFINE moved == IF fault = "timeout" THEN Raised(task) ELSE Turned(had)
<1>15. TaskIsRight(world, ~spent'.swallowed, k, moved) /\ Becomes(k, moved)
  <2>1. Becomes(k, moved)
    BY <1>4 DEF had
  <2> HIDE DEF asking, passed, task, source
  <2>2. QED BY <1>7, <1>8, <1>10, <1>12, <1>13, <2>1
<1> HIDE DEF moved
<1>16. UNCHANGED <<world, policy, plan, heard, request>>
  BY DEF TurnStep
<1>17. ResolverInv'
  BY <1>5, <1>6, <1>14, <1>15, <1>16, LookupMoves
<1>18. QED BY <1>5, <1>17

\* What a provider may answer is an outcome, and it answers.
LEMMA RepliesExist ==
    ASSUME NEW w \in DOMAIN Worlds, NEW s \in Network, NEW t \in Tracks, NEW fuzzy \in BOOLEAN
    PROVE  /\ Replies[w, s, t, fuzzy] \subseteq Outcomes /\ Replies[w, s, t, fuzzy] # {}
           /\ Disturbed[w, s, t, fuzzy] \subseteq Outcomes
<1> HIDE DEF Replies, Disturbed, Outcomes, Nothing
<1>1. /\ Replies[w, s, t, fuzzy] # {}
      /\ Replies[w, s, t, fuzzy] \cup Disturbed[w, s, t, fuzzy] \subseteq Outcomes
  BY AnswersAssumption
<1>2. QED BY <1>1

\* A provider that could not beat the best there is may answer no better.
LEMMA CannotWin ==
    ASSUME NEW w \in DOMAIN Worlds, NEW k \in LookupKeys, NEW s \in NetworkOf(k), NEW fuzzy \in BOOLEAN,
           NEW best \in Leaders, ~CouldBeat(best, Index(k.sources, s))
    PROVE  Beaten(w, k, s, fuzzy, best)
<1>1. k.track \in Tracks /\ s \in Network /\ s \in ToSet(k.sources) /\ k.sources \in Seq(Slots)
  BY PlacesOf DEF NetworkOf
<1>2. Replies[w, s, k.track, fuzzy] \subseteq Outcomes /\ Replies[w, s, k.track, fuzzy] # {}
  BY <1>1, RepliesExist
<1>3. PICK reply \in Replies[w, s, k.track, fuzzy] : reply \in Outcomes
  BY <1>2
<1>4. Candidate(s, reply) \in {None} \cup Results
  BY <1>1, <1>3, RepliesAre
<1>5. Index(k.sources, s) \in Nat
  BY <1>1, PlaceOfSource
<1>6. Candidate(s, reply) # None =>
          ~Better([result |-> Candidate(s, reply), index |-> Index(k.sources, s)], best)
  BY <1>4, <1>5, WhatCouldNotBeat
<1>7. QED BY <1>3, <1>6 DEF Beaten

\* A lookup that has collected what costs nothing asks everyone who could still win, and
\* ends if there is nobody to ask.
LEMMA LaunchedIsRight ==
    ASSUME ResolverInv, NEW k \in DOMAIN lookups, NEW task \in Tasks, Quiet(task)
    PROVE  LET all == Launched(task, k)
           IN  TaskIsRight(world, ~spent.swallowed, k,
                           IF all.pending = {} THEN Done(all, BestOf(all)) ELSE all)
<1> DEFINE open == {s \in (Network \cap ToSet(k.sources)) \ task.resolved :
                        CouldBeat(task.best, Index(k.sources, s))}
           skipped == {s \in open : <<s, k.track>> \in negative}
           all == Launched(task, k)
<1>1. k \in LookupKeys /\ world \in DOMAIN Worlds /\ MissesAreRight /\ policy.fuzzy \in BOOLEAN
  BY DEF ResolverInv
<1>2. k.track \in Tracks
  BY <1>1, PlacesOf
<1>3. open \subseteq NetworkOf(k) /\ open \subseteq Network /\ open \subseteq ToSet(k.sources)
  BY DEF NetworkOf
<1>4. all = [task EXCEPT !.phase = "asking", !.pending = open \ skipped, !.asked = open \ skipped,
                         !.skipped = skipped, !.fuzzy = policy.fuzzy]
  BY DEF Launched
<1>5. \A s \in NetworkOf(k) \ task.resolved : s \in open \/ ~CouldBeat(task.best, Index(k.sources, s))
  BY DEF NetworkOf
<1>6. \A s \in open : s \in skipped <=> <<s, k.track>> \in negative
  OBVIOUS
<1>7. skipped \subseteq open
  OBVIOUS
<1> HIDE DEF open, skipped, all
<1>8. all \in Tasks
  BY <1>1, <1>3, <1>4, <1>7 DEF Tasks
<1>9. /\ all.phase = "asking" /\ all.pending = open \ skipped /\ all.asked = open \ skipped
      /\ all.skipped = skipped /\ all.fuzzy = policy.fuzzy /\ all.best = task.best
      /\ all.resolved = task.resolved /\ all.failed = task.failed
  BY <1>4, FieldsOfTask
<1>10. ASSUME ~spent.swallowed, task.best = None, NEW s \in NetworkOf(k) \ all.pending
       PROVE  MayMiss(world, s, k.track)
  <2>1. s \in open
    BY <1>5, <1>10 DEF Quiet, CouldBeat
  <2>2. <<s, k.track>> \in negative /\ s \in Network
    BY <1>3, <1>6, <1>9, <1>10, <2>1
  <2>3. QED BY <1>1, <1>2, <1>10, <2>2 DEF MissesAreRight
<1>11. ASSUME NEW s \in Reached(k, all) \ all.pending
       PROVE  Beaten(world, k, s, all.fuzzy, all.best)
  <2>1. s \in NetworkOf(k) \ task.resolved /\ s \notin open
    BY <1>9 DEF Reached
  <2>2. ~CouldBeat(all.best, Index(k.sources, s)) /\ s \in NetworkOf(k)
    BY <1>5, <1>9, <2>1
  <2>3. QED BY <1>1, <1>8, <2>2, CannotWin, FieldsOfTask
<1>12. TaskIsRight(world, ~spent.swallowed, k, all)
  BY <1>3, <1>8, <1>9, <1>10, <1>11 DEF TaskIsRight
<1>13. ASSUME all.pending = {}
       PROVE  TaskIsRight(world, ~spent.swallowed, k, Done(all, BestOf(all)))
  <2>1. all.asked = {}
    BY <1>9, <1>13
  <2>2. CASE all.best = None
    <3>1. BestOf(all) = None
      BY <2>2 DEF BestOf
    <3>2. ~spent.swallowed /\ all.failed = {} => \A s \in NetworkOf(k) : MayMiss(world, s, k.track)
      BY <1>9, <1>10, <1>13, <2>2
    <3>3. QED BY <1>8, <2>1, <3>1, <3>2, MissedIsRight
  <2>3. CASE all.best # None
    <3>1. BestOf(all) \in Results
      BY <1>8, <2>3, FieldsOfTask DEF BestOf, Leaders
    <3>2. Quiet(all)
      BY <1>13, <2>1, <2>3 DEF Quiet
    <3>3. QED BY <1>8, <3>1, <3>2, FoundIsRight
  <2>4. QED BY <2>2, <2>3
<1>14. TaskIsRight(world, ~spent.swallowed, k, IF all.pending = {} THEN Done(all, BestOf(all)) ELSE all)
  BY <1>12, <1>13
<1>15. QED BY <1>14 DEF all

\* What costs nothing is collected.
LEMMA FreeStepKeeps ==
    ASSUME ResolverInv, NEW k \in DOMAIN lookups, NEW fault, FreeStep(k, fault)
    PROVE  ResolverInv' /\ OnlyAdded(cache, cache')
<1> DEFINE task == lookups[k]
           source == k.sources[task.at]
           candidate(result) == [result |-> result, index |-> task.at]
           leader(result) == IF Better(candidate(result), task.best) THEN candidate(result) ELSE task.best
           Collected(result) ==
               IF result = None THEN task
               ELSE [task EXCEPT !.resolved = @ \cup {source}, !.best = leader(result)]
           Asking(all) == IF all.pending = {} THEN Done(all, BestOf(all)) ELSE all
<1>1. k \in LookupKeys /\ TaskIsRight(world, ~spent.swallowed, k, task) /\ Readable(cache)
      /\ task.phase = "free"
  BY DEF ResolverInv, FreeStep
<1>2. task \in Tasks /\ Quiet(task) /\ task.at \in DOMAIN k.sources
  BY <1>1 DEF TaskIsRight
<1>3. k.track \in Tracks /\ source \in Slots
  BY <1>1, <1>2, PlacesOf
<1>4. PICK found : /\ found = ReadCached(source, k.track, fault) /\ cache' = found.cache
                   /\ \E read : /\ read = Collected(Has(source, k.track, found.hit))
                                /\ Becomes(k, IF fault = "timeout" THEN Raised(task)
                                              ELSE IF task.at < Len(k.sources) THEN [read EXCEPT !.at = @ + 1]
                                              ELSE Asking(Launched(read, k)))
  BY DEF FreeStep
<1> DEFINE had == Has(source, k.track, found.hit)
<1>5. OnlyAdded(cache, cache') /\ had \in {None} \cup Results
  BY <1>1, <1>3, <1>4, ReadCachedIsKept
<1> HIDE DEF had
<1>6. Spends /\ spent'.swallowed = spent.swallowed
  BY FaultSpends DEF FreeStep
<1>7. TaskIsRight(world, ~spent'.swallowed, k, Raised(task))
  BY <1>2, RaisedIsRight
<1> DEFINE read == Collected(had)
<1>8. /\ read \in Tasks /\ Quiet(read) /\ read.phase = "free" /\ read.at = task.at
  <2>1. CASE had = None
    BY <1>1, <1>2, <2>1
  <2>2. CASE had # None
    <3>1. candidate(had) \in [result : Results, index : Nat]
      BY <1>2, <1>5, <2>2, FieldsOfTask
    <3>2. candidate(had) # None
      BY <3>1, ResolverAssumption
    <3>3. leader(had) \in Leaders /\ leader(had) # None
      BY <1>2, <3>1, <3>2, FieldsOfTask DEF Leaders, Better
    <3> HIDE DEF leader, candidate
    <3>4. read = [task EXCEPT !.resolved = @ \cup {source}, !.best = leader(had)]
      BY <2>2
    <3> HIDE DEF read
    <3>5. read \in Tasks
      BY <1>2, <1>3, <3>3, <3>4 DEF Tasks
    <3>6. /\ read.phase = task.phase /\ read.at = task.at /\ read.asked = task.asked
          /\ read.pending = task.pending /\ read.best = leader(had)
      BY <1>2, <3>4, FieldsOfTask
    <3>7. QED BY <1>1, <1>2, <3>3, <3>5, <3>6 DEF Quiet
  <2>3. QED BY <2>1, <2>2
<1>9. Becomes(k, IF fault = "timeout" THEN Raised(task)
                 ELSE IF task.at < Len(k.sources) THEN [read EXCEPT !.at = @ + 1]
                 ELSE Asking(Launched(read, k)))
  BY <1>4 DEF had
<1> HIDE DEF read
<1> DEFINE further == [read EXCEPT !.at = @ + 1]
<1>10. task.at < Len(k.sources) => TaskIsRight(world, ~spent'.swallowed, k, further)
  <2> SUFFICES ASSUME task.at < Len(k.sources) PROVE TaskIsRight(world, ~spent'.swallowed, k, further)
    OBVIOUS
  <2>1. task.at + 1 \in Nat \ {0} /\ task.at + 1 \in DOMAIN k.sources
    BY <1>1, <1>2, PlacesOf
  <2>2. further \in Tasks
    BY <1>8, <2>1 DEF Tasks
  <2>3. /\ further.phase = "free" /\ further.at = task.at + 1 /\ further.asked = read.asked
        /\ further.pending = read.pending /\ further.best = read.best /\ further.resolved = read.resolved
    BY <1>8, FieldsOfTask
  <2> HIDE DEF further, task
  <2>4. Quiet(further) /\ further.pending \subseteq ToSet(k.sources)
    BY <1>8, <2>3 DEF Quiet
  <2>5. QED BY <2>1, <2>2, <2>3, <2>4 DEF TaskIsRight
<1>11. TaskIsRight(world, ~spent'.swallowed, k, Asking(Launched(read, k)))
  BY <1>6, <1>8, LaunchedIsRight
<1>12. MissesAreRight'
  BY <1>6, MissesStayRight DEF FreeStep
<1> DEFINE moved == IF fault = "timeout" THEN Raised(task)
                    ELSE IF task.at < Len(k.sources) THEN further ELSE Asking(Launched(read, k))
<1>13. TaskIsRight(world, ~spent'.swallowed, k, moved) /\ Becomes(k, moved)
  <2>1. Becomes(k, moved)
    BY <1>9
  <2> HIDE DEF further, task, Asking
  <2>2. QED BY <1>7, <1>10, <1>11, <2>1
<1> HIDE DEF moved
<1>14. UNCHANGED <<world, policy, plan, heard, request>>
  BY DEF FreeStep
<1>15. ResolverInv'
  BY <1>5, <1>6, <1>12, <1>13, <1>14, LookupMoves
<1>16. QED BY <1>5, <1>15

-------------------------------------------------------------------------------
(* Steps of a lookup that providers answer.                                *)

\* What a batch of providers replies are outcomes, and those of them that have no failing
\* request reply what they have.
LEMMA AnswersAre ==
    ASSUME ResolverInv, NEW k \in DOMAIN lookups, NEW batch \in SUBSET Network, NEW failures \in SUBSET batch,
           NEW replies \in Answers(k, batch, failures)
    PROVE  /\ DOMAIN replies = batch
           /\ \A s \in batch : /\ replies[s] \in Outcomes
                               /\ s \notin failures => replies[s] \in Replies[world, s, k.track, lookups[k].fuzzy]
<1> DEFINE asked(s) == <<world, s, k.track, lookups[k].fuzzy>>
           may == [s \in batch |-> IF s \in failures THEN Disturbed[asked(s)] ELSE Replies[asked(s)]]
<1>1. k \in LookupKeys /\ world \in DOMAIN Worlds /\ lookups[k] \in Tasks
  BY DEF ResolverInv, TaskIsRight
<1>2. k.track \in Tracks /\ lookups[k].fuzzy \in BOOLEAN
  BY <1>1, PlacesOf, FieldsOfTask
<1>3. DOMAIN replies = batch /\ \A s \in batch : replies[s] \in may[s]
  BY DEF Answers
<1>4. \A s \in batch : may[s] = IF s \in failures THEN Disturbed[asked(s)] ELSE Replies[asked(s)]
  OBVIOUS
<1> HIDE DEF may
<1>5. \A s \in batch : Replies[asked(s)] \subseteq Outcomes /\ Disturbed[asked(s)] \subseteq Outcomes
  BY <1>1, <1>2, RepliesExist
<1> HIDE DEF Replies, Disturbed
<1>6. \A s \in batch : /\ replies[s] \in Outcomes
                       /\ s \notin failures => replies[s] \in Replies[asked(s)]
  BY <1>3, <1>4, <1>5
<1>7. QED BY <1>3, <1>6

\* A batch leaves the bounds right, and while every failure is told, who does not raise
\* replies what it has.
LEMMA BatchSpends ==
    ASSUME ResolverInv, NEW k \in DOMAIN lookups, NEW batch \in SUBSET Network, NEW failures \in SUBSET batch,
           NEW replies \in Answers(k, batch, failures), NEW fault, spent' = Spent(failures, replies, fault)
    PROVE  /\ Spends /\ spent'.changes = spent.changes
           /\ ~spent'.swallowed =>
                  /\ ~spent.swallowed
                  /\ \A s \in batch : replies[s].raised \/ replies[s] \in Replies[world, s, k.track, lookups[k].fuzzy]
<1> DEFINE untold == \E s \in failures : ~replies[s].raised
           faults == spent.faults + Cardinality(failures) + (IF fault = "none" THEN 0 ELSE 1)
<1>1. DOMAIN spent = {"requests", "changes", "faults", "swallowed"} /\ spent.changes \in Nat
      /\ spent.swallowed \in BOOLEAN
  BY DEF ResolverInv
<1>2. spent' = [spent EXCEPT !.faults = faults, !.swallowed = spent.swallowed \/ untold]
  BY DEF Spent
<1>3. untold \in BOOLEAN
  OBVIOUS
<1> HIDE DEF untold, faults
<1>4. DOMAIN spent' = DOMAIN spent /\ spent'.changes = spent.changes
  BY <1>1, <1>2
<1>5. spent'.swallowed = (spent.swallowed \/ untold)
  BY <1>1, <1>2
<1>6. spent'.swallowed \in BOOLEAN /\ (spent.swallowed => spent'.swallowed)
      /\ (~spent'.swallowed => ~spent.swallowed /\ ~untold)
  BY <1>1, <1>3, <1>5
<1>7. \A s \in batch : s \notin failures => replies[s] \in Replies[world, s, k.track, lookups[k].fuzzy]
  BY AnswersAre
<1>8. Spends
  BY <1>1, <1>4, <1>6 DEF Spends
<1> HIDE DEF Replies
<1>9. QED BY <1>4, <1>6, <1>7, <1>8 DEF untold

\* A provider that finds nothing, and does not fail, has nothing for one of its searches.
LEMMA MissIsTrue ==
    ASSUME NEW w \in DOMAIN Worlds, NEW s \in Network, NEW t \in Tracks, NEW fuzzy \in BOOLEAN,
           NEW reply \in Replies[w, s, t, fuzzy], ~reply.raised, Candidate(s, reply) = None
    PROVE  MayMiss(w, s, t)
<1>1. reply \in Outcomes
  BY RepliesExist
<1>2. reply = Nothing
  BY <1>1, RepliesAre
<1> HIDE DEF Replies, Nothing
<1>3. QED BY <1>2 DEF MayMiss

\* The misses of a batch are remembered.
LEMMA MissesAreAdded ==
    ASSUME ResolverInv, world' = world, spent.swallowed => spent'.swallowed, NEW k \in LookupKeys,
           NEW missed, negative' = negative \cup {<<s, k.track>> : s \in missed},
           ~spent'.swallowed => \A s \in missed \cap Network : MayMiss(world, s, k.track)
    PROVE  MissesAreRight'
<1> SUFFICES ASSUME ~spent'.swallowed, NEW s \in Network, NEW t \in Tracks, <<s, t>> \in negative'
             PROVE  MayMiss(world, s, t)
  BY DEF MissesAreRight, MayMiss
<1>1. CASE <<s, t>> \in negative
  BY <1>1 DEF ResolverInv, MissesAreRight
<1>2. CASE s \in missed /\ t = k.track
  BY <1>2
<1>3. QED BY <1>1, <1>2

\* The provider that was asked alone has answered, or failed.
LEMMA AskedStepKeeps ==
    ASSUME ResolverInv, NEW k \in DOMAIN lookups, NEW failures \in SUBSET {k.sources[lookups[k].at]},
           NEW replies \in Answers(k, {k.sources[lookups[k].at]}, failures), NEW fault,
           AskedStep(k, replies, failures, fault)
    PROVE  ResolverInv' /\ OnlyAdded(cache, cache')
<1> DEFINE task == lookups[k]
           source == k.sources[task.at]
           bad == replies[source].raised
           result == Candidate(source, replies[source])
           failed == [task EXCEPT !.failed = @ \cup {source}]
           missed == Misses({source}, IF bad THEN {source} ELSE {}, IF result = None THEN {} ELSE {source})
           moved == IF bad THEN Onward(failed, k)
                    ELSE IF result = None THEN Onward(task, k)
                    ELSE IF fault = "timeout" THEN Raised(task) ELSE Done(task, result)
<1>1. k \in LookupKeys /\ TaskIsRight(world, ~spent.swallowed, k, task) /\ Readable(cache)
      /\ task.phase = "asked" /\ world \in DOMAIN Worlds
  BY DEF ResolverInv, AskedStep
<1>2. task \in Tasks /\ Quiet(task) /\ task.at \in DOMAIN k.sources /\ source \in Network
      /\ (~spent.swallowed /\ task.failed = {} =>
             \A i \in 1 .. (task.at - 1) : k.sources[i] \in Network => MayMiss(world, k.sources[i], k.track))
  BY <1>1 DEF TaskIsRight
<1>3. k.track \in Tracks /\ task.fuzzy \in BOOLEAN
  BY <1>1, <1>2, PlacesOf, FieldsOfTask
<1>4. /\ replies[source] \in Outcomes /\ Spends /\ spent'.changes = spent.changes
      /\ ~spent'.swallowed =>
             ~spent.swallowed /\ (bad \/ replies[source] \in Replies[world, source, k.track, task.fuzzy])
  <2> DEFINE batch == {source}
  <2>1. batch \in SUBSET Network /\ source \in batch
    BY <1>2
  <2>2. failures \in SUBSET batch /\ replies \in Answers(k, batch, failures)
    OBVIOUS
  <2>3. spent' = Spent(failures, replies, fault)
    BY DEF AskedStep
  <2> HIDE DEF batch, Replies
  <2>4. \A s \in batch : replies[s] \in Outcomes
    BY <2>1, <2>2, AnswersAre
  <2>5. /\ Spends /\ spent'.changes = spent.changes
        /\ ~spent'.swallowed =>
               /\ ~spent.swallowed
               /\ \A s \in batch : replies[s].raised \/ replies[s] \in Replies[world, s, k.track, lookups[k].fuzzy]
    BY <2>1, <2>2, <2>3, BatchSpends
  <2>6. QED BY <2>1, <2>4, <2>5
<1>6. result \in {None} \cup Results
      /\ (result # None => [provider |-> result.source, song |-> result.song] \in Artifacts)
  <2>1. [provider : Network, song : Songs] \subseteq Artifacts
    BY ResolverAssumption
  <2>2. source \in Network /\ replies[source] \in Outcomes
    BY <1>2, <1>4
  <2> HIDE DEF source
  <2>3. /\ result \in {None} \cup Results
        /\ result # None => result.source = source /\ result.song \in Songs
    BY <2>2, RepliesAre
  <2> HIDE DEF result
  <2>4. QED BY <2>1, <2>2, <2>3
<1>7. ~spent'.swallowed /\ ~bad /\ result = None => MayMiss(world, source, k.track)
  BY <1>1, <1>2, <1>3, <1>4, MissIsTrue
<1>8. /\ negative' = negative \cup {<<s, k.track>> : s \in missed}
      /\ cache' \in {cache} \cup (IF result = None THEN {} ELSE {Kept(cache, result)})
      /\ Becomes(k, moved) /\ UNCHANGED <<world, policy, plan, heard, request>>
  BY DEF AskedStep
<1>9. missed \subseteq {source} /\ (missed # {} => ~bad /\ result = None)
  BY DEF Misses
<1>10. OnlyAdded(cache, cache')
  BY <1>1, <1>6, <1>8, KeptIsKept, SameIsKept
<1> HIDE DEF result, bad, missed
<1>11. MissesAreRight'
  BY <1>1, <1>4, <1>7, <1>8, <1>9, MissesAreAdded DEF Spends
<1>12. bad => TaskIsRight(world, ~spent'.swallowed, k, Onward(failed, k))
  <2>1. failed \in Tasks
    BY <1>2 DEF Tasks
  <2>2. /\ failed.at = task.at /\ failed.asked = task.asked /\ failed.pending = task.pending
        /\ failed.best = task.best /\ failed.resolved = task.resolved /\ failed.failed # {}
    BY <1>2, FieldsOfTask
  <2> HIDE DEF failed
  <2>3. Quiet(failed)
    BY <1>2, <2>2 DEF Quiet
  <2>4. failed.at \in DOMAIN k.sources
    BY <1>2, <2>2
  <2> HIDE DEF task
  <2>5. QED BY <1>1, <2>1, <2>2, <2>3, <2>4, OnwardIsRight
<1>13. ~bad /\ result = None => TaskIsRight(world, ~spent'.swallowed, k, Onward(task, k))
  <2> SUFFICES ASSUME ~bad, result = None PROVE TaskIsRight(world, ~spent'.swallowed, k, Onward(task, k))
    OBVIOUS
  <2>1. \A i \in 1 .. task.at : i = task.at \/ i \in 1 .. (task.at - 1)
    BY <1>2, FieldsOfTask
  <2>2. ~spent'.swallowed /\ task.failed = {} =>
            \A i \in 1 .. task.at : k.sources[i] \in Network => MayMiss(world, k.sources[i], k.track)
    BY <1>2, <1>4, <1>7, <2>1
  <2>3. QED BY <1>1, <1>2, <2>2, OnwardIsRight
<1>14. TaskIsRight(world, ~spent'.swallowed, k, Raised(task))
  BY <1>2, RaisedIsRight
<1>15. result # None => TaskIsRight(world, ~spent'.swallowed, k, Done(task, result))
  BY <1>2, <1>6, FoundIsRight
<1>16. TaskIsRight(world, ~spent'.swallowed, k, moved)
  <2> HIDE DEF task, failed
  <2>1. QED BY <1>12, <1>13, <1>14, <1>15
<1> HIDE DEF moved
<1>17. ResolverInv'
  BY <1>4, <1>8, <1>10, <1>11, <1>16, LookupMoves
<1>18. QED BY <1>10, <1>17

\* The best after a batch.
BestAfter(finds, old) ==
    LET first == {r \in finds : \A q \in finds : ~Better(q, r)}
    IN  IF first = {} THEN old
        ELSE LET r == CHOOSE r \in first : TRUE IN IF Better(r, old) THEN r ELSE old

\* After a batch the best is the best of it, or what was better before.
LEMMA BestOfBatch ==
    ASSUME NEW finds \in SUBSET [result : Results, index : Nat], NEW old \in Leaders
    PROVE  LET best == BestAfter(finds, old)
           IN  /\ best \in Leaders
               /\ best = old \/ (best # None /\ Better(best, old))
               /\ \A q \in finds : ~Better(q, best)
               /\ best = None => finds = {} /\ old = None
<1> DEFINE first == {r \in finds : \A q \in finds : ~Better(q, r)}
           r == CHOOSE r \in first : TRUE
           best == IF first = {} THEN old ELSE IF Better(r, old) THEN r ELSE old
<1>1. BestAfter(finds, old) = best
  BY DEF BestAfter
<1> SUFFICES /\ best \in Leaders
             /\ best = old \/ (best # None /\ Better(best, old))
             /\ \A q \in finds : ~Better(q, best)
             /\ best = None => finds = {} /\ old = None
  BY <1>1
<1>2. \A q \in finds : q \in Leaders /\ q # None
  BY ResolverAssumption DEF Leaders
<1>3. CASE finds = {}
  <2>1. first = {} /\ best = old
    BY <1>3
  <2>2. QED BY <1>3, <2>1
<1>4. CASE finds # {}
  <2>1. first # {}
    BY <1>4, BestFindExists
  <2>2. r \in first
    BY <2>1
  <2> HIDE DEF r
  <2>3. r \in finds /\ \A q \in finds : ~Better(q, r)
    BY <2>2
  <2>4. CASE Better(r, old)
    <3>1. best = r
      BY <2>1, <2>4
    <3>2. QED BY <1>2, <2>3, <2>4, <3>1 DEF r
  <2>5. CASE ~Better(r, old)
    <3>1. best = old
      BY <2>1, <2>5
    <3>2. old # None
      BY <2>5 DEF Better
    <3>3. ASSUME NEW q \in finds, Better(q, old)
          PROVE  FALSE
      <4>1. Score(q.result, q.index) > Score(old.result, old.index)
        BY <3>2, <3>3 DEF Better
      <4>2. ~(Score(r.result, r.index) > Score(old.result, old.index))
        BY <2>5 DEF Better
      <4>3. ~(Score(q.result, q.index) > Score(r.result, r.index))
        BY <2>3 DEF Better
      <4>4. q \in [result : Results, index : Nat] /\ r \in [result : Results, index : Nat]
            /\ old \in [result : Results, index : Nat]
        BY <2>3, <3>2 DEF Leaders
      <4>5. \A x \in [result : Results, index : Nat] : Score(x.result, x.index) \in Int
        BY ScoreIsBounded
      <4> HIDE DEF first
      <4>6. /\ Score(q.result, q.index) \in Int /\ Score(r.result, r.index) \in Int
            /\ Score(old.result, old.index) \in Int
        BY <4>4, <4>5
      <4>7. QED BY <4>1, <4>2, <4>3, <4>6
    <3>4. QED BY <3>1, <3>2, <3>3 DEF r
  <2>6. QED BY <2>4, <2>5
<1>5. QED BY <1>3, <1>4

\* A batch of providers has answered.
LEMMA AnswersStepKeeps ==
    ASSUME ResolverInv, NEW k \in DOMAIN lookups, NEW batch \in SUBSET lookups[k].pending,
           NEW failures \in SUBSET batch, NEW replies \in Answers(k, batch, failures), NEW fault,
           AnswersStep(k, replies, failures, fault)
    PROVE  ResolverInv' /\ OnlyAdded(cache, cache')
<1> DEFINE task == lookups[k]
           bad == {s \in batch : replies[s].raised}
           answer(s) == Candidate(s, replies[s])
           found == {s \in batch : answer(s) # None}
           find(s) == [result |-> answer(s), index |-> Index(k.sources, s)]
           finds == {find(s) : s \in found}
           first == {r \in finds : \A q \in finds : ~Better(q, r)}
           best == IF first = {} THEN task.best
                   ELSE LET r == CHOOSE r \in first : TRUE IN IF Better(r, task.best) THEN r ELSE task.best
           answers == [s \in found |-> answer(s)]
           kept == KeptInTurn(k.sources, answers)
           next == [task EXCEPT !.pending = @ \ batch, !.failed = @ \cup bad, !.best = best]
           missed == Misses(batch, bad, found)
<1>1. k \in LookupKeys /\ TaskIsRight(world, ~spent.swallowed, k, task) /\ Readable(cache)
      /\ task.phase = "asking" /\ world \in DOMAIN Worlds
  BY DEF ResolverInv, AnswersStep
<1>2. /\ task \in Tasks /\ task.pending \subseteq ToSet(k.sources)
      /\ ~spent.swallowed /\ task.best = None /\ task.failed = {} =>
             \A s \in NetworkOf(k) \ task.pending : MayMiss(world, s, k.track)
      /\ ~spent.swallowed =>
             \A s \in Reached(k, task) \ task.pending : Beaten(world, k, s, task.fuzzy, task.best)
  BY <1>1 DEF TaskIsRight
<1>3. k.track \in Tracks /\ task.fuzzy \in BOOLEAN /\ task.best \in Leaders /\ task.pending \subseteq Network
      /\ k.sources \in Seq(Slots)
  BY <1>1, <1>2, PlacesOf, FieldsOfTask
<1>4. batch \in SUBSET Network /\ batch \subseteq ToSet(k.sources) /\ batch \subseteq NetworkOf(k)
  BY <1>2, <1>3 DEF NetworkOf
<1>5. DOMAIN replies = batch /\ \A s \in batch : replies[s] \in Outcomes
  BY <1>4, AnswersAre
<1>6. spent' = Spent(failures, replies, fault)
  BY DEF AnswersStep
<1>7. /\ Spends /\ spent'.changes = spent.changes
      /\ ~spent'.swallowed =>
             /\ ~spent.swallowed
             /\ \A s \in batch : replies[s].raised \/ replies[s] \in Replies[world, s, k.track, task.fuzzy]
  BY <1>4, <1>6, BatchSpends
<1>8. \A s \in batch : /\ answer(s) \in {None} \cup Results
                       /\ answer(s) # None => answer(s).source = s /\ answer(s).song \in Songs
  BY <1>4, <1>5, RepliesAre
<1>9. \A s \in batch : ~spent'.swallowed /\ s \notin bad /\ answer(s) = None => MayMiss(world, s, k.track)
  <2> HIDE DEF Replies
  <2>1. ASSUME NEW s \in batch, ~spent'.swallowed, s \notin bad, answer(s) = None
        PROVE  MayMiss(world, s, k.track)
    <3>1. ~replies[s].raised /\ replies[s] \in Replies[world, s, k.track, task.fuzzy] /\ s \in Network
      BY <1>4, <1>7, <2>1
    <3>2. QED BY <1>1, <1>3, <2>1, <3>1, MissIsTrue
  <2>2. QED BY <2>1
<1>10. finds \in SUBSET [result : Results, index : Nat]
  <2>1. \A s \in found : answer(s) \in Results /\ Index(k.sources, s) \in Nat
    BY <1>3, <1>4, <1>8, PlaceOfSource
  <2>2. QED BY <2>1
<1>11. /\ best \in Leaders
       /\ best = task.best \/ (best # None /\ Better(best, task.best))
       /\ \A q \in finds : ~Better(q, best)
       /\ best = None => finds = {} /\ task.best = None
  <2>1. best = BestAfter(finds, task.best)
    BY DEF BestAfter
  <2> HIDE DEF best, finds
  <2>2. QED BY <1>3, <1>10, <2>1, BestOfBatch
<1>12. /\ negative' = negative \cup {<<s, k.track>> : s \in missed}
       /\ cache' \in {cache, kept}
       /\ Becomes(k, IF fault = "timeout" THEN Raised(next)
                     ELSE IF Settled(best, next.pending, k.sources) THEN Done(next, BestOf(next)) ELSE next)
       /\ UNCHANGED <<world, policy, plan, heard, request>>
  BY <1>5 DEF AnswersStep
<1>13. OnlyAdded(cache, cache')
  <2>1. DOMAIN answers = found /\ \A s \in found : answers[s] = answer(s)
    OBVIOUS
  <2>2. \A s \in found : s \in Network /\ answer(s).source = s /\ answer(s).song \in Songs
    BY <1>4, <1>8
  <2>3. [provider : Network, song : Songs] \subseteq Artifacts
    BY ResolverAssumption
  <2> HIDE DEF answers, answer, found
  <2>4. \A s \in DOMAIN answers : [provider |-> answers[s].source, song |-> answers[s].song] \in Artifacts
    BY <2>1, <2>2, <2>3
  <2>5. OnlyAdded(cache, kept)
    BY <1>1, <1>3, <2>4, KeptInTurnIsKept
  <2> HIDE DEF kept
  <2>6. QED BY <1>1, <1>12, <2>5, SameIsKept
<1>14. MissesAreRight'
  <2>1. \A s \in missed : s \in batch /\ s \notin bad /\ answer(s) = None
    BY DEF Misses
  <2>2. ~spent'.swallowed => \A s \in missed \cap Network : MayMiss(world, s, k.track)
    BY <1>9, <2>1
  <2> HIDE DEF missed
  <2>3. QED BY <1>1, <1>7, <1>12, <2>2, MissesAreAdded DEF Spends
<1>15. \A s \in found : find(s) \in finds
  OBVIOUS
<1>16. finds = {} => \A s \in batch : answer(s) = None
  OBVIOUS
<1> HIDE DEF best, finds
<1>17. next \in Tasks
  <2>1. bad \subseteq Network
    BY <1>4
  <2> HIDE DEF bad
  <2>2. QED BY <1>2, <1>11, <2>1 DEF Tasks
<1>18. /\ next.phase = "asking" /\ next.pending = task.pending \ batch /\ next.failed = task.failed \cup bad
       /\ next.best = best /\ next.fuzzy = task.fuzzy /\ next.resolved = task.resolved
       /\ next.skipped = task.skipped /\ next.asked = task.asked
  BY <1>1, <1>2, FieldsOfTask
<1> HIDE DEF next
<1>19. ASSUME ~spent'.swallowed, next.best = None, next.failed = {}, NEW s \in NetworkOf(k) \ next.pending
       PROVE  MayMiss(world, s, k.track)
  <2>1. task.best = None /\ task.failed = {} /\ bad = {}
    BY <1>11, <1>18, <1>19
  <2>2. CASE s \in batch
    <3>1. answer(s) = None
      BY <1>11, <1>16, <1>18, <1>19, <2>2
    <3>2. QED BY <1>9, <1>19, <2>1, <2>2, <3>1
  <2>3. CASE s \notin batch
    BY <1>2, <1>7, <1>18, <1>19, <2>1, <2>3
  <2>4. QED BY <2>2, <2>3
<1>20. ASSUME ~spent'.swallowed, NEW s \in Reached(k, next) \ next.pending
       PROVE  Beaten(world, k, s, next.fuzzy, next.best)
  <2>1. s \in Reached(k, task) /\ s \notin bad /\ s \in NetworkOf(k)
    BY <1>18 DEF Reached
  <2> HIDE DEF Replies
  <2>2. CASE s \in batch
    <3>1. replies[s] \in Replies[world, s, k.track, next.fuzzy]
      BY <1>7, <1>18, <1>20, <2>1, <2>2
    <3>2. answer(s) # None => find(s) \in finds
      BY <1>15, <2>2
    <3>3. answer(s) # None => ~Better(find(s), next.best)
      BY <1>11, <1>18, <3>2
    <3>4. QED BY <3>1, <3>3 DEF Beaten
  <2>3. CASE s \notin batch
    <3>1. Beaten(world, k, s, task.fuzzy, task.best)
      BY <1>2, <1>7, <1>18, <1>20, <2>1, <2>3
    <3>2. PICK reply \in Replies[world, s, k.track, task.fuzzy] :
              \/ Candidate(s, reply) = None
              \/ ~Better([result |-> Candidate(s, reply), index |-> Index(k.sources, s)], task.best)
      BY <3>1 DEF Beaten
    <3>3. s \in Network /\ s \in ToSet(k.sources)
      BY <2>1 DEF NetworkOf
    <3>4. reply \in Outcomes
      BY <1>1, <1>3, <3>3, RepliesExist
    <3>5. CASE Candidate(s, reply) # None
      <4> DEFINE c == [result |-> Candidate(s, reply), index |-> Index(k.sources, s)]
      <4>1. Candidate(s, reply) \in Results /\ Index(k.sources, s) \in Nat
        BY <1>3, <3>3, <3>4, <3>5, RepliesAre, PlaceOfSource
      <4>2. c \in [result : Results, index : Nat]
        BY <4>1
      <4>3. c \in Leaders /\ c # None
        BY <4>2, ResolverAssumption DEF Leaders
      <4>4. ~Better(c, task.best)
        BY <3>2, <3>5
      <4> HIDE DEF c
      <4>5. ~Better(c, best)
        BY <1>3, <1>11, <4>3, <4>4, StillBeaten
      <4>6. QED BY <1>18, <4>5 DEF Beaten, c
    <3>6. CASE Candidate(s, reply) = None
      BY <1>18, <3>6 DEF Beaten
    <3>7. QED BY <3>5, <3>6
  <2>4. QED BY <2>2, <2>3
<1>21. next.pending \subseteq ToSet(k.sources)
  BY <1>2, <1>18
<1>22. TaskIsRight(world, ~spent'.swallowed, k, next)
  BY <1>17, <1>18, <1>19, <1>20, <1>21 DEF TaskIsRight
<1>23. ASSUME Settled(best, next.pending, k.sources)
       PROVE  TaskIsRight(world, ~spent'.swallowed, k, Done(next, BestOf(next)))
  <2> DEFINE t == Done(next, BestOf(next))
  <2>1. BestOf(next) \in {None} \cup Results /\ (BestOf(next) = None => next.best = None)
    <3>1. next.best \in Leaders
      BY <1>11, <1>18
    <3>2. next.best # None => next.best.result \in Results
      BY <3>1 DEF Leaders
    <3>3. None \notin Results
      BY ResolverAssumption
    <3>4. QED BY <3>2, <3>3 DEF BestOf
  <2>2. t \in Tasks
    BY <1>17, <2>1 DEF Done, Tasks
  <2>3. /\ t.phase = "done" /\ t.pending = {} /\ t.result = BestOf(next) /\ t.failed = next.failed
        /\ t.best = next.best /\ t.fuzzy = next.fuzzy /\ t.resolved = next.resolved
        /\ t.skipped = next.skipped
    BY <1>17, FieldsOfTask DEF Done
  <2> HIDE DEF t
  <2>4. next.best = None => next.pending = {}
    BY <1>18, <1>23 DEF Settled
  <2>5. ASSUME ~spent'.swallowed, t.result = None, t.failed = {}, NEW s \in NetworkOf(k)
        PROVE  MayMiss(world, s, k.track)
    BY <1>19, <2>1, <2>3, <2>4, <2>5
  <2>6. ASSUME ~spent'.swallowed, NEW s \in Reached(k, t)
        PROVE  Beaten(world, k, s, t.fuzzy, t.best)
    <3>1. s \in Reached(k, next) /\ s \in NetworkOf(k)
      BY <2>3, <2>6 DEF Reached
    <3>2. CASE s \in next.pending
      <4>1. ~CouldBeat(best, Index(k.sources, s))
        BY <1>23, <3>2 DEF Settled
      <4>2. QED BY <1>1, <1>3, <1>11, <1>18, <2>3, <3>1, <4>1, CannotWin
    <3>3. CASE s \notin next.pending
      BY <1>20, <2>3, <2>6, <3>1, <3>3
    <3>4. QED BY <3>2, <3>3
  <2>7. TaskIsRight(world, ~spent'.swallowed, k, t)
    BY <2>2, <2>3, <2>5, <2>6 DEF TaskIsRight
  <2>8. QED BY <2>7 DEF t
<1>24. TaskIsRight(world, ~spent'.swallowed, k, Raised(next))
  BY <1>17, RaisedIsRight
<1> DEFINE moved == IF fault = "timeout" THEN Raised(next)
                    ELSE IF Settled(best, next.pending, k.sources) THEN Done(next, BestOf(next)) ELSE next
<1>25. TaskIsRight(world, ~spent'.swallowed, k, moved) /\ Becomes(k, moved)
  <2>1. TaskIsRight(world, ~spent'.swallowed, k, moved)
    BY <1>22, <1>23, <1>24
  <2>2. QED BY <1>12, <2>1
<1> HIDE DEF moved
<1>26. ResolverInv'
  BY <1>7, <1>12, <1>13, <1>14, <1>25, LookupMoves
<1>27. QED BY <1>13, <1>26

-------------------------------------------------------------------------------
(* Requests.                                                               *)

\* What is not a step of a lookup may end some, and goes on with the others.
LEMMA OthersWait ==
    ASSUME ResolverInv, world' = world, plan' \in Seq(Slots), heard' \in Tracks \cup {None},
           policy' \in [cache : BOOLEAN, best : BOOLEAN, fuzzy : BOOLEAN], Readable(cache'),
           DOMAIN lookups' \subseteq DOMAIN lookups, \A k \in DOMAIN lookups' : lookups'[k] = lookups[k],
           RequestIsRight', negative' \subseteq negative, Spends
    PROVE  ResolverInv'
<1>1. \A k \in DOMAIN lookups' : TaskIsRight(world, ~spent'.swallowed, k, lookups'[k])
  BY TrustLess DEF ResolverInv, Spends
<1>2. MissesAreRight'
  BY MissesStayRight DEF Spends
<1>3. QED BY <1>1, <1>2 DEF ResolverInv, Spends

\* Whoever leaves a lookup leaves the others alone.
LEMMA LeftAre ==
    ASSUME NEW r
    PROVE  /\ DOMAIN Left(r) \subseteq DOMAIN lookups /\ \A k \in DOMAIN Left(r) : Left(r)[k] = lookups[k]
           /\ \A k \in DOMAIN lookups : k \in DOMAIN Left(r) \/ (Waits(r) /\ k = r.key)
BY DEF Left, Restrict

\* A new request, which leaves the lookup of the former one.
LEMMA RequestKeeps ==
    ASSUME ResolverInv, NEW track \in Tracks, NEW hint \in HintsOf[track], Request(track, hint)
    PROVE  ResolverInv' /\ OnlyAdded(cache, cache')
<1>1. hint \in Network \cup {Local, None}
  BY ResolverAssumption
<1>2. /\ DOMAIN request' = {"track", "hint", "phase", "sources", "exact", "key", "result", "failed", "wanted"}
      /\ request'.track = track /\ request'.hint = hint /\ request'.sources = plan
      /\ request'.phase = (IF hint = None THEN "ask" ELSE "hint")
  BY DEF Request, NewRequest
<1>3. RequestIsRight'
  BY <1>1, <1>2 DEF RequestIsRight, ResolverInv
<1>4. Spends
  BY DEF Request, Spends, ResolverInv
<1>5. OnlyAdded(cache, cache')
  BY SameIsKept DEF Request, ResolverInv
<1>6. ResolverInv'
  BY <1>3, <1>4, OthersWait, LeftAre DEF Request, ResolverInv
<1>7. QED BY <1>5, <1>6

\* A request that joins a lookup, or begins it.
LEMMA JoinedIsRight ==
    ASSUME ResolverInv, NEW r, NEW sources \in Seq(Slots), Joined(r, sources),
           DOMAIN r = {"track", "hint", "phase", "sources", "exact", "key", "result", "failed", "wanted"},
           r.track \in Tracks, r.sources \in Seq(Slots), r.hint \in Network \cup {Local, None}
    PROVE  /\ RequestIsRight' /\ DOMAIN lookups' \subseteq LookupKeys
           /\ \A k \in DOMAIN lookups' : TaskIsRight(world, ~spent.swallowed, k, lookups'[k])
<1> DEFINE key == Key(r.track, sources)
           known == IF key \in DOMAIN lookups THEN lookups[key] ELSE NewLookup
<1>1. key \in LookupKeys
  BY DEF Key, LookupKeys, ResolverInv
<1>2. /\ lookups' = [j \in DOMAIN lookups \cup {key} |-> IF j = key THEN known ELSE lookups[j]]
      /\ request' = [r EXCEPT !.phase = "waiting", !.key = key]
  BY DEF Joined
<1> HIDE DEF key
<1>3. TaskIsRight(world, ~spent.swallowed, key, known)
  BY <1>1, NewIsRight DEF ResolverInv
<1> HIDE DEF known
<1>4. DOMAIN lookups' = DOMAIN lookups \cup {key} /\ lookups'[key] = known
      /\ \A j \in DOMAIN lookups \ {key} : lookups'[j] = lookups[j]
  BY <1>2
<1>5. \A k \in DOMAIN lookups' : TaskIsRight(world, ~spent.swallowed, k, lookups'[k])
  BY <1>3, <1>4 DEF ResolverInv
<1>6. /\ DOMAIN request' = DOMAIN r /\ request'.track = r.track /\ request'.sources = r.sources
      /\ request'.hint = r.hint /\ request'.phase = "waiting" /\ request'.key = key
  BY <1>2
<1>7. RequestIsRight'
  BY <1>4, <1>6 DEF RequestIsRight
<1>8. QED BY <1>1, <1>4, <1>5, <1>7 DEF ResolverInv

\* A request without a hint, or whose hint led nowhere, asks the whole plan.
LEMMA AskKeeps == ASSUME ResolverInv, Ask PROVE ResolverInv' /\ OnlyAdded(cache, cache')
<1>1. /\ RequestIsRight' /\ DOMAIN lookups' \subseteq LookupKeys
      /\ \A k \in DOMAIN lookups' : TaskIsRight(world, ~spent.swallowed, k, lookups'[k])
  BY JoinedIsRight DEF Ask, ResolverInv, RequestIsRight
<1>2. MissesAreRight'
  BY DEF Ask, ResolverInv, MissesAreRight
<1>3. QED BY <1>1, <1>2, SameIsKept DEF Ask, ResolverInv

\* A request whose phase changes, and that waits for nobody then.
LEMMA RequestMoves ==
    ASSUME ResolverInv, request # None, NEW r, request' = r, DOMAIN r = DOMAIN request,
           r.track = request.track, r.sources = request.sources, r.hint = request.hint,
           r.phase # "waiting", r.phase \in {"hint", "exact"} => request.phase \in {"hint", "exact"}
    PROVE  RequestIsRight'
BY DEF ResolverInv, RequestIsRight

\* A request has its answer.
LEMMA CollectKeeps == ASSUME ResolverInv, Collect PROVE ResolverInv' /\ OnlyAdded(cache, cache')
<1> DEFINE task == lookups[request.key]
           result == Alternative(request.exact, task.result)
           failed == IF request.exact = None THEN task.failed ELSE {}
           raised == [request EXCEPT !.phase = "raised"]
           answered == [[request EXCEPT !.phase = "answered", !.result = result] EXCEPT !.failed = failed]
<1>1. request # None /\ request' = (IF task.phase = "raised" THEN raised ELSE answered)
  BY DEF Collect, Waits, AnsweredWith
<1>2. DOMAIN request = {"track", "hint", "phase", "sources", "exact", "key", "result", "failed", "wanted"}
  BY <1>1 DEF ResolverInv, RequestIsRight
<1> HIDE DEF result, failed
<1>3. /\ DOMAIN raised = DOMAIN request /\ raised.track = request.track /\ raised.hint = request.hint
      /\ raised.sources = request.sources /\ raised.phase = "raised"
  BY <1>2
<1>4. /\ DOMAIN answered = DOMAIN request /\ answered.track = request.track /\ answered.hint = request.hint
      /\ answered.sources = request.sources /\ answered.phase = "answered"
  BY <1>2
<1> HIDE DEF raised, answered, task
<1>5. RequestIsRight'
  BY <1>1, <1>3, <1>4, RequestMoves
<1>6. Spends
  BY DEF Collect, Spends, ResolverInv
<1>7. OnlyAdded(cache, cache')
  BY SameIsKept DEF Collect, ResolverInv
<1>8. ResolverInv'
  BY <1>5, <1>6, OthersWait, LeftAre DEF Collect, ResolverInv
<1>9. QED BY <1>7, <1>8

\* What was chosen by hand comes before a hint.
LEMMA HintManualKeeps ==
    ASSUME ResolverInv, NEW fault, HintManual(fault)
    PROVE  ResolverInv' /\ OnlyAdded(cache, cache')
<1>1. request # None /\ request.phase = "hint" /\ request.track \in Tracks /\ Readable(cache)
      /\ DOMAIN request = {"track", "hint", "phase", "sources", "exact", "key", "result", "failed", "wanted"}
  BY DEF HintManual, ResolverInv, RequestIsRight
<1>2. PICK found : /\ found = ReadManual(request.track, fault) /\ cache' = found.cache
                   /\ request' = IF fault = "timeout" THEN [request EXCEPT !.phase = "raised"]
                                 ELSE IF found.hit # None
                                 THEN AnsweredWith(request, FromCache(found.hit, found.conf))
                                 ELSE [request EXCEPT !.phase = "exact"]
  BY DEF HintManual
<1>3. OnlyAdded(cache, cache')
  BY <1>1, <1>2, ReadManualIsKept
<1>4. \A phase : LET r == [request EXCEPT !.phase = phase]
                 IN  /\ DOMAIN r = DOMAIN request /\ r.track = request.track /\ r.hint = request.hint
                     /\ r.sources = request.sources /\ r.phase = phase
  BY <1>1
<1>5. \A result : LET r == AnsweredWith(request, result)
                  IN  /\ DOMAIN r = DOMAIN request /\ r.track = request.track /\ r.hint = request.hint
                      /\ r.sources = request.sources /\ r.phase = "answered"
  BY <1>1 DEF AnsweredWith
<1>6. /\ DOMAIN request' = DOMAIN request /\ request'.track = request.track /\ request'.hint = request.hint
      /\ request'.sources = request.sources /\ request'.phase \in {"raised", "answered", "exact"}
  BY <1>2, <1>4, <1>5
<1>7. RequestIsRight'
  BY <1>1, <1>6, RequestMoves
<1>8. Spends
  BY FaultSpends DEF HintManual
<1>9. ResolverInv'
  BY <1>3, <1>7, <1>8, OthersWait DEF HintManual, ResolverInv, OnlyAdded
<1>10. QED BY <1>3, <1>9

\* A reply names a song, or none.
LEMMA SongsOfReplies ==
    ASSUME NEW reply \in Outcomes
    PROVE  reply.song \in {None} \cup Songs
BY DEF Outcomes, Raises, Nothing, Finds

\* What a hint leads to is a song of a provider of the plan.
LEMMA ExactIsOfThePlan ==
    ASSUME NEW r, r.sources \in Seq(Slots), NEW reply, \A s \in Network : reply[s].song \in {None} \cup Songs,
           ExactResult(r, reply) # None
    PROVE  [provider |-> ExactResult(r, reply).source, song |-> ExactResult(r, reply).song] \in Artifacts
<1> DEFINE Song(i) == reply[r.sources[i]].song
           holds == {i \in DOMAIN r.sources : r.sources[i] \in Network /\ Song(i) # None}
           timed == {i \in holds : Timed[Song(i)]}
           from == IF policy.best /\ timed # {} THEN timed ELSE holds
           exact == ExactResult(r, reply)
<1>1. exact = IF from = {} THEN None
              ELSE [source |-> r.sources[Min(from)], song |-> Song(Min(from)), conf |-> High]
  BY DEF ExactResult
<1>2. from # {} /\ exact = [source |-> r.sources[Min(from)], song |-> Song(Min(from)), conf |-> High]
  BY <1>1
<1>3. from \subseteq holds /\ holds \in SUBSET Nat
  OBVIOUS
<1>4. Min(from) \in from
  <2> HIDE DEF from, holds
  <2>1. \E m \in from : \A n \in from : m <= n
    BY <1>2, <1>3, LeastNatural
  <2>2. QED BY <2>1 DEF Min
<1>5. Min(from) \in holds
  BY <1>3, <1>4
<1> DEFINE i == Min(from)
<1> HIDE DEF from, exact, i
<1>6. r.sources[i] \in Network /\ Song(i) \in Songs
  BY <1>5 DEF i
<1>7. exact.source = r.sources[i] /\ exact.song = Song(i)
  BY <1>2 DEF i
<1> HIDE DEF Song, holds
<1>8. [provider : Network, song : Songs] \subseteq Artifacts
  BY ResolverAssumption
<1>9. [provider |-> exact.source, song |-> exact.song] \in Artifacts
  BY <1>6, <1>7, <1>8
<1>10. QED BY <1>9 DEF exact

\* A hint has led somewhere, or nowhere.
LEMMA ExactKeeps ==
    ASSUME ResolverInv, NEW troubled \in Network \cup {Local, None},
           NEW disturbed, troubled \in Network => disturbed \in Outcomes,
           NEW fault, Exact(troubled, disturbed, fault)
    PROVE  ResolverInv' /\ OnlyAdded(cache, cache')
<1> DEFINE reply == [s \in Network |-> IF s = troubled THEN disturbed ELSE ReplyById[world, request.hint, s]]
           found == IF request.hint # Local THEN ExactResult(request, reply)
                    ELSE IF troubled = None THEN LocalResult(request.track) ELSE None
           stores == found # None /\ found.source # Local /\ policy.cache
           others == Others(request.sources, {request.hint, found.source})
           asks == [request EXCEPT !.phase = "ask"]
           raised == [request EXCEPT !.phase = "raised"]
           answered == AnsweredWith(request, found)
           held == [request EXCEPT !.exact = found]
<1>1. /\ request # None /\ request.phase = "exact" /\ request.track \in Tracks /\ Readable(cache)
      /\ DOMAIN request = {"track", "hint", "phase", "sources", "exact", "key", "result", "failed", "wanted"}
      /\ request.hint \in Network \cup {Local} /\ request.sources \in Seq(Slots) /\ world \in DOMAIN Worlds
  BY DEF Exact, ResolverInv, RequestIsRight
<1>2. /\ cache' = (IF stores /\ fault = "none" THEN Kept(cache, found) ELSE cache)
      /\ \/ request' = asks /\ UNCHANGED lookups
         \/ request' = raised /\ UNCHANGED lookups
         \/ request' = answered /\ UNCHANGED lookups
         \/ Joined(held, others)
      /\ UNCHANGED <<world, negative, policy, plan, heard, running>>
      /\ Fault(IF troubled # None THEN "error" ELSE fault)
  BY DEF Exact
<1>3. \A s \in Network : request.hint # Local => reply[s].song \in {None} \cup Songs
  <2> SUFFICES ASSUME NEW s \in Network, request.hint # Local PROVE reply[s].song \in {None} \cup Songs
    OBVIOUS
  <2>1. request.hint \in Network
    BY <1>1
  <2>2. ReplyById[world, request.hint, s] \in Outcomes
    BY <1>1, <2>1, AnswersAssumption
  <2>3. reply[s] = (IF s = troubled THEN disturbed ELSE ReplyById[world, request.hint, s])
    OBVIOUS
  <2> HIDE DEF reply, Outcomes, ReplyById
  <2>4. reply[s] \in Outcomes
    BY <2>2, <2>3
  <2>5. QED BY <2>4, SongsOfReplies
<1> HIDE DEF reply
<1>4. stores => [provider |-> found.source, song |-> found.song] \in Artifacts
  <2>1. CASE request.hint # Local
    BY <1>1, <1>3, <2>1, ExactIsOfThePlan
  <2>2. CASE request.hint = Local
    <3>1. found # None => found.source = Local
      BY <2>2 DEF LocalResult
    <3>2. QED BY <3>1
  <2>3. QED BY <2>1, <2>2
<1> HIDE DEF found
<1>5. OnlyAdded(cache, cache')
  BY <1>1, <1>2, <1>4, KeptIsKept, SameIsKept
<1>6. Spends /\ spent'.swallowed = spent.swallowed
  BY <1>2, FaultSpends
<1>7. Readable(cache')
  BY <1>5 DEF OnlyAdded
<1>8. CASE UNCHANGED lookups /\ request' \in {asks, raised, answered}
  <2>1. /\ DOMAIN asks = DOMAIN request /\ asks.track = request.track /\ asks.hint = request.hint
        /\ asks.sources = request.sources /\ asks.phase = "ask"
    BY <1>1
  <2>2. /\ DOMAIN raised = DOMAIN request /\ raised.track = request.track /\ raised.hint = request.hint
        /\ raised.sources = request.sources /\ raised.phase = "raised"
    BY <1>1
  <2>3. /\ DOMAIN answered = DOMAIN request /\ answered.track = request.track
        /\ answered.hint = request.hint
        /\ answered.sources = request.sources /\ answered.phase = "answered"
    BY <1>1 DEF AnsweredWith
  <2> HIDE DEF asks, raised, answered
  <2>4. RequestIsRight'
    BY <1>1, <1>8, <2>1, <2>2, <2>3, RequestMoves
  <2>5. /\ world' = world /\ plan' \in Seq(Slots) /\ heard' \in Tracks \cup {None}
        /\ policy' \in [cache : BOOLEAN, best : BOOLEAN, fuzzy : BOOLEAN]
        /\ negative' \subseteq negative
    <3>1. UNCHANGED <<world, negative, policy, plan, heard>>
      BY <1>2
    <3>2. QED BY <3>1 DEF ResolverInv
  <2>6. DOMAIN lookups' \subseteq DOMAIN lookups /\ \A k \in DOMAIN lookups' : lookups'[k] = lookups[k]
    BY <1>8
  <2>7. QED BY <1>5, <1>6, <1>7, <2>4, <2>5, <2>6, OthersWait
<1>9. CASE Joined(held, others)
  <2>1. others \in Seq(Slots)
    BY <1>1, OthersAreAPlan
  <2>2. /\ DOMAIN held = DOMAIN request /\ held.track = request.track /\ held.hint = request.hint
        /\ held.sources = request.sources
    BY <1>1
  <2> HIDE DEF others, held
  <2>3. /\ RequestIsRight' /\ DOMAIN lookups' \subseteq LookupKeys
        /\ \A k \in DOMAIN lookups' : TaskIsRight(world, ~spent.swallowed, k, lookups'[k])
    BY <1>1, <1>9, <2>1, <2>2, JoinedIsRight
  <2>4. \A k \in DOMAIN lookups' : TaskIsRight(world, ~spent'.swallowed, k, lookups'[k])
    BY <1>6, <2>3, TrustLess
  <2>5. MissesAreRight'
    BY <1>2, <1>6, MissesStayRight
  <2>6. QED BY <1>2, <1>5, <1>6, <1>7, <2>3, <2>4, <2>5 DEF ResolverInv, Spends
<1>10. CASE request' = asks /\ UNCHANGED lookups
  BY <1>8, <1>10
<1>11. CASE request' = raised /\ UNCHANGED lookups
  BY <1>8, <1>11
<1>12. CASE request' = answered /\ UNCHANGED lookups
  BY <1>8, <1>12
<1> HIDE DEF asks, raised, answered, held, others
<1>13. QED BY <1>2, <1>9, <1>10, <1>11, <1>12

-------------------------------------------------------------------------------
(* The others.                                                             *)

\* The user, the settings and the player take no more than a change.
LEMMA ChangedSpends ==
    ASSUME ResolverInv, Changed
    PROVE  Spends /\ spent'.changes > spent.changes
BY DEF ResolverInv, Changed, Spends

\* A request that no longer stands for what was chosen goes on.
LEMMA UnwantedIsRight ==
    ASSUME ResolverInv, Unwanted, DOMAIN lookups' = DOMAIN lookups
    PROVE  RequestIsRight'
<1> DEFINE r == [request EXCEPT !.wanted = None]
<1>1. CASE request = None
  BY <1>1 DEF Unwanted, RequestIsRight
<1>2. CASE request # None
  <2>1. DOMAIN request = {"track", "hint", "phase", "sources", "exact", "key", "result", "failed", "wanted"}
    BY <1>2 DEF ResolverInv, RequestIsRight
  <2>2. /\ DOMAIN r = DOMAIN request /\ r.track = request.track /\ r.hint = request.hint
        /\ r.sources = request.sources /\ r.phase = request.phase /\ r.key = request.key
    BY <2>1
  <2>3. request' = r
    BY <1>2 DEF Unwanted
  <2> HIDE DEF r
  <2>4. QED BY <1>2, <2>2, <2>3 DEF ResolverInv, RequestIsRight
<1>3. QED BY <1>1, <1>2

\* The settings change.
LEMMA SettingsKeep ==
    ASSUME ResolverInv, (\E p \in Policies : SetPolicy(p)) \/ (\E p \in Plans : SetPlan(p))
    PROVE  ResolverInv' /\ OnlyAdded(cache, cache')
<1>1. Spends
  BY ChangedSpends DEF SetPolicy, SetPlan
<1>2. OnlyAdded(cache, cache') /\ Readable(cache')
  BY SameIsKept DEF SetPolicy, SetPlan, ResolverInv
<1>3. ASSUME NEW p \in Policies, SetPolicy(p)
      PROVE  ResolverInv'
  <2>1. policy' \in [cache : BOOLEAN, best : BOOLEAN, fuzzy : BOOLEAN]
    BY <1>3, ResolverAssumption DEF SetPolicy
  <2>2. RequestIsRight'
    BY <1>3, UnwantedIsRight DEF SetPolicy
  <2>3. QED BY <1>1, <1>2, <1>3, <2>1, <2>2, OthersWait DEF SetPolicy, ResolverInv
<1>4. ASSUME NEW p \in Plans, SetPlan(p)
      PROVE  ResolverInv'
  <2>1. p \in Seq(Slots)
    BY ResolverAssumption DEF Slots
  <2>2. RequestIsRight'
    BY <1>4 DEF SetPlan, ResolverInv, RequestIsRight
  <2>3. QED BY <1>1, <1>2, <1>4, <2>1, <2>2, OthersWait DEF SetPlan, ResolverInv
<1>5. QED BY <1>2, <1>3, <1>4

\* A miss is forgotten, or the live source plays another track, or the session starts.
LEMMA LittleChanges ==
    ASSUME ResolverInv,
           (\E m \in negative : Expire(m)) \/ (\E track \in Tracks \cup {None} : Played(track)) \/ Start
    PROVE  ResolverInv' /\ OnlyAdded(cache, cache')
<1>1. UNCHANGED <<world, cache, policy, plan, lookups, request>>
  BY DEF Expire, Played, Start
<1>2. Spends
  BY ChangedSpends DEF Expire, Played, Start, Spends, ResolverInv
<1>3. OnlyAdded(cache, cache') /\ Readable(cache')
  BY <1>1, SameIsKept DEF ResolverInv
<1>4. RequestIsRight'
  BY <1>1 DEF ResolverInv, RequestIsRight
<1>5. negative' \subseteq negative /\ heard' \in Tracks \cup {None}
  BY DEF Expire, Played, Start, ResolverInv
<1>6. QED BY <1>1, <1>2, <1>3, <1>4, <1>5, OthersWait DEF ResolverInv

\* A choice can be read.
LEMMA SelectIsReadable ==
    ASSUME NEW c, Readable(c), NEW track \in Tracks, NEW a \in Artifacts
    PROVE  Readable(Select(c, track, a))
<1> DEFINE w == Written(c, a, "manual", TRUE)
           v == [w EXCEPT !.binds = [k \in DOMAIN c.binds \cup {SelectionKey(track)} |->
                                        IF k = SelectionKey(track) THEN a ELSE w.binds[k]]]
           gone == {b \in Evictable(v) : Cardinality({e \in Evictable(v) : Newer(v, e, b)}) >= MaxEntries}
           d == Select(c, track, a)
<1>1. Tabled(w) /\ \A b \in Stored(w) : w.rows[b].valid
  BY WrittenIsTabled, WrittenIsReadable DEF Readable, Consistent, Modes
<1>2. d = Without(v, gone)
  BY DEF Select, Pruned
<1> HIDE DEF w
<1>3. v.rows = w.rows
  OBVIOUS
<1> HIDE DEF v, gone
<1>4. \A b \in Stored(v) : v.rows[b].valid
  BY <1>1, <1>3 DEF Stored
<1>5. d.rows = [b \in Stored(v) \ gone |-> v.rows[b]]
  BY <1>2 DEF Without
<1>6. \A b \in Stored(d) : d.rows[b].valid
  BY <1>4, <1>5 DEF Stored
<1>7. Consistent(d)
  BY SelectIsConsistent DEF Readable
<1>8. QED BY <1>6, <1>7 DEF Readable

\* The user chooses, or deletes.
LEMMA UserKeeps ==
    ASSUME ResolverInv,
           \/ \E track \in Tracks, a \in Selectable : Choose(track, a)
           \/ \E gone \in SUBSET Stored(cache) : Forget(gone)
    PROVE  ResolverInv' /\ spent'.changes > spent.changes
<1>1. Changed /\ Unwanted /\ UNCHANGED <<world, negative, policy, plan, heard, lookups, running>>
  BY DEF Choose, Forget
<1>2. Spends /\ spent'.changes > spent.changes
  BY <1>1, ChangedSpends
<1>3. RequestIsRight'
  BY <1>1, UnwantedIsRight
<1>4. Readable(cache')
  <2>1. ASSUME NEW track \in Tracks, NEW a \in Selectable, Choose(track, a)
        PROVE  Readable(cache')
    <3>1. a \in Artifacts
      BY ResolverAssumption
    <3>2. QED BY <2>1, <3>1, SelectIsReadable DEF Choose, ResolverInv
  <2>2. ASSUME NEW gone, Forget(gone)
        PROVE  Readable(cache')
    <3>1. cache' = Without(cache, gone) /\ Readable(cache)
      BY <2>2 DEF Forget, DeleteMany, ResolverInv
    <3>2. /\ Consistent(cache') /\ Stored(cache') \subseteq Stored(cache)
          /\ \A a \in Stored(cache') : cache'.rows[a] = cache.rows[a]
      BY <3>1, WithoutIsTabled, WithoutIsConsistent DEF Readable, Consistent
    <3>3. QED BY <3>1, <3>2, StillReadable DEF Readable
  <2>3. QED BY <2>1, <2>2
<1>5. ResolverInv'
  BY <1>1, <1>2, <1>3, <1>4, OthersWait DEF ResolverInv
<1>6. QED BY <1>2, <1>5

\* The session stops.
LEMMA StopKeeps == ASSUME ResolverInv, Stop PROVE ResolverInv' /\ OnlyAdded(cache, cache')
<1>1. Spends /\ OnlyAdded(cache, cache') /\ Readable(cache')
  BY ChangedSpends, SameIsKept DEF Stop, ResolverInv
<1>2. RequestIsRight' /\ DOMAIN lookups' = {}
  BY DEF Stop, RequestIsRight, Cancelled, Restrict
<1>3. QED BY <1>1, <1>2, OthersWait DEF Stop, ResolverInv

-------------------------------------------------------------------------------
(* The session.                                                            *)

\* A session begins with nothing asked.
LEMMA ResolverStarts == ASSUME ResolverInit PROVE ResolverInv
<1>1. Readable(cache) /\ plan \in Seq(Slots) /\ policy \in [cache : BOOLEAN, best : BOOLEAN, fuzzy : BOOLEAN]
  BY ResolverAssumption DEF ResolverInit, Readable, Slots
<1>2. DOMAIN lookups = {} /\ request = None /\ negative = {}
  BY DEF ResolverInit, Restrict
<1>3. QED BY <1>1, <1>2 DEF ResolverInit, ResolverInv, RequestIsRight, MissesAreRight

\* A lookup moves on.
LEMMA LookupStepKeeps ==
    ASSUME ResolverInv, NEW k \in DOMAIN lookups, LookupStep(k)
    PROVE  ResolverInv' /\ OnlyAdded(cache, cache')
<1>1. ASSUME NEW batch \in Batches(k), NEW failures \in SUBSET batch,
             NEW replies \in Answers(k, batch, failures), NEW fault, AnswersStep(k, replies, failures, fault)
      PROVE  ResolverInv' /\ OnlyAdded(cache, cache')
  <2>1. batch \in SUBSET lookups[k].pending
    BY <1>1 DEF AnswersStep, Batches
  <2>2. QED BY <1>1, <2>1, AnswersStepKeeps
<1>2. ASSUME NEW batch \in Batches(k), NEW failures \in SUBSET batch,
             NEW replies \in Answers(k, batch, failures), NEW fault, AskedStep(k, replies, failures, fault)
      PROVE  ResolverInv' /\ OnlyAdded(cache, cache')
  <2>1. batch = {k.sources[lookups[k].at]}
    BY <1>2 DEF AskedStep, Batches
  <2>2. QED BY <1>2, <2>1, AskedStepKeeps
<1>3. QED BY <1>1, <1>2, ManualStepKeeps, FreeStepKeeps, TurnStepKeeps DEF LookupStep

\* A request moves on.
LEMMA RequestStepKeeps == ASSUME ResolverInv, RequestStep PROVE ResolverInv' /\ OnlyAdded(cache, cache')
<1>1. {Raises, Nothing} \cup {Finds(song, High) : song \in Songs} \subseteq Outcomes
  BY DEF Outcomes
<1>2. Local \notin Network /\ None \notin Network
  BY ResolverAssumption
<1>3. ASSUME NEW fault, Exact(None, None, fault) \/ Exact(Local, None, fault)
      PROVE  ResolverInv' /\ OnlyAdded(cache, cache')
  BY <1>2, <1>3, ExactKeeps
<1>4. ASSUME NEW fault, NEW troubled \in Network,
             NEW disturbed \in {Raises, Nothing} \cup {Finds(song, High) : song \in Songs},
             Exact(troubled, disturbed, fault)
      PROVE  ResolverInv' /\ OnlyAdded(cache, cache')
  BY <1>1, <1>4, ExactKeeps
<1>5. QED BY <1>3, <1>4, AskKeeps, CollectKeeps, HintManualKeeps DEF RequestStep

\* Every step keeps the invariant, and what was chosen unless the user takes it.
LEMMA ResolverStep ==
    ASSUME ResolverInv, [ResolverNext]_resolverVars
    PROVE  ResolverInv' /\ (OnlyAdded(cache, cache') \/ spent'.changes > spent.changes)
<1>1. ASSUME UNCHANGED resolverVars
      PROVE  ResolverInv' /\ OnlyAdded(cache, cache')
  BY <1>1, SameIsKept DEF resolverVars, ResolverInv, RequestIsRight, MissesAreRight
<1>2. ASSUME Environment
      PROVE  ResolverInv' /\ (OnlyAdded(cache, cache') \/ spent'.changes > spent.changes)
  BY <1>2, RequestKeeps, SettingsKeep, LittleChanges, UserKeeps, StopKeeps DEF Environment
<1>3. QED BY <1>1, <1>2, LookupStepKeeps, RequestStepKeeps, LittleChanges DEF ResolverNext

\* However requests, lookups, providers, failures and the user interleave.
THEOREM ResolutionIsRight == ResolverSpec => []ResolverInv
<1>1. ResolverInit => ResolverInv
  BY ResolverStarts
<1>2. ResolverInv /\ [ResolverNext]_resolverVars => ResolverInv'
  BY ResolverStep
<1>3. QED BY <1>1, <1>2, PTL DEF ResolverSpec

\* Whichever providers answer in whichever order, a lookup that stops waiting for the rest
\* has an answer none of those it did not see fail could have bettered.
THEOREM TheBestAnswerWins == ResolverSpec => []BestAnswerWins
<1>1. ResolverInv => BestAnswerWins
  <2> SUFFICES ASSUME ResolverInv, NEW k \in DOMAIN lookups, lookups[k].phase = "done", lookups[k].asked # {},
                      ~spent.swallowed, NEW s \in Reached(k, lookups[k])
               PROVE  \E reply \in Replies[world, s, k.track, lookups[k].fuzzy] :
                          ~(/\ Candidate(s, reply) # None
                            /\ Better([result |-> Candidate(s, reply), index |-> Index(k.sources, s)],
                                      lookups[k].best))
    BY DEF BestAnswerWins, Reached, NetworkOf
  <2>1. TaskIsRight(world, ~spent.swallowed, k, lookups[k])
    BY DEF ResolverInv
  <2>2. Beaten(world, k, s, lookups[k].fuzzy, lookups[k].best)
    BY <2>1 DEF TaskIsRight
  <2> HIDE DEF Replies
  <2>3. QED BY <2>2 DEF Beaten
<1>2. QED BY <1>1, ResolutionIsRight, PTL

\* A lookup that ends with no lyrics and no failure to report invents nothing: each of the
\* providers of its plan has nothing for a search of the track, strict or fuzzy.
THEOREM NoLyricsIsTheTruth == ResolverSpec => []NothingMeansNothing
<1>1. ResolverInv => NothingMeansNothing
  <2> SUFFICES ASSUME ResolverInv, NEW k \in DOMAIN lookups, lookups[k].phase = "done",
                      lookups[k].result = None, lookups[k].failed = {}, ~spent.swallowed,
                      NEW s \in NetworkOf(k)
               PROVE  MayMiss(world, s, k.track)
    BY DEF NothingMeansNothing, NetworkOf, MayMiss
  <2>1. TaskIsRight(world, ~spent.swallowed, k, lookups[k])
    BY DEF ResolverInv
  <2>2. QED BY <2>1 DEF TaskIsRight
<1>2. QED BY <1>1, ResolutionIsRight, PTL

\* No automatic store, eviction or clean-up takes what the user chose.
THEOREM ChoicesSurvive == ResolverSpec => SelectionsSurvive
<1> DEFINE Survive == \A k \in DOMAIN cache.binds :
                          LET a == cache.binds[k]
                          IN  \/ k \in DOMAIN cache'.binds /\ cache'.binds[k] = a /\ cache'.rows[a].only
                              \/ spent'.changes > spent.changes
<1>1. ResolverInv /\ [ResolverNext]_resolverVars => Survive
  <2> SUFFICES ASSUME ResolverInv, [ResolverNext]_resolverVars
               PROVE  Survive
    OBVIOUS
  <2>1. OnlyAdded(cache, cache') \/ spent'.changes > spent.changes
    BY ResolverStep
  <2>2. CASE OnlyAdded(cache, cache')
    <3>1. Tabled(cache') /\ Keeps(cache, cache', DOMAIN cache.binds)
      BY <2>2 DEF OnlyAdded, Readable, Consistent
    <3>2. QED BY <3>1 DEF Keeps, Tabled
  <2>3. QED BY <2>1, <2>2
<1>2. ResolverInv /\ [ResolverNext]_resolverVars => [Survive]_resolverVars
  BY <1>1
<1>3. QED BY <1>2, ResolutionIsRight, PTL DEF ResolverSpec, SelectionsSurvive

===============================================================================
