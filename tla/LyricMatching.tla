------------------------------ MODULE LyricMatching ------------------------------
(***************************************************************************)
(* How the metadata of a song are compared with those of a playback track  *)
(* (lyrics/match.py): the ladder of rules that decides whether a song found *)
(* by its name is the track's, and how sure that is.                       *)
(*                                                                         *)
(* Metadata are records: a title and its aliases, a set of artists, an     *)
(* album, a length in seconds or None, the version markers that change the *)
(* lyrics (a live take, a re-cut), and whether the title is one bracketed  *)
(* span.  The empty string stands for what is not known.  Names are         *)
(* normalised; how alike two of them are is given.                         *)
(***************************************************************************)
EXTENDS Integers, FiniteSets

CONSTANTS None,
          Likeness,     \* Likeness[<<a, b>>]: how alike two names are, in percent
          Brief,        \* titles of fewer than four letters
          Inside        \* pairs <<title, name>>: the name is substantial, and in the title

\* MatchConfidence
NoMatch == 0
Medium == 1
High == 2

Alike(a, b) == IF a = b THEN 100 ELSE IF <<a, b>> \in DOMAIN Likeness THEN Likeness[<<a, b>>] ELSE 0

LOCAL Least(a, b) == IF a < b THEN a ELSE b

\* The difference of two lengths, if both are known.
Gap(c, t) ==
    IF c.length = None \/ t.length = None THEN None
    ELSE IF c.length > t.length THEN c.length - t.length ELSE t.length - c.length

Within(gap, seconds) == gap # None /\ gap <= seconds
NotBeyond(gap, seconds) == gap = None \/ gap <= seconds

\* The names of a song that can be compared.
Forms(c) == ({c.title} \cup c.aliases) \ {""}

\* Those most like the title of a track, and how alike they are.
Likest(c, t) == {f \in Forms(c) : \A g \in Forms(c) : Alike(t.title, g) <= Alike(t.title, f)}
Ratio(c, t) == LET best == Likest(c, t) IN IF best = {} \/ t.title = "" THEN 0 ELSE Alike(t.title, CHOOSE f \in best : TRUE)

SameTitle(c, t) == t.title # "" /\ t.title \in Forms(c)

\* Two titles that are nothing but a bracketed span must agree exactly.
Strong(c, t) ==
    \/ SameTitle(c, t)
    \/ /\ ~(c.bracketed /\ t.bracketed)
       /\ Ratio(c, t) >= 88 /\ t.title \notin Brief /\ \E f \in Likest(c, t) : f \notin Brief

\* The title and an artist of the song both sit in the cluttered title of the track.
FuzzyContains(c, t) ==
    /\ <<t.title, c.title>> \in Inside
    /\ \E name \in c.artists : <<t.title, name>> \in Inside

\* Title, artist and album, weighted by what the track names.
Similarity(c, t) ==
    LET artist == IF c.artists = t.artists THEN 100 ELSE IF c.artists \cap t.artists # {} THEN 50 ELSE 0
        weights == CASE t.artists # {} /\ t.album # "" -> <<4, 2, 4>>
                     [] t.artists # {} /\ t.album = "" -> <<7, 3, 0>>
                     [] t.artists = {} /\ t.album # "" -> <<8, 0, 2>>
                     [] t.artists = {} /\ t.album = "" -> <<10, 0, 0>>
    IN  weights[1] * Ratio(c, t) + weights[2] * artist + weights[3] * Alike(t.album, c.album)

\* Nothing stands in the way: the versions are the same, and so is an artist unless
\* one side names none.
Overlap(c, t) == t.artists = {} \/ c.artists = {} \/ c.artists \cap t.artists # {}
Compatible(c, t) == t.versions = c.versions /\ Overlap(c, t)

SameArtists(c, t) == t.artists # {} /\ t.artists = c.artists
SameAlbum(c, t) == t.album # "" /\ t.album = c.album

\* What corroborates a title.  A length alone does so only for a track that names an
\* artist.
Supported(c, t) ==
    \/ c.artists \cap t.artists # {}
    \/ SameAlbum(c, t)
    \/ Within(Gap(c, t), 3) /\ t.artists # {}

\* A stream that reports the length of its container.
Stretched(c, t) == Gap(c, t) # None /\ Gap(c, t) > Least(t.length, c.length)

Sure(c, t) ==
    /\ Compatible(c, t)
    /\ \/ SameTitle(c, t) /\ SameArtists(c, t) /\ NotBeyond(Gap(c, t), 8)
       \/ Strong(c, t) /\ Supported(c, t) /\ NotBeyond(Gap(c, t), 3)

Likely(c, t, fuzzy) ==
    /\ Compatible(c, t)
    /\ \/ SameTitle(c, t) /\ SameArtists(c, t) /\ (SameAlbum(c, t) \/ Stretched(c, t))
       \/ Strong(c, t) /\ NotBeyond(Gap(c, t), 8)
       \/ fuzzy /\ ~Strong(c, t) /\ FuzzyContains(c, t)
       \/ /\ ~Strong(c, t) /\ Ratio(c, t) >= 50 /\ ~(c.bracketed /\ t.bracketed)
          /\ t.artists # {} /\ c.artists # {} /\ Within(Gap(c, t), 3)
          /\ SameAlbum(c, t) \/ SameArtists(c, t)

\* evaluate_match, for a song as its provider describes it.
Evaluate(c, t, fuzzy) ==
    [conf |-> IF Sure(c, t) THEN High ELSE IF Likely(c, t, fuzzy) THEN Medium ELSE NoMatch,
     exact |-> SameTitle(c, t), overlap |-> Overlap(c, t),
     shared |-> t.artists # {} /\ c.artists \cap t.artists # {}, same |-> SameArtists(c, t),
     album |-> SameAlbum(c, t), score |-> Similarity(c, t), gap |-> Gap(c, t)]

-------------------------------------------------------------------------------
(* Orders of evidence: lexicographic in what each compares.                 *)

Above(k, l) == \E i \in DOMAIN k : k[i] > l[i] /\ \A j \in 1 .. (i - 1) : k[j] = l[j]

Bit(b) == IF b THEN 1 ELSE 0

\* The nearer the length the better, and an unknown one last.
Nearness(e) == IF e.gap = None THEN <<0, 0>> ELSE <<1, -e.gap>>

EvidenceKey(e) == <<e.conf, e.score, Nearness(e)[1], Nearness(e)[2]>>

===============================================================================
