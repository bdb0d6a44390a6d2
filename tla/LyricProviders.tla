----------------------------- MODULE LyricProviders -----------------------------
(***************************************************************************)
(* What the providers of lyrics do to answer (lyrics/netease.py, kugou.py, *)
(* lrclib.py, amll.py, qqmusic.py, local.py): which requests they make, in *)
(* which order they try the songs they find, and what a request that fails *)
(* changes.  The services are external: a book holds what one of them has  *)
(* for a track, the page of songs it returns for each kind of request, and *)
(* a page lists the songs that match alike in the order of their           *)
(* similarity.                                                             *)
(*                                                                         *)
(* A trouble is [down, late]: the requests that fail, each named by the    *)
(* page or the song it asks for, and whether by the timeout of the whole   *)
(* request, which is no error of the HTTP client.                          *)
(***************************************************************************)
EXTENDS LyricCache, SequencesExt

CONSTANTS Noisy,        \* Noisy[track]: titles salvaged from an upload's title
          Credits,      \* Credits[track]: other readings of its artists
          Timed,        \* songs whose lyrics time every word
          Lyricless,    \* songs without timed lines
          Submissions,  \* a partition of the songs: several files may be of one
          MaxFetches,   \* downloads of one search: 6, 5 and 3 in the code
          MaxOffers     \* results of one provider for a search by hand

ASSUME SubmissionsAssumption ==
    UNION Submissions = Songs /\ \A A, B \in Submissions : A = B \/ A \cap B = {}

ASSUME MaxFetchesAssumption == MaxFetches \in Nat \ {0} /\ MaxOffers \in Nat \ {0}

Pages == {"reported", "simplified", "salvaged", "exact", "catalog"}

Calm == [down |-> {}, late |-> FALSE]

Finds(song, conf) == [raised |-> FALSE, song |-> song, conf |-> conf]
Nothing == Finds(None, NoMatch)
Raises == [raised |-> TRUE, song |-> None, conf |-> NoMatch]

AtMost(seq, n) == SubSeq(seq, 1, IF Len(seq) < n THEN Len(seq) ELSE n)

Once(seq) ==
    LET first == {i \in DOMAIN seq : \A j \in 1..(i - 1) : seq[j] # seq[i]}
    IN  FoldLeftDomain(LAMBDA acc, i : IF i \in first THEN Append(acc, seq[i]) ELSE acc, <<>>, seq)

\* A song as a provider describes it: Kugou's singers are not to be relied upon, so that
\* it goes without them unless the user looks on, and AMLL's catalog has no lengths.
ListedByKugou(m) == [m EXCEPT !.aliases = {}, !.album = ""]
SeenByKugou(m) == [ListedByKugou(m) EXCEPT !.artists = {}]
SeenByLrclib(m) == [m EXCEPT !.aliases = {}]
SeenByAmll(m) == [m EXCEPT !.length = None]

Seen(provider, song) ==
    CASE provider = "kugou" -> SeenByKugou(Metadata[song])
      [] provider = "lrclib" -> SeenByLrclib(Metadata[song])
      [] provider = "amll" -> SeenByAmll(Metadata[song])
      [] OTHER -> Metadata[song]

Catalogs == {"netease", "kugou", "lrclib", "amll"}

\* How a song a provider lists matches a track, as a search by hand shows it.
ListedBy(provider, song) ==
    IF provider = "kugou" THEN ListedByKugou(Metadata[song]) ELSE Seen(provider, song)

Evidence ==
    [p \in Catalogs, s \in Songs, t \in Tracks |-> Evaluate(ListedBy(p, s), Metadata[t], FALSE)]

\* _performer_sits_in_the_title: a song's performer is named in a salvaged title, and
\* not among the artists.
PerformerInTitle(provider, page, track) ==
    \E s \in ToSet(page), title \in ToSet(Noisy[track]) :
        LET performers == Seen(provider, s).artists
        IN  /\ performers \cap Metadata[track].artists = {}
            /\ \E name \in performers : <<title, name>> \in Inside

\* The readings of a track a fuzzy search judges by: its titles with its credits, and
\* with none where the artist is not the performer.  A salvaged title has lost its
\* version markers.
Salvaged(provider, page, track) ==
    LET t == Metadata[track]
        titles == <<t.title>> \o Noisy[track]
        credits == <<t.artists>> \o Credits[track]
                     \o (IF t.artists # {} /\ PerformerInTitle(provider, page, track) THEN <<{}>> ELSE <<>>)
        reading(i, j) ==
            IF i = 1 THEN [t EXCEPT !.artists = credits[j]]
            ELSE [t EXCEPT !.title = titles[i], !.artists = credits[j], !.versions = {}, !.bracketed = FALSE]
    IN  FlattenSeq([i \in DOMAIN titles |-> [j \in DOMAIN credits |-> reading(i, j)]])

\* A song that is refused is judged by the readings, the first that accepts it; one of
\* another version stays refused.
Rescued(c, track, readings) ==
    LET tried == <<Metadata[track]>> \o (IF c.versions = Metadata[track].versions THEN readings ELSE <<>>)
        First(judged) ==
            LET accepted == SelectSeq(judged, LAMBDA e : e.conf # NoMatch)
            IN  IF accepted = <<>> THEN Head(judged) ELSE Head(accepted)
    IN  First([i \in DOMAIN tried |-> Evaluate(c, tried[i], TRUE)])

\* By a key of each, the greatest first; equals keep their order.
Sorted(seq, key(_)) ==
    LET order == SortSeq([i \in DOMAIN seq |-> i],
                         LAMBDA i, j : \/ Above(key(seq[i]), key(seq[j]))
                                       \/ key(seq[i]) = key(seq[j]) /\ i < j)
    IN  [n \in DOMAIN seq |-> seq[order[n]]]

\* ranked_matches: the songs of a page that are the track's, the surest first.
Matches(provider, page, track, fuzzy) ==
    LET readings == IF fuzzy THEN Salvaged(provider, page, track) ELSE <<>>
        judged == [i \in DOMAIN page |->
                     [song |-> page[i], e |-> Rescued(Seen(provider, page[i]), track, readings)]]
    IN  Sorted(SelectSeq(judged, LAMBDA m : m.e.conf # NoMatch), LAMBDA m : EvidenceKey(m.e))

SongsOf(matches) == [i \in DOMAIN matches |-> matches[i].song]

With(matches, conf) == SelectSeq(matches, LAMBDA m : m.e.conf = conf)

\* Each song once, by its first match.
OnceEach(matches) ==
    LET first == {i \in DOMAIN matches : \A j \in 1..(i - 1) : matches[j].song # matches[i].song}
    IN  FoldLeftDomain(LAMBDA acc, i : IF i \in first THEN Append(acc, matches[i]) ELSE acc, <<>>, matches)

\* query_variants: the readings of a title, the most faithful first.
Rungs(fuzzy) == <<"reported", "simplified">> \o (IF fuzzy THEN <<"salvaged">> ELSE <<>>)

\* Words before lines, and the first of its kind.
FirstTimed(songs) ==
    LET timed == SelectSeq(songs, LAMBDA s : Timed[s])
    IN  IF timed # <<>> THEN Head(timed) ELSE IF songs # <<>> THEN Head(songs) ELSE None

\* What can be downloaded and has timed lines.
Usable(songs, trouble) == SelectSeq(songs, LAMBDA s : s \notin Lyricless \cup trouble.down)
-------------------------------------------------------------------------------
(* NetEase.                                                                *)

LadderBatch == 4

\* _ladder_batches: the reported reading alone, then the others, four at a time.
LadderBatches(rungs) ==
    <<AtMost(rungs, 1)>>
        \o [i \in 1..((Len(rungs) + LadderBatch - 2) \div LadderBatch) |->
                AtMost(SubSeq(rungs, LadderBatch * (i - 1) + 2, Len(rungs)), LadderBatch)]

\* _search_batch drops the searches that fail; with all of them failed it raises.
Failure == [song |-> None, e |-> [conf |-> NoMatch]]

SearchBatch(book, rungs, trouble, track, fuzzy) ==
    LET answered == SelectSeq(rungs, LAMBDA r : r \notin trouble.down)
    IN  IF answered = <<>> THEN <<Failure>>
        ELSE FlattenSeq([i \in DOMAIN answered |-> Matches("netease", book[answered[i]], track, fuzzy)])

\* medium_key: how the doubtful matches of all searches are tried.
MediumKey(e) ==
    <<Bit(e.exact), Bit(e.same), Bit(e.shared), Nearness(e)[1], Nearness(e)[2]>>

\* fetch_artifact: sure matches are downloaded as their batch is searched, and the
\* others when there is none left; the first with lyrics, or with an error, ends
\* the walk.
NetEase(book, track, fuzzy, trouble) ==
    LET batches == LadderBatches(Rungs(fuzzy))
        Ended(ends) == IF ends = <<>> THEN Nothing
                       ELSE IF Head(ends) = Failure \/ Head(ends).song \in trouble.down THEN Raises
                       ELSE Finds(Head(ends).song, Head(ends).e.conf)
        Walked(found, matches) ==
            LET doubtful == Sorted(OnceEach(With(matches, Medium)), LAMBDA m : MediumKey(m.e))
                sure == SelectSeq(found, LAMBDA m : m = Failure \/ m.e.conf = High)
                budget == ToSet(AtMost(OnceEach(With(matches, High) \o doubtful), MaxFetches))
            IN  Ended(SelectSeq(sure \o doubtful,
                                LAMBDA m : \/ m = Failure
                                           \/ m \in budget /\ (m.song \in trouble.down \/ m.song \notin Lyricless)))
        Searched(found) == Walked(found, SelectSeq(found, LAMBDA m : m # Failure))
    IN  Searched(FlattenSeq([i \in DOMAIN batches |-> SearchBatch(book, batches[i], trouble, track, fuzzy)]))

\* search_artifacts, a search by hand: whatever has lyrics.  A failed download is
\* left out, and a late one ends the search.
OffersNetEase(book, trouble) ==
    LET listed == AtMost(book["reported"], MaxOffers)
        late == trouble.late /\ ToSet(listed) \cap trouble.down # {}
    IN  IF "reported" \in trouble.down \/ late THEN <<>> ELSE Usable(listed, trouble)
-------------------------------------------------------------------------------
(* Kugou.                                                                  *)

\* fetch_artifact: every reading is searched first.  A download that fails is
\* passed over; one that times out is not caught.
Kugou(book, track, fuzzy, trouble) ==
    LET Ended(ends) == IF ends = <<>> THEN Nothing
                       ELSE IF Head(ends).song \in trouble.down THEN Raises
                       ELSE Finds(Head(ends).song, Head(ends).e.conf)
        Walked(found) ==
            Ended(SelectSeq(AtMost(With(found, High) \o With(found, Medium), MaxFetches),
                            LAMBDA m : IF m.song \in trouble.down THEN trouble.late
                                       ELSE m.song \notin Lyricless))
    IN  IF ToSet(Rungs(fuzzy)) \cap trouble.down # {} THEN Raises
        ELSE Walked(OnceEach(FlattenSeq([i \in DOMAIN Rungs(fuzzy) |->
                                            Matches("kugou", book[Rungs(fuzzy)[i]], track, fuzzy)])))

\* search_artifacts
OffersKugou(book, trouble) ==
    LET listed == AtMost(book["reported"], MaxOffers)
        late == trouble.late /\ ToSet(listed) \cap trouble.down # {}
    IN  IF "reported" \in trouble.down \/ late THEN <<>> ELSE Usable(listed, trouble)
-------------------------------------------------------------------------------
(* LRCLIB, whose records hold the lyrics.                                  *)

\* get_exact and _search: what comes without lyrics is no record.
Records(page) == SelectSeq(page, LAMBDA s : s \notin Lyricless)

\* _artifact_from_records: the best of the records of some pages.
BestRecord(book, pages, track, fuzzy) ==
    LET records == FlattenSeq([i \in DOMAIN pages |-> Records(book[pages[i]])])
        Best(ranked) == IF ranked = <<>> THEN Nothing ELSE Finds(Head(ranked).song, Head(ranked).e.conf)
    IN  Best(Matches("lrclib", records, track, fuzzy))

\* fetch_artifact asks for all pages at once, and a sure match ends it as soon as
\* it is there, in whatever order they arrive.  It raises if all requests failed.
Lrclib(book, track, fuzzy, trouble) ==
    LET asked == <<"exact", "reported">> \o (IF fuzzy THEN <<"salvaged">> ELSE <<>>)
        arrived == SelectSeq(asked, LAMBDA r : r \notin trouble.down)
        Answers(best) ==
            LET sure == {r \in {best[pages] : pages \in DOMAIN best} : r.conf = High}
            IN  IF sure # {} THEN sure ELSE {best[ToSet(arrived)]}
    IN  IF arrived = <<>> THEN {Raises}
        ELSE Answers([pages \in SUBSET ToSet(arrived) |->
                        BestRecord(book, SelectSeq(arrived, LAMBDA r : r \in pages), track, fuzzy)])

\* search_artifacts needs no downloads.
OffersLrclib(book, trouble) ==
    IF "reported" \in trouble.down THEN <<>> ELSE AtMost(Records(book["reported"]), MaxOffers)
-------------------------------------------------------------------------------
(* AMLL, a catalog of files; several submissions may be of one song.       *)

\* _catalog: while it is not known, and cannot be had, every search of it fails.
Uncatalogued(trouble) == "catalog" \in trouble.down

\* match_records for a search by hand: whatever contains the words of the user.
CatalogListed(page, track) ==
    LET Ranked(judged) == With(judged, High) \o With(judged, Medium) \o With(judged, NoMatch)
    IN  Ranked([i \in DOMAIN page |-> [song |-> page[i], e |-> Evidence["amll", page[i], track]]])

\* resolve: within the confidence of the first usable file, words before lines.
Amll(book, track, fuzzy, trouble) ==
    LET Walked(tried) ==
            LET usable == SelectSeq(tried, LAMBDA m : m.song \notin Lyricless \cup trouble.down)
                conf == Head(usable).e.conf
            IN  IF usable # <<>> THEN Finds(FirstTimed(SongsOf(With(usable, conf))), conf)
                ELSE IF ToSet(SongsOf(tried)) \cap trouble.down # {} THEN Raises ELSE Nothing
    IN  IF Uncatalogued(trouble) THEN Raises
        ELSE Walked(AtMost(Matches("amll", book["catalog"], track, fuzzy), MaxFetches))

\* resolve_exact: the first usable of the submissions under an id.
AmllById(submissions, trouble) ==
    LET tried == AtMost(submissions, MaxFetches)
        usable == Usable(tried, trouble)
    IN  IF Uncatalogued(trouble) THEN Raises
        ELSE IF usable # <<>> THEN Finds(Head(usable), High)
        ELSE IF ToSet(tried) \cap trouble.down # {} THEN Raises ELSE Nothing

\* Of several usable files of a song only the first is offered.
OncePerSong(songs) ==
    FoldLeft(LAMBDA acc, s : IF \E S \in Submissions : s \in S /\ S \cap ToSet(acc) # {} THEN acc
                             ELSE Append(acc, s), <<>>, songs)

\* search_artifacts: failed downloads are left out, unless they were all there was.
OffersAmll(book, track, trouble) ==
    LET listed == AtMost(SongsOf(CatalogListed(book["catalog"], track)), MaxOffers)
    IN  IF Uncatalogued(trouble) THEN <<>> ELSE OncePerSong(Usable(listed, trouble))
-------------------------------------------------------------------------------
(* QQ Music, which knows only ids.                                         *)

QQMusic == Nothing

\* fetch_artifact_for_song_id, here and in NetEase.
SongById(submissions, trouble) ==
    IF submissions = <<>> THEN Nothing
    ELSE IF Head(submissions) \in trouble.down THEN Raises
    ELSE IF Head(submissions) \in Lyricless THEN Nothing ELSE Finds(Head(submissions), High)
-------------------------------------------------------------------------------
\* What a provider may answer to a search, and to a search by hand.
Fetch(provider, book, track, fuzzy, trouble) ==
    CASE provider = "netease" -> {NetEase(book, track, fuzzy, trouble)}
      [] provider = "kugou" -> {Kugou(book, track, fuzzy, trouble)}
      [] provider = "lrclib" -> Lrclib(book, track, fuzzy, trouble)
      [] provider = "amll" -> {Amll(book, track, fuzzy, trouble)}
      [] provider = "qqmusic" -> {QQMusic}

Offers(provider, book, track, trouble) ==
    CASE provider = "netease" -> OffersNetEase(book, trouble)
      [] provider = "kugou" -> OffersKugou(book, trouble)
      [] provider = "lrclib" -> OffersLrclib(book, trouble)
      [] provider = "amll" -> OffersAmll(book, track, trouble)
      [] provider = "qqmusic" -> <<>>

\* What the providers that know ids may answer to one.
ById(provider, submissions, trouble) ==
    CASE provider = "amll" -> AmllById(submissions, trouble)
      [] provider \in {"netease", "qqmusic"} -> SongById(submissions, trouble)
      [] provider \in {"kugou", "lrclib"} -> Nothing

\* One request fails, or the service is away.
Troubles(songs) ==
    [down : {{r} : r \in Pages \cup songs} \cup {Pages \cup songs}, late : BOOLEAN]

\* load_local_lyrics and LocalLyricsSource: the sidecars before the tags.
ReadLocal(file) ==
    LET lined(songs) == SelectSeq(songs, LAMBDA s : s \notin Lyricless)
        read(songs) == LET song == FirstTimed(lined(songs)) IN IF song = None THEN <<>> ELSE <<song>>
    IN  FirstTimed(read(file.sidecar) \o read(file.embedded))

===============================================================================
