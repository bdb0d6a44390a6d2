---------------------------- MODULE MCLyricLibrary -----------------------------
(* A track in two albums, and another that is reported with two lengths; two  *)
(* providers.                                                                 *)
EXTENDS LyricLibrary

T1 == "first"
T2 == "again"
T3 == "second"
T4 == "longer"
MCTracks == {T1, T2, T3, T4}
MCInitTracks == {T1, T3}

\* The services answer alike for the two tracks of a title.
MCQueries == {T1, T3}

MCSongs == {"x", "y", "bare"}
MCTimed == [s \in MCSongs |-> FALSE]
MCLyricless == {"bare"}
MCSubmissions == {{s} : s \in MCSongs}

Named(title, aliases, artists, album, length) ==
    [title |-> title, aliases |-> aliases, artists |-> artists, album |-> album, length |-> length,
     versions |-> {}, bracketed |-> FALSE]

\* One song is the first track, and the other is doubtful for both.
MCMetadata ==
    (T1 :> Named("one", {}, {"A"}, "a", 200)) @@ (T2 :> Named("one", {}, {"A"}, "b", 200))
      @@ (T3 :> Named("two", {}, {"A"}, "a", 200)) @@ (T4 :> Named("two", {}, {"A"}, "a", 204))
      @@ ("x" :> Named("one", {}, {"A"}, "a", 200)) @@ ("y" :> Named("one", {"two"}, {}, "", None))
      @@ ("bare" :> Named("one", {}, {}, "", None))

MCLikeness == [p \in {} |-> 0]
MCNoisy == [t \in MCTracks |-> <<>>]

X == [provider |-> "netease", song |-> "x"]
Y == [provider |-> "amll", song |-> "y"]
MCArtifacts == {X, Y}

Book(page, songs) == [p \in Pages |-> IF p = page THEN songs ELSE <<>>]

MCBooks == [p \in {"netease", "amll"} \X MCTracks |->
               IF p[1] = "amll" THEN Book("catalog", <<"y">>)
               ELSE Book("reported", IF p[2] \in {T1, T2} THEN <<"bare", "x">> ELSE <<>>)]

MCProviders == <<"netease", "amll">>

MCKeywords == {{X}}

Row(mode, only) == [mode |-> mode, only |-> only, valid |-> TRUE, current |-> TRUE]

\* A row found automatically beside one chosen under a former key.
MCInitCaches ==
    {[rows |-> (X :> Row("auto", FALSE) @@ Y :> Row("manual", TRUE)), recent |-> {<<Y, X>>},
      binds |-> (LegacySelectionKey(T2) :> Y)]}

\* Of the first track the names agree; a choice for the second at one of its lengths is
\* displayed at the other, and not remembered there.
ASSUME NamesHere == {t \in MCTracks : NameAgrees(t)} = {T1, T2}
===============================================================================
