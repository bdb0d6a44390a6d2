--------------------------- MODULE MCLyricResolution ---------------------------
(* Two tracks, a live source, and the four providers that search.             *)
EXTENDS LyricResolution

T1 == "river"
T2 == "rivers"
MCTracks == {T1, T2}

MCSongs == {"plain", "timed", "bare", "other", "noise", "live"}
MCTimed == [s \in MCSongs |-> s = "timed"]
MCLyricless == {"bare", "noise"}
MCSubmissions == {{s} : s \in MCSongs}

Named(title, artists, album, length) ==
    [title |-> title, aliases |-> {}, artists |-> artists, album |-> album, length |-> length,
     versions |-> {}, bracketed |-> FALSE]

\* The first track is a tagged file; of the second only the title is known.  What is
\* listed is the first track, and a title alone for the second; the document of the
\* player is the first track.  A fuzzy search finds another song by the names in a
\* noisy title.
MCMetadata ==
    [x \in {"plain", "timed", "bare"} |-> Named("river", {"A"}, "a", 200)]
      @@ (T1 :> Named("river", {"A"}, "a", 200)) @@ (T2 :> Named("rivers", {}, "", 193))
      @@ ("live" :> Named("river", {"A"}, "", 205)) @@ ("other" :> Named("uno", {"B"}, "", None))
      @@ ("noise" :> Named("uno", {"B"}, "", None))

MCLikeness == (<<"rivers", "river">> :> 91)
MCInside == {<<"b uno", "uno">>, <<"b uno", "B">>}
MCNoisy == [t \in MCTracks |-> IF t = T1 THEN <<"b uno", "uno">> ELSE <<"uno">>]
MCCredits == [t \in MCTracks |-> <<>>]

MCNetwork == {"netease", "amll", "kugou", "lrclib"}

Artifact(provider, song) == [provider |-> provider, song |-> song]

MCArtifacts == {Artifact(p, s) : p \in MCNetwork, s \in MCSongs}

MCSelectable == {Artifact("netease", "plain"), Artifact("amll", "timed")}

Book(page, songs) == [p \in Pages |-> IF p = page THEN songs ELSE <<>>]

\* A service that has the first track, behind a song without lyrics, and the other
\* under a doubtful match; and one where only a fuzzy search finds the first.
Rich ==
    [p \in MCNetwork \X MCTracks |->
        IF p[2] = T2 THEN (IF p[1] = "amll" THEN Book("catalog", <<"timed">>)
                           ELSE IF p[1] = "lrclib" THEN Book("reported", <<"timed">>) ELSE Book("exact", <<>>))
        ELSE CASE p[1] = "netease" -> [Book("reported", <<"bare">>) EXCEPT !["simplified"] = <<"bare", "plain">>]
               [] p[1] = "amll" -> Book("catalog", <<"plain", "timed">>)
               [] p[1] = "kugou" -> Book("reported", <<"bare", "plain">>)
               [] p[1] = "lrclib" -> Book("reported", <<"timed">>)]

\* One that has little; of the second track it has three doubtful matches, and a fuzzy
\* search downloads the two without lyrics first.
Poor ==
    [p \in MCNetwork \X MCTracks |->
        IF p[2] = T2 THEN (IF p[1] = "netease" THEN Book("reported", <<"bare", "noise", "timed">>)
                           ELSE IF p[1] = "amll" THEN Book("exact", <<>>) ELSE Rich[p])
        ELSE IF p[1] \in {"netease", "kugou"} THEN Book("salvaged", <<"other">>) ELSE Book("exact", <<>>)]

\* A fuzzy miss need not be a strict one.
ASSUME LooseFindsCrowdOut ==
    /\ Replies["poor", "netease", T2, TRUE] = {Nothing}
    /\ Nothing \notin Replies["poor", "netease", T2, FALSE]

Ids(netease, amll) ==
    [p \in MCNetwork \X MCNetwork |->
        IF p[1] # "netease" THEN <<>> ELSE IF p[2] = "netease" THEN netease
        ELSE IF p[2] = "amll" THEN amll ELSE <<>>]

Files(sidecar, embedded) == [t \in MCTracks |-> [sidecar |-> sidecar, embedded |-> embedded]]

MCWorlds ==
    ("rich" :> [books |-> Rich, ids |-> Ids(<<"plain">>, <<>>), files |-> Files(<<"bare">>, <<>>)])
      @@ ("poor" :> [books |-> Poor, ids |-> Ids(<<"bare">>, <<"bare", "plain">>),
                     files |-> Files(<<"plain">>, <<"bare">>)])

MCPlans == {<<"live", "netease", "amll">>, <<"lrclib", "kugou">>}

MCPolicies == {[cache |-> TRUE, best |-> TRUE, fuzzy |-> TRUE], [cache |-> TRUE, best |-> TRUE, fuzzy |-> FALSE],
               [cache |-> TRUE, best |-> FALSE, fuzzy |-> FALSE], [cache |-> FALSE, best |-> TRUE, fuzzy |-> TRUE]}

MCHintsOf == [t \in MCTracks |-> IF t = T1 THEN {None, "netease"} ELSE {"local"}]

MCInitPolicies == {p \in MCPolicies : p.cache /\ ~p.fuzzy}

MCInitPlans == {<<"live", "netease", "amll">>}

MCInitCaches == {Empty}
===============================================================================
