--------------------------- MODULE MCSourceOwnership ---------------------------
(* A small instance of SourceOwnership: Cider and two adapter connections.  *)
(* One connection claims the "mpris" slot by its adapter id in one of its   *)
(* snapshots, the way requests sharing the POST session may.                *)
EXTENDS SourceOwnership

CONSTANTS c1, c2, songA, songB, id1, player

MCAdapters == {"plugin", "mpris", "cider"}
MCConnections == {c1, c2}
MCSongs == {songA, songB}

Track(adapter, stable, song) ==
    [adapter |-> adapter, player |-> player, stable |-> stable, song |-> song]

Obs(adapter, track, status) ==
    [adapter |-> adapter, player |-> player, track |-> track,
     status |-> status, position |-> <<adapter, player, track.stable, track.song>>]

Lyrics(song, origin) == [song |-> song, lines |-> TRUE, origin |-> origin]

Report(obs, doc) == [obs |-> obs, doc |-> doc]

MCSnapshots ==
    [c \in MCConnections \cup {CiderApi} |->
       CASE c = CiderApi ->
              {Report(Obs("cider", Track("cider", id1, songA), "Playing"), Lyrics(songA, "cider"))}
         [] c = c1 ->
              {Report(Obs("plugin", Track("plugin", id1, songA), "Playing"), Lyrics(songA, "adapter")),
               Report(Obs("mpris", Track("mpris", None, songB), "Playing"), Lyrics(songB, "adapter")),
               Report(Obs("plugin", Track("plugin", id1, songA), "Stopped"), Lyrics(songA, "adapter"))}
         [] c = c2 ->
              {Report(Obs("plugin", Track("plugin", None, songA), "Paused"), None),
               Report(Obs("plugin", Track("plugin", None, songB), "Playing"), Lyrics(songB, "adapter"))}]

MCDisplaySourceLists ==
    {<<>>, <<"adapter", "mpris", "adapter">>, <<"cider", "adapter">>}
===============================================================================
