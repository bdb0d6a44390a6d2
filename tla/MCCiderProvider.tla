---------------------------- MODULE MCCiderProvider ----------------------------
(* A small instance of CiderProvider: two tracks and a stopped player, with *)
(* and without a translation, and a local player on one of the songs.       *)
EXTENDS CiderProvider

CONSTANTS songA, songB, id1, id2, en, player

MCAdapters == {"cider", "mpris"}
MCPlayers == {"cider-api", player}
MCSongs == {songA, songB}
MCStableIds == {id1, id2}

Track(adapter, by, stable, song) ==
    [adapter |-> adapter, player |-> by, stable |-> stable, song |-> song]

\* The player plays one song or the other, or has stopped after the first.
MCPlaybacks ==
    {[state |-> "Playing", item |-> Track("cider", "cider-api", id1, songA), time |-> TRUE],
     [state |-> "Playing", item |-> Track("cider", "cider-api", id2, songB), time |-> TRUE],
     [state |-> "Stopped", item |-> Track("cider", "cider-api", id1, songA), time |-> TRUE]}

LocalReport(track) ==
    [adapter |-> "mpris", player |-> player, track |-> track, status |-> "Playing",
     position |-> TrackKey([adapter |-> "mpris", player |-> player, track |-> track])]

MCLocalReports == {LocalReport(Track("mpris", player, None, songA))}

MCDisplaySourceLists == {<<"mpris", "cider">>, <<"adapter">>}
===============================================================================
