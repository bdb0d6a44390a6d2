----------------------------- MODULE MCMprisLyrics -----------------------------
(* A small instance of MprisLyrics: a local player on three songs, two of   *)
(* which have one title, and one adapter that plays one of them.            *)
EXTENDS MprisLyrics

CONSTANTS c1, songA, songB, songC, player

MCAdapters == {"plugin", "mpris"}
MCSongs == {songA, songB, songC}

\* songA and songB are of two artists and have one title.
MCTitle == [song \in MCSongs |-> IF song = songC THEN "another" ELSE "same"]

Obs(song, status) ==
    [adapter |-> "plugin", player |-> player, status |-> status,
     track |-> [adapter |-> "plugin", player |-> player, stable |-> None, song |-> song],
     position |-> <<"plugin", player, None, song>>]

Report(song, status, doc) == [obs |-> Obs(song, status), doc |-> doc]

AdapterLyrics(song) == [song |-> song, lines |-> TRUE, origin |-> "adapter"]

MCSnapshots ==
    [c \in {c1} |-> {Report(songA, "Playing", AdapterLyrics(songA)),
                     Report(songA, "Playing", None)}]

MCOneList == {<<"mpris", "adapter">>}
===============================================================================
