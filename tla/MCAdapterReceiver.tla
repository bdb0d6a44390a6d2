--------------------------- MODULE MCAdapterReceiver ---------------------------
(* A small instance of AdapterReceiver: one WebSocket adapter and the POST  *)
(* session, each with two tracks or states to report; the POST client also  *)
(* sends a snapshot without a track whose lyrics have no lines, which the   *)
(* decoder accepts.                                                         *)
EXTENDS AdapterReceiver

CONSTANTS ws, post, receiver, songA, songB, id1, id2, player

MCAdapters == {"plugin", "mpris", receiver}
MCConnections == {ws, post}
MCSongs == {songA, songB}
MCPlayers == {player, receiver}

Track(adapter, stable, song) ==
    [adapter |-> adapter, player |-> player, stable |-> stable, song |-> song]

Obs(adapter, track, status) ==
    LET obs == [adapter |-> adapter, player |-> player, track |-> track,
                status |-> status, position |-> None]
    IN  [obs EXCEPT !.position = TrackKey(obs)]

Untimed(obs) == [obs EXCEPT !.position = None]

Lyrics(song, lines) == [song |-> song, lines |-> lines, origin |-> "adapter"]

Report(obs, doc) == [obs |-> obs, doc |-> doc]

MCSnapshots ==
    [c \in MCConnections |->
       IF c = ws
       THEN {Report(Obs("plugin", Track("plugin", id1, songA), "Playing"), Lyrics(songA, TRUE)),
             Report(Obs("plugin", Track("plugin", id1, songA), "Stopped"), Lyrics(songA, TRUE))}
       ELSE {Report(Obs("plugin", Track("plugin", None, songB), "Playing"), Lyrics(songB, TRUE)),
             Report(Untimed(Obs("plugin", None, "Paused")), Lyrics(None, FALSE))}]

MCLocalReports == {Obs("mpris", Track("mpris", None, songA), "Playing")}

MCManualDocuments == {[song |-> songA, lines |-> TRUE, origin |-> "manual"]}

MCDisplaySourceLists == {<<"mpris", "adapter">>, <<"adapter">>}
===============================================================================
