---------------------------- MODULE MCMprisPlayback ----------------------------
(* A small instance of MprisPlayback: two players, a song, a video without an   *)
(* artist, and a track without a title.                                         *)
EXTENDS MprisPlayback

CONSTANTS p1, p2, song, video, artist

MCNames == <<p1, p2>>

Song == [title |-> song, artist |-> artist, id |-> None]
Video == [title |-> video, artist |-> None, id |-> None]
Untitled == [title |-> None, artist |-> artist, id |-> None]

\* The first player names no title at times, the second no artist.
MCReports == [p \in {p1, p2} |-> {Song, Empty, IF p = p1 THEN Untitled ELSE Video}]

Both(first, second) == [p \in {p1, p2} |-> IF p = p1 THEN first ELSE second]

Plays(info) == [status |-> "Playing", info |-> info]
Pauses(info) == [status |-> "Paused", info |-> info]

MCWorlds ==
    {Both(Plays(Song), Plays(Song)), Both(Plays(Song), Plays(Video)),
     Both(Pauses(Song), Plays(Empty)),
     Both(Plays(Untitled), Plays(Video)), Both(Plays(Untitled), Plays(Song))}
===============================================================================
