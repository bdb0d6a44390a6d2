----------------------------- MODULE PlaybackFacts -----------------------------
(***************************************************************************)
(* The facts the parts of Kotonoha exchange: tracks, playback observations *)
(* and lyric documents (playback/models.py, lyrics/models.py), and the     *)
(* resolution derived from them (display/models.py).                       *)
(*                                                                         *)
(* A song stands for a title, artist, album and duration; None as a song   *)
(* is an empty title.  A playback position is represented by the playback  *)
(* identity it was measured on, because that is what the properties tell   *)
(* apart.  A lyric document is reduced to the song it is for, whether it   *)
(* has lines, and where it came from.                                      *)
(***************************************************************************)
CONSTANTS Adapters,   \* adapter ids
          Players,    \* player ids
          StableIds,  \* the player's own track ids
          Songs,      \* track metadata
          None        \* Python's None

Statuses == {"Playing", "Paused", "Stopped", "Unknown"}

Origins == {"adapter", "cider", "provider", "manual"}

Tracks == [adapter : Adapters, player : Players,
           stable : StableIds \cup {None}, song : Songs \cup {None}]

\* The playback identities PlaybackTrackKey distinguishes.
Keys == Adapters \X Players \X (StableIds \cup {None}) \X (Songs \cup {None})

Observations == [adapter : Adapters, player : Players,
                 track : Tracks \cup {None}, status : Statuses,
                 position : Keys \cup {None}]

Documents == [song : Songs \cup {None}, lines : BOOLEAN, origin : Origins]

\* TrackIdentity.track_ref: adapter-scoped, and None without a stable id.
TrackRef(track) ==
    IF track = None \/ track.stable = None THEN None
    ELSE <<track.adapter, track.player, track.stable>>

HasLyrics(document) == document # None /\ document.lines

\* The identity that invalidates the playback clock (PlaybackTrackKey).
TrackKey(obs) ==
    IF obs.track = None THEN <<obs.adapter, obs.player, None, None>>
    ELSE <<obs.adapter, obs.player, obs.track.stable, obs.track.song>>

\* ResolutionState.from_facts: the state of a completed snapshot.
FromFacts(obs, document) ==
    CASE HasLyrics(document) -> "Available"
      [] ~HasLyrics(document) /\ obs.track = None -> "NoTrack"
      [] OTHER -> "NotFound"

===============================================================================
