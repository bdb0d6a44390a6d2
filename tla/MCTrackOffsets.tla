---------------------------- MODULE MCTrackOffsets ----------------------------
(* A small instance of TrackOffsets: two lyric timelines, a few corrections. *)
EXTENDS TrackOffsets

CONSTANTS k1, k2
===============================================================================
