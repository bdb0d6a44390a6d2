-------------------------- MODULE MCTrackOffsetStore --------------------------
(* A small instance of TrackOffsetStore: two keys, and legacy rows two of    *)
(* which have the same identity in the second schema and one has none.       *)
EXTENDS TrackOffsetStore

CONSTANTS k1, k2

MCLegacyRows ==
    {[key |-> k1, at |-> 1, offset |-> 11], [key |-> k1, at |-> 2, offset |-> 12],
     [key |-> k2, at |-> 3, offset |-> 13], [key |-> NoKey, at |-> 4, offset |-> 14]}
===============================================================================
