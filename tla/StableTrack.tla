------------------------------- MODULE StableTrack -------------------------------
(***************************************************************************)
(* What the playback coordinator of the local player promises to the lyric *)
(* workflow that listens to it (MprisLyrics): which track is committed, and*)
(* the last sample delivered.  A track is sighted before it is committed,  *)
(* no other is sighted in between, a sample that is not transitioning is of*)
(* the committed track, and no track is committed to twice in a row.       *)
(***************************************************************************)
CONSTANTS Keys,     \* playback identities: the player with the track
          NoKey

VARIABLES committed,
          last      \* [key, transitioning] of the last sample

Nothing == [key |-> NoKey, transitioning |-> FALSE]

Init == committed = NoKey /\ last = Nothing

\* Another track than the committed one is seen.
Sight(key) ==
    /\ key # committed
    /\ last' = [key |-> key, transitioning |-> TRUE]
    /\ UNCHANGED committed

\* The track sighted has settled.
Commit ==
    /\ last.transitioning
    /\ committed' = last.key
    /\ last' = [last EXCEPT !.transitioning = FALSE]

\* The committed track is seen.
Settled ==
    /\ committed # NoKey
    /\ last' = [key |-> committed, transitioning |-> FALSE]
    /\ UNCHANGED committed

\* The player is lost, or playback is stopped or started.
Forget == committed' = NoKey /\ last' = Nothing

Next == Commit \/ Settled \/ Forget \/ \E key \in Keys : Sight(key)

Spec == Init /\ [][Next]_<<committed, last>>
===============================================================================
