------------------------------ MODULE DurableEdits ------------------------------
(***************************************************************************)
(* What a service that keeps the user's edits promises: edits are counted, *)
(* and for every key there is the last edit made and the last edit saved.  *)
(* A save never goes back to an older edit and never invents one; while    *)
(* the service reports nothing to do, everything made is saved; and what   *)
(* is saved survives the end of the process.                               *)
(***************************************************************************)
EXTENDS Integers

CONSTANTS
    Keys,
    Fragile     \* the store may be destroyed from outside

VARIABLES
    made,       \* for every key, its last edit (0: none)
    saved,      \* for every key, the edit in the store
    settled     \* the service reports that nothing waits to be saved

vars == <<made, saved, settled>>

Init ==
    /\ made = [k \in Keys |-> 0]
    /\ saved = [k \in Keys |-> 0]
    /\ settled = TRUE

\* Some keys are edited.
Edit ==
    /\ made' \in [Keys -> Nat]
    /\ made' # made /\ \A k \in Keys : made'[k] >= made[k]
    /\ settled' = FALSE
    /\ UNCHANGED saved

\* Edits reach the store, or the service reports again.
Save ==
    /\ saved' \in [Keys -> Nat]
    /\ \A k \in Keys : saved[k] <= saved'[k] /\ saved'[k] <= made[k]
    /\ settled' \in BOOLEAN
    /\ settled' => saved' = made
    /\ UNCHANGED made

\* The process ends: what was not saved is lost, and nothing else.
End ==
    /\ made' = saved
    /\ settled' \in BOOLEAN
    /\ UNCHANGED saved

\* The store is destroyed from outside: nothing in it is saved any more.
Lose ==
    /\ Fragile
    /\ saved' = [k \in Keys |-> 0]
    /\ settled' = FALSE
    /\ UNCHANGED made

Next == Edit \/ Save \/ End \/ Lose

Spec == Init /\ [][Next]_vars
===============================================================================
