------------------------------ MODULE SharedDisplay ------------------------------
(***************************************************************************)
(* What the sources of lyrics share: the ownership coordinator that says   *)
(* who may publish (SourceOwnership) and the display they publish to       *)
(* (DisplayCoordinator), as app/composition.py builds them, one of each.   *)
(***************************************************************************)
EXTENDS PlaybackFacts, Naturals

CONSTANTS Connections, Snapshots, DisplaySourceLists, MaxSequence, MaxTick

VARIABLES own, disp

Gate == INSTANCE SourceOwnership

Screen == INSTANCE DisplayCoordinator

===============================================================================
