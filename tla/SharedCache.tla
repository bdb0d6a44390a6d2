------------------------------- MODULE SharedCache -------------------------------
(***************************************************************************)
(* The cache of lyrics that the resolver and the two windows over it share *)
(* (app/composition.py builds one), with the providers it keeps answers    *)
(* of.                                                                     *)
(***************************************************************************)
EXTENDS LyricProviders

CONSTANTS InitCaches,    \* what it may hold when a session begins
          MaxFaults      \* bound on the failures of the cache and the providers

VARIABLE cache

===============================================================================
