---------------------------- MODULE MCAppLifecycle ----------------------------
(* A small instance of AppLifecycle: an instance and the one that replaces it, *)
(* or that is launched beside it.                                              *)
EXTENDS AppLifecycle

CONSTANTS i1, i2
===============================================================================
