-------------------------- MODULE MCConfigPersistence --------------------------
(* A small instance of ConfigPersistence: the theme, which only the dialog     *)
(* changes, and the passthrough, which the tray changes too.                   *)
EXTENDS ConfigPersistence

CONSTANTS theme, passthrough
===============================================================================
