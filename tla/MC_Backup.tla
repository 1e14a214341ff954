------------------------------ MODULE MC_Backup ------------------------------
(* Backup for TLC: two requests that save a host beside one that makes a   *)
(* backup and one that restores one, all as model values.  One saver is    *)
(* not enough: a row must be able to wait on each side of the exchange.    *)
EXTENDS Backup
=============================================================================
