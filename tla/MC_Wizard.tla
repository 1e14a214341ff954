------------------------------ MODULE MC_Wizard ------------------------------
(* Wizard for TLC; the messages are alike. *)
EXTENDS Wizard, TLC

Symmetry == Permutations(Msg)
=============================================================================
