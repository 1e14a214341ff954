----------------------------- MODULE MC_Accounts -----------------------------
(***************************************************************************)
(* Accounts for TLC.                                                       *)
(***************************************************************************)
EXTENDS Accounts

FewSent == [user |-> 2, admin |-> 2]
=============================================================================
