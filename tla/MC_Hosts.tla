------------------------------- MODULE MC_Hosts -------------------------------
(* Hosts for TLC; the messages, the addresses and the keys are alike. *)
EXTENDS Hosts, TLC

Symmetry == Permutations(Msg) \cup Permutations(Addr) \cup Permutations(Key)
==============================================================================
