---------------------------- MODULE MC_Terminal ----------------------------
EXTENDS Terminal

(* The longest number of a switch, of which all four digits may be cut. *)
Mode1049 == {<<"1", "0", "4", "9">>}
=============================================================================
