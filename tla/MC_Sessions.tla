----------------------------- MODULE MC_Sessions -----------------------------
(***************************************************************************)
(* Sessions for TLC: chats and staff are model values.  Two connect tasks  *)
(* are the bound: the second is the forced reconnect, the new file browser *)
(* or the connection another task or prompt is replaced by, which is what  *)
(* the properties of one chat are about.  MaxLive is 1 so that the cap is  *)
(* met.  Each .cfg names the work that users and staff do in it; what it   *)
(* leaves out cannot touch what its property looks at.                     *)
(***************************************************************************)
EXTENDS Sessions
=============================================================================
