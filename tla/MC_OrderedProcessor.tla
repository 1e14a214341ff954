------------------------ MODULE MC_OrderedProcessor ------------------------
(***************************************************************************)
(* OrderedProcessor for TLC.  MaxUpdates bounds the updates that arrive;   *)
(* with fewer slots than updates a chat can fill the slots with its own    *)
(* waiting updates, the case EveryUpdateHandled is about.                  *)
(***************************************************************************)
EXTENDS OrderedProcessor
=============================================================================
