------------------------------- MODULE MC_Sftp -------------------------------
(***************************************************************************)
(* Sftp for TLC: a page holds one or two entries, so that two or three *)
(* make two pages.                                                         *)
(***************************************************************************)
EXTENDS Sftp

(* "sub" is empty at first: a place of "top" may be none of "sub". *)
FirstContents == {[top |-> {Dir, Max(Files)}, sub |-> {}, nowhere |-> {}]}
=============================================================================
