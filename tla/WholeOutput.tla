---------------------------- MODULE WholeOutput ----------------------------
(***************************************************************************)
(* What a terminal promises of its output: the pieces the shell wrote are  *)
(* shown whole, in order, each once, and in the end unless the connection  *)
(* is lost first.                                                          *)
(***************************************************************************)
EXTENDS Naturals, Sequences

CONSTANTS
  Piece,          \* what a shell writes
  New,            \* the screen at first
  AfterAll(_, _)  \* the screen after a sequence of pieces

VARIABLES
  queue,   \* pieces that are not on the screen yet
  screen

Init == queue = <<>> /\ screen = New

Writes == \E p \in Piece : queue' = Append(queue, p) /\ UNCHANGED screen

Shows == \E n \in 1 .. Len(queue) :
  /\ screen' = AfterAll(screen, SubSeq(queue, 1, n))
  /\ queue' = SubSeq(queue, n + 1, Len(queue))

Ends == queue' = <<>> /\ UNCHANGED screen

Next == Writes \/ Shows \/ Ends

Safe == Init /\ [][Next]_<<queue, screen>>
Live == WF_<<queue, screen>>(Shows)
Spec == Safe /\ Live
=============================================================================
