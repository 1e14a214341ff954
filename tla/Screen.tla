------------------------------- MODULE Screen -------------------------------
(***************************************************************************)
(* The screen of a terminal and its history (core/ssh_manager.py): what    *)
(* ScrollScreen and _on_alt_screen do, and the picture that render makes.  *)
(* A row holds one text or nothing; the column is left out.                *)
(***************************************************************************)
EXTENDS Naturals, Sequences

CONSTANTS
  Text,             \* what a row can hold
  Blank,            \* an empty row
  TERM_ROWS,        \* config: rows of the screen
  SCROLLBACK_LINES  \* config: rows of history

ASSUME ScreenAssumption ==
  /\ Blank \notin Text
  /\ TERM_ROWS \in Nat \ {0, 1} /\ SCROLLBACK_LINES \in Nat /\ SCROLLBACK_LINES >= TERM_ROWS

Row == Text \cup {Blank}
Empty == [y \in 1 .. TERM_ROWS |-> Blank]

ScreenState ==
  [rows : [1 .. TERM_ROWS -> Row], y : 1 .. TERM_ROWS, history : Seq(Row), alt : BOOLEAN]

New == [rows |-> Empty, y |-> 1, history |-> <<>>, alt |-> FALSE]

Newest(s, n) == IF Len(s) <= n THEN s ELSE SubSeq(s, Len(s) - n + 1, Len(s))

(* A bug: a full history takes nothing more. *)
Remember_Full(history, rows) ==
  SubSeq(history \o rows, 1, IF Len(history \o rows) < SCROLLBACK_LINES
                             THEN Len(history \o rows) ELSE SCROLLBACK_LINES)

(* deque(maxlen): the oldest rows make room. *)
Remember(history, rows) == Newest(history \o rows, SCROLLBACK_LINES)

Draw(s, text) == [s EXCEPT !.rows[s.y] = text]

(* A new line in the last row moves the first one into the history.  No    *)
(* scroll region is set.                                                   *)
Index(s) ==
  IF s.y < TERM_ROWS THEN [s EXCEPT !.y = @ + 1]
  ELSE [s EXCEPT !.history = Remember(@, <<s.rows[1]>>),
                 !.rows = [y \in 1 .. TERM_ROWS |->
                             IF y < TERM_ROWS THEN s.rows[y + 1] ELSE Blank]]

(* ESC [ 2 J; a full-screen program's clears the history too. *)
EraseDisplay(s) == [s EXCEPT !.rows = Empty, !.history = <<>>]

Reset(s) == [s EXCEPT !.rows = Empty, !.y = 1]

(* The rows down to the last one with text or the cursor. *)
ScreenLines(s) ==
  LET last == CHOOSE n \in s.y .. TERM_ROWS :
                /\ n = s.y \/ s.rows[n] # Blank
                /\ \A m \in n + 1 .. TERM_ROWS : s.rows[m] = Blank
  IN  [y \in 1 .. last |-> s.rows[y]]

OnAltScreen(s, entering) ==
  IF entering = s.alt THEN s
  ELSE IF entering
    THEN [Reset(s) EXCEPT !.history = Remember(@, ScreenLines(s)), !.alt = TRUE]
    ELSE [Reset(s) EXCEPT !.alt = FALSE]

(* The picture: outside full-screen programs history fills the room above, *)
(* and the cursor is drawn.                                                *)
Render(s) ==
  LET lines == ScreenLines(s)
      above == IF s.alt THEN <<>> ELSE Newest(s.history, TERM_ROWS - Len(lines))
  IN  [lines |-> above \o lines, cursor |-> IF s.alt THEN 0 ELSE Len(above) + s.y]

----------------------------------------------------------------------------
(* Output of the shell, piece by piece: a text, a new line, or an escape   *)
(* sequence, which is a sequence of characters.                            *)

CONSTANTS
  AltModes   \* digits of the private modes that switch screens: 1049, 1047, 47

(* The characters of a sequence: digits that occur, and the last ones. *)
Digit == {"0", "1", "2", "4", "5", "7", "9"}
Final == {"h", "l", "J"}

ASSUME OutputAssumption ==
  /\ "ESC" \notin Text /\ "LF" \notin Text
  /\ \A mode \in AltModes :
       /\ \E n \in 1 .. 4 : mode \in [1 .. n -> Digit]
       /\ mode # <<"2", "5">>

Csi == <<"ESC", "[">>
Switch(final) == {Csi \o <<"?">> \o mode \o <<final>> : mode \in AltModes}
Enters == Switch("h")
Exits == Switch("l")
NewLine == <<"LF">>
Clear == Csi \o <<"2", "J">>
HideCursor == Csi \o <<"?", "2", "5", "l">>

Piece == {<<t>> : t \in Text} \cup {NewLine, Clear, HideCursor} \cup Enters \cup Exits

(* What pyte does with a piece it has read to its end. *)
Interpret(s, piece) ==
  CASE piece \in {<<t>> : t \in Text} -> Draw(s, piece[1])
    [] piece = NewLine -> Index(s)
    [] piece = Clear -> EraseDisplay(s)
    [] OTHER -> s

(* The promise: a piece means the same wherever the output is cut. *)
After(s, piece) ==
  IF piece \in Enters \cup Exits THEN OnAltScreen(s, piece \in Enters)
  ELSE Interpret(s, piece)

AfterAll(s, pieces) ==
  LET next[x \in ScreenState \X Piece] == After(x[1], x[2])
      f[n \in 0 .. Len(pieces)] == IF n = 0 THEN s ELSE next[<<f[n - 1], pieces[n]>>]
  IN  f[Len(pieces)]
=============================================================================
