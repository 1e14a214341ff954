------------------------------ MODULE Terminal ------------------------------
(***************************************************************************)
(* One open terminal: TerminalSession reads its shell's output in chunks   *)
(* cut anywhere (core/ssh_manager.py:177-220), and the render loop of      *)
(* handlers/terminal.py:195-232 keeps a Telegram message like the screen.  *)
(* The two share the screen and the dirty flag, and interleave at awaits.  *)
(***************************************************************************)
EXTENDS Screen

CONSTANTS
  None,        \* the message says that the host is being connected to
  Gone,        \* the user deleted the message or blocked the bot
  MaxPieces,   \* bound: pieces the shell writes
  MaxAhead,    \* bound: pieces it writes ahead of the reader
  MaxFaults,   \* bound: edits that Telegram refuses or that time out
  MaxProgram   \* bound: pieces a full-screen program writes, in a property

VARIABLES
  wire,     \* pieces written and not wholly read
  read,     \* characters of the first of them that were read
  carry,    \* _carry: the start of what may be a switch of screens
  held,     \* pyte: the start of another escape sequence
  screen,
  closed,   \* _closed
  dirty,    \* _dirty
  loop,     \* the render loop: where it awaits, its text, its last_text
  message,  \* the picture in the live message
  written, faults,
  applied   \* an edit that timed out took effect, and none came after it

session == <<wire, read, carry, held, screen, closed>>
vars == <<session, dirty, loop, message, written, faults, applied>>

Init ==
  /\ wire = <<>> /\ read = 0 /\ carry = <<>> /\ held = <<>>
  /\ screen = New /\ closed = FALSE /\ dirty = TRUE
  /\ loop = [pc |-> "sleep", text |-> None, last |-> None]
  /\ message \in {None, Render(New)}
  /\ written = 0 /\ faults = 0 /\ applied = FALSE

----------------------------------------------------------------------------
(* The reader.                                                             *)

(* A bug: only up to the question mark. *)
IsPartial_NoDigits(s) == s \in {<<"ESC">>, Csi, Csi \o <<"?">>}

(* _PARTIAL_RE: ESC, ESC [, or ESC [ ? and up to four digits. *)
IsPartial(s) ==
  \/ s \in {<<"ESC">>, Csi}
  \/ /\ Len(s) \in 3 .. 7
     /\ SubSeq(s, 1, 3) = Csi \o <<"?">>
     /\ \A i \in 4 .. Len(s) : s[i] \in Digit

(* A bug: nothing is kept back. *)
PartialAt_None(data) == {Len(data) + 1}

(* Where the part to keep back begins: the place behind the end if nowhere. *)
PartialAt(data) ==
  LET starts == {i \in 1 .. Len(data) : IsPartial(SubSeq(data, i, Len(data)))}
  IN  IF starts = {} THEN {Len(data) + 1} ELSE starts

Char == {"ESC", "[", "?", "LF"} \cup Digit \cup Final \cup Text
FeedState == [screen : ScreenState, held : Seq(Char), upto : Nat]

(* pyte keeps a sequence until its last character comes. *)
Pyte(r, c) ==
  LET piece == Append(r.held, c)
  IN  IF piece[1] = "ESC" /\ c \notin Final THEN [r EXCEPT !.held = piece]
      ELSE [r EXCEPT !.held = <<>>, !.screen = Interpret(@, piece)]

(* finditer(_ALT_RE): switches are taken out, the rest is pyte's. *)
SwitchEnds(data, i) == {j \in i .. Len(data) : SubSeq(data, i, j) \in Enters \cup Exits}

Takes(r, data, i) ==
  IF i <= r.upto THEN r
  ELSE IF SwitchEnds(data, i) = {} THEN Pyte(r, data[i])
  ELSE LET j == CHOOSE j \in SwitchEnds(data, i) : TRUE
       IN  [r EXCEPT !.upto = j,
                     !.screen = OnAltScreen(@, SubSeq(data, i, j) \in Enters)]

Feed(data) ==
  LET next[x \in FeedState \X (1 .. Len(data))] == Takes(x[1], data, x[2])
      f[i \in 0 .. Len(data)] ==
        IF i = 0 THEN [screen |-> screen, held |-> held, upto |-> 0]
        ELSE next[<<f[i - 1], i>>]
  IN  f[Len(data)]

Characters(pieces) ==
  LET f[n \in 0 .. Len(pieces)] == IF n = 0 THEN <<>> ELSE f[n - 1] \o pieces[n]
  IN  f[Len(pieces)]

(* How many of the pieces are within the first n characters. *)
Whole(n) ==
  {k \in 0 .. Len(wire) :
     /\ Len(Characters(SubSeq(wire, 1, k))) <= n
     /\ k < Len(wire) => Len(Characters(SubSeq(wire, 1, k + 1))) > n}

(* A bug: the reader waits until eight characters came. *)
Chunks_Full ==
  LET all == Characters(wire)
  IN  {carry \o SubSeq(all, read + 1, to) : to \in read + 8 .. Len(all)}

(* What is kept back and a chunk that ends anywhere. *)
Chunks ==
  LET all == Characters(wire)
  IN  {carry \o SubSeq(all, read + 1, to) : to \in read + 1 .. Len(all)}

(* _read_loop and _feed. *)
Reads ==
  /\ ~closed
  /\ \E data \in Chunks :
       LET to == read + Len(data) - Len(carry)
       IN  /\ \E cut \in PartialAt(data) :
                /\ carry' = SubSeq(data, cut, Len(data))
                /\ \E fed \in {Feed(SubSeq(data, 1, cut - 1))} :
                     screen' = fed.screen /\ held' = fed.held
           /\ \E k \in Whole(to) :
                /\ wire' = SubSeq(wire, k + 1, Len(wire))
                /\ read' = to - Len(Characters(SubSeq(wire, 1, k)))
  /\ dirty' = TRUE
  /\ UNCHANGED <<closed, loop, message, written, faults, applied>>

Writes(p) ==
  /\ ~closed /\ written < MaxPieces /\ Len(wire) < MaxAhead
  /\ wire' = Append(wire, p)
  /\ written' = written + 1
  /\ UNCHANGED <<read, carry, held, screen, closed, dirty, loop, message, faults, applied>>

(* The shell ends, or the connection does, with what was not read. *)
Ends ==
  /\ ~closed
  /\ closed' = TRUE /\ dirty' = TRUE
  /\ wire' = <<>> /\ read' = 0
  /\ UNCHANGED <<carry, held, screen, loop, message, written, faults, applied>>

----------------------------------------------------------------------------
(* The render loop.                                                        *)

(* consume_dirty and _compose, without an await between them. *)
Wakes ==
  /\ loop.pc = "sleep" /\ ~closed /\ dirty
  /\ dirty' = FALSE
  /\ loop' = IF Render(screen) = loop.last THEN loop
             ELSE [loop EXCEPT !.pc = "edit", !.text = Render(screen)]
  /\ UNCHANGED <<session, message, written, faults, applied>>

Drawn == message # Gone /\ message' = loop.text /\ UNCHANGED faults

(* RetryAfter, TimedOut, NetworkError: an edit that timed out may be done. *)
Fault ==
  /\ message # Gone /\ faults < MaxFaults
  /\ faults' = faults + 1
  /\ message' \in {message, loop.text}

(* A bug: a failed edit is not tried again. *)
AfterFault_Forgets == dirty

AfterFault == TRUE

Edited ==
  /\ loop.pc = "edit"
  /\ Drawn
  /\ loop' = [loop EXCEPT !.pc = "sleep", !.last = loop.text]
  /\ applied' = FALSE
  /\ UNCHANGED <<session, dirty, written>>

EditFails ==
  /\ loop.pc = "edit"
  /\ Fault
  /\ dirty' = AfterFault
  /\ loop' = [loop EXCEPT !.pc = "sleep"]
  /\ applied' = (applied \/ message' # message)
  /\ UNCHANGED <<session, written>>

(* BadRequest is logged, and not tried again before more output comes;     *)
(* Forbidden (the bot is blocked) ends the loop.                           *)
Refused ==
  /\ loop.pc = "edit" /\ message = Gone
  /\ loop' \in {[loop EXCEPT !.pc = "sleep"], [loop EXCEPT !.pc = "crashed"]}
  /\ UNCHANGED <<session, dirty, message, written, faults, applied>>

(* close_with_notice draws once more; a failure is not tried again. *)
SeesEnd ==
  /\ loop.pc = "sleep" /\ closed
  /\ loop' = [loop EXCEPT !.pc = "close", !.text = Render(screen)]
  /\ UNCHANGED <<session, dirty, message, written, faults, applied>>

ClosesWithNotice ==
  /\ loop.pc = "close"
  /\ \/ Drawn /\ loop' = [loop EXCEPT !.pc = "done"]
     \/ Fault /\ loop' = [loop EXCEPT !.pc = "gaveUp"]
     \/ message = Gone /\ loop' = [loop EXCEPT !.pc = "done"] /\ UNCHANGED <<message, faults, applied>>
  /\ UNCHANGED <<session, dirty, written, applied>>

UserLeaves ==
  /\ message # Gone
  /\ message' = Gone
  /\ UNCHANGED <<session, dirty, loop, written, faults, applied>>

Loop == Wakes \/ Edited \/ EditFails \/ Refused \/ SeesEnd \/ ClosesWithNotice
Next == (\E p \in Piece : Writes(p)) \/ Reads \/ Ends \/ Loop \/ UserLeaves

(* Output is delivered, sleeps end, and Telegram answers. *)
Spec == Init /\ [][Next]_vars /\ WF_vars(Reads) /\ WF_vars(Loop)
----------------------------------------------------------------------------
(* Properties.                                                             *)

(* What was read of a piece that is cut is kept back in one place: by the  *)
(* reader if a switch may come of it, else by pyte, and nothing besides.   *)
Start(pieces, n) == IF pieces = <<>> THEN <<>> ELSE SubSeq(pieces[1], 1, n)
KeptOnce ==
  /\ wire \in Seq(Piece) /\ read \in Nat /\ screen \in ScreenState
  /\ wire = <<>> => read = 0
  /\ ~closed =>
       /\ wire # <<>> => read < Len(wire[1])
       /\ LET s == Start(wire, read)
          IN  IF IsPartial(s) THEN carry = s /\ held = <<>>
              ELSE carry = <<>> /\ held = s

(* Wherever the chunks are cut, each piece of output takes effect whole,   *)
(* in order and once (ssh_manager.py:190-204).                             *)
Promise == INSTANCE WholeOutput WITH queue <- wire
ChunksDoNotMatter == Promise!Safe

(* And it does so in the end, unless the connection is lost first.         *)
AllIsShown == Promise!Live

(* The docstring of _on_alt_screen, ssh_manager.py:206-208: when a         *)
(* full-screen program is left, the history is seen again.  Whatever the   *)
(* shell's screen was, if the program draws on its page only, the picture  *)
(* has the old rows above the new prompt.  The exceptions are programs     *)
(* that clear the page, which is not drawing (line 145), or scroll it:     *)
(* index does not look at alt_screen, and puts their rows into the history *)
(* (lines 137-141).                                                        *)
Drawing == {<<t>> : t \in Text} \cup {NewLine, HideCursor} \cup Enters
Programs == UNION {[1 .. n -> Drawing] : n \in 0 .. MaxProgram}

Scrolls(s, program) ==
  \E n \in 1 .. Len(program) :
    program[n] = NewLine /\ AfterAll(s, SubSeq(program, 1, n - 1)).y = TERM_ROWS

HistoryComesBack ==
  ~screen.alt =>
    \A enter \in Enters, exit \in Exits, program \in Programs :
      LET before == Render(screen).lines
          entered == After(screen, enter)
          after == Render(After(AfterAll(entered, program), exit))
      IN  ~Scrolls(entered, program) =>
            /\ after.lines = Append(Newest(before, TERM_ROWS - 1), Blank)
            /\ after.cursor = Len(after.lines)

(* The message shows the screen in the end, whatever edits fail and        *)
(* whatever arrives during one (terminal.py:195-242).  The exceptions: it  *)
(* is deleted; the last edit of a closed terminal fails, which is not      *)
(* repeated; or an edit took effect that timed out, of which last_text     *)
(* does not know, and the screen went back to what it was before.          *)
DrawnInTheEnd ==
  <>[](message \in {Gone, Render(screen)} \/ loop.pc = "gaveUp" \/ applied)
=============================================================================
