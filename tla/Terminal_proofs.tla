--------------------------- MODULE Terminal_proofs ---------------------------
(***************************************************************************)
(* Proofs about Terminal, for every set of texts, all modes of up to four  *)
(* digits that switch screens, every size of screen and history, and       *)
(* however much the shell writes.                                          *)
(*                                                                         *)
(* The reader sees characters, the promise is about pieces.  KeptOnce says *)
(* where the two meet between reads; that a read keeps it goes by where    *)
(* each piece lies among the characters (Layout), by pyte's state after    *)
(* each piece (PiecesFed), and by what can be left over (PartialAtIs,      *)
(* StartHeld).                                                             *)
(***************************************************************************)
EXTENDS Terminal, TLAPS, WellFoundedInduction, SequenceTheorems

-----------------------------------------------------------------------------
(* Induction over data, with a set for the predicate.                      *)

(* Every inhabited set of numbers has a least member.                      *)
LEMMA Least ==
  ASSUME NEW T, T \subseteq Nat, T # {}
  PROVE  \E m \in T : \A k \in T : m <= k
<1>. DEFINE R == OpToRel(<, Nat)
<1>1. IsWellFoundedOn(R, Nat)
  BY NatLessThanWellFounded
<1>2. ASSUME NEW x \in Nat, NEW y \in Nat, y < x
      PROVE  <<y, x>> \in R
  BY <1>2, Zenon DEF OpToRel
<1>. HIDE DEF R
<1>3. PICK m \in T : \A k \in T : ~(<<k, m>> \in R)
  BY <1>1, WFMin
<1>4. \A k \in T : ~(k < m)
  BY <1>2, <1>3
<1> QED
  BY <1>4

(* Induction over the numbers, for sets.                                   *)
LEMMA Induction ==
  ASSUME NEW T, 0 \in T, \A n \in Nat : n \in T => n + 1 \in T
  PROVE  Nat \subseteq T
<1>. DEFINE F == Nat \ T
<1>1. SUFFICES ASSUME F # {} PROVE FALSE
  OBVIOUS
<1>2. PICK m \in F : \A k \in F : m <= k
  <2>1. F \subseteq Nat
    OBVIOUS
  <2>. HIDE DEF F
  <2> QED
    BY <1>1, <2>1, Least
<1>3. m # 0 /\ m - 1 \in Nat /\ m - 1 \notin F
  BY <1>2
<1>4. (m - 1) + 1 \in T
  BY <1>3
<1> QED
  BY <1>2, <1>4

(* f applies next to start and the elements of ps in turn, within S.       *)
StaysIn(next, S, ps, n) == \A r \in S, i \in 1 .. n : next[<<r, ps[i]>>] \in S
IsFold(f, start, next, ps, n) ==
  f[0] = start /\ \A i \in 1 .. n : f[i] = next[<<f[i - 1], ps[i]>>]

(* A fold that stays within S exists, ...                                  *)
LEMMA Recursion ==
  ASSUME NEW S, NEW start \in S, NEW n \in Nat, NEW next, NEW ps, StaysIn(next, S, ps, n)
  PROVE  \E f \in [0 .. n -> S] : IsFold(f, start, next, ps, n)
<1>. USE DEF IsFold
<1>. DEFINE Rec(f, k) == f \in [0 .. k -> S] /\ IsFold(f, start, next, ps, k)
            T == {k \in Nat : k <= n => \E f : Rec(f, k)}
<1>1. 0 \in T
  <2>1. Rec([i \in 0 .. 0 |-> start], 0)
    OBVIOUS
  <2> QED
    BY <2>1
<1>2. ASSUME NEW k \in Nat, k \in T PROVE k + 1 \in T
  <2>1. SUFFICES ASSUME k + 1 <= n PROVE \E f : Rec(f, k + 1)
    OBVIOUS
  <2>2. PICK f : Rec(f, k)
    BY <1>2, <2>1
  <2>. DEFINE g == [i \in 0 .. k + 1 |-> IF i <= k THEN f[i] ELSE next[<<f[k], ps[k + 1]>>]]
  <2>3. next[<<f[k], ps[k + 1]>>] \in S
    BY <2>1, <2>2 DEF StaysIn
  <2>4. g \in [0 .. k + 1 -> S] /\ g[0] = start
    BY <2>2, <2>3
  <2>5. ASSUME NEW i \in 1 .. k + 1 PROVE g[i] = next[<<g[i - 1], ps[i]>>]
    <3>1. CASE i <= k
      <4>1. i \in 1 .. k /\ i - 1 \in 0 .. k
        BY <3>1
      <4>2. g[i] = f[i] /\ g[i - 1] = f[i - 1]
        BY <4>1
      <4>3. f[i] = next[<<f[i - 1], ps[i]>>]
        BY <2>2, <4>1
      <4>. HIDE DEF g
      <4> QED
        BY <4>2, <4>3
    <3>2. CASE i = k + 1
      <4>1. g[i - 1] = f[k] /\ g[i] = next[<<f[k], ps[k + 1]>>]
        BY <3>2
      <4>. HIDE DEF g
      <4> QED
        BY <3>2, <4>1
    <3> QED
      BY <3>1, <3>2
  <2> QED
    BY <2>4, <2>5
<1>3. Nat \subseteq T
  <2>. HIDE DEF T
  <2> QED
    BY <1>1, <1>2, Induction
<1> QED
  BY <1>3

(* ... and there is one only.                                              *)
LEMMA Unique ==
  ASSUME NEW n \in Nat, NEW next, NEW ps, NEW start, NEW f, NEW g,
         IsFold(f, start, next, ps, n), IsFold(g, start, next, ps, n)
  PROVE  \A i \in 0 .. n : f[i] = g[i]
<1>. DEFINE T == {i \in Nat : i <= n => f[i] = g[i]}
<1>1. 0 \in T
  BY DEF IsFold
<1>2. ASSUME NEW i \in Nat, i \in T PROVE i + 1 \in T
  <2>1. SUFFICES ASSUME i + 1 <= n PROVE f[i + 1] = g[i + 1]
    OBVIOUS
  <2>2. f[i] = g[i] /\ i + 1 \in 1 .. n /\ (i + 1) - 1 = i
    BY <1>2, <2>1
  <2> QED
    BY <2>2 DEF IsFold
<1>3. Nat \subseteq T
  <2>. HIDE DEF T
  <2> QED
    BY <1>1, <1>2, Induction
<1> QED
  BY <1>3

-----------------------------------------------------------------------------
(* Screens.                                                                *)

(* Every inhabited set of numbers below a bound has a greatest member.     *)
LEMMA Greatest ==
  ASSUME NEW b \in Nat, NEW T, T \subseteq 0 .. b, T # {}
  PROVE  \E m \in T : \A k \in T : k <= m
<1>. DEFINE R == {b - k : k \in T}
<1>1. R \subseteq Nat /\ R # {}
  <2>1. PICK k \in T : TRUE
    OBVIOUS
  <2>2. b - k \in R
    OBVIOUS
  <2>3. ASSUME NEW x \in R PROVE x \in Nat
    OBVIOUS
  <2> QED
    BY <2>2, <2>3
<1>2. PICK r \in R : \A x \in R : r <= x
  <2>. HIDE DEF R
  <2> QED
    BY <1>1, Least
<1>3. PICK m \in T : r = b - m
  BY <1>2
<1>4. ASSUME NEW k \in T PROVE k <= m
  <2>1. b - k \in R
    OBVIOUS
  <2>2. r <= b - k
    BY <1>2, <2>1
  <2> QED
    BY <1>3, <2>2
<1> QED
  BY <1>4

(* The newest n entries: at most n, and all of them when they fit.         *)
LEMMA NewestTyped ==
  ASSUME NEW S, NEW s \in Seq(S), NEW n \in Nat
  PROVE  /\ Newest(s, n) \in Seq(S)
         /\ Len(Newest(s, n)) = IF Len(s) <= n THEN Len(s) ELSE n
         /\ \A i \in 1 .. Len(Newest(s, n)) :
              Newest(s, n)[i] = s[Len(s) - Len(Newest(s, n)) + i]
<1>1. CASE Len(s) <= n
  BY <1>1 DEF Newest
<1>2. CASE ~(Len(s) <= n)
  BY <1>2 DEF Newest
<1> QED
  BY <1>1, <1>2

(* The lines of the picture end at the cursor or below it.                 *)
LEMMA ScreenLinesTyped ==
  ASSUME NEW s \in ScreenState
  PROVE  \E last \in s.y .. TERM_ROWS :
           /\ last = s.y \/ s.rows[last] # Blank
           /\ \A m \in last + 1 .. TERM_ROWS : s.rows[m] = Blank
           /\ ScreenLines(s) = [y \in 1 .. last |-> s.rows[y]]
           /\ ScreenLines(s) \in Seq(Row)
           /\ Len(ScreenLines(s)) = last
<1>. DEFINE Last(n) == /\ n = s.y \/ s.rows[n] # Blank
                       /\ \A m \in n + 1 .. TERM_ROWS : s.rows[m] = Blank
            N == {n \in s.y .. TERM_ROWS : n = s.y \/ s.rows[n] # Blank}
            last == CHOOSE n \in s.y .. TERM_ROWS : Last(n)
<1>1. /\ s.y \in 1 .. TERM_ROWS /\ TERM_ROWS \in Nat
      /\ s.rows \in [1 .. TERM_ROWS -> Row]
  BY ScreenAssumption DEF ScreenState
<1>2. N \subseteq 0 .. TERM_ROWS /\ N # {}
  BY <1>1
<1>3. PICK m \in N : \A k \in N : k <= m
  <2>. HIDE DEF N
  <2> QED
    BY <1>1, <1>2, Greatest
<1>4. m \in s.y .. TERM_ROWS /\ Last(m)
  <2>1. ASSUME NEW k \in m + 1 .. TERM_ROWS PROVE s.rows[k] = Blank
    <3>1. k \notin N /\ k \in s.y .. TERM_ROWS
      BY <1>1, <1>3
    <3> QED
      BY <3>1
  <2> QED
    BY <2>1
<1>5. last \in s.y .. TERM_ROWS /\ Last(last)
  <2>. HIDE DEF Last
  <2> QED
    BY <1>4
<1>6. ScreenLines(s) = [y \in 1 .. last |-> s.rows[y]]
  BY DEF ScreenLines
<1>. HIDE DEF last
<1>7. last \in Nat /\ \A y \in 1 .. last : s.rows[y] \in Row
  BY <1>1, <1>5
<1>8. ScreenLines(s) \in Seq(Row) /\ Len(ScreenLines(s)) = last
  BY <1>6, <1>7
<1> QED
  BY <1>5, <1>6, <1>8

(* The history stays a sequence of rows.                                   *)
LEMMA RememberTyped ==
  ASSUME NEW h \in Seq(Row), NEW l \in Seq(Row)
  PROVE  Remember(h, l) \in Seq(Row)
<1>1. h \o l \in Seq(Row) /\ SCROLLBACK_LINES \in Nat
  BY ScreenAssumption
<1> QED
  BY <1>1, NewestTyped DEF Remember

(* A reset keeps the history and the mode.                                 *)
LEMMA ResetIs ==
  ASSUME NEW s \in ScreenState
  PROVE  /\ Reset(s) \in ScreenState
         /\ Reset(s).rows = Empty /\ Reset(s).y = 1
         /\ Reset(s).history = s.history /\ Reset(s).alt = s.alt
<1>1. Empty \in [1 .. TERM_ROWS -> Row] /\ 1 \in 1 .. TERM_ROWS
  BY ScreenAssumption DEF Empty, Row
<1> QED
  BY <1>1 DEF Reset, ScreenState

(* Switching screens leaves a screen.                                      *)
LEMMA OnAltScreenIs ==
  ASSUME NEW s \in ScreenState, NEW entering \in BOOLEAN
  PROVE  /\ OnAltScreen(s, entering) \in ScreenState
         /\ entering = s.alt => OnAltScreen(s, entering) = s
         /\ OnAltScreen(s, entering).alt = entering
         /\ entering # s.alt =>
              /\ OnAltScreen(s, entering).rows = Empty
              /\ OnAltScreen(s, entering).y = 1
              /\ OnAltScreen(s, entering).history =
                   IF entering THEN Remember(s.history, ScreenLines(s)) ELSE s.history
<1>. DEFINE r == Reset(s)
            rows == Remember(s.history, ScreenLines(s))
<1>1. s.history \in Seq(Row) /\ ScreenLines(s) \in Seq(Row) /\ s.alt \in BOOLEAN
  BY ScreenLinesTyped DEF ScreenState
<1>2. rows \in Seq(Row)
  BY <1>1, RememberTyped
<1>3. /\ r \in ScreenState /\ r.rows = Empty /\ r.y = 1
      /\ r.history = s.history /\ r.alt = s.alt
  BY ResetIs
<1>4. entering = s.alt => OnAltScreen(s, entering) = s
  BY DEF OnAltScreen
<1>5. entering /\ ~s.alt => OnAltScreen(s, entering) = [r EXCEPT !.history = rows, !.alt = TRUE]
  BY <1>1, <1>3 DEF OnAltScreen
<1>6. ~entering /\ s.alt => OnAltScreen(s, entering) = [r EXCEPT !.alt = FALSE]
  BY <1>1 DEF OnAltScreen
<1>. HIDE DEF r, rows
<1>7. CASE entering = s.alt
  BY <1>4, <1>7
<1>8. CASE entering /\ ~s.alt
  BY <1>2, <1>3, <1>5, <1>8 DEF ScreenState, rows
<1>9. CASE ~entering /\ s.alt
  BY <1>3, <1>6, <1>9 DEF ScreenState
<1> QED
  BY <1>1, <1>7, <1>8, <1>9

(* On entering, the lines of the screen go to the history.                 *)
LEMMA EntersAltScreen ==
  ASSUME NEW s \in ScreenState
  PROVE  /\ OnAltScreen(s, TRUE) \in ScreenState
         /\ s.alt => OnAltScreen(s, TRUE) = s
         /\ ~s.alt => /\ OnAltScreen(s, TRUE).alt
                      /\ OnAltScreen(s, TRUE).rows = Empty
                      /\ OnAltScreen(s, TRUE).y = 1
                      /\ OnAltScreen(s, TRUE).history = Remember(s.history, ScreenLines(s))
<1>1. s.alt \in BOOLEAN /\ TRUE \in BOOLEAN
  BY DEF ScreenState
<1>2. s.alt => TRUE = s.alt
  BY <1>1
<1>3. ~s.alt => TRUE # s.alt
  BY <1>1
<1>4. (IF TRUE THEN Remember(s.history, ScreenLines(s)) ELSE s.history)
        = Remember(s.history, ScreenLines(s))
  OBVIOUS
<1> QED
  BY <1>1, <1>2, <1>3, <1>4, OnAltScreenIs, Zenon

(* On leaving, the screen is empty, and the history stays.                 *)
LEMMA LeavesAltScreen ==
  ASSUME NEW s \in ScreenState
  PROVE  /\ OnAltScreen(s, FALSE) \in ScreenState
         /\ ~s.alt => OnAltScreen(s, FALSE) = s
         /\ s.alt => /\ ~OnAltScreen(s, FALSE).alt
                     /\ OnAltScreen(s, FALSE).rows = Empty
                     /\ OnAltScreen(s, FALSE).y = 1
                     /\ OnAltScreen(s, FALSE).history = s.history
<1>1. s.alt \in BOOLEAN /\ FALSE \in BOOLEAN
  BY DEF ScreenState
<1>2. ~s.alt => FALSE = s.alt
  BY <1>1
<1>3. s.alt => FALSE # s.alt
  BY <1>1
<1>4. (IF FALSE THEN Remember(s.history, ScreenLines(s)) ELSE s.history) = s.history
  OBVIOUS
<1> QED
  BY <1>1, <1>2, <1>3, <1>4, OnAltScreenIs, Zenon

(* What pyte does, by the kind of piece.                                   *)
LEMMA InterpretIs ==
  ASSUME NEW s, NEW p
  PROVE  /\ \A t \in Text : p = <<t>> => Interpret(s, p) = Draw(s, t)
         /\ p = NewLine => Interpret(s, p) = Index(s)
         /\ p = Clear => Interpret(s, p) = EraseDisplay(s)
         /\ p \notin {<<t>> : t \in Text} \cup {NewLine, Clear} => Interpret(s, p) = s
<1>. DEFINE texts == {<<t>> : t \in Text}
<1>1. NewLine \notin texts
  BY OutputAssumption DEF NewLine
<1>2. Clear \notin texts /\ Clear # NewLine
  <2>1. Len(Clear) = 4 /\ Len(NewLine) = 1 /\ \A t \in Text : Len(<<t>>) = 1
    BY DEF Clear, Csi, NewLine
  <2> QED
    BY <2>1
<1>3. \A t \in Text : <<t>> \in texts /\ <<t>>[1] = t
  OBVIOUS
<1>. HIDE DEF texts
<1>4. Interpret(s, p) = CASE p \in texts -> Draw(s, p[1])
                          [] p = NewLine -> Index(s)
                          [] p = Clear -> EraseDisplay(s)
                          [] OTHER -> s
  BY DEF Interpret, texts
<1>5. ASSUME NEW t \in Text, p = <<t>> PROVE Interpret(s, p) = Draw(s, t)
  <2>1. p \in texts /\ p # NewLine /\ p # Clear /\ p[1] = t
    BY <1>1, <1>2, <1>3, <1>5
  <2> QED
    BY <1>4, <2>1
<1>6. ASSUME p = NewLine PROVE Interpret(s, p) = Index(s)
  BY <1>1, <1>2, <1>4, <1>6
<1>7. ASSUME p = Clear PROVE Interpret(s, p) = EraseDisplay(s)
  BY <1>1, <1>2, <1>4, <1>7
<1>8. ASSUME p \notin texts, p # NewLine, p # Clear PROVE Interpret(s, p) = s
  BY <1>4, <1>8
<1> QED
  BY <1>5, <1>6, <1>7, <1>8 DEF texts

(* Whatever pyte reads leaves a screen.                                    *)
LEMMA InterpretTyped ==
  ASSUME NEW s \in ScreenState, NEW p
  PROVE  Interpret(s, p) \in ScreenState
<1>1. CASE p \in {<<t>> : t \in Text}
  <2>1. PICK t \in Text : p = <<t>>
    BY <1>1
  <2>2. Interpret(s, p) = Draw(s, t)
    BY <2>1, InterpretIs
  <2> QED
    BY <2>2 DEF Draw, ScreenState, Row
<1>2. CASE p = NewLine
  <2>1. Interpret(s, p) = Index(s)
    BY <1>2, InterpretIs
  <2>2. CASE s.y < TERM_ROWS
    BY <2>1, <2>2, ScreenAssumption DEF Index, ScreenState
  <2>3. CASE ~(s.y < TERM_ROWS)
    <3>1. s.rows[1] \in Row /\ s.history \in Seq(Row)
      BY ScreenAssumption DEF ScreenState
    <3>2. Remember(s.history, <<s.rows[1]>>) \in Seq(Row)
      BY <3>1, RememberTyped
    <3>3. [y \in 1 .. TERM_ROWS |-> IF y < TERM_ROWS THEN s.rows[y + 1] ELSE Blank]
            \in [1 .. TERM_ROWS -> Row]
      BY ScreenAssumption DEF ScreenState, Row
    <3> QED
      BY <2>1, <2>3, <3>2, <3>3 DEF Index, ScreenState
  <2> QED
    BY <2>2, <2>3
<1>3. CASE p = Clear
  <2>1. Empty \in [1 .. TERM_ROWS -> Row] /\ <<>> \in Seq(Row)
    BY DEF Empty, Row
  <2>2. Interpret(s, p) = EraseDisplay(s)
    BY <1>3, InterpretIs
  <2> QED
    BY <2>1, <2>2 DEF EraseDisplay, ScreenState
<1>4. CASE p \notin {<<t>> : t \in Text} \cup {NewLine, Clear}
  BY <1>4, InterpretIs
<1> QED
  BY <1>1, <1>2, <1>3, <1>4

(* So does every piece of output.                                          *)
LEMMA AfterTyped ==
  ASSUME NEW s \in ScreenState, NEW p
  PROVE  After(s, p) \in ScreenState
<1>1. (p \in Enters) \in BOOLEAN
  OBVIOUS
<1> QED
  BY <1>1, OnAltScreenIs, InterpretTyped DEF After

(* The screen after a sequence is reached piece by piece.                  *)
LEMMA AfterAllFolds ==
  ASSUME NEW s \in ScreenState, NEW ps \in Seq(Piece)
  PROVE  \E f \in [0 .. Len(ps) -> ScreenState] :
           /\ f[0] = s
           /\ \A i \in 1 .. Len(ps) : f[i] = After(f[i - 1], ps[i])
           /\ AfterAll(s, ps) = f[Len(ps)]
<1>. DEFINE n == Len(ps)
            next == [x \in ScreenState \X Piece |-> After(x[1], x[2])]
            Rec(f) == f = [i \in 0 .. n |-> IF i = 0 THEN s ELSE next[<<f[i - 1], ps[i]>>]]
            h == CHOOSE f : Rec(f)
<1>1. n \in Nat /\ \A i \in 1 .. n : ps[i] \in Piece
  OBVIOUS
<1>2. \A r \in ScreenState, p \in Piece : next[<<r, p>>] = After(r, p)
  OBVIOUS
<1>3. AfterAll(s, ps) = h[n]
  BY DEF AfterAll
<1>. HIDE DEF next
<1>4. StaysIn(next, ScreenState, ps, n)
  BY <1>1, <1>2, AfterTyped DEF StaysIn
<1>5. PICK g \in [0 .. n -> ScreenState] : IsFold(g, s, next, ps, n)
  <2>. HIDE DEF n
  <2> QED
    BY <1>1, <1>4, Recursion
<1>6. Rec(g)
  BY <1>1, <1>5 DEF IsFold
<1>7. Rec(h)
  <2>. HIDE DEF Rec
  <2> QED
    BY <1>6
<1>. HIDE DEF h
<1>8. IsFold(h, s, next, ps, n)
  BY <1>1, <1>7 DEF IsFold
<1>9. \A i \in 0 .. n : g[i] = h[i]
  <2>. HIDE DEF n
  <2> QED
    BY <1>1, <1>5, <1>8, Unique
<1>10. ASSUME NEW i \in 1 .. n PROVE g[i] = After(g[i - 1], ps[i])
  <2>1. g[i - 1] \in ScreenState
    BY <1>1
  <2> QED
    BY <1>1, <1>2, <1>5, <2>1 DEF IsFold
<1>11. h[n] = g[n]
  BY <1>1, <1>9
<1>12. g[0] = s
  BY <1>5 DEF IsFold
<1> QED
  BY <1>3, <1>10, <1>11, <1>12

(* Every way of reaching it piece by piece agrees.                         *)
LEMMA AfterAllIs ==
  ASSUME NEW s \in ScreenState, NEW ps \in Seq(Piece),
         NEW f \in [0 .. Len(ps) -> ScreenState], f[0] = s,
         \A i \in 1 .. Len(ps) : f[i] = After(f[i - 1], ps[i])
  PROVE  AfterAll(s, ps) = f[Len(ps)]
<1>. DEFINE n == Len(ps)
            next == [x \in ScreenState \X Piece |-> After(x[1], x[2])]
<1>1. n \in Nat /\ \A i \in 1 .. n : ps[i] \in Piece
  OBVIOUS
<1>2. \A r \in ScreenState, p \in Piece : next[<<r, p>>] = After(r, p)
  OBVIOUS
<1>. HIDE DEF next
<1>3. PICK g \in [0 .. n -> ScreenState] :
        /\ g[0] = s
        /\ \A i \in 1 .. n : g[i] = After(g[i - 1], ps[i])
        /\ AfterAll(s, ps) = g[n]
  BY AfterAllFolds
<1>4. ASSUME NEW h \in [0 .. n -> ScreenState], h[0] = s,
             \A i \in 1 .. n : h[i] = After(h[i - 1], ps[i])
      PROVE  IsFold(h, s, next, ps, n)
  <2>1. ASSUME NEW i \in 1 .. n PROVE h[i] = next[<<h[i - 1], ps[i]>>]
    <3>1. h[i - 1] \in ScreenState /\ ps[i] \in Piece
      BY <1>1
    <3> QED
      BY <1>2, <1>4, <3>1
  <2> QED
    BY <1>4, <2>1 DEF IsFold
<1>5. IsFold(f, s, next, ps, n) /\ IsFold(g, s, next, ps, n)
  BY <1>3, <1>4
<1>6. \A i \in 0 .. n : f[i] = g[i]
  <2>. HIDE DEF n
  <2> QED
    BY <1>1, <1>5, Unique
<1> QED
  BY <1>1, <1>3, <1>6

(* One run of screens serves all the prefixes of a sequence.               *)
LEMMA AfterAllPrefixes ==
  ASSUME NEW s \in ScreenState, NEW ps \in Seq(Piece)
  PROVE  \E f \in [0 .. Len(ps) -> ScreenState] :
           /\ f[0] = s
           /\ \A i \in 1 .. Len(ps) : f[i] = After(f[i - 1], ps[i])
           /\ \A k \in 0 .. Len(ps) : AfterAll(s, SubSeq(ps, 1, k)) = f[k]
<1>1. PICK f \in [0 .. Len(ps) -> ScreenState] :
        /\ f[0] = s
        /\ \A i \in 1 .. Len(ps) : f[i] = After(f[i - 1], ps[i])
  BY AfterAllFolds
<1>2. ASSUME NEW k \in 0 .. Len(ps) PROVE AfterAll(s, SubSeq(ps, 1, k)) = f[k]
  <2>. DEFINE q == SubSeq(ps, 1, k)
              g == [i \in 0 .. k |-> f[i]]
  <2>1. /\ q \in Seq(Piece) /\ Len(q) = k /\ k \in Nat
        /\ \A i \in 1 .. k : q[i] = ps[i]
    OBVIOUS
  <2>2. g \in [0 .. k -> ScreenState] /\ g[0] = s /\ g[k] = f[k]
    BY <1>1
  <2>3. ASSUME NEW i \in 1 .. k PROVE g[i] = After(g[i - 1], q[i])
    <3>1. i \in 1 .. Len(ps) /\ g[i] = f[i] /\ g[i - 1] = f[i - 1] /\ q[i] = ps[i]
      BY <2>1
    <3>. HIDE DEF g, q
    <3> QED
      BY <1>1, <3>1
  <2>. HIDE DEF g, q
  <2>4. AfterAll(s, q) = g[Len(q)]
    BY <2>1, <2>2, <2>3, AfterAllIs
  <2> QED
    BY <2>1, <2>2, <2>4 DEF q
<1> QED
  BY <1>1, <1>2

(* Forgetting twice is forgetting the more.                                *)
LEMMA NewestOfNewest ==
  ASSUME NEW S, NEW q \in Seq(S), NEW a \in Nat, NEW b \in Nat, b <= a
  PROVE  Newest(Newest(q, a), b) = Newest(q, b)
<1>. DEFINE p == Newest(q, a)
            l == Newest(p, b)
            r == Newest(q, b)
<1>1. /\ p \in Seq(S) /\ Len(p) = (IF Len(q) <= a THEN Len(q) ELSE a)
      /\ \A i \in 1 .. Len(p) : p[i] = q[Len(q) - Len(p) + i]
  BY NewestTyped
<1>2. /\ r \in Seq(S) /\ Len(r) = (IF Len(q) <= b THEN Len(q) ELSE b)
      /\ \A i \in 1 .. Len(r) : r[i] = q[Len(q) - Len(r) + i]
  BY NewestTyped
<1>3. /\ l \in Seq(S) /\ Len(l) = (IF Len(p) <= b THEN Len(p) ELSE b)
      /\ \A i \in 1 .. Len(l) : l[i] = p[Len(p) - Len(l) + i]
  <2>. HIDE DEF p
  <2> QED
    BY <1>1, NewestTyped
<1>. HIDE DEF p, l, r
<1>4. /\ Len(q) \in Nat /\ Len(p) \in Nat /\ Len(l) \in Nat
      /\ Len(l) = Len(r) /\ Len(p) <= Len(q) /\ Len(l) <= Len(p)
  <2>1. Len(q) \in Nat
    OBVIOUS
  <2>2. Len(p) = (IF Len(q) <= a THEN Len(q) ELSE a) /\ Len(r) = (IF Len(q) <= b THEN Len(q) ELSE b)
    BY <1>1, <1>2
  <2>3. Len(l) = (IF Len(p) <= b THEN Len(p) ELSE b)
    BY <1>3
  <2> QED
    BY <2>1, <2>2, <2>3
<1>5. ASSUME NEW i \in 1 .. Len(l) PROVE l[i] = r[i]
  <2>1. Len(p) - Len(l) + i \in 1 .. Len(p)
    BY <1>4
  <2>2. l[i] = q[Len(q) - Len(p) + (Len(p) - Len(l) + i)]
    BY <1>1, <1>3, <2>1
  <2>3. Len(q) - Len(p) + (Len(p) - Len(l) + i) = Len(q) - Len(r) + i
    BY <1>4
  <2> QED
    BY <1>2, <1>4, <2>2, <2>3
<1>6. l = r
  BY <1>2, <1>3, <1>4, <1>5, SeqEqual
<1> QED
  BY <1>6 DEF l, r, p

(* The new lines push out as many old ones.                                *)
LEMMA NewestOfConcatenation ==
  ASSUME NEW S, NEW h \in Seq(S), NEW l \in Seq(S), NEW n \in Nat, Len(l) <= n
  PROVE  Newest(h \o l, n) = Newest(h, n - Len(l)) \o l
<1>. DEFINE m == n - Len(l)
            q == h \o l
            p == Newest(h, m)
            x == Newest(q, n)
            y == p \o l
<1>1. /\ m \in Nat /\ Len(l) \in Nat /\ Len(h) \in Nat
      /\ q \in Seq(S) /\ Len(q) = Len(h) + Len(l)
      /\ \A i \in 1 .. Len(h) + Len(l) : q[i] = IF i <= Len(h) THEN h[i] ELSE l[i - Len(h)]
  BY ConcatProperties
<1>2. /\ p \in Seq(S) /\ Len(p) = (IF Len(h) <= m THEN Len(h) ELSE m)
      /\ \A i \in 1 .. Len(p) : p[i] = h[Len(h) - Len(p) + i]
  BY <1>1, NewestTyped
<1>3. /\ x \in Seq(S) /\ Len(x) = (IF Len(q) <= n THEN Len(q) ELSE n)
      /\ \A i \in 1 .. Len(x) : x[i] = q[Len(q) - Len(x) + i]
  <2>. HIDE DEF q
  <2> QED
    BY <1>1, NewestTyped
<1>4. /\ y \in Seq(S) /\ Len(y) = Len(p) + Len(l)
      /\ \A i \in 1 .. Len(p) + Len(l) : y[i] = IF i <= Len(p) THEN p[i] ELSE l[i - Len(p)]
  <2>. HIDE DEF p
  <2> QED
    BY <1>2, ConcatProperties
<1>5. m + Len(l) = n
  BY <1>1
<1>. HIDE DEF m, q, p, x, y
<1>6. /\ Len(p) \in Nat /\ Len(h) \in Nat /\ Len(l) \in Nat /\ Len(x) \in Nat
      /\ Len(p) <= Len(h) /\ Len(x) = Len(p) + Len(l) /\ Len(x) = Len(y)
      /\ Len(q) = Len(h) + Len(l)
  <2>1. /\ Len(p) = (IF Len(h) <= m THEN Len(h) ELSE m)
        /\ Len(x) = (IF Len(q) <= n THEN Len(q) ELSE n)
        /\ Len(y) = Len(p) + Len(l) /\ Len(q) = Len(h) + Len(l)
    BY <1>1, <1>2, <1>3, <1>4
  <2>2. m \in Nat /\ Len(l) \in Nat /\ Len(h) \in Nat
    BY <1>1
  <2> QED
    BY <1>5, <2>1, <2>2
<1>7. ASSUME NEW i \in 1 .. Len(x) PROVE x[i] = y[i]
  <2>1. x[i] = q[Len(h) - Len(p) + i] /\ Len(h) - Len(p) + i \in 1 .. Len(h) + Len(l)
    <3>1. Len(h) - Len(p) + i \in 1 .. Len(h) + Len(l)
      BY <1>6
    <3>2. Len(q) - Len(x) + i = Len(h) - Len(p) + i
      BY <1>6
    <3> QED
      BY <1>3, <3>1, <3>2
  <2>2. CASE i <= Len(p)
    <3>1. x[i] = h[Len(h) - Len(p) + i]
      BY <1>1, <1>6, <2>1, <2>2
    <3>2. i \in 1 .. Len(p)
      BY <1>6, <2>2
    <3> QED
      BY <1>1, <1>2, <1>4, <1>6, <2>2, <3>1, <3>2
  <2>3. CASE ~(i <= Len(p))
    <3>1. x[i] = l[Len(h) - Len(p) + i - Len(h)]
      BY <1>1, <1>6, <2>1, <2>3
    <3>2. Len(h) - Len(p) + i - Len(h) = i - Len(p)
      BY <1>1, <1>6
    <3> QED
      BY <1>1, <1>4, <1>6, <2>3, <3>1, <3>2
  <2> QED
    BY <2>2, <2>3
<1>8. x = y
  BY <1>3, <1>4, <1>6, <1>7, SeqEqual
<1> QED
  BY <1>8 DEF x, y, p, q, m

-----------------------------------------------------------------------------
(* Pieces of output.                                                       *)

(* The pieces of fixed text, written out.                                  *)
LEMMA Literals ==
  /\ Csi \o <<"?">> = <<"ESC", "[", "?">>
  /\ Clear = <<"ESC", "[", "2", "J">>
  /\ HideCursor = <<"ESC", "[", "?", "2", "5", "l">>
<1>. DEFINE S == {"ESC", "[", "?", "2", "5", "l", "J"}
<1>1. /\ <<"ESC", "[">> \in Seq(S) /\ <<"?">> \in Seq(S) /\ <<"2", "J">> \in Seq(S)
      /\ <<"?", "2", "5", "l">> \in Seq(S)
  OBVIOUS
<1>. HIDE DEF S
<1>2. Csi \o <<"?">> = <<"ESC", "[", "?">>
  <2>. DEFINE q == Csi \o <<"?">>
  <2>1. /\ q \in Seq(S) /\ Len(q) = 3
        /\ q[1] = "ESC" /\ q[2] = "[" /\ q[3] = "?"
    BY <1>1, ConcatProperties DEF Csi
  <2>. HIDE DEF q
  <2>2. q = <<q[1], q[2], q[3]>>
    BY <2>1
  <2> QED
    BY <2>1, <2>2 DEF q
<1>3. Clear = <<"ESC", "[", "2", "J">>
  <2>. DEFINE q == Csi \o <<"2", "J">>
  <2>1. /\ q \in Seq(S) /\ Len(q) = 4
        /\ q[1] = "ESC" /\ q[2] = "[" /\ q[3] = "2" /\ q[4] = "J"
    BY <1>1, ConcatProperties DEF Csi
  <2>. HIDE DEF q
  <2>2. q = <<q[1], q[2], q[3], q[4]>>
    BY <2>1
  <2> QED
    BY <2>1, <2>2 DEF q, Clear
<1>4. HideCursor = <<"ESC", "[", "?", "2", "5", "l">>
  <2>. DEFINE q == Csi \o <<"?", "2", "5", "l">>
  <2>1. /\ q \in Seq(S) /\ Len(q) = 6
        /\ q[1] = "ESC" /\ q[2] = "[" /\ q[3] = "?" /\ q[4] = "2" /\ q[5] = "5" /\ q[6] = "l"
    BY <1>1, ConcatProperties DEF Csi
  <2>. HIDE DEF q
  <2>2. q = <<q[1], q[2], q[3], q[4], q[5], q[6]>>
    BY <2>1
  <2> QED
    BY <2>1, <2>2 DEF q, HideCursor
<1> QED
  BY <1>2, <1>3, <1>4

(* The shape of a switch of screens; no mode is that of the cursor.        *)
LEMMA SwitchIs ==
  ASSUME NEW final \in {"h", "l"}, NEW p \in Switch(final)
  PROVE  /\ p \in Seq(Char) /\ Len(p) \in 5 .. 8
         /\ p[1] = "ESC" /\ p[2] = "[" /\ p[3] = "?"
         /\ \A i \in 4 .. Len(p) - 1 : p[i] \in Digit
         /\ p[Len(p)] = final
         /\ ~(Len(p) = 6 /\ p[4] = "2" /\ p[5] = "5")
<1>1. PICK m \in AltModes : p = Csi \o <<"?">> \o m \o <<final>>
  BY DEF Switch
<1>2. PICK n \in 1 .. 4 : m \in [1 .. n -> Digit]
  BY OutputAssumption
<1>3. m \in Seq(Digit) /\ Len(m) = n /\ m # <<"2", "5">>
  <2>1. m \in Seq(Digit) /\ Len(m) = n
    BY <1>2
  <2>2. m # <<"2", "5">>
    BY OutputAssumption
  <2> QED
    BY <2>1, <2>2
<1>. DEFINE q == <<"ESC", "[", "?">>
<1>4. p = (q \o m) \o <<final>>
  BY <1>1 DEF Csi
<1>5. q \in Seq(Char) /\ m \in Seq(Char) /\ <<final>> \in Seq(Char)
  BY <1>3 DEF Char, Final
<1>6. /\ q \o m \in Seq(Char) /\ Len(q \o m) = 3 + n
      /\ \A i \in 1 .. 3 + n : (q \o m)[i] = IF i <= 3 THEN q[i] ELSE m[i - 3]
  BY <1>3, <1>5, ConcatProperties
<1>7. /\ p \in Seq(Char) /\ Len(p) = 4 + n
      /\ \A i \in 1 .. 4 + n : p[i] = IF i <= 3 + n THEN (q \o m)[i] ELSE final
  <2>. DEFINE r == q \o m
  <2>1. r \in Seq(Char) /\ Len(r) = 3 + n
    BY <1>6
  <2>2. /\ r \o <<final>> \in Seq(Char) /\ Len(r \o <<final>>) = 3 + n + 1
        /\ \A i \in 1 .. 3 + n + 1 :
             (r \o <<final>>)[i] = IF i <= 3 + n THEN r[i] ELSE <<final>>[i - (3 + n)]
    <3>. HIDE DEF r
    <3> QED
      BY <1>5, <2>1, ConcatProperties
  <2>3. p = r \o <<final>>
    BY <1>4
  <2>. HIDE DEF r
  <2>4. ASSUME NEW i \in 1 .. 4 + n PROVE p[i] = IF i <= 3 + n THEN r[i] ELSE final
    BY <2>2, <2>3
  <2> QED
    BY <2>2, <2>3, <2>4 DEF r
<1>8. p[1] = "ESC" /\ p[2] = "[" /\ p[3] = "?"
  BY <1>6, <1>7
<1>9. ASSUME NEW i \in 4 .. Len(p) - 1 PROVE p[i] = m[i - 3] /\ p[i] \in Digit
  BY <1>2, <1>6, <1>7
<1>10. p[Len(p)] = final
  BY <1>7
<1>11. ASSUME Len(p) = 6, p[4] = "2", p[5] = "5" PROVE FALSE
  <2>1. n = 2
    <3>1. Len(p) = 4 + n /\ n \in Nat
      BY <1>7
    <3>2. 4 + n = 6
      BY <1>11, <3>1
    <3> QED
      BY <3>1, <3>2
  <2>2. m[1] = "2" /\ m[2] = "5"
    BY <1>7, <1>9, <1>11, <2>1
  <2>3. m = <<"2", "5">>
    BY <1>2, <2>1, <2>2
  <2> QED
    BY <1>3, <2>3
<1> QED
  BY <1>7, <1>8, <1>9, <1>10, <1>11

(* No switch both enters and leaves.                                       *)
LEMMA SwitchesDiffer ==
  Enters \cap Exits = {}
<1>1. SUFFICES ASSUME NEW p \in Enters, p \in Exits PROVE FALSE
  OBVIOUS
<1>2. p[Len(p)] = "h"
  BY SwitchIs DEF Enters
<1>3. p[Len(p)] = "l"
  BY <1>1, SwitchIs DEF Exits
<1> QED
  BY <1>2, <1>3

(* Hiding the cursor is no switch, though it looks like one at first.      *)
LEMMA HideCursorSwitchesNothing ==
  HideCursor \notin Enters \cup Exits
<1>1. SUFFICES ASSUME NEW final \in {"h", "l"}, HideCursor \in Switch(final) PROVE FALSE
  BY DEF Enters, Exits
<1>2. Len(HideCursor) = 6 /\ HideCursor[4] = "2" /\ HideCursor[5] = "5"
  BY Literals
<1> QED
  BY <1>1, <1>2, SwitchIs

(* A program that draws does not leave.                                    *)
LEMMA DrawingIsNoExit ==
  Drawing \cap Exits = {}
<1>1. SUFFICES ASSUME NEW p \in Drawing, p \in Exits PROVE FALSE
  OBVIOUS
<1>2. CASE p \in {<<t>> : t \in Text} \cup {NewLine}
  <2>1. Len(p) = 1
    BY <1>2 DEF NewLine
  <2> QED
    BY <1>1, <2>1, SwitchIs DEF Exits
<1>3. CASE p = HideCursor
  BY <1>1, <1>3, HideCursorSwitchesNothing
<1>4. CASE p \in Enters
  BY <1>1, <1>4, SwitchesDiffer
<1> QED
  BY <1>2, <1>3, <1>4 DEF Drawing

(* A piece drawn on the page of a full-screen program leaves the history.  *)
LEMMA DrawsOnThePage ==
  ASSUME NEW s \in ScreenState, s.alt, NEW p \in Drawing, p = NewLine => s.y < TERM_ROWS
  PROVE  /\ After(s, p) \in ScreenState /\ After(s, p).alt
         /\ After(s, p).history = s.history
<1>1. After(s, p) \in ScreenState
  BY AfterTyped
<1>2. CASE p \in Enters
  <2>1. After(s, p) = OnAltScreen(s, TRUE)
    BY <1>2 DEF After
  <2>2. After(s, p) = s
    BY <1>1, <2>1, EntersAltScreen, Zenon
  <2> QED
    BY <1>1, <2>2
<1>3. CASE p \notin Enters /\ p \notin Exits
  <2>1. After(s, p) = Interpret(s, p)
    BY <1>3 DEF After
  <2>2. CASE p \in {<<t>> : t \in Text}
    <3>1. PICK t \in Text : p = <<t>>
      BY <2>2
    <3>2. After(s, p) = Draw(s, t)
      BY <2>1, <3>1, InterpretIs
    <3> QED
      BY <1>1, <3>2 DEF Draw, ScreenState
  <2>3. CASE p = NewLine
    <3>1. After(s, p) = Index(s)
      BY <2>1, <2>3, InterpretIs
    <3>2. After(s, p) = [s EXCEPT !.y = @ + 1]
      BY <2>3, <3>1, ScreenAssumption DEF Index
    <3> QED
      BY <1>1, <3>2 DEF ScreenState
  <2>4. CASE p = HideCursor
    <3>1. p \notin {<<t>> : t \in Text} \cup {NewLine, Clear}
      BY <2>4 DEF HideCursor, NewLine, Clear, Csi
    <3>2. After(s, p) = s
      BY <2>1, <3>1, InterpretIs
    <3> QED
      BY <1>1, <3>2
  <2> QED
    BY <1>3, <2>2, <2>3, <2>4 DEF Drawing
<1>4. ASSUME p \in Exits, p \notin Enters PROVE FALSE
  <2>1. p \notin Exits
    BY <1>4, DrawingIsNoExit
  <2> QED
    BY <1>4, <2>1
<1> QED
  BY <1>2, <1>3, <1>4

(* So does a program that does not scroll, of any length.                  *)
LEMMA ProgramOnThePage ==
  ASSUME NEW s \in ScreenState, s.alt, NEW program \in Seq(Drawing), ~Scrolls(s, program)
  PROVE  /\ AfterAll(s, program) \in ScreenState /\ AfterAll(s, program).alt
         /\ AfterAll(s, program).history = s.history
<1>. DEFINE len == Len(program)
            kept(r) == r.alt /\ r.history = s.history
<1>1. program \in Seq(Piece) /\ len \in Nat /\ \A i \in 1 .. len : program[i] \in Drawing
  BY DEF Drawing, Piece
<1>2. PICK f \in [0 .. len -> ScreenState] :
        /\ f[0] = s
        /\ \A i \in 1 .. len : f[i] = After(f[i - 1], program[i])
        /\ \A i \in 0 .. len : AfterAll(s, SubSeq(program, 1, i)) = f[i]
  BY <1>1, AfterAllPrefixes
<1>. DEFINE T == {i \in Nat : i <= len => kept(f[i])}
<1>3. 0 \in T
  BY <1>2
<1>4. ASSUME NEW i \in Nat, i \in T PROVE i + 1 \in T
  <2>1. SUFFICES ASSUME i + 1 <= len PROVE kept(f[i + 1])
    OBVIOUS
  <2>2. i \in 0 .. len /\ i + 1 \in 1 .. len /\ (i + 1) - 1 = i
    BY <1>1, <2>1
  <2>3. kept(f[i]) /\ f[i] \in ScreenState /\ program[i + 1] \in Drawing
    BY <1>1, <1>2, <1>4, <2>2
  <2>4. f[i + 1] = After(f[i], program[i + 1]) /\ AfterAll(s, SubSeq(program, 1, i)) = f[i]
    BY <1>2, <2>2
  <2>5. program[i + 1] = NewLine => f[i].y < TERM_ROWS
    <3>1. program[i + 1] = NewLine => f[i].y # TERM_ROWS
      BY <2>2, <2>4 DEF Scrolls
    <3>2. f[i].y \in 1 .. TERM_ROWS
      BY <2>3 DEF ScreenState
    <3> QED
      BY <3>1, <3>2, ScreenAssumption
  <2> QED
    BY <2>3, <2>4, <2>5, DrawsOnThePage
<1>5. len \in T
  <2>. HIDE DEF T
  <2> QED
    BY <1>1, <1>3, <1>4, Induction
<1>6. AfterAll(s, program) = f[len]
  <2>1. SubSeq(program, 1, len) = program /\ len \in 0 .. len
    BY <1>1
  <2> QED
    BY <1>2, <2>1
<1> QED
  BY <1>1, <1>2, <1>5, <1>6

(* Enter, draw, leave: the old rows above an empty one.                    *)
LEMMA HistoryComesBackFrom ==
  ASSUME NEW s \in ScreenState, ~s.alt,
         NEW enter \in Enters, NEW exit \in Exits, NEW program \in Seq(Drawing),
         ~Scrolls(After(s, enter), program)
  PROVE  LET before == Render(s).lines
             after == Render(After(AfterAll(After(s, enter), program), exit))
         IN  /\ after.lines = Append(Newest(before, TERM_ROWS - 1), Blank)
             /\ after.cursor = Len(after.lines)
<1>. DEFINE L == ScreenLines(s)
            q == s.history \o L
            s1 == After(s, enter)
            s2 == AfterAll(s1, program)
            s3 == After(s2, exit)
<1>1. /\ s1 \in ScreenState /\ s1.alt /\ s1.y = 1
      /\ s1.history = Remember(s.history, L)
  <2>1. s1 = OnAltScreen(s, TRUE)
    BY DEF After
  <2>. HIDE DEF s1
  <2>2. s \in ScreenState /\ ~s.alt
    OBVIOUS
  <2> QED
    BY <2>1, <2>2, EntersAltScreen
<1>2. s2 \in ScreenState /\ s2.alt /\ s2.history = s1.history
  <2>1. ~Scrolls(s1, program)
    OBVIOUS
  <2>. HIDE DEF s1
  <2> QED
    BY <1>1, <2>1, ProgramOnThePage
<1>. HIDE DEF s1, s2
<1>3. /\ s3 \in ScreenState /\ ~s3.alt /\ s3.y = 1 /\ s3.rows = Empty
      /\ s3.history = Remember(s.history, L)
  <2>1. exit \notin Enters
    BY SwitchesDiffer
  <2>2. (exit \in Enters) = FALSE
    BY <2>1
  <2>3. s3 = OnAltScreen(s2, exit \in Enters)
    BY DEF After
  <2>4. s3 = OnAltScreen(s2, FALSE)
    BY <2>2, <2>3, Zenon
  <2> QED
    BY <1>1, <1>2, <2>4, LeavesAltScreen
<1>. HIDE DEF s3
<1>4. After(AfterAll(After(s, enter), program), exit) = s3
  BY DEF s1, s2, s3
<1>5. ScreenLines(s3) = <<Blank>>
  <2>1. PICK last \in s3.y .. TERM_ROWS :
          /\ last = s3.y \/ s3.rows[last] # Blank
          /\ ScreenLines(s3) = [y \in 1 .. last |-> s3.rows[y]]
    BY <1>3, ScreenLinesTyped
  <2>2. last = 1
    BY <1>3, <2>1, ScreenAssumption DEF Empty
  <2>3. ScreenLines(s3) = [y \in 1 .. 1 |-> Blank]
    BY <1>3, <2>1, <2>2, ScreenAssumption DEF Empty
  <2> QED
    BY <2>3
<1>6. /\ L \in Seq(Row) /\ s.history \in Seq(Row) /\ q \in Seq(Row)
      /\ Len(L) \in Nat /\ Len(L) <= TERM_ROWS
  BY ScreenLinesTyped, ScreenAssumption DEF ScreenState
<1>7. /\ TERM_ROWS \in Nat /\ TERM_ROWS - 1 \in Nat /\ SCROLLBACK_LINES \in Nat
      /\ TERM_ROWS - 1 <= TERM_ROWS /\ TERM_ROWS - 1 <= SCROLLBACK_LINES
  BY ScreenAssumption
<1>8. Render(s).lines = Newest(q, TERM_ROWS)
  <2>1. Render(s).lines = Newest(s.history, TERM_ROWS - Len(L)) \o L
    BY DEF Render
  <2>. HIDE DEF L
  <2> QED
    BY <1>6, <1>7, <2>1, NewestOfConcatenation
<1>9. Newest(Render(s).lines, TERM_ROWS - 1) = Newest(q, TERM_ROWS - 1)
  <2>. HIDE DEF q
  <2> QED
    BY <1>6, <1>7, <1>8, NewestOfNewest
<1>10. Newest(s3.history, TERM_ROWS - 1) = Newest(q, TERM_ROWS - 1)
  <2>1. s3.history = Newest(q, SCROLLBACK_LINES)
    BY <1>3 DEF Remember
  <2>. HIDE DEF q
  <2> QED
    BY <1>6, <1>7, <2>1, NewestOfNewest
<1>. DEFINE above == Newest(q, TERM_ROWS - 1)
<1>11. above \in Seq(Row) /\ Len(above) \in Nat
  <2>. HIDE DEF q
  <2> QED
    BY <1>6, <1>7, NewestTyped
<1>12. /\ Render(s3).lines = above \o <<Blank>>
       /\ Render(s3).cursor = Len(above) + 1
  <2>1. Len(ScreenLines(s3)) = 1
    BY <1>5
  <2> QED
    BY <1>3, <1>5, <1>10, <2>1 DEF Render
<1>. HIDE DEF above
<1>13. above \o <<Blank>> = Append(above, Blank) /\ Len(above \o <<Blank>>) = Len(above) + 1
  BY <1>11
<1> QED
  BY <1>4, <1>9, <1>12, <1>13 DEF above

(* The start of a switch has no letter in it, ...                          *)
LEMMA PartialIs ==
  ASSUME NEW s \in Seq(Char), IsPartial(s)
  PROVE  /\ Len(s) \in 1 .. 7 /\ s[1] = "ESC"
         /\ \A i \in 1 .. Len(s) : s[i] \in {"ESC", "[", "?"} \cup Digit
         /\ Len(s) >= 3 => s[3] = "?"
<1>1. CASE s = <<"ESC">> \/ s = Csi
  BY <1>1 DEF Csi
<1>2. CASE /\ Len(s) \in 3 .. 7
           /\ SubSeq(s, 1, 3) = Csi \o <<"?">>
           /\ \A i \in 4 .. Len(s) : s[i] \in Digit
  <2>1. SubSeq(s, 1, 3) = <<"ESC", "[", "?">>
    BY <1>2, Literals
  <2>2. SubSeq(s, 1, 3)[1] = s[1] /\ SubSeq(s, 1, 3)[2] = s[2] /\ SubSeq(s, 1, 3)[3] = s[3]
    BY <1>2
  <2>3. s[1] = "ESC" /\ s[2] = "[" /\ s[3] = "?"
    <3>1. /\ <<"ESC", "[", "?">>[1] = "ESC" /\ <<"ESC", "[", "?">>[2] = "["
          /\ <<"ESC", "[", "?">>[3] = "?"
      OBVIOUS
    <3> QED
      BY <2>1, <2>2, <3>1
  <2>4. ASSUME NEW i \in 1 .. Len(s) PROVE s[i] \in {"ESC", "[", "?"} \cup Digit
    <3>1. i = 1 \/ i = 2 \/ i = 3 \/ i \in 4 .. Len(s)
      BY <1>2
    <3> QED
      BY <1>2, <2>3, <3>1
  <2> QED
    BY <1>2, <2>3, <2>4
<1> QED
  BY <1>1, <1>2 DEF IsPartial

(* ... and this is all that it takes.                                      *)
LEMMA PartialFrom ==
  ASSUME NEW s \in Seq(Char), Len(s) \in 1 .. 7, s[1] = "ESC",
         Len(s) >= 2 => s[2] = "[", Len(s) >= 3 => s[3] = "?",
         \A i \in 4 .. Len(s) : s[i] \in Digit
  PROVE  IsPartial(s)
<1>1. CASE Len(s) = 1
  <2>1. s = <<"ESC">>
    BY <1>1
  <2> QED
    BY <2>1 DEF IsPartial
<1>2. CASE Len(s) = 2
  <2>1. s = <<"ESC", "[">>
    BY <1>2
  <2> QED
    BY <2>1 DEF IsPartial, Csi
<1>3. CASE Len(s) \in 3 .. 7
  <2>. DEFINE q == SubSeq(s, 1, 3)
  <2>1. /\ q \in Seq(Char) /\ Len(q) = 3
        /\ q[1] = "ESC" /\ q[2] = "[" /\ q[3] = "?"
    BY <1>3
  <2>. HIDE DEF q
  <2>2. q = <<q[1], q[2], q[3]>>
    BY <2>1
  <2>3. SubSeq(s, 1, 3) = <<"ESC", "[", "?">>
    BY <2>1, <2>2 DEF q
  <2> QED
    BY <1>3, <2>3, Literals DEF IsPartial
<1> QED
  BY <1>1, <1>2, <1>3

(* A piece has ESC at its start only, and then ends with a letter.         *)
LEMMA PieceIs ==
  ASSUME NEW p \in Piece
  PROVE  /\ p \in Seq(Char) /\ Len(p) \in 1 .. 8
         /\ p[1] = "ESC" => p[Len(p)] \in Final
         /\ \A i \in 2 .. Len(p) : p[i] # "ESC"
<1>1. CASE p \in {<<t>> : t \in Text} \cup {NewLine}
  <2>1. PICK t \in Text \cup {"LF"} : p = <<t>>
    BY <1>1 DEF NewLine
  <2>2. t # "ESC"
    BY OutputAssumption
  <2> QED
    BY <2>1, <2>2 DEF Char
<1>2. CASE p = Clear
  <2>1. p = <<"ESC", "[", "2", "J">>
    BY <1>2, Literals
  <2> QED
    BY <2>1 DEF Char, Digit, Final
<1>3. CASE p = HideCursor
  <2>1. p = <<"ESC", "[", "?", "2", "5", "l">>
    BY <1>3, Literals
  <2> QED
    BY <2>1 DEF Char, Digit, Final
<1>4. CASE p \in Enters \cup Exits
  <2>1. PICK final \in {"h", "l"} : p \in Switch(final)
    BY <1>4 DEF Enters, Exits
  <2>2. /\ p \in Seq(Char) /\ Len(p) \in 5 .. 8
        /\ p[1] = "ESC" /\ p[2] = "[" /\ p[3] = "?"
        /\ \A i \in 4 .. Len(p) - 1 : p[i] \in Digit
        /\ p[Len(p)] = final
    BY <2>1, SwitchIs
  <2>3. ASSUME NEW i \in 2 .. Len(p) PROVE p[i] # "ESC"
    <3>1. i = 2 \/ i = 3 \/ i \in 4 .. Len(p) - 1 \/ i = Len(p)
      BY <2>2
    <3>2. "ESC" \notin Digit
      BY DEF Digit
    <3> QED
      BY <2>2, <3>1, <3>2
  <2> QED
    BY <2>2, <2>3 DEF Final
<1> QED
  BY <1>1, <1>2, <1>3, <1>4 DEF Piece

(* A cut piece may be a switch, unless it is ESC [ 2.                      *)
LEMMA ProperPrefix ==
  ASSUME NEW p \in Piece, NEW r \in 1 .. Len(p) - 1
  PROVE  \/ IsPartial(SubSeq(p, 1, r))
         \/ p = Clear /\ r = 3
<1>. DEFINE s == SubSeq(p, 1, r)
<1>1. p \in Seq(Char) /\ Len(p) \in 1 .. 8
  BY PieceIs
<1>2. s \in Seq(Char) /\ Len(s) = r /\ r \in 1 .. 7 /\ \A i \in 1 .. r : s[i] = p[i]
  <2>. DEFINE n == Len(p)
  <2>1. n \in 1 .. 8 /\ r \in 1 .. n - 1
    BY <1>1
  <2>. HIDE DEF n
  <2>2. r \in 1 .. 7 /\ r <= n
    BY <2>1
  <2>. USE DEF n
  <2>3. \A i \in 1 .. r : p[i] \in Char
    BY <1>1, <2>2
  <2> QED
    BY <2>2, <2>3, SubSeqProperties
<1>. HIDE DEF s
<1>3. CASE p \in {<<t>> : t \in Text} \cup {NewLine}
  <2>1. Len(p) = 1
    BY <1>3 DEF NewLine
  <2> QED
    BY <2>1
<1>4. CASE p = Clear
  <2>1. p = <<"ESC", "[", "2", "J">>
    BY <1>4, Literals
  <2>2. r = 1 \/ r = 2 \/ r = 3
    BY <2>1
  <2>3. CASE r = 1 \/ r = 2
    <3>1. s[1] = "ESC" /\ (r = 2 => s[2] = "[")
      BY <1>2, <2>1, <2>3
    <3>2. /\ Len(s) \in 1 .. 7 /\ (Len(s) >= 2 => s[2] = "[") /\ (Len(s) >= 3 => s[3] = "?")
          /\ \A i \in 4 .. Len(s) : s[i] \in Digit
      BY <1>2, <2>3, <3>1
    <3>3. s \in Seq(Char) /\ s[1] = "ESC"
      BY <1>2, <3>1
    <3>4. IsPartial(s)
      BY <3>2, <3>3, PartialFrom
    <3> QED
      BY <3>4 DEF s
  <2> QED
    BY <1>4, <2>2, <2>3
<1>5. CASE p = HideCursor
  <2>1. p = <<"ESC", "[", "?", "2", "5", "l">>
    BY <1>5, Literals
  <2>2. /\ s[1] = "ESC" /\ (r >= 2 => s[2] = "[") /\ (r >= 3 => s[3] = "?")
        /\ \A i \in 4 .. r : s[i] \in Digit
    BY <1>2, <2>1 DEF Digit
  <2> QED
    BY <1>2, <2>2, PartialFrom DEF s
<1>6. CASE p \in Enters \cup Exits
  <2>1. PICK final \in {"h", "l"} : p \in Switch(final)
    BY <1>6 DEF Enters, Exits
  <2>2. /\ Len(p) \in 5 .. 8
        /\ p[1] = "ESC" /\ p[2] = "[" /\ p[3] = "?"
        /\ \A i \in 4 .. Len(p) - 1 : p[i] \in Digit
    BY <2>1, SwitchIs
  <2>3. /\ s[1] = "ESC" /\ (r >= 2 => s[2] = "[") /\ (r >= 3 => s[3] = "?")
        /\ \A i \in 4 .. r : s[i] \in Digit
    BY <1>2, <2>2
  <2> QED
    BY <1>2, <2>3, PartialFrom DEF s
<1> QED
  BY <1>3, <1>4, <1>5, <1>6 DEF Piece

(* The characters of the pieces, prefix by prefix.                         *)
LEMMA CharactersPrefixes ==
  ASSUME NEW ps \in Seq(Piece)
  PROVE  \E f \in [0 .. Len(ps) -> Seq(Char)] :
           /\ f[0] = <<>>
           /\ \A i \in 1 .. Len(ps) : f[i] = f[i - 1] \o ps[i]
           /\ \A k \in 0 .. Len(ps) : Characters(SubSeq(ps, 1, k)) = f[k]
<1>. DEFINE next == [x \in Seq(Char) \X Piece |-> x[1] \o x[2]]
            n == Len(ps)
            Rec(q, f) == f = [i \in 0 .. Len(q) |-> IF i = 0 THEN <<>> ELSE f[i - 1] \o q[i]]
<1>1. n \in Nat /\ \A i \in 1 .. n : ps[i] \in Piece /\ ps[i] \in Seq(Char)
  BY PieceIs
<1>2. ASSUME NEW r \in Seq(Char), NEW p \in Piece
      PROVE  next[<<r, p>>] = r \o p /\ r \o p \in Seq(Char)
  <2>1. p \in Seq(Char)
    BY PieceIs
  <2>2. r \o p \in Seq(Char)
    BY <2>1
  <2>3. <<r, p>> \in Seq(Char) \X Piece /\ <<r, p>>[1] = r /\ <<r, p>>[2] = p
    OBVIOUS
  <2>4. next[<<r, p>>] = r \o p
    BY <2>3, Zenon
  <2> QED
    BY <2>2, <2>4
<1>. HIDE DEF next
<1>3. StaysIn(next, Seq(Char), ps, n)
  BY <1>1, <1>2 DEF StaysIn
<1>4. PICK g \in [0 .. n -> Seq(Char)] : IsFold(g, <<>>, next, ps, n)
  <2>1. <<>> \in Seq(Char)
    OBVIOUS
  <2>. HIDE DEF n
  <2> QED
    BY <1>1, <1>3, <2>1, Recursion
<1>5. g[0] = <<>>
  BY <1>4 DEF IsFold
<1>6. ASSUME NEW i \in 1 .. n PROVE g[i] = g[i - 1] \o ps[i]
  <2>1. g[i - 1] \in Seq(Char)
    BY <1>1
  <2> QED
    BY <1>1, <1>2, <1>4, <2>1 DEF IsFold
<1>7. ASSUME NEW k \in 0 .. n PROVE Characters(SubSeq(ps, 1, k)) = g[k]
  <2>. DEFINE q == SubSeq(ps, 1, k)
              h == CHOOSE f : Rec(q, f)
              e == [i \in 0 .. k |-> g[i]]
  <2>1. k \in Nat /\ Len(q) = k /\ \A i \in 1 .. k : q[i] = ps[i] /\ i \in 1 .. n
    BY <1>1
  <2>2. Characters(q) = h[Len(q)]
    BY DEF Characters
  <2>. HIDE DEF q
  <2>3. ASSUME NEW i \in 0 .. Len(q)
        PROVE  e[i] = IF i = 0 THEN <<>> ELSE e[i - 1] \o q[i]
    <3>1. CASE i = 0
      BY <1>5, <2>1, <3>1
    <3>2. CASE i # 0
      <4>1. i \in 1 .. n /\ i \in 0 .. k /\ i - 1 \in 0 .. k /\ q[i] = ps[i]
        BY <2>1, <3>2
      <4> QED
        BY <1>6, <3>2, <4>1
    <3> QED
      BY <3>1, <3>2
  <2>4. Rec(q, e)
    <3>1. e = [i \in 0 .. Len(q) |-> e[i]]
      BY <2>1
    <3>. HIDE DEF e
    <3> QED
      BY <2>3, <3>1
  <2>5. Rec(q, h)
    <3>. HIDE DEF Rec, e
    <3> QED
      BY <2>4
  <2>. HIDE DEF h
  <2>6. h[0] = <<>> /\ \A i \in 1 .. k : h[i] = h[i - 1] \o ps[i]
    <3>1. h[0] = <<>>
      BY <2>1, <2>5
    <3>2. ASSUME NEW i \in 1 .. k PROVE h[i] = h[i - 1] \o ps[i]
      <4>0. i \in 0 .. Len(q) /\ i # 0
        BY <2>1
      <4>1. h[i] = h[i - 1] \o q[i]
        BY <2>5, <4>0
      <4> QED
        BY <2>1, <4>1
    <3> QED
      BY <3>1, <3>2
  <2>. DEFINE T == {i \in Nat : i <= k => h[i] = g[i]}
  <2>7. 0 \in T
    BY <1>5, <2>6
  <2>8. ASSUME NEW i \in Nat, i \in T PROVE i + 1 \in T
    <3>1. SUFFICES ASSUME i + 1 <= k PROVE h[i + 1] = g[i + 1]
      OBVIOUS
    <3>2. h[i] = g[i] /\ i + 1 \in 1 .. k /\ i + 1 \in 1 .. n /\ (i + 1) - 1 = i
      BY <2>1, <2>8, <3>1
    <3>3. h[i + 1] = h[i] \o ps[i + 1]
      BY <2>6, <3>2
    <3>4. g[i + 1] = g[i] \o ps[i + 1]
      BY <1>6, <3>2
    <3> QED
      BY <3>2, <3>3, <3>4
  <2>9. Nat \subseteq T
    <3>. HIDE DEF T
    <3> QED
      BY <2>7, <2>8, Induction
  <2> QED
    BY <2>1, <2>2, <2>9 DEF q
<1> QED
  BY <1>5, <1>6, <1>7

(* at[k] characters of all are those of the first k pieces.                *)
Layout(ps, all, at) ==
  /\ at \in [0 .. Len(ps) -> Nat] /\ at[0] = 0
  /\ all \in Seq(Char) /\ Len(all) = at[Len(ps)]
  /\ \A k \in 1 .. Len(ps) :
       /\ at[k] = at[k - 1] + Len(ps[k])
       /\ \A i \in 1 .. Len(ps[k]) : all[at[k - 1] + i] = ps[k][i]

(* Each piece has its place among the characters.                          *)
LEMMA LayoutOfCharacters ==
  ASSUME NEW ps \in Seq(Piece)
  PROVE  \E at : /\ Layout(ps, Characters(ps), at)
                 /\ \A k \in 0 .. Len(ps) : Len(Characters(SubSeq(ps, 1, k))) = at[k]
<1>. DEFINE n == Len(ps)
<1>1. PICK f \in [0 .. n -> Seq(Char)] :
        /\ f[0] = <<>>
        /\ \A i \in 1 .. n : f[i] = f[i - 1] \o ps[i]
        /\ \A k \in 0 .. n : Characters(SubSeq(ps, 1, k)) = f[k]
  BY CharactersPrefixes
<1>2. n \in Nat /\ \A i \in 1 .. n : ps[i] \in Seq(Char)
  BY PieceIs
<1>3. Characters(ps) = f[n]
  <2>1. SubSeq(ps, 1, n) = ps
    BY SubSeqFull
  <2>2. Characters(SubSeq(ps, 1, n)) = f[n]
    <3>1. n \in 0 .. n
      BY <1>2
    <3>. HIDE DEF n
    <3> QED
      BY <1>1, <3>1
  <2> QED
    BY <2>1, <2>2
<1>. DEFINE at == [k \in 0 .. n |-> Len(f[k])]
<1>. HIDE DEF n
<1>4. at \in [0 .. n -> Nat] /\ at[0] = 0
  BY <1>1, <1>2
<1>5. ASSUME NEW k \in 1 .. n
      PROVE  /\ f[k] \in Seq(Char) /\ f[k - 1] \in Seq(Char)
             /\ at[k] = Len(f[k]) /\ at[k - 1] = Len(f[k - 1])
             /\ at[k] = at[k - 1] + Len(ps[k])
             /\ \A i \in 1 .. at[k - 1] : f[k][i] = f[k - 1][i]
             /\ \A i \in 1 .. Len(ps[k]) : f[k][at[k - 1] + i] = ps[k][i]
  <2>1. /\ k \in 0 .. n /\ k - 1 \in 0 .. n
        /\ f[k] \in Seq(Char) /\ f[k - 1] \in Seq(Char) /\ ps[k] \in Seq(Char)
        /\ f[k] = f[k - 1] \o ps[k]
    <3>1. k \in 0 .. n /\ k - 1 \in 0 .. n
      BY <1>2
    <3>2. f[k] \in Seq(Char) /\ f[k - 1] \in Seq(Char)
      BY <1>1, <3>1
    <3> QED
      BY <1>1, <1>2, <3>1, <3>2
  <2>2. at[k] = Len(f[k]) /\ at[k - 1] = Len(f[k - 1])
    BY <2>1
  <2>. HIDE DEF at
  <2>. DEFINE a == f[k - 1]
              b == ps[k]
  <2>3. /\ Len(a) \in Nat /\ Len(b) \in Nat /\ Len(f[k]) = Len(a) + Len(b)
        /\ \A i \in 1 .. Len(a) + Len(b) : f[k][i] = IF i <= Len(a) THEN a[i] ELSE b[i - Len(a)]
    <3>1. a \in Seq(Char) /\ b \in Seq(Char) /\ f[k] = a \o b
      BY <2>1
    <3>. HIDE DEF a, b
    <3> QED
      BY <3>1, ConcatProperties
  <2>. HIDE DEF a, b
  <2>4. ASSUME NEW i \in 1 .. Len(a) PROVE f[k][i] = a[i]
    BY <2>3
  <2>5. ASSUME NEW i \in 1 .. Len(b) PROVE f[k][Len(a) + i] = b[i]
    <3>. DEFINE x == Len(a) + i
    <3>1. x \in 1 .. Len(a) + Len(b) /\ ~(x <= Len(a)) /\ x - Len(a) = i
      BY <2>3
    <3>. HIDE DEF x
    <3>2. f[k][x] = IF x <= Len(a) THEN a[x] ELSE b[x - Len(a)]
      BY <2>3, <3>1
    <3>3. f[k][x] = b[i]
      BY <3>1, <3>2
    <3> QED
      BY <3>3 DEF x
  <2> QED
    BY <2>1, <2>2, <2>3, <2>4, <2>5 DEF a, b
<1>. HIDE DEF at
<1>6. ASSUME NEW k \in 1 .. n, NEW i \in 1 .. Len(ps[k])
      PROVE  f[n][at[k - 1] + i] = ps[k][i]
  <2>. DEFINE x == at[k - 1] + i
              T == {d \in Nat : k + d <= n => x <= at[k + d] /\ f[k + d][x] = ps[k][i]}
  <2>1. Len(ps[k]) \in Nat /\ at[k - 1] \in Nat
    BY <1>2, <1>4
  <2>2. 0 \in T
    <3>1. x <= at[k] /\ f[k][x] = ps[k][i] /\ k + 0 = k
      BY <1>5, <2>1
    <3>. HIDE DEF x
    <3> QED
      BY <3>1
  <2>3. ASSUME NEW d \in Nat, d \in T PROVE d + 1 \in T
    <3>. DEFINE m == k + (d + 1)
    <3>1. SUFFICES ASSUME m <= n PROVE x <= at[m] /\ f[m][x] = ps[k][i]
      OBVIOUS
    <3>2. m \in 1 .. n /\ m - 1 = k + d /\ k + d <= n
      BY <1>2, <3>1
    <3>3. x <= at[m - 1] /\ f[m - 1][x] = ps[k][i]
      BY <2>3, <3>2
    <3>4. at[m - 1] \in Nat /\ at[m] \in Nat /\ Len(ps[m]) \in Nat /\ x \in Nat \ {0}
      <4>1. x \in Nat \ {0}
        BY <2>1
      <4>2. m \in 0 .. n /\ m - 1 \in 0 .. n
        BY <1>2, <3>2
      <4>. HIDE DEF m, x
      <4>3. at[m - 1] \in Nat /\ at[m] \in Nat
        BY <1>4, <4>2
      <4>4. ps[m] \in Seq(Char)
        BY <1>2, <3>2
      <4> QED
        BY <4>1, <4>3, <4>4
    <3>. HIDE DEF m, x
    <3>5. at[m] = at[m - 1] + Len(ps[m]) /\ \A j \in 1 .. at[m - 1] : f[m][j] = f[m - 1][j]
      BY <1>5, <3>2
    <3> QED
      BY <3>3, <3>4, <3>5
  <2>4. Nat \subseteq T
    <3>. HIDE DEF T
    <3> QED
      BY <2>2, <2>3, Induction
  <2>5. n - k \in Nat /\ k + (n - k) = n
    BY <1>2
  <2>6. n - k \in T
    <3>. HIDE DEF T
    <3> QED
      BY <2>4, <2>5
  <2>7. f[k + (n - k)][x] = ps[k][i]
    BY <1>2, <2>5, <2>6
  <2> QED
    BY <2>5, <2>7
<1>7. f[n] \in Seq(Char) /\ at[n] = Len(f[n])
  BY <1>1, <1>2 DEF at
<1>8. Layout(ps, Characters(ps), at)
  BY <1>3, <1>4, <1>5, <1>6, <1>7 DEF Layout, n
<1>9. \A k \in 0 .. n : Len(Characters(SubSeq(ps, 1, k))) = at[k]
  BY <1>1 DEF at
<1> QED
  BY <1>8, <1>9 DEF n

-----------------------------------------------------------------------------
(* Feeding pyte.                                                           *)

(* A character leaves a state of feeding, ...                              *)
LEMMA PyteTyped ==
  ASSUME NEW r \in FeedState, NEW c \in Char
  PROVE  Pyte(r, c) \in FeedState
<1>. DEFINE piece == Append(r.held, c)
<1>1. /\ r.screen \in ScreenState /\ r.held \in Seq(Char) /\ r.upto \in Nat
      /\ piece \in Seq(Char) /\ <<>> \in Seq(Char)
  BY DEF FeedState
<1>2. Interpret(r.screen, piece) \in ScreenState
  BY <1>1, InterpretTyped
<1>3. Pyte(r, c) = IF piece[1] = "ESC" /\ c \notin Final THEN [r EXCEPT !.held = piece]
                   ELSE [r EXCEPT !.held = <<>>, !.screen = Interpret(r.screen, piece)]
  BY DEF Pyte
<1>. HIDE DEF piece
<1> QED
  BY <1>1, <1>2, <1>3 DEF FeedState

(* ... and so does one that may begin a switch.                            *)
LEMMA TakesTyped ==
  ASSUME NEW data \in Seq(Char), NEW r \in FeedState, NEW i \in 1 .. Len(data)
  PROVE  Takes(r, data, i) \in FeedState
<1>1. r.screen \in ScreenState /\ r.held \in Seq(Char) /\ r.upto \in Nat /\ data[i] \in Char
  BY DEF FeedState
<1>2. CASE i <= r.upto
  BY <1>2 DEF Takes
<1>3. CASE ~(i <= r.upto) /\ SwitchEnds(data, i) = {}
  <2>1. Takes(r, data, i) = Pyte(r, data[i])
    BY <1>3 DEF Takes
  <2> QED
    BY <1>1, <2>1, PyteTyped
<1>4. CASE ~(i <= r.upto) /\ SwitchEnds(data, i) # {}
  <2>. DEFINE j == CHOOSE j \in SwitchEnds(data, i) : TRUE
              entering == SubSeq(data, i, j) \in Enters
              s == OnAltScreen(r.screen, entering)
  <2>1. j \in SwitchEnds(data, i)
    BY <1>4
  <2>2. j \in Nat
    <3>. HIDE DEF j
    <3> QED
      BY <2>1 DEF SwitchEnds
  <2>3. Takes(r, data, i) = [r EXCEPT !.upto = j, !.screen = s]
    BY <1>4 DEF Takes
  <2>4. s \in ScreenState
    <3>1. entering \in BOOLEAN
      OBVIOUS
    <3>. HIDE DEF entering
    <3> QED
      BY <1>1, <3>1, OnAltScreenIs
  <2>. HIDE DEF j, s
  <2> QED
    BY <1>1, <2>2, <2>3, <2>4 DEF FeedState
<1> QED
  BY <1>2, <1>3, <1>4

(* F goes through the steps of feeding data.                               *)
Feeds(data, F) ==
  /\ F \in [0 .. Len(data) -> FeedState]
  /\ \A i \in 1 .. Len(data) : F[i] = Takes(F[i - 1], data, i)

(* Feed is its steps, one after the other.                                 *)
LEMMA FeedFolds ==
  ASSUME NEW data \in Seq(Char), screen \in ScreenState, held \in Seq(Char)
  PROVE  \E F : /\ Feeds(data, F)
                /\ F[0].screen = screen /\ F[0].held = held /\ F[0].upto = 0
                /\ Feed(data) = F[Len(data)]
<1>. DEFINE n == Len(data)
            start == [screen |-> screen, held |-> held, upto |-> 0]
            next == [x \in FeedState \X (1 .. n) |-> Takes(x[1], data, x[2])]
            ps == [i \in 1 .. n |-> i]
            Rec(f) == f = [i \in 0 .. n |-> IF i = 0 THEN start ELSE next[<<f[i - 1], i>>]]
            h == CHOOSE f : Rec(f)
<1>1. n \in Nat /\ \A i \in 1 .. n : ps[i] = i
  OBVIOUS
<1>2. /\ start \in FeedState
      /\ start.screen = screen /\ start.held = held /\ start.upto = 0
  BY DEF FeedState
<1>3. ASSUME NEW r \in FeedState, NEW i \in 1 .. n
      PROVE  next[<<r, i>>] = Takes(r, data, i) /\ Takes(r, data, i) \in FeedState
  <2>1. <<r, i>> \in FeedState \X (1 .. n) /\ <<r, i>>[1] = r /\ <<r, i>>[2] = i
    OBVIOUS
  <2>2. next[<<r, i>>] = Takes(r, data, i)
    BY <2>1, Zenon
  <2> QED
    BY <2>2, TakesTyped
<1>4. Feed(data) = h[n]
  BY DEF Feed
<1>. HIDE DEF next, start, ps
<1>5. StaysIn(next, FeedState, ps, n)
  <2>1. ASSUME NEW r \in FeedState, NEW i \in 1 .. n PROVE next[<<r, ps[i]>>] \in FeedState
    BY <1>1, <1>3
  <2> QED
    BY <2>1 DEF StaysIn
<1>6. PICK g \in [0 .. n -> FeedState] : IsFold(g, start, next, ps, n)
  <2>. HIDE DEF n
  <2> QED
    BY <1>1, <1>2, <1>5, Recursion
<1>7. g[0] = start
  BY <1>6 DEF IsFold
<1>8. ASSUME NEW i \in 1 .. n PROVE g[i] = next[<<g[i - 1], i>>]
  BY <1>1, <1>6 DEF IsFold
<1>9. Rec(g)
  <2>1. ASSUME NEW i \in 0 .. n
        PROVE  g[i] = IF i = 0 THEN start ELSE next[<<g[i - 1], i>>]
    BY <1>1, <1>7, <1>8
  <2>2. g = [i \in 0 .. n |-> g[i]]
    OBVIOUS
  <2> QED
    BY <2>1, <2>2
<1>10. Rec(h)
  <2>. HIDE DEF Rec
  <2> QED
    BY <1>9
<1>. HIDE DEF h
<1>11. h[0] = start
  BY <1>1, <1>10
<1>12. ASSUME NEW i \in 1 .. n PROVE h[i] = next[<<h[i - 1], ps[i]>>]
  <2>1. i \in 0 .. n /\ i # 0
    BY <1>1
  <2>2. h[i] = next[<<h[i - 1], i>>]
    BY <1>10, <2>1
  <2> QED
    BY <1>1, <2>2
<1>13. \A i \in 0 .. n : g[i] = h[i]
  <2>1. IsFold(h, start, next, ps, n)
    BY <1>11, <1>12 DEF IsFold
  <2>. HIDE DEF n
  <2> QED
    BY <1>1, <1>6, <2>1, Unique
<1>14. ASSUME NEW i \in 1 .. n PROVE g[i] = Takes(g[i - 1], data, i)
  <2>1. g[i - 1] \in FeedState
    BY <1>1
  <2> QED
    BY <1>3, <1>8, <2>1
<1>15. Feeds(data, g)
  BY <1>14 DEF Feeds
<1>16. Feed(data) = g[n]
  BY <1>1, <1>4, <1>13
<1> QED
  BY <1>2, <1>7, <1>15, <1>16

(* From place b + 1 on, data has the first m characters of piece p.        *)
Has(data, b, p, m) ==
  /\ b \in Nat /\ b + m <= Len(data)
  /\ \A i \in 1 .. m : data[b + i] = p[i]

(* Where a switch ends: 5 to 8 characters, digits from the fourth on.      *)
LEMMA SwitchEndsAre ==
  ASSUME NEW data \in Seq(Char), NEW i \in 1 .. Len(data), NEW j \in SwitchEnds(data, i)
  PROVE  \E n \in 5 .. 8 :
           /\ j = i + n - 1 /\ j <= Len(data)
           /\ data[i] = "ESC" /\ data[i + 2] = "?"
           /\ \A x \in 4 .. n - 1 : data[i + x - 1] \in Digit
           /\ data[j] \in {"h", "l"}
           /\ ~(n = 6 /\ data[i + 3] = "2" /\ data[i + 4] = "5")
<1>. DEFINE q == SubSeq(data, i, j)
            n == Len(q)
<1>1. j \in i .. Len(data) /\ q \in Enters \cup Exits
  BY DEF SwitchEnds
<1>2. PICK final \in {"h", "l"} : q \in Switch(final)
  BY <1>1 DEF Enters, Exits
<1>3. n = j - i + 1 /\ \A x \in 1 .. j - i + 1 : q[x] = data[i + x - 1]
  <2>1. \A x \in i .. j : data[x] \in Char
    BY <1>1
  <2> QED
    BY <1>1, <2>1, SubSeqProperties
<1>. HIDE DEF q
<1>4. /\ n \in 5 .. 8 /\ q[1] = "ESC" /\ q[3] = "?"
      /\ \A x \in 4 .. n - 1 : q[x] \in Digit
      /\ q[n] = final
      /\ ~(n = 6 /\ q[4] = "2" /\ q[5] = "5")
  BY <1>2, SwitchIs
<1>. HIDE DEF n
<1>5. j = i + n - 1 /\ j <= Len(data) /\ n \in Nat
  BY <1>1, <1>3, <1>4
<1>6. \A x \in 1 .. n : q[x] = data[i + x - 1]
  BY <1>3
<1>7. q[1] = data[i] /\ q[3] = data[i + 2] /\ q[n] = data[j]
  <2>1. 1 \in 1 .. n /\ 3 \in 1 .. n /\ n \in 1 .. n /\ i + 1 - 1 = i /\ i + 3 - 1 = i + 2
    BY <1>4
  <2> QED
    BY <1>5, <1>6, <2>1
<1>8. ASSUME NEW x \in 4 .. n - 1 PROVE data[i + x - 1] \in Digit
  <2>1. x \in 1 .. n
    BY <1>5
  <2> QED
    BY <1>4, <1>6, <2>1
<1>9. ~(n = 6 /\ data[i + 3] = "2" /\ data[i + 4] = "5")
  <2>1. n = 6 => q[4] = data[i + 3] /\ q[5] = data[i + 4]
    BY <1>6
  <2> QED
    BY <1>4, <2>1
<1> QED
  BY <1>4, <1>5, <1>7, <1>8, <1>9

(* What a character does when nothing, or an escape sequence, is held.     *)
LEMMA PyteIs ==
  ASSUME NEW r \in FeedState, NEW c \in Char
  PROVE  /\ r.held = <<>> /\ c # "ESC" =>
              /\ Pyte(r, c).held = <<>> /\ Pyte(r, c).upto = r.upto
              /\ Pyte(r, c).screen = Interpret(r.screen, <<c>>)
         /\ \/ r.held = <<>> /\ c = "ESC"
            \/ r.held # <<>> /\ r.held[1] = "ESC" /\ c \notin Final
            =>
              /\ Pyte(r, c).held = Append(r.held, c) /\ Pyte(r, c).upto = r.upto
              /\ Pyte(r, c).screen = r.screen
         /\ r.held # <<>> /\ r.held[1] = "ESC" /\ c \in Final =>
              /\ Pyte(r, c).held = <<>> /\ Pyte(r, c).upto = r.upto
              /\ Pyte(r, c).screen = Interpret(r.screen, Append(r.held, c))
<1>. DEFINE piece == Append(r.held, c)
            s == Interpret(r.screen, piece)
<1>1. r.screen \in ScreenState /\ r.held \in Seq(Char) /\ r.upto \in Nat
  BY DEF FeedState
<1>2. /\ r.held = <<>> => piece = <<c>> /\ piece[1] = c
      /\ r.held # <<>> => piece[1] = r.held[1]
  <2>1. r.held = <<>> => piece = <<c>>
    BY <1>1
  <2>2. <<c>>[1] = c
    OBVIOUS
  <2>3. ASSUME r.held # <<>> PROVE piece[1] = r.held[1]
    <3>1. Len(r.held) \in Nat /\ Len(r.held) >= 1
      BY <1>1, <2>3
    <3> QED
      BY <1>1, <3>1
  <2> QED
    BY <2>1, <2>2, <2>3
<1>3. "ESC" \notin Final
  BY DEF Final
<1>4. Pyte(r, c) = IF piece[1] = "ESC" /\ c \notin Final THEN [r EXCEPT !.held = piece]
                   ELSE [r EXCEPT !.held = <<>>, !.screen = s]
  BY DEF Pyte
<1>. HIDE DEF piece
<1>5. ASSUME piece[1] = "ESC", c \notin Final
      PROVE  Pyte(r, c).held = piece /\ Pyte(r, c).upto = r.upto /\ Pyte(r, c).screen = r.screen
  BY <1>4, <1>5 DEF FeedState
<1>. HIDE DEF s
<1>6. ASSUME ~(piece[1] = "ESC" /\ c \notin Final)
      PROVE  Pyte(r, c).held = <<>> /\ Pyte(r, c).upto = r.upto /\ Pyte(r, c).screen = s
  BY <1>4, <1>6 DEF FeedState
<1> QED
  BY <1>2, <1>3, <1>5, <1>6 DEF piece, s

(* While an escape sequence that switches nothing is read, pyte keeps it.  *)
LEMMA EscapeHeld ==
  ASSUME NEW data \in Seq(Char), NEW F, Feeds(data, F), NEW p \in {Clear, HideCursor},
         NEW b, NEW m \in 0 .. Len(p) - 1, Has(data, b, p, m),
         F[b].held = <<>>, F[b].upto <= b,
         \A i \in 1 .. m : SwitchEnds(data, b + i) = {}
  PROVE  F[b + m].held = SubSeq(p, 1, m) /\ F[b + m].screen = F[b].screen /\ F[b + m].upto <= b
<1>1. /\ p \in Seq(Char) /\ Len(p) \in Nat /\ p[1] = "ESC"
      /\ \A i \in 1 .. Len(p) - 1 : p[i] \notin Final
      /\ \A i \in 2 .. Len(p) : p[i] # "ESC"
  <2>1. CASE p = Clear
    <3>1. p = <<"ESC", "[", "2", "J">>
      BY <2>1, Literals
    <3> QED
      BY <3>1 DEF Char, Digit, Final
  <2>2. CASE p = HideCursor
    <3>1. p = <<"ESC", "[", "?", "2", "5", "l">>
      BY <2>2, Literals
    <3> QED
      BY <3>1 DEF Char, Digit, Final
  <2> QED
    BY <2>1, <2>2
<1>2. b \in Nat /\ b + m <= Len(data) /\ \A i \in 1 .. m : data[b + i] = p[i]
  BY DEF Has
<1>3. m \in Nat /\ m <= Len(p) - 1
  BY <1>1
<1>. DEFINE T == {i \in Nat : i <= m => /\ F[b + i].held = SubSeq(p, 1, i)
                                       /\ F[b + i].screen = F[b].screen
                                       /\ F[b + i].upto <= b}
<1>4. 0 \in T
  <2>1. SubSeq(p, 1, 0) = <<>> /\ b + 0 = b
    BY <1>1, <1>2, SubSeqEmpty
  <2> QED
    BY <2>1
<1>5. ASSUME NEW i \in Nat, i \in T PROVE i + 1 \in T
  <2>. DEFINE r == F[b + i]
              k == b + (i + 1)
              c == p[i + 1]
  <2>1. SUFFICES ASSUME i + 1 <= m
                 PROVE  /\ F[k].held = SubSeq(p, 1, i + 1)
                        /\ F[k].screen = F[b].screen
                        /\ F[k].upto <= b
    OBVIOUS
  <2>2. /\ i + 1 \in 1 .. m /\ k \in 1 .. Len(data) /\ k - 1 = b + i
        /\ k - 1 \in 0 .. Len(data) /\ k = b + (i + 1) /\ k > b
    BY <1>2, <1>3, <2>1
  <2>3. /\ r.held = SubSeq(p, 1, i) /\ r.screen = F[b].screen /\ r.upto <= b
    BY <1>5, <2>1, <1>3
  <2>4. data[k] = c /\ c \in Char /\ c \notin Final
    BY <1>1, <1>2, <1>3, <2>2
  <2>5. r \in FeedState /\ F[k] = Takes(r, data, k)
    BY <2>2 DEF Feeds
  <2>6. SwitchEnds(data, k) = {}
    BY <2>2
  <2>. HIDE DEF k, r
  <2>7. r.upto \in Nat /\ ~(k <= r.upto)
    BY <1>2, <2>2, <2>3, <2>5 DEF FeedState
  <2>8. F[k] = Pyte(r, c)
    BY <2>4, <2>5, <2>6, <2>7 DEF Takes
  <2>. HIDE DEF c
  <2>9. \/ r.held = <<>> /\ c = "ESC"
        \/ r.held # <<>> /\ r.held[1] = "ESC" /\ c \notin Final
    <3>1. CASE i = 0
      <4>1. SubSeq(p, 1, 0) = <<>>
        BY <1>1, SubSeqEmpty
      <4> QED
        BY <1>1, <2>3, <3>1, <4>1 DEF c
    <3>2. CASE i # 0
      <4>1. Len(SubSeq(p, 1, i)) = i /\ SubSeq(p, 1, i)[1] = p[1]
        BY <1>1, <1>3, <2>1, <3>2
      <4>2. r.held # <<>>
        BY <2>3, <3>2, <4>1
      <4>3. r.held[1] = "ESC"
        BY <1>1, <2>3, <4>1
      <4> QED
        BY <2>4, <4>2, <4>3
    <3> QED
      BY <3>1, <3>2
  <2>10. Append(SubSeq(p, 1, i), c) = SubSeq(p, 1, i + 1)
    <3>1. i + 1 \in 1 .. Len(p)
      BY <1>1, <1>3, <2>1
    <3> QED
      BY <1>1, <3>1 DEF c
  <2>11. /\ F[k].held = Append(r.held, c) /\ F[k].upto = r.upto /\ F[k].screen = r.screen
    <3>1. r \in FeedState /\ c \in Char
      BY <2>4, <2>5
    <3>2. /\ Pyte(r, c).held = Append(r.held, c) /\ Pyte(r, c).upto = r.upto
          /\ Pyte(r, c).screen = r.screen
      BY <2>9, <3>1, PyteIs, Zenon
    <3> QED
      BY <2>8, <3>2
  <2> QED
    BY <2>3, <2>10, <2>11
<1>6. Nat \subseteq T
  <2>. HIDE DEF T
  <2> QED
    BY <1>4, <1>5, Induction
<1> QED
  BY <1>3, <1>6

(* Neither ESC [ 2 J nor hiding the cursor has a switch in it.             *)
LEMMA NoSwitchWithin ==
  ASSUME NEW data \in Seq(Char), NEW p \in {Clear, HideCursor}, NEW b,
         NEW m \in {3, Len(p)}, Has(data, b, p, m), m = 3 => p = Clear
  PROVE  \A i \in 1 .. m : SwitchEnds(data, b + i) = {}
<1>1. /\ b \in Nat /\ b + m <= Len(data) /\ m \in 3 .. 6
      /\ \A i \in 1 .. m : data[b + i] = p[i]
  <2>1. m \in 3 .. 6
    <3>1. Len(Clear) = 4 /\ Len(HideCursor) = 6
      BY Literals
    <3>2. Len(p) = 4 \/ Len(p) = 6
      BY <3>1
    <3>3. m = 3 \/ m = Len(p)
      OBVIOUS
    <3>4. m = 3 \/ m = 4 \/ m = 6
      BY <3>2, <3>3
    <3> QED
      BY <3>4
  <2> QED
    BY <2>1 DEF Has
<1>2. SUFFICES ASSUME NEW i \in 1 .. m, NEW j \in SwitchEnds(data, b + i) PROVE FALSE
  OBVIOUS
<1>3. b + i \in 1 .. Len(data)
  BY <1>1
<1>4. PICK n \in 5 .. 8 :
        /\ j = (b + i) + n - 1 /\ j <= Len(data)
        /\ data[b + i] = "ESC" /\ data[(b + i) + 2] = "?"
        /\ \A x \in 4 .. n - 1 : data[(b + i) + x - 1] \in Digit
        /\ data[j] \in {"h", "l"}
        /\ ~(n = 6 /\ data[(b + i) + 3] = "2" /\ data[(b + i) + 4] = "5")
  BY <1>3, SwitchEndsAre
<1>5. CASE p = Clear
  <2>1. p = <<"ESC", "[", "2", "J">>
    BY <1>5, Literals
  <2>2. m = 3 \/ m = 4
    BY <2>1
  <2>3. i = 1
    <3>1. p[i] = "ESC"
      BY <1>1, <1>4
    <3>2. i = 1 \/ i = 2 \/ i = 3 \/ i = 4
      BY <2>2
    <3> QED
      BY <2>1, <3>1, <3>2
  <2>4. data[b + 3] = "2"
    BY <1>1, <2>1
  <2>5. (b + i) + 2 = b + 3
    BY <1>1, <2>3
  <2> QED
    BY <1>4, <2>4, <2>5
<1>6. CASE p = HideCursor
  <2>1. p = <<"ESC", "[", "?", "2", "5", "l">>
    BY <1>6, Literals
  <2>2. m = 6
    BY <1>6, <2>1, Literals
  <2>3. i = 1
    <3>1. p[i] = "ESC"
      BY <1>1, <1>4
    <3>2. i = 1 \/ i = 2 \/ i = 3 \/ i = 4 \/ i = 5 \/ i = 6
      BY <2>2
    <3> QED
      BY <2>1, <3>1, <3>2
  <2>4. data[b + 4] = "2" /\ data[b + 5] = "5" /\ data[b + 6] = "l"
    BY <1>1, <2>1, <2>2
  <2>5. (b + i) + 3 = b + 4 /\ (b + i) + 4 = b + 5
    BY <1>1, <2>3
  <2>6. CASE n = 5
    <3>1. j = b + 5
      BY <1>1, <1>4, <2>3, <2>6
    <3> QED
      BY <1>4, <2>4, <3>1
  <2>7. CASE n = 6
    BY <1>4, <2>4, <2>5, <2>7
  <2>8. CASE n > 6
    <3>1. 6 \in 4 .. n - 1 /\ (b + i) + 6 - 1 = b + 6
      BY <1>1, <2>3, <2>8
    <3>2. "l" \in Digit
      BY <1>4, <2>4, <3>1
    <3> QED
      BY <3>2 DEF Digit
  <2> QED
    BY <2>6, <2>7, <2>8
<1> QED
  BY <1>5, <1>6

(* A piece that is wholly fed has its effect.                              *)
Fed(F, b, p) ==
  /\ F[b + Len(p)].held = <<>>
  /\ F[b + Len(p)].screen = After(F[b].screen, p)
  /\ F[b + Len(p)].upto <= b + Len(p)

(* A character outside all switches is for pyte.                           *)
LEMMA LastTaken ==
  ASSUME NEW data \in Seq(Char), NEW F, Feeds(data, F), NEW k \in 1 .. Len(data),
         F[k - 1].upto <= k - 1, SwitchEnds(data, k) = {}
  PROVE  /\ F[k - 1] \in FeedState /\ data[k] \in Char
         /\ F[k] = Pyte(F[k - 1], data[k])
<1>1. k - 1 \in 0 .. Len(data) /\ ~(k <= k - 1)
  OBVIOUS
<1>2. F[k - 1] \in FeedState /\ F[k] = Takes(F[k - 1], data, k)
  BY <1>1 DEF Feeds
<1>3. F[k - 1].upto \in Nat
  BY <1>2 DEF FeedState
<1>4. ~(k <= F[k - 1].upto)
  BY <1>3
<1> QED
  BY <1>2, <1>4 DEF Takes

(* Fed whole: a text or a new line, ...                                    *)
LEMMA CharacterFed ==
  ASSUME NEW data \in Seq(Char), NEW F, Feeds(data, F),
         NEW p \in {<<t>> : t \in Text} \cup {NewLine},
         NEW b, Has(data, b, p, Len(p)), F[b].held = <<>>, F[b].upto <= b
  PROVE  Fed(F, b, p)
<1>1. PICK c \in Text \cup {"LF"} : p = <<c>>
  BY DEF NewLine
<1>2. Len(p) = 1 /\ p[1] = c
  BY <1>1
<1>3. b \in Nat /\ b + 1 \in 1 .. Len(data) /\ data[b + 1] = c
  BY <1>2 DEF Has
<1>4. c # "ESC"
  BY OutputAssumption
<1>5. SwitchEnds(data, b + 1) = {}
  <2>1. SUFFICES ASSUME NEW j \in SwitchEnds(data, b + 1) PROVE FALSE
    OBVIOUS
  <2> QED
    BY <1>3, <1>4, SwitchEndsAre
<1>6. F[b] \in FeedState /\ c \in Char /\ F[b + 1] = Pyte(F[b], c)
  <2>1. (b + 1) - 1 = b
    BY <1>3
  <2> QED
    BY <1>3, <1>5, <2>1, LastTaken
<1>7. /\ Pyte(F[b], c).held = <<>> /\ Pyte(F[b], c).upto = F[b].upto
      /\ Pyte(F[b], c).screen = Interpret(F[b].screen, <<c>>)
  BY <1>4, <1>6, PyteIs, Zenon
<1>8. p \notin Enters \cup Exits
  BY <1>2, SwitchIs DEF Enters, Exits
<1>9. After(F[b].screen, p) = Interpret(F[b].screen, p)
  BY <1>8 DEF After
<1>10. F[b].upto \in Nat
  BY <1>6 DEF FeedState
<1> QED
  BY <1>1, <1>2, <1>3, <1>6, <1>7, <1>9, <1>10 DEF Fed

(* ... a sequence that pyte keeps until its letter comes, ...              *)
LEMMA EscapeFed ==
  ASSUME NEW data \in Seq(Char), NEW F, Feeds(data, F), NEW p \in {Clear, HideCursor},
         NEW b, Has(data, b, p, Len(p)), F[b].held = <<>>, F[b].upto <= b
  PROVE  Fed(F, b, p)
<1>. DEFINE n == Len(p)
            k == b + n
<1>1. /\ p \in Seq(Char) /\ n \in {4, 6} /\ p[1] = "ESC" /\ p[n] \in Final
      /\ n = 6 => p = HideCursor
  <2>1. CASE p = Clear
    <3>1. p = <<"ESC", "[", "2", "J">>
      BY <2>1, Literals
    <3> QED
      BY <3>1 DEF Char, Digit, Final
  <2>2. CASE p = HideCursor
    <3>1. p = <<"ESC", "[", "?", "2", "5", "l">>
      BY <2>2, Literals
    <3> QED
      BY <2>2, <3>1 DEF Char, Digit, Final
  <2> QED
    BY <2>1, <2>2
<1>2. /\ b \in Nat /\ b + n <= Len(data) /\ \A i \in 1 .. n : data[b + i] = p[i]
  BY DEF Has
<1>. HIDE DEF n
<1>3. \A i \in 1 .. n : SwitchEnds(data, b + i) = {}
  <2>1. n = Len(p) /\ n \in {3, Len(p)} /\ Has(data, b, p, n)
    BY DEF n
  <2>2. n = 3 => p = Clear
    BY <1>1
  <2> QED
    BY <2>1, <2>2, NoSwitchWithin
<1>4. Has(data, b, p, n - 1) /\ n - 1 \in 0 .. n - 1
  BY <1>1, <1>2 DEF Has
<1>5. /\ F[b + (n - 1)].held = SubSeq(p, 1, n - 1)
      /\ F[b + (n - 1)].screen = F[b].screen
      /\ F[b + (n - 1)].upto <= b
  <2>1. \A i \in 1 .. n - 1 : SwitchEnds(data, b + i) = {}
    BY <1>1, <1>3
  <2> QED
    BY <1>4, <2>1, EscapeHeld DEF n
<1>6. /\ k \in 1 .. Len(data) /\ k - 1 = b + (n - 1) /\ b <= k - 1 /\ b <= k
      /\ data[k] = p[n] /\ SwitchEnds(data, k) = {}
  <2>1. n \in Nat /\ n \in 1 .. n /\ n >= 4
    BY <1>1
  <2>2. data[b + n] = p[n] /\ SwitchEnds(data, b + n) = {}
    BY <1>2, <1>3, <2>1
  <2>3. k \in 1 .. Len(data) /\ k - 1 = b + (n - 1) /\ b <= k - 1 /\ b <= k
    BY <1>2, <2>1
  <2> QED
    BY <2>2, <2>3
<1>. HIDE DEF k
<1>. DEFINE r == F[k - 1]
<1>7. r.held = SubSeq(p, 1, n - 1) /\ r.screen = F[b].screen /\ r.upto <= b
  BY <1>5, <1>6
<1>8. F[k - 1].upto <= k - 1
  <2>1. r \in FeedState
    <3>1. k - 1 \in 0 .. Len(data)
      BY <1>6
    <3> QED
      BY <3>1 DEF Feeds
  <2>2. r.upto \in Nat
    BY <2>1 DEF FeedState
  <2>3. k - 1 \in Nat /\ b \in Nat
    BY <1>2, <1>6
  <2> QED
    BY <1>6, <1>7, <2>2, <2>3
<1>9. r \in FeedState /\ p[n] \in Char /\ F[k] = Pyte(r, p[n])
  BY <1>6, <1>8, LastTaken
<1>. HIDE DEF r
<1>10. r.held # <<>> /\ r.held[1] = "ESC"
  <2>1. n = 4 \/ n = 6
    BY <1>1
  <2>2. Len(SubSeq(p, 1, n - 1)) = n - 1 /\ SubSeq(p, 1, n - 1)[1] = p[1]
    <3>1. n - 1 \in 1 .. n
      BY <2>1
    <3>2. n = Len(p)
      BY DEF n
    <3> QED
      BY <1>1, <3>1, <3>2
  <2>3. SubSeq(p, 1, n - 1) # <<>>
    <3>1. n - 1 # 0
      BY <2>1
    <3>2. Len(<<>>) = 0
      OBVIOUS
    <3> QED
      BY <2>2, <3>1, <3>2
  <2> QED
    BY <1>1, <1>7, <2>2, <2>3
<1>11. /\ Pyte(r, p[n]).held = <<>> /\ Pyte(r, p[n]).upto = r.upto
       /\ Pyte(r, p[n]).screen = Interpret(r.screen, Append(r.held, p[n]))
  BY <1>1, <1>9, <1>10, PyteIs, Zenon
<1>12. Append(SubSeq(p, 1, n - 1), p[n]) = p
  BY <1>1 DEF n
<1>13. p \notin Enters \cup Exits
  <2>1. CASE n = 6
    BY <1>1, <2>1, HideCursorSwitchesNothing
  <2>2. CASE n = 4
    <3>1. SUFFICES ASSUME NEW final \in {"h", "l"}, p \in Switch(final) PROVE FALSE
      BY DEF Enters, Exits
    <3>2. Len(p) \in 5 .. 8
      BY <3>1, SwitchIs
    <3>3. n \in 5 .. 8
      BY <3>2 DEF n
    <3> QED
      BY <2>2, <3>3
  <2>3. n = 4 \/ n = 6
    BY <1>1
  <2> QED
    BY <2>1, <2>2, <2>3
<1>14. After(F[b].screen, p) = Interpret(F[b].screen, p)
  BY <1>13 DEF After
<1>15. r.upto \in Nat
  BY <1>9 DEF FeedState
<1>16. F[k].upto <= k
  BY <1>2, <1>6, <1>7, <1>9, <1>11, <1>15
<1>17. F[k].held = <<>> /\ F[k].screen = After(F[b].screen, p)
  BY <1>7, <1>9, <1>11, <1>12, <1>14
<1> QED
  BY <1>16, <1>17 DEF Fed, k, n

(* ... a switch, which the reader takes out, ...                           *)
LEMMA SwitchFed ==
  ASSUME NEW data \in Seq(Char), NEW F, Feeds(data, F), NEW p \in Enters \cup Exits,
         NEW b, Has(data, b, p, Len(p)), F[b].held = <<>>, F[b].upto <= b
  PROVE  Fed(F, b, p)
<1>. DEFINE n == Len(p)
            k == b + n
            s == F[b].screen
<1>1. PICK final \in {"h", "l"} : p \in Switch(final)
  BY DEF Enters, Exits
<1>2. /\ p \in Seq(Char) /\ n \in 5 .. 8 /\ p[1] = "ESC"
      /\ \A i \in 4 .. n - 1 : p[i] \in Digit
      /\ p[n] = final
  BY <1>1, SwitchIs
<1>3. /\ b \in Nat /\ b + n <= Len(data) /\ \A i \in 1 .. n : data[b + i] = p[i]
  BY DEF Has
<1>4. SubSeq(data, b + 1, k) = p
  <2>. DEFINE q == SubSeq(data, b + 1, k)
  <2>1. \A i \in b + 1 .. k : data[i] \in Char
    BY <1>2, <1>3
  <2>2. b + 1 \in Int /\ k \in Int /\ b + 1 <= k /\ k - (b + 1) + 1 = n
    <3>1. b \in Nat /\ n \in 5 .. 8 /\ k = b + n
      BY <1>2, <1>3
    <3>. HIDE DEF k, n
    <3> QED
      BY <3>1
  <2>3. q \in Seq(Char) /\ Len(q) = n /\ \A i \in 1 .. n : q[i] = data[(b + 1) + i - 1]
    <3>. HIDE DEF k, n
    <3> QED
      BY <2>1, <2>2, SubSeqProperties
  <2>4. ASSUME NEW i \in 1 .. n PROVE q[i] = p[i]
    <3>1. (b + 1) + i - 1 = b + i
      BY <1>2, <1>3
    <3> QED
      BY <1>3, <2>3, <3>1
  <2>. HIDE DEF q
  <2>5. q = p
    BY <1>2, <2>3, <2>4, SeqEqual
  <2> QED
    BY <2>5 DEF q
<1>. HIDE DEF n
<1>5. SwitchEnds(data, b + 1) = {k}
  <2>1. k \in SwitchEnds(data, b + 1)
    <3>1. k \in b + 1 .. Len(data)
      BY <1>2, <1>3
    <3>2. SubSeq(data, b + 1, k) \in Enters \cup Exits
      BY <1>4
    <3>. HIDE DEF k
    <3> QED
      BY <3>1, <3>2 DEF SwitchEnds
  <2>2. ASSUME NEW j \in SwitchEnds(data, b + 1) PROVE j = k
    <3>1. b + 1 \in 1 .. Len(data)
      BY <1>2, <1>3
    <3>2. PICK m \in 5 .. 8 :
            /\ j = (b + 1) + m - 1 /\ j <= Len(data)
            /\ \A x \in 4 .. m - 1 : data[(b + 1) + x - 1] \in Digit
            /\ data[j] \in {"h", "l"}
      BY <3>1, SwitchEndsAre
    <3>3. j = b + m /\ \A x \in 4 .. m - 1 : (b + 1) + x - 1 = b + x
      BY <1>3, <3>2
    <3>4. "h" \notin Digit /\ "l" \notin Digit
      BY DEF Digit
    <3>5. CASE m < n
      <4>1. m \in 4 .. n - 1 /\ m \in 1 .. n
        BY <1>2, <3>5
      <4>2. data[b + m] \in Digit
        BY <1>2, <1>3, <4>1
      <4> QED
        BY <3>2, <3>3, <3>4, <4>2
    <3>6. CASE m > n
      <4>1. n \in 4 .. m - 1 /\ n \in 1 .. n
        BY <1>2, <3>6
      <4>2. data[b + n] \in Digit
        BY <3>2, <3>3, <4>1
      <4>3. data[b + n] = final
        BY <1>2, <1>3, <4>1
      <4> QED
        BY <3>4, <4>2, <4>3
    <3> QED
      BY <1>2, <3>3, <3>5, <3>6
  <2> QED
    BY <2>1, <2>2
<1>6. b + 1 \in 1 .. Len(data) /\ (b + 1) - 1 = b /\ k \in Nat /\ b \in 0 .. Len(data)
  BY <1>2, <1>3
<1>7. F[b] \in FeedState /\ F[b + 1] = Takes(F[b], data, b + 1)
  BY <1>6 DEF Feeds
<1>8. /\ F[b + 1].upto = k /\ F[b + 1].held = <<>>
      /\ F[b + 1].screen = OnAltScreen(s, p \in Enters)
  <2>1. ~(b + 1 <= F[b].upto)
    <3>1. F[b].upto \in Nat
      BY <1>7 DEF FeedState
    <3> QED
      BY <1>3, <3>1
  <2>2. (CHOOSE j \in SwitchEnds(data, b + 1) : TRUE) = k
    BY <1>5
  <2>. HIDE DEF k
  <2>. DEFINE j == CHOOSE j \in SwitchEnds(data, b + 1) : TRUE
  <2>3. F[b + 1] = [F[b] EXCEPT !.upto = j,
                                !.screen = OnAltScreen(s, SubSeq(data, b + 1, j) \in Enters)]
    BY <1>5, <1>7, <2>1 DEF Takes
  <2>. DEFINE e == OnAltScreen(s, SubSeq(data, b + 1, j) \in Enters)
  <2>4. e = OnAltScreen(s, p \in Enters)
    BY <1>4, <2>2
  <2>5. j = k
    BY <2>2
  <2>. HIDE DEF e, j
  <2>6. F[b + 1] = [F[b] EXCEPT !.upto = j, !.screen = e]
    BY <2>3 DEF e
  <2>7. F[b + 1].upto = j /\ F[b + 1].held = F[b].held /\ F[b + 1].screen = e
    BY <1>7, <2>6 DEF FeedState
  <2> QED
    BY <2>4, <2>5, <2>7
<1>. DEFINE T == {i \in Nat : i <= n - 1 => F[(b + 1) + i] = F[b + 1]}
<1>9. 0 \in T
  BY <1>6
<1>10. ASSUME NEW i \in Nat, i \in T PROVE i + 1 \in T
  <2>. DEFINE x == (b + 1) + (i + 1)
  <2>1. SUFFICES ASSUME i + 1 <= n - 1 PROVE F[x] = F[b + 1]
    OBVIOUS
  <2>2. x \in 1 .. Len(data) /\ x - 1 = (b + 1) + i /\ x <= k
    BY <1>2, <1>3, <2>1
  <2>3. F[x - 1] = F[b + 1]
    BY <1>2, <1>10, <2>1, <2>2
  <2>. HIDE DEF x
  <2>4. F[x] = Takes(F[b + 1], data, x)
    BY <2>2, <2>3 DEF Feeds
  <2> QED
    BY <1>8, <2>2, <2>4 DEF Takes
<1>11. Nat \subseteq T
  <2>. HIDE DEF T
  <2> QED
    BY <1>9, <1>10, Induction
<1>12. F[k] = F[b + 1]
  <2>1. n - 1 \in T /\ n - 1 <= n - 1 /\ (b + 1) + (n - 1) = k
    <3>1. n - 1 \in Nat /\ n - 1 <= n - 1 /\ (b + 1) + (n - 1) = k
      BY <1>2, <1>3
    <3>. HIDE DEF T
    <3> QED
      BY <1>11, <3>1
  <2> QED
    BY <2>1
<1>13. After(s, p) = OnAltScreen(s, p \in Enters)
  BY DEF After
<1> QED
  BY <1>6, <1>8, <1>12, <1>13 DEF Fed, n, k

(* ... so every piece.                                                     *)
LEMMA PieceFed ==
  ASSUME NEW data \in Seq(Char), NEW F, Feeds(data, F), NEW p \in Piece,
         NEW b, Has(data, b, p, Len(p)), F[b].held = <<>>, F[b].upto <= b
  PROVE  Fed(F, b, p)
BY CharacterFed, EscapeFed, SwitchFed DEF Piece

-----------------------------------------------------------------------------
(* Chunks.                                                                 *)

(* Later pieces have later places.                                         *)
LEMMA LayoutGrows ==
  ASSUME NEW ps \in Seq(Piece), NEW all, NEW at, Layout(ps, all, at),
         NEW j \in 0 .. Len(ps), NEW k \in j .. Len(ps)
  PROVE  at[j] \in Nat /\ at[k] \in Nat /\ at[j] <= at[k]
<1>. DEFINE n == Len(ps)
            T == {d \in Nat : j + d <= n => at[j] <= at[j + d]}
<1>1. /\ n \in Nat /\ \A i \in 0 .. n : at[i] \in Nat
      /\ \A i \in 1 .. n : at[i] = at[i - 1] + Len(ps[i]) /\ Len(ps[i]) \in Nat
  <2>1. ASSUME NEW i \in 1 .. n PROVE ps[i] \in Seq(Char) /\ Len(ps[i]) \in Nat
    <3>1. ps[i] \in Piece
      OBVIOUS
    <3>2. ps[i] \in Seq(Char)
      BY <3>1, PieceIs
    <3> QED
      BY <3>2
  <2>2. n \in Nat
    OBVIOUS
  <2>3. \A i \in 0 .. n : at[i] \in Nat
    BY DEF Layout
  <2>4. \A i \in 1 .. n : at[i] = at[i - 1] + Len(ps[i])
    BY DEF Layout
  <2> QED
    BY <2>1, <2>2, <2>3, <2>4
<1>2. j \in 0 .. n /\ k \in j .. n
  OBVIOUS
<1>. HIDE DEF n
<1>3. 0 \in T
  BY <1>1, <1>2
<1>4. ASSUME NEW d \in Nat, d \in T PROVE d + 1 \in T
  <2>1. SUFFICES ASSUME j + (d + 1) <= n PROVE at[j] <= at[j + (d + 1)]
    OBVIOUS
  <2>. DEFINE x == j + (d + 1)
  <2>2. x \in 1 .. n /\ x - 1 = j + d /\ j + d <= n /\ x - 1 \in 0 .. n /\ x \in 0 .. n
    BY <1>1, <1>2, <2>1
  <2>3. at[j] <= at[x - 1]
    BY <1>4, <2>2
  <2>. HIDE DEF x
  <2>4. at[x] = at[x - 1] + Len(ps[x]) /\ Len(ps[x]) \in Nat /\ at[x - 1] \in Nat /\ at[j] \in Nat
    BY <1>1, <1>2, <2>2
  <2>5. at[j] <= at[x]
    BY <2>3, <2>4
  <2> QED
    BY <2>5 DEF x
<1>5. Nat \subseteq T
  <2>. HIDE DEF T
  <2> QED
    BY <1>3, <1>4, Induction
<1>6. k - j \in T /\ j + (k - j) = k
  <2>1. k - j \in Nat /\ j + (k - j) = k
    BY <1>1, <1>2
  <2>. HIDE DEF T
  <2> QED
    BY <1>5, <2>1
<1>7. at[j] <= at[k]
  BY <1>1, <1>2, <1>6
<1> QED
  BY <1>1, <1>2, <1>7

(* data is all after its first h characters and up to number to.           *)
IsPartOf(data, all, h, to) ==
  /\ h \in Nat /\ to \in Nat /\ h <= to /\ to <= Len(all)
  /\ data \in Seq(Char) /\ Len(data) = to - h
  /\ \A x \in 1 .. to - h : data[x] = all[h + x]

(* Character number to is in piece k + 1, or the last one of piece k.      *)
EndsAfter(ps, at, to, k) ==
  /\ k \in 0 .. Len(ps) /\ at[k] <= to
  /\ k < Len(ps) => to < at[k + 1]

(* A part of the output has the pieces within it.                          *)
LEMMA HasPiece ==
  ASSUME NEW ps \in Seq(Piece), NEW all, NEW at, Layout(ps, all, at),
         NEW data, NEW h, NEW to, IsPartOf(data, all, h, to),
         NEW k \in 1 .. Len(ps), h <= at[k - 1], NEW m \in 0 .. Len(ps[k]), at[k - 1] + m <= to
  PROVE  Has(data, at[k - 1] - h, ps[k], m)
<1>1. at[k - 1] \in Nat /\ h \in Nat /\ to \in Nat /\ Len(data) = to - h /\ Len(ps[k]) \in Nat
  <2>1. ps[k] \in Seq(Char)
    BY PieceIs
  <2>2. k - 1 \in 0 .. Len(ps)
    OBVIOUS
  <2>3. at[k - 1] \in Nat
    BY <2>2 DEF Layout
  <2>4. h \in Nat /\ to \in Nat /\ Len(data) = to - h
    BY DEF IsPartOf
  <2>5. Len(ps[k]) \in Nat
    BY <2>1
  <2> QED
    BY <2>3, <2>4, <2>5
<1>2. \A i \in 1 .. Len(ps[k]) : all[at[k - 1] + i] = ps[k][i]
  BY DEF Layout
<1>. DEFINE a == at[k - 1]
            b == a - h
            l == Len(ps[k])
<1>. HIDE DEF a, l
<1>3. a \in Nat /\ h <= a /\ a + m <= to /\ b \in Nat /\ l \in Nat /\ m \in 0 .. l
  BY <1>1 DEF a, l
<1>4. ASSUME NEW i \in 1 .. m PROVE data[b + i] = ps[k][i]
  <2>1. b + i \in 1 .. to - h /\ h + (b + i) = a + i /\ i \in 1 .. l
    BY <1>1, <1>3
  <2>2. data[b + i] = all[h + (b + i)]
    BY <2>1 DEF IsPartOf
  <2>3. all[a + i] = ps[k][i]
    BY <1>2, <2>1 DEF a, l
  <2> QED
    BY <2>1, <2>2, <2>3
<1>5. b \in Nat /\ b + m <= Len(data)
  BY <1>1, <1>3
<1> QED
  BY <1>4, <1>5 DEF Has, a

(* s, of m characters, is the start of the piece after the first k.        *)
StartsNext(ps, all, at, k, m, s) ==
  LET rest == SubSeq(ps, k + 1, Len(ps))
  IN  /\ at[k] \in Nat /\ m \in Nat /\ s \in Seq(Char) /\ Len(s) = m
      /\ rest \in Seq(Piece)
      /\ rest = <<>> => m = 0
      /\ rest # <<>> =>
           /\ rest[1] = ps[k + 1] /\ k + 1 \in 1 .. Len(ps)
           /\ m < Len(ps[k + 1])
           /\ s = SubSeq(ps[k + 1], 1, m)
      /\ \A i \in 1 .. m : all[at[k] + i] = s[i]

(* What is left over is the start of the next piece.                       *)
LEMMA NextStart ==
  ASSUME NEW ps \in Seq(Piece), NEW all, NEW at, Layout(ps, all, at),
         NEW to \in Nat, to <= Len(all), NEW k, EndsAfter(ps, at, to, k)
  PROVE  StartsNext(ps, all, at, k, to - at[k],
                    Start(SubSeq(ps, k + 1, Len(ps)), to - at[k]))
<1>. DEFINE n == Len(ps)
            m == to - at[k]
            rest == SubSeq(ps, k + 1, n)
            s == Start(rest, m)
<1>0. SUFFICES StartsNext(ps, all, at, k, m, s)
  OBVIOUS
<1>1. /\ n \in Nat /\ k \in 0 .. n /\ at[k] \in Nat /\ at[k] <= to /\ m \in Nat
      /\ at[n] = Len(all)
  BY DEF Layout, EndsAfter
<1>2. CASE k = n
  <2>1. rest = <<>>
    BY <1>1, <1>2, SubSeqEmpty
  <2>2. m = 0
    BY <1>1, <1>2
  <2>3. s = <<>> /\ Len(s) = 0 /\ s \in Seq(Char) /\ rest \in Seq(Piece)
    <3>1. s = <<>>
      BY <2>1 DEF Start
    <3>. HIDE DEF s, rest
    <3> QED
      BY <2>1, <3>1
  <2>. HIDE DEF m, s, rest, n
  <2>4. /\ \A i \in 1 .. m : all[at[k] + i] = s[i]
    BY <2>2
  <2> QED
    BY <1>1, <2>1, <2>2, <2>3, <2>4 DEF StartsNext, rest, n
<1>3. CASE k < n
  <2>1. /\ k + 1 \in 1 .. n /\ (k + 1) - 1 = k /\ to < at[k + 1]
    BY <1>1, <1>3 DEF EndsAfter
  <2>. DEFINE p == ps[k + 1]
  <2>2. p \in Piece /\ p \in Seq(Char) /\ Len(p) \in Nat
    BY <2>1, PieceIs
  <2>3. /\ at[k + 1] = at[k] + Len(p)
        /\ \A i \in 1 .. Len(p) : all[at[k] + i] = p[i]
    BY <2>1 DEF Layout
  <2>4. /\ rest \in Seq(Piece) /\ Len(rest) = n - k /\ rest[1] = p
    <3>1. \A i \in k + 1 .. n : ps[i] \in Piece
      BY <1>1
    <3>2. n - (k + 1) + 1 = n - k /\ 1 \in 1 .. n - (k + 1) + 1 /\ (k + 1) + 1 - 1 = k + 1 /\ k + 1 \in Int /\ n \in Int
      BY <1>1, <1>3
    <3>. HIDE DEF n
    <3> QED
      BY <3>1, <3>2, <2>1, SubSeqProperties
  <2>5. rest # <<>>
    <3>. HIDE DEF rest
    <3>1. Len(rest) # 0
      BY <1>1, <1>3, <2>4
    <3>2. Len(<<>>) = 0
      OBVIOUS
    <3> QED
      BY <3>1, <3>2
  <2>. HIDE DEF rest
  <2>6. s = SubSeq(p, 1, m)
    BY <2>4, <2>5 DEF Start
  <2>. HIDE DEF p, s
  <2>7. m < Len(p)
    BY <1>1, <2>1, <2>2, <2>3
  <2>. HIDE DEF m
  <2>8. s \in Seq(Char) /\ Len(s) = m /\ \A i \in 1 .. m : s[i] = p[i] /\ i \in 1 .. Len(p)
    <3>1. m \in Nat /\ m <= Len(p)
      BY <1>1, <2>2, <2>7
    <3>2. \A i \in 1 .. m : i \in 1 .. Len(p)
      BY <2>2, <3>1
    <3>3. \A i \in 1 .. m : p[i] \in Char
      BY <2>2, <3>2
    <3>4. m - 1 + 1 = m /\ (IF 1 <= m THEN m - 1 + 1 ELSE 0) = m /\ 1 \in Int /\ m \in Int
          /\ \A i \in 1 .. m : 1 + i - 1 = i
      BY <3>1
    <3> QED
      BY <2>6, <3>2, <3>3, <3>4, SubSeqProperties
  <2>9. \A i \in 1 .. m : all[at[k] + i] = s[i]
    BY <2>3, <2>8
  <2> QED
    BY <1>1, <2>1, <2>4, <2>5, <2>6, <2>7, <2>8, <2>9 DEF StartsNext, rest, p
<1>4. k = n \/ k < n
  BY <1>1
<1> QED
  BY <1>2, <1>3, <1>4

(* Every character is one of a piece.                                      *)
LEMMA InPiece ==
  ASSUME NEW ps \in Seq(Piece), NEW all, NEW at, Layout(ps, all, at),
         NEW k \in 0 .. Len(ps), NEW x \in 1 .. at[k]
  PROVE  \E j \in 1 .. k : at[j - 1] < x /\ x <= at[j]
<1>. DEFINE n == Len(ps)
            T == {d \in Nat : d <= k /\ x <= at[d]}
<1>1. /\ n \in Nat /\ at[0] = 0 /\ \A i \in 0 .. n : at[i] \in Nat
  <2>1. n \in Nat
    OBVIOUS
  <2>2. at[0] = 0 /\ \A i \in 0 .. n : at[i] \in Nat
    BY DEF Layout
  <2> QED
    BY <2>1, <2>2
<1>2. k \in 0 .. n /\ x \in Nat \ {0} /\ x <= at[k]
  <2>1. at[k] \in Nat
    BY <1>1
  <2> QED
    BY <2>1
<1>. HIDE DEF n
<1>3. T \subseteq Nat /\ T # {}
  <2>1. k \in T
    BY <1>1, <1>2
  <2> QED
    BY <2>1
<1>4. PICK j \in T : \A i \in T : j <= i
  <2>. HIDE DEF T
  <2> QED
    BY <1>3, Least
<1>5. j \in 1 .. k
  BY <1>1, <1>2
<1>6. j - 1 \notin T /\ j - 1 \in 0 .. n /\ j - 1 \in Nat /\ j - 1 <= k
  <2>1. j - 1 \in Nat /\ ~(j <= j - 1) /\ j - 1 <= k /\ j - 1 \in 0 .. n
    BY <1>1, <1>2, <1>5
  <2>. HIDE DEF T
  <2> QED
    BY <1>4, <2>1
<1>7. at[j - 1] \in Nat /\ ~(x <= at[j - 1])
  BY <1>1, <1>6
<1>8. at[j - 1] < x
  BY <1>2, <1>7
<1> QED
  BY <1>5, <1>8

(* Where ESC is among whole pieces, a letter follows among them.           *)
LEMMA LetterFollows ==
  ASSUME NEW ps \in Seq(Piece), NEW all, NEW at, Layout(ps, all, at),
         NEW k \in 0 .. Len(ps), NEW x \in 1 .. at[k], all[x] = "ESC"
  PROVE  \E y \in x .. at[k] : all[y] \in Final
<1>1. PICK j \in 1 .. k : at[j - 1] < x /\ x <= at[j]
  BY InPiece
<1>2. j \in 1 .. Len(ps) /\ j \in 0 .. Len(ps) /\ j - 1 \in 0 .. Len(ps) /\ k \in j .. Len(ps)
  <2>. DEFINE n == Len(ps)
  <2>1. n \in Nat /\ k \in 0 .. n
    OBVIOUS
  <2>. HIDE DEF n
  <2>2. j \in 1 .. n /\ j \in 0 .. n /\ j - 1 \in 0 .. n /\ k \in j .. n
    BY <2>1
  <2> QED
    BY <2>2 DEF n
<1>. DEFINE p == ps[j]
            l == Len(p)
            a == at[j - 1]
<1>3. /\ p \in Piece /\ p \in Seq(Char) /\ l \in 1 .. 8
      /\ p[1] = "ESC" => p[l] \in Final
      /\ \A i \in 2 .. l : p[i] # "ESC"
  <2>1. p \in Piece
    BY <1>2
  <2> QED
    BY <2>1, PieceIs
<1>4. at[j] = a + l /\ \A i \in 1 .. l : all[a + i] = p[i]
  BY <1>2 DEF Layout
<1>5. a \in Nat /\ at[j] \in Nat /\ at[k] \in Nat /\ at[j] <= at[k]
  <2>1. at[j] \in Nat /\ at[k] \in Nat /\ at[j] <= at[k]
    BY <1>2, LayoutGrows
  <2>2. a \in Nat
    BY <1>2 DEF Layout
  <2> QED
    BY <2>1, <2>2
<1>. HIDE DEF p, l, a
<1>6. a < x /\ x \in Nat
  <2>1. a < x
    BY <1>1 DEF a
  <2> QED
    BY <1>5, <2>1
<1>7. x - a \in 1 .. l /\ a + (x - a) = x
  BY <1>1, <1>3, <1>4, <1>5, <1>6
<1>8. p[x - a] = "ESC"
  BY <1>4, <1>7
<1>9. x - a = 1
  <2>. DEFINE i == x - a
  <2>1. i \in 1 .. l /\ p[i] = "ESC"
    BY <1>7, <1>8
  <2>. HIDE DEF i
  <2>2. i = 1
    BY <1>3, <2>1
  <2> QED
    BY <2>2 DEF i
<1>10. all[at[j]] \in Final
  <2>1. l \in 1 .. l
    BY <1>3
  <2> QED
    BY <1>3, <1>4, <1>8, <1>9, <2>1
<1>11. at[j] \in x .. at[k]
  BY <1>1, <1>5, <1>6
<1> QED
  BY <1>10, <1>11

(* What is held back is the start of the piece that is cut, or nothing.    *)
LEMMA PartialAtIs ==
  ASSUME NEW ps \in Seq(Piece), NEW all, NEW at, Layout(ps, all, at),
         NEW data, NEW h, NEW to, IsPartOf(data, all, h, to),
         NEW k, EndsAfter(ps, at, to, k), h <= at[k]
  PROVE  LET c == at[k] - h
             s == Start(SubSeq(ps, k + 1, Len(ps)), to - at[k])
         IN  PartialAt(data) = {IF IsPartial(s) THEN c + 1 ELSE Len(data) + 1}
<1>. DEFINE c == at[k] - h
            m == to - at[k]
            rest == SubSeq(ps, k + 1, Len(ps))
            s == Start(rest, m)
            starts == {i \in 1 .. Len(data) : IsPartial(SubSeq(data, i, Len(data)))}
<1>1. /\ h \in Nat /\ to \in Nat /\ to <= Len(all) /\ h <= to
      /\ data \in Seq(Char) /\ Len(data) = to - h
      /\ \A x \in 1 .. to - h : data[x] = all[h + x]
  BY DEF IsPartOf
<1>2. /\ at[k] \in Nat /\ m \in Nat /\ s \in Seq(Char) /\ Len(s) = m
      /\ \A i \in 1 .. m : all[at[k] + i] = s[i]
      /\ \A i \in 2 .. m : s[i] # "ESC"
  <2>1. /\ at[k] \in Nat /\ m \in Nat /\ s \in Seq(Char) /\ Len(s) = m
        /\ rest = <<>> => m = 0
        /\ rest # <<>> =>
             /\ k + 1 \in 1 .. Len(ps)
             /\ m < Len(ps[k + 1])
             /\ s = SubSeq(ps[k + 1], 1, m)
        /\ \A i \in 1 .. m : all[at[k] + i] = s[i]
    <3>. HIDE DEF m, s, rest
    <3>1. StartsNext(ps, all, at, k, m, s)
      BY <1>1, NextStart DEF m, s, rest
    <3> QED
      BY <3>1 DEF StartsNext, rest
  <2>. HIDE DEF m, s, rest
  <2>2. ASSUME NEW i \in 2 .. m PROVE s[i] # "ESC"
    <3>1. m # 0
      BY <2>1
    <3>2. /\ k + 1 \in 1 .. Len(ps) /\ m < Len(ps[k + 1]) /\ s = SubSeq(ps[k + 1], 1, m)
      BY <2>1, <3>1
    <3>. DEFINE p == ps[k + 1]
    <3>3. p \in Piece
      BY <3>2
    <3>4. p \in Seq(Char) /\ \A x \in 2 .. Len(p) : p[x] # "ESC"
      BY <3>3, PieceIs
    <3>5. m < Len(p) /\ s = SubSeq(p, 1, m)
      BY <3>2
    <3>. HIDE DEF p
    <3>6. s[i] = p[i] /\ i \in 2 .. Len(p)
      BY <2>1, <3>4, <3>5
    <3> QED
      BY <3>4, <3>6
  <2> QED
    BY <2>1, <2>2
<1>3. /\ c \in Nat /\ Len(data) = c + m
      /\ \A i \in 1 .. m : c + i \in 1 .. to - h /\ h + (c + i) = at[k] + i
  <2>. DEFINE a == at[k]
  <2>1. h \in Nat /\ to \in Nat /\ a \in Nat /\ h <= a /\ m = to - a /\ c = a - h /\ m \in Nat
    BY <1>1, <1>2
  <2>2. Len(data) = to - h
    BY <1>1
  <2>. HIDE DEF a, c, m, s
  <2>3. c \in Nat /\ Len(data) = c + m
    BY <2>1, <2>2
  <2>4. ASSUME NEW i \in 1 .. m PROVE c + i \in 1 .. to - h /\ h + (c + i) = a + i
    BY <2>1
  <2> QED
    BY <2>3, <2>4 DEF a
<1>4. \A i \in 1 .. m : data[c + i] = s[i]
  <2>. HIDE DEF c, m, s
  <2> QED
    BY <1>1, <1>2, <1>3
<1>. HIDE DEF m, s
<1>5. ASSUME NEW i \in 1 .. c, data[i] = "ESC"
      PROVE  \E y \in i .. c : data[y] \in Final
  <2>. DEFINE a == at[k]
  <2>1. /\ h \in Nat /\ a \in Nat /\ h <= a /\ c = a - h /\ c \in Nat /\ to \in Nat
        /\ a <= to
    <3>1. a <= to
      BY DEF EndsAfter
    <3> QED
      BY <1>1, <1>2, <1>3, <3>1
  <2>. HIDE DEF a, c
  <2>2. h + i \in 1 .. a /\ i \in 1 .. to - h
    BY <2>1
  <2>3. all[h + i] = "ESC"
    BY <1>1, <1>5, <2>2
  <2>4. k \in 0 .. Len(ps)
    BY DEF EndsAfter
  <2>5. PICK y \in h + i .. a : all[y] \in Final
    BY <2>2, <2>3, <2>4, LetterFollows DEF a
  <2>6. y - h \in i .. c /\ y - h \in 1 .. to - h /\ h + (y - h) = y
    BY <2>1
  <2>7. data[y - h] = all[y]
    BY <1>1, <2>6
  <2> QED
    BY <2>5, <2>6, <2>7
<1>. HIDE DEF c
<1>6. ASSUME NEW i \in 1 .. Len(data), IsPartial(SubSeq(data, i, Len(data)))
      PROVE  i = c + 1
  <2>. DEFINE q == SubSeq(data, i, Len(data))
              l == Len(data)
  <2>1. /\ q \in Seq(Char) /\ Len(q) = l - i + 1
        /\ \A x \in 1 .. l - i + 1 : q[x] = data[i + x - 1]
    <3>1. \A x \in i .. l : data[x] \in Char
      BY <1>1
    <3>2. i \in Int /\ l \in Int /\ i <= l
      BY <1>1
    <3>. HIDE DEF l
    <3>3. /\ q \in Seq(Char) /\ Len(q) = IF i <= l THEN l - i + 1 ELSE 0
          /\ \A x \in 1 .. l - i + 1 : q[x] = data[i + x - 1]
      BY <3>1, <3>2, SubSeqProperties DEF l
    <3> QED
      BY <3>2, <3>3
  <2>. HIDE DEF q
  <2>2. q[1] = "ESC" /\ \A x \in 1 .. Len(q) : q[x] \in {"ESC", "[", "?"} \cup Digit
    <3>1. IsPartial(q)
      BY <1>6 DEF q
    <3> QED
      BY <2>1, <3>1, PartialIs
  <2>3. l \in Nat /\ l = c + m /\ i \in 1 .. l
    BY <1>1, <1>3
  <2>. HIDE DEF l
  <2>4. CASE i <= c
    <3>1. i \in 1 .. c /\ 1 \in 1 .. l - i + 1 /\ i + 1 - 1 = i
      BY <1>2, <1>3, <2>3, <2>4
    <3>2. data[i] = "ESC"
      BY <2>1, <2>2, <3>1
    <3>3. PICK y \in i .. c : data[y] \in Final
      BY <1>5, <3>1, <3>2
    <3>. DEFINE x == y - i + 1
    <3>4. x \in 1 .. l - i + 1 /\ i + x - 1 = y
      BY <1>2, <1>3, <2>3, <2>4
    <3>. HIDE DEF x
    <3>5. q[x] = data[y] /\ q[x] \in {"ESC", "[", "?"} \cup Digit
      BY <2>1, <2>2, <3>4
    <3>6. data[y] \notin {"ESC", "[", "?"} \cup Digit
      BY <3>3 DEF Final, Digit
    <3> QED
      BY <3>5, <3>6
  <2>5. CASE i > c + 1
    <3>. DEFINE x == i - c
    <3>1. x \in 2 .. m /\ x \in 1 .. m /\ c + x = i /\ 1 \in 1 .. l - i + 1 /\ i + 1 - 1 = i
      BY <1>2, <1>3, <2>3, <2>5
    <3>. HIDE DEF x
    <3>2. q[1] = data[i]
      BY <2>1, <3>1
    <3>3. data[i] = s[x] /\ s[x] # "ESC"
      BY <1>2, <1>4, <3>1
    <3> QED
      BY <2>2, <3>2, <3>3
  <2> QED
    BY <1>3, <2>3, <2>4, <2>5
<1>7. c + 1 \in 1 .. Len(data) => SubSeq(data, c + 1, Len(data)) = s
  <2>. DEFINE q == SubSeq(data, c + 1, Len(data))
              l == Len(data)
  <2>1. SUFFICES ASSUME c + 1 \in 1 .. l PROVE q = s
    OBVIOUS
  <2>2. \A x \in c + 1 .. l : data[x] \in Char
    BY <1>1, <1>3
  <2>3. /\ c + 1 \in Int /\ l \in Int /\ c + 1 <= l /\ l - (c + 1) + 1 = m
        /\ \A x \in 1 .. m : (c + 1) + x - 1 = c + x
    BY <1>2, <1>3, <2>1
  <2>. HIDE DEF l
  <2>4. q \in Seq(Char) /\ Len(q) = m /\ \A x \in 1 .. m : q[x] = data[c + x]
    BY <2>2, <2>3, SubSeqProperties DEF l
  <2>. HIDE DEF q
  <2>5. \A x \in 1 .. m : q[x] = s[x]
    BY <1>4, <2>4
  <2> QED
    BY <1>2, <2>4, <2>5, SeqEqual
<1>8. IsPartial(s) => m >= 1 /\ c + 1 \in 1 .. Len(data)
  <2>1. SUFFICES ASSUME IsPartial(s) PROVE m >= 1 /\ c + 1 \in 1 .. Len(data)
    OBVIOUS
  <2>2. Len(s) \in 1 .. 7
    BY <1>2, <2>1, PartialIs
  <2> QED
    BY <1>2, <1>3, <2>2
<1>9. CASE IsPartial(s)
  <2>1. starts = {c + 1}
    BY <1>6, <1>7, <1>8, <1>9
  <2>2. PartialAt(data) = {c + 1}
    BY <2>1 DEF PartialAt
  <2> QED
    BY <1>9, <2>2 DEF c, s, m
<1>10. CASE ~IsPartial(s)
  <2>1. starts = {}
    BY <1>6, <1>7, <1>10
  <2>2. PartialAt(data) = {Len(data) + 1}
    BY <2>1 DEF PartialAt
  <2> QED
    BY <1>10, <2>2 DEF c, s, m
<1> QED
  BY <1>9, <1>10

(* After the first k pieces nothing is held, and f[k] is on the screen.    *)
FedUpTo(F, f, b, k) == F[b].held = <<>> /\ F[b].screen = f[k] /\ F[b].upto <= b

(* Pieces that are fed whole have their effects in turn.                   *)
LEMMA PiecesFed ==
  ASSUME NEW ps \in Seq(Piece), NEW all, NEW at, Layout(ps, all, at),
         NEW data, NEW h, NEW to, IsPartOf(data, all, h, to),
         NEW F, Feeds(data, F),
         NEW f, \A i \in 1 .. Len(ps) : f[i] = After(f[i - 1], ps[i]),
         NEW j \in 0 .. Len(ps), h <= at[j], FedUpTo(F, f, at[j] - h, j),
         NEW k \in j .. Len(ps), at[k] <= to
  PROVE  FedUpTo(F, f, at[k] - h, k)
<1>. DEFINE n == Len(ps)
            T == {d \in Nat : j + d <= k => FedUpTo(F, f, at[j + d] - h, j + d)}
<1>1. n \in Nat /\ j \in 0 .. n /\ k \in j .. n
  OBVIOUS
<1>2. 0 \in T
  <2>1. j + 0 = j
    BY <1>1
  <2> QED
    BY <2>1
<1>3. ASSUME NEW d \in Nat, d \in T PROVE d + 1 \in T
  <2>. DEFINE x == j + (d + 1)
  <2>1. SUFFICES ASSUME x <= k PROVE FedUpTo(F, f, at[x] - h, x)
    OBVIOUS
  <2>2. x \in 1 .. n /\ x \in 0 .. n /\ x - 1 = j + d /\ j + d <= k /\ x - 1 \in j .. n /\ x - 1 \in 0 .. n /\ k \in x .. n
    BY <1>1, <2>1
  <2>3. FedUpTo(F, f, at[x - 1] - h, x - 1)
    BY <1>3, <2>2
  <2>. HIDE DEF x
  <2>4. ps[x] \in Piece /\ ps[x] \in Seq(Char) /\ Len(ps[x]) \in Nat
    <3>1. ps[x] \in Piece
      BY <2>2
    <3>2. ps[x] \in Seq(Char)
      BY <3>1, PieceIs
    <3> QED
      BY <3>1, <3>2
  <2>5. at[j] <= at[x - 1] /\ at[j] \in Nat /\ at[x - 1] \in Nat
    BY <2>2, LayoutGrows
  <2>6. at[x] <= at[k] /\ at[x] \in Nat /\ at[k] \in Nat
    BY <2>2, LayoutGrows
  <2>7. at[x] = at[x - 1] + Len(ps[x])
    BY <2>2 DEF Layout
  <2>8. h \in Nat /\ to \in Nat /\ data \in Seq(Char)
    BY DEF IsPartOf
  <2>. DEFINE b == at[x - 1] - h
              l == Len(ps[x])
  <2>9. h <= at[x - 1] /\ at[x - 1] + l <= to /\ at[x] - h = b + l /\ l \in 0 .. l
    <3>. DEFINE a == at[x - 1]
                e == at[k]
                g == at[j]
                c == at[x]
    <3>1. /\ l \in Nat /\ a \in Nat /\ e \in Nat /\ g \in Nat /\ c \in Nat
          /\ g <= a /\ c <= e /\ c = a + l /\ e <= to /\ h <= g
          /\ h \in Nat /\ to \in Nat
      BY <2>4, <2>5, <2>6, <2>7, <2>8
    <3>. HIDE DEF l, a, e, g, c, b
    <3>2. h <= a /\ a + l <= to /\ c - h = (a - h) + l /\ l \in 0 .. l
      BY <3>1
    <3> QED
      BY <3>2 DEF a, c, b
  <2>10. Has(data, b, ps[x], l)
    BY <2>2, <2>9, HasPiece
  <2>11. F[b].held = <<>> /\ F[b].upto <= b /\ F[b].screen = f[x - 1]
    BY <2>3 DEF FedUpTo
  <2>12. Fed(F, b, ps[x])
    BY <2>4, <2>8, <2>10, <2>11, PieceFed
  <2>13. /\ F[b + l].held = <<>> /\ F[b + l].screen = After(f[x - 1], ps[x])
         /\ F[b + l].upto <= b + l
    BY <2>11, <2>12 DEF Fed
  <2>14. f[x] = After(f[x - 1], ps[x])
    BY <2>2
  <2>15. FedUpTo(F, f, b + l, x)
    BY <2>13, <2>14 DEF FedUpTo
  <2> QED
    BY <2>9, <2>15
<1>4. Nat \subseteq T
  <2>. HIDE DEF T
  <2> QED
    BY <1>2, <1>3, Induction
<1>5. k - j \in T /\ j + (k - j) = k /\ k <= k
  <2>1. k - j \in Nat /\ j + (k - j) = k /\ k <= k
    BY <1>1
  <2>. HIDE DEF T
  <2> QED
    BY <1>4, <2>1
<1> QED
  BY <1>5

(* The rest of a piece whose start pyte has kept: only ESC [ 2 is kept.    *)
LEMMA HeldIsFed ==
  ASSUME NEW data \in Seq(Char), NEW F, Feeds(data, F), 1 <= Len(data), data[1] = "J",
         F[0].held = SubSeq(Clear, 1, 3), F[0].upto = 0
  PROVE  /\ F[1].held = <<>> /\ F[1].upto <= 1
         /\ F[1].screen = After(F[0].screen, Clear)
<1>1. 1 \in 1 .. Len(data) /\ 1 - 1 = 0 /\ 0 <= 0
  OBVIOUS
<1>2. SwitchEnds(data, 1) = {}
  <2>1. SUFFICES ASSUME NEW i \in SwitchEnds(data, 1) PROVE FALSE
    OBVIOUS
  <2>2. data[1] = "ESC"
    BY <1>1, SwitchEndsAre
  <2> QED
    BY <2>2
<1>3. F[0] \in FeedState /\ F[1] = Pyte(F[0], data[1])
  BY <1>1, <1>2, LastTaken
<1>4. Clear = <<"ESC", "[", "2", "J">> /\ Clear \in Seq(Char)
  <2>1. Clear = <<"ESC", "[", "2", "J">>
    BY Literals
  <2>2. Clear \in Piece
    BY DEF Piece
  <2> QED
    BY <2>1, <2>2, PieceIs
<1>5. /\ SubSeq(Clear, 1, 3) # <<>> /\ SubSeq(Clear, 1, 3)[1] = "ESC"
      /\ Append(SubSeq(Clear, 1, 3), "J") = Clear
  <2>. DEFINE q == SubSeq(Clear, 1, 3)
              z == Append(q, "J")
  <2>1. /\ Len(Clear) = 4 /\ Clear[1] = "ESC" /\ Clear[2] = "[" /\ Clear[3] = "2"
        /\ Clear[4] = "J" /\ Clear \in Seq(Char) /\ "J" \in Char
    BY <1>4 DEF Char, Final
  <2>2. q \in Seq(Char) /\ Len(q) = 3 /\ q[1] = Clear[1] /\ q[2] = Clear[2] /\ q[3] = Clear[3]
    <3>1. Len(Clear) = 4 /\ Clear \in Seq(Char)
      BY <2>1
    <3> QED
      BY <3>1
  <2>. HIDE DEF q
  <2>3. q # <<>>
    <3>1. Len(<<>>) = 0
      OBVIOUS
    <3> QED
      BY <2>2, <3>1
  <2>4. /\ z \in Seq(Char) /\ Len(z) = 4 /\ z[1] = "ESC" /\ z[2] = "[" /\ z[3] = "2"
        /\ z[4] = "J"
    <3>1. /\ z \in Seq(Char) /\ Len(z) = Len(q) + 1 /\ z[Len(q) + 1] = "J"
          /\ \A i \in 1 .. Len(q) : z[i] = q[i]
      <4>1. q \in Seq(Char) /\ "J" \in Char
        BY <2>1, <2>2
      <4>. HIDE DEF z
      <4>2. z = Append(q, "J")
        BY DEF z
      <4> QED
        BY <4>1, <4>2, AppendProperties
    <3>2. Len(z) = 4 /\ z[4] = "J" /\ z[1] = q[1] /\ z[2] = q[2] /\ z[3] = q[3]
      <4>1. Len(q) = 3 /\ Len(q) + 1 = 4 /\ 1 \in 1 .. 3 /\ 2 \in 1 .. 3 /\ 3 \in 1 .. 3
        BY <2>2
      <4>. HIDE DEF z
      <4> QED
        BY <3>1, <4>1
    <3> QED
      BY <2>1, <2>2, <3>1, <3>2
  <2>. HIDE DEF z
  <2>5. z = <<z[1], z[2], z[3], z[4]>>
    BY <2>4
  <2>6. z = Clear
    BY <1>4, <2>4, <2>5
  <2> QED
    BY <2>1, <2>2, <2>3, <2>6 DEF q, z
<1>6. "J" \in Char /\ "J" \in Final
  BY DEF Char, Final
<1>7. /\ Pyte(F[0], "J").held = <<>> /\ Pyte(F[0], "J").upto = F[0].upto
      /\ Pyte(F[0], "J").screen = Interpret(F[0].screen, Clear)
  <2>1. F[0].held # <<>> /\ F[0].held[1] = "ESC" /\ Append(F[0].held, "J") = Clear
    BY <1>5
  <2> QED
    BY <1>3, <1>6, <2>1, PyteIs, Zenon
<1>8. After(F[0].screen, Clear) = Interpret(F[0].screen, Clear)
  <2>1. Clear \notin Enters \cup Exits
    <3>1. SUFFICES ASSUME NEW final \in {"h", "l"}, Clear \in Switch(final) PROVE FALSE
      BY DEF Enters, Exits
    <3>2. Len(Clear) \in 5 .. 8
      BY <3>1, SwitchIs
    <3>3. Len(Clear) = 4
      BY <1>4
    <3> QED
      BY <3>2, <3>3
  <2> QED
    BY <2>1 DEF After
<1> QED
  BY <1>3, <1>7, <1>8

(* The hypotheses of EscapeHeld.                                           *)
IsKept(data, F, p, b, m) ==
  /\ data \in Seq(Char) /\ Feeds(data, F) /\ p \in {Clear, HideCursor}
  /\ m \in 0 .. Len(p) - 1 /\ Has(data, b, p, m)
  /\ F[b].held = <<>> /\ F[b].upto <= b
  /\ \A i \in 1 .. m : SwitchEnds(data, b + i) = {}

(* EscapeHeld from that.                                                   *)
LEMMA EscapeKept ==
  ASSUME NEW data, NEW F, NEW p, NEW b, NEW m, IsKept(data, F, p, b, m)
  PROVE  F[b + m].held = SubSeq(p, 1, m) /\ F[b + m].screen = F[b].screen
<1>1. /\ data \in Seq(Char) /\ Feeds(data, F) /\ p \in {Clear, HideCursor}
      /\ m \in 0 .. Len(p) - 1 /\ Has(data, b, p, m)
      /\ F[b].held = <<>> /\ F[b].upto <= b
      /\ \A i \in 1 .. m : SwitchEnds(data, b + i) = {}
  BY DEF IsKept
<1> QED
  BY <1>1, EscapeHeld

(* The start of a sequence that is no switch is kept by pyte.              *)
LEMMA StartHeld ==
  ASSUME NEW ps \in Seq(Piece), NEW all, NEW at, Layout(ps, all, at),
         NEW data, NEW h, NEW to, IsPartOf(data, all, h, to),
         NEW F, Feeds(data, F), NEW f,
         NEW k, EndsAfter(ps, at, to, k), h <= at[k], FedUpTo(F, f, at[k] - h, k),
         ~IsPartial(Start(SubSeq(ps, k + 1, Len(ps)), to - at[k]))
  PROVE  /\ F[Len(data)].held = Start(SubSeq(ps, k + 1, Len(ps)), to - at[k])
         /\ F[Len(data)].screen = f[k]
<1>. DEFINE m == to - at[k]
            rest == SubSeq(ps, k + 1, Len(ps))
            s == Start(rest, m)
            b == at[k] - h
<1>1. h \in Nat /\ to \in Nat /\ to <= Len(all) /\ data \in Seq(Char) /\ Len(data) = to - h
  BY DEF IsPartOf
<1>2. /\ at[k] \in Nat /\ m \in Nat /\ s \in Seq(Char) /\ Len(s) = m
      /\ rest = <<>> => m = 0
      /\ rest # <<>> =>
           /\ k + 1 \in 1 .. Len(ps)
           /\ m < Len(ps[k + 1])
           /\ s = SubSeq(ps[k + 1], 1, m)
  <2>. HIDE DEF m, s, rest, b
  <2>1. /\ at[k] \in Nat /\ m \in Nat /\ s \in Seq(Char) /\ Len(s) = m
        /\ rest = <<>> => m = 0
        /\ rest # <<>> =>
             /\ rest[1] = ps[k + 1] /\ k + 1 \in 1 .. Len(ps)
             /\ m < Len(ps[k + 1])
             /\ s = SubSeq(ps[k + 1], 1, m)
        /\ \A i \in 1 .. m : all[at[k] + i] = s[i]
    <3>1. StartsNext(ps, all, at, k, m, s)
      BY <1>1, NextStart DEF m, s, rest
    <3> QED
      BY <3>1 DEF StartsNext, rest
  <2> QED
    BY <2>1
<1>3. /\ b \in Nat /\ Len(data) = b + m /\ at[k] + m = to
  <2>. DEFINE a == at[k]
  <2>1. h \in Nat /\ to \in Nat /\ a \in Nat /\ h <= a /\ m = to - a /\ b = a - h /\ m \in Nat
    BY <1>1, <1>2
  <2>2. Len(data) = to - h
    BY <1>1
  <2>. HIDE DEF a, b, m, s, rest
  <2>3. b \in Nat /\ Len(data) = b + m /\ a + m = to
    BY <2>1, <2>2
  <2> QED
    BY <2>3 DEF a
<1>4. F[b].held = <<>> /\ F[b].screen = f[k] /\ F[b].upto <= b
  BY DEF FedUpTo
<1>5. ~IsPartial(s)
  OBVIOUS
<1>. HIDE DEF m, rest, s, b
<1>6. CASE m = 0
  <2>1. s = <<>> /\ Len(data) = b
    BY <1>2, <1>3, <1>6
  <2> QED
    BY <1>4, <2>1 DEF s, rest, m
<1>7. CASE m # 0
  <2>. DEFINE p == ps[k + 1]
  <2>1. k + 1 \in 1 .. Len(ps) /\ m < Len(p) /\ s = SubSeq(p, 1, m)
    BY <1>2, <1>7
  <2>2. p \in Piece /\ p \in Seq(Char)
    <3>1. p \in Piece
      BY <2>1
    <3> QED
      BY <3>1, PieceIs
  <2>3. (k + 1) - 1 = k /\ k \in Nat
    BY <2>1 DEF EndsAfter
  <2>4. m \in 0 .. Len(p) /\ m \in 1 .. Len(p) - 1
    <3>. DEFINE l == Len(p)
    <3>1. l \in Nat /\ m < l
      BY <2>1, <2>2
    <3>. HIDE DEF l
    <3>2. m \in 0 .. l /\ m \in 1 .. l - 1
      BY <1>2, <1>7, <3>1
    <3> QED
      BY <3>2 DEF l
  <2>5. Has(data, b, p, m)
    <3>1. h <= at[(k + 1) - 1] /\ at[(k + 1) - 1] + m <= to
      BY <1>1, <1>3, <2>3
    <3>2. Has(data, at[(k + 1) - 1] - h, ps[k + 1], m)
      BY <2>1, <2>4, <3>1, HasPiece
    <3> QED
      BY <2>3, <3>2 DEF b
  <2>. HIDE DEF p
  <2>6. p = Clear /\ m = 3
    BY <1>5, <2>1, <2>2, <2>4, ProperPrefix
  <2>7. \A i \in 1 .. m : SwitchEnds(data, b + i) = {}
    BY <1>1, <2>5, <2>6, NoSwitchWithin
  <2>8. p = <<"ESC", "[", "2", "J">>
    BY <2>6, Literals
  <2>9. F[b + m].held = SubSeq(p, 1, m) /\ F[b + m].screen = F[b].screen
    <3>1. Len(p) = 4 /\ p \in {Clear, HideCursor}
      BY <2>6, <2>8
    <3>2. m \in 0 .. Len(p) - 1
      BY <2>6, <3>1
    <3>3. data \in Seq(Char) /\ F[b].held = <<>> /\ F[b].upto <= b
      BY <1>1, <1>4
    <3>4. Feeds(data, F)
      OBVIOUS
    <3>5. IsKept(data, F, p, b, m)
      BY <2>5, <2>7, <3>1, <3>2, <3>3, <3>4 DEF IsKept
    <3> QED
      BY <3>5, EscapeKept
  <2> QED
    BY <1>3, <1>4, <2>1, <2>9 DEF s, rest, m
<1> QED
  BY <1>6, <1>7

(* Only ESC [ 2 is ever held by pyte between two chunks.                   *)
LEMMA HeldIs ==
  ASSUME KeptOnce, ~closed
  PROVE  /\ held \in Seq(Char) /\ carry \in Seq(Char)
         /\ held # <<>> => /\ wire # <<>> /\ wire[1] = Clear /\ read = 3
                           /\ held = SubSeq(Clear, 1, 3) /\ carry = <<>>
<1>. DEFINE s == Start(wire, read)
<1>1. /\ wire \in Seq(Piece) /\ read \in Nat
      /\ wire = <<>> => read = 0
      /\ wire # <<>> => read < Len(wire[1])
      /\ IsPartial(s) => carry = s /\ held = <<>>
      /\ ~IsPartial(s) => carry = <<>> /\ held = s
  BY DEF KeptOnce
<1>2. CASE wire = <<>>
  <2>1. s = <<>>
    BY <1>2 DEF Start
  <2>2. held = <<>> /\ carry = <<>>
    BY <1>1, <2>1
  <2> QED
    BY <2>2
<1>3. CASE wire # <<>>
  <2>. DEFINE p == wire[1]
  <2>1. s = SubSeq(p, 1, read) /\ read < Len(p) /\ p \in Piece
    BY <1>1, <1>3 DEF Start
  <2>2. p \in Seq(Char) /\ Len(p) \in Nat
    <3>1. p \in Seq(Char)
      BY <2>1, PieceIs
    <3> QED
      BY <3>1
  <2>. HIDE DEF s, p
  <2>3. s \in Seq(Char) /\ Len(s) = read
    <3>1. \A i \in 1 .. read : i \in 1 .. Len(p)
      BY <1>1, <2>1, <2>2
    <3>2. \A i \in 1 .. read : p[i] \in Char
      BY <2>2, <3>1
    <3>3. 1 \in Int /\ read \in Int /\ (IF 1 <= read THEN read - 1 + 1 ELSE 0) = read
      BY <1>1
    <3> QED
      BY <2>1, <3>2, <3>3, SubSeqProperties
  <2>4. held \in Seq(Char) /\ carry \in Seq(Char)
    <3>1. <<>> \in Seq(Char)
      OBVIOUS
    <3>2. held \in {<<>>, s} /\ carry \in {<<>>, s}
      BY <1>1
    <3> QED
      BY <2>3, <3>1, <3>2
  <2>5. ASSUME held # <<>> PROVE p = Clear /\ read = 3 /\ held = SubSeq(Clear, 1, 3) /\ carry = <<>>
    <3>1. ~IsPartial(s) /\ held = s /\ carry = <<>>
      BY <1>1, <2>5
    <3>2. read \in 1 .. Len(p) - 1
      <4>1. read # 0
        BY <2>3, <2>5, <3>1
      <4>. DEFINE l == Len(p)
      <4>2. l \in Nat /\ read < l
        BY <2>1, <2>2
      <4>. HIDE DEF l
      <4>3. read \in 1 .. l - 1
        BY <1>1, <4>1, <4>2
      <4> QED
        BY <4>3 DEF l
    <3>3. p = Clear /\ read = 3
      BY <2>1, <3>1, <3>2, ProperPrefix
    <3> QED
      BY <2>1, <3>1, <3>3
  <2> QED
    BY <1>3, <2>4, <2>5 DEF p
<1> QED
  BY <1>2, <1>3

(* A chunk with what the reader kept is what pyte has not had.             *)
LEMMA ChunkIs ==
  ASSUME KeptOnce, ~closed, NEW at, Layout(wire, Characters(wire), at), NEW data \in Chunks
  PROVE  LET to == read + Len(data) - Len(carry)
         IN  /\ IsPartOf(data, Characters(wire), Len(held), to)
             /\ wire # <<>> /\ read < to
<1>. DEFINE all == Characters(wire)
            s == Start(wire, read)
<1>1. PICK to \in read + 1 .. Len(all) : data = carry \o SubSeq(all, read + 1, to)
  BY DEF Chunks
<1>2. /\ wire \in Seq(Piece) /\ read \in Nat
      /\ wire = <<>> => read = 0
      /\ wire # <<>> => read < Len(wire[1])
      /\ IsPartial(s) => carry = s /\ held = <<>>
      /\ ~IsPartial(s) => carry = <<>> /\ held = s
  BY DEF KeptOnce
<1>3. all \in Seq(Char) /\ Len(all) = at[Len(wire)] /\ at[0] = 0
  BY DEF Layout
<1>. HIDE DEF all
<1>4. wire # <<>>
  <2>1. SUFFICES ASSUME wire = <<>> PROVE FALSE
    OBVIOUS
  <2>2. Len(wire) = 0
    BY <2>1
  <2>3. Len(all) = 0
    BY <1>3, <2>2
  <2> QED
    BY <1>1, <1>2, <2>3
<1>. DEFINE p == wire[1]
<1>5. p \in Piece /\ p \in Seq(Char) /\ read < Len(p) /\ s = SubSeq(p, 1, read)
  <2>1. p \in Piece
    BY <1>2, <1>4
  <2> QED
    BY <1>2, <1>4, <2>1, PieceIs DEF Start
<1>6. \A i \in 1 .. Len(p) : all[i] = p[i]
  <2>1. 1 \in 1 .. Len(wire) /\ 1 - 1 = 0
    BY <1>2, <1>4
  <2>2. \A i \in 1 .. Len(p) : all[at[1 - 1] + i] = p[i]
    BY <2>1 DEF Layout, all
  <2> QED
    BY <1>3, <2>2
<1>. HIDE DEF p, s
<1>. DEFINE r == SubSeq(all, read + 1, to)
<1>7. /\ to \in Nat /\ read < to /\ to <= Len(all)
  <2>1. Len(all) \in Nat
    BY <1>3
  <2> QED
    BY <1>1, <1>2, <2>1
<1>8. /\ r \in Seq(Char) /\ Len(r) = to - read
      /\ \A i \in 1 .. to - read : r[i] = all[read + i]
  <2>1. \A i \in read + 1 .. to : all[i] \in Char
    BY <1>2, <1>3, <1>7
  <2>2. read + 1 \in Int /\ to \in Int /\ read + 1 <= to /\ to - (read + 1) + 1 = to - read
        /\ \A i \in 1 .. to - read : (read + 1) + i - 1 = read + i
    BY <1>2, <1>7
  <2> QED
    BY <2>1, <2>2, SubSeqProperties
<1>9. s \in Seq(Char) /\ Len(s) = read /\ \A i \in 1 .. read : s[i] = p[i] /\ i \in 1 .. Len(p)
  <2>1. \A i \in 1 .. read : i \in 1 .. Len(p)
    BY <1>2, <1>5
  <2>2. \A i \in 1 .. read : p[i] \in Char
    BY <1>5, <2>1
  <2>3. 1 \in Int /\ read \in Int /\ (IF 1 <= read THEN read - 1 + 1 ELSE 0) = read
        /\ read - 1 + 1 = read /\ \A i \in 1 .. read : 1 + i - 1 = i
    BY <1>2
  <2> QED
    BY <1>5, <2>1, <2>2, <2>3, SubSeqProperties
<1>10. \A i \in 1 .. read : s[i] = all[i]
  BY <1>6, <1>9
<1>. HIDE DEF r
<1>11. CASE IsPartial(s)
  <2>1. data = s \o r /\ held = <<>> /\ Len(held) = 0 /\ Len(carry) = read
    BY <1>1, <1>2, <1>9, <1>11 DEF r
  <2>2. /\ data \in Seq(Char) /\ Len(data) = read + (to - read)
        /\ \A i \in 1 .. read + (to - read) :
             data[i] = IF i <= read THEN s[i] ELSE r[i - read]
    <3>1. s \in Seq(Char) /\ r \in Seq(Char)
      BY <1>8, <1>9
    <3>2. /\ s \o r \in Seq(Char) /\ Len(s \o r) = Len(s) + Len(r)
          /\ \A i \in 1 .. Len(s) + Len(r) :
               (s \o r)[i] = IF i <= Len(s) THEN s[i] ELSE r[i - Len(s)]
      BY <3>1, ConcatProperties
    <3>3. Len(s) = read /\ Len(r) = to - read
      BY <1>8, <1>9
    <3> QED
      BY <2>1, <3>2, <3>3
  <2>3. Len(data) = to /\ to - 0 = to /\ read + (to - read) = to
    BY <1>2, <1>7, <2>2
  <2>4. ASSUME NEW x \in 1 .. to PROVE data[x] = all[0 + x]
    <3>0. 0 + x = x
      BY <1>7
    <3>1. CASE x <= read
      <4>1. x \in 1 .. read
        BY <1>2, <1>7, <3>1
      <4>2. data[x] = s[x]
        BY <2>2, <2>3, <3>1
      <4> QED
        BY <1>10, <3>0, <4>1, <4>2
    <3>2. CASE ~(x <= read)
      <4>1. x - read \in 1 .. to - read /\ read + (x - read) = x
        BY <1>2, <1>7, <3>2
      <4>2. data[x] = r[x - read]
        BY <2>2, <2>3, <3>2
      <4> QED
        BY <1>8, <3>0, <4>1, <4>2
    <3> QED
      BY <3>1, <3>2
  <2>5. IsPartOf(data, all, 0, to)
    BY <1>7, <2>2, <2>3, <2>4 DEF IsPartOf
  <2>6. read + Len(data) - Len(carry) = to
    <3>1. Len(data) = to /\ Len(carry) = read
      BY <2>1, <2>3
    <3> QED
      BY <1>2, <1>7, <3>1
  <2> QED
    BY <1>4, <1>7, <2>1, <2>5, <2>6 DEF all
<1>12. CASE ~IsPartial(s)
  <2>1. data = <<>> \o r /\ Len(held) = read /\ Len(carry) = 0
    BY <1>1, <1>2, <1>9, <1>12 DEF r
  <2>2. data = r
    BY <1>8, <2>1
  <2>3. IsPartOf(data, all, read, to)
    BY <1>2, <1>7, <1>8, <2>2 DEF IsPartOf
  <2>4. read + Len(data) - Len(carry) = to
    <3>1. Len(data) = to - read /\ Len(carry) = 0
      BY <1>8, <2>1, <2>2
    <3> QED
      BY <1>2, <1>7, <3>1
  <2> QED
    BY <1>4, <1>7, <2>1, <2>3, <2>4 DEF all
<1> QED
  BY <1>11, <1>12

(* What is fed to pyte in one read ends behind the first k pieces.         *)
LEMMA FedIs ==
  ASSUME KeptOnce, ~closed, NEW all, NEW at, Layout(wire, all, at), wire # <<>>,
         NEW f, f[0] = screen, \A i \in 1 .. Len(wire) : f[i] = After(f[i - 1], wire[i]),
         NEW d, NEW to, IsPartOf(d, all, Len(held), to),
         NEW k \in 0 .. Len(wire), at[k] <= to, held # <<>> => k # 0
  PROVE  \E F : /\ Feeds(d, F) /\ Feed(d) = F[Len(d)]
                /\ Len(held) <= at[k]
                /\ FedUpTo(F, f, at[k] - Len(held), k)
<1>. DEFINE h == Len(held)
            n == Len(wire)
<1>1. /\ wire \in Seq(Piece) /\ screen \in ScreenState /\ held \in Seq(Char)
      /\ h \in Nat /\ to \in Nat /\ d \in Seq(Char) /\ Len(d) = to - h
  <2>1. held \in Seq(Char)
    BY HeldIs
  <2> QED
    BY <2>1 DEF KeptOnce, IsPartOf
<1>2. PICK F : /\ Feeds(d, F) /\ Feed(d) = F[Len(d)]
               /\ F[0].screen = screen /\ F[0].held = held /\ F[0].upto = 0
  BY <1>1, FeedFolds
<1>3. n \in Nat \ {0} /\ at[0] = 0 /\ 0 \in 0 .. n /\ k \in 0 .. n
  <2>1. n \in Nat \ {0}
    BY <1>1
  <2> QED
    BY <2>1 DEF Layout
<1>4. CASE held = <<>>
  <2>1. h = 0
    BY <1>4
  <2>2. FedUpTo(F, f, 0, 0)
    BY <1>2, <1>4 DEF FedUpTo
  <2>3. at[0] - h = 0 /\ h <= at[0]
    BY <1>3, <2>1
  <2>4. 0 \in 0 .. n /\ k \in 0 .. n
    BY <1>3
  <2>5. FedUpTo(F, f, at[k] - h, k)
    <3>1. FedUpTo(F, f, at[0] - h, 0)
      BY <2>2, <2>3
    <3>2. IsPartOf(d, all, h, to)
      OBVIOUS
    <3>. HIDE DEF h, n
    <3> QED
      BY <1>1, <1>2, <2>3, <2>4, <3>1, <3>2, PiecesFed DEF n
  <2>6. at[k] \in Nat /\ h <= at[k]
    <3>1. at[0] <= at[k] /\ at[k] \in Nat
      BY <1>1, <2>4, LayoutGrows
    <3> QED
      BY <1>3, <2>1, <3>1
  <2> QED
    BY <1>2, <2>5, <2>6
<1>5. CASE held # <<>>
  <2>1. wire[1] = Clear /\ held = SubSeq(Clear, 1, 3)
    BY <1>5, HeldIs
  <2>2. /\ Clear \in Seq(Char) /\ Len(Clear) = 4 /\ Clear[4] = "J"
    <3>1. Clear = <<"ESC", "[", "2", "J">>
      BY Literals
    <3>2. Clear \in Piece
      BY DEF Piece
    <3>3. Clear \in Seq(Char)
      BY <3>2, PieceIs
    <3> QED
      BY <3>1, <3>3
  <2>3. h = 3
    <3>1. Len(SubSeq(Clear, 1, 3)) = 3
      BY <2>2
    <3> QED
      BY <2>1, <3>1
  <2>4. 1 \in 1 .. n /\ 1 \in 0 .. n /\ 1 - 1 = 0 /\ k \in 1 .. n
    BY <1>3, <1>5
  <2>5. at[1] = 4 /\ all[4] = "J"
    <3>1. at[1] = at[0] + Len(wire[1]) /\ \A i \in 1 .. Len(wire[1]) : all[at[0] + i] = wire[1][i]
      BY <2>4 DEF Layout
    <3>2. Len(wire[1]) = 4 /\ 4 \in 1 .. 4 /\ 0 + 4 = 4
      BY <2>1, <2>2
    <3> QED
      BY <1>3, <2>1, <2>2, <3>1, <3>2
  <2>6. at[1] <= at[k] /\ at[k] \in Nat
    BY <1>1, <2>4, LayoutGrows
  <2>7. 1 <= Len(d) /\ 1 \in 1 .. to - h
    <3>. DEFINE a == at[k]
    <3>1. a \in Nat /\ 4 <= a /\ a <= to
      BY <2>5, <2>6
    <3>. HIDE DEF a
    <3> QED
      BY <1>1, <2>3, <3>1
  <2>8. d[1] = "J"
    <3>1. \A x \in 1 .. to - h : d[x] = all[h + x]
      BY DEF IsPartOf
    <3>2. h + 1 = 4
      BY <2>3
    <3>. HIDE DEF h
    <3> QED
      BY <2>5, <2>7, <3>1, <3>2
  <2>9. /\ F[1].held = <<>> /\ F[1].upto <= 1
        /\ F[1].screen = After(F[0].screen, Clear)
    <3>1. d \in Seq(Char) /\ Feeds(d, F) /\ 1 <= Len(d) /\ d[1] = "J"
          /\ F[0].held = SubSeq(Clear, 1, 3) /\ F[0].upto = 0
      BY <1>1, <1>2, <2>1, <2>7, <2>8
    <3> QED
      BY <3>1, HeldIsFed
  <2>10. f[1] = After(screen, Clear)
    BY <2>1, <2>4
  <2>11. FedUpTo(F, f, 1, 1)
    BY <1>2, <2>9, <2>10 DEF FedUpTo
  <2>12. at[1] - h = 1 /\ h <= at[1] /\ h <= at[k]
    <3>. DEFINE a == at[k]
    <3>1. a \in Nat /\ 4 <= a
      BY <2>5, <2>6
    <3>. HIDE DEF a
    <3>2. h <= a
      BY <2>3, <3>1
    <3>3. at[1] - h = 1 /\ h <= at[1]
      BY <2>3, <2>5
    <3> QED
      BY <3>2, <3>3 DEF a
  <2>13. FedUpTo(F, f, at[k] - h, k)
    <3>1. FedUpTo(F, f, at[1] - h, 1)
      BY <2>11, <2>12
    <3>2. IsPartOf(d, all, h, to)
      OBVIOUS
    <3>. HIDE DEF h, n
    <3> QED
      BY <1>1, <1>2, <2>4, <2>12, <3>1, <3>2, PiecesFed DEF n
  <2> QED
    BY <1>2, <2>12, <2>13
<1> QED
  BY <1>4, <1>5

(* One read: some pieces take effect in turn, and the start of the next    *)
(* one is kept back.                                                       *)
LEMMA ReadsWhole ==
  ASSUME KeptOnce, Reads
  PROVE  /\ KeptOnce'
         /\ \E k \in 0 .. Len(wire) :
              /\ screen' = AfterAll(screen, SubSeq(wire, 1, k))
              /\ wire' = SubSeq(wire, k + 1, Len(wire))
<1>. DEFINE all == Characters(wire)
            h == Len(held)
            n == Len(wire)
<1>1. /\ ~closed /\ wire \in Seq(Piece) /\ read \in Nat /\ screen \in ScreenState
      /\ n \in Nat
  BY DEF KeptOnce, Reads
<1>2. PICK at : /\ Layout(wire, all, at)
                /\ \A k \in 0 .. n : Len(Characters(SubSeq(wire, 1, k))) = at[k]
  BY <1>1, LayoutOfCharacters
<1>3. PICK f \in [0 .. n -> ScreenState] :
        /\ f[0] = screen
        /\ \A i \in 1 .. n : f[i] = After(f[i - 1], wire[i])
        /\ \A k \in 0 .. n : AfterAll(screen, SubSeq(wire, 1, k)) = f[k]
  BY <1>1, AfterAllPrefixes
<1>4. PICK data \in Chunks :
        LET to == read + Len(data) - Len(carry)
        IN  /\ \E cut \in PartialAt(data) :
                 /\ carry' = SubSeq(data, cut, Len(data))
                 /\ \E fed \in {Feed(SubSeq(data, 1, cut - 1))} :
                      screen' = fed.screen /\ held' = fed.held
            /\ \E k \in Whole(to) :
                 /\ wire' = SubSeq(wire, k + 1, Len(wire))
                 /\ read' = to - Len(Characters(SubSeq(wire, 1, k)))
  BY DEF Reads
<1>. DEFINE to == read + Len(data) - Len(carry)
<1>5. IsPartOf(data, all, h, to) /\ wire # <<>> /\ read < to
  BY <1>1, <1>2, ChunkIs
<1>6. /\ \E cut \in PartialAt(data) :
           /\ carry' = SubSeq(data, cut, Len(data))
           /\ \E fed \in {Feed(SubSeq(data, 1, cut - 1))} :
                screen' = fed.screen /\ held' = fed.held
      /\ \E k \in Whole(to) :
           /\ wire' = SubSeq(wire, k + 1, Len(wire))
           /\ read' = to - Len(Characters(SubSeq(wire, 1, k)))
  BY <1>4
<1>. HIDE DEF to, all, h
<1>7. PICK k \in Whole(to) :
        /\ wire' = SubSeq(wire, k + 1, n)
        /\ read' = to - Len(Characters(SubSeq(wire, 1, k)))
  BY <1>6
<1>8. /\ k \in 0 .. n /\ EndsAfter(wire, at, to, k) /\ at[k] <= to
      /\ read' = to - at[k]
  <2>1. /\ k \in 0 .. n /\ Len(Characters(SubSeq(wire, 1, k))) <= to
        /\ k < n => Len(Characters(SubSeq(wire, 1, k + 1))) > to
    BY DEF Whole
  <2>2. Len(Characters(SubSeq(wire, 1, k))) = at[k]
    BY <1>2, <2>1
  <2>3. k < n => k + 1 \in 0 .. n
    BY <1>1, <2>1
  <2>4. k < n => at[k + 1] > to
    BY <1>2, <2>1, <2>3
  <2>5. to \in Nat /\ at \in [0 .. n -> Nat]
    BY <1>2, <1>5 DEF IsPartOf, Layout
  <2>6. k < n => at[k + 1] \in Nat
    BY <2>3, <2>5
  <2>7. k < n => to < at[k + 1]
    BY <2>4, <2>5, <2>6
  <2>8. EndsAfter(wire, at, to, k)
    BY <2>1, <2>2, <2>7 DEF EndsAfter
  <2> QED
    BY <1>7, <2>1, <2>2, <2>8
<1>9. h \in Nat /\ to \in Nat /\ to <= Len(all) /\ h <= to /\ data \in Seq(Char) /\ Len(data) = to - h
      /\ \A x \in 1 .. to - h : data[x] = all[h + x]
  BY <1>5 DEF IsPartOf
<1>10. held # <<>> => k # 0
  <2>1. SUFFICES ASSUME held # <<>>, k = 0 PROVE FALSE
    OBVIOUS
  <2>2. wire[1] = Clear /\ read = 3
    BY <1>1, <2>1, HeldIs
  <2>3. Len(Clear) = 4
    <3>1. Clear = <<"ESC", "[", "2", "J">>
      BY Literals
    <3> QED
      BY <3>1
  <2>4. 1 \in 1 .. n /\ 1 - 1 = 0 /\ 0 < n
    BY <1>1, <1>5
  <2>5. at[1] = 4
    <3>1. at[1] = at[0] + Len(wire[1]) /\ at[0] = 0
      BY <1>2, <2>4 DEF Layout
    <3> QED
      BY <2>2, <2>3, <3>1
  <2>6. to < at[0 + 1]
    BY <1>8, <2>1, <2>4 DEF EndsAfter
  <2>7. to < 4 /\ 3 < to
    BY <1>5, <2>2, <2>5, <2>6
  <2> QED
    BY <1>9, <2>7
<1>. DEFINE m == to - at[k]
            rest == SubSeq(wire, k + 1, n)
            s == Start(rest, m)
            c == at[k] - h
<1>11. /\ at[k] \in Nat /\ m \in Nat /\ s \in Seq(Char) /\ Len(s) = m
       /\ rest = <<>> => m = 0
       /\ rest # <<>> => m < Len(rest[1])
       /\ \A i \in 1 .. m : all[at[k] + i] = s[i]
       /\ rest \in Seq(Piece)
  <2>. HIDE DEF m, rest, s
  <2>1. /\ at[k] \in Nat /\ m \in Nat /\ s \in Seq(Char) /\ Len(s) = m
        /\ rest = <<>> => m = 0
        /\ rest # <<>> =>
             /\ rest[1] = wire[k + 1] /\ k + 1 \in 1 .. Len(wire)
             /\ m < Len(wire[k + 1])
             /\ s = SubSeq(wire[k + 1], 1, m)
        /\ \A i \in 1 .. m : all[at[k] + i] = s[i]
        /\ rest \in Seq(Piece)
    <3>1. StartsNext(wire, all, at, k, m, s)
      BY <1>1, <1>2, <1>8, <1>9, NextStart DEF m, rest, s
    <3> QED
      BY <3>1 DEF StartsNext, rest
  <2> QED
    BY <2>1
<1>12. /\ Len(held) <= at[k] /\ h <= at[k]
  <2>1. \E F : Len(held) <= at[k]
    BY <1>1, <1>2, <1>3, <1>5, <1>8, <1>10, FedIs DEF h
  <2> QED
    BY <2>1 DEF h
<1>13. PartialAt(data) = {IF IsPartial(s) THEN c + 1 ELSE Len(data) + 1}
  <2>. HIDE DEF m, rest, s, c
  <2> QED
    BY <1>1, <1>2, <1>5, <1>8, <1>12, PartialAtIs DEF m, rest, s, c
<1>14. PICK cut \in PartialAt(data) :
         /\ carry' = SubSeq(data, cut, Len(data))
         /\ screen' = Feed(SubSeq(data, 1, cut - 1)).screen
         /\ held' = Feed(SubSeq(data, 1, cut - 1)).held
  BY <1>6
<1>15. c \in Nat /\ Len(data) = c + m /\ h + c = at[k]
  <2>. DEFINE a == at[k]
  <2>1. /\ a \in Nat /\ h \in Nat /\ to \in Nat /\ h <= a /\ m = to - a /\ c = a - h /\ m \in Nat
        /\ Len(data) = to - h
    BY <1>9, <1>11, <1>12
  <2>. HIDE DEF a, m, c, s, rest
  <2>2. c \in Nat /\ Len(data) = c + m /\ h + c = a
    BY <2>1
  <2> QED
    BY <2>2 DEF a
<1>16. read' = m /\ wire' = rest
  BY <1>7, <1>8
<1>. HIDE DEF m, rest, s, c
<1>17. /\ screen' = f[k]
       /\ IsPartial(s) => carry' = s /\ held' = <<>>
       /\ ~IsPartial(s) => carry' = <<>> /\ held' = s
  <2>1. CASE IsPartial(s)
    <3>. DEFINE d == SubSeq(data, 1, c)
    <3>1. cut = c + 1 /\ cut - 1 = c
      BY <1>13, <1>14, <1>15, <2>1
    <3>2. /\ d \in Seq(Char) /\ Len(d) = c /\ \A x \in 1 .. c : d[x] = data[x]
      <4>1. \A x \in 1 .. c : x \in 1 .. Len(data) /\ data[x] \in Char
        BY <1>9, <1>11, <1>15
      <4>2. 1 \in Int /\ c \in Int /\ (IF 1 <= c THEN c - 1 + 1 ELSE 0) = c
            /\ c - 1 + 1 = c /\ \A x \in 1 .. c : 1 + x - 1 = x
        BY <1>15
      <4> QED
        BY <4>1, <4>2, SubSeqProperties
    <3>. HIDE DEF d
    <3>3. IsPartOf(d, all, h, at[k])
      <4>. DEFINE a == at[k]
      <4>1. a \in Nat /\ h <= a /\ a <= Len(all) /\ Len(d) = a - h /\ a - h = c /\ a <= to
        <5>. DEFINE g == Len(all)
        <5>1. a \in Nat /\ a <= to /\ to \in Nat /\ to <= g /\ h + c = a /\ c \in Nat /\ h \in Nat
          BY <1>8, <1>9, <1>11, <1>15
        <5>2. g \in Nat
          BY <1>2 DEF Layout
        <5>. HIDE DEF a, g
        <5>3. h <= a /\ a <= g /\ a - h = c
          BY <5>1, <5>2
        <5> QED
          BY <3>2, <5>1, <5>3 DEF g
      <4>2. ASSUME NEW x \in 1 .. a - h PROVE d[x] = all[h + x]
        <5>. HIDE DEF a
        <5>1. x \in 1 .. c /\ x \in 1 .. to - h
          BY <1>9, <4>1
        <5> QED
          BY <1>9, <3>2, <5>1
      <4> QED
        BY <1>9, <3>2, <4>1, <4>2 DEF IsPartOf
    <3>4. at[k] <= at[k] /\ Len(held) = h
      BY <1>11 DEF h
    <3>5. PICK F : /\ Feeds(d, F) /\ Feed(d) = F[Len(d)]
                   /\ FedUpTo(F, f, at[k] - Len(held), k)
      BY <1>1, <1>2, <1>3, <1>5, <1>8, <1>10, <3>3, <3>4, FedIs
    <3>6. at[k] - Len(held) = c
      BY <3>4 DEF c
    <3>7. F[c].held = <<>> /\ F[c].screen = f[k]
      BY <3>5, <3>6 DEF FedUpTo
    <3>8. screen' = f[k] /\ held' = <<>>
      <4>1. screen' = Feed(d).screen /\ held' = Feed(d).held
        BY <1>14, <3>1 DEF d
      <4> QED
        BY <3>2, <3>5, <3>7, <4>1
    <3>9. carry' = s
      <4>. DEFINE q == SubSeq(data, c + 1, Len(data))
      <4>1. \A x \in c + 1 .. Len(data) : data[x] \in Char
        BY <1>9, <1>15
      <4>2. /\ c + 1 \in Int /\ Len(data) \in Int
            /\ (IF c + 1 <= Len(data) THEN Len(data) - (c + 1) + 1 ELSE 0) = m
            /\ Len(data) - (c + 1) + 1 = m
            /\ \A x \in 1 .. m : (c + 1) + x - 1 = c + x /\ c + x \in 1 .. to - h /\ h + (c + x) = at[k] + x
        <5>. DEFINE a == at[k]
        <5>1. a \in Nat /\ h \in Nat /\ to \in Nat /\ c \in Nat /\ m \in Nat /\ h + c = a
              /\ Len(data) = c + m /\ Len(data) = to - h
          BY <1>9, <1>11, <1>15
        <5>. HIDE DEF a
        <5> QED
          BY <5>1 DEF a
      <4>3. q \in Seq(Char) /\ Len(q) = m /\ \A x \in 1 .. m : q[x] = data[c + x]
        BY <4>1, <4>2, SubSeqProperties
      <4>. HIDE DEF q
      <4>4. \A x \in 1 .. m : q[x] = s[x]
        BY <1>9, <1>11, <4>2, <4>3
      <4>5. q = s
        BY <1>11, <4>3, <4>4, SeqEqual
      <4> QED
        BY <1>14, <3>1, <4>5 DEF q
    <3> QED
      BY <2>1, <3>8, <3>9
  <2>2. CASE ~IsPartial(s)
    <3>. DEFINE l == Len(data)
    <3>0. l \in Nat
      BY <1>9
    <3>1. cut = l + 1 /\ cut - 1 = l
      <4>1. cut = l + 1
        BY <1>13, <1>14, <2>2
      <4>. HIDE DEF l
      <4> QED
        BY <3>0, <4>1
    <3>2. SubSeq(data, 1, l) = data
      BY <1>9, SubSeqFull
    <3>3. carry' = <<>>
      <4>1. carry' = SubSeq(data, l + 1, l)
        BY <1>14, <3>1
      <4>. HIDE DEF l
      <4>2. l + 1 \in Int /\ l \in Int /\ l < l + 1
        BY <3>0
      <4> QED
        BY <4>1, <4>2, SubSeqEmpty
    <3>4. PICK F : /\ Feeds(data, F) /\ Feed(data) = F[Len(data)]
                   /\ FedUpTo(F, f, at[k] - Len(held), k)
      <4>1. IsPartOf(data, all, Len(held), to)
        BY <1>5 DEF h
      <4> QED
        BY <1>1, <1>2, <1>3, <1>5, <1>8, <1>10, <4>1, FedIs
    <3>5. FedUpTo(F, f, at[k] - h, k)
      BY <3>4 DEF h
    <3>6. F[Len(data)].held = s /\ F[Len(data)].screen = f[k]
      BY <1>1, <1>2, <1>5, <1>8, <1>12, <2>2, <3>4, <3>5, StartHeld DEF s, rest, m
    <3>7. screen' = Feed(data).screen /\ held' = Feed(data).held
      BY <1>14, <3>1, <3>2
    <3> QED
      BY <2>2, <3>3, <3>4, <3>6, <3>7
  <2> QED
    BY <2>1, <2>2
<1>18. screen' = AfterAll(screen, SubSeq(wire, 1, k)) /\ screen' \in ScreenState
  BY <1>3, <1>8, <1>17
<1>19. KeptOnce'
  <2>1. /\ wire' \in Seq(Piece) /\ read' \in Nat /\ screen' \in ScreenState
        /\ wire' = <<>> => read' = 0
        /\ wire' # <<>> => read' < Len(wire'[1])
    BY <1>11, <1>16, <1>18
  <2>2. Start(wire', read') = s
    BY <1>16 DEF s
  <2>3. /\ IsPartial(Start(wire', read')) => carry' = Start(wire', read') /\ held' = <<>>
        /\ ~IsPartial(Start(wire', read')) => carry' = <<>> /\ held' = Start(wire', read')
    BY <1>17, <2>2
  <2> QED
    BY <2>1, <2>3 DEF KeptOnce
<1> QED
  BY <1>8, <1>16, <1>18, <1>19 DEF rest

-----------------------------------------------------------------------------
(* The theorems.                                                           *)

(* Before any output nothing is kept.                                      *)
LEMMA NothingKept ==
  /\ Start(<<>>, 0) = <<>> /\ ~IsPartial(<<>>)
<1>1. Start(<<>>, 0) = <<>>
  BY DEF Start
<1>2. <<>> # <<"ESC">> /\ <<>> # Csi /\ Len(<<>>) = 0
  BY DEF Csi
<1>3. ~IsPartial(<<>>)
  BY <1>2 DEF IsPartial
<1> QED
  BY <1>1, <1>3

(* The screen at first.                                                    *)
LEMMA NewTyped == New \in ScreenState
<1>1. TERM_ROWS \in Nat \ {0, 1}
  BY ScreenAssumption
<1>2. Empty \in [1 .. TERM_ROWS -> Row] /\ 1 \in 1 .. TERM_ROWS /\ <<>> \in Seq(Row)
  BY <1>1 DEF Empty, Row
<1> QED
  BY <1>2 DEF New, ScreenState

(* At first, ...                                                           *)
LEMMA InitKeepsNothing == Init => KeptOnce
<1>1. SUFFICES ASSUME Init PROVE KeptOnce
  OBVIOUS
<1>2. wire = <<>> /\ read = 0 /\ carry = <<>> /\ held = <<>> /\ screen = New
  BY <1>1 DEF Init
<1>3. wire \in Seq(Piece) /\ read \in Nat /\ screen \in ScreenState
  BY <1>2, NewTyped
<1>4. Start(wire, read) = <<>> /\ ~IsPartial(Start(wire, read))
  BY <1>2, NothingKept
<1> QED
  BY <1>2, <1>3, <1>4 DEF KeptOnce

(* ... when the shell writes, ...                                          *)
LEMMA WritesKeeps ==
  ASSUME KeptOnce, NEW p \in Piece, Writes(p)
  PROVE  KeptOnce'
<1>1. /\ ~closed /\ wire' = Append(wire, p)
      /\ UNCHANGED <<read, carry, held, screen, closed>>
  BY DEF Writes
<1>2. /\ wire \in Seq(Piece) /\ read \in Nat /\ screen \in ScreenState
      /\ wire = <<>> => read = 0
      /\ wire # <<>> => read < Len(wire[1])
      /\ IsPartial(Start(wire, read)) => carry = Start(wire, read) /\ held = <<>>
      /\ ~IsPartial(Start(wire, read)) => carry = <<>> /\ held = Start(wire, read)
  BY <1>1 DEF KeptOnce
<1>3. wire' \in Seq(Piece) /\ wire' # <<>>
  BY <1>1, <1>2, AppendProperties
<1>4. read < Len(wire'[1]) /\ Start(wire', read) = Start(wire, read)
  <2>1. CASE wire = <<>>
    <3>1. wire'[1] = p /\ read = 0
      BY <1>1, <1>2, <2>1
    <3>2. p \in Seq(Char) /\ Len(p) \in 1 .. 8
      BY PieceIs
    <3>3. SubSeq(p, 1, 0) = <<>>
      BY SubSeqEmpty
    <3>4. read < Len(wire'[1])
      <4>. DEFINE l == Len(p)
      <4>1. l \in 1 .. 8
        BY <3>2
      <4>. HIDE DEF l
      <4>2. 0 < l
        BY <4>1
      <4> QED
        BY <3>1, <4>2 DEF l
    <3>5. Start(wire', read) = <<>>
      BY <1>3, <3>1, <3>3 DEF Start
    <3>6. Start(wire, read) = <<>>
      BY <2>1 DEF Start
    <3> QED
      BY <3>4, <3>5, <3>6
  <2>2. CASE wire # <<>>
    <3>1. wire'[1] = wire[1]
      BY <1>1, <1>2, <2>2, AppendProperties
    <3> QED
      BY <1>2, <1>3, <2>2, <3>1 DEF Start
  <2> QED
    BY <2>1, <2>2
<1>5. /\ IsPartial(Start(wire', read')) => carry' = Start(wire', read') /\ held' = <<>>
      /\ ~IsPartial(Start(wire', read')) => carry' = <<>> /\ held' = Start(wire', read')
  BY <1>1, <1>2, <1>4
<1> QED
  BY <1>1, <1>2, <1>3, <1>4, <1>5 DEF KeptOnce

(* ... when it ends, ...                                                   *)
LEMMA EndsKeeps ==
  ASSUME KeptOnce, Ends
  PROVE  KeptOnce'
<1>1. closed' = TRUE /\ wire' = <<>> /\ read' = 0 /\ screen' = screen /\ screen \in ScreenState
  BY DEF Ends, KeptOnce
<1> QED
  BY <1>1 DEF KeptOnce

(* ... and when the message is drawn, what is kept stays.                  *)
LEMMA OthersKeep ==
  ASSUME Loop \/ UserLeaves \/ UNCHANGED vars
  PROVE  UNCHANGED session
BY DEF Loop, UserLeaves, vars, Wakes, Edited, EditFails, Refused, SeesEnd, ClosesWithNotice

(* What was read of a piece that is cut is kept back in one place: by the  *)
(* reader's _carry if a switch of screens may come of it, and by pyte      *)
(* otherwise; no read leaves a character in both or in neither.            *)
THEOREM AlwaysKeptOnce == Spec => []KeptOnce
<1>1. Init => KeptOnce
  BY InitKeepsNothing
<1>2. KeptOnce /\ [Next]_vars => KeptOnce'
  <2>1. SUFFICES ASSUME KeptOnce, [Next]_vars PROVE KeptOnce'
    OBVIOUS
  <2>2. ASSUME NEW p \in Piece, Writes(p) PROVE KeptOnce'
    BY <2>1, <2>2, WritesKeeps
  <2>3. CASE Reads
    BY <2>1, <2>3, ReadsWhole
  <2>4. CASE Ends
    BY <2>1, <2>4, EndsKeeps
  <2>5. CASE Loop \/ UserLeaves \/ UNCHANGED vars
    <3>1. UNCHANGED session
      BY <2>5, OthersKeep
    <3> QED
      BY <2>1, <3>1 DEF KeptOnce, session
  <2> QED
    BY <2>1, <2>2, <2>3, <2>4, <2>5 DEF Next
<1> QED
  BY <1>1, <1>2, PTL DEF Spec

(* Leaving a full-screen program of any length that neither clears its     *)
(* page nor scrolls it brings the history back, from every screen that a   *)
(* shell's output can leave (_on_alt_screen).                              *)
THEOREM AlwaysHistoryComesBack == Spec => []HistoryComesBack
<1>1. KeptOnce => HistoryComesBack
  <2>1. SUFFICES ASSUME KeptOnce, ~screen.alt, NEW enter \in Enters, NEW exit \in Exits,
                        NEW program \in Programs, ~Scrolls(After(screen, enter), program)
                 PROVE  LET before == Render(screen).lines
                            after == Render(After(AfterAll(After(screen, enter), program), exit))
                        IN  /\ after.lines = Append(Newest(before, TERM_ROWS - 1), Blank)
                            /\ after.cursor = Len(after.lines)
    BY DEF HistoryComesBack
  <2>2. screen \in ScreenState
    BY <2>1 DEF KeptOnce
  <2>3. program \in Seq(Drawing)
    BY <2>1 DEF Programs
  <2> QED
    BY <2>1, <2>2, <2>3, HistoryComesBackFrom
<1> QED
  BY <1>1, AlwaysKeptOnce, PTL

(* However the output is cut into chunks, it takes effect piece by piece:  *)
(* a read shows some whole pieces of what waits, in order and each once,   *)
(* or none (_feed, _read_loop); the rest of a terminal shows nothing.      *)
THEOREM ImplementsWholeOutput == Spec => ChunksDoNotMatter
<1>1. Init => Promise!Init
  BY DEF Init, Promise!Init
<1>2. KeptOnce /\ [Next]_vars => [Promise!Next]_<<wire, screen>>
  <2>1. SUFFICES ASSUME KeptOnce, [Next]_vars PROVE [Promise!Next]_<<wire, screen>>
    OBVIOUS
  <2>2. ASSUME NEW p \in Piece, Writes(p) PROVE Promise!Next
    <3>1. wire' = Append(wire, p) /\ UNCHANGED screen
      BY <2>2 DEF Writes
    <3> QED
      BY <3>1 DEF Promise!Next, Promise!Writes
  <2>3. CASE Reads
    <3>1. PICK k \in 0 .. Len(wire) :
            /\ screen' = AfterAll(screen, SubSeq(wire, 1, k))
            /\ wire' = SubSeq(wire, k + 1, Len(wire))
      BY <2>1, <2>3, ReadsWhole
    <3>2. wire \in Seq(Piece) /\ screen \in ScreenState
      BY <2>1 DEF KeptOnce
    <3>3. CASE k = 0
      <4>1. wire' = wire
        <5>1. k + 1 = 1
          BY <3>3
        <5> QED
          BY <3>1, <3>2, <5>1, SubSeqFull
      <4>2. screen' = screen
        <5>1. PICK f \in [0 .. Len(wire) -> ScreenState] :
                f[0] = screen /\ \A i \in 0 .. Len(wire) : AfterAll(screen, SubSeq(wire, 1, i)) = f[i]
          BY <3>2, AfterAllPrefixes
        <5> QED
          BY <3>1, <3>3, <5>1
      <4> QED
        BY <4>1, <4>2
    <3>4. CASE k # 0
      <4>1. k \in 1 .. Len(wire)
        BY <3>2, <3>4
      <4> QED
        BY <3>1, <4>1 DEF Promise!Next, Promise!Shows
    <3> QED
      BY <3>3, <3>4
  <2>4. CASE Ends
    <3>1. wire' = <<>> /\ UNCHANGED screen
      BY <2>4 DEF Ends
    <3> QED
      BY <3>1 DEF Promise!Next, Promise!Ends
  <2>5. CASE Loop \/ UserLeaves \/ UNCHANGED vars
    <3>1. UNCHANGED session
      BY <2>5, OthersKeep
    <3> QED
      BY <3>1 DEF session
  <2> QED
    BY <2>1, <2>2, <2>3, <2>4, <2>5 DEF Next
<1> QED
  BY <1>1, <1>2, AlwaysKeptOnce, PTL DEF Spec, ChunksDoNotMatter, Promise!Safe
=============================================================================
