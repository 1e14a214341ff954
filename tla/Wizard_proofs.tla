---------------------------- MODULE Wizard_proofs ----------------------------
(***************************************************************************)
(* A run of the wizard stores one usable host at most, and is past a step  *)
(* only with its answer, for any number of messages, runs and updates.     *)
(* A button carries nothing but its name, and its press may come late: the *)
(* invariant InStep says of every message drawn in this run, and of every  *)
(* press on its way, that what it takes for granted has been answered.     *)
(***************************************************************************)
EXTENDS Wizard, SequenceTheorems, TLAPS

Whats == {"text", "/start", "add", "other", "cancel"} \cup WizardButtons
Updates == [msg : Msg \cup {None}, what : Whats, run : 0 .. MaxRuns]
Screens == [view : {None, "menu", "block"} \cup Step, run : 0 .. MaxRuns]
Coming == Range(inbox)
Fields == {"step", "data", "mid", "run"}

(* The answers that the buttons of a view, and a press, take for granted. *)
Answered(view, d) ==
  /\ view = "port" => {"label", "ip"} \subseteq DOMAIN d
  /\ view = "user" => {"label", "ip", "port"} \subseteq DOMAIN d
  /\ view = "auth" => {"label", "ip", "port", "username"} \subseteq DOMAIN d
AnsweredFor(what, d) ==
  /\ what = "port22" => Answered("port", d)
  /\ what = "userroot" => Answered("user", d)
  /\ what \in {"auth:password", "auth:key"} => Answered("auth", d)

(* The secret is of the login method, and locked if and only if it says so. *)
WellKept(d) ==
  /\ "secret" \in DOMAIN d => (UsesKey(d) <=> d["secret"] # "password")
  /\ "secret" \in DOMAIN d /\ d["secret"] = "lockedKey" => NeedsPass(d)
  /\ "needs_pass" \in DOMAIN d => UsesKey(d)

GoodFlow(f) ==
  /\ DOMAIN f = Fields /\ f.step \in Step /\ f.mid \in Msg
  /\ f.run = runs /\ f.run \in Run
  /\ WellKept(f.data)
  /\ f.step = "confirm" /\ NeedsPass(f.data) => "passphrase" \in DOMAIN f.data

(* The answers of the steps before. *)
Past(step, d) ==
  /\ step \in Step \ {"label"} => "label" \in DOMAIN d
  /\ step \in Step \ {"label", "addr"} => "ip" \in DOMAIN d
  /\ step \in Step \ {"label", "addr", "port"} => "port" \in DOMAIN d
  /\ step \in {"auth", "secret", "pass", "confirm"} => "username" \in DOMAIN d
  /\ step \in {"secret", "pass", "confirm"} => "auth" \in DOMAIN d
  /\ step \in {"pass", "confirm"} => "secret" \in DOMAIN d

InStep ==
  /\ Past(flow.step, flow.data)
  /\ \A m \in Msg : screen[m].run = flow.run
       => m = flow.mid /\ Answered(screen[m].view, flow.data)
  /\ \A u \in Coming : u.run = flow.run
       => u.msg = flow.mid /\ AnsweredFor(u.what, flow.data)
  /\ ~failed => screen[flow.mid].view \in {flow.step, "block"}

Usable(d) ==
  /\ Complete(d)
  /\ UsesKey(d) <=> d["secret"] # "password"
  /\ d["secret"] = "lockedKey" => "passphrase" \in DOMAIN d

Shape ==
  /\ screen \in [Msg -> Screens] /\ inbox \in Seq(Updates)
  /\ \A m \in Msg : screen[m].run <= runs
  /\ \A u \in Coming : /\ u.run <= runs
                       /\ u.what \notin {"text", "/start"} => u.msg \in Msg
  /\ runs \in 0 .. MaxRuns /\ jumped \in BOOLEAN

(* A run that has stored its host is over. *)
Stored ==
  /\ DOMAIN saved = Run
  /\ \A r \in Run : saved[r] = <<>> \/ \E d : saved[r] = <<d>> /\ Usable(d)
  /\ \A r \in Run : (r > runs \/ (r = runs /\ flow # None)) => saved[r] = <<>>

Inv ==
  /\ Shape /\ Stored
  /\ flow # None => GoodFlow(flow)
  /\ flow # None /\ ~jumped => InStep
-----------------------------------------------------------------------------
(* The steps of the wizard by their numbers, and its answers.              *)

LEMMA Steps ==
  Step = {"label", "addr", "port", "user", "auth", "secret", "pass", "confirm"}
<1>1. DOMAIN ORDER = 1 .. 8
  BY DEF ORDER
<1>2. 1 .. 8 = {1, 2, 3, 4, 5, 6, 7, 8}
  OBVIOUS
<1>3. Step = {ORDER[i] : i \in {1, 2, 3, 4, 5, 6, 7, 8}}
  BY <1>1, <1>2 DEF Step, Range
<1> QED
  BY <1>3 DEF ORDER

LEMMA NumberIs ==
  ASSUME NEW i \in 1 .. 8, NEW s, ORDER[i] = s, \A j \in 1 .. 8 : ORDER[j] = s => j = i
  PROVE  No(s) = i
BY DEF No

LEMMA Numbers ==
  /\ No("label") = 1 /\ No("addr") = 2 /\ No("port") = 3 /\ No("user") = 4
  /\ No("auth") = 5 /\ No("secret") = 6 /\ No("pass") = 7 /\ No("confirm") = 8
<1>1. ORDER[1] = "label" /\ ORDER[2] = "addr" /\ ORDER[3] = "port" /\ ORDER[4] = "user"
  BY DEF ORDER
<1>2. ORDER[5] = "auth" /\ ORDER[6] = "secret" /\ ORDER[7] = "pass" /\ ORDER[8] = "confirm"
  BY DEF ORDER
<1>3. 1 .. 8 = {1, 2, 3, 4, 5, 6, 7, 8}
  OBVIOUS
<1>4. No("label") = 1
  BY <1>1, <1>2, <1>3, NumberIs
<1>5. No("addr") = 2
  BY <1>1, <1>2, <1>3, NumberIs
<1>6. No("port") = 3
  BY <1>1, <1>2, <1>3, NumberIs
<1>7. No("user") = 4
  BY <1>1, <1>2, <1>3, NumberIs
<1>8. No("auth") = 5
  BY <1>1, <1>2, <1>3, NumberIs
<1>9. No("secret") = 6
  BY <1>1, <1>2, <1>3, NumberIs
<1>10. No("pass") = 7
  BY <1>1, <1>2, <1>3, NumberIs
<1>11. No("confirm") = 8
  BY <1>1, <1>2, <1>3, NumberIs
<1> QED
  BY <1>4, <1>5, <1>6, <1>7, <1>8, <1>9, <1>10, <1>11

(* Where a text leads to, and the Back button. *)
LEMMA Ways ==
  ASSUME NEW f, f.step \in Step
  PROVE  /\ f.step = "label" => Following(f) = "addr" /\ Previous(f) = None
         /\ f.step = "addr" => Following(f) = "port" /\ Previous(f) = "label"
         /\ f.step = "port" => Following(f) = "user" /\ Previous(f) = "addr"
         /\ f.step = "user" => Following(f) = "auth" /\ Previous(f) = "port"
         /\ f.step = "auth" => Previous(f) = "user"
         /\ f.step = "secret" => Following(f) = (IF NeedsPass(f.data) THEN "pass" ELSE "confirm")
                                 /\ Previous(f) = "auth"
         /\ f.step = "pass" => Following(f) = "confirm" /\ Previous(f) = "secret"
         /\ f.step = "confirm" => Previous(f) = IF NeedsPass(f.data) THEN "pass" ELSE "secret"
<1>1. ORDER[1] = "label" /\ ORDER[2] = "addr" /\ ORDER[3] = "port" /\ ORDER[4] = "user"
  BY DEF ORDER
<1>2. ORDER[5] = "auth" /\ ORDER[6] = "secret" /\ ORDER[7] = "pass" /\ ORDER[8] = "confirm"
  BY DEF ORDER
<1> QED
  BY <1>1, <1>2, Numbers DEF Following, Previous

(* InOrder says of each step what Past says of all of them. *)
LEMMA PastIsInOrder ==
  ASSUME NEW f, f.step \in Step
  PROVE  AnswersBefore(f) <=>
           /\ Past(f.step, f.data)
           /\ f.step = "confirm" /\ NeedsPass(f.data) => "passphrase" \in DOMAIN f.data
           /\ "needs_pass" \in DOMAIN f.data => UsesKey(f.data)
<1>1. DOMAIN AnswerOf \ {"pass"} = {"label", "addr", "port", "user"}
  BY DEF AnswerOf
<1>2. AnswerOf["label"] = "label" /\ AnswerOf["addr"] = "ip" /\ AnswerOf["port"] = "port"
      /\ AnswerOf["user"] = "username"
  BY DEF AnswerOf
<1> QED
  BY <1>1, <1>2, Numbers, Steps DEF AnswersBefore, Past

-----------------------------------------------------------------------------
(* The updates on their way.                                               *)

LEMMA Sent ==
  ASSUME NEW q \in Seq(Updates), NEW u \in Updates
  PROVE  Append(q, u) \in Seq(Updates) /\ Range(Append(q, u)) = Range(q) \cup {u}
<1>1. /\ Append(q, u) \in Seq(Updates) /\ Len(Append(q, u)) = Len(q) + 1
      /\ \A i \in 1 .. Len(q) : Append(q, u)[i] = q[i]
      /\ Append(q, u)[Len(q) + 1] = u
  BY AppendProperties
<1>2. DOMAIN q = 1 .. Len(q) /\ DOMAIN Append(q, u) = 1 .. Len(q) + 1 /\ Len(q) \in Nat
  BY <1>1, LenProperties
<1>3. 1 .. Len(q) + 1 = (1 .. Len(q)) \cup {Len(q) + 1}
  BY <1>2
<1> QED
  BY <1>1, <1>2, <1>3 DEF Range

LEMMA Received ==
  ASSUME NEW q \in Seq(Updates), q # <<>>
  PROVE  /\ Tail(q) \in Seq(Updates) /\ Range(Tail(q)) \subseteq Range(q)
         /\ Head(q) \in Range(q) /\ Head(q) \in Updates
<1>1. /\ Tail(q) \in Seq(Updates) /\ Len(Tail(q)) = Len(q) - 1
      /\ \A i \in 1 .. Len(q) - 1 : Tail(q)[i] = q[i + 1]
      /\ Head(q) \in Updates
  BY HeadTailProperties
<1>2. DOMAIN q = 1 .. Len(q) /\ DOMAIN Tail(q) = 1 .. Len(q) - 1 /\ Len(q) \in Nat /\ Len(q) # 0
  BY <1>1, LenProperties, EmptySeq
<1>3. Range(Tail(q)) \subseteq Range(q)
  <2>1. SUFFICES ASSUME NEW i \in 1 .. Len(q) - 1
                 PROVE  Tail(q)[i] \in Range(q)
    BY <1>2 DEF Range
  <2>2. Tail(q)[i] = q[i + 1] /\ i + 1 \in 1 .. Len(q)
    BY <1>1, <1>2
  <2> QED
    BY <1>2, <2>2 DEF Range
<1>4. Head(q) \in Range(q)
  <2>1. 1 \in DOMAIN q /\ Head(q) = q[1]
    BY <1>2
  <2> QED
    BY <2>1 DEF Range
<1> QED
  BY <1>1, <1>3, <1>4

(* What a handler finds at the head of the queue. *)
LEMMA HandledIs ==
  ASSUME Shape, NEW what, Handles(what)
  PROVE  /\ inbox' \in Seq(Updates) /\ Coming' \subseteq Coming
         /\ Head(inbox) \in Coming /\ Head(inbox) \in Updates
         /\ Head(inbox).what \in what
         /\ what \cap {"text", "/start"} = {} => Here \in Msg
<1>1. inbox \in Seq(Updates) /\ inbox # <<>> /\ inbox' = Tail(inbox) /\ Head(inbox).what \in what
  BY DEF Shape, Handles
<1>2. /\ inbox' \in Seq(Updates) /\ Coming' \subseteq Coming
      /\ Head(inbox) \in Coming /\ Head(inbox) \in Updates
  BY <1>1, Received DEF Coming
<1> QED
  BY <1>1, <1>2 DEF Shape, Here

-----------------------------------------------------------------------------
(* What is sent, and what ends the wizard.                                 *)

(* A button is pressed where it is drawn. *)
LEMMA Pressed ==
  ASSUME NEW view, NEW b \in Buttons(view)
  PROVE  /\ b \notin {"text", "/start"} /\ b \in Whats
         /\ b = "port22" => view = "port"
         /\ b = "userroot" => view = "user"
         /\ b \in {"auth:password", "auth:key"} => view = "auth"
<1> DEFINE own == CASE view = "port" -> {"port22"}
                    [] view = "user" -> {"userroot"}
                    [] view = "auth" -> {"auth:password", "auth:key"}
                    [] view = "confirm" -> {"save", "test"}
                    [] OTHER -> {}
<1>1. \A x \in own :
        \/ view = "port" /\ x = "port22"
        \/ view = "user" /\ x = "userroot"
        \/ view = "auth" /\ x \in {"auth:password", "auth:key"}
        \/ x \in {"save", "test"}
  OBVIOUS
<1> HIDE DEF own
<1>2. Buttons(view) = CASE view = None -> {}
                        [] view = "menu" -> {"add", "other"}
                        [] view = "block" -> {"other"}
                        [] OTHER -> {"back", "cancel"} \cup own
  BY DEF Buttons, own
<1>3. b \in {"add", "other", "back", "cancel"} \/ b \in own
  BY <1>2
<1> QED
  BY <1>1, <1>3 DEF Whats, WizardButtons

LEMMA SendsStep ==
  ASSUME Inv, NEW u \in Updates, Sends(u), u.run <= runs,
         u.what \notin {"text", "/start"} => u.msg \in Msg,
         flow # None /\ ~jumped /\ u.run = flow.run
           => u.msg = flow.mid /\ AnsweredFor(u.what, flow.data)
  PROVE  Inv'
<1>1. inbox' = Append(inbox, u) /\ UNCHANGED <<flow, screen, runs, saved, jumped, failed>>
  BY DEF Sends
<1>2. inbox' \in Seq(Updates) /\ Coming' = Coming \cup {u}
  BY <1>1, Sent DEF Inv, Shape, Coming
<1>3. Shape' /\ Stored'
  BY <1>1, <1>2 DEF Inv, Shape, Stored
<1>4. (flow # None => GoodFlow(flow))'
  BY <1>1 DEF Inv, GoodFlow
<1>5. (flow # None /\ ~jumped => InStep)'
  BY <1>1, <1>2 DEF Inv, InStep
<1> QED
  BY <1>3, <1>4, <1>5 DEF Inv

LEMMA PressesStep ==
  ASSUME Inv, NEW m \in Msg, Presses(m)
  PROVE  Inv'
<1>1. PICK b \in Buttons(screen[m].view) : Sends([msg |-> m, what |-> b, run |-> screen[m].run])
  BY DEF Presses
<1> DEFINE u == [msg |-> m, what |-> b, run |-> screen[m].run]
<1>2. u \in Updates /\ u.run <= runs /\ u.msg \in Msg
  BY Pressed DEF Inv, Shape, Screens, Updates
<1>3. flow # None /\ ~jumped /\ u.run = flow.run
        => u.msg = flow.mid /\ AnsweredFor(u.what, flow.data)
  BY Pressed DEF Inv, InStep, AnsweredFor
<1> QED
  BY <1>1, <1>2, <1>3, SendsStep

LEMMA WritesStep ==
  ASSUME Inv, Writes
  PROVE  Inv'
<1>1. PICK w \in {"text", "/start"} : Sends([msg |-> None, what |-> w, run |-> 0])
  BY DEF Writes
<1> DEFINE u == [msg |-> None, what |-> w, run |-> 0]
<1>2. u \in Updates /\ u.run <= runs
  <2>1. 0 \in 0 .. MaxRuns /\ 0 <= runs
    BY WizardAssumption DEF Inv, Shape
  <2>2. w \in Whats
    BY DEF Whats
  <2> QED
    BY <2>1, <2>2 DEF Updates
<1>3. ~(flow # None /\ u.run = flow.run)
  BY DEF Inv, GoodFlow, Run
<1> QED
  BY <1>1, <1>2, <1>3, SendsStep

(* A menu, and the gate's block, are nobody's run. *)
LEMMA MenuShown ==
  ASSUME Shape, NEW view \in {Menu, Block}, Posts(view) \/ (Shows(view) /\ Here \in Msg)
  PROVE  /\ screen' \in [Msg -> Screens]
         /\ \A m \in Msg : screen'[m].run \in {screen[m].run, 0}
         /\ \A m \in Msg : screen'[m] \in {screen[m], view}
<1>1. view \in Screens /\ view.run = 0
  BY WizardAssumption DEF Menu, Block, Screens
<1>2. CASE UNCHANGED screen
  BY <1>2 DEF Shape
<1>3. ASSUME NEW m \in Msg, screen' = [screen EXCEPT ![m] = view]
      PROVE  /\ screen' \in [Msg -> Screens]
             /\ \A q \in Msg : screen'[q].run \in {screen[q].run, 0}
             /\ \A q \in Msg : screen'[q] \in {screen[q], view}
  BY <1>1, <1>3 DEF Shape
<1> QED
  BY <1>2, <1>3 DEF Posts, Shows

LEMMA EndsStep ==
  ASSUME Inv, flow' = None, UNCHANGED <<runs, saved>>, jumped' \in BOOLEAN,
         inbox' \in Seq(Updates), Coming' \subseteq Coming,
         screen' \in [Msg -> Screens],
         \A m \in Msg : screen'[m].run \in {screen[m].run, 0}
  PROVE  Inv'
<1>1. runs' \in Nat /\ \A m \in Msg : screen[m].run <= runs
  BY DEF Inv, Shape
<1>2. Shape'
  BY <1>1 DEF Inv, Shape
<1>3. Stored'
  BY DEF Inv, Stored
<1> QED
  BY <1>2, <1>3 DEF Inv
-----------------------------------------------------------------------------
(* What goes on with the wizard.                                           *)

Simple == {"label", "ip", "port", "username"}

LEMMA MoreAnswered ==
  ASSUME NEW d, NEW e, Simple \cap DOMAIN d \subseteq DOMAIN e
  PROVE  /\ \A view : Answered(view, d) => Answered(view, e)
         /\ \A what : AnsweredFor(what, d) => AnsweredFor(what, e)
BY DEF Answered, AnsweredFor, Simple

(* The flow as it has become, drawn, or its drawing failed. *)
LEMMA RendersStep ==
  ASSUME Inv, flow # None, NEW f, GoodFlow(f), Renders(f),
         inbox' \in Seq(Updates), Coming' \subseteq Coming,
         UNCHANGED <<runs, saved>>, jumped' \in BOOLEAN,
         ~jumped' => /\ ~jumped /\ f.mid = flow.mid /\ Past(f.step, f.data)
                     /\ Simple \cap DOMAIN flow.data \subseteq DOMAIN f.data
  PROVE  Inv'
<1>1. flow' = f /\ f.mid \in Msg /\ f.step \in Step /\ f.run = runs /\ f.run \in Run
      /\ flow.run = runs
  BY DEF Renders, GoodFlow, Inv
<1>2. Drawn(f) \in Screens /\ Drawn(f).view = f.step /\ Drawn(f).run = runs /\ runs \in 0 .. MaxRuns
  BY <1>1 DEF Drawn, Screens, Run, Inv, Shape
<1>3. screen' = screen \/ screen' = [screen EXCEPT ![f.mid] = Drawn(f)]
  BY DEF Renders, Edits
<1>4. /\ screen' \in [Msg -> Screens]
      /\ \A m \in Msg \ {f.mid} : screen'[m] = screen[m]
      /\ screen'[f.mid] \in {screen[f.mid], Drawn(f)}
  BY <1>1, <1>2, <1>3 DEF Inv, Shape
<1>5. Shape'
  BY <1>1, <1>2, <1>4 DEF Inv, Shape
<1>6. Stored'
  BY DEF Inv, Stored
<1>7. (flow # None => GoodFlow(flow))'
  BY <1>1 DEF GoodFlow
<1>8. ASSUME ~jumped' PROVE InStep'
  <2>1. /\ InStep /\ f.mid = flow.mid /\ Past(f.step, f.data)
        /\ Simple \cap DOMAIN flow.data \subseteq DOMAIN f.data
    BY <1>8 DEF Inv
  <2>2. Answered(f.step, f.data)
    BY <2>1, Steps DEF Answered, Past
  <2>3. \A m \in Msg : screen'[m].run = runs
          => m = f.mid /\ Answered(screen'[m].view, f.data)
    <3>1. SUFFICES ASSUME NEW m \in Msg, screen'[m].run = runs
                   PROVE  m = f.mid /\ Answered(screen'[m].view, f.data)
      OBVIOUS
    <3>2. CASE screen'[m] = screen[m]
      <4>1. m = f.mid /\ Answered(screen[m].view, flow.data)
        BY <1>1, <2>1, <3>1, <3>2 DEF InStep
      <4> QED
        BY <2>1, <3>2, <4>1, MoreAnswered
    <3>3. CASE m = f.mid /\ screen'[m] = Drawn(f)
      BY <1>2, <2>2, <3>3
    <3> QED
      BY <1>4, <3>2, <3>3
  <2>4. \A u \in Coming' : u.run = runs => u.msg = f.mid /\ AnsweredFor(u.what, f.data)
    BY <1>1, <2>1, MoreAnswered DEF InStep
  <2>5. f.step = "confirm" => Drawable(f.data)
    BY <2>1, Steps DEF Past, Drawable, Needed
  <2>6. ~failed' => screen'[f.mid].view \in {f.step, "block"}
    BY <1>1, <1>2, <2>5 DEF Renders, Edits, Inv, Shape
  <2> QED
    BY <1>1, <2>1, <2>3, <2>4, <2>6 DEF InStep
<1> QED
  BY <1>1, <1>5, <1>6, <1>7, <1>8 DEF Inv

(* What a button finds: in a run that is not jumped its message is the     *)
(* wizard's already, and what it takes for granted has been answered.      *)
LEMMA ButtonIs ==
  ASSUME Inv, NEW what \in SUBSET WizardButtons, Button(what)
  PROVE  /\ flow # None /\ GoodFlow(flow)
         /\ DOMAIN Taken = Fields /\ Taken.step = flow.step /\ Taken.data = flow.data
         /\ Taken.run = flow.run /\ Taken.mid = Here /\ Here \in Msg
         /\ inbox' \in Seq(Updates) /\ Coming' \subseteq Coming
         /\ Head(inbox).what \in what
         /\ UNCHANGED runs /\ jumped' \in BOOLEAN
         /\ ~jumped' => /\ ~jumped /\ InStep /\ Here = flow.mid
                        /\ AnsweredFor(Head(inbox).what, flow.data)
<1>1. what \cap {"text", "/start"} = {}
  BY DEF WizardButtons
<1>2. flow # None /\ Handles(what) /\ jumped' = (jumped \/ Head(inbox).run # flow.run)
      /\ UNCHANGED runs
  BY DEF Button
<1>3. /\ inbox' \in Seq(Updates) /\ Coming' \subseteq Coming
      /\ Head(inbox) \in Coming /\ Head(inbox).what \in what /\ Here \in Msg
  BY <1>1, <1>2, HandledIs DEF Inv
<1>4. GoodFlow(flow) /\ jumped \in BOOLEAN
  BY <1>2 DEF Inv, Shape
<1>5. /\ DOMAIN Taken = Fields /\ Taken.step = flow.step /\ Taken.data = flow.data
      /\ Taken.run = flow.run /\ Taken.mid = Here
  BY <1>4 DEF Taken, GoodFlow, Fields
<1>6. ~jumped' => /\ ~jumped /\ InStep /\ Here = flow.mid
                  /\ AnsweredFor(Head(inbox).what, flow.data)
  BY <1>2, <1>3 DEF Inv, InStep, Here
<1> QED
  BY <1>2, <1>3, <1>4, <1>5, <1>6

(* A button that only takes its message over. *)
LEMMA TakenStep ==
  ASSUME Inv, NEW what \in SUBSET WizardButtons, Button(what),
         flow' = Taken, UNCHANGED <<screen, saved, failed>>
  PROVE  Inv'
<1>1. /\ flow # None /\ GoodFlow(flow)
      /\ DOMAIN Taken = Fields /\ Taken.step = flow.step /\ Taken.data = flow.data
      /\ Taken.run = flow.run /\ Taken.mid = Here /\ Here \in Msg
      /\ inbox' \in Seq(Updates) /\ Coming' \subseteq Coming
      /\ UNCHANGED runs /\ jumped' \in BOOLEAN
      /\ ~jumped' => ~jumped /\ InStep /\ Here = flow.mid
  BY ButtonIs
<1>2. Shape' /\ Stored'
  BY <1>1 DEF Inv, Shape, Stored
<1>3. GoodFlow(flow)'
  BY <1>1 DEF GoodFlow
<1>4. ~jumped' => InStep'
  BY <1>1 DEF InStep
<1> QED
  BY <1>2, <1>3, <1>4 DEF Inv

-----------------------------------------------------------------------------
(* The buttons of the wizard.                                              *)

LEMMA BacksStep ==
  ASSUME Inv, Backs
  PROVE  Inv'
<1>1. {"back"} \in SUBSET WizardButtons /\ Button({"back"})
  BY DEF Backs, WizardButtons
<1>2. /\ flow # None /\ GoodFlow(flow)
      /\ DOMAIN Taken = Fields /\ Taken.step = flow.step /\ Taken.data = flow.data
      /\ Taken.run = flow.run /\ Taken.mid = Here /\ Here \in Msg
      /\ inbox' \in Seq(Updates) /\ Coming' \subseteq Coming
      /\ UNCHANGED runs /\ jumped' \in BOOLEAN
      /\ ~jumped' => ~jumped /\ InStep /\ Here = flow.mid
  BY <1>1, ButtonIs
<1>3. UNCHANGED saved
  BY DEF Backs
<1>4. CASE Previous(flow) = None
  <2>1. flow' = None /\ Shows(Menu)
    BY <1>4 DEF Backs
  <2> QED
    BY <1>2, <1>3, <2>1, MenuShown, EndsStep DEF Inv
<1>5. CASE Previous(flow) # None
  <2> DEFINE f == [Taken EXCEPT !.step = Previous(flow)]
  <2>1. Renders(f)
    BY <1>5 DEF Backs
  <2>2. /\ DOMAIN f = Fields /\ f.step = Previous(flow) /\ f.data = flow.data
        /\ f.run = flow.run /\ f.mid = Here
    BY <1>2 DEF Fields
  <2>3. flow.step # "label" /\ flow.step \in Step
    BY <1>2, <1>5, Ways DEF GoodFlow
  <2>4. Previous(flow) \in Step \ {"confirm"}
    BY <2>3, Ways, Steps
  <2>5. Past(flow.step, flow.data) => Past(f.step, f.data)
    BY <2>2, <2>3, Ways, Steps DEF Past
  <2>6. GoodFlow(f)
    BY <1>2, <2>2, <2>4 DEF GoodFlow
  <2> HIDE DEF f
  <2> QED
    BY <1>2, <1>3, <2>1, <2>2, <2>5, <2>6, RendersStep DEF InStep
<1> QED
  BY <1>4, <1>5

LEMMA PortAndUserStep ==
  ASSUME Inv, Port22 \/ UserRoot
  PROVE  Inv'
<1>1. PICK what \in {"port22", "userroot"} :
        LET next == IF what = "port22" THEN "user" ELSE "auth"
            key == IF what = "port22" THEN "port" ELSE "username"
            value == IF what = "port22" THEN "22" ELSE "root"
        IN  /\ Button({what})
            /\ Renders([Taken EXCEPT !.step = next, !.data = With(@, key, value)])
            /\ UNCHANGED saved
  BY DEF Port22, UserRoot
<1> DEFINE next == IF what = "port22" THEN "user" ELSE "auth"
           key == IF what = "port22" THEN "port" ELSE "username"
           value == IF what = "port22" THEN "22" ELSE "root"
           f == [Taken EXCEPT !.step = next, !.data = With(@, key, value)]
<1>2. {what} \in SUBSET WizardButtons /\ Button({what}) /\ Renders(f) /\ UNCHANGED saved
  BY <1>1 DEF WizardButtons
<1>3. /\ flow # None /\ GoodFlow(flow)
      /\ DOMAIN Taken = Fields /\ Taken.step = flow.step /\ Taken.data = flow.data
      /\ Taken.run = flow.run /\ Taken.mid = Here /\ Here \in Msg
      /\ inbox' \in Seq(Updates) /\ Coming' \subseteq Coming
      /\ UNCHANGED runs /\ jumped' \in BOOLEAN
      /\ ~jumped' => ~jumped /\ InStep /\ Here = flow.mid /\ AnsweredFor(what, flow.data)
  BY <1>2, ButtonIs
<1>4. /\ DOMAIN f = Fields /\ f.step = next /\ f.data = With(flow.data, key, value)
      /\ f.run = flow.run /\ f.mid = Here
  BY <1>3 DEF Fields
<1>5. /\ DOMAIN f.data = DOMAIN flow.data \cup {key}
      /\ \A x \in DOMAIN flow.data : x # key => f.data[x] = flow.data[x]
      /\ next \in {"user", "auth"} /\ key \in {"port", "username"}
  <2> HIDE DEF f
  <2> QED
    BY <1>4 DEF With
<1>6. GoodFlow(f)
  <2>1. NeedsPass(f.data) = NeedsPass(flow.data) /\ UsesKey(f.data) = UsesKey(flow.data)
    BY <1>5 DEF NeedsPass, UsesKey
  <2>2. WellKept(f.data)
    BY <1>3, <1>5, <2>1 DEF GoodFlow, WellKept
  <2> QED
    BY <1>3, <1>4, <1>5, <2>2, Steps DEF GoodFlow
<1>7. AnsweredFor(what, flow.data) => Past(f.step, f.data)
  BY <1>4, <1>5, Steps DEF AnsweredFor, Answered, Past
<1> HIDE DEF f, next, key, value
<1> QED
  BY <1>2, <1>3, <1>4, <1>5, <1>6, <1>7, RendersStep

(* The other login method forgets the secret. *)
LEMMA PicksAuthStep ==
  ASSUME Inv, PicksAuth
  PROVE  Inv'
<1> DEFINE what == {"auth:password", "auth:key"}
           auth == IF Head(inbox).what = "auth:key" THEN "key" ELSE "password"
           f == [Taken EXCEPT !.step = "secret", !.data = AnswersAfterAuth(@, auth)]
<1>1. what \in SUBSET WizardButtons /\ Button(what) /\ Renders(f) /\ UNCHANGED saved
  BY DEF PicksAuth, WizardButtons
<1>2. /\ flow # None /\ GoodFlow(flow)
      /\ DOMAIN Taken = Fields /\ Taken.step = flow.step /\ Taken.data = flow.data
      /\ Taken.run = flow.run /\ Taken.mid = Here /\ Here \in Msg
      /\ inbox' \in Seq(Updates) /\ Coming' \subseteq Coming
      /\ Head(inbox).what \in what
      /\ UNCHANGED runs /\ jumped' \in BOOLEAN
      /\ ~jumped' => /\ ~jumped /\ InStep /\ Here = flow.mid
                     /\ AnsweredFor(Head(inbox).what, flow.data)
  BY <1>1, ButtonIs
<1>3. /\ DOMAIN f = Fields /\ f.step = "secret" /\ f.data = AnswersAfterAuth(flow.data, auth)
      /\ f.run = flow.run /\ f.mid = Here
  BY <1>2 DEF Fields
<1>4. DOMAIN f.data = (DOMAIN flow.data \ AuthAnswers) \cup {"auth"}
  <2> HIDE DEF f
  <2>1. DOMAIN With(Without(flow.data, AuthAnswers), "auth", auth)
          = DOMAIN Without(flow.data, AuthAnswers) \cup {"auth"}
    BY DEF With
  <2>2. DOMAIN Without(flow.data, AuthAnswers) = DOMAIN flow.data \ AuthAnswers
    BY DEF Without
  <2> QED
    BY <1>3, <2>1, <2>2 DEF AnswersAfterAuth
<1>5. GoodFlow(f)
  <2>1. WellKept(f.data)
    BY <1>4 DEF WellKept, AuthAnswers
  <2> QED
    BY <1>2, <1>3, <2>1, Steps DEF GoodFlow
<1>6. AnsweredFor(Head(inbox).what, flow.data) => Past(f.step, f.data)
  BY <1>2, <1>3, <1>4, Steps DEF AnsweredFor, Answered, Past, AuthAnswers
<1>7. Simple \cap DOMAIN flow.data \subseteq DOMAIN f.data
  BY <1>4 DEF Simple, AuthAnswers
<1> HIDE DEF f, what
<1> QED
  BY <1>1, <1>2, <1>3, <1>5, <1>6, <1>7, RendersStep

LEMMA OnlyTakesStep ==
  ASSUME Inv, OnlyTakes
  PROVE  Inv'
BY TakenStep DEF OnlyTakes

LEMMA TestsStep ==
  ASSUME Inv, Tests
  PROVE  Inv'
<1>1. {"test"} \in SUBSET WizardButtons /\ Button({"test"}) /\ UNCHANGED saved /\ Renders(Taken)
  BY DEF Tests, WizardButtons
<1>2. /\ flow # None /\ GoodFlow(flow)
      /\ DOMAIN Taken = Fields /\ Taken.step = flow.step /\ Taken.data = flow.data
      /\ Taken.run = flow.run /\ Taken.mid = Here /\ Here \in Msg
      /\ inbox' \in Seq(Updates) /\ Coming' \subseteq Coming
      /\ UNCHANGED runs /\ jumped' \in BOOLEAN
      /\ ~jumped' => ~jumped /\ InStep /\ Here = flow.mid
  BY <1>1, ButtonIs
<1>3. GoodFlow(Taken)
  BY <1>2 DEF GoodFlow
<1> QED
  BY <1>1, <1>2, <1>3, RendersStep DEF InStep

(* The host is stored, and the run of the wizard is over. *)
LEMMA SavesStep ==
  ASSUME Inv, Saves
  PROVE  Inv'
<1>1. {"save"} \in SUBSET WizardButtons /\ Button({"save"})
  BY DEF Saves, WizardButtons
<1>2. /\ flow # None /\ GoodFlow(flow) /\ Here \in Msg
      /\ inbox' \in Seq(Updates) /\ Coming' \subseteq Coming
      /\ UNCHANGED runs /\ jumped' \in BOOLEAN
  BY <1>1, ButtonIs
<1>3. /\ AtConfirm
      /\ saved' = [saved EXCEPT ![flow.run] = Append(@, flow.data)]
      /\ flow' = AfterSave
      /\ Edits(Here, Menu)
  BY DEF Saves
<1> QED
  <2>1. flow' = None
    BY <1>3 DEF AfterSave
  <2>2. screen' = screen \/ screen' = [screen EXCEPT ![Here] = Menu]
    BY <1>3 DEF Edits
  <2>3. /\ screen' \in [Msg -> Screens]
        /\ \A m \in Msg : screen'[m].run \in {screen[m].run, 0}
    <3>1. screen \in [Msg -> Screens] /\ Menu \in Screens /\ Menu.run = 0
      BY WizardAssumption DEF Inv, Shape, Menu, Screens
    <3> QED
      BY <1>2, <2>2, <3>1
  <2>4. Shape'
    BY <1>2, <2>3 DEF Inv, Shape
  <2>5. Usable(flow.data)
    BY <1>2, <1>3 DEF Usable, AtConfirm, GoodFlow, WellKept, Complete, Needed
  <2>6. saved'[flow.run] = <<flow.data>>
    <3>1. saved[flow.run] = <<>>
      BY <1>2 DEF Inv, Stored, GoodFlow
    <3>2. flow.run \in DOMAIN saved
      BY <1>2 DEF Inv, Stored, GoodFlow
    <3> QED
      BY <1>3, <3>1, <3>2
  <2>7. DOMAIN saved' = Run /\ \A r \in Run : r # flow.run => saved'[r] = saved[r]
    BY <1>3 DEF Inv, Stored
  <2>8. Stored'
    BY <1>2, <2>1, <2>5, <2>6, <2>7 DEF Inv, Stored, GoodFlow, Shape, Run
  <2> QED
    BY <2>1, <2>4, <2>8 DEF Inv

-----------------------------------------------------------------------------
(* What is typed.                                                          *)

LEMMA SimpleAnswerKept ==
  ASSUME NEW d, WellKept(d), NEW k \in {"label", "ip", "port", "username", "passphrase"},
         NEW v
  PROVE  /\ WellKept(With(d, k, v)) /\ NeedsPass(With(d, k, v)) = NeedsPass(d)
         /\ DOMAIN With(d, k, v) = DOMAIN d \cup {k}
<1> DEFINE e == With(d, k, v)
<1>1. DOMAIN e = DOMAIN d \cup {k} /\ \A x \in DOMAIN d : x # k => e[x] = d[x]
  BY DEF With
<1> HIDE DEF e
<1>2. NeedsPass(e) = NeedsPass(d) /\ UsesKey(e) = UsesKey(d)
  BY <1>1 DEF NeedsPass, UsesKey
<1>3. WellKept(e)
  BY <1>1, <1>2 DEF WellKept
<1> QED
  BY <1>1, <1>2, <1>3 DEF e

LEMMA SecretKept ==
  ASSUME NEW d, WellKept(d), NEW e \in Accepted(d)
  PROVE  /\ WellKept(e) /\ DOMAIN d \cup {"secret"} \subseteq DOMAIN e
<1>1. CASE ~UsesKey(d)
  <2>1. e = With(d, "secret", "password")
    BY <1>1 DEF Accepted
  <2>2. /\ DOMAIN e = DOMAIN d \cup {"secret"} /\ e["secret"] = "password"
        /\ \A x \in DOMAIN d : x # "secret" => e[x] = d[x]
    BY <2>1 DEF With
  <2>3. ~UsesKey(e) /\ "needs_pass" \notin DOMAIN e
    BY <1>1, <2>2 DEF WellKept, UsesKey
  <2> QED
    BY <2>2, <2>3 DEF WellKept
<1>2. CASE UsesKey(d)
  <2>1. PICK s \in Secret \ {"password"} :
          e = With(With(d, "secret", s), "needs_pass", s = "lockedKey")
    BY <1>2 DEF Accepted
  <2>2. PICK b \in BOOLEAN : b = (s = "lockedKey") /\ e = With(With(d, "secret", s), "needs_pass", b)
    BY <2>1
  <2>3. /\ DOMAIN e = DOMAIN d \cup {"secret", "needs_pass"} /\ e["secret"] = s
        /\ e["needs_pass"] = b
        /\ \A x \in DOMAIN d : x \notin {"secret", "needs_pass"} => e[x] = d[x]
    BY <2>2 DEF With
  <2>4. UsesKey(e) /\ s # "password"
    BY <1>2, <2>1, <2>3 DEF UsesKey
  <2>5. NeedsPass(e) <=> s = "lockedKey"
    BY <2>2, <2>3 DEF NeedsPass
  <2> QED
    BY <2>3, <2>4, <2>5 DEF WellKept
<1> QED
  BY <1>1, <1>2

LEMMA AnswerKept ==
  ASSUME NEW f, f.step \in Step, WellKept(f.data), NEW d \in Answers(f),
         NEW g, g.step = f.step, g.data = d
  PROVE  /\ WellKept(d) /\ Following(g) \in Step
         /\ Past(f.step, f.data) => Past(Following(g), d)
         /\ Simple \cap DOMAIN f.data \subseteq DOMAIN d
         /\ Following(g) = "confirm" /\ NeedsPass(d) => "passphrase" \in DOMAIN d
<1>1. DOMAIN AnswerOf = {"label", "addr", "port", "user", "pass"}
  BY DEF AnswerOf
<1>2. /\ AnswerOf["label"] = "label" /\ AnswerOf["addr"] = "ip" /\ AnswerOf["port"] = "port"
      /\ AnswerOf["user"] = "username" /\ AnswerOf["pass"] = "passphrase"
  BY DEF AnswerOf
<1>3. CASE f.step \in DOMAIN AnswerOf
  <2> DEFINE k == AnswerOf[f.step]
  <2>1. d = With(f.data, k, "typed")
    BY <1>1, <1>3 DEF Answers
  <2>2. k \in {"label", "ip", "port", "username", "passphrase"}
    BY <1>1, <1>2, <1>3
  <2>3. WellKept(d) /\ DOMAIN d = DOMAIN f.data \cup {k}
    <3> HIDE DEF k
    <3>1. /\ WellKept(With(f.data, k, "typed"))
          /\ DOMAIN With(f.data, k, "typed") = DOMAIN f.data \cup {k}
      BY <2>2, SimpleAnswerKept, Zenon
    <3> QED
      BY <2>1, <3>1
  <2>4. Following(g) \in Step
        /\ (Past(f.step, f.data) => Past(Following(g), d))
        /\ (Following(g) = "confirm" => "passphrase" \in DOMAIN d)
    BY <1>1, <1>2, <1>3, <2>3, Ways, Steps DEF Past
  <2> QED
    BY <2>3, <2>4 DEF Simple
<1>4. CASE f.step = "secret"
  <2>1. d \in Accepted(f.data)
    BY <1>1, <1>4 DEF Answers
  <2>2. WellKept(d) /\ DOMAIN f.data \cup {"secret"} \subseteq DOMAIN d
    BY <2>1, SecretKept
  <2>3. Following(g) = IF NeedsPass(d) THEN "pass" ELSE "confirm"
    BY <1>4, Ways
  <2> QED
    BY <1>4, <2>2, <2>3, Steps DEF Past, Simple
<1> QED
  BY <1>3, <1>4 DEF Answers

LEMMA TypesStep ==
  ASSUME Inv, Types
  PROVE  Inv'
<1>1. /\ Handles({"text"}) /\ UNCHANGED <<runs, saved, jumped>>
      /\ inbox' \in Seq(Updates) /\ Coming' \subseteq Coming
  BY HandledIs DEF Types, Inv
<1>2. CASE flow = None
  <2>1. flow' = None /\ Posts(Menu)
    BY <1>2 DEF Types
  <2>2. jumped' \in BOOLEAN
    BY <1>1 DEF Inv, Shape
  <2> QED
    BY <1>1, <2>1, <2>2, MenuShown, EndsStep DEF Inv
<1>3. CASE flow # None /\ Renders(flow)
  <2>1. GoodFlow(flow) /\ jumped' \in BOOLEAN /\ (~jumped' => ~jumped /\ InStep)
    BY <1>1, <1>3 DEF Inv, Shape
  <2> QED
    BY <1>1, <1>3, <2>1, RendersStep DEF InStep
<1>4. ASSUME flow # None, NEW d \in Answers(flow),
             Renders([flow EXCEPT !.data = d, !.step = Following([flow EXCEPT !.data = d])])
      PROVE  Inv'
  <2> DEFINE g == [flow EXCEPT !.data = d]
             f == [flow EXCEPT !.data = d, !.step = Following(g)]
  <2>1. GoodFlow(flow) /\ jumped' \in BOOLEAN /\ (~jumped' => ~jumped /\ InStep)
    BY <1>1, <1>4 DEF Inv, Shape
  <2>2. g.step = flow.step /\ g.data = d
    BY <2>1 DEF GoodFlow, Fields
  <2> HIDE DEF g
  <2>3. /\ DOMAIN f = Fields /\ f.step = Following(g) /\ f.data = d
        /\ f.run = flow.run /\ f.mid = flow.mid
    BY <2>1 DEF GoodFlow, Fields
  <2>4. Renders(f)
    BY <1>4 DEF g
  <2> HIDE DEF f
  <2>5. /\ WellKept(d) /\ Following(g) \in Step
        /\ Past(flow.step, flow.data) => Past(Following(g), d)
        /\ Simple \cap DOMAIN flow.data \subseteq DOMAIN d
        /\ Following(g) = "confirm" /\ NeedsPass(d) => "passphrase" \in DOMAIN d
    BY <1>4, <2>1, <2>2, AnswerKept DEF GoodFlow
  <2>6. GoodFlow(f)
    BY <2>1, <2>3, <2>5 DEF GoodFlow
  <2> QED
    BY <1>1, <1>4, <2>1, <2>3, <2>4, <2>5, <2>6, RendersStep DEF InStep
<1> QED
  BY <1>2, <1>3, <1>4 DEF Types
-----------------------------------------------------------------------------
(* The handlers that start and end the wizard.                             *)

LEMMA ElsewhereStep ==
  ASSUME Inv, Elsewhere \/ Starts
  PROVE  Inv'
<1>1. PICK what : /\ Handles(what) /\ flow' = None /\ UNCHANGED <<runs, saved, jumped>>
                  /\ Posts(Menu) \/ (Shows(Menu) /\ what \cap {"text", "/start"} = {})
  BY DEF Elsewhere, Starts
<1>2. /\ inbox' \in Seq(Updates) /\ Coming' \subseteq Coming
      /\ what \cap {"text", "/start"} = {} => Here \in Msg
  BY <1>1, HandledIs DEF Inv
<1>3. jumped' \in BOOLEAN
  BY <1>1 DEF Inv, Shape
<1> QED
  BY <1>1, <1>2, <1>3, MenuShown, EndsStep DEF Inv

(* The block leaves the wizard where it was, or ends it. *)
LEMMA BlockedStep ==
  ASSUME Inv, Blocked
  PROVE  Inv'
<1>1. PICK what \in {{"text", "/start"}, EndsFlow, WizardButtons} :
        /\ Handles(what) /\ UNCHANGED <<runs, saved, jumped, failed>>
        /\ flow' = IF what = EndsFlow THEN None ELSE flow
        /\ IF "text" \in what THEN Posts(Block) ELSE Shows(Block)
  BY DEF Blocked
<1>2. "text" \notin what => what \cap {"text", "/start"} = {}
  BY DEF EndsFlow, WizardButtons
<1>3. /\ inbox' \in Seq(Updates) /\ Coming' \subseteq Coming
      /\ "text" \notin what => Here \in Msg
  BY <1>1, <1>2, HandledIs DEF Inv
<1>4. /\ screen' \in [Msg -> Screens]
      /\ \A m \in Msg : screen'[m].run \in {screen[m].run, 0}
      /\ \A m \in Msg : screen'[m] \in {screen[m], Block}
  <2>1. Posts(Block) \/ (Shows(Block) /\ Here \in Msg)
    BY <1>1, <1>3
  <2> QED
    BY <2>1, MenuShown DEF Inv
<1>5. jumped' \in BOOLEAN
  BY <1>1 DEF Inv, Shape
<1>6. CASE flow' = None
  BY <1>1, <1>3, <1>4, <1>5, <1>6, EndsStep
<1>7. CASE flow' = flow /\ flow # None
  <2>1. GoodFlow(flow) /\ GoodFlow(flow)' /\ flow.run # 0
    BY <1>1, <1>7 DEF Inv, GoodFlow, Run
  <2>2. Shape' /\ Stored'
    <3>1. \A m \in Msg : screen'[m].run <= runs'
      <4>1. \A m \in Msg : screen[m].run <= runs
        BY DEF Inv, Shape
      <4>2. 0 <= runs /\ runs' = runs
        BY <1>1 DEF Inv, Shape
      <4> QED
        BY <1>4, <4>1, <4>2
    <3> QED
      BY <1>1, <1>3, <1>4, <1>7, <3>1 DEF Inv, Shape, Stored
  <2>3. ASSUME ~jumped' PROVE InStep'
    <3>1. InStep /\ flow.mid \in Msg
      BY <1>1, <1>7, <2>1, <2>3 DEF Inv, GoodFlow
    <3>2. \A m \in Msg : screen'[m].run = flow.run => screen'[m] = screen[m]
      BY <1>4, <2>1 DEF Block
    <3>3. ~failed' => screen'[flow.mid].view \in {flow.step, "block"}
      BY <1>1, <1>4, <3>1 DEF InStep, Block
    <3> QED
      BY <1>3, <1>7, <3>1, <3>2, <3>3 DEF InStep
  <2> QED
    BY <1>7, <2>1, <2>2, <2>3 DEF Inv
<1> QED
  BY <1>1, <1>6, <1>7

LEMMA ExpiredStep ==
  ASSUME Inv, Expired
  PROVE  Inv'
<1>1. /\ Handles(WizardButtons) /\ WizardButtons \cap {"text", "/start"} = {}
      /\ flow' = None /\ Shows(Menu) /\ UNCHANGED <<runs, saved, jumped>>
  BY DEF Expired, WizardButtons
<1>2. /\ inbox' \in Seq(Updates) /\ Coming' \subseteq Coming /\ Here \in Msg
  BY <1>1, HandledIs DEF Inv
<1>3. jumped' \in BOOLEAN
  BY <1>1 DEF Inv, Shape
<1> QED
  BY <1>1, <1>2, <1>3, MenuShown, EndsStep DEF Inv

LEMMA RebootsStep ==
  ASSUME Inv, Reboots
  PROVE  Inv'
<1>1. flow' = None /\ inbox' \in {inbox, <<>>} /\ UNCHANGED <<screen, runs, saved, jumped>>
  BY DEF Reboots
<1>2. inbox' \in Seq(Updates) /\ Coming' \subseteq Coming
  <2>1. inbox \in Seq(Updates) /\ <<>> \in Seq(Updates)
    BY DEF Inv, Shape
  <2>2. DOMAIN <<>> = {}
    BY EmptySeq
  <2>3. Range(<<>>) = {}
    BY <2>2 DEF Range
  <2> QED
    BY <1>1, <2>1, <2>3 DEF Coming
<1>3. jumped' \in BOOLEAN /\ screen' \in [Msg -> Screens]
  BY <1>1 DEF Inv, Shape
<1> QED
  BY <1>1, <1>2, <1>3, EndsStep

(* A new run: nothing that was drawn or sent before is of it. *)
LEMMA AddsStep ==
  ASSUME Inv, Adds
  PROVE  Inv'
<1>1. /\ Handles({"add"}) /\ {"add"} \cap {"text", "/start"} = {} /\ UNCHANGED saved
  BY DEF Adds
<1>2. /\ inbox' \in Seq(Updates) /\ Coming' \subseteq Coming /\ Here \in Msg
  BY <1>1, HandledIs DEF Inv
<1>3. CASE flow' = None /\ Shows(Menu) /\ UNCHANGED <<runs, failed, jumped>>
  <2>1. jumped' \in BOOLEAN
    BY <1>3 DEF Inv, Shape
  <2> QED
    BY <1>1, <1>2, <1>3, <2>1, MenuShown, EndsStep DEF Inv
<1>4. CASE /\ runs < MaxRuns
           /\ runs' = runs + 1
           /\ flow' = [step |-> "label", data |-> <<>>, mid |-> Here, run |-> runs']
           /\ \/ screen' = [screen EXCEPT ![Here] = Drawn(flow')] /\ failed' = FALSE
              \/ screen' = screen /\ failed' = TRUE
           /\ jumped' = FALSE
  <2>1. /\ flow'.step = "label" /\ flow'.data = <<>> /\ flow'.mid = Here /\ flow'.run = runs'
        /\ DOMAIN flow' = Fields /\ DOMAIN flow'.data = {}
    BY <1>4, EmptySeq DEF Fields
  <2>2. runs \in Nat /\ runs' \in 1 .. MaxRuns /\ runs' \in 0 .. MaxRuns /\ runs < runs'
    BY <1>4, WizardAssumption DEF Inv, Shape
  <2>3. Drawn(flow') = [view |-> "label", run |-> runs'] /\ Drawn(flow') \in Screens
    BY <2>1, <2>2, Steps DEF Drawn, Screens
  <2>4. /\ screen' \in [Msg -> Screens]
        /\ \A m \in Msg : screen'[m] = screen[m] \/ (m = Here /\ screen'[m] = Drawn(flow'))
        /\ ~failed' => screen'[Here] = Drawn(flow')
    BY <1>2, <1>4, <2>3 DEF Inv, Shape
  <2>5. /\ \A m \in Msg : screen[m].run \in Nat /\ screen[m].run <= runs
        /\ \A u \in Coming : u.run <= runs
    BY DEF Inv, Shape, Screens
  <2>6. \A u \in Coming : u.run \in Nat
    <3>1. \A i \in DOMAIN inbox : inbox[i] \in Updates
      BY LenProperties DEF Inv, Shape
    <3> QED
      BY <3>1 DEF Coming, Range, Updates
  <2>7. Shape'
    <3>1. \A m \in Msg : screen'[m].run <= runs'
      BY <2>2, <2>3, <2>4, <2>5
    <3>2. \A u \in Coming' : u.run <= runs'
      BY <1>2, <2>2, <2>5, <2>6
    <3> QED
      BY <1>2, <1>4, <2>2, <2>4, <3>1, <3>2 DEF Inv, Shape
  <2>8. Stored'
    BY <1>1, <2>2 DEF Inv, Stored, Run
  <2>9. GoodFlow(flow)'
    BY <1>2, <2>1, <2>2, Steps DEF GoodFlow, WellKept, NeedsPass, Run
  <2>10. InStep'
    <3>1. Past(flow'.step, flow'.data)
      BY <2>1, Steps DEF Past
    <3>2. \A m \in Msg : screen'[m].run = flow'.run
            => m = flow'.mid /\ Answered(screen'[m].view, flow'.data)
      BY <2>1, <2>2, <2>3, <2>4, <2>5 DEF Answered
    <3>3. \A u \in Coming' : u.run # flow'.run
      BY <1>2, <2>1, <2>2, <2>5, <2>6
    <3> QED
      BY <2>1, <2>3, <2>4, <3>1, <3>2, <3>3 DEF InStep
  <2> QED
    BY <2>7, <2>8, <2>9, <2>10 DEF Inv
<1> QED
  BY <1>3, <1>4 DEF Adds

-----------------------------------------------------------------------------
(* The theorems.                                                           *)

LEMMA InvAtFirst == Init => Inv
<1> SUFFICES ASSUME Init PROVE Inv
  OBVIOUS
<1>1. Menu \in Screens /\ Blank \in Screens /\ Menu.run = 0 /\ Blank.run = 0
      /\ 0 \in 0 .. MaxRuns
  BY WizardAssumption DEF Menu, Blank, Screens
<1>2. screen \in [Msg -> Screens] /\ \A m \in Msg : screen[m].run = 0
  BY <1>1 DEF Init
<1>3. inbox \in Seq(Updates) /\ Coming = {}
  <2>1. <<>> \in Seq(Updates) /\ DOMAIN <<>> = {}
    BY EmptySeq
  <2> QED
    BY <2>1 DEF Init, Coming, Range
<1>4. Shape
  <2>1. runs = 0 /\ jumped = FALSE
    BY DEF Init
  <2>2. \A m \in Msg : screen[m].run <= runs
    BY <1>2, <2>1
  <2> QED
    BY <1>1, <1>2, <1>3, <2>1, <2>2 DEF Shape
<1>5. Stored
  BY DEF Init, Stored
<1> QED
  BY <1>4, <1>5 DEF Init, Inv

LEMMA InvStep == Inv /\ [Next]_vars => Inv'
<1> SUFFICES ASSUME Inv, [Next]_vars PROVE Inv'
  OBVIOUS
<1>1. ASSUME NEW m \in Msg, Presses(m) PROVE Inv'
  BY <1>1, PressesStep
<1>2. CASE Writes \/ Reboots
  BY <1>2, WritesStep, RebootsStep
<1>3. CASE Blocked \/ Elsewhere \/ Starts \/ Adds \/ Expired \/ Types
  BY <1>3, BlockedStep, ElsewhereStep, AddsStep, ExpiredStep, TypesStep
<1>4. CASE OnlyTakes \/ Backs \/ Port22 \/ UserRoot \/ PicksAuth \/ Tests \/ Saves
  BY <1>4, OnlyTakesStep, BacksStep, PortAndUserStep, PicksAuthStep, TestsStep, SavesStep
<1>5. CASE UNCHANGED vars
  BY <1>5 DEF vars, Inv, Shape, Stored, GoodFlow, InStep, Coming
<1> QED
  BY <1>1, <1>2, <1>3, <1>4, <1>5 DEF Next

(* However the presses and texts of a chat are interleaved with what the   *)
(* handlers draw, what a button of this run takes for granted has been     *)
(* answered when its press is handled, and a run that stored is over.      *)
THEOREM WizardInvariant == Spec => []Inv
<1>1. Init => Inv
  BY InvAtFirst
<1>2. Inv /\ [Next]_vars => Inv'
  BY InvStep
<1> QED
  BY <1>1, <1>2, PTL DEF Spec

LEMMA StoredHosts ==
  ASSUME Inv, NEW r \in Run
  PROVE  Len(saved[r]) <= 1 /\ \A d \in Range(saved[r]) : Usable(d)
<1>1. CASE saved[r] = <<>>
  <2>1. DOMAIN <<>> = {} /\ Len(<<>>) = 0
    BY EmptySeq
  <2> QED
    BY <1>1, <2>1 DEF Range
<1>2. ASSUME NEW d, saved[r] = <<d>>, Usable(d)
      PROVE  Len(saved[r]) <= 1 /\ \A e \in Range(saved[r]) : Usable(e)
  <2>1. Len(<<d>>) = 1 /\ DOMAIN <<d>> = {1} /\ <<d>>[1] = d
    OBVIOUS
  <2> QED
    BY <1>2, <2>1 DEF Range
<1> QED
  BY <1>1, <1>2 DEF Inv, Stored

(* The save button, pressed however often and in whatever message, stores  *)
(* one host in a run of the wizard at most.                                *)
THEOREM AlwaysSavedOnce == Spec => []SavedOnce
<1>1. Inv => SavedOnce
  BY StoredHosts DEF SavedOnce
<1> QED
  BY <1>1, WizardInvariant, PTL

(* What it stores has every answer, and the secret, and the passphrase,    *)
(* of the login method chosen last.                                        *)
THEOREM AlwaysSavedIsUsable == Spec => []SavedIsUsable
<1>1. Inv => SavedIsUsable
  BY StoredHosts DEF SavedIsUsable, Usable
<1> QED
  BY <1>1, WizardInvariant, PTL

(* Without the buttons of older runs the wizard is past a step only with   *)
(* its answer, also when several messages of this run or late presses      *)
(* answer and go back.                                                     *)
THEOREM AlwaysInOrder == Spec => []InOrder
<1>1. Inv => InOrder
  BY PastIsInOrder DEF Inv, InStep, GoodFlow, WellKept, InOrder
<1> QED
  BY <1>1, WizardInvariant, PTL

(* And its message shows the step that the next text will answer, or the   *)
(* gate's block, unless an edit of it failed.                              *)
THEOREM AlwaysShowsItsStep == Spec => []ShowsItsStep
<1>1. Inv => ShowsItsStep
  BY DEF Inv, InStep, ShowsItsStep
<1> QED
  BY <1>1, WizardInvariant, PTL

==============================================================================
