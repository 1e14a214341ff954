------------------------------- MODULE Wizard -------------------------------
(***************************************************************************)
(* The wizard that adds a server (handlers/hosts.py).  Its answers are in  *)
(* user_data["flow"] of the chat; every message it was ever drawn in keeps *)
(* its buttons, which do not say which run of the wizard they belong to.   *)
(* The handlers of a chat run one at a time in the order of its updates    *)
(* (module OrderedProcessor), so each is one step; the user may send the   *)
(* next update before the last one is handled, the edit of a message may   *)
(* fail (ui.edit), and access may come and go between any two updates: the *)
(* gate in front of the handlers then shows its block (gate.py:157-191).   *)
(* The values of the answers are left out except for what the steps depend *)
(* on.                                                                     *)
(***************************************************************************)
EXTENDS Naturals, Sequences, Functions

CONSTANTS
  Msg,         \* messages of the bot in the chat
  MaxRuns,     \* bound: times the wizard is started
  MaxInbox,    \* bound: updates on their way
  MaxUpdates,  \* bound: updates in all
  None

ASSUME WizardAssumption ==
  /\ MaxRuns \in Nat \ {0} /\ MaxInbox \in Nat \ {0} /\ MaxUpdates \in Nat

VARIABLES
  flow,     \* None, or step, answers and message; and the number of the run
  screen,   \* the view of each message: None, "menu", "block" or a step; and, as
            \* history, the run of the wizard that drew it
  inbox,    \* updates of the chat
  updates,  \* how many there have been
  runs,     \* how many runs of the wizard there have been
  saved,    \* history: the hosts stored by each run
  jumped,   \* history: a button drawn by an older run was used in this one
  failed    \* history: an edit has failed in this run

vars == <<flow, screen, inbox, updates, runs, saved, jumped, failed>>

Run == 1 .. MaxRuns

ORDER == <<"label", "addr", "port", "user", "auth", "secret", "pass", "confirm">>
Step == Range(ORDER)
No(s) == CHOOSE i \in 1 .. 8 : ORDER[i] = s

(* The answer that a text gives at a step. *)
AnswerOf == [label |-> "label", addr |-> "ip", port |-> "port", user |-> "username",
             pass |-> "passphrase"]
Secret == {"password", "openKey", "lockedKey"}

(* What the save button needs of the answers (hosts.py:329-331). *)
Needed == {"label", "ip", "port", "username", "auth", "secret"}
Complete(d) == Needed \subseteq DOMAIN d
(* What the summary of the last step reads (242-245); in the slip also a   *)
(* passphrase that may not be there.                                       *)
Drawable_Passphrase(d) == (Needed \ {"secret"}) \cup {"passphrase"} \subseteq DOMAIN d
Drawable(d) == Needed \ {"secret"} \subseteq DOMAIN d

NeedsPass(d) == "needs_pass" \in DOMAIN d /\ d["needs_pass"]
UsesKey(d) == "auth" \in DOMAIN d /\ d["auth"] = "key"
With(d, k, v) == [x \in DOMAIN d \cup {k} |-> IF x = k THEN v ELSE d[x]]
Without(d, keys) == [k \in DOMAIN d \ keys |-> d[k]]

Following_SkipsPass(f) ==
  IF f.step = "secret" THEN "confirm" ELSE ORDER[No(f.step) + 1]
Following(f) ==
  IF f.step = "secret" THEN IF NeedsPass(f.data) THEN "pass" ELSE "confirm"
  ELSE ORDER[No(f.step) + 1]

Previous(f) ==
  IF f.step = "label" THEN None
  ELSE IF f.step = "confirm" THEN IF NeedsPass(f.data) THEN "pass" ELSE "secret"
  ELSE ORDER[No(f.step) - 1]

Blank == [view |-> None, run |-> 0]
Menu == [view |-> "menu", run |-> 0]
Block == [view |-> "block", run |-> 0]
Drawn(f) == [view |-> f.step, run |-> f.run]

(* wizard_kb; a menu stands for every message that is not the wizard's. *)
Buttons(view) ==
  CASE view = None -> {}
    [] view = "menu" -> {"add", "other"}
    [] view = "block" -> {"other"}
    [] OTHER ->
       {"back", "cancel"} \cup
       (CASE view = "port" -> {"port22"}
          [] view = "user" -> {"userroot"}
          [] view = "auth" -> {"auth:password", "auth:key"}
          [] view = "confirm" -> {"save", "test"}
          [] OTHER -> {})

----------------------------------------------------------------------------
Init ==
  /\ flow = None
  /\ \E m \in Msg : screen = [n \in Msg |-> IF n = m THEN Menu ELSE Blank]
  /\ inbox = <<>> /\ updates = 0
  /\ runs = 0 /\ saved = [r \in Run |-> <<>>]
  /\ jumped = FALSE /\ failed = FALSE

Sends(u) ==
  /\ Len(inbox) < MaxInbox /\ updates < MaxUpdates
  /\ inbox' = Append(inbox, u)
  /\ updates' = updates + 1
  /\ UNCHANGED <<flow, screen, runs, saved, jumped, failed>>

Presses(m) == \E b \in Buttons(screen[m].view) :
                Sends([msg |-> m, what |-> b, run |-> screen[m].run])
Writes == \E w \in {"text", "/start"} : Sends([msg |-> None, what |-> w, run |-> 0])

----------------------------------------------------------------------------
Handles(what) == inbox # <<>> /\ Head(inbox).what \in what /\ inbox' = Tail(inbox)
Here == Head(inbox).msg

WizardButtons == {"back", "port22", "userroot", "auth:password", "auth:key", "save", "test"}

(* A new message, which may fail. *)
Posts(view) ==
  \/ \E m \in Msg : screen[m] = Blank /\ screen' = [screen EXCEPT ![m] = view]
  \/ UNCHANGED screen

(* ui.show after a press: a new message if the edit fails. *)
Shows(view) == screen' = [screen EXCEPT ![Here] = view] \/ Posts(view)

(* ui.edit of the flow's message: nothing happens if it fails. *)
Edits(m, view) ==
  \/ screen' = [screen EXCEPT ![m] = view] /\ UNCHANGED failed
  \/ screen' = screen /\ failed' = TRUE

(* _render of the flow as it has become; the summary of answers that are   *)
(* not there is a KeyError: nothing is shown.                              *)
Renders(f) ==
  /\ flow' = f
  /\ IF f.step = "confirm" /\ ~Drawable(f.data) THEN UNCHANGED <<screen, failed>>
     ELSE Edits(f.mid, Drawn(f))

(* A button that is not the wizard's ends it (pre_check). *)
Elsewhere ==
  /\ Handles({"other", "cancel"})
  /\ flow' = None
  /\ Shows(Menu)
  /\ UNCHANGED <<updates, runs, saved, jumped, failed>>

(* /start posts a new menu. *)
Starts ==
  /\ Handles({"/start"})
  /\ flow' = None
  /\ Posts(Menu)
  /\ UNCHANGED <<updates, runs, saved, jumped, failed>>

(* The gate: whoever has no access gets the block instead of the handler.  *)
(* The buttons of the wizard and texts leave the flow where it is (29,     *)
(* 169-170), but a button's message is edited.                             *)
EndsFlow == {"add", "other", "cancel"}

Blocked ==
  \E what \in {{"text", "/start"}, EndsFlow, WizardButtons} :
    /\ Handles(what)
    /\ flow' = IF what = EndsFlow THEN None ELSE flow
    /\ IF "text" \in what THEN Posts(Block) ELSE Shows(Block)
    /\ UNCHANGED <<updates, runs, saved, jumped, failed>>

(* cb_add: the first step, or a message that the limit is reached. *)
Adds ==
  /\ Handles({"add"})
  /\ \/ /\ runs < MaxRuns
        /\ runs' = runs + 1
        /\ flow' = [step |-> "label", data |-> <<>>, mid |-> Here, run |-> runs']
        /\ \/ screen' = [screen EXCEPT ![Here] = Drawn(flow')] /\ failed' = FALSE
           \/ screen' = screen /\ failed' = TRUE
        /\ jumped' = FALSE
     \/ flow' = None /\ Shows(Menu) /\ UNCHANGED <<runs, failed, jumped>>
  /\ UNCHANGED <<updates, saved>>

----------------------------------------------------------------------------
(* cb_wizard.                                                              *)

(* There is no wizard any more: the main menu. *)
Expired ==
  /\ Handles(WizardButtons) /\ flow = None
  /\ Shows(Menu)
  /\ UNCHANGED <<flow, updates, runs, saved, jumped, failed>>

(* Whatever the button, its message is the wizard's from now on. *)
Taken == [flow EXCEPT !.mid = Here]

Button(what) ==
  /\ flow # None /\ Handles(what)
  /\ jumped' = (jumped \/ Head(inbox).run # flow.run)
  /\ UNCHANGED <<updates, runs>>

(* Nothing more: the answer to the press failed, the limiter or the limit  *)
(* of servers refused, an answer is missing (a KeyError), or test and save *)
(* were not pressed at the last step (314).                                *)
OnlyTakes ==
  /\ Button(WizardButtons)
  /\ flow' = Taken
  /\ UNCHANGED <<screen, saved, failed>>

Backs ==
  /\ Button({"back"})
  /\ IF Previous(flow) = None THEN flow' = None /\ Shows(Menu) /\ UNCHANGED failed
     ELSE Renders([Taken EXCEPT !.step = Previous(flow)])
  /\ UNCHANGED saved

(* The buttons that answer a step and go on, whatever the step is.         *)
Port22 ==
  /\ Button({"port22"})
  /\ Renders([Taken EXCEPT !.step = "user", !.data = With(@, "port", "22")])
  /\ UNCHANGED saved

UserRoot ==
  /\ Button({"userroot"})
  /\ Renders([Taken EXCEPT !.step = "auth", !.data = With(@, "username", "root")])
  /\ UNCHANGED saved

(* A change of the login method forgets the secret; in the slip it is kept. *)
AuthAnswers == {"auth", "secret", "needs_pass", "passphrase"}
AnswersAfterAuth_Keeps(d, auth) == With(d, "auth", auth)
AnswersAfterAuth(d, auth) == With(Without(d, AuthAnswers), "auth", auth)

PicksAuth ==
  /\ Button({"auth:password", "auth:key"})
  /\ LET auth == IF Head(inbox).what = "auth:key" THEN "key" ELSE "password"
     IN  Renders([Taken EXCEPT !.step = "secret", !.data = AnswersAfterAuth(@, auth)])
  /\ UNCHANGED saved

AtConfirm == flow.step = "confirm" /\ Complete(flow.data)

Tests ==
  /\ Button({"test"}) /\ AtConfirm
  /\ Renders(Taken)
  /\ UNCHANGED saved

(* The flow ends with the host stored; in the slip it stays. *)
AfterSave_Stays == Taken
AfterSave == None

Saves ==
  /\ Button({"save"}) /\ AtConfirm
  /\ saved' = [saved EXCEPT ![flow.run] = Append(@, flow.data)]
  /\ flow' = AfterSave
  /\ Edits(Here, Menu)

----------------------------------------------------------------------------
(* flow_text, flow_media and _wiz_input: the text or the key file answers  *)
(* the step of now, or is refused and the step shown again.                *)

(* _accept_key and the password: the answers after it. *)
Accepted(d) ==
  IF UsesKey(d) THEN {With(With(d, "secret", s), "needs_pass", s = "lockedKey") : s \in Secret \ {"password"}}
  ELSE {With(d, "secret", "password")}

Answers(f) ==
  CASE f.step \in DOMAIN AnswerOf -> {With(f.data, AnswerOf[f.step], "typed")}
    [] f.step = "secret" -> Accepted(f.data)
    [] OTHER -> {}

Types ==
  /\ Handles({"text"})
  /\ IF flow = None THEN Posts(Menu) /\ UNCHANGED <<flow, failed>>
     ELSE \/ Renders(flow)
          \/ \E d \in Answers(flow) :
               Renders([flow EXCEPT !.data = d, !.step = Following([flow EXCEPT !.data = d])])
  /\ UNCHANGED <<updates, runs, saved, jumped>>

----------------------------------------------------------------------------
(* user_data is in memory; updates not fetched before the restart are kept *)
(* by Telegram (main.py:176).                                              *)
Reboots ==
  /\ flow # None
  /\ flow' = None
  /\ inbox' \in {inbox, <<>>}
  /\ UNCHANGED <<screen, updates, runs, saved, jumped, failed>>

Next ==
  \/ Writes \/ (\E m \in Msg : Presses(m)) \/ Reboots
  \/ Blocked \/ Elsewhere \/ Starts \/ Adds \/ Expired \/ Types
  \/ OnlyTakes \/ Backs \/ Port22 \/ UserRoot \/ PicksAuth \/ Tests \/ Saves

Spec == Init /\ [][Next]_vars

----------------------------------------------------------------------------
(* Properties.                                                             *)

(* Whatever buttons of whatever messages were pressed in whatever order,   *)
(* going back and choosing again, a stored host has every answer, a secret *)
(* of the login method it says, and the passphrase if the key is locked.   *)
SavedIsUsable ==
  \A r \in Run : \A d \in Range(saved[r]) :
    /\ Complete(d)
    /\ UsesKey(d) <=> d["secret"] # "password"
    /\ d["secret"] = "lockedKey" => "passphrase" \in DOMAIN d

(* Save pressed again before the first press is handled stores nothing     *)
(* more: a run of the wizard stores one host at most.                      *)
SavedOnce == \A r \in Run : Len(saved[r]) <= 1

(* The wizard is past a step only with its answer, unless a button drawn   *)
(* by an older run was used in it: those go on from where that one was     *)
(* (hosts.py:296-313), and the summary is then a KeyError.  A passphrase   *)
(* is asked for only of a key, and forgotten with it (hosts.py:306-311).   *)
AnswersBefore(f) ==
  LET past(s) == No(s) < No(f.step)
  IN  /\ \A s \in DOMAIN AnswerOf \ {"pass"} : past(s) => AnswerOf[s] \in DOMAIN f.data
      /\ past("auth") => "auth" \in DOMAIN f.data
      /\ past("secret") => "secret" \in DOMAIN f.data
      /\ past("pass") /\ NeedsPass(f.data) => "passphrase" \in DOMAIN f.data
      /\ "needs_pass" \in DOMAIN f.data => UsesKey(f.data)
InOrder == flow # None /\ ~jumped => AnswersBefore(flow)

(* The message of the wizard shows the step that the next text will answer *)
(* (or a password would be stored as a user name), or the gate's block,    *)
(* which leaves the wizard where it was (gate.py:169, 190): never another  *)
(* step or a menu, unless an edit failed or a button of an older run was   *)
(* used.                                                                   *)
ShowsItsStep ==
  flow # None /\ ~jumped /\ ~failed => screen[flow.mid].view \in {flow.step, "block"}
=============================================================================
