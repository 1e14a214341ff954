-------------------------- MODULE Sessions_proofs --------------------------
(***************************************************************************)
(* For any number of chats and connect tasks: the state of Sessions is     *)
(* well typed, and the cancel button and every reset reach the task that   *)
(* may still open or use a connection (CancelReaches); an open connection  *)
(* has one owner at most (OneOwner), and loses its last one in three known *)
(* places only (LostInKnownPlaces).                                        *)
(*                                                                         *)
(* CancelReaches is not inductive.  cb_trust_yes and the last part of      *)
(* start_action write connecting[c] without a cancel_connecting before it; *)
(* Unclaimed says why no task is lost there.  Who holds a connection comes *)
(* after that, with an invariant of its own (Owned, NoBrowser).            *)
(***************************************************************************)
EXTENDS Sessions, FiniteSetTheorems, TLAPS

Resetting == {"reset2", "reset3"}
AboutAChat == Resetting \cup {"looking", "notice", "looking-sftp", "banning"}

(* A task that was started, and a loop or a connection named after it. *)
Started(t) == task[t].pc # "none"

TasksMakeSense ==
  /\ \A t \in Task : Started(t) => task[t].chat \in Chats /\ task[t].act \in Actions
  /\ \A r \in Loop : lpc[r] # "none" => Started(r)
  /\ \A c \in Chats : pending[c] # None => Started(pending[c])

ProcsMakeSense ==
  /\ \A p \in Proc : proc[p].pc \in AboutAChat => proc[p].chat \in Chats
  /\ \A c \in Chats :
       /\ proc[c].pc = "trusting" => proc[c].seen # None /\ Started(proc[c].seen)
       /\ proc[c].pc \in {"measure", "waiting"} => proc[c].act \in Actions
       /\ proc[c].pc \in Resetting =>
            proc[c].chat = c /\ (proc[c].op = "connect" => proc[c].act \in Actions)
  /\ \A p \in Staff : proc[p].op # "connect"

(* Whatever connecting[c] holds while a prompt is up, or while the handler *)
(* between its resets and its new task, or between the user's yes and its  *)
(* new task, is suspended: no task that still works.                       *)
Unclaimed ==
  \A c \in Chats :
    /\ pending[c] # None \/ proc[c].pc = "trusting"
         => connecting[c] = None \/ task[connecting[c]].pc = "reporting"
    /\ proc[c].pc = "trusting" => pending[c] = None
    /\ proc[c].pc \in Resetting /\ proc[c].op = "connect"
         => connecting[c] = None /\ pending[c] = None

Books == TasksMakeSense /\ ProcsMakeSense /\ CancelReaches /\ Unclaimed
IInv == TypeOK /\ Books

-----------------------------------------------------------------------------
(* What the steps that disturb little have in common.                      *)

ToldApart == <<task, connecting, cancelled, pending, lpc, proc>>

(* Steps that touch none of the books: sessions, browsers, access.         *)
LEMMA BooksUntouched ==
  ASSUME Books, UNCHANGED ToldApart
  PROVE  Books'
BY DEF Books, ToldApart, TasksMakeSense, ProcsMakeSense, CancelReaches, Unclaimed, Started

(* What a coroutine may become without further ado. *)
Harmless(p, r) ==
  /\ r \in ProcRecord
  /\ r.pc \notin Resetting \cup {"trusting"}
  /\ r.pc \in AboutAChat => r.chat \in Chats
  /\ r.pc \in {"measure", "waiting"} => r.act \in Actions
  /\ p \in Staff => r.op # "connect"

(* A handler or a sweep goes to another place and does nothing else to the *)
(* books.                                                                  *)
LEMMA OneProcMoves ==
  ASSUME IInv, NEW p \in Proc, NEW r, Harmless(p, r),
         proc' = [proc EXCEPT ![p] = r],
         UNCHANGED <<task, connecting, cancelled, pending, lpc>>
  PROVE  Books' /\ proc' \in [Proc -> ProcRecord]
<1> USE DEF IInv, Books, Harmless, Started
<1>1. proc \in [Proc -> ProcRecord] /\ proc' \in [Proc -> ProcRecord]
  BY DEF TypeOK
<1>2. TasksMakeSense'
  BY DEF TasksMakeSense
<1>3. ProcsMakeSense'
  BY <1>1 DEF ProcsMakeSense, AboutAChat, Resetting, Proc
<1>4. CancelReaches'
  BY DEF CancelReaches
<1>5. Unclaimed'
  BY <1>1 DEF Unclaimed, Resetting, Proc
<1> QED
  BY <1>1, <1>2, <1>3, <1>4, <1>5

(* A task that is not cancelled goes on, and is still working or reports.  *)
LEMMA OneTaskMoves ==
  ASSUME IInv, NEW t \in Task, t \notin cancelled,
         Started(t), task[t].pc # "reporting",
         NEW pc \in TaskPC \ {"none"}, NEW k \in Conn \cup {None},
         pc \in InDispatch => task[t].pc \in InDispatch \cup {"connecting", "ready"},
         pc \notin {"connecting", "ready"},
         \/ task' = [task EXCEPT ![t].pc = pc]
         \/ task' = [task EXCEPT ![t].conn = k, ![t].pc = pc],
         UNCHANGED <<connecting, cancelled, pending, lpc, proc>>
  PROVE  Books' /\ task' \in [Task -> TaskRecord]
<1> USE DEF IInv, Books, Started
<1>1. /\ task \in [Task -> TaskRecord] /\ task' \in [Task -> TaskRecord]
      /\ \A u \in Task : /\ task'[u].chat = task[u].chat /\ task'[u].act = task[u].act
                          /\ task'[u].pc = IF u = t THEN pc ELSE task[u].pc
  BY DEF TypeOK, TaskRecord
<1>2. /\ pending \in [Chats -> Conn \cup {None}] /\ Conn = Task /\ Loop = Task
      /\ connecting \in [Chats -> Task \cup {None}]
      /\ \A c \in Chats : proc[c] \in ProcRecord
  BY DEF TypeOK, RegistryTypeOK, Conn, Loop, Proc
<1>3. TasksMakeSense'
  BY <1>1, <1>2 DEF TasksMakeSense
<1>4. ProcsMakeSense'
  BY <1>1, <1>2 DEF ProcsMakeSense, ProcRecord
<1>5. CancelReaches'
  BY <1>1 DEF CancelReaches
<1>6. Unclaimed'
  BY <1>1, <1>2 DEF Unclaimed
<1> QED
  BY <1>1, <1>3, <1>4, <1>5, <1>6

(* A task ends and takes itself out of connecting. *)
LEMMA OneTaskEnds ==
  ASSUME IInv, NEW t \in Task, Started(t), TaskEnds(t), UNCHANGED <<pending, proc>>,
         lpc' = lpc \/ lpc' = [lpc EXCEPT ![t] = "sleep"]
  PROVE  Books' /\ task' \in [Task -> TaskRecord]
               /\ connecting' \in [Chats -> Task \cup {None}]
<1> USE DEF IInv, Books, Started
<1>1. /\ task \in [Task -> TaskRecord] /\ task' \in [Task -> TaskRecord]
      /\ \A u \in Task : /\ task'[u].chat = task[u].chat /\ task'[u].act = task[u].act
                          /\ task'[u].pc = IF u = t THEN "done" ELSE task[u].pc
  BY DEF TypeOK, TaskRecord, TaskEnds, TaskGoes, TaskPC
<1>2. /\ pending \in [Chats -> Conn \cup {None}] /\ Conn = Task /\ Loop = Task
      /\ connecting \in [Chats -> Task \cup {None}]
      /\ \A c \in Chats : proc[c] \in ProcRecord
      /\ lpc \in [Loop -> {"none", "sleep", "notice", "done"}]
  BY DEF TypeOK, RegistryTypeOK, Conn, Loop, Proc
<1>3. /\ cancelled' = cancelled
      /\ connecting' \in [Chats -> Task \cup {None}]
      /\ \A c \in Chats :
           connecting'[c] = IF connecting[c] = t THEN None ELSE connecting[c]
  BY <1>2 DEF TaskEnds, Unregistered
<1>4. TasksMakeSense'
  BY <1>1, <1>2 DEF TasksMakeSense
<1>5. ProcsMakeSense'
  BY <1>1, <1>2 DEF ProcsMakeSense, ProcRecord
<1>6. CancelReaches'
  <2> SUFFICES ASSUME NEW u \in Task, u \notin cancelled,
                      task'[u].pc \in InDispatch \cup {"connecting", "ready"}
               PROVE  connecting'[task'[u].chat] = u
    BY <1>3 DEF CancelReaches
  <2>1. u # t /\ task'[u].pc = task[u].pc /\ task'[u].chat = task[u].chat
    BY <1>1 DEF InDispatch
  <2>2. connecting[task[u].chat] = u /\ task[u].chat \in Chats
    BY <2>1 DEF CancelReaches, TasksMakeSense, InDispatch
  <2> QED
    BY <1>3, <2>1, <2>2
<1>7. Unclaimed'
  BY <1>1, <1>2, <1>3 DEF Unclaimed, None, Task
<1> QED
  BY <1>1, <1>3, <1>4, <1>5, <1>6, <1>7

(* A render loop goes on. *)
LEMMA OneLoopMoves ==
  ASSUME IInv, NEW r \in Loop, lpc[r] # "none", NEW pc \in {"notice", "done"},
         LoopGoes(r, pc),
         UNCHANGED <<task, connecting, cancelled, pending, proc>>
  PROVE  Books' /\ lpc' \in [Loop -> {"none", "sleep", "notice", "done"}]
<1>1. lpc \in [Loop -> {"none", "sleep", "notice", "done"}]
  BY DEF IInv, TypeOK
<1> QED
  BY <1>1 DEF IInv, Books, LoopGoes, Started, TasksMakeSense, ProcsMakeSense,
              CancelReaches, Unclaimed

-----------------------------------------------------------------------------
(* Types of what the registry's functions leave.                           *)

TerminalTypes ==
  /\ active \in [Chats -> Conn \cup {None}]
  /\ live \in SUBSET Chats
  /\ rtask \in [Chats -> Loop \cup {None}]
  /\ sess \in [Conn -> {"none", "running", "ended"}]
  /\ loopCancelled \in SUBSET Loop

ConnType == conn \in [Conn -> {"none", "open", "closed"}]

LEMMA ClosedType ==
  ASSUME ConnType, NEW k
  PROVE  Closed(k) \in [Conn -> {"none", "open", "closed"}]
BY DEF ConnType, Closed

LEMMA CloseSessionTypes ==
  ASSUME TypeOK, NEW c \in Chats, NEW self, CloseSession(c, self)
  PROVE  TerminalTypes' /\ ConnType'
<1>1. TerminalTypes /\ ConnType
  BY DEF TypeOK, RegistryTypeOK, TerminalTypes, ConnType
<1>2. ConnType'
  BY <1>1, ClosedType DEF CloseSession, ConnType
<1>3. sess' \in [Conn -> {"none", "running", "ended"}]
  BY <1>1 DEF CloseSession, TerminalTypes
<1>4. rtask[c] \in Loop \cup {None}
  BY <1>1 DEF TerminalTypes
<1> QED
  BY <1>1, <1>2, <1>3, <1>4 DEF CloseSession, TerminalTypes

(* TypeOK, taken apart. *)
LEMMA TypesApart ==
  ASSUME TypeOK
  PROVE  /\ TerminalTypes /\ ConnType
         /\ pending \in [Chats -> Conn \cup {None}]
         /\ sftp \in [Chats -> Conn \cup {None}]
         /\ connecting \in [Chats -> Task \cup {None}]
         /\ cancelled \in SUBSET Task
         /\ task \in [Task -> TaskRecord]
         /\ lpc \in [Loop -> {"none", "sleep", "notice", "done"}]
         /\ proc \in [Proc -> ProcRecord]
         /\ access \in SUBSET Chats /\ quiet \in SUBSET Conn
         /\ Conn = Task /\ Loop = Task /\ Task \subseteq Nat /\ None \notin Task
BY RegistryAssumption
   DEF TypeOK, RegistryTypeOK, TerminalTypes, ConnType, Conn, Loop, Task, None

LEMMA LiveCountType == LiveCount \in Nat
<1>1. IsFiniteSet({c \in Chats : active[c] # None})
  BY RegistryAssumption, FS_Subset
<1> QED
  BY <1>1, FS_CardinalityType DEF LiveCount

(* A suspended handler or sweep is a record that Harmless accepts. *)
LEMMA AtRestHarmless == ASSUME NEW p PROVE Harmless(p, AtRest)
BY DEF Harmless, AtRest, ProcRecord, ProcPC, Op, Act, Resetting, AboutAChat, None

-----------------------------------------------------------------------------
(* Handlers of a chat. *)
LEMMA ConnectClosingStep ==
  ASSUME IInv, NEW c \in Chats, NEW force \in BOOLEAN, ConnectClosing(c, force)
  PROVE  IInv'
<1> DEFINE r == [proc[c] EXCEPT !.pc = "measure", !.act = "terminal"]
<1>1. c \in Proc /\ c \notin Staff /\ TypeOK
  BY SessionsAssumption DEF Proc, Staff, IInv
<1>2. Harmless(c, r)
  <2>1. proc[c] \in ProcRecord
    BY <1>1, TypesApart
  <2>2. r \in ProcRecord
    BY <2>1 DEF ProcRecord, ProcPC, Act
  <2>3. r.pc = "measure" /\ r.act = "terminal"
    BY <2>1 DEF ProcRecord
  <2> QED
    BY <1>1, <2>2, <2>3 DEF ConnectClosing, Harmless, Resetting, AboutAChat
<1>3. proc' = [proc EXCEPT ![c] = r]
  BY <1>1, TypesApart DEF ConnectClosing
<1>4. Books' /\ proc' \in [Proc -> ProcRecord]
  BY <1>1, <1>2, <1>3, OneProcMoves DEF ConnectClosing, connectVars
<1>5. TypeOK'
  BY <1>1, <1>4, TypesApart, CloseSessionTypes
     DEF ConnectClosing, connectVars, TypeOK, RegistryTypeOK, TerminalTypes, ConnType
<1> QED
  BY <1>4, <1>5 DEF IInv

(* Handlers that go from one suspension to the next. *)
LEMMA HandlerMoves ==
  ASSUME IInv, NEW c \in Chats,
         (\E act \in Actions : Connect(c, act)) \/ Measure(c) \/ Exit(c)
  PROVE  IInv'
<1>1. c \in Proc /\ c \notin Staff /\ TypeOK /\ proc[c] \in ProcRecord
  BY TypesApart, SessionsAssumption DEF Proc, Staff, IInv
<1>2. PICK r : /\ proc' = [proc EXCEPT ![c] = r]
               /\ Harmless(c, r)
  <2>1. CASE \E act \in Actions : Connect(c, act)
    <3>1. PICK act \in Actions : Connect(c, act)
      BY <2>1
    <3> DEFINE n == IF act = "terminal" THEN LiveCount ELSE 0
               r == [proc[c] EXCEPT !.pc = "waiting", !.act = act, !.count = n]
    <3>2. n \in Nat /\ act \in Act
      BY LiveCountType, SessionsAssumption DEF Act
    <3> HIDE DEF n
    <3>3. r \in ProcRecord /\ r.pc = "waiting" /\ r.act = act
      BY <1>1, <3>2 DEF ProcRecord, ProcPC
    <3>4. Harmless(c, r)
      BY <1>1, <3>3 DEF Harmless, Resetting, AboutAChat
    <3> QED
      BY <1>1, <3>1, <3>4, TypesApart DEF Connect, n
  <2>2. CASE Measure(c)
    <3> DEFINE r == [proc[c] EXCEPT !.pc = "waiting", !.count = LiveCount]
    <3>1. r \in ProcRecord /\ r.pc = "waiting" /\ r.act = proc[c].act
      BY <1>1, LiveCountType DEF ProcRecord, ProcPC
    <3>2. proc[c].act \in Actions
      BY <2>2 DEF Measure, IInv, Books, ProcsMakeSense
    <3>3. Harmless(c, r)
      BY <1>1, <3>1, <3>2 DEF Harmless, Resetting, AboutAChat
    <3> QED
      BY <1>1, <2>2, <3>3, TypesApart DEF Measure
  <2>3. CASE Exit(c)
    <3> DEFINE r == [proc[c] EXCEPT !.pc = "exiting"]
    <3>1. r \in ProcRecord /\ r.pc = "exiting"
      BY <1>1 DEF ProcRecord, ProcPC
    <3>2. Harmless(c, r)
      BY <1>1, <3>1 DEF Harmless, Resetting, AboutAChat
    <3> QED
      BY <1>1, <2>3, <3>2, TypesApart DEF Exit, Goes
  <2> QED
    BY <2>1, <2>2, <2>3
<1>3. UNCHANGED <<registryVars, task, lpc, access, quiet>>
  BY DEF Connect, Measure, Exit
<1>4. Books' /\ proc' \in [Proc -> ProcRecord]
  BY <1>1, <1>2, <1>3, OneProcMoves DEF registryVars, dicts, objects
<1>5. TypeOK'
  BY <1>1, <1>3, <1>4 DEF TypeOK, RegistryTypeOK, registryVars, dicts, objects
<1> QED
  BY <1>4, <1>5 DEF IInv

(* Handlers and sweeps that end. *)
LEMMA Rested ==
  ASSUME IInv, NEW p \in Proc, Rests(p),
         UNCHANGED <<task, connecting, cancelled, pending, lpc>>
  PROVE  Books' /\ proc' \in [Proc -> ProcRecord]
BY AtRestHarmless, OneProcMoves DEF Rests

LEMMA HandlerEnds ==
  ASSUME IInv, NEW c \in Chats, Refused(c) \/ TrustFails(c) \/ ExitCloses(c)
  PROVE  IInv'
<1>1. c \in Proc /\ TypeOK
  BY DEF Proc, IInv
<1>2. Books' /\ proc' \in [Proc -> ProcRecord]
  BY <1>1, Rested DEF Refused, TrustFails, ExitCloses, registryVars, dicts, objects,
                      connectVars
<1>3. TerminalTypes' /\ ConnType'
  <2>1. CASE ExitCloses(c)
    BY <1>1, <2>1, CloseSessionTypes DEF ExitCloses
  <2>2. CASE Refused(c) \/ TrustFails(c)
    BY <1>1, <2>2, TypesApart DEF Refused, TrustFails, registryVars, dicts, objects,
                                  TerminalTypes, ConnType
  <2> QED
    BY <2>1, <2>2
<1>4. UNCHANGED <<pending, sftp, connectVars, task, lpc, access, quiet>>
  BY DEF Refused, TrustFails, ExitCloses, registryVars, dicts, objects, connectVars
<1>5. TypeOK'
  BY <1>1, <1>2, <1>3, <1>4
     DEF TypeOK, RegistryTypeOK, TerminalTypes, ConnType, connectVars
<1> QED
  BY <1>2, <1>5 DEF IInv

(* Steps that change sessions, browsers or the access list only. *)
LEMMA OutsideTheBooks ==
  ASSUME IInv,
         \/ \E c \in Chats : SftpExit(c) \/ Type(c)
         \/ Environment
  PROVE  IInv'
<1>1. UNCHANGED ToldApart
  BY DEF SftpExit, Type, CloseSftp, Environment, ShellExits, ConnectionDrops,
         ReadLoopEnds, GoesQuiet, AccessEnds, ToldApart, registryVars, sessionVars,
         dicts, objects, connectVars
<1>2. Books'
  BY <1>1, BooksUntouched DEF IInv
<1>3. TypeOK'
  BY DEF IInv, TypeOK, RegistryTypeOK, SftpExit, Type, CloseSftp, Closed, Environment,
         ShellExits, ConnectionDrops, ReadLoopEnds, GoesQuiet, AccessEnds,
         terminalVars, registryVars, sessionVars, dicts, objects, connectVars
<1> QED
  BY <1>2, <1>3 DEF IInv

-----------------------------------------------------------------------------
(* The cancel button and the host key prompt. *)
LEMMA ConnCancelStep ==
  ASSUME IInv, NEW c \in Chats, ConnCancel(c)
  PROVE  IInv'
<1>1. /\ connecting' = [connecting EXCEPT ![c] = None]
      /\ cancelled' = cancelled \cup ({connecting[c]} \ {None})
      /\ UNCHANGED <<active, live, rtask, sess, loopCancelled, pending, sftp, conn,
                     task, lpc, proc, access, quiet>>
  BY DEF ConnCancel, CancelConnecting, ReplaceConnecting, terminalVars, sessionVars
<1>2. TypeOK'
  BY <1>1 DEF IInv, TypeOK, RegistryTypeOK
<1>3. (TasksMakeSense /\ ProcsMakeSense)'
  BY <1>1 DEF IInv, Books, TasksMakeSense, ProcsMakeSense, Started
<1>4. (CancelReaches /\ Unclaimed)'
  BY <1>1, TypesApart DEF IInv, Books, CancelReaches, Unclaimed, TasksMakeSense, Started,
                          InDispatch
<1> QED
  BY <1>2, <1>3, <1>4 DEF IInv, Books

LEMMA TrustNoStep ==
  ASSUME IInv, NEW c \in Chats, TrustNo(c)
  PROVE  IInv'
<1>1. /\ pending' = [pending EXCEPT ![c] = None]
      /\ conn' = Closed(pending[c])
      /\ UNCHANGED <<active, live, rtask, sess, loopCancelled, connecting, cancelled,
                     sftp, task, lpc, proc, access, quiet>>
  BY DEF TrustNo, DiscardPendingTrust, terminalVars, sessionVars, connectVars
<1>2. TypeOK'
  BY <1>1, ClosedType DEF IInv, TypeOK, RegistryTypeOK, ConnType
<1>3. Books'
  BY <1>1, TypesApart DEF IInv, Books, TasksMakeSense, ProcsMakeSense, CancelReaches,
                          Unclaimed, Started
<1> QED
  BY <1>2, <1>3 DEF IInv

(* The handler takes the pending connection; Unclaimed passes from the     *)
(* prompt to the handler.                                                  *)
LEMMA TrustYesStep ==
  ASSUME IInv, NEW c \in Chats, TrustYes(c)
  PROVE  IInv'
<1> DEFINE r == [proc[c] EXCEPT !.pc = "trusting", !.seen = pending[c]]
<1>1. c \in Proc /\ c \notin Staff /\ TypeOK /\ proc[c] \in ProcRecord
      /\ pending[c] \in Conn /\ Started(pending[c])
  BY TypesApart, SessionsAssumption
     DEF Proc, Staff, IInv, TrustYes, Books, TasksMakeSense
<1>2. /\ pending' = [pending EXCEPT ![c] = None]
      /\ proc' = [proc EXCEPT ![c] = r]
      /\ UNCHANGED <<active, live, rtask, sess, loopCancelled, connecting, cancelled,
                     sftp, conn, task, lpc, access, quiet>>
  BY <1>1, TypesApart DEF TrustYes, PendingAfterYes, terminalVars, connectVars
<1>3. r \in ProcRecord /\ r.pc = "trusting" /\ r.seen = pending[c] /\ r.op = proc[c].op
  BY <1>1 DEF ProcRecord, ProcPC
<1> HIDE DEF r
<1>4. proc' \in [Proc -> ProcRecord] /\ \A p \in Proc : proc'[p] = IF p = c THEN r ELSE proc[p]
  BY <1>1, <1>2, <1>3, TypesApart
<1>5. TypeOK'
  BY <1>1, <1>2, <1>4 DEF TypeOK, RegistryTypeOK
<1>6. (TasksMakeSense /\ CancelReaches)'
  BY <1>1, <1>2, TypesApart DEF IInv, Books, TasksMakeSense, CancelReaches, Started
<1>7. ProcsMakeSense'
  BY <1>1, <1>2, <1>3, <1>4, TypesApart
     DEF IInv, Books, ProcsMakeSense, Started, AboutAChat, Resetting, Proc
<1>8. Unclaimed'
  BY <1>1, <1>2, <1>3, <1>4, TypesApart
     DEF IInv, Books, Unclaimed, Resetting, Proc, TrustYes
<1> QED
  BY <1>5, <1>6, <1>7, <1>8 DEF IInv, Books

(* A connect task is started for chat c by a handler that then rests, while *)
(* no task that works is registered for c: after the user's yes, or after   *)
(* the resets of start_action.                                              *)
LEMMA StartStep ==
  ASSUME IInv, NEW c \in Chats, NEW act \in Actions, NEW k \in Conn \cup {None},
         NEW pc \in {"connecting", "ready"}, NEW t \in Unused,
         StartTask(c, act, k, pc, t), Rests(c),
         connecting' = [connecting EXCEPT ![c] = t],
         pending[c] = None, UNCHANGED <<pending, lpc>>,
         \A u \in Task : u \notin cancelled' /\ connecting[c] = u
            => task[u].pc \notin InDispatch \cup {"connecting", "ready"},
         cancelled' \in SUBSET Task, cancelled \subseteq cancelled'
  PROVE  Books' /\ task' \in [Task -> TaskRecord] /\ proc' \in [Proc -> ProcRecord]
               /\ connecting' \in [Chats -> Task \cup {None}]
<1>1. /\ c \in Proc /\ TypeOK /\ t \in Task /\ act \in Act /\ ~Started(t)
      /\ Books
  BY SessionsAssumption DEF Proc, IInv, Unused, Started, Act
<1>2. /\ task' \in [Task -> TaskRecord]
      /\ \A u \in Task \ {t} : task'[u] = task[u]
      /\ task'[t].pc = pc /\ task'[t].chat = c /\ task'[t].act = act
  <2>1. [pc |-> pc, chat |-> c, act |-> act, conn |-> k] \in TaskRecord
    BY <1>1 DEF TaskRecord, TaskPC
  <2> QED
    BY <1>1, <2>1, TypesApart DEF StartTask
<1>3. /\ proc' \in [Proc -> ProcRecord] /\ proc'[c].pc = "idle" /\ proc'[c].op = "none"
      /\ \A p \in Proc \ {c} : proc'[p] = proc[p]
  <2>1. AtRest \in ProcRecord /\ AtRest.pc = "idle" /\ AtRest.op = "none"
    BY AtRestHarmless DEF Harmless, AtRest
  <2> QED
    BY <1>1, <2>1, TypesApart DEF Rests
<1>4. /\ connecting' \in [Chats -> Task \cup {None}] /\ connecting'[c] = t
      /\ \A d \in Chats \ {c} : connecting'[d] = connecting[d]
  BY <1>1, TypesApart
<1>5. TasksMakeSense'
  BY <1>1, <1>2, TypesApart DEF Books, TasksMakeSense, Started
<1>6. ProcsMakeSense'
  BY <1>1, <1>2, <1>3, TypesApart, SMTT(30)
     DEF Books, ProcsMakeSense, Started, AboutAChat, Resetting, Proc, ProcRecord
<1>7. CancelReaches'
  <2> SUFFICES ASSUME NEW u \in Task, u \notin cancelled', u # t,
                      task[u].pc \in InDispatch \cup {"connecting", "ready"}
               PROVE  connecting'[task[u].chat] = u
    BY <1>1, <1>2, <1>4 DEF CancelReaches
  <2>1. connecting[task[u].chat] = u /\ task[u].chat \in Chats
    BY <1>1 DEF Books, CancelReaches, TasksMakeSense, Started, InDispatch
  <2> QED
    BY <1>4, <2>1
<1>8. Unclaimed'
  BY <1>1, <1>2, <1>3, <1>4, TypesApart
     DEF Books, Unclaimed, Started, Resetting, Proc
<1> QED
  BY <1>2, <1>3, <1>4, <1>5, <1>6, <1>7, <1>8 DEF Books

LEMMA TrustedStep ==
  ASSUME IInv, NEW c \in Chats, Trusted(c)
  PROVE  IInv'
<1>1. PICK t \in Unused :
        /\ StartTask(c, task[proc[c].seen].act, proc[c].seen, "ready", t)
        /\ connecting' = [connecting EXCEPT ![c] = t]
  BY DEF Trusted
<1>2. /\ c \in Proc /\ proc[c].seen \in Conn /\ task[proc[c].seen].act \in Actions
  BY TypesApart DEF Proc, Trusted, IInv, Books, ProcsMakeSense, TasksMakeSense, ProcRecord
<1>3. /\ UNCHANGED <<active, live, rtask, sess, loopCancelled, pending, sftp, conn,
                     cancelled, lpc, access, quiet>>
      /\ Rests(c)
  BY DEF Trusted, terminalVars
<1>4. Books' /\ task' \in [Task -> TaskRecord] /\ proc' \in [Proc -> ProcRecord]
             /\ connecting' \in [Chats -> Task \cup {None}]
  <2>1. (connecting[c] = None \/ task[connecting[c]].pc = "reporting") /\ pending[c] = None
    BY DEF IInv, Books, Unclaimed, Trusted
  <2> QED
    BY <1>1, <1>2, <1>3, <2>1, StartStep, TypesApart DEF IInv, InDispatch
<1>5. TypeOK'
  BY <1>3, <1>4 DEF IInv, TypeOK, RegistryTypeOK
<1> QED
  BY <1>4, <1>5 DEF IInv

-----------------------------------------------------------------------------
(* Connect tasks.                                                          *)

(* A task that runs has a chat and something to do. *)
LEMMA TaskAtWork ==
  ASSUME IInv, NEW t \in Task, Started(t)
  PROVE  /\ task[t].chat \in Chats
         /\ task[t].act \in {"terminal", "sftp", "monitor"}
         /\ task[t].conn \in Conn \cup {None}
         /\ FirstStep(task[t].act) \in InDispatch
BY SessionsAssumption, TypesApart
   DEF IInv, Books, TasksMakeSense, Started, FirstStep, InDispatch, TaskRecord

TaskGoesOn(t) ==
  \/ ConnectTrusted(t) \/ ConnectFails(t) \/ DispatchPending(t) \/ TerminalOpened(t)
  \/ BrowserStarted(t) \/ Monitored(t) \/ DispatchFails(t)
  \/ DispatchFailed(t)

LEMMA TaskGoesOnBooks ==
  ASSUME IInv, NEW t \in Task, TaskGoesOn(t)
  PROVE  Books' /\ task' \in [Task -> TaskRecord] /\ Started(t)
<1>1. /\ t \notin cancelled /\ Started(t) /\ task[t].pc # "reporting"
      /\ UNCHANGED <<connecting, cancelled, pending, lpc, proc>>
  BY DEF TaskGoesOn, ConnectTrusted, ConnectFails, DispatchPending, TerminalOpened,
         BrowserStarted, Monitored, DispatchFails, DispatchFailed,
         Runs, Started, connectVars, registryVars, dicts, objects
<1>2. \E pc \in TaskPC \ {"none"}, k \in Conn \cup {None} :
        /\ pc \in InDispatch => task[t].pc \in InDispatch \cup {"connecting", "ready"}
        /\ pc \notin {"connecting", "ready"}
        /\ \/ task' = [task EXCEPT ![t].pc = pc]
           \/ task' = [task EXCEPT ![t].conn = k, ![t].pc = pc]
  <2>1. t \in Conn /\ FirstStep(task[t].act) \in InDispatch
    BY <1>1, TaskAtWork, TypesApart DEF IInv
  <2>2. CASE ConnectTrusted(t)
    BY <2>1, <2>2 DEF ConnectTrusted, Runs, TaskPC, InDispatch
  <2>3. CASE DispatchPending(t)
    BY <2>1, <2>3 DEF DispatchPending, Runs, TaskGoes, TaskPC, InDispatch
  <2>4. CASE ConnectFails(t) \/ TerminalOpened(t) \/ BrowserStarted(t)
             \/ Monitored(t) \/ DispatchFails(t)
             \/ DispatchFailed(t)
    <3>1. \E pc \in {"reporting", "drawing", "listing", "failed"} :
            /\ task' = [task EXCEPT ![t].pc = pc]
            /\ pc \in {"drawing", "listing"} => task[t].pc \in InDispatch
      BY <2>4 DEF ConnectFails, TerminalOpened, BrowserStarted,
                  Monitored, DispatchFails, DispatchFailed, Runs, TaskGoes, InDispatch
    <3> QED
      BY <3>1 DEF TaskPC, InDispatch
  <2> QED
    BY <2>2, <2>3, <2>4 DEF TaskGoesOn
<1> QED
  BY <1>1, <1>2, OneTaskMoves

LEMMA TaskGoesOnStep ==
  ASSUME IInv, NEW t \in Task, TaskGoesOn(t)
  PROVE  IInv'
<1>1. Books' /\ task' \in [Task -> TaskRecord] /\ TypeOK
      /\ task[t].chat \in Chats /\ task[t].conn \in Conn \cup {None} /\ t \in Conn
  BY TaskGoesOnBooks, TaskAtWork, TypesApart DEF IInv
<1>2. UNCHANGED <<connectVars, pending, lpc, proc, access, quiet>>
  BY DEF TaskGoesOn, ConnectTrusted, ConnectFails, DispatchPending, TerminalOpened,
         BrowserStarted, Monitored, DispatchFails, DispatchFailed,
         connectVars, registryVars, dicts, objects
<1>3. TerminalTypes' /\ ConnType'
  <2>1. CASE DispatchFailed(t)
    BY <1>1, <2>1, CloseSessionTypes, TypesApart
       DEF DispatchFailed, terminalVars, TerminalTypes, ConnType
  <2>2. CASE TerminalOpened(t)
    BY <1>1, <2>2, TypesApart DEF TerminalOpened, TerminalTypes, ConnType
  <2>3. CASE ConnectTrusted(t)
    BY <1>1, <2>3, TypesApart DEF ConnectTrusted, terminalVars, TerminalTypes, ConnType
  <2>4. CASE Monitored(t) \/ DispatchFails(t)
    BY <1>1, <2>4, TypesApart, ClosedType
       DEF Monitored, DispatchFails, terminalVars,
           TerminalTypes, ConnType
  <2>5. CASE ConnectFails(t) \/ DispatchPending(t) \/ BrowserStarted(t)
    BY <1>1, <2>5, TypesApart
       DEF ConnectFails, DispatchPending, BrowserStarted, registryVars, dicts, objects,
           terminalVars, TerminalTypes, ConnType
  <2> QED
    BY <2>1, <2>2, <2>3, <2>4, <2>5 DEF TaskGoesOn
<1>4. sftp' \in [Chats -> Conn \cup {None}]
  BY <1>1, TypesApart
     DEF TaskGoesOn, ConnectTrusted, ConnectFails, DispatchPending, TerminalOpened,
         BrowserStarted, Monitored, DispatchFails, DispatchFailed,
         CloseSftp, registryVars, dicts, objects
<1>5. TypeOK'
  BY <1>1, <1>2, <1>3, <1>4
     DEF TypeOK, RegistryTypeOK, TerminalTypes, ConnType, connectVars
<1> QED
  BY <1>1, <1>5 DEF IInv

(* The prompt goes up: by CancelReaches, the task registered for the chat  *)
(* is the very one that now only reports.                                  *)
LEMMA ConnectUntrustedStep ==
  ASSUME IInv, NEW t \in Task, ConnectUntrusted(t)
  PROVE  IInv'
<1> DEFINE d == task[t].chat
<1>1. /\ TypeOK /\ Books /\ d \in Chats /\ t \in Conn /\ Started(t)
      /\ task[t].pc = "connecting" /\ t \notin cancelled /\ connecting[d] = t
  BY TaskAtWork, TypesApart
     DEF IInv, ConnectUntrusted, Runs, Started, Books, CancelReaches
<1>2. /\ conn' = [conn EXCEPT ![t] = "open"]
      /\ pending' = [pending EXCEPT ![d] = t]
      /\ task' = [task EXCEPT ![t].pc = "reporting"]
      /\ UNCHANGED <<active, live, rtask, sess, loopCancelled, connecting, cancelled,
                     sftp, lpc, proc, access, quiet>>
  BY DEF ConnectUntrusted, TaskGoes, terminalVars, connectVars
<1>3. /\ task' \in [Task -> TaskRecord]
      /\ \A u \in Task : /\ task'[u].chat = task[u].chat /\ task'[u].act = task[u].act
                          /\ task'[u].pc = IF u = t THEN "reporting" ELSE task[u].pc
  BY <1>1, <1>2, TypesApart DEF TaskRecord, TaskPC
<1>4. /\ pending' \in [Chats -> Conn \cup {None}] /\ pending'[d] = t
      /\ \A c \in Chats \ {d} : pending'[c] = pending[c]
  BY <1>1, <1>2, TypesApart
<1>5. TypeOK'
  BY <1>1, <1>2, <1>3, <1>4, TypesApart DEF TypeOK, RegistryTypeOK
<1> HIDE DEF d
<1>6. TasksMakeSense'
  BY <1>1, <1>2, <1>3, <1>4, TypesApart DEF Books, TasksMakeSense, Started
<1>7. ProcsMakeSense'
  BY <1>1, <1>2, <1>3, TypesApart DEF Books, ProcsMakeSense, Started, ProcRecord, Proc
<1>8. CancelReaches'
  BY <1>1, <1>2, <1>3 DEF Books, CancelReaches, InDispatch
<1>9. Unclaimed'
  <2>1. ~(proc[d].pc = "trusting") /\ ~(proc[d].pc \in Resetting /\ proc[d].op = "connect")
    BY <1>1, TypesApart DEF Books, Unclaimed
  <2> QED
    BY <1>1, <1>2, <1>3, <1>4, <2>1, TypesApart DEF Books, Unclaimed
<1> QED
  BY <1>5, <1>6, <1>7, <1>8, <1>9 DEF IInv, Books

LEMMA TaskEndsStep ==
  ASSUME IInv, NEW t \in Task, TerminalDrawn(t) \/ Reported(t) \/ TaskCancelled(t)
  PROVE  IInv'
<1>1. TaskEnds(t) /\ Started(t) /\ TypeOK /\ t \in Loop
  BY TypesApart DEF TerminalDrawn, Reported, TaskCancelled, Runs, Started, InDispatch, IInv
<1>2. task[t].chat \in Chats
  BY <1>1, TaskAtWork
<1>3. /\ UNCHANGED <<active, sess, loopCancelled, pending, sftp, proc, access, quiet,
                     cancelled>>
      /\ lpc' = lpc \/ lpc' = [lpc EXCEPT ![t] = "sleep"]
  BY <1>1 DEF TerminalDrawn, Reported, TaskCancelled, TaskEnds, terminalVars
<1>4. Books' /\ task' \in [Task -> TaskRecord]
             /\ connecting' \in [Chats -> Task \cup {None}]
  BY <1>1, <1>3, OneTaskEnds
<1>5. /\ live' \in SUBSET Chats
      /\ rtask' \in [Chats -> Loop \cup {None}]
      /\ ConnType'
      /\ lpc' \in [Loop -> {"none", "sleep", "notice", "done"}]
  BY <1>1, <1>2, <1>3, TypesApart, ClosedType
     DEF TerminalDrawn, Reported, TaskCancelled, ClosedOnCancel, terminalVars,
         TerminalTypes, ConnType
<1>6. TypeOK'
  BY <1>1, <1>3, <1>4, <1>5 DEF TypeOK, RegistryTypeOK, ConnType
<1> QED
  BY <1>4, <1>6 DEF IInv

LEMMA LoopsStep ==
  ASSUME IInv, NEW r \in Task, LoopStep(r) \/ LoopCrashes(r)
  PROVE  IInv'
<1>1. r \in Loop /\ lpc[r] # "none" /\ LoopChat(r) \in Chats /\ TypeOK
  BY TaskAtWork, TypesApart
     DEF IInv, Books, TasksMakeSense, LoopStep, LoopStops, LoopFindsEnded, LoopCloses,
         LoopIsCancelled, LoopCrashes, LoopChat
<1>2. /\ \E pc \in {"notice", "done"} : LoopGoes(r, pc)
      /\ UNCHANGED <<task, connecting, cancelled, pending, sftp, proc, access, quiet>>
  BY DEF LoopStep, LoopStops, LoopFindsEnded, LoopCloses, LoopIsCancelled, LoopCrashes, registryVars,
         dicts, objects, connectVars
<1>3. Books' /\ lpc' \in [Loop -> {"none", "sleep", "notice", "done"}]
  BY <1>1, <1>2, OneLoopMoves
<1>4. TerminalTypes' /\ ConnType'
  <2>1. CASE \E self : CloseSession(LoopChat(r), self)
    BY <1>1, <2>1, CloseSessionTypes
  <2>2. CASE UNCHANGED <<terminalVars, conn>>
    BY <1>1, <2>2, TypesApart DEF terminalVars, TerminalTypes, ConnType
  <2> QED
    BY <2>1, <2>2 DEF LoopStep, LoopStops, LoopFindsEnded, LoopCloses, LoopIsCancelled, LoopCrashes,
                      registryVars, dicts, objects, terminalVars
<1>5. TypeOK'
  BY <1>1, <1>2, <1>3, <1>4 DEF TypeOK, RegistryTypeOK, TerminalTypes, ConnType
<1> QED
  BY <1>3, <1>5 DEF IInv

-----------------------------------------------------------------------------
(* reset_chat.  The caller is the chat's own handler or the administrator, *)
(* and only the former goes on to connect.                                 *)

MayReset(p, c, op, from) ==
  /\ c \in Chats /\ p \in {c, Admin} /\ op \in Op /\ from \in {1, 2, 3}
  /\ op = "connect" => /\ p = c /\ proc[c].act \in Actions
                       /\ from # 1 => connecting[c] = None /\ pending[c] = None

(* The parts of ResetChat. *)
ForgetsConnecting(c, from) ==
  IF from = 1 THEN CancelConnecting(c) ELSE UNCHANGED connectVars

LEMMA ForgetsConnectingBooks ==
  ASSUME IInv, NEW c \in Chats, NEW from, ForgetsConnecting(c, from)
  PROVE  /\ connecting' \in [Chats -> Task \cup {None}]
         /\ cancelled' \in SUBSET Task /\ cancelled \subseteq cancelled'
         /\ from = 1 => connecting'[c] = None
         /\ connecting'[c] \in {connecting[c], None}
         /\ \A d \in Chats \ {c} : connecting'[d] = connecting[d]
         /\ task' = task => CancelReaches'
<1>1. /\ TypeOK /\ connecting[c] \in Task \cup {None}
      /\ \A u \in Task : Started(u) => task[u].chat \in Chats
  BY TypesApart DEF IInv, Books, TasksMakeSense
<1>2. CASE from = 1
  <2>1. /\ connecting' = [connecting EXCEPT ![c] = None]
        /\ cancelled' = cancelled \cup ({connecting[c]} \ {None})
    BY <1>2 DEF ForgetsConnecting, CancelConnecting, ReplaceConnecting
  <2> QED
    BY <1>1, <1>2, <2>1, TypesApart DEF IInv, Books, CancelReaches, Started, InDispatch
<1>3. CASE from # 1
  BY <1>1, <1>3, TypesApart
     DEF ForgetsConnecting, connectVars, IInv, Books, CancelReaches
<1> QED
  BY <1>2, <1>3

(* Replacing one entry of a function keeps its type and its other entries. *)
LEMMA OneEntryChanges ==
  ASSUME NEW D, NEW T, NEW f \in [D -> T], NEW d \in D, NEW t \in T
  PROVE  /\ [f EXCEPT ![d] = t] \in [D -> T]
         /\ [f EXCEPT ![d] = t][d] = t
         /\ \A e \in D \ {d} : [f EXCEPT ![d] = t][e] = f[e]
  OBVIOUS

(* It closes something and is suspended. *)
LEMMA ResetSuspends ==
  ASSUME IInv, NEW p, NEW c, NEW op, NEW from, MayReset(p, c, op, from),
         NEW pc \in Resetting, ForgetsConnecting(c, from),
         proc' = [proc EXCEPT ![p].pc = pc, ![p].chat = c, ![p].op = op],
         \/ DiscardPendingTrust(c) /\ UNCHANGED sftp
         \/ CloseSftp(c) /\ UNCHANGED pending /\ (from = 1 => pending[c] = None),
         UNCHANGED <<terminalVars, task, lpc, access, quiet>>
  PROVE  IInv'
<1> DEFINE r == [proc[p] EXCEPT !.pc = pc, !.chat = c, !.op = op]
<1>1. /\ TypeOK /\ Books /\ c \in Chats /\ p \in Proc /\ proc[p] \in ProcRecord
      /\ Admin \in Staff /\ Staff \cap Chats = {} /\ op \in Op
  BY TypesApart, SessionsAssumption DEF IInv, MayReset, Proc, Staff
<1>2. /\ connecting' \in [Chats -> Task \cup {None}]
      /\ cancelled' \in SUBSET Task
      /\ from = 1 => connecting'[c] = None
      /\ connecting'[c] \in {connecting[c], None}
      /\ \A d \in Chats \ {c} : connecting'[d] = connecting[d]
      /\ CancelReaches'
  BY <1>1, ForgetsConnectingBooks
<1>3. r \in ProcRecord /\ r.pc = pc /\ r.chat = c /\ r.op = op /\ r.act = proc[p].act
  BY <1>1 DEF ProcRecord, ProcPC, Resetting
<1>4. proc' = [proc EXCEPT ![p] = r]
  BY <1>1, TypesApart
<1> HIDE DEF r
<1>5. /\ proc' \in [Proc -> ProcRecord] /\ proc'[p] = r
      /\ \A q \in Proc \ {p} : proc'[q] = proc[q]
  <2>1. proc \in [Proc -> ProcRecord]
    BY <1>1, TypesApart
  <2>2. p \in Proc /\ r \in ProcRecord
    BY <1>1, <1>3
  <2> QED
    BY ONLY <1>4, <2>1, <2>2, OneEntryChanges
<1>6. /\ pending' \in [Chats -> Conn \cup {None}]
      /\ pending'[c] \in {pending[c], None} /\ (from = 1 => pending'[c] = None)
      /\ \A d \in Chats \ {c} : pending'[d] = pending[d]
      /\ sftp' \in [Chats -> Conn \cup {None}]
      /\ ConnType'
  BY <1>1, TypesApart, ClosedType DEF DiscardPendingTrust, CloseSftp, ConnType
<1>7. TypeOK'
  BY <1>1, <1>2, <1>5, <1>6, TypesApart
     DEF TypeOK, RegistryTypeOK, terminalVars, TerminalTypes, ConnType
<1>8. TasksMakeSense'
  BY <1>1, <1>6, TypesApart DEF Books, TasksMakeSense, Started
<1>9. ProcsMakeSense'
  BY <1>1, <1>3, <1>5, SMTT(30)
     DEF Books, ProcsMakeSense, Started, AboutAChat, Resetting, Proc, MayReset
<1>10. Unclaimed'
  BY <1>1, <1>2, <1>3, <1>5, <1>6 DEF Books, Unclaimed, Resetting, Proc, MayReset
<1> QED
  BY <1>2, <1>7, <1>8, <1>9, <1>10 DEF IInv, Books

(* start_action's task, when everything is closed. *)
LEMMA ResetConnects ==
  ASSUME IInv, NEW p, NEW c, NEW from, MayReset(p, c, "connect", from),
         from = 1 => pending[c] = None,
         AfterReset(p, c, "connect", from), UNCHANGED <<pending, sftp, lpc, access, quiet>>
  PROVE  IInv'
<1>1. TypeOK /\ Books /\ p = c /\ c \in Chats /\ proc[c].act \in Actions /\ pending[c] = None
  BY DEF IInv, MayReset
<1>2. PICK t \in Unused :
        /\ StartTask(c, proc[c].act, None, "connecting", t)
        /\ IF from = 1 THEN ReplaceConnecting(c, t)
           ELSE connecting' = [connecting EXCEPT ![c] = t] /\ UNCHANGED cancelled
  BY <1>1 DEF AfterReset
<1>3. /\ Rests(c) /\ UNCHANGED <<terminalVars, conn>>
  BY <1>1 DEF AfterReset
<1>4. /\ connecting' = [connecting EXCEPT ![c] = t]
      /\ cancelled' \in SUBSET Task /\ cancelled \subseteq cancelled'
      /\ \A u \in Task : connecting[c] = u => u \in cancelled'
  BY <1>1, <1>2, TypesApart DEF ReplaceConnecting, MayReset
<1>5. Books' /\ task' \in [Task -> TaskRecord] /\ proc' \in [Proc -> ProcRecord]
             /\ connecting' \in [Chats -> Task \cup {None}]
  BY <1>1, <1>2, <1>3, <1>4, StartStep
<1>6. TypeOK'
  BY <1>1, <1>3, <1>4, <1>5 DEF TypeOK, RegistryTypeOK, terminalVars
<1> QED
  BY <1>5, <1>6 DEF IInv

(* Nothing follows, or the terminal is closed too. *)
LEMMA ResetEnds ==
  ASSUME IInv, NEW p, NEW c, NEW op, NEW from, MayReset(p, c, op, from), op # "connect",
         AfterReset(p, c, op, from), UNCHANGED <<pending, sftp, lpc, access, quiet>>
  PROVE  IInv'
<1>1. /\ TypeOK /\ Books /\ c \in Chats /\ p \in Proc
  BY DEF IInv, MayReset, Proc, Staff
<1>2. Rests(p) /\ ForgetsConnecting(c, from) /\ task' = task
  BY DEF AfterReset, ForgetsConnecting
<1>3. TerminalTypes' /\ ConnType'
  <2>1. CASE op = "ban"
    BY <1>1, <2>1, CloseSessionTypes DEF AfterReset
  <2>2. CASE op # "ban"
    BY <1>1, <2>2, TypesApart DEF AfterReset, terminalVars, TerminalTypes, ConnType
  <2> QED
    BY <2>1, <2>2
<1>4. /\ connecting' \in [Chats -> Task \cup {None}]
      /\ cancelled' \in SUBSET Task
      /\ connecting'[c] \in {connecting[c], None}
      /\ \A d \in Chats \ {c} : connecting'[d] = connecting[d]
      /\ CancelReaches'
  BY <1>1, <1>2, ForgetsConnectingBooks
<1>5. /\ proc' \in [Proc -> ProcRecord] /\ proc'[p].pc = "idle" /\ proc'[p].op = "none"
      /\ \A q \in Proc \ {p} : proc'[q] = proc[q]
  <2>1. AtRest \in ProcRecord /\ AtRest.pc = "idle" /\ AtRest.op = "none"
    BY AtRestHarmless DEF Harmless, AtRest
  <2> QED
    BY <1>1, <1>2, <2>1, TypesApart DEF Rests
<1>6. TypeOK'
  BY <1>1, <1>2, <1>3, <1>4, <1>5 DEF TypeOK, RegistryTypeOK, TerminalTypes, ConnType
<1>7. TasksMakeSense'
  BY <1>1, <1>2 DEF Books, TasksMakeSense, Started
<1>8. ProcsMakeSense'
  BY <1>1, <1>2, <1>5 DEF Books, ProcsMakeSense, Started, AboutAChat, Resetting, Proc
<1>9. Unclaimed'
  BY <1>1, <1>2, <1>4, <1>5 DEF Books, Unclaimed, Resetting, Proc
<1> QED
  BY <1>4, <1>6, <1>7, <1>8, <1>9 DEF IInv, Books

LEMMA ResetChatStep ==
  ASSUME IInv, NEW p, NEW c, NEW op, NEW from, MayReset(p, c, op, from),
         ResetChat(p, c, op, from)
  PROVE  IInv'
<1>1. CASE /\ from = 1 /\ pending[c] # None
           /\ CancelConnecting(c)
           /\ DiscardPendingTrust(c)
           /\ proc' = [proc EXCEPT ![p].pc = "reset2", ![p].chat = c, ![p].op = op]
           /\ UNCHANGED <<terminalVars, sftp, task>>
  BY <1>1, ResetSuspends DEF ResetChat, ForgetsConnecting, Resetting
<1>2. CASE /\ from = 1 => pending[c] = None
           /\ ForgetsConnecting(c, from)
           /\ CloseSftp(c)
           /\ proc' = [proc EXCEPT ![p].pc = "reset3", ![p].chat = c, ![p].op = op]
           /\ UNCHANGED <<terminalVars, pending, task>>
  BY <1>2, ResetSuspends DEF ResetChat, Resetting
<1>3. CASE /\ from = 1 => pending[c] = None
           /\ AfterReset(p, c, op, from)
           /\ UNCHANGED <<pending, sftp>>
  BY <1>3, ResetConnects, ResetEnds DEF ResetChat
<1> QED
  BY <1>1, <1>2, <1>3 DEF ResetChat, ForgetsConnecting

LEMMA ResetsStep ==
  ASSUME IInv,
         \/ \E c \in Chats : Proceed(c) \/ ResetCommand(c) \/ ResetResumes(c)
         \/ BanCloses \/ ResetResumes(Admin)
  PROVE  IInv'
<1>1. Admin \in Staff /\ Admin \in Proc /\ Admin \notin Chats /\ ProcsMakeSense /\ Unclaimed
      /\ \A q \in Proc : proc[q] \in ProcRecord
  BY SessionsAssumption, TypesApart DEF Staff, Proc, IInv, Books
<1>2. ASSUME NEW c \in Chats, Proceed(c)
      PROVE  IInv'
  BY <1>1, <1>2, ResetChatStep DEF Proceed, MayReset, Op, ProcsMakeSense
<1>3. ASSUME NEW c \in Chats, ResetCommand(c)
      PROVE  IInv'
  BY <1>3, ResetChatStep DEF ResetCommand, MayReset, Op
<1>4. ASSUME NEW c \in Chats, ResetResumes(c)
      PROVE  IInv'
  <2>1. c \in Proc /\ proc[c].op \in Op
    BY <1>1 DEF Proc, ProcRecord
  <2>2. PICK from \in {2, 3} : ResetChat(c, c, proc[c].op, from) /\ proc[c].pc \in Resetting
    BY <1>1, <1>4 DEF ResetResumes, ProcsMakeSense, Resetting
  <2> QED
    BY <1>1, <2>1, <2>2, ResetChatStep DEF MayReset, ProcsMakeSense, Unclaimed
<1>5. ASSUME BanCloses
      PROVE  IInv'
  BY <1>1, <1>5, ResetChatStep DEF BanCloses, MayReset, Op, ProcsMakeSense, AboutAChat
<1>6. ASSUME ResetResumes(Admin)
      PROVE  IInv'
  <2>1. proc[Admin].op \in Op /\ proc[Admin].op # "connect"
    BY <1>1 DEF ProcRecord, ProcsMakeSense
  <2>2. PICK from \in {2, 3} : /\ ResetChat(Admin, proc[Admin].chat, proc[Admin].op, from)
                               /\ proc[Admin].chat \in Chats
    BY <1>1, <1>6 DEF ResetResumes, ProcsMakeSense, AboutAChat, Resetting
  <2> QED
    BY <2>1, <2>2, ResetChatStep DEF MayReset
<1> QED
  BY <1>2, <1>3, <1>4, <1>5, <1>6

-----------------------------------------------------------------------------
(* Housekeeping's sweeps and the administrator's handlers. *)
LEMMA SweepMoves ==
  ASSUME IInv, NEW p \in Staff, NEW c \in Chats,
         \/ \E w \in StaffWork : LookAt(p, c, w) \/ LookAtSftp(p, c, w)
         \/ p = Admin /\ Ban(c)
  PROVE  IInv'
<1>1. p \in Proc /\ TypeOK /\ proc[p] \in ProcRecord /\ proc[p].op # "connect"
      /\ active[c] \in Conn \cup {None}
  BY TypesApart DEF Proc, IInv, Books, ProcsMakeSense, TerminalTypes
<1>2. PICK r : proc' = [proc EXCEPT ![p] = r] /\ Harmless(p, r)
  <2>1. ASSUME NEW w \in StaffWork, LookAt(p, c, w)
        PROVE  \E r : proc' = [proc EXCEPT ![p] = r] /\ Harmless(p, r)
    <3> DEFINE r == [proc[p] EXCEPT !.pc = "looking", !.chat = c, !.op = w,
                                    !.seen = active[c]]
    <3>1. w \in {"access", "idle", "kill"}
      BY <2>1 DEF LookAt
    <3>2. r \in ProcRecord /\ r.pc = "looking" /\ r.chat = c /\ r.op = w
      BY <1>1, <3>1 DEF ProcRecord, ProcPC, Op
    <3>3. Harmless(p, r)
      BY <3>1, <3>2 DEF Harmless, Resetting
    <3> QED
      BY <1>1, <2>1, <3>3, TypesApart DEF LookAt
  <2>2. ASSUME NEW w \in StaffWork, LookAtSftp(p, c, w)
        PROVE  \E r : proc' = [proc EXCEPT ![p] = r] /\ Harmless(p, r)
    <3> DEFINE r == [proc[p] EXCEPT !.pc = "looking-sftp", !.chat = c, !.op = w]
    <3>1. w \in {"access", "idle"}
      BY <2>2 DEF LookAtSftp, SftpSweeps
    <3>2. r \in ProcRecord /\ r.pc = "looking-sftp" /\ r.chat = c /\ r.op = w
      BY <1>1, <3>1 DEF ProcRecord, ProcPC, Op
    <3>3. Harmless(p, r)
      BY <3>1, <3>2 DEF Harmless, Resetting
    <3> QED
      BY <1>1, <2>2, <3>3, TypesApart DEF LookAtSftp
  <2>3. ASSUME p = Admin, Ban(c)
        PROVE  \E r : proc' = [proc EXCEPT ![p] = r] /\ Harmless(p, r)
    <3> DEFINE r == [proc[p] EXCEPT !.pc = "banning", !.chat = c]
    <3>1. r \in ProcRecord /\ r.pc = "banning" /\ r.chat = c /\ r.op = proc[p].op
      BY <1>1 DEF ProcRecord, ProcPC
    <3>2. Harmless(p, r)
      BY <1>1, <3>1 DEF Harmless, Resetting
    <3> QED
      BY <1>1, <2>3, <3>2, TypesApart DEF Ban
  <2> QED
    BY <2>1, <2>2, <2>3
<1>3. UNCHANGED <<registryVars, task, lpc, quiet>> /\ access' \in SUBSET Chats
  BY <1>1, TypesApart DEF LookAt, LookAtSftp, Ban
<1>4. Books' /\ proc' \in [Proc -> ProcRecord]
  BY <1>1, <1>2, <1>3, OneProcMoves DEF registryVars, dicts, objects
<1>5. TypeOK'
  BY <1>1, <1>3, <1>4 DEF TypeOK, RegistryTypeOK, registryVars, dicts, objects
<1> QED
  BY <1>4, <1>5 DEF IInv

LEMMA SweepResumes ==
  ASSUME IInv, NEW p \in Staff, StaffResumes(p) \/ (p = Admin /\ RestoreDone)
  PROVE  IInv'
<1>1. p \in Proc /\ TypeOK /\ proc[p] \in ProcRecord /\ proc[p].op # "connect"
  BY TypesApart DEF Proc, IInv, Books, ProcsMakeSense
<1>2. p # Admin \/ ~RestoreDone => proc[p].chat \in Chats
  BY <1>1 DEF StaffResumes, Spare, Evict, Evicts, SpareSftp, EvictSftp, IInv, Books,
              ProcsMakeSense, AboutAChat
<1>3. UNCHANGED <<task, connecting, cancelled, pending, lpc, access, quiet>>
  BY DEF StaffResumes, Spare, Evict, Evicts, SpareSftp, EvictSftp, RestoreDone,
         registryVars, dicts, objects, connectVars
<1>4. Rests(p) \/ (Goes(p, "notice") /\ Evict(p))
  BY DEF StaffResumes, Spare, Evict, Evicts, SpareSftp, EvictSftp, RestoreDone
<1>5. Books' /\ proc' \in [Proc -> ProcRecord]
  <2>1. CASE Rests(p)
    BY <1>1, <1>3, <2>1, Rested
  <2>2. CASE Goes(p, "notice") /\ Evict(p)
    <3> DEFINE r == [proc[p] EXCEPT !.pc = "notice"]
    <3>1. /\ r \in ProcRecord /\ r.pc = "notice" /\ r.chat = proc[p].chat
          /\ r.op = proc[p].op
      BY <1>1 DEF ProcRecord, ProcPC
    <3>2. proc[p].chat \in Chats
      BY <1>1, <2>2 DEF Evict, IInv, Books, ProcsMakeSense, AboutAChat
    <3>3. Harmless(p, r)
      BY <1>1, <3>1, <3>2 DEF Harmless, Resetting
    <3>4. proc' = [proc EXCEPT ![p] = r]
      BY <1>1, <2>2, TypesApart DEF Goes
    <3> QED
      BY <1>1, <1>3, <3>3, <3>4, OneProcMoves
  <2> QED
    BY <1>4, <2>1, <2>2
<1>6. TerminalTypes' /\ ConnType' /\ sftp' \in [Chats -> Conn \cup {None}]
  <2>1. CASE CloseSession(proc[p].chat, None) /\ UNCHANGED sftp /\ proc[p].chat \in Chats
    BY <1>1, <2>1, CloseSessionTypes, TypesApart
  <2>2. CASE CloseSftp(proc[p].chat) /\ UNCHANGED terminalVars
    BY <1>1, <2>2, TypesApart, ClosedType
       DEF CloseSftp, terminalVars, TerminalTypes, ConnType
  <2>3. CASE UNCHANGED <<terminalVars, conn, sftp>>
    BY <1>1, <2>3, TypesApart DEF terminalVars, TerminalTypes, ConnType
  <2> QED
    BY <1>1, <2>1, <2>2, <2>3
       DEF StaffResumes, Spare, Evict, Evicts, SpareSftp, EvictSftp, RestoreDone,
           registryVars, dicts, objects, terminalVars, IInv, Books, ProcsMakeSense,
           AboutAChat
<1>7. TypeOK'
  BY <1>1, <1>3, <1>5, <1>6 DEF TypeOK, RegistryTypeOK, TerminalTypes, ConnType
<1> QED
  BY <1>5, <1>7 DEF IInv

(* close_all. *)
LEMMA CloseAllStep ==
  ASSUME IInv, NEW stage, NEW left, left \subseteq Chats, CloseAll(stage, left)
  PROVE  IInv'
<1>1. /\ TypeOK /\ Books /\ Admin \in Proc /\ Admin \in Staff /\ Admin \notin Chats
      /\ proc[Admin] \in ProcRecord /\ proc[Admin].op # "connect"
  BY TypesApart, SessionsAssumption DEF Proc, Staff, IInv, Books, ProcsMakeSense
<1>2. UNCHANGED <<task, lpc, access, quiet>>
  BY DEF CloseAll
<1>3. ASSUME cancelled' = cancelled \cup ({connecting[c] : c \in Chats} \ {None}),
             connecting' = [c \in Chats |-> None],
             Goes(Admin, "restored"),
             UNCHANGED <<terminalVars, sftp, pending, conn>>
      PROVE  IInv'
  <2> DEFINE r == [proc[Admin] EXCEPT !.pc = "restored"]
  <2>2. r \in ProcRecord /\ r.pc = "restored" /\ r.op = proc[Admin].op
    BY <1>1 DEF ProcRecord, ProcPC
  <2>3. proc' = [proc EXCEPT ![Admin] = r]
    BY <1>1, <1>3, TypesApart DEF Goes
  <2> HIDE DEF r
  <2>4. /\ proc' \in [Proc -> ProcRecord] /\ proc'[Admin] = r
        /\ \A q \in Proc \ {Admin} : proc'[q] = proc[q]
    <3>1. proc \in [Proc -> ProcRecord]
      BY <1>1, TypesApart
    <3> QED
      BY <1>1, <2>2, <2>3, <3>1
  <2>5. TypeOK'
    BY <1>1, <1>2, <1>3, <2>4, TypesApart DEF TypeOK, RegistryTypeOK, terminalVars
  <2>6. TasksMakeSense'
    BY <1>1, <1>2, <1>3 DEF Books, TasksMakeSense, Started
  <2>7. ProcsMakeSense'
    BY <1>1, <1>2, <2>2, <2>4
       DEF Books, ProcsMakeSense, Started, AboutAChat, Resetting, Proc
  <2>8. CancelReaches'
    BY <1>1, <1>2, <1>3, TypesApart
       DEF Books, CancelReaches, TasksMakeSense, Started, InDispatch
  <2>9. Unclaimed'
    BY <1>1, <1>2, <1>3, <2>4 DEF Books, Unclaimed, Resetting, Proc
  <2> QED
    BY <2>5, <2>6, <2>7, <2>8, <2>9 DEF IInv, Books
<1>4. ASSUME NEW c \in left,
             proc' = [proc EXCEPT ![Admin].pc = "closing-all", ![Admin].op = stage,
                                  ![Admin].todo = left \ {c}],
             \/ /\ stage = "sessions" /\ CloseSession(c, None)
                /\ UNCHANGED <<sftp, pending>>
             \/ /\ stage = "sftp" /\ CloseSftp(c)
                /\ UNCHANGED <<terminalVars, pending>>
             \/ /\ stage = "pending" /\ DiscardPendingTrust(c)
                /\ UNCHANGED <<terminalVars, sftp>>,
             UNCHANGED connectVars
      PROVE  IInv'
  <2> DEFINE r == [proc[Admin] EXCEPT !.pc = "closing-all", !.op = stage,
                                      !.todo = left \ {c}]
  <2>1. c \in Chats /\ stage \in {"sessions", "sftp", "pending"}
    BY <1>4
  <2>2. r \in ProcRecord /\ r.pc = "closing-all" /\ r.op = stage
    BY <1>1, <2>1 DEF ProcRecord, ProcPC, Op
  <2>3. proc' = [proc EXCEPT ![Admin] = r]
    BY <1>1, <1>4, TypesApart
  <2> HIDE DEF r
  <2>4. /\ proc' \in [Proc -> ProcRecord] /\ proc'[Admin] = r
        /\ \A q \in Proc \ {Admin} : proc'[q] = proc[q]
    <3>1. proc \in [Proc -> ProcRecord]
      BY <1>1, TypesApart
    <3> QED
      BY <1>1, <2>2, <2>3, <3>1
  <2>5. /\ pending' \in [Chats -> Conn \cup {None}]
        /\ pending'[c] \in {pending[c], None}
        /\ \A d \in Chats \ {c} : pending'[d] = pending[d]
        /\ sftp' \in [Chats -> Conn \cup {None}]
        /\ TerminalTypes' /\ ConnType'
    <3>1. CASE CloseSession(c, None) /\ UNCHANGED <<sftp, pending>>
      BY <1>1, <2>1, <3>1, CloseSessionTypes, TypesApart
    <3>2. CASE (CloseSftp(c) /\ UNCHANGED <<terminalVars, pending>>)
               \/ (DiscardPendingTrust(c) /\ UNCHANGED <<terminalVars, sftp>>)
      BY <1>1, <2>1, <3>2, ClosedType, TypesApart
         DEF CloseSftp, DiscardPendingTrust, terminalVars, TerminalTypes, ConnType
    <3> QED
      BY <1>4, <3>1, <3>2
  <2>6. TypeOK'
    BY <1>1, <1>2, <1>4, <2>4, <2>5, TypesApart
       DEF TypeOK, RegistryTypeOK, TerminalTypes, ConnType, connectVars
  <2>7. TasksMakeSense'
    BY <1>1, <1>2, <2>1, <2>5, TypesApart DEF Books, TasksMakeSense, Started
  <2>8. ProcsMakeSense'
    BY <1>1, <1>2, <2>1, <2>2, <2>4
       DEF Books, ProcsMakeSense, Started, AboutAChat, Resetting, Proc
  <2>9. CancelReaches'
    BY <1>1, <1>2, <1>4 DEF Books, CancelReaches, connectVars
  <2>10. Unclaimed'
    BY <1>1, <1>2, <1>4, <2>4, <2>5 DEF Books, Unclaimed, Resetting, Proc, connectVars
  <2> QED
    BY <2>6, <2>7, <2>8, <2>9, <2>10 DEF IInv, Books
<1> QED
  BY <1>3, <1>4 DEF CloseAll

LEMMA RestoreSteps ==
  ASSUME IInv, Restore \/ RestoreResumes
  PROVE  IInv'
<1>1. proc[Admin].todo \subseteq Chats
  BY TypesApart DEF IInv, Proc, Staff, ProcRecord
<1>2. PICK stage, left : CloseAll(stage, left) /\ left \subseteq Chats
  BY <1>1 DEF Restore, RestoreResumes, Remaining, Holding
<1> QED
  BY <1>2, CloseAllStep

-----------------------------------------------------------------------------
LEMMA InitHolds == Init => IInv
<1> SUFFICES ASSUME Init
             PROVE  IInv
  OBVIOUS
<1>1. AtRest \in ProcRecord /\ AtRest.pc = "idle" /\ AtRest.op = "none"
  BY AtRestHarmless DEF Harmless, AtRest
<1>2. TypeOK
  BY <1>1 DEF Init, RegistryInit, TypeOK, RegistryTypeOK, TaskRecord, TaskPC, Act
<1>3. TasksMakeSense
  BY DEF Init, RegistryInit, TasksMakeSense, Started
<1>4. ProcsMakeSense
  BY <1>1 DEF Init, ProcsMakeSense, Proc, AboutAChat, Resetting
<1>5. CancelReaches
  BY DEF Init, CancelReaches, InDispatch
<1>6. Unclaimed
  BY <1>1 DEF Init, RegistryInit, Unclaimed, Proc, Resetting
<1> QED
  BY <1>2, <1>3, <1>4, <1>5, <1>6 DEF IInv, Books

LEMMA NextStep == IInv /\ [Next]_vars => IInv'
<1> SUFFICES ASSUME IInv, [Next]_vars
             PROVE  IInv'
  OBVIOUS
<1>1. CASE \E c \in Chats : HandlerStarts(c)
  BY <1>1, ConnectClosingStep, HandlerMoves, ResetsStep, ConnCancelStep, TrustYesStep,
     TrustNoStep, OutsideTheBooks DEF HandlerStarts
<1>2. CASE \E c \in Chats : HandlerResumes(c)
  BY <1>2, HandlerMoves, HandlerEnds, ResetsStep, TrustedStep DEF HandlerResumes
<1>3. CASE \E t \in Task : TaskStep(t)
  BY <1>3, TaskGoesOnStep, ConnectUntrustedStep, TaskEndsStep DEF TaskStep, TaskGoesOn
<1>4. CASE \E t \in Task : LoopStep(t) \/ LoopCrashes(t)
  BY <1>4, LoopsStep
<1>5. CASE \E p \in Staff : StaffResumes(p)
  BY <1>5, SweepResumes
<1>6. CASE \/ \E p \in Staff, c \in Chats, w \in StaffWork :
                LookAt(p, c, w) \/ LookAtSftp(p, c, w)
           \/ \E c \in Chats : Ban(c)
  BY <1>6, SweepMoves DEF Staff
<1>7. CASE AdminResumes \/ Restore
  BY <1>7, ResetsStep, RestoreSteps, SweepResumes DEF AdminResumes, Staff
<1>8. CASE Environment
  BY <1>8, OutsideTheBooks
<1>9. CASE UNCHANGED vars
  <2>1. UNCHANGED <<registryVars, sessionVars>> /\ UNCHANGED ToldApart
    BY <1>9 DEF vars, ToldApart, registryVars, sessionVars, dicts, objects
  <2>2. TypeOK'
    BY <2>1 DEF IInv, TypeOK, RegistryTypeOK, registryVars, sessionVars, dicts, objects
  <2> QED
    BY <2>1, <2>2, BooksUntouched DEF IInv
<1> QED
  BY <1>1, <1>2, <1>3, <1>4, <1>5, <1>6, <1>7, <1>8, <1>9 DEF Next

(* The books are right in every state. *)
THEOREM BooksInvariant == Spec => []IInv
BY InitHolds, NextStep, PTL DEF Spec

(* The registry's dictionaries and the coroutines keep their types, for    *)
(* any number of chats, connect tasks and any cap.                         *)
THEOREM SessionsTypeCorrect == Spec => []TypeOK
<1>1. IInv => TypeOK
  BY DEF IInv
<1> QED
  BY BooksInvariant, <1>1, PTL

(* The cancel button, every reset and close_all reach the one task of a    *)
(* chat that may still open or use a connection (terminal.py:97-99,        *)
(* 126-128, 161-164; registry.py:71-83), in every interleaving of any      *)
(* number of chats, tasks, sweeps and administrator's handlers.            *)
THEOREM CancelAlwaysReaches == Spec => []CancelReaches
<1>1. IInv => CancelReaches
  BY DEF IInv, Books
<1> QED
  BY BooksInvariant, <1>1, PTL
-----------------------------------------------------------------------------
(* Who holds a connection.  The places that Owners counts, each with whom  *)
(* it belongs to.                                                          *)

AtHold == {"ready", "opening", "browsing", "measuring"}

Places(S, T, U, V, W) ==
  ({"task"} \X S) \cup ({"handler"} \X T) \cup ({"active"} \X U) \cup ({"pending"} \X V)
    \cup ({"sftp"} \X W)

Holders(k) ==
  Places(HeldByTask(k), HeldByHandler(k), HeldByDict(active, k), HeldByDict(pending, k),
         HeldByDict(sftp, k))

(* OneOwner is not inductive: a connection that is opened must not be held *)
(* already.  A connection named after a task is opened by that task, and   *)
(* whatever refers to a connection refers to one that was opened.          *)
Alone == \A k \in Conn : conn[k] = "open" => \A h, g \in Holders(k) : h = g

NotYet == \A t \in Task : task[t].pc \in {"none", "connecting"} => conn[t] = "none"

Known ==
  /\ \A t \in Task : /\ task[t].conn # None => conn[task[t].conn] # "none"
                     /\ task[t].pc \in AtHold => task[t].conn # None
  /\ \A c \in Chats :
       /\ proc[c].pc = "trusting" => conn[proc[c].seen] # "none"
       /\ active[c] # None => conn[active[c]] # "none"
       /\ pending[c] # None => conn[pending[c]] # "none"
       /\ sftp[c] # None => conn[sftp[c]] # "none"

Owned == NotYet /\ Known /\ Alone

(* A chat has no file browser while a task that may start one works for    *)
(* it, while it is asked about a host key, and between the last close of   *)
(* start_action's reset and its task: none is lost in launch_sftp.         *)
BeforeBrowser == {"connecting", "ready", "opening", "drawing", "browsing", "measuring"}

Reason(c) ==
  \/ pending[c] # None
  \/ proc[c].pc = "trusting"
  \/ proc[c].pc = "reset3" /\ proc[c].op = "connect"
  \/ \E t \in Task \ cancelled : task[t].chat = c /\ task[t].pc \in BeforeBrowser

NoBrowser == \A c \in Chats : Reason(c) => sftp[c] = None

LEMMA HoldersShrink ==
  ASSUME NEW k,
         HeldByTask(k)' \subseteq HeldByTask(k),
         HeldByHandler(k)' \subseteq HeldByHandler(k),
         HeldByDict(active, k)' \subseteq HeldByDict(active, k),
         HeldByDict(pending, k)' \subseteq HeldByDict(pending, k),
         HeldByDict(sftp, k)' \subseteq HeldByDict(sftp, k)
  PROVE  Holders(k)' \subseteq Holders(k)
BY DEF Holders, Places

LEMMA HoldersStay ==
  ASSUME NEW k,
         HeldByTask(k) \subseteq HeldByTask(k)',
         HeldByHandler(k) \subseteq HeldByHandler(k)',
         HeldByDict(active, k) \subseteq HeldByDict(active, k)',
         HeldByDict(pending, k) \subseteq HeldByDict(pending, k)',
         HeldByDict(sftp, k) \subseteq HeldByDict(sftp, k)'
  PROVE  Holders(k) \subseteq Holders(k)'
BY DEF Holders, Places

(* A connection that stays open is lost in the known places only. *)
NotLost ==
  \A k \in Conn :
    conn[k] = "open" /\ conn'[k] = "open" /\ Holders(k) # {}
      => \/ (Holders(k) # {})'
         \/ \E c \in Chats : active[c] = k /\ active'[c] \notin {k, None}
         \/ \E t \in cancelled : task[t].conn = k /\ task[t].pc = "ready"
         \/ \E c \in Chats : proc[c].pc = "trusting" /\ proc[c].seen = k

-----------------------------------------------------------------------------
(* Steps after which nobody holds what he did not hold, and what is no     *)
(* longer held is closed: k at most, or the place is a known one.          *)

DictsLet(k) ==
  /\ conn' = Closed(k)
  /\ k \in Conn => conn[k] # "none"
  /\ \A c \in Chats :
       /\ active'[c] = active[c] \/ (active'[c] = None /\ active[c] = k)
       /\ pending'[c] = pending[c] \/ (pending'[c] = None /\ pending[c] = k)
       /\ sftp'[c] = sftp[c] \/ (sftp'[c] = None /\ sftp[c] = k)

TasksLet(k) ==
  \A t \in Task :
    /\ task'[t].conn \in {task[t].conn, None}
    /\ task'[t].pc \in {"none", "connecting"} => task[t].pc \in {"none", "connecting"}
    /\ task'[t].pc \in AtHold => task[t].pc \in AtHold /\ task'[t].conn = task[t].conn
    /\ task[t].pc \in AtHold =>
         \/ task'[t].pc \in AtHold /\ task'[t].conn = task[t].conn
         \/ task[t].conn = k
         \/ t \in cancelled /\ task[t].pc = "ready"

ProcsLet ==
  \A c \in Chats : proc'[c].pc = "trusting" => proc[c].pc = "trusting" /\ proc'[c].seen = proc[c].seen

Lets(k) == DictsLet(k) /\ TasksLet(k) /\ ProcsLet

LEMMA LetsStep ==
  ASSUME IInv, Owned, NEW k \in Conn \cup {None}, Lets(k)
  PROVE  Owned' /\ NotLost
<1>1. /\ Conn = Task /\ None \notin Task
      /\ conn \in [Conn -> {"none", "open", "closed"}]
      /\ \A c \in Chats : /\ {active[c], pending[c], sftp[c]} \subseteq Conn \cup {None}
                          /\ proc[c].pc = "trusting" => proc[c].seen \in Conn
      /\ \A t \in Task : task[t].conn \in Conn \cup {None}
  BY TypesApart DEF IInv, ConnType, TerminalTypes, Proc, Books, ProcsMakeSense, ProcRecord,
                    TaskRecord
<1>2. \A j \in Conn : /\ conn'[j] = IF j = k THEN "closed" ELSE conn[j]
                      /\ conn[j] # "none" => conn'[j] # "none"
                      /\ conn[j] = "none" => conn'[j] = "none"
  BY <1>1 DEF Lets, DictsLet, Closed
<1>3. NotYet'
  BY <1>1, <1>2 DEF Owned, NotYet, Lets, TasksLet
<1>4. Known'
  BY <1>1, <1>2 DEF Owned, Known, Lets, DictsLet, TasksLet, ProcsLet
<1>5. Alone'
  <2> SUFFICES ASSUME NEW j \in Conn, conn'[j] = "open"
               PROVE  \A h, g \in Holders(j)' : h = g
    BY <1>1 DEF Alone
  <2>1. conn[j] = "open" /\ j # None
    BY <1>1, <1>2
  <2>2. HeldByTask(j)' \subseteq HeldByTask(j)
    BY <1>1, <2>1 DEF HeldByTask, Lets, TasksLet, AtHold
  <2>3. HeldByHandler(j)' \subseteq HeldByHandler(j)
    BY DEF HeldByHandler, Lets, ProcsLet
  <2>4. /\ HeldByDict(active, j)' \subseteq HeldByDict(active, j)
        /\ HeldByDict(pending, j)' \subseteq HeldByDict(pending, j)
        /\ HeldByDict(sftp, j)' \subseteq HeldByDict(sftp, j)
    BY <2>1 DEF HeldByDict, Lets, DictsLet
  <2>5. Holders(j)' \subseteq Holders(j)
    BY <2>2, <2>3, <2>4, HoldersShrink
  <2> QED
    BY <2>1, <2>5 DEF Owned, Alone
<1>6. NotLost
  <2> SUFFICES ASSUME NEW j \in Conn, conn[j] = "open", conn'[j] = "open", Holders(j) # {},
                      ~ \E t \in cancelled : task[t].conn = j /\ task[t].pc = "ready",
                      ~ \E c \in Chats : proc[c].pc = "trusting" /\ proc[c].seen = j
               PROVE  (Holders(j) # {})'
    BY DEF NotLost
  <2>1. j # k
    BY <1>2
  <2>2. HeldByHandler(j) = {}
    BY DEF HeldByHandler
  <2>3. HeldByTask(j) \subseteq HeldByTask(j)'
    BY <2>1 DEF HeldByTask, Lets, TasksLet, AtHold
  <2>4. /\ HeldByDict(active, j) \subseteq HeldByDict(active, j)'
        /\ HeldByDict(pending, j) \subseteq HeldByDict(pending, j)'
        /\ HeldByDict(sftp, j) \subseteq HeldByDict(sftp, j)'
    BY <2>1 DEF HeldByDict, Lets, DictsLet
  <2> QED
    <3>1. Holders(j) \subseteq Holders(j)'
      BY <2>2, <2>3, <2>4, HoldersStay
    <3> QED
      BY <3>1
<1> QED
  BY <1>3, <1>4, <1>5, <1>6 DEF Owned
(* What every step is shown to keep. *)
Kept == Owned' /\ NoBrowser' /\ NotLost

(* No handler takes a pending connection or gets to the end of its reset. *)
Steady ==
  \A c \in Chats : proc'[c] = proc[c] \/ proc'[c].pc \notin {"trusting", "reset3"}

(* No task gets a chat or something to open. *)
NoNewWork ==
  \A t \in Task : task'[t].pc \in BeforeBrowser
                    => task[t].pc \in BeforeBrowser /\ task'[t].chat = task[t].chat

LEMMA CalmStep ==
  ASSUME IInv, Owned, NoBrowser, NEW k \in Conn \cup {None}, DictsLet(k), TasksLet(k),
         Steady, NoNewWork, cancelled \subseteq cancelled'
  PROVE  Kept
<1>1. ProcsLet
  BY DEF Steady, ProcsLet
<1>2. Owned' /\ NotLost
  BY <1>1, LetsStep DEF Lets
<1>3. NoBrowser'
  BY DEF NoBrowser, Reason, DictsLet, Steady, NoNewWork
<1> QED
  BY <1>2, <1>3 DEF Kept

LEMMA ClosesOne ==
  ASSUME IInv, Owned,
         \/ UNCHANGED <<active, pending, sftp, conn>>
         \/ \E c \in Chats :
              \/ (\E self : CloseSession(c, self)) /\ UNCHANGED <<pending, sftp>>
              \/ DiscardPendingTrust(c) /\ UNCHANGED <<active, sftp>>
              \/ CloseSftp(c) /\ UNCHANGED <<active, pending>>
         \/ \E k \in Conn : ConnectionDrops(k)
  PROVE  \E k \in Conn \cup {None} : DictsLet(k)
<1>1. /\ active \in [Chats -> Conn \cup {None}] /\ pending \in [Chats -> Conn \cup {None}]
      /\ sftp \in [Chats -> Conn \cup {None}] /\ None \notin Conn
      /\ conn \in [Conn -> {"none", "open", "closed"}]
  BY TypesApart DEF IInv, TerminalTypes, ConnType
<1>2. CASE UNCHANGED <<active, pending, sftp, conn>>
  BY <1>1, <1>2 DEF DictsLet, Closed
<1>3. ASSUME NEW c \in Chats, NEW self, CloseSession(c, self), UNCHANGED <<pending, sftp>>
      PROVE  DictsLet(active[c])
  BY <1>1, <1>3 DEF DictsLet, CloseSession, Owned, Known
<1>4. ASSUME NEW c \in Chats, DiscardPendingTrust(c), UNCHANGED <<active, sftp>>
      PROVE  DictsLet(pending[c])
  BY <1>1, <1>4 DEF DictsLet, DiscardPendingTrust, Owned, Known
<1>5. ASSUME NEW c \in Chats, CloseSftp(c), UNCHANGED <<active, pending>>
      PROVE  DictsLet(sftp[c])
  BY <1>1, <1>5 DEF DictsLet, CloseSftp, Owned, Known
<1>6. ASSUME NEW k \in Conn, ConnectionDrops(k)
      PROVE  DictsLet(k)
  <2>1. conn' = Closed(k)
    BY <1>1, <1>6 DEF ConnectionDrops, Closed
  <2> QED
    BY <1>6, <2>1 DEF DictsLet, ConnectionDrops, dicts
<1> QED
  BY <1>1, <1>2, <1>3, <1>4, <1>5, <1>6

(* Steps of handlers and staff that start no task. *)
LEMMA TasklessStep ==
  ASSUME IInv, Owned, NoBrowser, Steady, UNCHANGED task, cancelled \subseteq cancelled',
         \E k \in Conn \cup {None} : DictsLet(k)
  PROVE  Kept
<1>1. PICK k \in Conn \cup {None} : DictsLet(k)
  OBVIOUS
<1>2. TasksLet(k) /\ NoNewWork
  BY DEF TasksLet, NoNewWork
<1> QED
  BY <1>1, <1>2, CalmStep

(* A coroutine goes to another place, or rests. *)
LEMMA ProcSteady ==
  ASSUME IInv,
         \/ UNCHANGED proc
         \/ \E p \in Proc : Rests(p)
         \/ \E p \in Proc : /\ \A q \in Proc \ {p} : proc'[q] = proc[q]
                            /\ proc'[p].pc \notin {"trusting", "reset3"}
  PROVE  Steady
<1>1. proc \in [Proc -> ProcRecord] /\ Chats \subseteq Proc
  BY TypesApart DEF IInv, Proc
<1> QED
  BY <1>1 DEF Steady, Rests, AtRest

LEMMA QuietHandlers ==
  ASSUME IInv, Owned, NoBrowser, NEW c \in Chats,
         \/ \E act \in Actions : Connect(c, act)
         \/ Measure(c) \/ Refused(c) \/ Exit(c) \/ TrustFails(c) \/ ConnCancel(c) \/ Type(c)
  PROVE  Kept
<1>1. proc \in [Proc -> ProcRecord] /\ c \in Proc
  BY TypesApart DEF IInv, Proc
<1>2. Steady
  <2>1. CASE UNCHANGED proc \/ Rests(c)
    BY <1>1, <2>1, ProcSteady
  <2>2. CASE (\E act \in Actions : Connect(c, act)) \/ Measure(c) \/ Exit(c)
    <3>1. CASE /\ \A q \in Proc \ {c} : proc'[q] = proc[q]
               /\ proc'[c].pc \in {"waiting", "exiting"}
      BY <1>1, <3>1, ProcSteady
    <3>2. ASSUME NEW act \in Actions, Connect(c, act)
          PROVE  Steady
      BY <1>1, <3>1, <3>2 DEF Connect, ProcRecord
    <3>3. CASE Measure(c)
      BY <1>1, <3>1, <3>3 DEF Measure, ProcRecord
    <3>4. CASE Exit(c)
      BY <1>1, <3>1, <3>4 DEF Exit, Goes, ProcRecord
    <3> QED
      BY <2>2, <3>2, <3>3, <3>4
  <2> QED
    BY <2>1, <2>2 DEF Refused, TrustFails, ConnCancel, Type, sessionVars
<1>3. /\ UNCHANGED <<active, pending, sftp, conn, task>> /\ cancelled \subseteq cancelled'
  BY DEF Connect, Measure, Refused, Exit, TrustFails, ConnCancel, CancelConnecting,
         ReplaceConnecting, Type, registryVars, dicts, objects, terminalVars, sessionVars
<1> QED
  BY <1>2, <1>3, ClosesOne, TasklessStep

LEMMA ClosingHandlers ==
  ASSUME IInv, Owned, NoBrowser, NEW c \in Chats,
         \/ \E force \in BOOLEAN : ConnectClosing(c, force)
         \/ ExitCloses(c) \/ TrustNo(c) \/ SftpExit(c)
  PROVE  Kept
<1>1. proc \in [Proc -> ProcRecord] /\ c \in Proc
  BY TypesApart DEF IInv, Proc
<1>2. Steady
  BY <1>1, ProcSteady
     DEF ConnectClosing, ExitCloses, TrustNo, SftpExit, sessionVars, ProcRecord
<1>3. UNCHANGED task /\ cancelled \subseteq cancelled'
  BY DEF ConnectClosing, ExitCloses, TrustNo, SftpExit, connectVars, sessionVars
<1>4. \/ (\E self : CloseSession(c, self)) /\ UNCHANGED <<pending, sftp>>
      \/ DiscardPendingTrust(c) /\ UNCHANGED <<active, sftp>>
      \/ CloseSftp(c) /\ UNCHANGED <<active, pending>>
  BY DEF ConnectClosing, ExitCloses, TrustNo, SftpExit, terminalVars
<1> QED
  BY <1>2, <1>3, <1>4, ClosesOne, TasklessStep
LEMMA StaffKeeps ==
  ASSUME IInv, Owned, NoBrowser, NEW p \in Staff,
         \/ StaffResumes(p)
         \/ \E c \in Chats, w \in StaffWork : LookAt(p, c, w) \/ LookAtSftp(p, c, w)
         \/ p = Admin /\ (RestoreDone \/ \E c \in Chats : Ban(c))
  PROVE  Kept
<1>1. proc \in [Proc -> ProcRecord] /\ p \in Proc
      /\ (proc[p].pc \in AboutAChat => proc[p].chat \in Chats)
  BY TypesApart DEF IInv, Proc, Books, ProcsMakeSense
<1>2. Steady
  <2>1. CASE Rests(p)
    BY <1>1, <2>1, ProcSteady
  <2>2. CASE /\ \A q \in Proc \ {p} : proc'[q] = proc[q]
             /\ proc'[p].pc \in {"notice", "looking", "looking-sftp", "banning"}
    BY <1>1, <2>2, ProcSteady
  <2>3. CASE Goes(p, "notice")
    BY <1>1, <2>2, <2>3 DEF Goes, ProcRecord
  <2>4. ASSUME NEW c \in Chats, NEW w \in StaffWork, LookAt(p, c, w)
        PROVE  Steady
    BY <1>1, <2>2, <2>4 DEF LookAt, ProcRecord
  <2>5. ASSUME NEW c \in Chats, NEW w \in StaffWork, LookAtSftp(p, c, w)
        PROVE  Steady
    BY <1>1, <2>2, <2>5 DEF LookAtSftp, ProcRecord
  <2>6. CASE p = Admin /\ \E c \in Chats : Ban(c)
    BY <1>1, <2>2, <2>6 DEF Ban, ProcRecord
  <2> QED
    BY <2>1, <2>3, <2>4, <2>5, <2>6
       DEF StaffResumes, Spare, Evict, Evicts, SpareSftp, EvictSftp, RestoreDone
<1>3. UNCHANGED task /\ cancelled \subseteq cancelled'
  BY DEF StaffResumes, Spare, Evict, Evicts, SpareSftp, EvictSftp, LookAt, LookAtSftp,
         RestoreDone, Ban, registryVars, dicts, objects, connectVars
<1>4. \E k \in Conn \cup {None} : DictsLet(k)
  <2>1. CASE Evict(p) \/ Evicts(p) \/ EvictSftp(p)
    BY <1>1, <2>1, ClosesOne
       DEF Evict, Evicts, EvictSftp, terminalVars, AboutAChat
  <2>2. CASE UNCHANGED <<active, pending, sftp, conn>>
    BY <2>2, ClosesOne
  <2> QED
    BY <2>1, <2>2
       DEF StaffResumes, Spare, SpareSftp, LookAt, LookAtSftp, RestoreDone, Ban,
           registryVars, dicts, objects
<1> QED
  BY <1>2, <1>3, <1>4, TasklessStep

LEMMA CloseAllKeeps ==
  ASSUME IInv, Owned, NoBrowser, Restore \/ RestoreResumes
  PROVE  Kept
<1>1. /\ Admin \in Proc /\ Admin \notin Chats /\ proc \in [Proc -> ProcRecord]
      /\ proc[Admin].todo \subseteq Chats
  BY TypesApart, SessionsAssumption DEF IInv, Proc, Staff, ProcRecord
<1>2. PICK stage, left : CloseAll(stage, left) /\ left \subseteq Chats
  BY <1>1 DEF Restore, RestoreResumes, Remaining, Holding
<1>3. Steady
  BY <1>1, <1>2, ProcSteady DEF CloseAll, Goes, ProcRecord
<1>4. UNCHANGED task /\ cancelled \subseteq cancelled'
  BY <1>2 DEF CloseAll, connectVars
<1>5. \E k \in Conn \cup {None} : DictsLet(k)
  <2>1. ASSUME NEW c \in left,
               \/ CloseSession(c, None) /\ UNCHANGED <<sftp, pending>>
               \/ CloseSftp(c) /\ UNCHANGED <<terminalVars, pending>>
               \/ DiscardPendingTrust(c) /\ UNCHANGED <<terminalVars, sftp>>
        PROVE  \E k \in Conn \cup {None} : DictsLet(k)
    <3>1. c \in Chats
      BY <1>2
    <3> QED
      BY <2>1, <3>1, ClosesOne DEF terminalVars
  <2>2. CASE UNCHANGED <<terminalVars, sftp, pending, conn>>
    BY <2>2, ClosesOne DEF terminalVars
  <2> QED
    BY <1>2, <2>1, <2>2 DEF CloseAll
<1> QED
  BY <1>3, <1>4, <1>5, TasklessStep

LEMMA LoopsAndWorldKeep ==
  ASSUME IInv, Owned, NoBrowser,
         (\E r \in Task : LoopStep(r) \/ LoopCrashes(r)) \/ Environment
  PROVE  Kept
<1>1. UNCHANGED <<task, proc>> /\ cancelled \subseteq cancelled'
  BY DEF LoopStep, LoopStops, LoopFindsEnded, LoopCloses, LoopIsCancelled, LoopCrashes,
         Environment, ShellExits, ConnectionDrops, ReadLoopEnds, GoesQuiet, AccessEnds,
         registryVars, sessionVars, dicts, objects, connectVars
<1>2. \E k \in Conn \cup {None} : DictsLet(k)
  <2>1. ASSUME NEW r \in Task, LoopStep(r) \/ LoopCrashes(r)
        PROVE  \E k \in Conn \cup {None} : DictsLet(k)
    <3>1. LoopChat(r) \in Chats
      BY <2>1, TaskAtWork, TypesApart
         DEF IInv, Books, TasksMakeSense, LoopStep, LoopStops, LoopFindsEnded, LoopCloses,
             LoopIsCancelled, LoopCrashes, LoopChat
    <3>2. \/ UNCHANGED <<active, pending, sftp, conn>>
          \/ (\E self : CloseSession(LoopChat(r), self)) /\ UNCHANGED <<pending, sftp>>
      BY <2>1 DEF LoopStep, LoopStops, LoopFindsEnded, LoopCloses, LoopIsCancelled,
                  LoopCrashes, registryVars, dicts, objects, terminalVars
    <3> QED
      BY <3>1, <3>2, ClosesOne
  <2>2. CASE Environment
    <3>1. \/ UNCHANGED <<active, pending, sftp, conn>>
          \/ \E k \in Conn : ConnectionDrops(k)
      BY <2>2 DEF Environment, ShellExits, ReadLoopEnds, GoesQuiet, AccessEnds,
                  registryVars, dicts, objects
    <3> QED
      BY <3>1, ClosesOne
  <2> QED
    BY <2>1, <2>2
<1> QED
  BY <1>1, <1>2, ProcSteady, TasklessStep

-----------------------------------------------------------------------------
(* Steps of tasks that open nothing and hand nothing on.                   *)

LEMMA TaskCalmStep ==
  ASSUME IInv, Owned, NoBrowser, NEW t \in Task, Started(t),
         NEW pc \in TaskPC \ {"none", "connecting"},
         TaskGoes(t, pc), UNCHANGED proc, cancelled \subseteq cancelled',
         pc \in AtHold => task[t].pc \in AtHold,
         pc \in BeforeBrowser => task[t].pc \in BeforeBrowser,
         NEW k \in Conn \cup {None}, DictsLet(k),
         task[t].pc \in AtHold =>
           pc \in AtHold \/ task[t].conn = k \/ (t \in cancelled /\ task[t].pc = "ready")
  PROVE  Kept
<1>1. \A u \in Task : /\ task'[u].conn = task[u].conn /\ task'[u].chat = task[u].chat
                      /\ task'[u].pc = IF u = t THEN pc ELSE task[u].pc
  BY TypesApart DEF IInv, TaskGoes, TaskRecord
<1>2. TasksLet(k) /\ NoNewWork
  BY <1>1 DEF TasksLet, NoNewWork
<1> QED
  BY <1>2, CalmStep, ProcSteady

LEMMA TasksKeep ==
  ASSUME IInv, Owned, NoBrowser, NEW t \in Task,
         \/ ConnectFails(t) \/ DispatchPending(t) \/ TerminalDrawn(t) \/ Monitored(t)
         \/ DispatchFails(t) \/ DispatchFailed(t) \/ Reported(t) \/ TaskCancelled(t)
  PROVE  Kept
<1>1. /\ Started(t) /\ UNCHANGED proc /\ cancelled \subseteq cancelled'
  BY DEF Started, Runs, ConnectFails, DispatchPending, TerminalDrawn, Monitored,
         DispatchFails, DispatchFailed, Reported, TaskCancelled, TaskEnds, InDispatch,
         registryVars, dicts, objects, connectVars
<1>2. /\ task[t].conn \in Conn \cup {None} /\ task[t].chat \in Chats /\ None \notin Conn
      /\ task[t].act \in {"terminal", "sftp", "monitor"}
      /\ conn \in [Conn -> {"none", "open", "closed"}]
  BY <1>1, TaskAtWork, TypesApart DEF IInv, ConnType
<1>3. ASSUME UNCHANGED <<active, pending, sftp, conn>>
      PROVE  \E k \in Conn \cup {None} : DictsLet(k)
  BY <1>3, ClosesOne
<1>4. ASSUME conn' = Closed(task[t].conn), UNCHANGED <<active, pending, sftp>>
      PROVE  DictsLet(task[t].conn)
  BY <1>2, <1>4 DEF DictsLet, Owned, Known
<1>5. CASE ConnectFails(t) \/ TerminalDrawn(t) \/ Reported(t)
  <2>1. PICK pc \in {"reporting", "done"} :
          TaskGoes(t, pc) /\ UNCHANGED <<active, pending, sftp, conn>> /\ task[t].pc \notin AtHold
    BY <1>5 DEF ConnectFails, TerminalDrawn, Reported, TaskEnds, Runs, AtHold, registryVars,
                dicts, objects, terminalVars
  <2> QED
    BY <1>1, <1>3, <2>1, TaskCalmStep DEF TaskPC, AtHold, BeforeBrowser
<1>6. CASE DispatchPending(t)
  <2> DEFINE pc == FirstStep(task[t].act)
  <2>1. pc \in {"opening", "browsing", "measuring"} /\ task[t].pc = "ready"
    BY <1>2, <1>6 DEF FirstStep, DispatchPending, Runs
  <2>2. TaskGoes(t, pc) /\ UNCHANGED <<active, pending, sftp, conn>>
    BY <1>6 DEF DispatchPending, registryVars, dicts, objects
  <2> HIDE DEF pc
  <2> QED
    BY <1>1, <1>3, <2>1, <2>2, TaskCalmStep DEF TaskPC, AtHold, BeforeBrowser, InDispatch
<1>7. CASE Monitored(t) \/ DispatchFails(t)
  <2>1. PICK pc \in {"reporting", "failed"} : TaskGoes(t, pc)
    BY <1>7 DEF Monitored, DispatchFails
  <2>2. DictsLet(task[t].conn)
    BY <1>4, <1>7 DEF Monitored, DispatchFails, terminalVars
  <2> QED
    BY <1>1, <1>2, <2>1, <2>2, TaskCalmStep DEF TaskPC, AtHold, BeforeBrowser
<1>8. CASE DispatchFailed(t)
  <2>1. TaskGoes(t, "reporting") /\ task[t].pc = "failed"
    BY <1>8 DEF DispatchFailed, Runs
  <2>2. \/ UNCHANGED <<active, pending, sftp, conn>>
        \/ (\E self : CloseSession(task[t].chat, self)) /\ UNCHANGED <<pending, sftp>>
    BY <1>8 DEF DispatchFailed, terminalVars
  <2>3. PICK k \in Conn \cup {None} : DictsLet(k)
    BY <1>2, <2>2, ClosesOne
  <2> QED
    BY <1>1, <2>1, <2>3, TaskCalmStep DEF TaskPC, AtHold, BeforeBrowser
<1>9. CASE TaskCancelled(t)
  <2>1. TaskGoes(t, "done") /\ t \in cancelled /\ UNCHANGED <<active, pending, sftp>>
    BY <1>9 DEF TaskCancelled, TaskEnds, terminalVars
  <2>2. CASE task[t].pc \in InDispatch
    <3>1. DictsLet(task[t].conn)
      BY <1>4, <1>9, <2>1, <2>2 DEF TaskCancelled, ClosedOnCancel
    <3> QED
      BY <1>1, <1>2, <2>1, <3>1, TaskCalmStep DEF TaskPC, AtHold, BeforeBrowser
  <2>3. CASE task[t].pc \notin InDispatch
    <3>1. \E k \in Conn \cup {None} : DictsLet(k)
      BY <1>3, <1>9, <2>1, <2>3 DEF TaskCancelled, ClosedOnCancel
    <3> QED
      BY <1>1, <2>1, <2>3, <3>1, TaskCalmStep DEF TaskPC, AtHold, BeforeBrowser, InDispatch
  <2> QED
    BY <2>2, <2>3
<1> QED
  BY <1>5, <1>6, <1>7, <1>8, <1>9
-----------------------------------------------------------------------------
(* Steps that hand a connection on: h of it becomes g.                     *)

LEMMA HandOver ==
  ASSUME Alone, UNCHANGED conn, NEW k \in Conn, NEW h \in Holders(k), NEW g,
         \A j \in Conn : Holders(j)' \subseteq (Holders(j) \ {h}) \cup {g},
         \A j \in Conn \ {k} : g \notin Holders(j)'
  PROVE  Alone'
<1> SUFFICES ASSUME NEW j \in Conn, conn[j] = "open", NEW a \in Holders(j)', NEW b \in Holders(j)'
             PROVE  a = b
  BY DEF Alone, Conn
<1>1. CASE j = k
  BY <1>1 DEF Alone
<1>2. CASE j # k
  BY <1>2 DEF Alone
<1> QED
  BY <1>1, <1>2

(* Nobody but h loses anything. *)
LEMMA HandedOver ==
  ASSUME NEW k \in Conn, NEW h, NEW g,
         g \in Holders(k)', \A j \in Conn \ {k} : h \notin Holders(j),
         \A j \in Conn : \A a \in Holders(j) \ {h} :
            \/ a \in Holders(j)'
            \/ \E c \in Chats : active[c] = j /\ active'[c] \notin {j, None}
  PROVE  NotLost
<1> SUFFICES ASSUME NEW j \in Conn, NEW a \in Holders(j),
                    ~ \E c \in Chats : active[c] = j /\ active'[c] \notin {j, None}
             PROVE  (Holders(j) # {})'
  BY DEF NotLost
<1>1. CASE j = k
  BY <1>1
<1>2. CASE j # k
  BY <1>2
<1> QED
  BY <1>1, <1>2

(* What each place of a holder says. *)
LEMMA HoldersAre ==
  ASSUME NEW j
  PROVE  /\ \A a : a \in Holders(j) <=>
              \/ \E t \in Task : a = <<"task", t>> /\ task[t].conn = j /\ task[t].pc \in AtHold
              \/ \E c \in Chats :
                   \/ a = <<"handler", c>> /\ proc[c].pc = "trusting" /\ proc[c].seen = j
                   \/ a = <<"active", c>> /\ active[c] = j
                   \/ a = <<"pending", c>> /\ pending[c] = j
                   \/ a = <<"sftp", c>> /\ sftp[c] = j
         /\ \A a : a \in Holders(j)' <=>
              \/ \E t \in Task : a = <<"task", t>> /\ task'[t].conn = j /\ task'[t].pc \in AtHold
              \/ \E c \in Chats :
                   \/ a = <<"handler", c>> /\ proc'[c].pc = "trusting" /\ proc'[c].seen = j
                   \/ a = <<"active", c>> /\ active'[c] = j
                   \/ a = <<"pending", c>> /\ pending'[c] = j
                   \/ a = <<"sftp", c>> /\ sftp'[c] = j
BY DEF Holders, Places, HeldByTask, HeldByHandler, HeldByDict, AtHold
(* The user's yes: from the prompt to the handler. *)
LEMMA TrustYesKeeps ==
  ASSUME IInv, Owned, NoBrowser, NEW c \in Chats, TrustYes(c)
  PROVE  Kept
<1> PICK k \in Conn : k = pending[c]
  BY TypesApart DEF IInv, TrustYes
<1>1. /\ Conn = Task /\ None \notin Conn /\ c \in Proc /\ Chats \subseteq Proc
      /\ proc[c].pc = "idle" /\ proc \in [Proc -> ProcRecord]
      /\ pending \in [Chats -> Conn \cup {None}]
  BY TypesApart DEF IInv, Proc, TrustYes, Free
<1>2. /\ UNCHANGED <<active, sftp, conn, task, cancelled>>
      /\ pending' = [pending EXCEPT ![c] = None]
      /\ proc' = [proc EXCEPT ![c].pc = "trusting", ![c].seen = k]
  BY DEF TrustYes, PendingAfterYes, terminalVars, connectVars
<1>3. /\ pending[c] = k /\ pending'[c] = None
      /\ \A d \in Chats \ {c} : pending'[d] = pending[d] /\ proc'[d] = proc[d]
      /\ proc'[c].pc = "trusting" /\ proc'[c].seen = k
  BY <1>1, <1>2 DEF ProcRecord
<1>4. NotYet' /\ Known'
  BY <1>1, <1>2, <1>3 DEF Owned, NotYet, Known
<1> DEFINE h == <<"pending", c>>
           g == <<"handler", c>>
<1>5. h \in Holders(k) /\ g \in Holders(k)'
  BY <1>1, <1>3, HoldersAre
<1>6. \A j \in Conn : Holders(j)' \subseteq (Holders(j) \ {h}) \cup {g}
  <2> SUFFICES ASSUME NEW j \in Conn, NEW a, a \in Holders(j)', a # g
               PROVE  a \in Holders(j) \ {h}
    BY <1>1 DEF Conn
  <2>1. a \in Holders(j)
    BY <1>1, <1>2, <1>3, HoldersAre
  <2>2. a # h
    BY <1>1, <1>3, HoldersAre
  <2> QED
    BY <2>1, <2>2
<1>7. \A j \in Conn \ {k} : g \notin Holders(j)' /\ h \notin Holders(j)
  BY <1>3, HoldersAre
<1>8. Alone'
  BY <1>1, <1>2, <1>5, <1>6, <1>7, HandOver DEF Owned
<1>9. NotLost
  <2>1. \A j \in Conn : \A a \in Holders(j) \ {h} : a \in Holders(j)'
    <3> SUFFICES ASSUME NEW j \in Conn, NEW a, a \in Holders(j), a # h
                 PROVE  a \in Holders(j)'
      OBVIOUS
    <3> QED
      BY <1>1, <1>2, <1>3, HoldersAre
  <2> QED
    BY <1>1, <1>5, <1>7, <2>1, HandedOver
<1>10. NoBrowser'
  <2> SUFFICES ASSUME NEW d \in Chats, Reason(d)'
               PROVE  sftp[d] = None
    BY <1>2 DEF NoBrowser
  <2>1. Reason(d)
    BY <1>1, <1>2, <1>3 DEF Reason
  <2> QED
    BY <2>1 DEF NoBrowser
<1> QED
  BY <1>4, <1>8, <1>9, <1>10 DEF Kept, Owned
(* From the handler to its new task. *)
LEMMA TrustedKeeps ==
  ASSUME IInv, Owned, NoBrowser, NEW c \in Chats, Trusted(c)
  PROVE  Kept
<1> PICK k \in Conn : k = proc[c].seen
  BY TypesApart DEF IInv, Books, ProcsMakeSense, Proc, ProcRecord, Trusted
<1>1. PICK t \in Unused : /\ StartTask(c, task[k].act, k, "ready", t)
                          /\ connecting' = [connecting EXCEPT ![c] = t]
  BY DEF Trusted
<1>2. /\ Conn = Task /\ None \notin Conn /\ c \in Proc /\ Chats \subseteq Proc
      /\ proc[c].pc = "trusting" /\ proc \in [Proc -> ProcRecord]
      /\ t \in Task /\ task[t].pc = "none" /\ task \in [Task -> TaskRecord]
  BY TypesApart DEF IInv, Books, ProcsMakeSense, Proc, ProcRecord, Trusted, Unused
<1>3. /\ UNCHANGED <<active, pending, sftp, conn, cancelled>> /\ Rests(c)
  BY DEF Trusted, terminalVars
<1>4. /\ proc[c].seen = k /\ proc'[c].pc = "idle"
      /\ \A d \in Chats \ {c} : proc'[d] = proc[d]
      /\ task'[t].pc = "ready" /\ task'[t].chat = c /\ task'[t].conn = k
      /\ \A u \in Task \ {t} : task'[u] = task[u]
  BY <1>1, <1>2, <1>3 DEF Rests, AtRest, StartTask
<1>5. NotYet' /\ Known'
  BY <1>2, <1>3, <1>4 DEF Owned, NotYet, Known
<1> DEFINE h == <<"handler", c>>
           g == <<"task", t>>
<1>6. h \in Holders(k) /\ g \in Holders(k)'
  BY <1>2, <1>4, HoldersAre DEF AtHold
<1>7. \A j \in Conn : Holders(j)' \subseteq (Holders(j) \ {h}) \cup {g}
  <2> SUFFICES ASSUME NEW j \in Conn, NEW a, a \in Holders(j)', a # g
               PROVE  a \in Holders(j) \ {h}
    BY <1>2 DEF Conn
  <2>1. a \in Holders(j)
    BY <1>2, <1>3, <1>4, HoldersAre
  <2>2. a # h
    BY <1>2, <1>4, HoldersAre
  <2> QED
    BY <2>1, <2>2
<1>8. \A j \in Conn \ {k} : g \notin Holders(j)' /\ h \notin Holders(j)
  BY <1>2, <1>4, HoldersAre
<1>9. Alone'
  BY <1>2, <1>3, <1>6, <1>7, <1>8, HandOver DEF Owned
<1>10. NotLost
  <2>1. \A j \in Conn : \A a \in Holders(j) \ {h} : a \in Holders(j)'
    <3> SUFFICES ASSUME NEW j \in Conn, NEW a, a \in Holders(j), a # h
                 PROVE  a \in Holders(j)'
      OBVIOUS
    <3> QED
      BY <1>2, <1>3, <1>4, HoldersAre DEF AtHold
  <2> QED
    BY <1>2, <1>6, <1>8, <2>1, HandedOver
<1>11. NoBrowser'
  <2> SUFFICES ASSUME NEW d \in Chats, Reason(d)'
               PROVE  sftp[d] = None
    BY <1>3 DEF NoBrowser
  <2>1. Reason(d)
    BY <1>2, <1>3, <1>4 DEF Reason
  <2> QED
    BY <2>1 DEF NoBrowser
<1> QED
  BY <1>5, <1>9, <1>10, <1>11 DEF Kept, Owned

(* From the task to the terminal, or to the file browser.  A terminal may  *)
(* be registered over another one, a browser never is.                     *)
LEMMA LaunchKeeps ==
  ASSUME IInv, Owned, NoBrowser, NEW t \in Task, TerminalOpened(t) \/ BrowserStarted(t)
  PROVE  Kept
<1> PICK k \in Conn : k = task[t].conn
  BY TypesApart
     DEF IInv, TaskRecord, TerminalOpened, BrowserStarted, Runs, Owned, Known, AtHold
<1> PICK c \in Chats : c = task[t].chat
  BY TaskAtWork DEF TerminalOpened, BrowserStarted, Runs, Started
<1>1. /\ Conn = Task /\ None \notin Conn
      /\ task \in [Task -> TaskRecord] /\ t \notin cancelled
      /\ task[t].pc \in {"opening", "browsing"}
      /\ active \in [Chats -> Conn \cup {None}] /\ sftp \in [Chats -> Conn \cup {None}]
  BY TaskAtWork, TypesApart
     DEF IInv, TerminalTypes, TerminalOpened, BrowserStarted, Runs, Started, Owned, Known,
         AtHold
<1>2. connecting[c] = t /\ \A u \in Task \ cancelled : task[u].chat = c /\ task[u].pc \in BeforeBrowser => u = t
  BY <1>1 DEF IInv, Books, CancelReaches, BeforeBrowser, InDispatch
<1>3. /\ UNCHANGED <<pending, conn, cancelled, proc>>
      /\ \/ /\ active' = [active EXCEPT ![c] = k] /\ sftp' = sftp
            /\ task' = [task EXCEPT ![t].pc = "drawing"]
         \/ /\ sftp' = [sftp EXCEPT ![c] = k] /\ active' = active
            /\ task' = [task EXCEPT ![t].pc = "listing"]
  BY DEF TerminalOpened, BrowserStarted, TaskGoes, connectVars, terminalVars
<1>4. sftp[c] = None
  BY <1>1 DEF NoBrowser, Reason, BeforeBrowser
<1>5. /\ task[t].conn = k /\ task[t].chat = c /\ task'[t].pc \notin AtHold
      /\ task'[t].pc \notin {"none", "connecting"}
      /\ \A u \in Task : /\ task'[u].conn = task[u].conn /\ task'[u].chat = task[u].chat
                         /\ u # t => task'[u].pc = task[u].pc
  BY <1>1, <1>3 DEF TaskRecord, AtHold
<1>6. /\ \A d \in Chats \ {c} : active'[d] = active[d] /\ sftp'[d] = sftp[d]
      /\ \/ active'[c] = k /\ sftp'[c] = sftp[c]
         \/ active'[c] = active[c] /\ sftp'[c] = k /\ task'[t].pc = "listing"
  BY <1>1, <1>3 DEF TaskRecord
<1>7. NotYet' /\ Known'
  BY <1>1, <1>3, <1>5, <1>6 DEF Owned, NotYet, Known
<1> DEFINE h == <<"task", t>>
<1>8. PICK g : /\ \/ g = <<"active", c>> /\ active'[c] = k /\ sftp'[c] = sftp[c]
                  \/ g = <<"sftp", c>> /\ active'[c] = active[c] /\ sftp'[c] = k
  BY <1>6
<1>9. h \in Holders(k) /\ g \in Holders(k)'
  BY <1>1, <1>5, <1>8, HoldersAre DEF AtHold
<1>10. \A j \in Conn : Holders(j)' \subseteq (Holders(j) \ {h}) \cup {g}
  <2> SUFFICES ASSUME NEW j \in Conn, NEW a, a \in Holders(j)', a # g
               PROVE  a \in Holders(j) \ {h}
    BY <1>1 DEF Conn
  <2>1. a \in Holders(j)
    BY <1>1, <1>3, <1>5, <1>6, <1>8, HoldersAre
  <2>2. a # h
    BY <1>1, <1>5, HoldersAre
  <2> QED
    BY <2>1, <2>2
<1>11. \A j \in Conn \ {k} : g \notin Holders(j)' /\ h \notin Holders(j)
  BY <1>5, <1>8, HoldersAre
<1>12. Alone'
  BY <1>1, <1>3, <1>9, <1>10, <1>11, HandOver DEF Owned
<1>13. NotLost
  <2>1. \A j \in Conn : \A a \in Holders(j) \ {h} :
          \/ a \in Holders(j)'
          \/ \E d \in Chats : active[d] = j /\ active'[d] \notin {j, None}
    <3> SUFFICES ASSUME NEW j \in Conn, NEW a, a \in Holders(j), a # h,
                        ~ \E d \in Chats : active[d] = j /\ active'[d] \notin {j, None}
                 PROVE  a \in Holders(j)'
      OBVIOUS
    <3>1. \A d \in Chats : active[d] = j => active'[d] = j
      BY <1>1, <1>6
    <3> QED
      BY <1>1, <1>3, <1>4, <1>5, <1>6, <3>1, HoldersAre
  <2> QED
    BY <1>1, <1>9, <1>11, <2>1, HandedOver
<1>14. NoBrowser'
  <2> SUFFICES ASSUME NEW d \in Chats, Reason(d)'
               PROVE  sftp'[d] = None
    BY DEF NoBrowser
  <2>1. Reason(d)
    <3>1. \A u \in Task : task'[u].pc \in BeforeBrowser => task[u].pc \in BeforeBrowser
      BY <1>1, <1>5 DEF BeforeBrowser
    <3> QED
      BY <1>3, <1>5, <3>1 DEF Reason
  <2>2. CASE d # c \/ sftp'[c] = sftp[c]
    BY <1>6, <2>1, <2>2 DEF NoBrowser
  <2>3. CASE d = c /\ task'[t].pc = "listing"
    <3>1. ~ \E u \in Task \ cancelled : task[u].chat = c /\ task'[u].pc \in BeforeBrowser
      BY <1>2, <1>5, <2>3 DEF BeforeBrowser
    <3>2. pending[c] = None /\ proc[c].pc # "trusting" /\ ~(proc[c].pc = "reset3" /\ proc[c].op = "connect")
      BY <1>1, <1>2, TypesApart DEF IInv, Books, Unclaimed, Resetting
    <3> QED
      BY <1>3, <1>5, <2>3, <3>1, <3>2 DEF Reason
  <2> QED
    BY <1>6, <2>2, <2>3
<1> QED
  BY <1>7, <1>12, <1>13, <1>14 DEF Kept, Owned
-----------------------------------------------------------------------------
(* Steps that open a connection: nobody holds it before.                   *)

LEMMA Unheld ==
  ASSUME IInv, Owned, NEW k \in Conn, conn[k] = "none"
  PROVE  Holders(k) = {}
<1> SUFFICES ASSUME NEW a \in Holders(k)
             PROVE  FALSE
  OBVIOUS
<1>1. None \notin Conn
  BY TypesApart DEF IInv
<1> QED
  BY <1>1, HoldersAre DEF Owned, Known

LEMMA Opens ==
  ASSUME IInv, Owned, NEW t \in Conn, conn[t] = "none",
         conn' = [conn EXCEPT ![t] = "open"], NEW g,
         \A j \in Conn : Holders(j)' \subseteq Holders(j) \cup {g},
         \A j \in Conn \ {t} : g \notin Holders(j)' /\ Holders(j) \subseteq Holders(j)'
  PROVE  Alone' /\ NotLost
<1>1. /\ Holders(t) = {}
      /\ \A j \in Conn : conn'[j] = IF j = t THEN "open" ELSE conn[j]
  BY Unheld, TypesApart DEF IInv, ConnType
<1>2. Alone'
  <2> SUFFICES ASSUME NEW j \in Conn, conn'[j] = "open",
                      NEW a \in Holders(j)', NEW b \in Holders(j)'
               PROVE  a = b
    BY DEF Alone, Conn
  <2>1. CASE j = t
    BY <1>1, <2>1
  <2>2. CASE j # t
    BY <1>1, <2>2 DEF Owned, Alone
  <2> QED
    BY <2>1, <2>2
<1>3. NotLost
  <2> SUFFICES ASSUME NEW j \in Conn, NEW a \in Holders(j), conn[j] = "open"
               PROVE  (Holders(j) # {})'
    BY DEF NotLost
  <2>1. j # t
    OBVIOUS
  <2> QED
    BY <2>1
<1> QED
  BY <1>2, <1>3

LEMMA ConnectTrustedKeeps ==
  ASSUME IInv, Owned, NoBrowser, NEW t \in Task, ConnectTrusted(t)
  PROVE  Kept
<1>1. /\ Conn = Task /\ None \notin Conn /\ conn[t] = "none" /\ task[t].pc = "connecting"
      /\ task \in [Task -> TaskRecord] /\ conn \in [Conn -> {"none", "open", "closed"}]
      /\ FirstStep(task[t].act) \in {"opening", "browsing", "measuring"}
  BY TypesApart, TaskAtWork
     DEF IInv, ConnType, ConnectTrusted, Runs, Owned, NotYet, Started, FirstStep
<1>2. /\ UNCHANGED <<active, pending, sftp, cancelled, proc>>
      /\ conn' = [conn EXCEPT ![t] = "open"]
      /\ task' = [task EXCEPT ![t].conn = t, ![t].pc = FirstStep(task[t].act)]
  BY DEF ConnectTrusted, terminalVars, connectVars
<1>3. /\ task'[t].conn = t /\ task'[t].pc \in {"opening", "browsing", "measuring"}
      /\ \A u \in Task : /\ task'[u].chat = task[u].chat
                         /\ u # t => task'[u].pc = task[u].pc /\ task'[u].conn = task[u].conn
      /\ \A j \in Conn : conn'[j] = IF j = t THEN "open" ELSE conn[j]
  BY <1>1, <1>2 DEF TaskRecord
<1>4. NotYet' /\ Known'
  BY <1>1, <1>2, <1>3, TypesApart
     DEF Owned, NotYet, Known, IInv, TaskRecord, TerminalTypes, Books, ProcsMakeSense,
         ProcRecord, Proc
<1> DEFINE g == <<"task", t>>
<1>5. \A j \in Conn : Holders(j)' \subseteq Holders(j) \cup {g}
  <2> SUFFICES ASSUME NEW j \in Conn, NEW a, a \in Holders(j)', a # g
               PROVE  a \in Holders(j)
    BY DEF Conn
  <2> QED
    BY <1>1, <1>2, <1>3, HoldersAre
<1>6. \A j \in Conn \ {t} : g \notin Holders(j)' /\ Holders(j) \subseteq Holders(j)'
  <2> SUFFICES ASSUME NEW j \in Conn \ {t}
               PROVE  g \notin Holders(j)' /\ Holders(j) \subseteq Holders(j)'
    BY DEF Conn
  <2>1. g \notin Holders(j)'
    BY <1>3, HoldersAre
  <2>2. ASSUME NEW a, a \in Holders(j)
        PROVE  a \in Holders(j)'
    BY <1>1, <1>2, <1>3, <2>2, HoldersAre DEF AtHold
  <2> QED
    BY <2>1, <2>2
<1>7. Alone' /\ NotLost
  <2>1. t \in Conn /\ conn[t] = "none" /\ conn' = [conn EXCEPT ![t] = "open"]
    BY <1>1, <1>2
  <2> HIDE DEF g
  <2> QED
    BY <1>5, <1>6, <2>1, Opens
<1>8. NoBrowser'
  <2> SUFFICES ASSUME NEW d \in Chats, Reason(d)'
               PROVE  sftp[d] = None
    BY <1>2 DEF NoBrowser
  <2>1. Reason(d)
    BY <1>1, <1>2, <1>3 DEF Reason, BeforeBrowser
  <2> QED
    BY <2>1 DEF NoBrowser
<1> QED
  BY <1>4, <1>7, <1>8 DEF Kept, Owned

LEMMA ConnectUntrustedKeeps ==
  ASSUME IInv, Owned, NoBrowser, NEW t \in Task, ConnectUntrusted(t)
  PROVE  Kept
<1> PICK c \in Chats : c = task[t].chat
  BY TaskAtWork DEF ConnectUntrusted, Runs, Started
<1>1. /\ Conn = Task /\ None \notin Conn /\ conn[t] = "none" /\ task[t].pc = "connecting"
      /\ t \notin cancelled
      /\ task \in [Task -> TaskRecord] /\ conn \in [Conn -> {"none", "open", "closed"}]
      /\ pending \in [Chats -> Conn \cup {None}]
  BY TypesApart DEF IInv, ConnType, ConnectUntrusted, Runs, Owned, NotYet
<1>2. pending[c] = None
  BY <1>1 DEF IInv, Books, CancelReaches, Unclaimed
<1>3. /\ UNCHANGED <<active, sftp, cancelled, proc>>
      /\ conn' = [conn EXCEPT ![t] = "open"]
      /\ pending' = [pending EXCEPT ![c] = t]
      /\ task' = [task EXCEPT ![t].pc = "reporting"]
  BY DEF ConnectUntrusted, TaskGoes, terminalVars, connectVars
<1>4. /\ task'[t].pc = "reporting"
      /\ \A u \in Task : /\ task'[u].chat = task[u].chat /\ task'[u].conn = task[u].conn
                         /\ u # t => task'[u].pc = task[u].pc
      /\ \A j \in Conn : conn'[j] = IF j = t THEN "open" ELSE conn[j]
      /\ pending'[c] = t /\ \A d \in Chats \ {c} : pending'[d] = pending[d]
  BY <1>1, <1>3 DEF TaskRecord
<1>5. NotYet' /\ Known'
  BY <1>1, <1>3, <1>4, TypesApart
     DEF Owned, NotYet, Known, IInv, AtHold, TaskRecord, TerminalTypes, Books,
         ProcsMakeSense, ProcRecord, Proc
<1> DEFINE g == <<"pending", c>>
<1>6. \A j \in Conn : Holders(j)' \subseteq Holders(j) \cup {g}
  <2> SUFFICES ASSUME NEW j \in Conn, NEW a, a \in Holders(j)', a # g
               PROVE  a \in Holders(j)
    BY DEF Conn
  <2> QED
    BY <1>1, <1>3, <1>4, HoldersAre DEF AtHold
<1>7. \A j \in Conn \ {t} : g \notin Holders(j)' /\ Holders(j) \subseteq Holders(j)'
  <2> SUFFICES ASSUME NEW j \in Conn \ {t}
               PROVE  g \notin Holders(j)' /\ Holders(j) \subseteq Holders(j)'
    BY DEF Conn
  <2>1. g \notin Holders(j)'
    BY <1>4, HoldersAre
  <2>2. ASSUME NEW a, a \in Holders(j)
        PROVE  a \in Holders(j)'
    BY <1>1, <1>2, <1>3, <1>4, <2>2, HoldersAre DEF AtHold
  <2> QED
    BY <2>1, <2>2
<1>8. Alone' /\ NotLost
  <2>1. t \in Conn /\ conn[t] = "none" /\ conn' = [conn EXCEPT ![t] = "open"]
    BY <1>1, <1>3
  <2> HIDE DEF g
  <2> QED
    BY <1>6, <1>7, <2>1, Opens
<1>9. NoBrowser'
  <2> SUFFICES ASSUME NEW d \in Chats, Reason(d)'
               PROVE  sftp[d] = None
    BY <1>3 DEF NoBrowser
  <2>1. Reason(d)
    BY <1>1, <1>3, <1>4 DEF Reason, BeforeBrowser
  <2> QED
    BY <2>1 DEF NoBrowser
<1> QED
  BY <1>5, <1>8, <1>9 DEF Kept, Owned
-----------------------------------------------------------------------------
(* reset_chat. *)

LEMMA ResetKeeps ==
  ASSUME IInv, Owned, NoBrowser, NEW p \in Proc, NEW c \in Chats, NEW op, NEW from,
         p \in {c, Admin}, op = "connect" => p = c,
         from = 3 /\ op = "connect" => sftp[c] = None,
         from \in {1, 2, 3}, ResetChat(p, c, op, from)
  PROVE  Kept
<1>1. /\ proc \in [Proc -> ProcRecord] /\ task \in [Task -> TaskRecord] /\ Admin \notin Chats
      /\ None \notin Conn /\ sftp \in [Chats -> Conn \cup {None}] /\ Chats \subseteq Proc
  BY TypesApart, SessionsAssumption DEF IInv, Proc
<1>2. cancelled \subseteq cancelled'
  BY DEF ResetChat, AfterReset, CancelConnecting, ReplaceConnecting, connectVars
<1>3. CASE /\ DiscardPendingTrust(c)
           /\ proc' = [proc EXCEPT ![p].pc = "reset2", ![p].chat = c, ![p].op = op]
           /\ UNCHANGED <<terminalVars, sftp, task>>
  <2>1. /\ \A q \in Proc \ {p} : proc'[q] = proc[q]
        /\ proc'[p].pc = "reset2"
    BY <1>1, <1>3 DEF ProcRecord
  <2>2. Steady
    BY <1>1, <2>1 DEF Steady
  <2> QED
    BY <1>2, <1>3, <2>2, ClosesOne, TasklessStep DEF terminalVars
<1>4. CASE /\ CloseSftp(c)
           /\ proc' = [proc EXCEPT ![p].pc = "reset3", ![p].chat = c, ![p].op = op]
           /\ UNCHANGED <<terminalVars, pending, task>>
  <2>1. /\ \A q \in Proc \ {p} : proc'[q] = proc[q]
        /\ proc'[p].pc = "reset3"
    BY <1>1, <1>4 DEF ProcRecord
  <2>2. \A d \in Chats \ {c} : proc'[d] = proc[d]
    BY <1>1, <2>1
  <2>3. PICK k \in Conn \cup {None} : DictsLet(k)
    BY <1>4, ClosesOne DEF terminalVars
  <2>4. TasksLet(k)
    BY <1>4 DEF TasksLet
  <2>5. ProcsLet
    BY <1>1, <2>1 DEF ProcsLet
  <2>6. Owned' /\ NotLost
    BY <2>3, <2>4, <2>5, LetsStep DEF Lets
  <2>7. sftp'[c] = None /\ \A d \in Chats \ {c} : sftp'[d] = sftp[d] /\ pending'[d] = pending[d]
    BY <1>1, <1>4 DEF CloseSftp
  <2>8. NoBrowser'
    BY <1>2, <1>4, <2>2, <2>7 DEF NoBrowser, Reason
  <2> QED
    BY <2>6, <2>8 DEF Kept
<1>5. CASE AfterReset(p, c, op, from) /\ UNCHANGED <<pending, sftp>> /\ (from <= 2 => sftp[c] = None)
  <2>1. Steady /\ (Rests(p) /\ UNCHANGED <<pending, sftp>>)
    BY <1>5, ProcSteady DEF AfterReset
  <2>2. CASE op = "connect"
    <3>1. PICK t \in Unused :
            /\ StartTask(c, proc[p].act, None, "connecting", t)
            /\ UNCHANGED <<active, conn>>
      BY <1>5, <2>2 DEF AfterReset, terminalVars
    <3>2. /\ t \in Task /\ task[t].pc = "none"
          /\ task'[t].pc = "connecting" /\ task'[t].chat = c /\ task'[t].conn = None
          /\ \A u \in Task \ {t} : task'[u] = task[u]
      BY <1>1, <3>1 DEF Unused, StartTask
    <3>3. PICK k \in Conn \cup {None} : DictsLet(k)
      BY <2>1, <3>1, ClosesOne
    <3>4. TasksLet(k) /\ ProcsLet
      BY <2>1, <3>2 DEF TasksLet, ProcsLet, Steady, AtHold
    <3>5. Owned' /\ NotLost
      BY <3>3, <3>4, LetsStep DEF Lets
    <3>6. sftp[c] = None
      BY <1>5, <2>2
    <3>7. NoBrowser'
      <4> SUFFICES ASSUME NEW d \in Chats \ {c}, Reason(d)'
                   PROVE  Reason(d)
        BY <2>1, <3>6 DEF NoBrowser
      <4> QED
        BY <1>2, <2>1, <3>2 DEF Reason, Steady
    <3> QED
      BY <3>5, <3>7 DEF Kept
  <2>3. CASE op # "connect"
    <3>1. /\ UNCHANGED task
          /\ \/ (\E self : CloseSession(c, self)) /\ UNCHANGED <<pending, sftp>>
             \/ UNCHANGED <<active, pending, sftp, conn>>
      BY <1>5, <2>1, <2>3 DEF AfterReset, terminalVars
    <3> QED
      BY <1>2, <2>1, <3>1, ClosesOne, TasklessStep
  <2> QED
    BY <2>2, <2>3
<1> QED
  BY <1>3, <1>4, <1>5 DEF ResetChat

LEMMA ResetsKeep ==
  ASSUME IInv, Owned, NoBrowser,
         \/ \E c \in Chats : Proceed(c) \/ ResetCommand(c) \/ ResetResumes(c)
         \/ BanCloses \/ ResetResumes(Admin)
  PROVE  Kept
<1>1. Admin \in Proc /\ Admin \in Staff /\ Chats \subseteq Proc /\ ProcsMakeSense
  BY DEF Staff, Proc, IInv, Books
<1>2. ASSUME NEW c \in Chats, Proceed(c) \/ ResetCommand(c)
      PROVE  Kept
  BY <1>1, <1>2, ResetKeeps DEF Proceed, ResetCommand
<1>3. ASSUME NEW c \in Chats, ResetResumes(c)
      PROVE  Kept
  <2>1. PICK from \in {2, 3} :
          ResetChat(c, c, proc[c].op, from) /\ proc[c].pc = (IF from = 2 THEN "reset2" ELSE "reset3")
    BY <1>1, <1>3 DEF ResetResumes, ProcsMakeSense, Resetting
  <2>2. from = 3 /\ proc[c].op = "connect" => sftp[c] = None
    BY <2>1 DEF NoBrowser, Reason
  <2> QED
    BY <1>1, <2>1, <2>2, ResetKeeps
<1>4. CASE BanCloses
  BY <1>1, <1>4, ResetKeeps DEF BanCloses, ProcsMakeSense, AboutAChat
<1>5. CASE ResetResumes(Admin)
  <2>1. proc[Admin].op # "connect" /\ proc[Admin].chat \in Chats
    BY <1>1, <1>5 DEF ResetResumes, ProcsMakeSense, AboutAChat, Resetting
  <2> QED
    BY <1>1, <1>5, <2>1, ResetKeeps DEF ResetResumes
<1> QED
  BY <1>2, <1>3, <1>4, <1>5
-----------------------------------------------------------------------------
(* From holders to Owners.                                                 *)

LEMMA AtMostOne ==
  ASSUME NEW S, \A x, y \in S : x = y
  PROVE  Cardinality(S) \in {0, 1} /\ (Cardinality(S) = 0 <=> S = {})
<1>1. CASE S = {}
  BY <1>1, FS_EmptySet
<1>2. CASE S # {}
  <2>1. PICK x \in S : S = {x}
    BY <1>2
  <2> QED
    BY <2>1, FS_Singleton
<1> QED
  BY <1>1, <1>2

LEMMA Counting ==
  ASSUME NEW S, NEW T, NEW U, NEW V, NEW W,
         \A h, g \in Places(S, T, U, V, W) : h = g
  PROVE  /\ Cardinality(S) + Cardinality(T) + Cardinality(U) + Cardinality(V)
              + Cardinality(W) \in {0, 1}
         /\ Cardinality(S) + Cardinality(T) + Cardinality(U) + Cardinality(V)
              + Cardinality(W) = 0 <=> Places(S, T, U, V, W) = {}
<1> DEFINE H == Places(S, T, U, V, W)
<1>1. \A h : h \in H <=> \/ \E x \in S : h = <<"task", x>>
                         \/ \E x \in T : h = <<"handler", x>>
                         \/ \E x \in U : h = <<"active", x>>
                         \/ \E x \in V : h = <<"pending", x>>
                         \/ \E x \in W : h = <<"sftp", x>>
  BY DEF Places
<1>2. /\ \A x \in S : <<"task", x>> \in H
      /\ \A x \in T : <<"handler", x>> \in H
      /\ \A x \in U : <<"active", x>> \in H
      /\ \A x \in V : <<"pending", x>> \in H
      /\ \A x \in W : <<"sftp", x>> \in H
  BY <1>1
<1>3. ASSUME NEW a, NEW X, \A x \in X : <<a, x>> \in H
      PROVE  \A x, y \in X : x = y
  <2> SUFFICES ASSUME NEW x \in X, NEW y \in X
               PROVE  x = y
    OBVIOUS
  <2>1. <<a, x>> = <<a, y>>
    BY <1>3
  <2> QED
    BY <2>1
<1>4. /\ S = {} \/ (T = {} /\ U = {} /\ V = {} /\ W = {})
      /\ T = {} \/ (U = {} /\ V = {} /\ W = {})
      /\ U = {} \/ (V = {} /\ W = {})
      /\ V = {} \/ W = {}
  <2>1. \A a, b, x, y : a # b => <<a, x>> # <<b, y>>
    OBVIOUS
  <2>2. ASSUME NEW a, NEW b, a # b, NEW X, NEW Y,
               \A x \in X : <<a, x>> \in H, \A y \in Y : <<b, y>> \in H
        PROVE  X = {} \/ Y = {}
    <3> SUFFICES ASSUME NEW x \in X, NEW y \in Y
                 PROVE  FALSE
      OBVIOUS
    <3>1. <<a, x>> = <<b, y>>
      BY <2>2
    <3> QED
      BY <2>1, <2>2, <3>1
  <2> QED
    BY <1>2, <2>2
<1>5. H = {} <=> S = {} /\ T = {} /\ U = {} /\ V = {} /\ W = {}
  <2>1. H = {} => S = {} /\ T = {} /\ U = {} /\ V = {} /\ W = {}
    BY <1>2
  <2>2. S = {} /\ T = {} /\ U = {} /\ V = {} /\ W = {} => H = {}
    BY <1>1
  <2> QED
    BY <2>1, <2>2
<1>6. /\ Cardinality(S) \in {0, 1} /\ (Cardinality(S) = 0 <=> S = {})
       /\ Cardinality(T) \in {0, 1} /\ (Cardinality(T) = 0 <=> T = {})
       /\ Cardinality(U) \in {0, 1} /\ (Cardinality(U) = 0 <=> U = {})
       /\ Cardinality(V) \in {0, 1} /\ (Cardinality(V) = 0 <=> V = {})
       /\ Cardinality(W) \in {0, 1} /\ (Cardinality(W) = 0 <=> W = {})
  BY <1>2, <1>3, AtMostOne
<1> QED
  BY <1>4, <1>5, <1>6

LEMMA OwnersAreHolders ==
  ASSUME NEW k
  PROVE  /\ (\A h, g \in Holders(k) : h = g)
              => Owners(k) \in {0, 1} /\ (Owners(k) = 0 <=> Holders(k) = {})
         /\ (\A h, g \in Holders(k)' : h = g)
              => Owners(k)' \in {0, 1} /\ (Owners(k)' = 0 <=> Holders(k)' = {})
<1>1. ASSUME \A h, g \in Holders(k) : h = g
      PROVE  Owners(k) \in {0, 1} /\ (Owners(k) = 0 <=> Holders(k) = {})
  BY <1>1, Counting DEF Holders, Owners
<1>2. ASSUME \A h, g \in Holders(k)' : h = g
      PROVE  Owners(k)' \in {0, 1} /\ (Owners(k)' = 0 <=> Holders(k)' = {})
  BY <1>2, Counting DEF Holders, Owners
<1> QED
  BY <1>1, <1>2

-----------------------------------------------------------------------------
LEMMA OwnedInitially == Init => Owned /\ NoBrowser
<1> SUFFICES ASSUME Init
             PROVE  Owned /\ NoBrowser
  OBVIOUS
<1>1. NotYet /\ Known
  BY DEF Init, RegistryInit, NotYet, Known, AtHold, Proc, AtRest, Conn, Task
<1>2. Alone
  BY DEF Init, RegistryInit, Alone
<1>3. NoBrowser
  BY DEF Init, RegistryInit, NoBrowser
<1> QED
  BY <1>1, <1>2, <1>3 DEF Owned

LEMMA OwnedStep == IInv /\ Owned /\ NoBrowser /\ [Next]_vars => Kept
<1> SUFFICES ASSUME IInv, Owned, NoBrowser, [Next]_vars
             PROVE  Kept
  OBVIOUS
<1>1. CASE \E c \in Chats : HandlerStarts(c)
  BY <1>1, ClosingHandlers, QuietHandlers, ResetsKeep, TrustYesKeeps DEF HandlerStarts
<1>2. CASE \E c \in Chats : HandlerResumes(c)
  BY <1>2, ClosingHandlers, QuietHandlers, ResetsKeep, TrustedKeeps DEF HandlerResumes
<1>3. CASE \E t \in Task : TaskStep(t)
  BY <1>3, TasksKeep, LaunchKeeps, ConnectTrustedKeeps, ConnectUntrustedKeeps DEF TaskStep
<1>4. CASE (\E t \in Task : LoopStep(t) \/ LoopCrashes(t)) \/ Environment
  BY <1>4, LoopsAndWorldKeep
<1>5. CASE \/ \E p \in Staff : StaffResumes(p)
           \/ \E p \in Staff, c \in Chats, w \in StaffWork :
                LookAt(p, c, w) \/ LookAtSftp(p, c, w)
           \/ \E c \in Chats : Ban(c)
  BY <1>5, StaffKeeps DEF Staff
<1>6. CASE AdminResumes \/ Restore
  BY <1>6, ResetsKeep, CloseAllKeeps, StaffKeeps DEF AdminResumes, Staff
<1>7. CASE UNCHANGED vars
  <2>1. UNCHANGED <<active, pending, sftp, conn, task, proc, cancelled>>
    BY <1>7 DEF vars, registryVars, sessionVars, dicts, objects
  <2> QED
    BY <2>1, ClosesOne, ProcSteady, TasklessStep
<1> QED
  BY <1>1, <1>2, <1>3, <1>4, <1>5, <1>6, <1>7 DEF Next

(* What refers to a connection refers to one that was opened, and an open  *)
(* one is in one place at most; no file browser is open where a task may   *)
(* start one.                                                              *)
THEOREM OwnershipInvariant == Spec => [](IInv /\ Owned /\ NoBrowser)
<1>1. IInv /\ Owned /\ NoBrowser /\ [Next]_vars => (IInv /\ Owned /\ NoBrowser)'
  BY NextStep, OwnedStep DEF Kept
<1> QED
  BY <1>1, InitHolds, OwnedInitially, PTL DEF Spec

(* An open connection is never in the hands of two of: a task, a handler   *)
(* that stores its key, active_sessions, pending_trust and sftp_state      *)
(* (registry.py:24-29, terminal.py:109-120, 154-164), for any number of    *)
(* chats, tasks and sweeps.                                                *)
THEOREM AlwaysOneOwner == Spec => []OneOwner
<1>1. Owned => OneOwner
  BY OwnersAreHolders DEF Owned, Alone, OneOwner
<1> QED
  BY <1>1, OwnershipInvariant, PTL

(* A connection that stays open loses its last owner only in the three     *)
(* places that LostInKnownPlaces names: every other step that takes one    *)
(* out of a dictionary or ends a task closes it or hands it on             *)
(* (registry.py:31-94, terminal.py:97-142, 154-164, 186).                  *)
THEOREM AlwaysLostInKnownPlaces == Spec => LostInKnownPlaces
<1> DEFINE Here ==
      \A k \in Conn :
        conn[k] = "open" /\ Owners(k) = 1 /\ conn'[k] = "open" /\ Owners(k)' = 0
          => \/ \E c \in Chats : active[c] = k /\ active'[c] \notin {k, None}
             \/ \E t \in cancelled : task[t].conn = k /\ task[t].pc = "ready"
             \/ \E c \in Chats : proc[c].pc = "trusting" /\ proc[c].seen = k
<1>1. IInv /\ Owned /\ NoBrowser /\ [Next]_vars => [Here]_vars
  <2> SUFFICES ASSUME IInv, Owned, NoBrowser, [Next]_vars,
                      NEW k \in Conn,
                      conn[k] = "open", Owners(k) = 1, conn'[k] = "open", Owners(k)' = 0
               PROVE  \/ \E c \in Chats : active[c] = k /\ active'[c] \notin {k, None}
                      \/ \E t \in cancelled : task[t].conn = k /\ task[t].pc = "ready"
                      \/ \E c \in Chats : proc[c].pc = "trusting" /\ proc[c].seen = k
    BY DEF Conn
  <2>1. Owned' /\ NotLost
    BY OwnedStep DEF Kept
  <2>2. Holders(k) # {} /\ Holders(k)' = {}
    BY <2>1, OwnersAreHolders DEF Owned, Alone, Conn
  <2> QED
    BY <2>1, <2>2 DEF NotLost
<1> QED
  BY <1>1, OwnershipInvariant, PTL DEF Spec, LostInKnownPlaces

==============================================================================
