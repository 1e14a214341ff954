------------------------------ MODULE Sessions ------------------------------
(***************************************************************************)
(* The life of SSH connections: connect, confirm the host key, terminal,   *)
(* file browser, close (handlers/terminal.py, core/registry.py, and the    *)
(* parts of sftp.py, tools.py, start.py, admin.py and housekeeping.py that *)
(* open or close something).                                               *)
(*                                                                         *)
(* Coroutines that interleave at their awaits:                             *)
(*   - per chat, the handler of its current update (one at a time: module  *)
(*     OrderedProcessor), process c;                                       *)
(*   - connect tasks, started in the background so that the user can       *)
(*     cancel: _run_action and _dispatch_pending;                          *)
(*   - render loops, one started by every terminal that is launched;       *)
(*   - housekeeping's loop, process Housekeeping;                          *)
(*   - a handler of the administrator's chat that acts on other chats,     *)
(*     process Admin.                                                      *)
(* Consecutive awaits between which the code touches none of the state     *)
(* below are one suspension here.  Chats are not the administrator's own,  *)
(* which housekeeping leaves alone.                                        *)
(***************************************************************************)
EXTENDS Registry

CONSTANTS Housekeeping, Admin,
          MaxLive,      \* db.get_max_live(): the cap on live terminals
          Actions,      \* what users connect for: terminal, sftp, monitor
          StaffWork     \* what Housekeeping and Admin do in this instance

ASSUME SessionsAssumption ==
  /\ Housekeeping # Admin /\ Housekeeping \notin Chats /\ Admin \notin Chats
  /\ MaxLive \in Nat
  /\ Actions \subseteq {"terminal", "sftp", "monitor"}
  /\ StaffWork \subseteq {"idle", "access", "kill", "ban", "restore"}

VARIABLES
  task,     \* connect tasks: where they are, for whom, for what, on what
  lpc,      \* render loops: "none", "sleep", "notice" or "done"
  proc,     \* handlers and staff
  access,   \* chats whose user may use the bot (gate.has_access)
  quiet     \* sessions without input or output for the idle limit

sessionVars == <<task, lpc, proc, access, quiet>>
vars == <<registryVars, sessionVars>>

Staff == {Housekeeping, Admin}
Proc == Chats \cup Staff

(* A coroutine between two updates. *)
AtRest == [pc |-> "idle", chat |-> None, op |-> "none", act |-> "none",
           seen |-> None, count |-> 0, todo |-> {}]

Init ==
  /\ RegistryInit
  /\ task = [t \in Task |->
              [pc |-> "none", chat |-> None, act |-> "none", conn |-> None]]
  /\ lpc = [r \in Loop |-> "none"]
  /\ proc = [p \in Proc |-> AtRest]
  /\ access = Chats
  /\ quiet = {}

----------------------------------------------------------------------------
(* Helpers.                                                                *)

Unused == {t \in Task : task[t].pc = "none"}

(* create_task(...) and connecting[c] = task: the next task, for the       *)
(* connection k it was given, if any.  act is what it connects for.        *)
StartTask(c, act, k, pc, t) ==
  /\ t \in Unused /\ \A u \in Unused : t <= u
  /\ task' = [task EXCEPT ![t] =
                [pc |-> pc, chat |-> c, act |-> act, conn |-> k]]

(* _run_action's and _dispatch_pending's finally (terminal.py:127, 172).   *)
Unregistered(t) ==
  [c \in Chats |-> IF connecting[c] = t THEN None ELSE connecting[c]]

(* len(active_sessions).                                                   *)
LiveCount == Cardinality({c \in Chats : active[c] # None})

Goes(p, pc) == proc' = [proc EXCEPT ![p].pc = pc]
Rests(p) == proc' = [proc EXCEPT ![p] = AtRest]

terminalVars == <<active, live, rtask, sess, loopCancelled>>
connectVars == <<connecting, cancelled>>

----------------------------------------------------------------------------
(* reset_chat (registry.py:77-83), run by coroutine p for chat c.  from    *)
(* says which of its awaits it resumes from; it runs on until it has       *)
(* something to close, which suspends it.  op says what called it.         *)

(* What follows reset_chat: start_action starts the connect task; a ban    *)
(* closes the terminal too (keep_terminal=False); /start, /cancel and the  *)
(* menu are done.                                                          *)
AfterReset(p, c, op, from) ==
  /\ Rests(p)
  /\ CASE op = "connect" ->
            /\ \E t \in Unused :
                 /\ StartTask(c, proc[p].act, None, "connecting", t)
                 /\ IF from = 1
                      THEN ReplaceConnecting(c, t)
                      ELSE /\ connecting' = [connecting EXCEPT ![c] = t]
                           /\ UNCHANGED cancelled
            /\ UNCHANGED <<terminalVars, conn>>
       [] op = "ban" ->
            /\ CloseSession(c, None)
            /\ IF from = 1 THEN CancelConnecting(c) ELSE UNCHANGED connectVars
            /\ UNCHANGED task
       [] OTHER ->
            /\ IF from = 1 THEN CancelConnecting(c) ELSE UNCHANGED connectVars
            /\ UNCHANGED <<terminalVars, conn, task>>

ResetChat(p, c, op, from) ==
  /\ \/ /\ from = 1 /\ pending[c] # None
        /\ CancelConnecting(c)
        /\ DiscardPendingTrust(c)
        /\ proc' = [proc EXCEPT ![p].pc = "reset2", ![p].chat = c, ![p].op = op]
        /\ UNCHANGED <<terminalVars, sftp, task>>
     \/ /\ from = 1 => pending[c] = None
        /\ from <= 2 /\ sftp[c] # None
        /\ IF from = 1 THEN CancelConnecting(c) ELSE UNCHANGED connectVars
        /\ CloseSftp(c)
        /\ proc' = [proc EXCEPT ![p].pc = "reset3", ![p].chat = c, ![p].op = op]
        /\ UNCHANGED <<terminalVars, pending, task>>
     \/ /\ from = 1 => pending[c] = None
        /\ from <= 2 => sftp[c] = None
        /\ AfterReset(p, c, op, from)
        /\ UNCHANGED <<pending, sftp>>
  /\ UNCHANGED <<lpc, access, quiet>>

(* reset_chat goes on after one of its closes. *)
ResetResumes(p) ==
  \/ /\ proc[p].pc = "reset2"
     /\ ResetChat(p, proc[p].chat, proc[p].op, 2)
  \/ /\ proc[p].pc = "reset3"
     /\ ResetChat(p, proc[p].chat, proc[p].op, 3)

----------------------------------------------------------------------------
(* Handlers of a chat's own updates.  gate.pre_check lets an update pass   *)
(* only while the user has access.                                         *)

Free(c) == proc[c].pc = "idle" /\ c \in access

(* start_action, up to its first await (terminal.py:76-89).  A running     *)
(* session stops an unforced connect, which changes nothing; otherwise     *)
(* what is left of a session is closed first.  The number of sessions is   *)
(* read before db.get_max_live() is awaited (line 89).                     *)
ConnectClosing(c, force) ==
  /\ Free(c) /\ Unused # {} /\ "terminal" \in Actions
  /\ active[c] # None
  /\ force \/ sess[active[c]] = "ended"
  /\ CloseSession(c, None)
  /\ proc' = [proc EXCEPT ![c].pc = "measure", ![c].act = "terminal"]
  /\ UNCHANGED <<pending, sftp, connectVars, task, lpc, access, quiet>>

Connect(c, act) ==
  /\ Free(c) /\ Unused # {} /\ act \in Actions
  /\ act = "terminal" => active[c] = None
  /\ proc' = [proc EXCEPT ![c].pc = "waiting", ![c].act = act,
                          ![c].count = IF act = "terminal" THEN LiveCount ELSE 0]
  /\ UNCHANGED <<registryVars, task, lpc, access, quiet>>

Measure(c) ==
  /\ proc[c].pc = "measure"
  /\ proc' = [proc EXCEPT ![c].pc = "waiting", ![c].count = LiveCount]
  /\ UNCHANGED <<registryVars, task, lpc, access, quiet>>

(* terminal.py:89-99: at capacity, an answer that Telegram refuses, or a   *)
(* host that is gone, end the handler; else reset_chat and the task.       *)
AtCapacity(c) == proc[c].act = "terminal" /\ proc[c].count >= MaxLive

Refused(c) ==
  /\ proc[c].pc = "waiting"
  /\ Rests(c)
  /\ UNCHANGED <<registryVars, task, lpc, access, quiet>>

Proceed(c) ==
  /\ proc[c].pc = "waiting" /\ ~AtCapacity(c) /\ Unused # {}
  /\ ResetChat(c, c, "connect", 1)

(* /start, /cancel and the main menu (start.py:18-44). *)
ResetCommand(c) ==
  /\ Free(c)
  /\ ResetChat(c, c, "reset", 1)

(* cb_conn_cancel: only the connect task, not a host key prompt. *)
ConnCancel(c) ==
  /\ Free(c) /\ connecting[c] # None
  /\ CancelConnecting(c)
  /\ UNCHANGED <<terminalVars, pending, sftp, conn, sessionVars>>

(* cb_trust_yes (terminal.py:151-164): the handler holds the connection    *)
(* while it answers and stores the fingerprint, then starts a task on it.  *)
(* An operator named for another with a suffix, as the next one, is a slip *)
(* that the properties catch; no action uses it.                           *)
PendingAfterYes_Kept(c) == pending
PendingAfterYes(c) == [pending EXCEPT ![c] = None]

TrustYes(c) ==
  /\ Free(c) /\ pending[c] # None /\ Unused # {}
  /\ pending' = PendingAfterYes(c)
  /\ proc' = [proc EXCEPT ![c].pc = "trusting", ![c].seen = pending[c]]
  /\ UNCHANGED <<terminalVars, connectVars, sftp, conn, task, lpc, access, quiet>>

Trusted(c) ==
  /\ proc[c].pc = "trusting"
  /\ \E t \in Unused :
       /\ StartTask(c, task[proc[c].seen].act, proc[c].seen, "ready", t)
       /\ connecting' = [connecting EXCEPT ![c] = t]
  /\ Rests(c)
  /\ UNCHANGED <<terminalVars, pending, sftp, conn, cancelled, lpc, access, quiet>>

(* q.answer or the database raises: the handler is over. *)
TrustFails(c) ==
  /\ proc[c].pc = "trusting"
  /\ Rests(c)
  /\ UNCHANGED <<registryVars, task, lpc, access, quiet>>

TrustNo(c) ==
  /\ Free(c) /\ pending[c] # None
  /\ DiscardPendingTrust(c)
  /\ UNCHANGED <<terminalVars, connectVars, sftp, sessionVars>>

(* The exit button (terminal.py:264-305): checked, answered, then closed.  *)
Exit(c) ==
  /\ Free(c) /\ active[c] # None /\ sess[active[c]] = "running"
  /\ Goes(c, "exiting")
  /\ UNCHANGED <<registryVars, task, lpc, access, quiet>>

ExitCloses(c) ==
  /\ proc[c].pc = "exiting"
  /\ CloseSession(c, None)
  /\ Rests(c)
  /\ UNCHANGED <<pending, sftp, connectVars, task, lpc, access, quiet>>

(* The file browser's exit button (sftp.py:119-121). *)
SftpExit(c) ==
  /\ Free(c) /\ sftp[c] # None
  /\ CloseSftp(c)
  /\ UNCHANGED <<terminalVars, connectVars, pending, sessionVars>>

(* Text typed into a running terminal (terminal.py:247-256). *)
Type(c) ==
  /\ Free(c) /\ active[c] \in quiet /\ sess[active[c]] = "running"
  /\ quiet' = quiet \ {active[c]}
  /\ UNCHANGED <<registryVars, task, lpc, proc, access>>

----------------------------------------------------------------------------
(* Connect tasks.                                                          *)

TaskGoes(t, pc) == task' = [task EXCEPT ![t].pc = pc]

(* The task ends and takes itself out of connecting. *)
TaskEnds(t) ==
  /\ TaskGoes(t, "done")
  /\ connecting' = Unregistered(t)
  /\ UNCHANGED cancelled

Runs(t, pc) == task[t].pc = pc /\ t \notin cancelled

(* What a task does after it has a connection (_dispatch). *)
FirstStep(act) ==
  CASE act = "terminal" -> "opening"
    [] act = "sftp" -> "browsing"
    [] act = "monitor" -> "measuring"

(* open_trusted returns a connection whose key is the stored one.          *)
ConnectTrusted(t) ==
  /\ Runs(t, "connecting")
  /\ conn' = [conn EXCEPT ![t] = "open"]
  /\ task' = [task EXCEPT ![t].conn = t, ![t].pc = FirstStep(task[t].act)]
  /\ UNCHANGED <<terminalVars, connectVars, pending, sftp, lpc, proc, access, quiet>>

(* HostKeyUntrusted (terminal.py:109-113): the open connection is left for *)
(* the user to decide about; the task still edits the prompt.              *)
ConnectUntrusted(t) ==
  /\ Runs(t, "connecting")
  /\ conn' = [conn EXCEPT ![t] = "open"]
  /\ pending' = [pending EXCEPT ![task[t].chat] = t]
  /\ TaskGoes(t, "reporting")
  /\ UNCHANGED <<terminalVars, connectVars, sftp, lpc, proc, access, quiet>>

(* TargetBlocked, SSHConnectError: an error message is edited in. *)
ConnectFails(t) ==
  /\ Runs(t, "connecting")
  /\ TaskGoes(t, "reporting")
  /\ UNCHANGED <<registryVars, lpc, proc, access, quiet>>

(* The task of cb_trust_yes starts on the pending connection. *)
DispatchPending(t) ==
  /\ Runs(t, "ready")
  /\ TaskGoes(t, FirstStep(task[t].act))
  /\ UNCHANGED <<registryVars, lpc, proc, access, quiet>>

(* launch_terminal: the PTY is there; the session is registered before the *)
(* message is drawn, the render loop and the live message after it.        *)
TerminalOpened(t) ==
  /\ Runs(t, "opening")
  /\ sess' = [sess EXCEPT ![task[t].conn] = "running"]
  /\ active' = [active EXCEPT ![task[t].chat] = task[t].conn]
  /\ TaskGoes(t, "drawing")
  /\ UNCHANGED <<live, rtask, loopCancelled, connectVars, pending, sftp, conn,
                 lpc, proc, access, quiet>>

TerminalDrawn(t) ==
  /\ Runs(t, "drawing")
  /\ live' = live \cup {task[t].chat}
  /\ rtask' = [rtask EXCEPT ![task[t].chat] = t]
  /\ lpc' = [lpc EXCEPT ![t] = "sleep"]
  /\ TaskEnds(t)
  /\ UNCHANGED <<active, sess, loopCancelled, pending, sftp, conn, proc, access,
                 quiet>>

(* launch_sftp (sftp.py:84-95).  It would close an older browser first     *)
(* (88-90), but the reset before the task has closed it: were one left, it *)
(* would be lost here, against LostInKnownPlaces.                          *)
BrowserStarted(t) ==
  /\ Runs(t, "browsing")
  /\ sftp' = [sftp EXCEPT ![task[t].chat] = task[t].conn]
  /\ TaskGoes(t, "listing")
  /\ UNCHANGED <<terminalVars, connectVars, pending, conn, lpc, proc, access, quiet>>

(* launch_monitor (tools.py:227-237): one command, then closed in any case.*)
Monitored(t) ==
  /\ Runs(t, "measuring")
  /\ conn' = Closed(task[t].conn)
  /\ TaskGoes(t, "reporting")
  /\ UNCHANGED <<terminalVars, connectVars, pending, sftp, lpc, proc, access, quiet>>

(* The action raises (terminal.py:137-142): the connection is closed, and  *)
(* for a terminal whatever session the chat has.                           *)
DispatchFails(t) ==
  /\ task[t].pc \in {"opening", "browsing", "measuring"} /\ t \notin cancelled
  /\ conn' = Closed(task[t].conn)
  /\ TaskGoes(t, "failed")
  /\ UNCHANGED <<terminalVars, connectVars, pending, sftp, lpc, proc, access, quiet>>

DispatchFailed(t) ==
  /\ Runs(t, "failed")
  /\ IF task[t].act = "terminal"
       THEN CloseSession(task[t].chat, None)
       ELSE UNCHANGED <<terminalVars, conn>>
  /\ TaskGoes(t, "reporting")
  /\ UNCHANGED <<connectVars, pending, sftp, lpc, proc, access, quiet>>

(* The last message is edited, or the SFTP listing is shown. *)
Reported(t) ==
  /\ task[t].pc \in {"reporting", "listing"} /\ t \notin cancelled
  /\ TaskEnds(t)
  /\ UNCHANGED <<terminalVars, pending, sftp, conn, lpc, proc, access, quiet>>

(* CancelledError at the task's await.  In _dispatch it closes the         *)
(* connection (terminal.py:134-136); before that there is none to close, a *)
(* task cancelled before its first step never runs at all.                 *)
InDispatch == {"opening", "drawing", "browsing", "listing", "measuring"}

ClosedOnCancel_Leaks(t) == conn
ClosedOnCancel(t) == IF task[t].pc \in InDispatch THEN Closed(task[t].conn) ELSE conn

TaskCancelled(t) ==
  /\ t \in cancelled
  /\ task[t].pc \in InDispatch \cup {"connecting", "ready", "reporting", "failed"}
  /\ conn' = ClosedOnCancel(t)
  /\ TaskEnds(t)
  /\ UNCHANGED <<terminalVars, pending, sftp, lpc, proc, access, quiet>>

----------------------------------------------------------------------------
(* close_with_notice (terminal.py:237-244), up to its first suspension: a  *)
(* session with a live message is drawn once more before it is closed.     *)
(* What is closed is what the chat has by then.                            *)
Drawable(c) == active[c] # None /\ c \in live

(* Render loops. A loop that wakes looks the session up again.             *)
LoopChat(r) == task[r].chat
LoopGoes(r, pc) == lpc' = [lpc EXCEPT ![r] = pc]

(* Nothing to draw any more, or nowhere to draw it. *)
LoopStops(r) ==
  /\ lpc[r] = "sleep" /\ r \notin loopCancelled
  /\ \/ active[LoopChat(r)] = None
     \/ /\ active[LoopChat(r)] # None /\ LoopChat(r) \notin live
        /\ sess[active[LoopChat(r)]] = "running"
  /\ LoopGoes(r, "done")
  /\ UNCHANGED <<registryVars, task, proc, access, quiet>>

(* An edit raises what _render_loop does not expect, such as Forbidden     *)
(* when the user has blocked the bot (terminal.py:230-234): the loop is    *)
(* over and the session goes on without one.                               *)
LoopCrashes(r) ==
  /\ lpc[r] = "sleep" /\ r \notin loopCancelled
  /\ Drawable(LoopChat(r)) /\ sess[active[LoopChat(r)]] = "running"
  /\ LoopGoes(r, "done")
  /\ UNCHANGED <<registryVars, task, proc, access, quiet>>

LoopFindsEnded(r) ==
  /\ lpc[r] = "sleep" /\ r \notin loopCancelled
  /\ active[LoopChat(r)] # None /\ sess[active[LoopChat(r)]] = "ended"
  /\ IF Drawable(LoopChat(r))
       THEN LoopGoes(r, "notice") /\ UNCHANGED <<terminalVars, conn>>
       ELSE LoopGoes(r, "done") /\ CloseSession(LoopChat(r), r)
  /\ UNCHANGED <<pending, sftp, connectVars, task, proc, access, quiet>>

LoopCloses(r) ==
  /\ lpc[r] = "notice" /\ r \notin loopCancelled
  /\ CloseSession(LoopChat(r), r)
  /\ LoopGoes(r, "done")
  /\ UNCHANGED <<pending, sftp, connectVars, task, proc, access, quiet>>

LoopIsCancelled(r) ==
  /\ r \in loopCancelled /\ lpc[r] \in {"sleep", "notice"}
  /\ LoopGoes(r, "done")
  /\ UNCHANGED <<registryVars, task, proc, access, quiet>>

----------------------------------------------------------------------------
(* Housekeeping and the administrator.  A sweep takes a copy of the        *)
(* dictionary and awaits the database for each entry (housekeeping.py:     *)
(* 49-54, 69-75; admin.py:614-617): any time may pass between the copy and *)
(* the look at an entry.                                                   *)

Staffed(p, work) == proc[p].pc = "idle" /\ work \in StaffWork

(* enforce_access (also run by the administrator's revoke), _idle_check,   *)
(* and the kill button.                                                    *)
LookAt(p, c, work) ==
  /\ Staffed(p, work)
  /\ <<p, work>> \in {<<Housekeeping, "access">>, <<Housekeeping, "idle">>,
                      <<Admin, "access">>, <<Admin, "kill">>}
  /\ active[c] # None
  /\ proc' = [proc EXCEPT ![p].pc = "looking", ![p].chat = c, ![p].op = work,
                          ![p].seen = active[c]]
  /\ UNCHANGED <<registryVars, task, lpc, access, quiet>>

(* Whether the session is to be closed.  In the slip the idle check leaves *)
(* ended sessions to their render loops.                                   *)
ToClose_OnlyRunning(p) ==
  /\ proc[p].op = "idle"
  /\ proc[p].seen \in quiet /\ sess[proc[p].seen] = "running"
ToClose(p) ==
  CASE proc[p].op = "access" -> proc[p].chat \notin access
    [] proc[p].op = "idle"   -> proc[p].seen \in quiet
    [] proc[p].op = "kill"   -> active[proc[p].chat] # None
    [] OTHER -> FALSE

Spare(p) ==
  /\ proc[p].pc = "looking" /\ ~ToClose(p)
  /\ Rests(p)
  /\ UNCHANGED <<registryVars, task, lpc, access, quiet>>

Evict(p) ==
  /\ proc[p].pc = "looking" /\ ToClose(p)
  /\ IF Drawable(proc[p].chat)
       THEN Goes(p, "notice") /\ UNCHANGED <<terminalVars, conn>>
       ELSE Rests(p) /\ CloseSession(proc[p].chat, None)
  /\ UNCHANGED <<pending, sftp, connectVars, task, lpc, access, quiet>>

Evicts(p) ==
  /\ proc[p].pc = "notice"
  /\ CloseSession(proc[p].chat, None)
  /\ Rests(p)
  /\ UNCHANGED <<pending, sftp, connectVars, task, lpc, access, quiet>>

(* The same sweeps over sftp_state (housekeeping.py:55-61, 79-82). *)
SftpSweeps_NoAccess == {"idle"}
SftpSweeps == {"access", "idle"}

LookAtSftp(p, c, work) ==
  /\ Staffed(p, work) /\ p = Housekeeping /\ work \in SftpSweeps
  /\ sftp[c] # None
  /\ proc' = [proc EXCEPT ![p].pc = "looking-sftp", ![p].chat = c, ![p].op = work]
  /\ UNCHANGED <<registryVars, task, lpc, access, quiet>>

SpareSftp(p) ==
  /\ proc[p].pc = "looking-sftp"
  /\ proc[p].op = "access" => proc[p].chat \in access
  /\ Rests(p)
  /\ UNCHANGED <<registryVars, task, lpc, access, quiet>>

EvictSftp(p) ==
  /\ proc[p].pc = "looking-sftp"
  /\ proc[p].op = "access" => proc[p].chat \notin access
  /\ CloseSftp(proc[p].chat)
  /\ Rests(p)
  /\ UNCHANGED <<terminalVars, connectVars, pending, task, lpc, access, quiet>>

(* cb_ban (admin.py:227-244): the ban is stored, then everything the chat  *)
(* has is closed.                                                          *)
Ban(c) ==
  /\ Staffed(Admin, "ban") /\ c \in access
  /\ access' = access \ {c}
  /\ proc' = [proc EXCEPT ![Admin].pc = "banning", ![Admin].chat = c]
  /\ UNCHANGED <<registryVars, task, lpc, quiet>>

BanCloses ==
  /\ proc[Admin].pc = "banning"
  /\ ResetChat(Admin, proc[Admin].chat, "ban", 1)

(* close_all (registry.py:86-94) after a restore (admin.py:597-604): the   *)
(* sessions of a copy of the dictionary, then the file browsers, then the  *)
(* pending connections, each close suspending it (an entry that is gone by *)
(* then would not, which only adds interleavings); connect tasks last.     *)
Holding(d) == {c \in Chats : d[c] # None}

(* What close_all closes next, resumed in stage with left to do there. *)
Remaining(stage, left) ==
  IF left # {} THEN <<stage, left>>
  ELSE IF stage = "sessions" /\ Holding(sftp) # {} THEN <<"sftp", Holding(sftp)>>
  ELSE IF stage # "pending" /\ Holding(pending) # {} THEN <<"pending", Holding(pending)>>
  ELSE <<"connecting", {}>>

CloseAll(stage, left) ==
  /\ \/ \E c \in left :
          /\ proc' = [proc EXCEPT ![Admin].pc = "closing-all", ![Admin].op = stage,
                                  ![Admin].todo = left \ {c}]
          /\ \/ /\ stage = "sessions" /\ CloseSession(c, None)
                /\ UNCHANGED <<sftp, pending>>
             \/ /\ stage = "sftp" /\ CloseSftp(c)
                /\ UNCHANGED <<terminalVars, pending>>
             \/ /\ stage = "pending" /\ DiscardPendingTrust(c)
                /\ UNCHANGED <<terminalVars, sftp>>
          /\ UNCHANGED connectVars
     \/ /\ stage = "connecting"
        /\ cancelled' = cancelled \cup ({connecting[c] : c \in Chats} \ {None})
        /\ connecting' = [c \in Chats |-> None]
        /\ Goes(Admin, "restored")
        /\ UNCHANGED <<terminalVars, sftp, pending, conn>>
  /\ UNCHANGED <<task, lpc, access, quiet>>

Restore ==
  /\ Staffed(Admin, "restore")
  /\ LET work == Remaining("sessions", Holding(active))
     IN  CloseAll(work[1], work[2])

RestoreResumes ==
  /\ proc[Admin].pc = "closing-all"
  /\ LET work == Remaining(proc[Admin].op, proc[Admin].todo)
     IN  CloseAll(work[1], work[2])

(* The message "Restore complete" is sent (locales/_admin.py:101). *)
RestoreDone ==
  /\ proc[Admin].pc = "restored"
  /\ Rests(Admin)
  /\ UNCHANGED <<registryVars, task, lpc, access, quiet>>

----------------------------------------------------------------------------
(* What happens around the bot.                                            *)

(* The shell exits: end of the PTY's output (ssh_manager.py:173-188).      *)
ShellExits(k) ==
  /\ sess[k] = "running" /\ conn[k] = "open"
  /\ sess' = [sess EXCEPT ![k] = "ended"]
  /\ UNCHANGED <<dicts, conn, cancelled, loopCancelled, sessionVars>>

(* The server or the network drops the connection of a session. *)
ConnectionDrops(k) ==
  /\ conn[k] = "open" /\ sess[k] # "none"
  /\ conn' = [conn EXCEPT ![k] = "closed"]
  /\ UNCHANGED <<dicts, sess, cancelled, loopCancelled, sessionVars>>

(* The read loop of a session sees its connection closed. *)
ReadLoopEnds(k) ==
  /\ sess[k] = "running" /\ conn[k] = "closed"
  /\ sess' = [sess EXCEPT ![k] = "ended"]
  /\ UNCHANGED <<dicts, conn, cancelled, loopCancelled, sessionVars>>

(* A session has seen no input or output for settings.idle_timeout_min, or *)
(* has lasted settings.max_session_hours.                                  *)
GoesQuiet(k) ==
  /\ "idle" \in StaffWork
  /\ \E c \in Chats : active[c] = k
  /\ k \notin quiet
  /\ quiet' = quiet \cup {k}
  /\ UNCHANGED <<registryVars, task, lpc, proc, access>>

(* A subscription expires or is revoked, or a ban in another handler. *)
AccessEnds(c) ==
  /\ "access" \in StaffWork
  /\ c \in access
  /\ access' = access \ {c}
  /\ UNCHANGED <<registryVars, task, lpc, proc, quiet>>

----------------------------------------------------------------------------
HandlerStarts(c) ==
  \/ \E force \in BOOLEAN : ConnectClosing(c, force)
  \/ \E act \in Actions : Connect(c, act)
  \/ ResetCommand(c) \/ ConnCancel(c)
  \/ TrustYes(c) \/ TrustNo(c)
  \/ Exit(c) \/ SftpExit(c) \/ Type(c)

HandlerResumes(c) ==
  \/ Measure(c) \/ Refused(c) \/ Proceed(c)
  \/ Trusted(c) \/ TrustFails(c) \/ ExitCloses(c)
  \/ ResetResumes(c)

TaskStep(t) ==
  \/ ConnectTrusted(t) \/ ConnectUntrusted(t) \/ ConnectFails(t)
  \/ DispatchPending(t) \/ TerminalOpened(t) \/ TerminalDrawn(t)
  \/ BrowserStarted(t) \/ Monitored(t)
  \/ DispatchFails(t) \/ DispatchFailed(t) \/ Reported(t) \/ TaskCancelled(t)

LoopStep(r) ==
  LoopStops(r) \/ LoopFindsEnded(r) \/ LoopCloses(r) \/ LoopIsCancelled(r)

StaffResumes(p) == Spare(p) \/ Evict(p) \/ Evicts(p) \/ SpareSftp(p) \/ EvictSftp(p)

AdminResumes == BanCloses \/ ResetResumes(Admin) \/ RestoreResumes \/ RestoreDone

Environment ==
  \/ \E k \in Conn : ShellExits(k) \/ ConnectionDrops(k) \/ ReadLoopEnds(k) \/ GoesQuiet(k)
  \/ \E c \in Chats : AccessEnds(c)

Next ==
  \/ \E c \in Chats : HandlerStarts(c) \/ HandlerResumes(c)
  \/ \E t \in Task : TaskStep(t) \/ LoopStep(t) \/ LoopCrashes(t)
  \/ \E p \in Staff : StaffResumes(p)
  \/ \E p \in Staff, c \in Chats, w \in StaffWork : LookAt(p, c, w) \/ LookAtSftp(p, c, w)
  \/ AdminResumes \/ Restore
  \/ \E c \in Chats : Ban(c)
  \/ Environment

(* asyncio resumes every coroutine that can run; Telegram, SSH and the     *)
(* database answer or time out.  Housekeeping's loop runs every 30 seconds *)
(* and looks at every entry, so each entry it keeps finding is looked at.  *)
(* A session that has ended sees no more input or output, so it goes quiet *)
(* in the end.  Nothing obliges a user or the administrator to act.        *)
Fairness ==
  /\ \A c \in Chats : WF_vars(HandlerResumes(c))
  /\ \A t \in Task : WF_vars(TaskStep(t)) /\ WF_vars(LoopStep(t))
  /\ \A p \in Staff : WF_vars(StaffResumes(p))
  /\ WF_vars(AdminResumes)
  /\ \A k \in Conn : /\ WF_vars(ReadLoopEnds(k))
                    /\ WF_vars(sess[k] = "ended" /\ GoesQuiet(k))
  /\ \A c \in Chats, w \in {"access", "idle"} \cap StaffWork :
       /\ SF_vars(LookAt(Housekeeping, c, w))
       /\ SF_vars(LookAtSftp(Housekeeping, c, w))

Spec == Init /\ [][Next]_vars
FairSpec == Spec /\ Fairness

----------------------------------------------------------------------------
(* Properties.                                                             *)

TaskPC == InDispatch \cup {"none", "connecting", "ready", "reporting", "failed", "done"}
ProcPC == {"idle", "measure", "waiting", "trusting", "exiting", "reset2", "reset3",
           "looking", "notice", "looking-sftp", "banning", "closing-all", "restored"}
Op == {"none", "connect", "reset", "ban", "access", "idle", "kill", "sessions",
       "sftp", "pending"}
Act == {"none", "terminal", "sftp", "monitor"}

TaskRecord == [pc : TaskPC, chat : Chats \cup {None}, act : Act,
               conn : Conn \cup {None}]
ProcRecord == [pc : ProcPC, chat : Chats \cup {None}, op : Op, act : Act,
               seen : Conn \cup {None}, count : Nat, todo : SUBSET Chats]

(* The types of the registry's dictionaries (registry.py:24-29) and of     *)
(* what the coroutines hold.                                               *)
TypeOK ==
  /\ RegistryTypeOK
  /\ task \in [Task -> TaskRecord]
  /\ lpc \in [Loop -> {"none", "sleep", "notice", "done"}]
  /\ proc \in [Proc -> ProcRecord]
  /\ access \in SUBSET Chats
  /\ quiet \in SUBSET Conn

(* Who is responsible for closing connection k. *)
HeldByTask(k) ==
  {t \in Task : /\ task[t].conn = k
                /\ task[t].pc \in {"ready", "opening", "browsing", "measuring"}}
HeldByHandler(k) == {c \in Chats : proc[c].pc = "trusting" /\ proc[c].seen = k}
HeldByDict(d, k) == {c \in Chats : d[c] = k}

Owners(k) ==
  Cardinality(HeldByTask(k)) + Cardinality(HeldByHandler(k))
    + Cardinality(HeldByDict(active, k)) + Cardinality(HeldByDict(pending, k))
    + Cardinality(HeldByDict(sftp, k))

(* An open connection is never in the hands of two: a connection approved  *)
(* by the user is not at the same time discarded with the prompt, a file   *)
(* browser is not a terminal's (registry.py:24-29, terminal.py:109-120,    *)
(* 154-164).                                                               *)
OneOwner == \A k \in Conn : conn[k] = "open" => Owners(k) <= 1

(* Whatever a task may still open or holds, the cancel button and every    *)
(* reset reach it: a task that is not cancelled and has or may get a       *)
(* connection is the one in connecting (terminal.py:97-99, 126-128,        *)
(* 161-164).                                                               *)
CancelReaches ==
  \A t \in Task :
    task[t].pc \in InDispatch \cup {"connecting", "ready"} /\ t \notin cancelled
      => connecting[task[t].chat] = t

(* An open connection that has an owner loses its last one only by being   *)
(* closed, except in three places: a session registered over another one   *)
(* (terminal.py:186), a task cancelled before its first step, and a        *)
(* handler that fails between taking the pending connection and starting   *)
(* its task (terminal.py:154-161).                                         *)
LostInKnownPlaces ==
  [][\A k \in Conn :
       conn[k] = "open" /\ Owners(k) = 1 /\ conn'[k] = "open" /\ Owners(k)' = 0
         => \/ \E c \in Chats : active[c] = k /\ active'[c] \notin {k, None}
            \/ \E t \in cancelled : task[t].conn = k /\ task[t].pc = "ready"
            \/ \E c \in Chats : proc[c].pc = "trusting" /\ proc[c].seen = k]_vars

(* A terminal whose shell or connection is gone leaves active_sessions,    *)
(* and with it the count against the cap, even if no render loop watches   *)
(* it: the loop or housekeeping's idle check closes it                     *)
(* (terminal.py:204-206, housekeeping.py:69-75).                           *)
EndedSessionsLeave ==
  \A k \in Conn : \A c \in Chats :
    (active[c] = k /\ sess[k] = "ended") ~> (active[c] # k)

(* A user who lost access loses terminal and file browser for good, also   *)
(* those that a task was still opening at that time                        *)
(* (housekeeping.py:47-61, admin.py:227-261).                              *)
AccessLostCloses ==
  \A c \in Chats :
    c \notin access ~> [](c \notin access => active[c] = None /\ sftp[c] = None)

=============================================================================
