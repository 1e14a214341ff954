------------------------------ MODULE Registry ------------------------------
(***************************************************************************)
(* core/registry.py: what the bot has open for each chat, and the          *)
(* operations that close it.                                               *)
(*                                                                         *)
(* Everything runs on one asyncio event loop: between two awaits nothing   *)
(* else runs.  Each operator here is the part of a registry function from  *)
(* its call to its first suspension; the coroutine that called it resumes  *)
(* later, in an action of its own (module Sessions).                       *)
(*                                                                         *)
(* An SSH connection is named after the connect task that opened it, and a *)
(* render loop after the task that started it.  A TerminalSession is named *)
(* after its connection.                                                   *)
(***************************************************************************)
EXTENDS Naturals, FiniteSets

CONSTANTS Chats,      \* chat ids
          MaxTasks    \* bound: connect tasks started in a behaviour

ASSUME RegistryAssumption == MaxTasks \in Nat /\ IsFiniteSet(Chats)

None == 0
Task == 1 .. MaxTasks
Conn == Task
Loop == Task

VARIABLES
  active,      \* active_sessions: chat -> session
  live,        \* live_message: chats that have a live message
  rtask,       \* render_tasks: chat -> render loop
  pending,     \* pending_trust: chat -> connection waiting for the user
  sftp,        \* sftp_state: chat -> connection of the file browser
  connecting,  \* connecting: chat -> connect task
  conn,        \* each connection: "none", "open" or "closed"
  sess,        \* each TerminalSession: "none", "running" or "ended" (_closed)
  cancelled,   \* connect tasks that cancel() was called on
  loopCancelled \* render loops that cancel() was called on

dicts == <<active, live, rtask, pending, sftp, connecting>>
objects == <<conn, sess, cancelled, loopCancelled>>
registryVars == <<dicts, objects>>

RegistryInit ==
  /\ active = [c \in Chats |-> None]
  /\ live = {}
  /\ rtask = [c \in Chats |-> None]
  /\ pending = [c \in Chats |-> None]
  /\ sftp = [c \in Chats |-> None]
  /\ connecting = [c \in Chats |-> None]
  /\ conn = [k \in Conn |-> "none"]
  /\ sess = [k \in Conn |-> "none"]
  /\ cancelled = {}
  /\ loopCancelled = {}

RegistryTypeOK ==
  /\ active \in [Chats -> Conn \cup {None}]
  /\ live \in SUBSET Chats
  /\ rtask \in [Chats -> Loop \cup {None}]
  /\ pending \in [Chats -> Conn \cup {None}]
  /\ sftp \in [Chats -> Conn \cup {None}]
  /\ connecting \in [Chats -> Task \cup {None}]
  /\ conn \in [Conn -> {"none", "open", "closed"}]
  /\ sess \in [Conn -> {"none", "running", "ended"}]
  /\ cancelled \in SUBSET Task
  /\ loopCancelled \in SUBSET Loop

----------------------------------------------------------------------------
(* conn after closing k, which may be None. *)
Closed(k) == [x \in Conn |-> IF x = k THEN "closed" ELSE conn[x]]

(* close_session, up to the await of session.close(): the three entries go *)
(* and the render loop is cancelled unless it is the caller (self).        *)
CloseSession(c, self) ==
  /\ active' = [active EXCEPT ![c] = None]
  /\ rtask' = [rtask EXCEPT ![c] = None]
  /\ live' = live \ {c}
  /\ loopCancelled' = loopCancelled \cup ({rtask[c]} \ {None, self})
  /\ conn' = Closed(active[c])
  /\ sess' = [k \in Conn |-> IF k = active[c] THEN "ended" ELSE sess[k]]

DiscardPendingTrust(c) ==
  /\ pending' = [pending EXCEPT ![c] = None]
  /\ conn' = Closed(pending[c])

CloseSftp(c) ==
  /\ sftp' = [sftp EXCEPT ![c] = None]
  /\ conn' = Closed(sftp[c])

(* cancel_connecting, then connecting[c] = t in the same synchronous run    *)
(* (t is None when no task follows).  In the slip the old task is not told. *)
ReplaceConnecting_NoCancel(c, t) ==
  /\ connecting' = [connecting EXCEPT ![c] = t]
  /\ UNCHANGED cancelled
ReplaceConnecting(c, t) ==
  /\ connecting' = [connecting EXCEPT ![c] = t]
  /\ cancelled' = cancelled \cup ({connecting[c]} \ {None})

CancelConnecting(c) == ReplaceConnecting(c, None)

=============================================================================
