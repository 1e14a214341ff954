-------------------------- MODULE OrderedProcessor --------------------------
(***************************************************************************)
(* main.OrderedProcessor (main.py:29-56): how the bot schedules Telegram   *)
(* updates.                                                                *)
(*                                                                         *)
(* The Telegram library starts one asyncio task per update, in the order   *)
(* of arrival.  The task first takes one of MaxConcurrent slots            *)
(* (BaseUpdateProcessor's semaphore), then do_process_update looks up the  *)
(* lock of the update's chat, or makes it, counts itself in _refs, and     *)
(* waits for the lock.  The last task to leave removes the lock from the   *)
(* dictionary, so that the dictionary does not grow with every chat ever   *)
(* seen: the lock two updates of a chat wait on is the same object only as *)
(* long as the reference counts are right.                                 *)
(*                                                                         *)
(* A lock object is named after the update that created it.                *)
(* asyncio runs a coroutine without interruption between two awaits, so    *)
(* everything between two awaits is one action.                            *)
(***************************************************************************)
EXTENDS Naturals, Sequences, FiniteSets

CONSTANTS Chats,          \* the chats that send updates
          MaxUpdates,     \* bound: updates that arrive in a behaviour
          MaxConcurrent   \* OrderedProcessor(32): slots of the semaphore

ASSUME OrderedProcessorAssumption ==
  /\ MaxUpdates \in Nat
  /\ MaxConcurrent \in Nat \ {0}

VARIABLES
  arrived,    \* updates are numbered 1, 2, ... as they arrive
  chatOf,     \* effective_chat.id of each update
  pc,         \* where the task of each update is
  semQueue,   \* tasks waiting for a slot, first come first served
  slots,      \* free slots of the semaphore
  locks,      \* self._locks: chat -> lock object, NoLock when absent
  refs,       \* self._refs: chat -> count, 0 when absent
  lockOf,     \* the local variable lock of each task
  locked,     \* asyncio.Lock: is it held?
  waiters     \* asyncio.Lock: tasks waiting for it, first come first served

vars == <<arrived, chatOf, pc, semQueue, slots, locks, refs, lockOf, locked,
          waiters>>

Updates == 1 .. MaxUpdates
NoLock == 0
Lock == Updates

(* The tasks of chat c that are inside do_process_update. *)
Inside(c) == {u \in Updates : chatOf[u] = c /\ pc[u] \in {"lock", "run"}}

Init ==
  /\ arrived = 0
  /\ chatOf \in [Updates -> Chats]
  /\ pc = [u \in Updates |-> "new"]
  /\ semQueue = <<>>
  /\ slots = MaxConcurrent
  /\ locks = [c \in Chats |-> NoLock]
  /\ refs = [c \in Chats |-> 0]
  /\ lockOf = [u \in Updates |-> NoLock]
  /\ locked = [l \in Lock |-> FALSE]
  /\ waiters = [l \in Lock |-> <<>>]

----------------------------------------------------------------------------
(* The library takes the next update from Telegram and starts its task,    *)
(* which queues for a slot.                                                *)
Arrive ==
  /\ arrived < MaxUpdates
  /\ arrived' = arrived + 1
  /\ pc' = [pc EXCEPT ![arrived + 1] = "sem"]
  /\ semQueue' = Append(semQueue, arrived + 1)
  /\ UNCHANGED <<chatOf, slots, locks, refs, lockOf, locked, waiters>>

(* setdefault (main.py:47): the chat's lock, or a new one made by this task.*)
(* LockFor_Fresh, like every operator below named for another with a suffix, *)
(* is a slip the properties are known to catch, and is used nowhere.         *)
LockFor_Fresh(u) == u
LockFor(u) == IF locks[chatOf[u]] = NoLock THEN u ELSE locks[chatOf[u]]

SlotFree_Unbounded == TRUE
SlotFree == slots > 0

(* main.py:45-50: from the slot to the first await on the lock.  The task  *)
(* either takes a free lock on which nobody waits, or queues behind it.    *)
Enter(u) ==
  /\ pc[u] = "sem"
  /\ semQueue # <<>> /\ Head(semQueue) = u
  /\ SlotFree
  /\ slots' = slots - 1
  /\ semQueue' = Tail(semQueue)
  /\ locks' = [locks EXCEPT ![chatOf[u]] = LockFor(u)]
  /\ refs' = [refs EXCEPT ![chatOf[u]] = @ + 1]
  /\ lockOf' = [lockOf EXCEPT ![u] = LockFor(u)]
  /\ IF ~locked[LockFor(u)] /\ waiters[LockFor(u)] = <<>>
       THEN /\ locked' = [locked EXCEPT ![LockFor(u)] = TRUE]
            /\ pc' = [pc EXCEPT ![u] = "run"]
            /\ UNCHANGED waiters
       ELSE /\ waiters' = [waiters EXCEPT ![LockFor(u)] = Append(@, u)]
            /\ pc' = [pc EXCEPT ![u] = "lock"]
            /\ UNCHANGED locked
  /\ UNCHANGED <<arrived, chatOf>>

(* The first waiter of a released lock gets it. *)
Acquire(u) ==
  /\ pc[u] = "lock"
  /\ ~locked[lockOf[u]]
  /\ waiters[lockOf[u]] # <<>> /\ Head(waiters[lockOf[u]]) = u
  /\ locked' = [locked EXCEPT ![lockOf[u]] = TRUE]
  /\ waiters' = [waiters EXCEPT ![lockOf[u]] = Tail(@)]
  /\ pc' = [pc EXCEPT ![u] = "run"]
  /\ UNCHANGED <<arrived, chatOf, semQueue, slots, locks, refs, lockOf>>

(* main.py:54: is u the last task of its chat inside? *)
LastOut_TooEarly(u) == refs[chatOf[u]] - 1 <= 1
LastOut_Never(u) == refs[chatOf[u]] - 1 < 0
LastOut(u) == refs[chatOf[u]] - 1 <= 0

(* async with: the lock is given back however the handler ends.            *)
LockAfter_Held == TRUE
LockAfter == FALSE

(* main.py:50-56: the handler returned or raised; the lock is released,    *)
(* the reference dropped, the last one out removes the chat's entry, and   *)
(* the slot is given back, all without an await.                           *)
Finish(u) ==
  /\ pc[u] = "run"
  /\ pc' = [pc EXCEPT ![u] = "done"]
  /\ locked' = [locked EXCEPT ![lockOf[u]] = LockAfter]
  /\ refs' = [refs EXCEPT ![chatOf[u]] = @ - 1]
  /\ locks' = IF LastOut(u)
                THEN [locks EXCEPT ![chatOf[u]] = NoLock]
                ELSE locks
  /\ slots' = slots + 1
  /\ UNCHANGED <<arrived, chatOf, semQueue, lockOf, waiters>>

Next ==
  \/ Arrive
  \/ \E u \in Updates : Enter(u) \/ Acquire(u) \/ Finish(u)

(* asyncio resumes every task that can run, and a handler ends: Telegram   *)
(* calls have timeouts (a handler that hangs keeps its slot, which no      *)
(* property below excludes).                                               *)
Fairness ==
  \A u \in Updates : WF_vars(Enter(u) \/ Acquire(u) \/ Finish(u))

Spec == Init /\ [][Next]_vars
FairSpec == Spec /\ Fairness

----------------------------------------------------------------------------
PC == {"new", "sem", "lock", "run", "done"}

(* The types of the scheduler's dictionaries and queues (main.py:35-36). *)
TypeOK ==
  /\ arrived \in 0 .. MaxUpdates
  /\ chatOf \in [Updates -> Chats]
  /\ pc \in [Updates -> PC]
  /\ semQueue \in Seq(Updates)
  /\ slots \in 0 .. MaxConcurrent
  /\ locks \in [Chats -> Lock \cup {NoLock}]
  /\ refs \in [Chats -> Nat]
  /\ lockOf \in [Updates -> Lock \cup {NoLock}]
  /\ locked \in [Lock -> BOOLEAN]
  /\ waiters \in [Lock -> Seq(Updates)]

(* Two updates of one chat are never handled at the same time, although    *)
(* the lock that keeps them apart is thrown away and remade as the chat    *)
(* goes quiet and busy again (main.py:47-56).                              *)
OneHandlerPerChat ==
  \A u, v \in Updates :
    pc[u] = "run" /\ pc[v] = "run" /\ chatOf[u] = chatOf[v] => u = v

(* _locks and _refs hold an entry for exactly the chats with an update     *)
(* inside: nothing is left behind by a chat that went quiet, and no lock   *)
(* is removed under a task that waits on it (main.py:52-56).               *)
NoStaleEntries ==
  \A c \in Chats :
    /\ (locks[c] # NoLock) <=> (Inside(c) # {})
    /\ \A u \in Inside(c) : lockOf[u] = locks[c]

(* The promise of the docstring (main.py:30-31), as a specification.       *)
Phase(u) ==
  CASE pc[u] = "new" -> "new"
    [] pc[u] \in {"sem", "lock"} -> "waiting"
    [] pc[u] = "run" -> "handling"
    [] pc[u] = "done" -> "done"

Order == INSTANCE ChatOrder WITH phase <- [u \in Updates |-> Phase(u)]

(* Each chat's updates are handled one at a time in the order of arrival,  *)
(* whatever becomes of the locks they wait for (main.py:44-56).            *)
KeepsChatOrder == Order!InOrder

(* Every update that arrives is handled: the waiting updates of one chat,  *)
(* each of which holds a slot, cannot keep the others out for ever         *)
(* (main.py:44-56).                                                        *)
EveryUpdateHandled == Order!Live

=============================================================================
