--------------------------- MODULE Admission_proofs ---------------------------
(***************************************************************************)
(* Proofs about the two gates that a user's wish passes: OrderedProcessor, *)
(* which lets an update to its handler, and RateLimiter, which lets a      *)
(* handler open a connection.  Neither knows the other; they share a       *)
(* module and no fact.                                                     *)
(***************************************************************************)
EXTENDS OrderedProcessor, RateLimiter, FiniteSetTheorems, SequenceTheorems, TLAPS

(***************************************************************************)
(* OrderedProcessor, for every set of chats, number of updates and number  *)
(* of slots.                                                               *)
(*                                                                         *)
(* Mutual exclusion is not inductive.  That a second update cannot find a  *)
(* free lock rests on the chat's lock being the very object the running    *)
(* update holds; that this object is not thrown away early rests on the    *)
(* reference count being the number of updates inside.  Bookkeeping adds   *)
(* those facts.                                                            *)
(***************************************************************************)

(* The tasks inside do_process_update, of any chat. *)
AllInside == {u \in Updates : pc[u] \in {"lock", "run"}}

(* An update that has not arrived has no task. *)
Unarrived == \A u \in Updates : u > arrived => pc[u] = "new"

(* A chat's lock was made by an update of that chat: two chats never share *)
(* a lock (main.py:47).                                                    *)
LocksNamed == \A c \in Chats : locks[c] # NoLock => chatOf[locks[c]] = c

(* _refs counts the tasks between main.py:48 and main.py:53. *)
RefsCount == \A c \in Chats : refs[c] = Cardinality(Inside(c))

(* Each task inside holds one of the slots. *)
SlotsCount == slots + Cardinality(AllInside) = MaxConcurrent

(* The lock of an update being handled is held. *)
HeldWhileRunning == \A u \in Updates : pc[u] = "run" => locked[lockOf[u]]

Bookkeeping ==
  /\ TypeOK
  /\ Unarrived
  /\ NoStaleEntries
  /\ LocksNamed
  /\ RefsCount
  /\ SlotsCount
  /\ HeldWhileRunning
  /\ OneHandlerPerChat

----------------------------------------------------------------------------
(* The counted sets are finite. *)
LEMMA InsideFinite ==
  ASSUME NEW c \in Chats
  PROVE  /\ IsFiniteSet(Inside(c)) /\ Cardinality(Inside(c)) \in Nat
         /\ IsFiniteSet(AllInside) /\ Cardinality(AllInside) \in Nat
  <1>1. IsFiniteSet(Updates)
    BY FS_Interval, OrderedProcessorAssumption DEF Updates
  <1>2. Inside(c) \subseteq Updates /\ AllInside \subseteq Updates
    BY DEF Inside, AllInside
  <1> QED
    BY <1>1, <1>2, FS_Subset, FS_CardinalityType

(* The bookkeeping holds before the first update. *)
LEMMA BookkeepingInit == Init => Bookkeeping
  <1> SUFFICES ASSUME Init PROVE Bookkeeping
    OBVIOUS
  <1>1. TypeOK /\ Unarrived
    BY OrderedProcessorAssumption
    DEF Init, TypeOK, Unarrived, PC, Updates, Lock, NoLock
  <1>2. AllInside = {} /\ \A c \in Chats : Inside(c) = {}
    BY DEF Init, AllInside, Inside
  <1>3. NoStaleEntries /\ LocksNamed /\ HeldWhileRunning /\ OneHandlerPerChat
    BY <1>2 DEF Init, NoStaleEntries, LocksNamed, HeldWhileRunning,
                OneHandlerPerChat, NoLock
  <1>4. Cardinality(AllInside) = 0 /\ \A c \in Chats : Cardinality(Inside(c)) = 0
    BY <1>2, FS_EmptySet, Zenon
  <1>5. RefsCount
    BY <1>4 DEF Init, RefsCount
  <1>6. SlotsCount
    BY <1>4, OrderedProcessorAssumption DEF Init, SlotsCount
  <1> QED
    BY <1>1, <1>3, <1>5, <1>6 DEF Bookkeeping

----------------------------------------------------------------------------
(* Arrive puts nobody inside. *)
LEMMA ArriveStep == Bookkeeping /\ Arrive => Bookkeeping'
  <1> SUFFICES ASSUME Bookkeeping, Arrive PROVE Bookkeeping'
    OBVIOUS
  <1> USE DEF Bookkeeping
  <1>1. arrived + 1 \in Updates /\ pc[arrived + 1] = "new"
    BY OrderedProcessorAssumption DEF Arrive, TypeOK, Updates, Unarrived
  <1>2. TypeOK'
    BY <1>1, OrderedProcessorAssumption DEF Arrive, TypeOK, PC
  <1>3. Unarrived'
    BY <1>1, OrderedProcessorAssumption
    DEF Arrive, TypeOK, Unarrived, Updates
  <1>4. \A u \in Updates : pc'[u] \in {"lock", "run"} <=> pc[u] \in {"lock", "run"}
    BY <1>1 DEF Arrive, TypeOK
  <1>5. \A u \in Updates : pc'[u] = "run" <=> pc[u] = "run"
    BY <1>1 DEF Arrive, TypeOK
  <1>6. AllInside' = AllInside /\ \A c \in Chats : Inside(c)' = Inside(c)
    BY <1>4 DEF Arrive, AllInside, Inside
  <1>7. NoStaleEntries' /\ LocksNamed' /\ RefsCount' /\ SlotsCount'
    BY <1>6 DEF Arrive, NoStaleEntries, LocksNamed, RefsCount, SlotsCount
  <1>8. HeldWhileRunning' /\ OneHandlerPerChat'
    BY <1>5 DEF Arrive, HeldWhileRunning, OneHandlerPerChat
  <1> QED
    BY <1>2, <1>3, <1>7, <1>8

----------------------------------------------------------------------------
(* Enter puts u inside its chat: the count grows by one, and the lock it   *)
(* finds or makes is its chat's.                                           *)
LEMMA EnterStep ==
  ASSUME Bookkeeping, NEW u \in Updates, Enter(u)
  PROVE  Bookkeeping'
  <1> USE DEF Bookkeeping
  <1>0. PICK c \in Chats : c = chatOf[u]
    BY DEF TypeOK
  <1> DEFINE l == LockFor(u)
  <1>1. c = chatOf[u] /\ l \in Lock /\ l # NoLock
    BY <1>0 DEF TypeOK, LockFor, Lock, NoLock, Updates
  <1>2. pc[u] = "sem" /\ pc'[u] \in {"lock", "run"}
        /\ \A v \in Updates : v # u => pc'[v] = pc[v]
    BY DEF Enter, TypeOK
  <1>3. /\ u \notin Inside(c) /\ u \notin AllInside
        /\ Inside(c)' = Inside(c) \cup {u}
        /\ AllInside' = AllInside \cup {u}
        /\ \A d \in Chats : d # c => Inside(d)' = Inside(d)
    BY <1>1, <1>2 DEF Enter, Inside, AllInside
  <1>4. /\ Cardinality(Inside(c)') = Cardinality(Inside(c)) + 1
        /\ Cardinality(AllInside') = Cardinality(AllInside) + 1
    BY <1>1, <1>3, InsideFinite, FS_AddElement
  <1>5. TypeOK'
    <2>1. locks' \in [Chats -> Lock \cup {NoLock}]
          /\ lockOf' \in [Updates -> Lock \cup {NoLock}]
      BY <1>1 DEF Enter, TypeOK
    <2>2. pc' \in [Updates -> PC] /\ locked' \in [Lock -> BOOLEAN]
      BY <1>1 DEF Enter, TypeOK, PC
    <2>3. waiters' \in [Lock -> Seq(Updates)]
      <3>1. Append(waiters[l], u) \in Seq(Updates)
        BY <1>1, AppendProperties DEF TypeOK
      <3> QED
        BY <3>1, <1>1 DEF Enter, TypeOK
    <2>4. semQueue' \in Seq(Updates)
      BY DEF Enter, TypeOK
    <2>5. slots' \in 0 .. MaxConcurrent /\ refs' \in [Chats -> Nat]
      BY <1>1, OrderedProcessorAssumption DEF Enter, SlotFree, TypeOK
    <2> QED
      BY <2>1, <2>2, <2>3, <2>4, <2>5 DEF Enter, TypeOK
  <1>6. Unarrived'
    BY <1>2 DEF Enter, Unarrived, TypeOK
  <1>7. locks'[c] = l /\ lockOf'[u] = l
        /\ (\A d \in Chats : d # c => locks'[d] = locks[d])
        /\ (\A v \in Updates : v # u => lockOf'[v] = lockOf[v])
    BY <1>1 DEF Enter, TypeOK
  <1>8. \A v \in Inside(c) : lockOf[v] = l
    BY <1>1 DEF NoStaleEntries, LockFor
  <1>9. NoStaleEntries'
    <2> SUFFICES ASSUME NEW d \in Chats
                 PROVE  /\ (locks'[d] # NoLock) <=> (Inside(d)' # {})
                        /\ \A v \in Inside(d)' : lockOf'[v] = locks'[d]
      BY DEF NoStaleEntries
    <2>1. CASE d = c
      <3>1. u \in Inside(c)' /\ locks'[c] # NoLock
        BY <1>1, <1>3, <1>7
      <3>2. \A v \in Inside(c)' : lockOf'[v] = locks'[c]
        BY <1>3, <1>7, <1>8 DEF Inside
      <3> QED
        BY <2>1, <3>1, <3>2
    <2>2. CASE d # c
      BY <2>2, <1>3, <1>7, <1>1 DEF NoStaleEntries, Inside
    <2> QED
      BY <2>1, <2>2
  <1>10. LocksNamed'
    BY <1>1, <1>7 DEF Enter, LocksNamed, LockFor
  <1>11. RefsCount'
    BY <1>1, <1>3, <1>4 DEF Enter, RefsCount, TypeOK
  <1>12. SlotsCount'
    BY <1>4, InsideFinite, <1>1, OrderedProcessorAssumption
    DEF Enter, SlotsCount, TypeOK
  <1>13. HeldWhileRunning'
    <2> SUFFICES ASSUME NEW v \in Updates, pc'[v] = "run"
                 PROVE  locked'[lockOf'[v]]
      BY DEF HeldWhileRunning
    <2>1. CASE v = u
      BY <2>1, <1>1, <1>7 DEF Enter, TypeOK
    <2>2. CASE v # u
      <3>1. pc[v] = "run" /\ locked[lockOf[v]] /\ lockOf'[v] = lockOf[v]
        BY <2>2, <1>2, <1>7 DEF HeldWhileRunning
      <3>2. \A k \in Lock : locked[k] => locked'[k]
        BY <1>1 DEF Enter, TypeOK
      <3>3. lockOf[v] \in Lock
        BY <3>1 DEF NoStaleEntries, Inside, TypeOK, Lock
      <3> QED
        BY <3>1, <3>2, <3>3
    <2> QED
      BY <2>1, <2>2
  <1>14. OneHandlerPerChat'
    <2>1. ASSUME pc'[u] = "run", NEW v \in Updates, v # u, pc'[v] = "run",
                 chatOf[v] = c
          PROVE  FALSE
      <3>1. pc[v] = "run" /\ v \in Inside(c)
        BY <2>1, <1>2 DEF Inside
      <3>2. locked[l]
        BY <3>1, <1>8 DEF HeldWhileRunning
      <3>3. pc'[u] = "lock"
        BY <3>2 DEF Enter, TypeOK
      <3> QED
        BY <3>3, <2>1
    <2> QED
      BY <2>1, <1>1, <1>2 DEF OneHandlerPerChat, Enter
  <1> QED
    BY <1>5, <1>6, <1>9, <1>10, <1>11, <1>12, <1>13, <1>14

----------------------------------------------------------------------------
(* Acquire moves u from the lock's queue to the lock. *)
LEMMA AcquireStep ==
  ASSUME Bookkeeping, NEW u \in Updates, Acquire(u)
  PROVE  Bookkeeping'
  <1> USE DEF Bookkeeping
  <1>1. pc[u] = "lock" /\ pc'[u] = "run"
        /\ \A v \in Updates : v # u => pc'[v] = pc[v]
    BY DEF Acquire, TypeOK
  <1>2. AllInside' = AllInside /\ \A c \in Chats : Inside(c)' = Inside(c)
    BY <1>1 DEF Acquire, AllInside, Inside
  <1>3. \A v \in Updates : pc[v] \in {"lock", "run"}
          => v \in Inside(chatOf[v]) /\ lockOf[v] = locks[chatOf[v]]
             /\ lockOf[v] \in Lock
    BY DEF Inside, NoStaleEntries, TypeOK, Lock
  <1>4. TypeOK'
    BY <1>1, <1>3 DEF Acquire, TypeOK, PC
  <1>5. Unarrived' /\ NoStaleEntries' /\ LocksNamed' /\ RefsCount' /\ SlotsCount'
    BY <1>1, <1>2
    DEF Acquire, Unarrived, NoStaleEntries, LocksNamed, RefsCount, SlotsCount
  <1>6. HeldWhileRunning'
    BY <1>1, <1>3 DEF Acquire, HeldWhileRunning, TypeOK
  <1>7. \A v \in Updates : pc[v] = "run" => chatOf[v] # chatOf[u]
    BY <1>1, <1>3 DEF Acquire, HeldWhileRunning
  <1>8. OneHandlerPerChat'
    BY <1>1, <1>7 DEF Acquire, OneHandlerPerChat
  <1> QED
    BY <1>4, <1>5, <1>6, <1>8

----------------------------------------------------------------------------
(* Finish takes u out; the entry goes exactly when nobody else is inside.  *)
LEMMA FinishStep ==
  ASSUME Bookkeeping, NEW u \in Updates, Finish(u)
  PROVE  Bookkeeping'
  <1> USE DEF Bookkeeping
  <1>0. PICK c \in Chats : c = chatOf[u]
    BY DEF TypeOK
  <1>1. c = chatOf[u] /\ u \in Inside(c) /\ u \in AllInside
        /\ lockOf[u] = locks[c] /\ lockOf[u] \in Lock
    BY <1>0 DEF Finish, LockAfter, TypeOK, Inside, AllInside, NoStaleEntries, Lock
  <1>2. pc[u] = "run" /\ pc'[u] = "done"
        /\ \A v \in Updates : v # u => pc'[v] = pc[v]
    BY DEF Finish, LockAfter, TypeOK
  <1>3. /\ Inside(c)' = Inside(c) \ {u}
        /\ AllInside' = AllInside \ {u}
        /\ \A d \in Chats : d # c => Inside(d)' = Inside(d)
    BY <1>1, <1>2 DEF Finish, LockAfter, Inside, AllInside
  <1>4. /\ Cardinality(Inside(c)') = Cardinality(Inside(c)) - 1
        /\ Cardinality(AllInside') = Cardinality(AllInside) - 1
        /\ IsFiniteSet(Inside(c)') /\ Cardinality(Inside(c)') \in Nat
        /\ Cardinality(AllInside') \in Nat
    BY <1>1, <1>3, InsideFinite, FS_RemoveElement, FS_CardinalityType
  <1>5. LastOut(u) <=> Inside(c)' = {}
    <2>1. refs[c] = Cardinality(Inside(c)) /\ Cardinality(Inside(c)) \in Nat
      BY <1>1, InsideFinite DEF RefsCount
    <2>2. Cardinality(Inside(c)') = 0 <=> Inside(c)' = {}
      BY <1>4, FS_EmptySet
    <2> QED
      BY <2>1, <2>2, <1>1, <1>4 DEF LastOut
  <1>6. TypeOK'
    <2>1. refs[c] - 1 \in Nat
      BY <1>1, <1>4, InsideFinite DEF RefsCount
    <2>2. slots + 1 \in 0 .. MaxConcurrent
      BY <1>1, <1>4, InsideFinite, OrderedProcessorAssumption
      DEF SlotsCount, TypeOK
    <2> QED
      BY <1>1, <2>1, <2>2 DEF Finish, LockAfter, TypeOK, PC
  <1>7. Unarrived'
    BY <1>2 DEF Finish, LockAfter, Unarrived
  <1>8. locks'[c] = (IF LastOut(u) THEN NoLock ELSE locks[c])
        /\ (\A d \in Chats : d # c => locks'[d] = locks[d])
    BY <1>1 DEF Finish, LockAfter, TypeOK
  <1>9. NoStaleEntries'
    <2> SUFFICES ASSUME NEW d \in Chats
                 PROVE  /\ (locks'[d] # NoLock) <=> (Inside(d)' # {})
                        /\ \A v \in Inside(d)' : lockOf'[v] = locks'[d]
      BY DEF NoStaleEntries
    <2>1. CASE d = c
      BY <2>1, <1>1, <1>3, <1>5, <1>8 DEF NoStaleEntries, Finish, LockAfter, Inside
    <2>2. CASE d # c
      BY <2>2, <1>3, <1>8 DEF NoStaleEntries, Finish, LockAfter, Inside
    <2> QED
      BY <2>1, <2>2
  <1>10. LocksNamed'
    BY <1>8 DEF Finish, LockAfter, LocksNamed
  <1>11. RefsCount'
    BY <1>1, <1>3, <1>4 DEF Finish, LockAfter, RefsCount, TypeOK
  <1>12. SlotsCount'
    <2>1. Cardinality(AllInside) \in Nat
      BY <1>1, InsideFinite
    <2>2. slots' = slots + 1 /\ slots \in Nat
      BY DEF Finish, LockAfter, TypeOK
    <2> QED
      BY <2>1, <2>2, <1>4, OrderedProcessorAssumption DEF SlotsCount
  <1>13. HeldWhileRunning'
    <2> SUFFICES ASSUME NEW v \in Updates, pc'[v] = "run"
                 PROVE  locked'[lockOf'[v]]
      BY DEF HeldWhileRunning
    <2>1. v # u /\ pc[v] = "run" /\ locked[lockOf[v]]
      BY <1>2 DEF HeldWhileRunning
    <2>2. chatOf[v] # c
      BY <2>1, <1>1, <1>2 DEF OneHandlerPerChat
    <2>3. lockOf[v] = locks[chatOf[v]] /\ lockOf[v] \in Lock
      BY <2>1 DEF NoStaleEntries, Inside, TypeOK, Lock
    <2>4. lockOf[v] # lockOf[u]
      BY <2>2, <2>3, <1>1 DEF LocksNamed, TypeOK, Lock, NoLock, Updates
    <2> QED
      BY <2>1, <2>3, <2>4, <1>1 DEF Finish, LockAfter, TypeOK
  <1>14. OneHandlerPerChat'
    BY <1>2 DEF Finish, LockAfter, OneHandlerPerChat
  <1> QED
    BY <1>6, <1>7, <1>9, <1>10, <1>11, <1>12, <1>13, <1>14

----------------------------------------------------------------------------
LEMMA BookkeepingStep == Bookkeeping /\ [Next]_vars => Bookkeeping'
  <1> SUFFICES ASSUME Bookkeeping, [Next]_vars PROVE Bookkeeping'
    OBVIOUS
  <1>1. CASE Arrive
    BY <1>1, ArriveStep
  <1>2. ASSUME NEW u \in Updates, Enter(u) \/ Acquire(u) \/ Finish(u)
        PROVE  Bookkeeping'
    BY <1>2, EnterStep, AcquireStep, FinishStep
  <1>3. CASE UNCHANGED vars
    BY <1>3
    DEF vars, Bookkeeping, TypeOK, Unarrived, NoStaleEntries, LocksNamed,
        RefsCount, SlotsCount, HeldWhileRunning, OneHandlerPerChat, Inside,
        AllInside
  <1> QED
    BY <1>1, <1>2, <1>3 DEF Next

(* The bookkeeping of locks and reference counts (main.py:47-56) is an     *)
(* invariant.                                                              *)
THEOREM BookkeepingInvariant == Spec => []Bookkeeping
  BY BookkeepingInit, BookkeepingStep, PTL DEF Spec

(* The types of the scheduler's state. *)
THEOREM TypeCorrect == Spec => []TypeOK
  BY BookkeepingInvariant, PTL DEF Bookkeeping

(* Two updates of one chat are never handled at the same time              *)
(* (main.py:30-31), whatever the number of chats, updates and slots.       *)
THEOREM MutualExclusion == Spec => []OneHandlerPerChat
  BY BookkeepingInvariant, PTL DEF Bookkeeping

(* The dictionaries hold exactly the chats with an update inside           *)
(* (main.py:52-56): nothing leaks and no lock is removed under a waiter.   *)
THEOREM EntriesMatchTasks == Spec => []NoStaleEntries
  BY BookkeepingInvariant, PTL DEF Bookkeeping
----------------------------------------------------------------------------
(* The order.  Both queues, of the semaphore and of each lock, serve first *)
(* come first served, and an update enters the second when it leaves the   *)
(* first: so they are sorted by number, and whoever is handled finds the   *)
(* earlier updates of its chat done.                                       *)

In(q) == {q[i] : i \in DOMAIN q}
Increasing(q) == \A i, j \in DOMAIN q : i < j => q[i] < q[j]

(* The updates that have had a slot. *)
Admitted == {u \in Updates : pc[u] \in {"lock", "run", "done"}}

SemSorted ==
  /\ Increasing(semQueue)
  /\ \A u \in Updates : pc[u] = "sem" <=> u \in In(semQueue)
  /\ \A u \in Updates : pc[u] = "new" => u > arrived
  /\ \A u \in Admitted, v \in Updates : pc[v] = "sem" => u < v

WaitersSorted ==
  \A l \in Lock :
    /\ Increasing(waiters[l])
    /\ In(waiters[l]) = {u \in Updates : pc[u] = "lock" /\ lockOf[u] = l}

EarlierDone ==
  \A u, v \in Updates :
    pc[u] \in {"run", "done"} /\ v < u /\ chatOf[v] = chatOf[u] => pc[v] = "done"

Ordered == Bookkeeping /\ SemSorted /\ WaitersSorted /\ EarlierDone

(* A sorted queue stays sorted when a greater number joins it, and when    *)
(* its head, the least, leaves.                                            *)
LEMMA Joined ==
  ASSUME NEW q \in Seq(Updates), Increasing(q), NEW u \in Updates,
         \A v \in In(q) : v < u
  PROVE  Increasing(Append(q, u)) /\ In(Append(q, u)) = In(q) \cup {u}
  <1>1. /\ Len(Append(q, u)) = Len(q) + 1 /\ Append(q, u) \in Seq(Updates)
        /\ \A i \in 1 .. Len(q) : Append(q, u)[i] = q[i]
        /\ Append(q, u)[Len(q) + 1] = u
    BY AppendProperties
  <1>2. DOMAIN q = 1 .. Len(q) /\ DOMAIN Append(q, u) = 1 .. Len(q) + 1 /\ Len(q) \in Nat
    BY <1>1, LenProperties
  <1>3. 1 .. Len(q) + 1 = (1 .. Len(q)) \cup {Len(q) + 1}
    BY <1>2
  <1>4. In(Append(q, u)) = In(q) \cup {u}
    BY <1>1, <1>2, <1>3 DEF In
  <1>5. ASSUME NEW i \in 1 .. Len(q) + 1, NEW j \in 1 .. Len(q) + 1, i < j
        PROVE  Append(q, u)[i] < Append(q, u)[j]
    <2>1. i \in 1 .. Len(q) /\ Append(q, u)[i] = q[i]
      BY <1>1, <1>2, <1>5
    <2>2. CASE j = Len(q) + 1
      BY <1>1, <1>2, <2>1, <2>2 DEF In
    <2>3. CASE j # Len(q) + 1
      <3>1. j \in 1 .. Len(q) /\ Append(q, u)[j] = q[j]
        BY <1>1, <1>2, <2>3
      <3> QED
        BY <1>2, <1>5, <2>1, <3>1 DEF Increasing
    <2> QED
      BY <2>2, <2>3
  <1> QED
    BY <1>2, <1>4, <1>5 DEF Increasing

LEMMA Left ==
  ASSUME NEW q \in Seq(Updates), Increasing(q), q # <<>>
  PROVE  /\ Increasing(Tail(q)) /\ In(Tail(q)) = In(q) \ {Head(q)}
         /\ Head(q) \in In(q) /\ \A v \in In(q) : v # Head(q) => Head(q) < v
  <1>1. /\ Tail(q) \in Seq(Updates) /\ Len(Tail(q)) = Len(q) - 1
        /\ \A i \in 1 .. Len(q) - 1 : Tail(q)[i] = q[i + 1]
    BY HeadTailProperties
  <1>2. /\ DOMAIN q = 1 .. Len(q) /\ DOMAIN Tail(q) = 1 .. Len(q) - 1
        /\ Len(q) \in Nat /\ Len(q) # 0 /\ 1 \in DOMAIN q
    BY <1>1, LenProperties, EmptySeq
  <1>3. Head(q) = q[1] /\ \A i \in 1 .. Len(q) : q[i] \in Nat
    <2>1. Head(q) = q[1]
      OBVIOUS
    <2>2. \A i \in 1 .. Len(q) : q[i] \in Updates
      BY ElementOfSeq
    <2> QED
      BY <2>1, <2>2 DEF Updates
  <1>4. \A i \in 1 .. Len(q) : i # 1 => q[1] < q[i]
    BY <1>2 DEF Increasing
  <1>5. Increasing(Tail(q))
    <2>1. SUFFICES ASSUME NEW i \in 1 .. Len(q) - 1, NEW j \in 1 .. Len(q) - 1, i < j
                   PROVE  Tail(q)[i] < Tail(q)[j]
      BY <1>2 DEF Increasing
    <2>2. i + 1 \in 1 .. Len(q) /\ j + 1 \in 1 .. Len(q) /\ i + 1 < j + 1
      BY <1>2, <2>1
    <2> QED
      BY <1>1, <1>2, <2>2 DEF Increasing
  <1>6. In(Tail(q)) = In(q) \ {Head(q)}
    <2>1. ASSUME NEW v \in In(Tail(q))
          PROVE  v \in In(q) \ {Head(q)}
      <3>1. PICK i \in 1 .. Len(q) - 1 : v = Tail(q)[i]
        BY <1>2 DEF In
      <3>2. v = q[i + 1] /\ i + 1 \in 1 .. Len(q) /\ i + 1 # 1
        BY <1>1, <1>2, <3>1
      <3>3. q[1] < v /\ q[1] \in Nat
        BY <1>2, <1>3, <1>4, <3>2
      <3> QED
        BY <1>2, <1>3, <3>2, <3>3 DEF In
    <2>2. ASSUME NEW v \in In(q), v # Head(q)
          PROVE  v \in In(Tail(q))
      <3>1. PICK i \in 1 .. Len(q) : v = q[i]
        BY <1>2 DEF In
      <3>2. i - 1 \in 1 .. Len(q) - 1 /\ Tail(q)[i - 1] = v
        BY <1>1, <1>2, <1>3, <2>2, <3>1
      <3> QED
        BY <1>2, <3>2 DEF In
    <2> QED
      BY <2>1, <2>2
  <1> QED
    BY <1>2, <1>3, <1>4, <1>5, <1>6 DEF In
LEMMA InUpdates ==
  ASSUME NEW q \in Seq(Updates)
  PROVE  In(q) \subseteq Updates
  BY ElementOfSeq, LenProperties DEF In

LEMMA OrderedInit == Init => Ordered
  <1> SUFFICES ASSUME Init PROVE Ordered
    OBVIOUS
  <1>1. In(<<>>) = {} /\ Increasing(<<>>)
    <2>1. DOMAIN <<>> = {}
      BY EmptySeq
    <2> QED
      BY <2>1 DEF In, Increasing
  <1>2. SemSorted
    BY <1>1 DEF Init, SemSorted, Admitted, Updates
  <1>3. WaitersSorted /\ EarlierDone
    BY <1>1 DEF Init, WaitersSorted, EarlierDone
  <1> QED
    BY <1>2, <1>3, BookkeepingInit DEF Ordered

LEMMA ArriveOrdered ==
  ASSUME Ordered, Arrive
  PROVE  SemSorted' /\ WaitersSorted' /\ EarlierDone'
  <1> DEFINE n == arrived + 1
  <1>0. TypeOK /\ Unarrived /\ arrived \in Nat
    BY DEF Ordered, Bookkeeping, TypeOK
  <1>1. n \in Updates /\ pc[n] = "new"
    BY <1>0, OrderedProcessorAssumption DEF Arrive, TypeOK, Updates, Unarrived
  <1>2. pc'[n] = "sem" /\ \A u \in Updates : u # n => pc'[u] = pc[u]
    BY <1>0, <1>1 DEF Arrive, TypeOK
  <1>3. \A u \in Updates : pc[u] # "new" => u < n
    BY <1>0 DEF Unarrived, Updates
  <1>4. semQueue \in Seq(Updates) /\ semQueue' = Append(semQueue, n) /\ arrived' = n
        /\ UNCHANGED <<chatOf, lockOf, waiters>>
    BY <1>0 DEF Arrive, TypeOK
  <1>5. \A v \in In(semQueue) : v < n
    BY <1>3, <1>4, InUpdates DEF Ordered, SemSorted
  <1>6. Increasing(semQueue') /\ In(semQueue') = In(semQueue) \cup {n}
    BY <1>1, <1>4, <1>5, Joined DEF Ordered, SemSorted
  <1>7. Admitted' = Admitted
    BY <1>1, <1>2 DEF Admitted
  <1>8. SemSorted'
    <2>1. \A u \in Updates : pc'[u] = "sem" <=> u \in In(semQueue')
      BY <1>1, <1>2, <1>6 DEF Ordered, SemSorted
    <2>2. \A u \in Updates : pc'[u] = "new" => u > n
      BY <1>0, <1>1, <1>2 DEF Ordered, SemSorted, Updates
    <2>3. \A u \in Admitted, v \in Updates : pc'[v] = "sem" => u < v
      BY <1>2, <1>3 DEF Ordered, SemSorted, Admitted
    <2> QED
      BY <1>4, <1>6, <1>7, <2>1, <2>2, <2>3 DEF SemSorted
  <1>9. WaitersSorted'
    BY <1>1, <1>2, <1>4 DEF Ordered, WaitersSorted
  <1>10. EarlierDone'
    BY <1>1, <1>2, <1>4 DEF Ordered, EarlierDone
  <1> QED
    BY <1>8, <1>9, <1>10

(* Whoever waits for the lock of u's chat waits in the queue that u finds, *)
(* and whoever runs holds that lock.                                       *)
LEMMA OthersInside ==
  ASSUME Ordered, NEW u \in Updates, NEW v \in Updates, chatOf[v] = chatOf[u],
         NEW l \in Lock, locks[chatOf[u]] = NoLock \/ l = locks[chatOf[u]]
  PROVE  /\ pc[v] = "lock" => v \in In(waiters[l])
         /\ pc[v] = "run" => locked[l]
  <1>1. chatOf[u] \in Chats /\ NoStaleEntries /\ HeldWhileRunning
    BY DEF Ordered, Bookkeeping, TypeOK
  <1>2. pc[v] \in {"lock", "run"} => v \in Inside(chatOf[u])
    BY DEF Inside
  <1>3. pc[v] \in {"lock", "run"} => lockOf[v] = l
    BY <1>1, <1>2 DEF NoStaleEntries
  <1> QED
    BY <1>1, <1>3 DEF Ordered, WaitersSorted, HeldWhileRunning

LEMMA EnterOrdered ==
  ASSUME Ordered, NEW u \in Updates, Enter(u)
  PROVE  SemSorted' /\ WaitersSorted' /\ EarlierDone'
  <1> DEFINE l == LockFor(u)
  <1>0. TypeOK /\ Unarrived /\ semQueue \in Seq(Updates) /\ waiters \in [Lock -> Seq(Updates)]
    BY DEF Ordered, Bookkeeping, TypeOK
  <1>1. l \in Lock /\ (locks[chatOf[u]] = NoLock \/ l = locks[chatOf[u]])
    BY <1>0 DEF TypeOK, LockFor, Lock
  <1>2. /\ pc[u] = "sem" /\ semQueue # <<>> /\ Head(semQueue) = u /\ semQueue' = Tail(semQueue)
        /\ pc'[u] \in {"lock", "run"} /\ (\A v \in Updates : v # u => pc'[v] = pc[v])
        /\ lockOf'[u] = l /\ (\A v \in Updates : v # u => lockOf'[v] = lockOf[v])
        /\ UNCHANGED <<arrived, chatOf>>
    BY <1>0 DEF Enter, TypeOK
  <1>3. /\ Increasing(semQueue') /\ In(semQueue') = In(semQueue) \ {u}
        /\ \A v \in In(semQueue) : v # u => u < v
    BY <1>0, <1>2, Left DEF Ordered, SemSorted
  <1>4. Admitted' = Admitted \cup {u}
    BY <1>2 DEF Admitted
  <1>5. SemSorted'
    <2>1. \A v \in Updates : pc'[v] = "sem" <=> v \in In(semQueue')
      BY <1>2, <1>3 DEF Ordered, SemSorted
    <2>2. \A v \in Updates : pc'[v] = "new" => v > arrived
      BY <1>2 DEF Ordered, SemSorted
    <2>3. \A w \in Admitted', v \in Updates : pc'[v] = "sem" => w < v
      BY <1>2, <1>3, <1>4 DEF Ordered, SemSorted
    <2> QED
      BY <1>2, <1>3, <2>1, <2>2, <2>3 DEF SemSorted
  <1>6. \A v \in Updates : v < u => pc[v] \in {"lock", "run", "done"}
    <2>1. SUFFICES ASSUME NEW v \in Updates, v < u
                   PROVE  pc[v] # "new" /\ pc[v] # "sem"
      BY <1>0 DEF TypeOK, PC
    <2>2. v \in Nat /\ u \in Nat /\ arrived \in Nat /\ u <= arrived
      BY <1>0, <1>2 DEF TypeOK, Unarrived, Updates
    <2>3. pc[v] # "new"
      BY <2>1, <2>2 DEF Ordered, SemSorted
    <2>4. pc[v] # "sem"
      BY <1>3, <2>1, <2>2 DEF Ordered, SemSorted
    <2> QED
      BY <2>3, <2>4
  <1>7. \A k \in Lock : \A v \in In(waiters[k]) : v \in Updates /\ pc[v] = "lock" /\ v < u
    BY <1>2 DEF Ordered, WaitersSorted, SemSorted, Admitted
  <1>8. CASE ~locked[l] /\ waiters[l] = <<>>
    <2>1. pc'[u] = "run" /\ UNCHANGED waiters
      BY <1>0, <1>8 DEF Enter, TypeOK
    <2>2. WaitersSorted'
      BY <1>2, <2>1 DEF Ordered, WaitersSorted
    <2>3. In(waiters[l]) = {}
      <3>1. DOMAIN <<>> = {}
        BY EmptySeq
      <3> QED
        BY <1>8, <3>1 DEF In
    <2>4. \A v \in Updates : v < u /\ chatOf[v] = chatOf[u] => pc[v] = "done"
      BY <1>1, <1>6, <1>8, <2>3, OthersInside
    <2>5. EarlierDone'
      BY <1>2, <2>1, <2>4 DEF Ordered, EarlierDone, Updates
    <2> QED
      BY <1>5, <2>2, <2>5
  <1>9. CASE ~(~locked[l] /\ waiters[l] = <<>>)
    <2>1. pc'[u] = "lock" /\ waiters' = [waiters EXCEPT ![l] = Append(@, u)]
      BY <1>0, <1>9 DEF Enter, TypeOK
    <2>2. waiters[l] \in Seq(Updates) /\ Increasing(waiters[l])
      BY <1>0, <1>1 DEF Ordered, WaitersSorted
    <2>3. /\ Increasing(Append(waiters[l], u))
          /\ In(Append(waiters[l], u)) = In(waiters[l]) \cup {u}
      BY <1>1, <1>7, <2>2, Joined
    <2>4. waiters'[l] = Append(waiters[l], u) /\ \A k \in Lock : k # l => waiters'[k] = waiters[k]
      BY <1>0, <1>1, <2>1
    <2>5. WaitersSorted'
      <3> SUFFICES ASSUME NEW k \in Lock
                   PROVE  /\ Increasing(waiters'[k])
                          /\ In(waiters'[k]) = {v \in Updates : pc'[v] = "lock" /\ lockOf'[v] = k}
        BY DEF WaitersSorted
      <3>1. In(waiters[k]) = {v \in Updates : pc[v] = "lock" /\ lockOf[v] = k}
            /\ Increasing(waiters[k])
        BY DEF Ordered, WaitersSorted
      <3>2. CASE k = l
        BY <1>2, <2>1, <2>3, <2>4, <3>1, <3>2
      <3>3. CASE k # l
        BY <1>2, <2>1, <2>4, <3>1, <3>3
      <3> QED
        BY <3>2, <3>3
    <2>6. EarlierDone'
      BY <1>2, <2>1 DEF Ordered, EarlierDone
    <2> QED
      BY <1>5, <2>5, <2>6
  <1> QED
    BY <1>8, <1>9

LEMMA AcquireOrdered ==
  ASSUME Ordered, NEW u \in Updates, Acquire(u)
  PROVE  SemSorted' /\ WaitersSorted' /\ EarlierDone'
  <1> DEFINE l == lockOf[u]
  <1>0. TypeOK /\ Unarrived /\ waiters \in [Lock -> Seq(Updates)]
    BY DEF Ordered, Bookkeeping, TypeOK
  <1>1. /\ pc[u] = "lock" /\ ~locked[l] /\ waiters[l] # <<>> /\ Head(waiters[l]) = u
        /\ waiters' = [waiters EXCEPT ![l] = Tail(@)]
        /\ pc'[u] = "run" /\ (\A v \in Updates : v # u => pc'[v] = pc[v])
        /\ UNCHANGED <<arrived, chatOf, semQueue, lockOf>>
    BY <1>0 DEF Acquire, TypeOK
  <1>2. l \in Lock /\ l = locks[chatOf[u]]
    BY <1>0, <1>1 DEF Ordered, Bookkeeping, NoStaleEntries, Inside, TypeOK, Lock
  <1>3. Admitted' = Admitted
    BY <1>1 DEF Admitted
  <1>4. SemSorted'
    BY <1>1, <1>3 DEF Ordered, SemSorted
  <1>5. waiters[l] \in Seq(Updates) /\ Increasing(waiters[l])
        /\ In(waiters[l]) = {v \in Updates : pc[v] = "lock" /\ lockOf[v] = l}
    BY <1>0, <1>2 DEF Ordered, WaitersSorted
  <1>6. /\ Increasing(Tail(waiters[l])) /\ In(Tail(waiters[l])) = In(waiters[l]) \ {u}
        /\ \A v \in In(waiters[l]) : v # u => u < v
    BY <1>1, <1>5, Left
  <1>7. waiters'[l] = Tail(waiters[l]) /\ \A k \in Lock : k # l => waiters'[k] = waiters[k]
    BY <1>0, <1>1, <1>2
  <1>8. WaitersSorted'
    <2> SUFFICES ASSUME NEW k \in Lock
                 PROVE  /\ Increasing(waiters'[k])
                        /\ In(waiters'[k]) = {v \in Updates : pc'[v] = "lock" /\ lockOf'[v] = k}
      BY DEF WaitersSorted
    <2>1. In(waiters[k]) = {v \in Updates : pc[v] = "lock" /\ lockOf[v] = k}
          /\ Increasing(waiters[k])
      BY DEF Ordered, WaitersSorted
    <2>2. CASE k = l
      BY <1>1, <1>6, <1>7, <2>1, <2>2
    <2>3. CASE k # l
      BY <1>1, <1>7, <2>1, <2>3
    <2> QED
      BY <2>2, <2>3
  <1>9. \A v \in Updates : v < u /\ chatOf[v] = chatOf[u] => pc[v] = "done"
    <2>1. SUFFICES ASSUME NEW v \in Updates, v < u, chatOf[v] = chatOf[u]
                   PROVE  pc[v] \notin {"new", "sem", "lock", "run"}
      BY <1>0 DEF TypeOK, PC
    <2>2. v \in Nat /\ u \in Nat /\ arrived \in Nat /\ u <= arrived /\ u \in Admitted
      BY <1>0, <1>1 DEF TypeOK, Unarrived, Updates, Admitted
    <2>3. pc[v] # "new" /\ pc[v] # "sem"
      BY <2>1, <2>2 DEF Ordered, SemSorted
    <2>4. pc[v] # "lock" /\ pc[v] # "run"
      <3> HIDE DEF l
      <3>1. /\ pc[v] = "lock" => v \in In(waiters[l])
            /\ pc[v] = "run" => locked[l]
        BY <1>2, <2>1, OthersInside
      <3>2. ~locked[l] /\ (v \in In(waiters[l]) => v = u \/ u < v)
        BY <1>1, <1>6 DEF l
      <3> QED
        BY <2>1, <2>2, <3>1, <3>2
    <2> QED
      BY <2>3, <2>4
  <1>10. EarlierDone'
    BY <1>1, <1>9 DEF Ordered, EarlierDone, Updates
  <1> QED
    BY <1>4, <1>8, <1>10

LEMMA FinishOrdered ==
  ASSUME Ordered, NEW u \in Updates, Finish(u)
  PROVE  SemSorted' /\ WaitersSorted' /\ EarlierDone'
  <1>1. /\ pc[u] = "run" /\ pc'[u] = "done" /\ (\A v \in Updates : v # u => pc'[v] = pc[v])
        /\ UNCHANGED <<arrived, chatOf, semQueue, lockOf, waiters>>
    BY DEF Finish, LockAfter, Ordered, Bookkeeping, TypeOK
  <1>2. Admitted' = Admitted
    BY <1>1 DEF Admitted
  <1>3. SemSorted' /\ WaitersSorted'
    BY <1>1, <1>2 DEF Ordered, SemSorted, WaitersSorted
  <1>4. EarlierDone'
    BY <1>1 DEF Ordered, EarlierDone
  <1> QED
    BY <1>3, <1>4
----------------------------------------------------------------------------
(* The refinement: every step is a step of ChatOrder, or changes nothing   *)
(* there.                                                                  *)

LEMMA OrderedStep == Ordered /\ [Next]_vars => Ordered'
  <1> SUFFICES ASSUME Ordered, [Next]_vars PROVE Ordered'
    OBVIOUS
  <1>1. Bookkeeping'
    BY BookkeepingStep DEF Ordered
  <1>2. CASE Arrive
    BY <1>1, <1>2, ArriveOrdered DEF Ordered
  <1>3. ASSUME NEW u \in Updates, Enter(u) \/ Acquire(u) \/ Finish(u)
        PROVE  Ordered'
    BY <1>1, <1>3, EnterOrdered, AcquireOrdered, FinishOrdered DEF Ordered
  <1>4. CASE UNCHANGED vars
    BY <1>1, <1>4 DEF vars, Ordered, SemSorted, WaitersSorted, EarlierDone, Admitted
  <1> QED
    BY <1>2, <1>3, <1>4 DEF Next

(* Each place in the code is one phase; one task moves at a time. *)
LEMMA PhaseIs ==
  ASSUME NEW u \in Updates
  PROVE  /\ pc[u] = "new" => Phase(u) = "new"
         /\ pc[u] \in {"sem", "lock"} => Phase(u) = "waiting"
         /\ pc[u] = "run" => Phase(u) = "handling"
         /\ pc[u] = "done" => Phase(u) = "done"
  BY DEF Phase

LEMMA PhaseMoves ==
  ASSUME TypeOK, NEW u \in Updates, pc'[u] \in PC,
         \A v \in Updates : v # u => pc'[v] = pc[v]
  PROVE  /\ [v \in Updates |-> Phase(v)]'
              = [[v \in Updates |-> Phase(v)] EXCEPT ![u] = Phase(u)']
         /\ pc'[u] \in {"sem", "lock"} => Phase(u)' = "waiting"
         /\ pc'[u] = "run" => Phase(u)' = "handling"
         /\ pc'[u] = "done" => Phase(u)' = "done"
  <1>1. \A v \in Updates : v # u => Phase(v)' = Phase(v)
    <2>1. SUFFICES ASSUME NEW v \in Updates, v # u PROVE Phase(v)' = Phase(v)
      OBVIOUS
    <2>2. pc'[v] = pc[v] /\ pc[v] \in PC
      BY <2>1 DEF TypeOK
    <2> QED
      BY <2>2 DEF Phase, PC
  <1>2. [v \in Updates |-> Phase(v)]'
          = [[v \in Updates |-> Phase(v)] EXCEPT ![u] = Phase(u)']
    <2> DEFINE f == [v \in Updates |-> Phase(v)]
    <2>1. f' = [v \in Updates |-> Phase(v)']
      OBVIOUS
    <2> QED
      BY <1>1, <2>1
  <1>3. /\ pc'[u] \in {"sem", "lock"} => Phase(u)' = "waiting"
        /\ pc'[u] = "run" => Phase(u)' = "handling"
        /\ pc'[u] = "done" => Phase(u)' = "done"
    BY DEF Phase
  <1> QED
    BY <1>2, <1>3

(* A task that comes to run, from either queue, handles its update in turn. *)
LEMMA RunsInTurn ==
  ASSUME Ordered, Ordered', NEW u \in Updates, pc[u] \in {"sem", "lock"}, pc'[u] = "run",
         \A v \in Updates : v # u => pc'[v] = pc[v],
         UNCHANGED <<arrived, chatOf>>
  PROVE  Order!Handle(u)
  <1> DEFINE phase == [v \in Updates |-> Phase(v)]
  <1>1. phase[u] = "waiting"
    BY PhaseIs
  <1>2. phase' = [phase EXCEPT ![u] = "handling"]
    BY PhaseMoves DEF Ordered, Bookkeeping, PC
  <1>3. \A v \in Updates : v < u /\ chatOf[v] = chatOf[u] => phase[v] = "done"
    BY DEF Phase, Ordered, EarlierDone, Updates
  <1> QED
    BY <1>1, <1>2, <1>3 DEF Order!Handle, Order!Updates, Updates

LEMMA StepsInOrder == Ordered /\ Ordered' /\ [Next]_vars => [Order!Next]_(Order!vars)
  <1> SUFFICES ASSUME Ordered, Ordered', [Next]_vars
               PROVE  [Order!Next]_(Order!vars)
    OBVIOUS
  <1> DEFINE phase == [v \in Updates |-> Phase(v)]
  <1>0. TypeOK /\ Unarrived /\ Order!Updates = Updates
    BY DEF Ordered, Bookkeeping, Order!Updates, Updates
  <1>1. CASE Arrive
    <2>1. arrived + 1 \in Updates
      BY <1>0, <1>1, OrderedProcessorAssumption DEF Arrive, TypeOK, Updates
    <2>2. phase' = [phase EXCEPT ![arrived + 1] = "waiting"]
      <3>1. pc' = [pc EXCEPT ![arrived + 1] = "sem"] /\ pc \in [Updates -> PC]
        BY <1>0, <1>1 DEF Arrive, TypeOK
      <3> DEFINE n == arrived + 1
      <3> HIDE DEF n
      <3>2. n \in Updates /\ pc'[n] = "sem" /\ \A v \in Updates : v # n => pc'[v] = pc[v]
        BY <2>1, <3>1 DEF n
      <3>3. phase' = [phase EXCEPT ![n] = "waiting"]
        BY <1>0, <3>2, PhaseMoves DEF PC
      <3> QED
        BY <3>3 DEF n
    <2>3. Order!Arrive
      BY <1>1, <2>2 DEF Arrive, Order!Arrive
    <2> QED
      BY <2>3 DEF Order!Next
  <1>2. ASSUME NEW u \in Updates, Enter(u)
        PROVE  [Order!Next]_(Order!vars)
    <2>1. /\ pc[u] = "sem" /\ pc'[u] \in {"lock", "run"}
          /\ (\A v \in Updates : v # u => pc'[v] = pc[v]) /\ UNCHANGED <<arrived, chatOf>>
      BY <1>0, <1>2 DEF Enter, TypeOK
    <2>2. CASE pc'[u] = "run"
      BY <1>0, <2>1, <2>2, RunsInTurn DEF Order!Next
    <2>3. CASE pc'[u] = "lock"
      <3>1. phase' = [phase EXCEPT ![u] = "waiting"] /\ phase[u] = "waiting"
        BY <1>0, <2>1, <2>3, PhaseIs, PhaseMoves DEF PC
      <3>2. phase' = phase
        BY <3>1
      <3> QED
        BY <2>1, <3>2 DEF Order!vars
    <2> QED
      BY <2>1, <2>2, <2>3
  <1>3. ASSUME NEW u \in Updates, Acquire(u)
        PROVE  [Order!Next]_(Order!vars)
    <2>1. /\ pc[u] = "lock" /\ pc'[u] = "run"
          /\ (\A v \in Updates : v # u => pc'[v] = pc[v]) /\ UNCHANGED <<arrived, chatOf>>
      BY <1>0, <1>3 DEF Acquire, TypeOK
    <2> QED
      BY <1>0, <2>1, RunsInTurn DEF Order!Next
  <1>4. ASSUME NEW u \in Updates, Finish(u)
        PROVE  [Order!Next]_(Order!vars)
    <2>1. /\ pc[u] = "run" /\ pc'[u] = "done"
          /\ (\A v \in Updates : v # u => pc'[v] = pc[v]) /\ UNCHANGED <<arrived, chatOf>>
      BY <1>0, <1>4 DEF Finish, LockAfter, TypeOK
    <2>2. phase[u] = "handling" /\ phase' = [phase EXCEPT ![u] = "done"]
      BY <1>0, <2>1, PhaseIs, PhaseMoves DEF PC
    <2>3. Order!Complete(u)
      BY <2>1, <2>2 DEF Order!Complete
    <2> QED
      BY <1>0, <2>3 DEF Order!Next
  <1>5. CASE UNCHANGED vars
    BY <1>5 DEF vars, Order!vars, Phase
  <1> QED
    BY <1>1, <1>2, <1>3, <1>4, <1>5 DEF Next

LEMMA StartsInOrder == Init => Order!Init
  BY DEF Init, Order!Init, Phase, Order!Updates, Updates

(* The scheduler implements the safety half of its docstring: whatever the *)
(* number of chats, updates and slots, and however tasks are resumed, the  *)
(* updates of a chat are handled one at a time and in order of arrival,    *)
(* although neither queue knows of the other's order (main.py:30-31).      *)
THEOREM ImplementsChatOrder == Spec => KeepsChatOrder
  <1>1. Init => Ordered
    BY OrderedInit
  <1>2. Ordered /\ [Next]_vars => Ordered'
    BY OrderedStep
  <1>3. Spec => []Ordered
    BY <1>1, <1>2, PTL DEF Spec
  <1>4. Spec => [][Order!Next]_(Order!vars)
    BY <1>3, StepsInOrder, PTL DEF Spec
  <1>5. Spec => Order!Init
    BY StartsInOrder DEF Spec
  <1> QED
    BY <1>4, <1>5 DEF KeepsChatOrder, Order!InOrder

-----------------------------------------------------------------------------
(***************************************************************************)
(* RateLimiter: the sliding window is sound for any limit, any window and  *)
(* any number of users: what the deque has forgotten never matters again.  *)
(* The invariant says what the deque is: the end of the log, all the rest  *)
(* of which lies outside the window for good.                              *)
(***************************************************************************)

(* The deque of user u is the end of his log. *)
EndOfLog(u) ==
  /\ Len(hits[u]) <= Len(log[u])
  /\ \A i \in 1 .. Len(hits[u]) :
       hits[u][i] = log[u][Len(log[u]) - Len(hits[u]) + i]

(* What was dropped is out of the window, and nothing is in the future. *)
PastIsPast(u) ==
  /\ \A i \in 1 .. Len(log[u]) : log[u][i] <= now
  /\ \A i \in 1 .. Len(log[u]) :
       i <= Len(log[u]) - Len(hits[u]) => now - log[u][i] > Window

Spaced(u) ==
  \A i \in 1 .. Len(log[u]) :
    i + Limit <= Len(log[u]) => log[u][i + Limit] - log[u][i] > Window

Memory ==
  /\ LimiterTypeOK
  /\ \A u \in Users : EndOfLog(u) /\ PastIsPast(u) /\ Spaced(u)

-----------------------------------------------------------------------------
(* The deque after the while loop, entry by entry. *)
LEMMA RestOf ==
  ASSUME MaxTime \in Nat, NEW h \in Seq(0 .. MaxTime), NEW n \in 0 .. Len(h)
  PROVE  LET q == SubSeq(h, n + 1, Len(h))
         IN  /\ q \in Seq(0 .. MaxTime)
             /\ Len(q) = Len(h) - n
             /\ \A i \in 1 .. Len(q) : q[i] = h[n + i]
<1> DEFINE q == SubSeq(h, n + 1, Len(h))
<1>1. Len(h) \in Nat /\ n \in Nat /\ n <= Len(h)
  <2>1. Len(h) \in Nat
    BY LenProperties
  <2> QED
    BY <2>1
<1>2. /\ n + 1 \in Int /\ Len(h) \in Int
      /\ \A i \in n + 1 .. Len(h) : h[i] \in 0 .. MaxTime
  BY <1>1, ElementOfSeq
<1>3. /\ q \in Seq(0 .. MaxTime)
      /\ Len(q) = IF n + 1 <= Len(h) THEN Len(h) - (n + 1) + 1 ELSE 0
      /\ \A i \in 1 .. Len(h) - (n + 1) + 1 : q[i] = h[n + 1 + i - 1]
  BY <1>2, SubSeqProperties
<1> HIDE DEF q
<1>4. Len(q) = Len(h) - n
  BY <1>1, <1>3
<1>5. ASSUME NEW i \in 1 .. Len(q)
      PROVE  q[i] = h[n + i]
  <2>1. /\ i \in 1 .. Len(h) - (n + 1) + 1
        /\ n + 1 + i - 1 = n + i
    BY <1>1, <1>4
  <2> QED
    BY <1>3, <2>1
<1> QED
  BY <1>3, <1>4, <1>5 DEF q

(* What the while loop of allow leaves of a deque: its end, which is still *)
(* the end of the log, and everything before it is out of the window.      *)
LEMMA DropKeepsMemory ==
  ASSUME LimiterTypeOK, NEW u \in Users, EndOfLog(u), PastIsPast(u),
         NEW n \in 0 .. Len(hits[u]), Dropped(hits[u], n),
         NEW q \in Seq(0 .. MaxTime), Len(q) = Len(hits[u]) - n,
         \A i \in 1 .. Len(q) : q[i] = hits[u][n + i]
  PROVE  /\ Len(q) <= Len(log[u])
         /\ \A i \in 1 .. Len(q) : q[i] = log[u][Len(log[u]) - Len(q) + i]
         /\ \A i \in 1 .. Len(log[u]) :
              i <= Len(log[u]) - Len(q) => now - log[u][i] > Window
         /\ Len(q) > 0 => now - q[1] <= Window
<1> DEFINE h == hits[u]
           l == log[u]
<1>1. /\ h \in Seq(0 .. MaxTime) /\ l \in Seq(0 .. MaxTime)
      /\ now \in Nat /\ Window \in Nat /\ n \in Nat
  BY RateLimiterAssumption DEF LimiterTypeOK
<1>2. /\ Len(h) \in Nat /\ \A i \in 1 .. Len(h) : h[i] \in 0 .. MaxTime /\ h[i] \in Nat
      /\ Len(l) \in Nat /\ \A i \in 1 .. Len(l) : l[i] \in 0 .. MaxTime /\ l[i] \in Nat
  <2>1. Len(h) \in Nat /\ Len(l) \in Nat
    BY <1>1, LenProperties
  <2>2. \A i \in 1 .. Len(h) : h[i] \in 0 .. MaxTime
    BY <1>1, ElementOfSeq
  <2>3. \A i \in 1 .. Len(l) : l[i] \in 0 .. MaxTime
    BY <1>1, ElementOfSeq
  <2>4. 0 .. MaxTime \subseteq Nat
    BY RateLimiterAssumption
  <2> QED
    BY <2>1, <2>2, <2>3, <2>4
<1>3. /\ Len(h) <= Len(l) /\ n <= Len(h)
      /\ \A i \in 1 .. Len(h) : h[i] = l[Len(l) - Len(h) + i]
  <2>1. n <= Len(h)
    BY <1>2
  <2> QED
    BY <2>1 DEF EndOfLog
<1>4. \A i \in 1 .. Len(l) : i <= Len(l) - Len(h) => now - l[i] > Window
  BY DEF PastIsPast
<1>5. /\ \A i \in 1 .. n : now - h[i] > Window
      /\ n < Len(h) => ~(now - h[n + 1] > Window)
  BY DEF Dropped, Expired
<1> HIDE DEF h, l
<1>6. /\ Len(q) = Len(h) - n
      /\ \A i \in 1 .. Len(h) - n : q[i] = h[n + i]
  BY DEF h
<1>7. \A i \in 1 .. Len(q) : q[i] = l[Len(l) - Len(q) + i]
  <2> SUFFICES ASSUME NEW i \in 1 .. Len(q)
               PROVE  q[i] = l[Len(l) - Len(q) + i]
    OBVIOUS
  <2>0. /\ i \in 1 .. Len(h) - n /\ i \in Nat /\ n \in Nat /\ n <= Len(h)
        /\ Len(h) \in Nat /\ Len(l) \in Nat /\ Len(q) = Len(h) - n
    BY <1>1, <1>2, <1>3, <1>6
  <2>1. n + i \in 1 .. Len(h)
    BY <2>0
  <2>2. h[n + i] = l[Len(l) - Len(h) + (n + i)]
    BY <1>3, <2>1
  <2>3. Len(l) - Len(h) + (n + i) = Len(l) - Len(q) + i
    <3>1. \A a, b, c, d \in Nat : a - b + (c + d) = a - (b - c) + d
      BY SMT
    <3>2. Len(l) - Len(h) + (n + i) = Len(l) - (Len(h) - n) + i
      BY <2>0, <3>1
    <3> QED
      BY <2>0, <3>2, Zenon
  <2> QED
    BY <1>6, <2>0, <2>2, <2>3
<1>8. \A i \in 1 .. Len(l) : i <= Len(l) - Len(q) => now - l[i] > Window
  <2> SUFFICES ASSUME NEW i \in 1 .. Len(l), i <= Len(l) - Len(q),
                      i > Len(l) - Len(h)
               PROVE  now - l[i] > Window
    BY <1>2, <1>4
  <2>1. PICK j \in 1 .. n : i = Len(l) - Len(h) + j
    <3>1. i - (Len(l) - Len(h)) \in 1 .. n
      BY <1>1, <1>2, <1>3, <1>6
    <3>2. i = Len(l) - Len(h) + (i - (Len(l) - Len(h)))
      BY <1>2
    <3> QED
      BY <3>1, <3>2
  <2>2. j \in 1 .. Len(h) /\ h[j] = l[i]
    BY <1>1, <1>2, <1>3, <2>1, SMTT(30)
  <2> QED
    BY <1>5, <2>2
<1>9. Len(q) > 0 => now - q[1] <= Window
  <2>1. SUFFICES ASSUME Len(q) > 0
                 PROVE  now - q[1] <= Window
    OBVIOUS
  <2>2. n < Len(h) /\ n + 1 \in 1 .. Len(h) /\ 1 \in 1 .. Len(h) - n
    BY <1>1, <1>2, <1>3, <1>6, <2>1
  <2>3. q[1] = h[n + 1]
    BY <1>6, <2>2
  <2>4. h[n + 1] \in Nat /\ ~(now - h[n + 1] > Window)
    BY <1>2, <1>5, <2>2
  <2>5. now - h[n + 1] <= Window
    BY <1>1, <2>4
  <2> QED
    BY <2>3, <2>5
<1>10. Len(q) <= Len(l)
  BY <1>1, <1>2, <1>3, <1>6
<1> QED
  BY <1>6, <1>7, <1>8, <1>9, <1>10 DEF h, l

-----------------------------------------------------------------------------
LEMMA MemoryInit == LimiterInit => Memory
BY RateLimiterAssumption
   DEF LimiterInit, Memory, LimiterTypeOK, EndOfLog, PastIsPast, Spaced, Never

LEMMA TickStep == Memory /\ Tick => Memory'
<1> SUFFICES ASSUME Memory, Tick
             PROVE  Memory'
  OBVIOUS
<1>1. LimiterTypeOK'
  BY RateLimiterAssumption DEF Memory, LimiterTypeOK, Tick
<1>2. ASSUME NEW u \in Users
      PROVE  EndOfLog(u)' /\ Spaced(u)'
  BY DEF Memory, EndOfLog, Spaced, Tick
<1>3. ASSUME NEW u \in Users
      PROVE  PastIsPast(u)'
  <2>1. now \in Nat /\ now' = now + 1 /\ log' = log /\ hits' = hits
    BY DEF Memory, LimiterTypeOK, Tick
  <2>2. \A i \in 1 .. Len(log[u]) : log[u][i] \in Nat
    <3>1. log[u] \in Seq(0 .. MaxTime) /\ 0 .. MaxTime \subseteq Nat
      BY RateLimiterAssumption DEF Memory, LimiterTypeOK
    <3> QED
      BY <3>1, ElementOfSeq
  <2>3. \A i \in 1 .. Len(log[u]) : log[u][i] <= now + 1
    <3>1. \A i \in 1 .. Len(log[u]) : log[u][i] <= now
      BY DEF Memory, PastIsPast
    <3> QED
      BY <2>1, <2>2, <3>1
  <2>4. ASSUME NEW i \in 1 .. Len(log[u]), i <= Len(log[u]) - Len(hits[u])
        PROVE  now' - log[u][i] > Window
    <3>1. now - log[u][i] > Window /\ log[u][i] \in Nat
      BY <2>2, <2>4 DEF Memory, PastIsPast
    <3> QED
      BY <2>1, <3>1, RateLimiterAssumption
  <2>5. \A i \in 1 .. Len(log'[u]) : log'[u][i] <= now'
    BY <2>1, <2>3
  <2>6. \A i \in 1 .. Len(log'[u]) :
          i <= Len(log'[u]) - Len(hits'[u]) => now' - log'[u][i] > Window
    BY <2>1, <2>4, Zenon
  <2> QED
    BY <2>5, <2>6 DEF PastIsPast
<1> QED
  BY <1>1, <1>2, <1>3 DEF Memory

(* The two outcomes of an attempt, q being what is left of the deque. *)
Allow(u, q) ==
  /\ Room(q)
  /\ hits' = [hits EXCEPT ![u] = Append(q, now)]
  /\ log' = [log EXCEPT ![u] = Append(log[u], now)]
  /\ told' = [told EXCEPT ![u] = Never]
  /\ UNCHANGED now

Refuse(u, q) ==
  /\ ~Room(q)
  /\ hits' = [hits EXCEPT ![u] = q]
  /\ told' = [told EXCEPT ![u] = now + RetryAfter(q) * Second]
  /\ UNCHANGED <<log, now>>

(* q is the end of u's log, the rest of which is out of the window. *)
Kept(u, q) ==
  /\ q \in Seq(0 .. MaxTime)
  /\ Len(q) <= Limit
  /\ Len(q) <= Len(log[u])
  /\ \A i \in 1 .. Len(q) : q[i] = log[u][Len(log[u]) - Len(q) + i]
  /\ \A i \in 1 .. Len(log[u]) :
       i <= Len(log[u]) - Len(q) => now - log[u][i] > Window
  /\ Len(q) > 0 => now - q[1] <= Window

LEMMA AttemptCases ==
  ASSUME Memory, NEW u \in Users, Attempt(u)
  PROVE  \E q \in Seq(0 .. MaxTime) : Kept(u, q) /\ (Allow(u, q) \/ Refuse(u, q))
<1>1. PICK n \in 0 .. Len(hits[u]) :
        /\ Dropped(hits[u], n)
        /\ \/ Allow(u, SubSeq(hits[u], n + 1, Len(hits[u])))
           \/ Refuse(u, SubSeq(hits[u], n + 1, Len(hits[u])))
  BY DEF Attempt, Allow, Refuse
<1>2. PICK q : q = SubSeq(hits[u], n + 1, Len(hits[u]))
  OBVIOUS
<1>3. /\ hits[u] \in Seq(0 .. MaxTime) /\ Len(hits[u]) <= Limit
      /\ MaxTime \in Nat /\ Limit \in Nat
  BY RateLimiterAssumption DEF Memory, LimiterTypeOK
<1>4. /\ q \in Seq(0 .. MaxTime)
      /\ Len(q) = Len(hits[u]) - n
      /\ \A i \in 1 .. Len(q) : q[i] = hits[u][n + i]
  BY <1>2, <1>3, RestOf
<1>5. Len(q) <= Limit
  <2>1. Len(hits[u]) \in Nat /\ n \in Nat
    BY <1>3, LenProperties
  <2> QED
    BY <1>3, <1>4, <2>1
<1>6. Kept(u, q)
  BY <1>1, <1>4, <1>5, DropKeepsMemory DEF Kept, Memory
<1> QED
  BY <1>1, <1>2, <1>4, <1>6

LEMMA AttemptStep ==
  ASSUME Memory, NEW u \in Users, Attempt(u)
  PROVE  Memory'
<1>1. PICK q \in Seq(0 .. MaxTime) : Kept(u, q) /\ (Allow(u, q) \/ Refuse(u, q))
  BY AttemptCases
<1>2. /\ now \in Nat /\ now \in 0 .. MaxTime /\ now' = now
      /\ hits \in [Users -> Seq(0 .. MaxTime)]
      /\ log \in [Users -> Seq(0 .. MaxTime)]
      /\ told \in [Users -> Nat]
      /\ Limit \in Nat \ {0} /\ Window \in Nat /\ Second \in Nat \ {0}
  BY <1>1, RateLimiterAssumption DEF Memory, LimiterTypeOK, Allow, Refuse
<1>3. ASSUME NEW v \in Users, v # u
      PROVE  EndOfLog(v)' /\ PastIsPast(v)' /\ Spaced(v)' /\ Len(hits'[v]) <= Limit
  <2>1. hits'[v] = hits[v] /\ log'[v] = log[v]
    BY <1>1, <1>2, <1>3 DEF Allow, Refuse
  <2> QED
    BY <1>2, <2>1 DEF Memory, LimiterTypeOK, EndOfLog, PastIsPast, Spaced
<1>4. CASE Refuse(u, q)
  <2>1. hits'[u] = q /\ log' = log
    BY <1>2, <1>4 DEF Refuse
  <2>2. EndOfLog(u)' /\ PastIsPast(u)' /\ Spaced(u)'
    BY <1>1, <1>2, <2>1 DEF Kept, Memory, EndOfLog, PastIsPast, Spaced
  <2>3. told' \in [Users -> Nat]
    <3>1. 1 \in 1 .. Len(q)
      BY <1>2, <1>4, LenProperties DEF Refuse, Room
    <3>2. q[1] \in Nat
      <4>1. q[1] \in 0 .. MaxTime
        BY <3>1, ElementOfSeq
      <4> QED
        BY <4>1, RateLimiterAssumption
    <3>3. (Window - (now - q[1])) \div Second \in Int
      BY <1>2, <3>2
    <3>4. RetryAfter(q) \in Nat
      BY <3>3 DEF RetryAfter
    <3>5. \A a, b, c \in Nat : a + b * c \in Nat
      OBVIOUS
    <3>6. now + RetryAfter(q) * Second \in Nat
      BY <1>2, <3>4, <3>5
    <3> QED
      BY <1>2, <1>4, <3>6 DEF Refuse
  <2>4. hits' \in [Users -> Seq(0 .. MaxTime)] /\ Len(hits'[u]) <= Limit
    BY <1>1, <1>2, <1>4 DEF Refuse, Kept
  <2> QED
    BY <1>2, <1>3, <2>1, <2>2, <2>3, <2>4 DEF Memory, LimiterTypeOK
<1>5. CASE Allow(u, q)
  <2> DEFINE l == log[u]
  <2>1. /\ hits'[u] = Append(q, now)
        /\ log'[u] = Append(l, now)
        /\ Len(q) < Limit
    BY <1>2, <1>5 DEF Allow, Room
  <2>2. /\ Len(q) \in Nat /\ Len(l) \in Nat /\ l \in Seq(0 .. MaxTime)
        /\ \A i \in 1 .. Len(l) : l[i] \in Nat
    <3>1. l \in Seq(0 .. MaxTime) /\ 0 .. MaxTime \subseteq Nat
      BY <1>2, RateLimiterAssumption
    <3> QED
      BY <3>1, ElementOfSeq, LenProperties
  <2>3. /\ Append(q, now) \in Seq(0 .. MaxTime)
        /\ Len(Append(q, now)) = Len(q) + 1
        /\ \A i \in 1 .. Len(q) : Append(q, now)[i] = q[i]
        /\ Append(q, now)[Len(q) + 1] = now
    BY <1>2, AppendProperties
  <2>4. /\ Append(l, now) \in Seq(0 .. MaxTime)
        /\ Len(Append(l, now)) = Len(l) + 1
        /\ \A i \in 1 .. Len(l) : Append(l, now)[i] = l[i]
        /\ Append(l, now)[Len(l) + 1] = now
    BY <1>2, <2>2, AppendProperties
  <2>5. /\ Len(q) <= Len(l)
        /\ \A i \in 1 .. Len(q) : q[i] = l[Len(l) - Len(q) + i]
        /\ \A i \in 1 .. Len(l) : i <= Len(l) - Len(q) => now - l[i] > Window
    BY <1>1 DEF Kept
  <2>6. /\ \A i \in 1 .. Len(l) : l[i] <= now
        /\ \A i \in 1 .. Len(l) : i + Limit <= Len(l) => l[i + Limit] - l[i] > Window
    BY DEF Memory, PastIsPast, Spaced
  <2> HIDE DEF l
  <2>7. EndOfLog(u)'
    <3>1. Len(hits'[u]) = Len(q) + 1 /\ Len(log'[u]) = Len(l) + 1
      BY <2>1, <2>3, <2>4
    <3>2. ASSUME NEW i \in 1 .. Len(q) + 1
          PROVE  hits'[u][i] = log'[u][Len(l) - Len(q) + i]
      <4>1. CASE i \in 1 .. Len(q)
        <5>1. Len(l) - Len(q) + i \in 1 .. Len(l)
          BY <2>2, <2>5, <4>1
        <5> QED
          BY <2>1, <2>3, <2>4, <2>5, <4>1, <5>1
      <4>2. CASE i = Len(q) + 1
        <5>1. Len(l) - Len(q) + i = Len(l) + 1
          BY <2>2, <4>2
        <5> QED
          BY <2>1, <2>3, <2>4, <4>2, <5>1
      <4> QED
        BY <2>2, <4>1, <4>2
    <3>3. (Len(l) + 1) - (Len(q) + 1) = Len(l) - Len(q) /\ Len(q) + 1 <= Len(l) + 1
      BY <2>2, <2>5
    <3> QED
      BY <3>1, <3>2, <3>3 DEF EndOfLog
  <2>8. PastIsPast(u)'
    <3>1. Len(hits'[u]) = Len(q) + 1 /\ Len(log'[u]) = Len(l) + 1
      BY <2>1, <2>3, <2>4
    <3>2. ASSUME NEW i \in 1 .. Len(l) + 1
          PROVE  log'[u][i] <= now'
      <4>1. CASE i \in 1 .. Len(l)
        BY <1>2, <2>1, <2>4, <2>6, <4>1
      <4>2. CASE i = Len(l) + 1
        BY <1>2, <2>1, <2>4, <4>2
      <4> QED
        BY <2>2, <4>1, <4>2
    <3>3. ASSUME NEW i \in 1 .. Len(l) + 1, i <= (Len(l) + 1) - (Len(q) + 1)
          PROVE  now' - log'[u][i] > Window
      <4>1. i \in 1 .. Len(l) /\ i <= Len(l) - Len(q)
        BY <2>2, <3>3
      <4> QED
        BY <1>2, <2>1, <2>4, <2>5, <4>1
    <3> QED
      BY <3>1, <3>2, <3>3 DEF PastIsPast
  <2>9. Spaced(u)'
    <3>1. Len(log'[u]) = Len(l) + 1
      BY <2>1, <2>4
    <3>2. ASSUME NEW i \in 1 .. Len(l) + 1, i + Limit <= Len(l) + 1
          PROVE  log'[u][i + Limit] - log'[u][i] > Window
      <4>1. i \in 1 .. Len(l) /\ log'[u][i] = l[i]
        <5>1. i \in 1 .. Len(l)
          BY <1>2, <2>2, <3>2
        <5> QED
          BY <2>1, <2>4, <5>1
      <4>2. CASE i + Limit = Len(l) + 1
        <5>1. i <= Len(l) - Len(q)
          BY <1>2, <2>1, <2>2, <4>2
        <5>2. now - l[i] > Window
          BY <2>5, <4>1, <5>1
        <5> QED
          BY <2>1, <2>4, <4>1, <4>2, <5>2
      <4>3. CASE i + Limit <= Len(l)
        <5>1. i + Limit \in 1 .. Len(l)
          BY <1>2, <2>2, <4>3
        <5> QED
          BY <2>1, <2>4, <2>6, <4>1, <4>3, <5>1
      <4> QED
        BY <1>2, <2>2, <3>2, <4>2, <4>3
    <3> QED
      BY <3>1, <3>2 DEF Spaced
  <2>10. /\ hits' \in [Users -> Seq(0 .. MaxTime)] /\ Len(hits'[u]) <= Limit
         /\ log' \in [Users -> Seq(0 .. MaxTime)] /\ told' \in [Users -> Nat]
    <3>1. Len(hits'[u]) <= Limit
      BY <1>2, <2>1, <2>2, <2>3
    <3> QED
      BY <1>2, <1>5, <2>3, <2>4, <3>1 DEF Allow, Never, l
  <2> QED
    BY <1>2, <1>3, <2>7, <2>8, <2>9, <2>10 DEF Memory, LimiterTypeOK
<1> QED
  BY <1>1, <1>4, <1>5

(* The deque is the end of the log, and the rest is past, in every state.  *)
THEOREM MemoryInvariant == LimiterSpec => []Memory
<1>1. Memory /\ [LimiterNext]_limiterVars => Memory'
  <2> SUFFICES ASSUME Memory, [LimiterNext]_limiterVars
               PROVE  Memory'
    OBVIOUS
  <2>1. CASE Tick
    BY <2>1, TickStep
  <2>2. CASE \E u \in Users : Attempt(u)
    BY <2>2, AttemptStep
  <2>3. CASE UNCHANGED limiterVars
    BY <2>3 DEF limiterVars, Memory, LimiterTypeOK, EndOfLog, PastIsPast, Spaced
  <2> QED
    BY <2>1, <2>2, <2>3 DEF LimiterNext
<1> QED
  BY MemoryInit, <1>1, PTL DEF LimiterSpec

(* However many users there are and however the attempts fall, no window   *)
(* of the configured length holds more than Limit allowed attempts of a    *)
(* user.                                                                   *)
THEOREM WindowIsBounded == LimiterSpec => []WindowBound
<1>1. Memory => WindowBound
  BY DEF Memory, Spaced, WindowBound
<1> QED
  BY MemoryInvariant, <1>1, PTL

(* The deque never holds more than Limit times. *)
THEOREM LimiterTypeCorrect == LimiterSpec => []LimiterTypeOK
<1>1. Memory => LimiterTypeOK
  BY DEF Memory
<1> QED
  BY MemoryInvariant, <1>1, PTL

(* A user is refused only while Limit of his own allowed attempts lie in   *)
(* the window that ends at the refusal.                                    *)
THEOREM RefusalsAreJustified == LimiterSpec => RefusedOnlyWhenFull
<1>1. ASSUME Memory, NEW u \in Users, Attempt(u), log'[u] = log[u]
      PROVE  Len(log[u]) >= Limit /\ now - log[u][Len(log[u]) - Limit + 1] <= Window
  <2>1. PICK q \in Seq(0 .. MaxTime) : Kept(u, q) /\ (Allow(u, q) \/ Refuse(u, q))
    BY <1>1, AttemptCases
  <2>2. /\ log \in [Users -> Seq(0 .. MaxTime)] /\ now \in 0 .. MaxTime
        /\ Limit \in Nat /\ Limit > 0
    BY <1>1, RateLimiterAssumption DEF Memory, LimiterTypeOK
  <2>3. Len(q) \in Nat /\ Len(log[u]) \in Nat
    BY <2>2, LenProperties
  <2>4. ~Allow(u, q)
    <3>1. SUFFICES ASSUME Allow(u, q)
                   PROVE  FALSE
      OBVIOUS
    <3>2. log'[u] = Append(log[u], now)
      BY <2>2, <3>1 DEF Allow
    <3>3. Len(log'[u]) = Len(log[u]) + 1
      BY <2>2, <3>2, AppendProperties
    <3> QED
      BY <1>1, <2>3, <3>3
  <2>5. Len(q) = Limit
    BY <2>1, <2>2, <2>3, <2>4 DEF Kept, Refuse, Room
  <2>6. q[1] = log[u][Len(log[u]) - Limit + 1] /\ now - q[1] <= Window
    <3>1. 1 \in 1 .. Len(q) /\ Len(q) > 0
      BY <2>2, <2>5
    <3> QED
      BY <2>1, <2>5, <3>1 DEF Kept
  <2>7. Len(q) <= Len(log[u])
    BY <2>1 DEF Kept
  <2> QED
    BY <2>2, <2>3, <2>5, <2>6, <2>7
<1>2. Memory /\ [LimiterNext]_limiterVars =>
        [\A u \in Users :
           Attempt(u) /\ log'[u] = log[u]
             => LET n == Len(log[u])
                IN  n >= Limit /\ now - log[u][n - Limit + 1] <= Window]_limiterVars
  BY <1>1
<1> QED
  BY MemoryInvariant, <1>2, PTL DEF LimiterSpec, RefusedOnlyWhenFull

-----------------------------------------------------------------------------
(* What a refused user was told, against the oldest entry of his deque:    *)
(* a second after the time he was told, that entry has expired.            *)
Promised ==
  \A u \in Users :
    told[u] # Never => Len(hits[u]) > 0 /\ hits[u][1] + Window < told[u] + Second

(* Cutting off the part of a second costs less than a second. *)
LEMMA WholeSeconds ==
  ASSUME NEW left \in Nat, NEW s \in Nat \ {0}
  PROVE  left \div s \in Nat /\ left < (left \div s) * s + s
<1>1. left = s * (left \div s) + (left % s) /\ left % s \in 0 .. s - 1 /\ left \div s \in Nat
  BY SMT
<1>2. \A a, b \in Nat : a * b = b * a
  BY SMT
<1>3. s * (left \div s) = (left \div s) * s
  BY <1>1, <1>2
<1>4. (left \div s) * s \in Nat
  BY <1>1, SMT
<1> QED
  BY <1>1, <1>3, <1>4

LEMMA RefusalPromises ==
  ASSUME Memory, NEW u \in Users, NEW q \in Seq(0 .. MaxTime), Kept(u, q), Refuse(u, q)
  PROVE  Len(hits'[u]) > 0 /\ hits'[u][1] + Window < told'[u] + Second
<1>1. /\ now \in Nat /\ Window \in Nat /\ Second \in Nat \ {0} /\ Limit \in Nat \ {0}
      /\ hits'[u] = q /\ told'[u] = now + RetryAfter(q) * Second
  BY RateLimiterAssumption DEF Memory, LimiterTypeOK, Refuse
<1>2. Len(q) > 0 /\ q[1] \in Nat /\ q[1] <= now /\ now - q[1] <= Window
  <2>1. Len(q) \in Nat /\ Len(q) >= Limit
    BY <1>1, LenProperties DEF Refuse, Room
  <2>2. 1 \in 1 .. Len(q) /\ Len(q) > 0
    BY <1>1, <2>1
  <2>3. q[1] \in 0 .. MaxTime
    BY <2>2, ElementOfSeq
  <2>4. q[1] = log[u][Len(log[u]) - Len(q) + 1] /\ Len(q) <= Len(log[u]) /\ now - q[1] <= Window
    BY <2>2 DEF Kept
  <2>5. log[u] \in Seq(0 .. MaxTime)
    BY DEF Memory, LimiterTypeOK
  <2>6. Len(log[u]) \in Nat
    BY <2>5, LenProperties
  <2>7. Len(log[u]) - Len(q) + 1 \in 1 .. Len(log[u])
    BY <2>1, <2>2, <2>4, <2>6
  <2>8. log[u][Len(log[u]) - Len(q) + 1] <= now
    BY <2>7 DEF Memory, PastIsPast
  <2> QED
    BY <2>2, <2>3, <2>4, <2>8, RateLimiterAssumption
<1> DEFINE left == Window - (now - q[1])
           secs == left \div Second
<1>3. left \in Nat
  BY <1>1, <1>2
<1>4. secs \in Nat /\ left < secs * Second + Second
  BY <1>1, <1>3, WholeSeconds
<1>5. RetryAfter(q) = IF secs < 1 THEN 1 ELSE secs
  BY DEF RetryAfter
<1>6. now + left = q[1] + Window
  BY <1>1, <1>2
<1> HIDE DEF left, secs
<1>7. RetryAfter(q) * Second \in Nat /\ secs * Second <= RetryAfter(q) * Second
  <2>1. CASE secs < 1
    <3>1. secs = 0 /\ RetryAfter(q) = 1
      BY <1>4, <1>5, <2>1
    <3> QED
      BY <1>1, <3>1
  <2>2. CASE ~(secs < 1)
    <3>1. RetryAfter(q) = secs
      BY <1>5, <2>2
    <3>2. \A a, b \in Nat : a * b \in Nat
      BY SMT
    <3>3. secs * Second \in Nat
      BY <1>1, <1>4, <3>2
    <3> QED
      BY <3>1, <3>3
  <2> QED
    BY <2>1, <2>2
<1>8. secs * Second \in Nat
  <2>1. \A a, b \in Nat : a * b \in Nat
    BY SMT
  <2> QED
    BY <1>1, <1>4, <2>1
<1>9. \A a, b, c, d, e, f, g \in Nat :
        b < c + d /\ c <= e /\ a + b = f + g => f + g < a + e + d
  BY SMT
<1>10. q[1] + Window < now + RetryAfter(q) * Second + Second
  BY <1>1, <1>2, <1>3, <1>4, <1>6, <1>7, <1>8, <1>9
<1> QED
  BY <1>1, <1>2, <1>10

LEMMA PromisedStep == Memory /\ Promised /\ [LimiterNext]_limiterVars => Promised'
<1> SUFFICES ASSUME Memory, Promised, [LimiterNext]_limiterVars
             PROVE  Promised'
  OBVIOUS
<1>1. CASE Tick \/ UNCHANGED limiterVars
  BY <1>1 DEF Promised, Tick, limiterVars
<1>2. CASE \E u \in Users : Attempt(u)
  <2>1. PICK u \in Users : Attempt(u)
    BY <1>2
  <2>2. PICK q \in Seq(0 .. MaxTime) : Kept(u, q) /\ (Allow(u, q) \/ Refuse(u, q))
    BY <2>1, AttemptCases
  <2>3. hits \in [Users -> Seq(0 .. MaxTime)] /\ told \in [Users -> Nat]
    BY DEF Memory, LimiterTypeOK
  <2>4. ASSUME NEW v \in Users, told'[v] # Never
        PROVE  Len(hits'[v]) > 0 /\ hits'[v][1] + Window < told'[v] + Second
    <3>1. CASE v # u
      <4>1. hits'[v] = hits[v] /\ told'[v] = told[v]
        BY <2>2, <2>3, <3>1 DEF Allow, Refuse
      <4> QED
        BY <2>4, <4>1 DEF Promised
    <3>2. CASE v = u /\ Allow(u, q)
      BY <2>3, <2>4, <3>2 DEF Allow
    <3>3. CASE v = u /\ Refuse(u, q)
      BY <2>2, <3>3, RefusalPromises
    <3> QED
      BY <2>2, <3>1, <3>2, <3>3
  <2> QED
    BY <2>4 DEF Promised
<1> QED
  BY <1>1, <1>2 DEF LimiterNext

(* A user who waits a second longer than he was told is not refused, for   *)
(* any limit, window and resolution of the clock.                          *)
THEOREM WaitingIsEnough == LimiterSpec => RetryNearlyEnough
<1>1. LimiterInit => Promised
  BY DEF LimiterInit, Promised
<1>2. ASSUME Memory, Promised, NEW u \in Users,
             told[u] # Never, now >= told[u] + Second, Attempt(u)
      PROVE  log'[u] # log[u]
  <2>1. PICK n \in 0 .. Len(hits[u]) :
          /\ Dropped(hits[u], n)
          /\ \/ Allow(u, SubSeq(hits[u], n + 1, Len(hits[u])))
             \/ Refuse(u, SubSeq(hits[u], n + 1, Len(hits[u])))
    BY <1>2 DEF Attempt, Allow, Refuse
  <2>2. PICK q : q = SubSeq(hits[u], n + 1, Len(hits[u]))
    OBVIOUS
  <2>3. /\ hits[u] \in Seq(0 .. MaxTime) /\ log \in [Users -> Seq(0 .. MaxTime)]
        /\ Len(hits[u]) <= Limit /\ now \in Nat /\ told[u] \in Nat
        /\ MaxTime \in Nat /\ Limit \in Nat /\ Window \in Nat /\ Second \in Nat
    BY <1>2, RateLimiterAssumption DEF Memory, LimiterTypeOK
  <2>4. Len(hits[u]) \in Nat /\ Len(q) = Len(hits[u]) - n
    BY <2>2, <2>3, RestOf, LenProperties
  <2>5. Len(hits[u]) > 0 /\ hits[u][1] + Window < told[u] + Second
    BY <1>2 DEF Promised
  <2>6. hits[u][1] \in Nat
    <3>1. 1 \in 1 .. Len(hits[u])
      BY <2>4, <2>5
    <3>2. hits[u][1] \in 0 .. MaxTime
      BY <2>3, <3>1, ElementOfSeq
    <3> QED
      BY <2>3, <3>2
  <2>7. now - hits[u][1] > Window
    <3>1. now >= told[u] + Second
      BY <1>2
    <3>2. \A a, b, c, d, e \in Nat : a >= b + c /\ d + e < b + c => a - d > e
      BY SMT
    <3> QED
      BY <2>3, <2>5, <2>6, <3>1, <3>2
  <2>8. n # 0
    <3>1. SUFFICES ASSUME n = 0
                   PROVE  FALSE
      OBVIOUS
    <3>2. ~(now - hits[u][1] > Window)
      BY <2>1, <2>4, <2>5, <3>1 DEF Dropped, Expired
    <3> QED
      BY <2>7, <3>2
  <2>9. Allow(u, q)
    <3>1. Room(q)
      BY <2>1, <2>3, <2>4, <2>8 DEF Room
    <3> QED
      BY <2>1, <2>2, <3>1 DEF Refuse
  <2>10. log'[u] = Append(log[u], now)
    BY <2>3, <2>9 DEF Allow
  <2>11. now \in 0 .. MaxTime /\ log[u] \in Seq(0 .. MaxTime)
    BY <1>2, <2>3 DEF Memory, LimiterTypeOK
  <2>12. Len(log'[u]) = Len(log[u]) + 1 /\ Len(log[u]) \in Nat
    BY <2>10, <2>11, AppendProperties, LenProperties
  <2> QED
    BY <2>12
<1>3. Memory /\ Promised /\ [LimiterNext]_limiterVars =>
        [\A u \in Users :
           told[u] # Never /\ now >= told[u] + Second /\ Attempt(u)
             => log'[u] # log[u]]_limiterVars
  BY <1>2
<1> QED
  BY MemoryInvariant, PromisedStep, <1>1, <1>3, PTL DEF LimiterSpec, RetryNearlyEnough
=============================================================================
