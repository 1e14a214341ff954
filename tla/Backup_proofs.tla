---------------------------- MODULE Backup_proofs ----------------------------
(***************************************************************************)
(* A restore exchanges the key at once and the database in its turn, so    *)
(* for a while the two do not belong together.  That nothing is stored     *)
(* under the wrong key meanwhile rests on the order of the queue: who is   *)
(* before the waiting restore encrypted with the old key, and writes into  *)
(* the old database; who is behind it encrypted with the new one.  The     *)
(* invariant Sorted says so, for any number of requests that save, any     *)
(* failures and any crashes.                                               *)
(***************************************************************************)
EXTENDS Backup, SequenceTheorems, TLAPS

In(q) == {q[i] : i \in DOMAIN q}
Distinct(q) == \A i, j \in DOMAIN q : q[i] = q[j] => i = j
Before(q, a, b) == \E i, j \in DOMAIN q : i < j /\ q[i] = a /\ q[j] = b

(* r waits behind the restore. *)
Behind(r) == Before(queue, Restorer, r)

Under(hosts, key) == \A x \in hosts : x.key = key
Saving == {s \in Savers : pc[s] = "saving"}

(* The key that each waiting row was encrypted with. *)
RowsInOrder ==
  /\ pc[Restorer] = "replacing"
       => \A s \in Saving : row[s].key = IF Behind(s) THEN memKey ELSE old.key
  /\ pc[Restorer] = "undoing"
       => \A s \in Saving : open \/ Behind(s) => row[s].key = memKey
  /\ ~MidRestore => \A s \in Saving : open => row[s].key = memKey

(* The key that the stored rows and those of the snapshot are under. *)
RowsUnder ==
  ~torn =>
    /\ pc[Restorer] = "replacing" => Under(rows, old.key) /\ Under(old.rows, old.key)
    /\ pc[Restorer] = "undoing" => Under(old.rows, memKey) /\ (open => Under(rows, memKey))
    /\ ~MidRestore => open /\ Under(rows, memKey)

(* The keys differ after a second failure only, until the process ends.    *)
KeysOfRestore ==
  /\ memKey # keyFile => torn /\ pc[Restorer] = "failed"
  /\ pc[Restorer] = "replacing" => memKey = "backup" /\ old.key \in Keys
  /\ pc[Restorer] = "undoing" => memKey = old.key /\ failures # 0

(* A backup that no restore has spoilt is copied before the restore began  *)
(* or after it ended. *)
CopyUnder ==
  ~spoilt =>
    /\ pc[Builder] \in Building /\ MidRestore
         => /\ pc[Builder] = "copying"
            /\ Behind(Builder) \/ (pc[Restorer] = "undoing" /\ ~open)
    /\ pc[Builder] \in {"counting", "counting2"} => Under(copy.rows, keyFile)
    /\ pc[Builder] = "built" => Under(copy.rows, copy.key)

Sorted ==
  /\ TypeOK
  /\ RowsInOrder /\ RowsUnder /\ KeysOfRestore /\ CopyUnder

-----------------------------------------------------------------------------
(* Queues: who is in it and who is before whom, after each operation.      *)

LEMMA Asked ==
  ASSUME NEW S, NEW q \in Seq(S), NEW e \in S, Distinct(q), e \notin In(q)
  PROVE  /\ Append(q, e) \in Seq(S) /\ Distinct(Append(q, e))
         /\ In(Append(q, e)) = In(q) \cup {e}
         /\ \A a, b : Before(Append(q, e), a, b)
                        <=> Before(q, a, b) \/ (a \in In(q) /\ b = e)
<1> DEFINE p == Append(q, e)
           n == Len(q)
<1>1. n \in Nat /\ DOMAIN q = 1 .. n
  BY LenProperties
<1>2. p \in Seq(S) /\ Len(p) = n + 1 /\ (\A i \in 1 .. n : p[i] = q[i]) /\ p[n + 1] = e
  BY AppendProperties
<1>3. DOMAIN p = 1 .. n + 1
  BY <1>2, LenProperties
<1> HIDE DEF p, n
<1>4. 1 .. n + 1 = (1 .. n) \cup {n + 1}
  BY <1>1
<1>5. Distinct(p)
  BY <1>1, <1>2, <1>3, <1>4 DEF Distinct, In
<1>6. In(p) = In(q) \cup {e}
  BY <1>1, <1>2, <1>3, <1>4 DEF In
<1>7. ASSUME NEW a, NEW b
      PROVE  Before(p, a, b) <=> Before(q, a, b) \/ (a \in In(q) /\ b = e)
  <2>1. ASSUME Before(p, a, b)
        PROVE  Before(q, a, b) \/ (a \in In(q) /\ b = e)
    <3>1. PICK i, j \in 1 .. n + 1 : i < j /\ p[i] = a /\ p[j] = b
      BY <2>1, <1>3 DEF Before
    <3>2. i \in 1 .. n /\ q[i] = a
      BY <1>1, <1>2, <3>1
    <3>3. CASE j = n + 1
      BY <1>1, <1>2, <3>1, <3>2, <3>3 DEF In
    <3>4. CASE j # n + 1
      <4>1. j \in 1 .. n /\ q[j] = b
        BY <1>1, <1>2, <3>1, <3>4
      <4> QED
        BY <1>1, <3>1, <3>2, <4>1 DEF Before
    <3> QED
      BY <3>3, <3>4
  <2>2. ASSUME Before(q, a, b)
        PROVE  Before(p, a, b)
    <3>1. PICK i, j \in 1 .. n : i < j /\ q[i] = a /\ q[j] = b
      BY <2>2, <1>1 DEF Before
    <3>2. p[i] = a /\ p[j] = b
      BY <1>2, <3>1
    <3> QED
      BY <1>3, <1>4, <3>1, <3>2 DEF Before
  <2>3. ASSUME a \in In(q), b = e
        PROVE  Before(p, a, b)
    <3>1. PICK i \in 1 .. n : q[i] = a
      BY <2>3, <1>1 DEF In
    <3>2. i < n + 1 /\ p[i] = a /\ p[n + 1] = b /\ n + 1 \in 1 .. n + 1
      BY <1>1, <1>2, <2>3, <3>1
    <3> QED
      BY <1>3, <1>4, <3>1, <3>2 DEF Before
  <2> QED
    BY <2>1, <2>2, <2>3
<1> QED
  BY <1>2, <1>5, <1>6, <1>7 DEF p

LEMMA Served ==
  ASSUME NEW S, NEW q \in Seq(S), q # <<>>, Distinct(q)
  PROVE  /\ Tail(q) \in Seq(S) /\ Distinct(Tail(q))
         /\ In(Tail(q)) = In(q) \ {Head(q)} /\ Head(q) \in In(q)
         /\ \A b \in In(q) : b # Head(q) => Before(q, Head(q), b)
         /\ \A a : ~Before(q, a, Head(q))
         /\ \A a, b : Before(Tail(q), a, b) <=> Before(q, a, b) /\ a # Head(q)
<1> DEFINE t == Tail(q)
           n == Len(q)
<1>1. n \in Nat /\ n >= 1 /\ DOMAIN q = 1 .. n
  BY LenProperties, EmptySeq
<1>2. t \in Seq(S) /\ Len(t) = n - 1 /\ \A i \in 1 .. n - 1 : t[i] = q[i + 1]
  BY HeadTailProperties
<1>3. DOMAIN t = 1 .. n - 1
  BY <1>2, LenProperties
<1>4. Head(q) = q[1]
  OBVIOUS
<1> HIDE DEF t, n
<1>5. Distinct(t)
  <2>1. SUFFICES ASSUME NEW i \in 1 .. n - 1, NEW j \in 1 .. n - 1, t[i] = t[j]
                 PROVE  i = j
    BY <1>3 DEF Distinct
  <2>2. q[i + 1] = q[j + 1] /\ i + 1 \in 1 .. n /\ j + 1 \in 1 .. n
    BY <1>1, <1>2, <2>1
  <2>3. i + 1 = j + 1
    BY <1>1, <2>2 DEF Distinct
  <2> QED
    BY <1>1, <2>3
<1>6. In(t) = In(q) \ {q[1]} /\ q[1] \in In(q)
  <2>1. ASSUME NEW x \in In(t)
        PROVE  x \in In(q) \ {q[1]}
    <3>1. PICK i \in 1 .. n - 1 : t[i] = x
      BY <2>1, <1>3 DEF In
    <3>2. x = q[i + 1] /\ i + 1 \in 1 .. n /\ i + 1 # 1 /\ 1 \in 1 .. n
      BY <1>1, <1>2, <3>1
    <3> QED
      BY <1>1, <3>2 DEF In, Distinct
  <2>2. ASSUME NEW x \in In(q), x # q[1]
        PROVE  x \in In(t)
    <3>1. PICK i \in 1 .. n : q[i] = x
      BY <2>2, <1>1 DEF In
    <3>2. i - 1 \in 1 .. n - 1 /\ t[i - 1] = x
      BY <1>1, <1>2, <2>2, <3>1
    <3> QED
      BY <1>3, <3>2 DEF In
  <2>3. q[1] \in In(q)
    <3>1. 1 \in 1 .. n
      BY <1>1
    <3> QED
      BY <1>1, <3>1 DEF In
  <2> QED
    BY <2>1, <2>2, <2>3
<1>7. ASSUME NEW b \in In(q), b # q[1]
      PROVE  Before(q, q[1], b)
  <2>1. PICK i \in 1 .. n : q[i] = b
    BY <1>1 DEF In
  <2>2. 1 < i /\ 1 \in 1 .. n
    BY <1>1, <1>7, <2>1
  <2> QED
    BY <1>1, <2>1, <2>2 DEF Before
<1>8. ASSUME NEW a
      PROVE  ~Before(q, a, q[1])
  BY <1>1 DEF Before, Distinct
<1>9. ASSUME NEW a, NEW b
      PROVE  Before(t, a, b) <=> Before(q, a, b) /\ a # q[1]
  <2>1. ASSUME Before(t, a, b)
        PROVE  Before(q, a, b) /\ a # q[1]
    <3>1. PICK i, j \in 1 .. n - 1 : i < j /\ t[i] = a /\ t[j] = b
      BY <2>1, <1>3 DEF Before
    <3>2. q[i + 1] = a /\ q[j + 1] = b /\ i + 1 < j + 1 /\ i + 1 # 1
          /\ {1, i + 1, j + 1} \subseteq 1 .. n
      BY <1>1, <1>2, <3>1
    <3> QED
      BY <1>1, <3>2 DEF Before, Distinct
  <2>2. ASSUME Before(q, a, b), a # q[1]
        PROVE  Before(t, a, b)
    <3>1. PICK i, j \in 1 .. n : i < j /\ q[i] = a /\ q[j] = b
      BY <2>2, <1>1 DEF Before
    <3>2. {i - 1, j - 1} \subseteq 1 .. n - 1 /\ i - 1 < j - 1
      BY <1>1, <2>2, <3>1
    <3>3. t[i - 1] = a /\ t[j - 1] = b
      BY <1>1, <1>2, <3>1, <3>2
    <3> QED
      BY <1>3, <3>2, <3>3 DEF Before
  <2> QED
    BY <2>1, <2>2
<1> QED
  BY <1>2, <1>4, <1>5, <1>6, <1>7, <1>8, <1>9 DEF t

-----------------------------------------------------------------------------
(* The same of requests: the queue is those that wait.                     *)

PC == {"idle"} \cup Waiting \cup Ended

QueueOK ==
  /\ queue \in Seq(Requests) /\ pc \in [Requests -> PC] /\ Distinct(queue)
  /\ \A r \in Requests : pc[r] \in Waiting <=> r \in In(queue)

DataOK ==
  /\ keyFile \in Keys /\ memKey \in Keys
  /\ rows \subseteq Rows /\ open \in BOOLEAN
  /\ row \in [Savers -> Rows \cup {NoRow}]
  /\ old \in [rows : SUBSET Rows, key : Keys \cup {"none"}]
  /\ copy \in [rows : SUBSET Rows, key : Keys \cup {"none"}]
  /\ torn \in BOOLEAN /\ spoilt \in BOOLEAN
  /\ failures \in 0 .. MaxFailures /\ crashes \in 0 .. MaxCrashes

LEMMA TypeParts == TypeOK <=> QueueOK /\ DataOK
BY DEF TypeOK, QueueOK, DataOK, Distinct, In, PC

LEMMA TypePartsNext == QueueOK' /\ DataOK' => TypeOK'
BY DEF TypeOK, QueueOK, DataOK, Distinct, In, PC

LEMMA PCs ==
  /\ Waiting \cap Ended = {} /\ "idle" \notin Waiting \cup Ended
  /\ Building \subseteq Waiting
  /\ {"saving", "keeping", "replacing", "undoing"} \subseteq Waiting \ Building
BY DEF Waiting, Ended, Building

LEMMA AskingQueues ==
  ASSUME QueueOK, NEW r \in Requests, NEW at \in Waiting, pc[r] = "idle", Asks(r, at)
  PROVE  /\ QueueOK' /\ pc' = [pc EXCEPT ![r] = at]
         /\ \A b : Behind(b)' <=> Behind(b) \/ (b = r /\ pc[Restorer] \in Waiting)
<1>1. r \notin In(queue) /\ Restorer \in Requests
  BY PCs DEF QueueOK, Requests
<1>2. queue' = Append(queue, r) /\ pc' = [pc EXCEPT ![r] = at]
  BY DEF Asks
<1>3. /\ queue' \in Seq(Requests) /\ Distinct(queue')
      /\ In(queue') = In(queue) \cup {r}
      /\ \A a, b : Before(queue', a, b) <=> Before(queue, a, b) \/ (a \in In(queue) /\ b = r)
  BY <1>1, <1>2, Asked DEF QueueOK
<1>4. pc' \in [Requests -> PC]
  BY <1>2 DEF QueueOK, PC
<1>5. \A x \in Requests : pc'[x] \in Waiting <=> x \in In(queue')
  BY <1>2, <1>3 DEF QueueOK
<1> QED
  BY <1>1, <1>2, <1>3, <1>4, <1>5 DEF QueueOK, Behind

LEMMA RunningQueues ==
  ASSUME QueueOK, NEW r \in Requests, NEW at, Runs(r, at)
  PROVE  /\ queue \in Seq(Requests) /\ queue # <<>> /\ Head(queue) = r /\ Distinct(queue)
         /\ ~Behind(r) /\ pc[r] = at /\ at \in Waiting
         /\ r = Restorer
              => \A b \in Requests : b # r /\ pc[b] \in Waiting => Behind(b)
         /\ Tail(queue) \in Seq(Requests) /\ Distinct(Tail(queue))
         /\ In(Tail(queue)) = In(queue) \ {r} /\ r \in In(queue)
         /\ \A a, b : Before(Tail(queue), a, b) <=> Before(queue, a, b) /\ a # r
<1>1. queue \in Seq(Requests) /\ queue # <<>> /\ Head(queue) = r /\ Distinct(queue)
      /\ pc[r] = at
  BY DEF QueueOK, Runs
<1>2. /\ Tail(queue) \in Seq(Requests) /\ Distinct(Tail(queue))
      /\ In(Tail(queue)) = In(queue) \ {r} /\ r \in In(queue)
      /\ \A b \in In(queue) : b # r => Before(queue, r, b)
      /\ \A a : ~Before(queue, a, r)
      /\ \A a, b : Before(Tail(queue), a, b) <=> Before(queue, a, b) /\ a # r
  BY <1>1, Served, Zenon
<1>3. at \in Waiting /\ ~Behind(r)
  BY <1>1, <1>2 DEF QueueOK, Behind
<1>4. r = Restorer => \A b \in Requests : b # r /\ pc[b] \in Waiting => Behind(b)
  BY <1>2 DEF QueueOK, Behind
<1> QED
  BY <1>1, <1>2, <1>3, <1>4

LEMMA ServedAskingQueues ==
  ASSUME QueueOK, NEW r \in Requests, NEW from, Runs(r, from), NEW at \in Waiting,
         ServedAndAsks(r, at)
  PROVE  /\ QueueOK' /\ pc' = [pc EXCEPT ![r] = at]
         /\ r = Restorer => \A b : ~Behind(b)'
         /\ r # Restorer
              => \A b : Behind(b)' <=> Behind(b) \/ (b = r /\ pc[Restorer] \in Waiting)
<1> DEFINE t == Tail(queue)
<1>1. /\ t \in Seq(Requests) /\ Distinct(t) /\ In(t) = In(queue) \ {r} /\ r \in In(queue)
      /\ \A a, b : Before(t, a, b) <=> Before(queue, a, b) /\ a # r
  BY RunningQueues
<1>2. queue' = Append(t, r) /\ pc' = [pc EXCEPT ![r] = at]
  BY DEF ServedAndAsks
<1> HIDE DEF t
<1>3. /\ queue' \in Seq(Requests) /\ Distinct(queue') /\ In(queue') = In(t) \cup {r}
      /\ \A a, b : Before(queue', a, b) <=> Before(t, a, b) \/ (a \in In(t) /\ b = r)
  BY <1>1, <1>2, Asked
<1>4. pc' \in [Requests -> PC]
  BY <1>2 DEF QueueOK, PC
<1>5. \A x \in Requests : pc'[x] \in Waiting <=> x \in In(queue')
  BY <1>1, <1>2, <1>3 DEF QueueOK
<1>6. Restorer \in Requests
  BY DEF Requests
<1> QED
  BY <1>1, <1>2, <1>3, <1>4, <1>5, <1>6 DEF QueueOK, Behind

LEMMA ServedEndingQueues ==
  ASSUME QueueOK, NEW r \in Requests, NEW from, Runs(r, from), NEW at \in Ended,
         ServedAndEnds(r, at)
  PROVE  /\ QueueOK' /\ pc' = [pc EXCEPT ![r] = at]
         /\ r # Restorer => \A b : Behind(b)' <=> Behind(b)
<1>1. /\ queue' = Tail(queue) /\ pc' = [pc EXCEPT ![r] = at]
  BY DEF ServedAndEnds
<1>2. /\ queue' \in Seq(Requests) /\ Distinct(queue')
      /\ In(queue') = In(queue) \ {r} /\ r \in In(queue)
      /\ \A a, b : Before(queue', a, b) <=> Before(queue, a, b) /\ a # r
  BY <1>1, RunningQueues
<1>3. pc' \in [Requests -> PC]
  BY <1>1 DEF QueueOK, PC
<1>4. \A x \in Requests : pc'[x] \in Waiting <=> x \in In(queue')
  BY <1>1, <1>2, PCs DEF QueueOK
<1> QED
  BY <1>1, <1>2, <1>3, <1>4 DEF QueueOK, Behind

-----------------------------------------------------------------------------
(* The steps.  First the requests that save.                               *)

LEMMA NewRow ==
  ASSUME DataOK, NEW s \in Savers
  PROVE  [host |-> s, key |-> memKey] \in Rows
BY DEF DataOK, Rows, Keys

LEMMA StartSaveStep ==
  ASSUME Sorted, NEW s \in Savers, StartSave(s)
  PROVE  Sorted'
<1> USE BackupAssumption
<1>1. QueueOK /\ DataOK /\ s \in Requests /\ s # Restorer /\ s # Builder
      /\ Restorer \in Requests /\ Builder \in Requests
  BY TypeParts DEF Sorted, Requests
<1>2. /\ QueueOK' /\ pc' = [pc EXCEPT ![s] = "saving"]
      /\ \A b : Behind(b)' <=> Behind(b) \/ (b = s /\ pc[Restorer] \in Waiting)
  BY <1>1, PCs, AskingQueues DEF StartSave
<1>3. /\ row' = [row EXCEPT ![s] = [host |-> s, key |-> memKey]]
      /\ UNCHANGED <<keyFile, memKey, rows, open, old, copy, torn, spoilt, failures, crashes>>
  BY DEF StartSave
<1>4. DataOK'
  BY <1>1, <1>3, NewRow DEF DataOK
<1>5. /\ pc'[Restorer] = pc[Restorer] /\ pc'[Builder] = pc[Builder] /\ pc'[s] = "saving"
      /\ \A x \in Savers : x # s => pc'[x] = pc[x] /\ row'[x] = row[x]
      /\ row'[s].key = memKey /\ MidRestore' = MidRestore
  BY <1>1, <1>2, <1>3 DEF QueueOK, DataOK, MidRestore
<1>6. RowsInOrder'
  BY <1>1, <1>2, <1>3, <1>5, PCs DEF Sorted, RowsInOrder, Saving, MidRestore
<1>7. RowsUnder' /\ KeysOfRestore'
  BY <1>3, <1>5 DEF Sorted, RowsUnder, KeysOfRestore, Under
<1>8. CopyUnder'
  BY <1>1, <1>2, <1>3, <1>5 DEF Sorted, CopyUnder, Under
<1> QED
  BY <1>2, <1>4, <1>6, <1>7, <1>8, TypePartsNext DEF Sorted

LEMMA SaveStep ==
  ASSUME Sorted, NEW s \in Savers, Save(s)
  PROVE  Sorted'
<1> USE BackupAssumption
<1>1. QueueOK /\ DataOK /\ s \in Requests /\ s # Restorer /\ s # Builder
      /\ Restorer \in Requests /\ Builder \in Requests
  BY TypeParts DEF Sorted, Requests
<1>2. PICK at \in {"saved", "failed"} :
        /\ ServedAndEnds(s, at)
        /\ at = "saved" => open /\ rows' = rows \cup {row[s]} /\ UNCHANGED failures
        /\ at = "failed" => UNCHANGED rows /\ (UNCHANGED failures \/ Fails)
  BY DEF Save, Works
<1>3. Runs(s, "saving")
      /\ UNCHANGED <<keyFile, memKey, open, row, old, copy, torn, spoilt, crashes>>
  BY DEF Save
<1>4. at \in Ended
  BY <1>2 DEF Ended
<1>5. /\ QueueOK' /\ pc' = [pc EXCEPT ![s] = at]
      /\ \A b : Behind(b)' <=> Behind(b)
  BY <1>1, <1>2, <1>3, <1>4, ServedEndingQueues
<1>6. ~Behind(s) /\ pc[s] = "saving"
  BY <1>1, <1>3, RunningQueues
<1>7. row[s] \in Rows \cup {NoRow} /\ failures' \in {failures, failures + 1}
      /\ failures' \in 0 .. MaxFailures
  BY <1>1, <1>2 DEF DataOK, Fails
<1>8. open => row[s].key \in Keys /\ row[s].key = IF pc[Restorer] = "replacing" THEN old.key ELSE memKey
  BY <1>1, <1>6 DEF Sorted, RowsInOrder, KeysOfRestore, DataOK, Saving, MidRestore
<1>9. DataOK'
  <2>1. rows' \subseteq Rows
    <3>1. CASE at = "saved"
      <4>1. row[s] # NoRow
        BY <1>2, <1>8, <3>1 DEF NoRow, Keys
      <4> QED
        BY <1>1, <1>2, <1>7, <3>1, <4>1 DEF DataOK
    <3> QED
      BY <1>1, <1>2, <3>1 DEF DataOK
  <2> QED
    BY <1>1, <1>3, <1>7, <2>1 DEF DataOK
<1>10. /\ pc'[Restorer] = pc[Restorer] /\ pc'[Builder] = pc[Builder]
       /\ Saving' = Saving \ {s} /\ MidRestore' = MidRestore
  BY <1>1, <1>2, <1>5 DEF QueueOK, Saving, MidRestore
<1>11. RowsInOrder'
  BY <1>3, <1>5, <1>10 DEF Sorted, RowsInOrder
<1>12. \A key : Under(rows, key) /\ (open => row[s].key = key) => Under(rows', key)
  BY <1>2 DEF Under
<1>13. RowsUnder'
  BY <1>3, <1>8, <1>10, <1>12 DEF Sorted, RowsUnder, MidRestore
<1>14. KeysOfRestore'
  BY <1>1, <1>3, <1>7, <1>10 DEF Sorted, KeysOfRestore, DataOK
<1>15. CopyUnder'
  BY <1>3, <1>5, <1>10 DEF Sorted, CopyUnder, Under
<1> QED
  BY <1>5, <1>9, <1>11, <1>13, <1>14, <1>15, TypePartsNext DEF Sorted

-----------------------------------------------------------------------------
(* The backup.                                                             *)

LEMMA BuilderMoves ==
  ASSUME Sorted, QueueOK', DataOK', NEW at, pc' = [pc EXCEPT ![Builder] = at],
         \A b \in Savers : Behind(b)' <=> Behind(b),
         UNCHANGED <<keyFile, memKey, rows, open, row, old, torn, crashes>>,
         failures' \in {failures, failures + 1}
  PROVE  /\ TypeOK' /\ RowsInOrder' /\ RowsUnder' /\ KeysOfRestore'
         /\ pc'[Restorer] = pc[Restorer] /\ pc'[Builder] = at /\ MidRestore' = MidRestore
<1> USE BackupAssumption
<1>1. QueueOK /\ DataOK /\ Restorer \in Requests /\ Builder \in Requests
      /\ Savers \subseteq Requests
  BY TypeParts DEF Sorted, Requests
<1>2. pc'[Restorer] = pc[Restorer] /\ pc'[Builder] = at /\ Saving' = Saving
      /\ MidRestore' = MidRestore
  BY <1>1 DEF QueueOK, Saving, MidRestore
<1>3. RowsInOrder' /\ RowsUnder'
  BY <1>2 DEF Sorted, RowsInOrder, RowsUnder, Saving
<1>4. KeysOfRestore'
  BY <1>1, <1>2 DEF Sorted, KeysOfRestore, DataOK
<1> QED
  BY <1>2, <1>3, <1>4, TypePartsNext

LEMMA StartBuildStep ==
  ASSUME Sorted, StartBuild
  PROVE  Sorted'
<1> USE BackupAssumption
<1>1. QueueOK /\ DataOK /\ Builder \in Requests /\ Restorer \in Requests /\ "copying" \in Waiting
  BY TypeParts DEF Sorted, Requests, Waiting, Building
<1>2. /\ QueueOK' /\ pc' = [pc EXCEPT ![Builder] = "copying"]
      /\ \A b : Behind(b)' <=> Behind(b) \/ (b = Builder /\ pc[Restorer] \in Waiting)
  BY <1>1, AskingQueues DEF StartBuild
<1>3. UNCHANGED <<keyFile, memKey, rows, open, row, old, copy, torn, spoilt,
                  failures, crashes>>
  BY DEF StartBuild
<1>4. DataOK'
  BY <1>1, <1>3 DEF DataOK
<1>5. /\ TypeOK' /\ RowsInOrder' /\ RowsUnder' /\ KeysOfRestore'
      /\ pc'[Restorer] = pc[Restorer] /\ pc'[Builder] = "copying" /\ MidRestore' = MidRestore
  <2>1. \A b \in Savers : Behind(b)' <=> Behind(b)
    BY <1>2
  <2> QED
    BY <1>2, <1>3, <1>4, <2>1, BuilderMoves
<1>6. CopyUnder'
  BY <1>2, <1>5, PCs DEF CopyUnder, MidRestore
<1> QED
  BY <1>5, <1>6 DEF Sorted

LEMMA BuildFailsStep ==
  ASSUME Sorted, BuildFails
  PROVE  Sorted'
<1> USE BackupAssumption
<1>1. QueueOK /\ DataOK /\ Builder \in Requests /\ Restorer \in Requests /\ "failed" \in Ended
  BY TypeParts DEF Sorted, Requests, Ended
<1>2. PICK from : Runs(Builder, from)
  BY DEF BuildFails
<1>3. /\ QueueOK' /\ pc' = [pc EXCEPT ![Builder] = "failed"]
      /\ \A b : Behind(b)' <=> Behind(b)
  BY <1>1, <1>2, ServedEndingQueues DEF BuildFails
<1>4. /\ UNCHANGED <<keyFile, memKey, rows, open, row, old, copy, torn, spoilt, crashes>>
      /\ failures' \in {failures, failures + 1} /\ failures' \in 0 .. MaxFailures
  BY <1>1 DEF BuildFails, Fails, Works, DataOK
<1>5. DataOK'
  BY <1>1, <1>4 DEF DataOK
<1>6. /\ TypeOK' /\ RowsInOrder' /\ RowsUnder' /\ KeysOfRestore' /\ pc'[Builder] = "failed"
  BY <1>3, <1>4, <1>5, BuilderMoves
<1>7. CopyUnder'
  BY <1>6 DEF CopyUnder, Building
<1> QED
  BY <1>6, <1>7 DEF Sorted

(* While the restore is under way the builder is behind it or has no       *)
(* connection, or the backup is spoilt. *)
LEMMA BuilderAtHead ==
  ASSUME Sorted, NEW at \in Building, Runs(Builder, at), open, ~spoilt
  PROVE  ~MidRestore
<1>1. QueueOK /\ Builder \in Requests
  BY TypeParts DEF Sorted, Requests
<1>2. pc[Builder] = at /\ ~Behind(Builder)
  BY <1>1, RunningQueues
<1> QED
  BY <1>2 DEF Sorted, CopyUnder

LEMMA CopyStep ==
  ASSUME Sorted, Copy
  PROVE  Sorted'
<1> USE BackupAssumption
<1>1. QueueOK /\ DataOK /\ Builder \in Requests /\ Restorer \in Requests
      /\ "counting" \in Waiting /\ "copying" \in Building
  BY TypeParts DEF Sorted, Requests, Waiting, Building
<1>2. Runs(Builder, "copying") /\ open /\ copy' = [Nothing EXCEPT !.rows = rows]
      /\ spoilt' = (spoilt \/ torn) /\ ServedAndAsks(Builder, "counting")
      /\ UNCHANGED <<keyFile, memKey, rows, open, row, old, torn, failures, crashes>>
  BY DEF Copy
<1>3. /\ QueueOK' /\ pc' = [pc EXCEPT ![Builder] = "counting"]
      /\ \A b \in Savers : Behind(b)' <=> Behind(b)
  BY <1>1, <1>2, ServedAskingQueues
<1>4. copy' = [rows |-> rows, key |-> "none"]
  BY <1>2 DEF Nothing
<1>5. DataOK'
  <2>1. copy' \in [rows : SUBSET Rows, key : Keys \cup {"none"}]
    BY <1>1, <1>4 DEF DataOK
  <2>2. spoilt' \in BOOLEAN
    BY <1>1, <1>2 DEF DataOK
  <2> QED
    BY <1>1, <1>2, <2>1, <2>2 DEF DataOK
<1>6. /\ TypeOK' /\ RowsInOrder' /\ RowsUnder' /\ KeysOfRestore'
      /\ pc'[Builder] = "counting" /\ MidRestore' = MidRestore
  BY <1>2, <1>3, <1>5, BuilderMoves
<1>7. ~spoilt' => ~MidRestore /\ Under(copy'.rows, keyFile)
  <2>1. SUFFICES ASSUME ~spoilt, ~torn
                 PROVE  ~MidRestore /\ Under(rows, keyFile)
    BY <1>2, <1>4
  <2>2. ~MidRestore
    BY <1>1, <1>2, <2>1, BuilderAtHead
  <2> QED
    BY <2>1, <2>2 DEF Sorted, RowsUnder, KeysOfRestore
<1>8. CopyUnder'
  BY <1>2, <1>6, <1>7 DEF CopyUnder
<1> QED
  BY <1>6, <1>8 DEF Sorted

LEMMA CountStep ==
  ASSUME Sorted, CountUsers \/ CountHosts
  PROVE  Sorted'
<1> USE BackupAssumption
<1>1. QueueOK /\ DataOK /\ Builder \in Requests /\ Restorer \in Requests
      /\ "counting2" \in Waiting /\ {"counting", "counting2"} \subseteq Building
      /\ "built" \in Ended
  BY TypeParts DEF Sorted, Requests, Waiting, Building, Ended
<1>2. /\ pc[Builder] \in {"counting", "counting2"} /\ open
      /\ ~spoilt => ~MidRestore
      /\ UNCHANGED <<keyFile, memKey, rows, open, row, old, torn, spoilt, failures, crashes>>
  BY <1>1, BuilderAtHead DEF CountUsers, CountHosts, Runs
<1>3. CASE CountUsers
  <2>1. /\ QueueOK' /\ pc' = [pc EXCEPT ![Builder] = "counting2"]
        /\ \A b \in Savers : Behind(b)' <=> Behind(b)
    BY <1>1, <1>3, ServedAskingQueues DEF CountUsers
  <2>2. DataOK' /\ copy' = copy
    BY <1>1, <1>3 DEF DataOK, CountUsers
  <2>3. /\ TypeOK' /\ RowsInOrder' /\ RowsUnder' /\ KeysOfRestore'
        /\ pc'[Builder] = "counting2" /\ MidRestore' = MidRestore
    BY <1>2, <2>1, <2>2, BuilderMoves
  <2>4. CopyUnder'
    BY <1>2, <2>2, <2>3 DEF Sorted, CopyUnder
  <2> QED
    BY <2>3, <2>4 DEF Sorted
<1>4. CASE CountHosts
  <2>1. /\ QueueOK' /\ pc' = [pc EXCEPT ![Builder] = "built"]
        /\ \A b \in Savers : Behind(b)' <=> Behind(b)
    BY <1>1, <1>4, ServedEndingQueues DEF CountHosts
  <2>2. copy' = [copy EXCEPT !.key = keyFile]
    BY <1>4 DEF CountHosts
  <2>3. DataOK' /\ copy'.key = keyFile /\ copy'.rows = copy.rows
    BY <1>1, <1>2, <2>2 DEF DataOK, Keys
  <2>4. /\ TypeOK' /\ RowsInOrder' /\ RowsUnder' /\ KeysOfRestore' /\ pc'[Builder] = "built"
    BY <1>2, <2>1, <2>3, BuilderMoves
  <2>5. CopyUnder'
    BY <1>2, <2>3, <2>4 DEF Sorted, CopyUnder, Building
  <2> QED
    BY <2>4, <2>5 DEF Sorted
<1> QED
  BY <1>3, <1>4
-----------------------------------------------------------------------------
(* The restore, and the crash.                                             *)

LEMMA RestorerOutside ==
  ASSUME Sorted, QueueOK', DataOK', pc[Restorer] \in {"idle", "keeping"},
         NEW at, at \notin {"replacing", "undoing"}, pc' = [pc EXCEPT ![Restorer] = at],
         UNCHANGED <<keyFile, memKey, rows, open, row, copy, torn, spoilt>>
  PROVE  Sorted'
<1> USE BackupAssumption
<1>1. QueueOK /\ Restorer \in Requests /\ Builder \in Requests /\ Savers \subseteq Requests
  BY TypeParts DEF Sorted, Requests
<1>2. /\ pc'[Builder] = pc[Builder] /\ pc'[Restorer] = at /\ Saving' = Saving
      /\ ~MidRestore /\ ~MidRestore'
  BY <1>1 DEF QueueOK, Saving, MidRestore
<1>3. RowsInOrder' /\ RowsUnder' /\ KeysOfRestore'
  BY <1>2 DEF Sorted, RowsInOrder, RowsUnder, KeysOfRestore, MidRestore, Under
<1>4. CopyUnder'
  BY <1>2 DEF Sorted, CopyUnder, Under
<1> QED
  BY <1>3, <1>4, TypePartsNext DEF Sorted

LEMMA StartRestoreStep ==
  ASSUME Sorted, StartRestore
  PROVE  Sorted'
<1>1. QueueOK /\ DataOK /\ Restorer \in Requests /\ "keeping" \in Waiting
  BY TypeParts DEF Sorted, Requests, Waiting
<1>2. QueueOK' /\ pc' = [pc EXCEPT ![Restorer] = "keeping"]
  BY <1>1, AskingQueues DEF StartRestore
<1>3. DataOK' /\ pc[Restorer] = "idle"
  BY <1>1 DEF StartRestore, DataOK
<1> QED
  BY <1>2, <1>3, RestorerOutside DEF StartRestore

LEMMA KeepFailsStep ==
  ASSUME Sorted, KeepFails
  PROVE  Sorted'
<1>1. QueueOK /\ DataOK /\ Restorer \in Requests /\ "failed" \in Ended
  BY TypeParts DEF Sorted, Requests, Ended
<1>2. QueueOK' /\ pc' = [pc EXCEPT ![Restorer] = "failed"] /\ pc[Restorer] = "keeping"
  BY <1>1, ServedEndingQueues, RunningQueues DEF KeepFails
<1>3. failures' \in 0 .. MaxFailures
  BY <1>1, BackupAssumption DEF KeepFails, Fails, Works, DataOK
<1>4. DataOK'
  BY <1>1, <1>3 DEF KeepFails, DataOK
<1> QED
  BY <1>2, <1>4, RestorerOutside DEF KeepFails

(* The restore ends in the middle, after a second failure.                 *)
LEMMA GivesUp ==
  ASSUME Sorted, QueueOK', DataOK', pc[Restorer] \in {"keeping", "replacing"},
         pc' = [pc EXCEPT ![Restorer] = "failed"], torn' = TRUE,
         \A s \in Saving : open' => row[s].key = memKey,
         spoilt' = (spoilt \/ (pc[Restorer] = "keeping" /\ pc[Builder] \in Building)),
         UNCHANGED <<memKey, row, copy>>
  PROVE  Sorted'
<1>1. QueueOK /\ Restorer \in Requests /\ Builder \in Requests /\ Savers \subseteq Requests
      /\ Builder # Restorer
  BY TypeParts, BackupAssumption DEF Sorted, Requests
<1>2. /\ pc'[Builder] = pc[Builder] /\ pc'[Restorer] = "failed" /\ ~MidRestore'
      /\ Saving' = Saving
  BY <1>1, BackupAssumption DEF QueueOK, Saving, MidRestore
<1>3. RowsInOrder' /\ RowsUnder' /\ KeysOfRestore'
  BY <1>2 DEF RowsInOrder, RowsUnder, KeysOfRestore
<1>4. CopyUnder'
  <2>1. ~spoilt' => ~spoilt /\ pc[Builder] \notin {"counting", "counting2"}
    BY DEF Sorted, CopyUnder, Building, MidRestore
  <2> QED
    BY <1>2, <2>1 DEF Sorted, CopyUnder
<1> QED
  BY <1>3, <1>4, TypePartsNext DEF Sorted

(* The key is exchanged: nobody is behind the restore yet. *)
LEMMA KeepOldStep ==
  ASSUME Sorted, KeepOld
  PROVE  Sorted'
<1> USE BackupAssumption
<1>1. QueueOK /\ DataOK /\ Restorer \in Requests /\ Builder \in Requests
      /\ Savers \subseteq Requests /\ {"replacing", "undoing"} \subseteq Waiting
      /\ "failed" \in Ended
  BY TypeParts DEF Sorted, Requests, Waiting, Ended
<1>2. /\ Runs(Restorer, "keeping") /\ open
      /\ old' = [rows |-> rows, key |-> keyFile]
      /\ spoilt' = (spoilt \/ pc[Builder] \in Building)
      /\ UNCHANGED <<rows, open, row, copy, crashes>>
  BY DEF KeepOld
<1>3. pc[Restorer] = "keeping" /\ ~MidRestore /\ memKey = keyFile
  BY <1>2 DEF Sorted, KeysOfRestore, Runs, MidRestore
<1>4. \A s \in Saving : row[s].key = memKey
  BY <1>2, <1>3 DEF Sorted, RowsInOrder
<1>5. old' \in [rows : SUBSET Rows, key : Keys \cup {"none"}] /\ spoilt' \in BOOLEAN
  BY <1>1, <1>2 DEF DataOK
<1>6. ASSUME NEW at \in {"replacing", "undoing"}, ServedAndAsks(Restorer, at), UNCHANGED torn,
             at = "replacing" => UNCHANGED failures /\ keyFile' = "backup" /\ memKey' = "backup",
             at = "undoing" => Fails /\ keyFile' = keyFile /\ memKey' = keyFile
      PROVE  Sorted'
  <2>1. QueueOK' /\ pc' = [pc EXCEPT ![Restorer] = at] /\ \A b : ~Behind(b)'
    BY <1>1, <1>2, <1>6, ServedAskingQueues
  <2>2. DataOK'
    <3>1. keyFile' \in Keys /\ memKey' \in Keys /\ failures' \in 0 .. MaxFailures
      BY <1>1, <1>6 DEF DataOK, Keys, Fails
    <3> QED
      BY <1>1, <1>2, <1>5, <1>6, <3>1 DEF DataOK
  <2>3. /\ pc'[Restorer] = at /\ pc'[Builder] = pc[Builder] /\ Saving' = Saving
        /\ MidRestore' /\ old'.rows = rows /\ old'.key = memKey
    BY <1>1, <1>2, <1>3, <1>6, <2>1 DEF QueueOK, Saving, MidRestore
  <2>4. RowsInOrder'
    BY <1>2, <1>3, <1>4, <1>6, <2>1, <2>3 DEF RowsInOrder
  <2>5. RowsUnder'
    BY <1>2, <1>3, <1>6, <2>3 DEF Sorted, RowsUnder, Under
  <2>6. KeysOfRestore'
    BY <1>1, <1>3, <1>6, <2>3 DEF KeysOfRestore, DataOK, Fails
  <2>7. CopyUnder'
    BY <1>2, <2>3 DEF Sorted, CopyUnder, Under, Building
  <2> QED
    BY <2>1, <2>2, <2>4, <2>5, <2>6, <2>7, TypePartsNext DEF Sorted
<1>7. CASE FailsTwice /\ InstallFails("backup") /\ ServedAndEnds(Restorer, "failed")
           /\ torn' = TRUE
  <2>1. QueueOK' /\ pc' = [pc EXCEPT ![Restorer] = "failed"]
    BY <1>1, <1>2, <1>7, ServedEndingQueues
  <2>2. DataOK'
    <3>1. keyFile' \in Keys /\ UNCHANGED memKey /\ failures' \in 0 .. MaxFailures
      BY <1>1, <1>7 DEF DataOK, Keys, FailsTwice, InstallFails
    <3> QED
      BY <1>1, <1>2, <1>5, <1>7, <3>1 DEF DataOK
  <2> QED
    BY <1>2, <1>3, <1>4, <1>7, <2>1, <2>2, GivesUp DEF InstallFails
<1>8. CASE Works /\ Install("backup") /\ ServedAndAsks(Restorer, "replacing") /\ UNCHANGED torn
  BY <1>6, <1>8 DEF Works, Install
<1>9. CASE Fails /\ Install(keyFile) /\ ServedAndAsks(Restorer, "undoing") /\ UNCHANGED torn
  BY <1>6, <1>9 DEF Install
<1> QED
  BY <1>7, <1>8, <1>9 DEF KeepOld

(* The database is exchanged: everybody who waits is behind the restore. *)
LEMMA ReplaceStep ==
  ASSUME Sorted, Replace
  PROVE  Sorted'
<1> USE BackupAssumption
<1>1. QueueOK /\ DataOK /\ Restorer \in Requests /\ Builder \in Requests
      /\ Savers \subseteq Requests /\ "undoing" \in Waiting /\ {"restored", "failed"} \subseteq Ended
  BY TypeParts DEF Sorted, Requests, Waiting, Ended
<1>2. Runs(Restorer, "replacing") /\ UNCHANGED <<row, old, copy, spoilt, crashes>>
  BY DEF Replace
<1>3. /\ pc[Restorer] = "replacing" /\ MidRestore
      /\ memKey = "backup" /\ memKey = keyFile /\ old.key \in Keys
      /\ \A b \in Requests : b # Restorer /\ pc[b] \in Waiting => Behind(b)
  BY <1>1, <1>2, RunningQueues DEF Sorted, KeysOfRestore, MidRestore
<1>4. \A s \in Saving : row[s].key = memKey
  BY <1>1, <1>3, PCs DEF Sorted, RowsInOrder, Saving
<1>5. RestoredRows \subseteq Rows /\ Under(RestoredRows, "backup")
  BY DEF RestoredRows, Rows, Keys, Under
<1>6. CASE ReplaceWorks(RestoredRows) /\ torn' = FALSE
           /\ ServedAndEnds(Restorer, "restored") /\ UNCHANGED <<keyFile, memKey>>
  <2>1. QueueOK' /\ pc' = [pc EXCEPT ![Restorer] = "restored"]
    BY <1>1, <1>2, <1>6, ServedEndingQueues
  <2>2. rows' = RestoredRows /\ open' = TRUE /\ UNCHANGED failures
    BY <1>6 DEF ReplaceWorks, Works
  <2>3. DataOK'
    BY <1>1, <1>2, <1>5, <1>6, <2>2 DEF DataOK
  <2>4. ~MidRestore' /\ pc'[Restorer] = "restored" /\ pc'[Builder] = pc[Builder]
        /\ Saving' = Saving
    BY <1>1, <2>1 DEF QueueOK, Saving, MidRestore
  <2>5. RowsInOrder'
    BY <1>2, <1>4, <1>6, <2>4 DEF RowsInOrder, MidRestore
  <2>6. RowsUnder' /\ KeysOfRestore'
    BY <1>3, <1>5, <1>6, <2>2, <2>4 DEF RowsUnder, KeysOfRestore
  <2>7. CopyUnder'
    BY <1>2, <1>6, <2>4 DEF Sorted, CopyUnder
  <2> QED
    BY <2>1, <2>3, <2>5, <2>6, <2>7, TypePartsNext DEF Sorted
<1>7. CASE ReplaceFails(RestoredRows) /\ Fails /\ Install(KeyOnUndo)
           /\ ServedAndAsks(Restorer, "undoing") /\ UNCHANGED torn
  <2>1. QueueOK' /\ pc' = [pc EXCEPT ![Restorer] = "undoing"] /\ \A b : ~Behind(b)'
    BY <1>1, <1>2, <1>7, ServedAskingQueues
  <2>2. rows' \in {rows, RestoredRows} /\ open' = FALSE /\ Fails
    BY <1>7 DEF ReplaceFails
  <2>3. keyFile' = old.key /\ memKey' = old.key
    BY <1>7 DEF Install, KeyOnUndo
  <2>4. failures' \in 0 .. MaxFailures /\ failures' # 0
    BY <1>1, <2>2 DEF DataOK, Fails
  <2>5. DataOK'
    BY <1>1, <1>2, <1>3, <1>5, <1>7, <2>2, <2>3, <2>4 DEF DataOK
  <2>6. pc'[Restorer] = "undoing" /\ pc'[Builder] = pc[Builder] /\ Saving' = Saving /\ MidRestore'
    BY <1>1, <2>1 DEF QueueOK, Saving, MidRestore
  <2>7. RowsInOrder'
    BY <2>1, <2>2, <2>6 DEF RowsInOrder
  <2>8. RowsUnder' /\ KeysOfRestore'
    BY <1>2, <1>3, <1>7, <2>2, <2>3, <2>4, <2>6 DEF Sorted, RowsUnder, KeysOfRestore
  <2>9. CopyUnder'
    BY <1>2, <1>3, <2>2, <2>6 DEF Sorted, CopyUnder, Building
  <2> QED
    BY <2>1, <2>5, <2>7, <2>8, <2>9, TypePartsNext DEF Sorted
<1>8. CASE ReplaceFails(RestoredRows) /\ FailsTwice /\ InstallFails(KeyOnUndo)
           /\ ServedAndEnds(Restorer, "failed") /\ torn' = TRUE
  <2>1. QueueOK' /\ pc' = [pc EXCEPT ![Restorer] = "failed"]
    BY <1>1, <1>2, <1>8, ServedEndingQueues
  <2>2. rows' \in {rows, RestoredRows} /\ open' = FALSE
    BY <1>8 DEF ReplaceFails
  <2>3. keyFile' \in Keys /\ UNCHANGED memKey /\ failures' \in 0 .. MaxFailures
    BY <1>1, <1>3, <1>8 DEF DataOK, FailsTwice, InstallFails, KeyOnUndo
  <2>4. DataOK'
    BY <1>1, <1>2, <1>5, <1>8, <2>2, <2>3 DEF DataOK
  <2>5. spoilt' = (spoilt \/ (pc[Restorer] = "keeping" /\ pc[Builder] \in Building))
    BY <1>1, <1>2, <1>3 DEF DataOK
  <2> QED
    BY <1>2, <1>3, <1>8, <2>1, <2>2, <2>3, <2>4, <2>5, GivesUp
<1> QED
  BY <1>6, <1>7, <1>8 DEF Replace

LEMMA UndoStep ==
  ASSUME Sorted, Undo
  PROVE  Sorted'
<1> USE BackupAssumption
<1>1. QueueOK /\ DataOK /\ Restorer \in Requests /\ Builder \in Requests
      /\ Savers \subseteq Requests /\ "undone" \in Ended
  BY TypeParts DEF Sorted, Requests, Ended
<1>2. /\ Runs(Restorer, "undoing") /\ ServedAndEnds(Restorer, "undone")
      /\ UNCHANGED <<keyFile, memKey, row, old, copy, spoilt, crashes>>
  BY DEF Undo
<1>3. /\ pc[Restorer] = "undoing" /\ memKey = keyFile
      /\ \A b \in Requests : b # Restorer /\ pc[b] \in Waiting => Behind(b)
  BY <1>1, <1>2, RunningQueues DEF Sorted, KeysOfRestore
<1>4. \A s \in Saving : row[s].key = memKey
  BY <1>1, <1>3, PCs DEF Sorted, RowsInOrder, Saving
<1>5. QueueOK' /\ pc' = [pc EXCEPT ![Restorer] = "undone"]
  BY <1>1, <1>2, ServedEndingQueues
<1>6. \/ rows' = old.rows /\ open' = TRUE /\ UNCHANGED <<failures, torn>>
      \/ rows' \in {rows, old.rows} /\ open' = FALSE /\ Fails /\ torn' = TRUE
  BY DEF Undo, ReplaceWorks, ReplaceFails, Works
<1>7. failures' \in 0 .. MaxFailures /\ rows' \subseteq Rows /\ torn' \in BOOLEAN
      /\ open' \in BOOLEAN
  <2>1. failures' \in 0 .. MaxFailures
    BY <1>1, <1>6 DEF DataOK, Fails
  <2>2. old.rows \subseteq Rows
    BY <1>1 DEF DataOK
  <2>3. rows' \subseteq Rows
    BY <1>1, <1>6, <2>2 DEF DataOK
  <2> QED
    BY <1>1, <1>6, <2>1, <2>3 DEF DataOK
<1>8. DataOK'
  BY <1>1, <1>2, <1>7 DEF DataOK
<1>9. ~MidRestore' /\ pc'[Restorer] = "undone" /\ pc'[Builder] = pc[Builder]
      /\ Saving' = Saving
  BY <1>1, <1>5 DEF QueueOK, Saving, MidRestore
<1>10. RowsInOrder' /\ KeysOfRestore'
  BY <1>2, <1>3, <1>4, <1>9 DEF RowsInOrder, KeysOfRestore, MidRestore
<1>11. RowsUnder'
  BY <1>2, <1>3, <1>6, <1>9 DEF Sorted, RowsUnder
<1>12. CopyUnder'
  BY <1>2, <1>9 DEF Sorted, CopyUnder
<1> QED
  BY <1>5, <1>8, <1>10, <1>11, <1>12, TypePartsNext DEF Sorted

(* Nobody waits after a crash: what was encrypted is forgotten, and a      *)
(* backup that was being made.                                             *)
LEMMA CrashStep ==
  ASSUME Sorted, Crash
  PROVE  Sorted'
<1> USE BackupAssumption
<1>1. QueueOK /\ DataOK /\ Restorer \in Requests /\ Builder \in Requests
      /\ Savers \subseteq Requests
  BY TypeParts DEF Sorted, Requests
<1>2. /\ torn' = (torn \/ MidRestore) /\ memKey' = keyFile /\ open' = TRUE /\ queue' = <<>>
      /\ row' = [s \in Savers |-> NoRow] /\ old' = Nothing
      /\ copy' = IF pc[Builder] = "built" THEN copy ELSE Nothing
      /\ UNCHANGED <<keyFile, rows, spoilt, failures>>
      /\ crashes < MaxCrashes /\ crashes' = crashes + 1
  BY DEF Crash, files
<1>3. pc' \in [Requests -> PC]
      /\ \A r \in Requests : /\ pc'[r] \notin Waiting
                             /\ pc'[r] = "built" => pc[r] = "built"
  BY <1>1, PCs DEF QueueOK, PC, Crash, Waiting, Ended, Building
<1>4. QueueOK'
  <2>1. queue' \in Seq(Requests) /\ DOMAIN queue' = {}
    BY <1>2, EmptySeq
  <2> QED
    BY <1>3, <2>1 DEF QueueOK, Distinct, In
<1>5. DataOK'
  <2>1. Nothing \in [rows : SUBSET Rows, key : Keys \cup {"none"}]
    BY DEF Nothing
  <2>2. torn' \in BOOLEAN /\ crashes' \in 0 .. MaxCrashes
    BY <1>1, <1>2 DEF DataOK
  <2> QED
    BY <1>1, <1>2, <2>1, <2>2 DEF DataOK
<1>6. ~MidRestore' /\ Saving' = {} /\ pc'[Builder] \notin Building
  BY <1>1, <1>3, PCs DEF Saving, MidRestore, Building
<1>7. RowsInOrder' /\ KeysOfRestore'
  BY <1>2, <1>6 DEF RowsInOrder, KeysOfRestore, MidRestore
<1>8. RowsUnder'
  BY <1>2, <1>6 DEF Sorted, RowsUnder, KeysOfRestore, MidRestore
<1>9. CopyUnder'
  BY <1>1, <1>2, <1>3, <1>6 DEF Sorted, CopyUnder, Building
<1> QED
  BY <1>4, <1>5, <1>7, <1>8, <1>9, TypePartsNext DEF Sorted

-----------------------------------------------------------------------------
(* The theorems.                                                           *)

LEMMA SortedAtFirst == Init => Sorted
<1> USE BackupAssumption
<1> SUFFICES ASSUME Init PROVE Sorted
  OBVIOUS
<1>1. /\ queue = <<>> /\ pc = [r \in Requests |-> "idle"] /\ Builder \in Requests
      /\ Restorer \in Requests /\ Savers \subseteq Requests
  BY DEF Init, Requests
<1>2. QueueOK
  <2>1. queue \in Seq(Requests) /\ DOMAIN queue = {}
    BY <1>1, EmptySeq
  <2> QED
    BY <1>1, <2>1, PCs DEF QueueOK, Distinct, In, PC
<1>3. DataOK
  <2>1. Nothing \in [rows : SUBSET Rows, key : Keys \cup {"none"}]
    BY DEF Nothing
  <2>2. rows \subseteq Rows
    BY DEF Init, Rows, Keys
  <2>3. row \in [Savers -> Rows \cup {NoRow}]
    BY DEF Init
  <2>4. failures \in 0 .. MaxFailures /\ crashes \in 0 .. MaxCrashes
    BY DEF Init
  <2> QED
    BY <2>1, <2>2, <2>3, <2>4 DEF Init, DataOK, Keys
<1>4. ~MidRestore /\ Saving = {} /\ pc[Builder] = "idle" /\ pc[Restorer] = "idle"
  BY <1>1 DEF MidRestore, Saving
<1>5. RowsInOrder /\ RowsUnder /\ KeysOfRestore /\ CopyUnder
  BY <1>4 DEF Init, RowsInOrder, RowsUnder, KeysOfRestore, CopyUnder, Under, Building, MidRestore
<1> QED
  BY <1>2, <1>3, <1>5, TypeParts DEF Sorted

LEMMA SortedStep == Sorted /\ [Next]_vars => Sorted'
<1> SUFFICES ASSUME Sorted, [Next]_vars PROVE Sorted'
  OBVIOUS
<1>1. ASSUME NEW s \in Savers, StartSave(s) \/ Save(s) PROVE Sorted'
  BY <1>1, StartSaveStep, SaveStep
<1>2. CASE StartBuild \/ Copy \/ CountUsers \/ CountHosts \/ BuildFails
  BY <1>2, StartBuildStep, CopyStep, CountStep, BuildFailsStep
<1>3. CASE StartRestore \/ KeepOld \/ KeepFails \/ Replace \/ Undo
  BY <1>3, StartRestoreStep, KeepOldStep, KeepFailsStep, ReplaceStep, UndoStep
<1>4. CASE Crash
  BY <1>4, CrashStep
<1>5. CASE UNCHANGED vars
  BY <1>5 DEF vars, Sorted, TypeOK, RowsInOrder, RowsUnder, KeysOfRestore, CopyUnder,
              Saving, MidRestore, Behind, Under
<1> QED
  BY <1>1, <1>2, <1>3, <1>4, <1>5 DEF Next

(* Whatever requests save hosts, make a backup and restore one, whatever   *)
(* fails and whenever the process dies, the rows that wait for the lock of *)
(* Database._run are sorted by the key they were encrypted with: restore   *)
(* can exchange both files although it needs two turns.                    *)
THEOREM AlwaysSorted == Spec => []Sorted
<1>1. Init => Sorted
  BY SortedAtFirst
<1>2. Sorted /\ [Next]_vars => Sorted'
  BY SortedStep
<1> QED
  BY <1>1, <1>2, PTL DEF Spec

(* Every variable keeps its type, and the queue of Database._run holds     *)
(* each request in the middle of an operation once, and no other.          *)
THEOREM BackupTypeCorrect == Spec => []TypeOK
<1>1. Sorted => TypeOK
  BY DEF Sorted
<1> QED
  BY <1>1, AlwaysSorted, PTL

(* The key in memory is the key on disk, and outside the exchange of a     *)
(* restore every stored secret is under it, unless a death in the middle   *)
(* of the exchange or a second failure has torn the two files apart.       *)
THEOREM AlwaysSecretsReadable == Spec => []SecretsReadable
<1>1. Sorted => SecretsReadable
  BY DEF Sorted, RowsUnder, KeysOfRestore, SecretsReadable, Under
<1> QED
  BY <1>1, AlwaysSorted, PTL

(* A backup that build_backup finished holds the key its rows are under,   *)
(* unless a restore exchanged the key in the middle of it.                 *)
THEOREM AlwaysBackupUsable == Spec => []BackupUsableIfAlone
<1>1. Sorted => BackupUsableIfAlone
  BY DEF Sorted, CopyUnder, BackupUsableIfAlone, Under
<1> QED
  BY <1>1, AlwaysSorted, PTL
(* The steps that end a restore. *)
LEMMA EndsWell ==
  ASSUME Sorted, Next, pc[Restorer] # "restored", pc'[Restorer] = "restored"
  PROVE  rows' = RestoredRows /\ keyFile' = "backup" /\ open'
<1> USE BackupAssumption
<1>1. QueueOK /\ Restorer \in Requests /\ pc[Restorer] \in PC
  BY TypeParts DEF Sorted, Requests, QueueOK
<1>2. Replace
  BY <1>1 DEF Next, StartSave, Save, StartBuild, Copy, CountUsers, CountHosts, BuildFails,
              StartRestore, KeepOld, KeepFails, Undo, Crash, Asks, ServedAndAsks,
              ServedAndEnds, QueueOK, Ended
<1>3. pc[Restorer] = "replacing"
  BY <1>2 DEF Replace, Runs
<1>4. ~ServedAndAsks(Restorer, "undoing") /\ ~ServedAndEnds(Restorer, "failed")
  BY <1>1 DEF ServedAndAsks, ServedAndEnds, QueueOK
<1> QED
  BY <1>2, <1>3, <1>4 DEF Replace, ReplaceWorks, Sorted, KeysOfRestore

LEMMA EndsUndone ==
  ASSUME Sorted, Next, pc[Restorer] # "undone", pc'[Restorer] = "undone", failures' = 1
  PROVE  rows' = old.rows /\ keyFile' = old.key /\ open'
<1> USE BackupAssumption
<1>1. QueueOK /\ Restorer \in Requests /\ pc[Restorer] \in PC /\ failures \in Nat
  BY TypeParts DEF Sorted, Requests, QueueOK, DataOK
<1>2. Undo
  BY <1>1 DEF Next, StartSave, Save, StartBuild, Copy, CountUsers, CountHosts, BuildFails,
              StartRestore, KeepOld, KeepFails, Replace, Crash, Asks, ServedAndAsks,
              ServedAndEnds, QueueOK, Ended
<1>3. keyFile' = old.key /\ failures # 0
  BY <1>2 DEF Undo, Runs, Sorted, KeysOfRestore
<1>4. ~Fails
  BY <1>1, <1>3 DEF Fails
<1> QED
  BY <1>2, <1>3, <1>4 DEF Undo, ReplaceWorks, ReplaceFails

(* restore_backup ends in one of two ways: with the database and the key   *)
(* of the backup, or, when one operation failed, with the key and all the  *)
(* hosts of the old ones.                                                  *)
THEOREM AlwaysAllOrNothing == Spec => RestoreIsAllOrNothing
<1>1. Sorted /\ [Next]_vars =>
        [ LET ends(at) == pc[Restorer] # at /\ pc'[Restorer] = at
          IN /\ ends("restored") => rows' = RestoredRows /\ keyFile' = "backup" /\ open'
             /\ ends("undone") /\ failures' = 1
                  => rows' = old.rows /\ keyFile' = old.key /\ open' ]_vars
  BY EndsWell, EndsUndone DEF vars
<1> QED
  BY <1>1, AlwaysSorted, PTL DEF Spec, RestoreIsAllOrNothing

==============================================================================
