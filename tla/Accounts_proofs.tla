---------------------------- MODULE Accounts_proofs ----------------------------
(***************************************************************************)
(* What three coroutines know of a row that the others change between any  *)
(* two of their statements.  Knows(c) says what coroutine c may rely on at *)
(* each of its statements, RowSays what the row itself remembers of the    *)
(* messages that were sent.  The other coroutines never take from c what   *)
(* it knows (KnownByOthers): they only change the row as RowStep says and  *)
(* send other messages.                                                    *)
(***************************************************************************)
EXTENDS Accounts, TLAPS

Coroutines == {"user", "admin", "notices"}
Callers == {"user", "admin"}

UserPc == {"idle", "get", "insert", "update", "reread", "evaluate", "notify", "mark",
           "ask", "activate", "clear", "body", "save", "remove", "reban"}
AdminPc == {"idle", "get", "insert", "reread", "apply", "activate", "clear"}
NoticesPc == {"idle", "due"}

UserOp == {"look", "save", "delete"}
AdminOp == {"ban", "unban", "grant", "revoke", "delete", "mode"}

Stages(kind) ==
  {Steps(kind), <<"send">>} \cup (IF kind = "n1" THEN {<<"n3", "send">>} ELSE {})

Copies == {u \in AccountCopy : u.id \in 1 .. rows /\ u.grant \in 0 .. grants}

Job == [pc: UserPc \cup AdminPc \cup NoticesPc, op: UserOp \cup AdminOp \cup Notice \cup {None},
        user: AccountCopy \cup {None}, made: BOOLEAN,
        then: {"idle", "evaluate", "reban", "apply"},
        left: {<<>>} \cup UNION {Stages(kind) : kind \in Notice}]

Typed ==
  /\ row \in Account \cup {None}
  /\ row # None => row.id \in 1 .. rows /\ row.grant \in 0 .. grants
  /\ row = None => rows < MaxRows
  /\ hosts \in 0 .. MaxHosts /\ day \in 0 .. MaxDay
  /\ rows \in 0 .. MaxRows /\ grants \in 0 .. MaxGrants
  /\ mode \in {"free", "paid"}
  /\ job \in [Coroutines -> Job]
  /\ told \in [Key -> 0 .. 2]

(* No message is sent twice, and none of a grant or a row that has not     *)
(* been made.                                                              *)
Told ==
  /\ \A kind \in Notice, g \in 0 .. MaxGrants :
       /\ told[<<kind, g>>] <= 1
       /\ g = 0 \/ g > grants => told[<<kind, g>>] = 0
  /\ \A r \in 1 .. MaxRows :
       /\ told[<<"ask", r>>] <= 1
       /\ r > rows => told[<<"ask", r>>] = 0

(* What a row remembers. *)
RowSays ==
  row # None =>
    /\ row.grant = 0 => row.exp = None /\ ~row.pending
    /\ \A kind \in Notice \ row.flags : told[<<kind, row.grant>>] = 0
    /\ ~row.asked => told[<<"ask", row.id>>] = 0

(* The user's coroutine. *)
NotAsked(u) == u.pc = "evaluate" => ~u.made /\ ~u.user.asked

UserKnows ==
  LET u == job["user"] IN
  /\ u.pc \in UserPc
  /\ u.pc # "idle" => u.op \in UserOp
  /\ u.pc \in {"get", "insert", "update", "reread"} => u.then \in {"evaluate", "reban"}
  /\ u.pc \in {"get", "insert", "update", "body", "save", "remove"} => ~u.made
  /\ u.pc \in {"update", "evaluate", "notify", "mark", "ask", "remove", "clear"}
       => u.user \in Copies
  /\ u.pc \in {"evaluate", "notify", "mark", "ask"} /\ NotAsked(u)
       => told[<<"ask", u.user.id>>] = 0
  /\ u.pc = "ask" /\ row # None /\ row.id = u.user.id => row.asked
  /\ u.pc = "reread" /\ u.made /\ row # None => told[<<"ask", row.id>>] = 0

AdminKnows ==
  LET a == job["admin"] IN
  /\ a.pc \in AdminPc
  /\ a.pc \in {"get", "insert", "reread"} => a.then = "apply"
  /\ a.pc = "apply" /\ a.op = "grant" => a.user \in Copies
  /\ a.pc \in {"get", "insert"} => a.op \in {"ban", "unban", "grant"}

(* Both, once the message of an activation has arrived. *)
ClearKnows(c) ==
  LET user == job[c].user IN
  job[c].pc = "clear" =>
    /\ user \in Copies
    /\ told[<<"activated", user.grant>>] > 0
    /\ row # None /\ row.grant # 0 => user.grant <= row.grant

(* Between the marks of a notice and its message. *)
NoticesKnow ==
  LET n == job["notices"] IN
  /\ n.pc \in NoticesPc
  /\ n.pc = "due" =>
       /\ n.op \in Notice
       /\ n.user \in Copies /\ n.user.grant # 0
       /\ told[<<n.op, n.user.grant>>] = 0
       /\ n.left \in Stages(n.op)
       /\ n.left # Steps(n.op) /\ row # None /\ row.grant = n.user.grant => n.op \in row.flags

Knows(c) ==
  CASE c = "user"    -> UserKnows /\ ClearKnows("user")
    [] c = "admin"   -> AdminKnows /\ ClearKnows("admin")
    [] c = "notices" -> NoticesKnow

Inv ==
  /\ Typed /\ Told /\ RowSays
  /\ \A c \in Coroutines : Knows(c)

-----------------------------------------------------------------------------
(* What a step may do to the row and to the counts of messages.            *)

Fresh(account) ==
  /\ account \in Account /\ account.id = rows'
  /\ account.grant = 0 /\ account.exp = None /\ account.flags = {}
  /\ ~account.pending /\ ~account.asked

Edited(account) ==
  /\ account \in Account /\ account.id = row.id
  /\ row.asked => account.asked
  /\ \/ /\ account.grant = row.grant /\ row.flags \subseteq account.flags
        /\ account.exp \in {row.exp, None} /\ (account.pending => row.pending)
     \/ account.grant = grants' /\ grants' = grants + 1

RowStep ==
  /\ grants' \in {grants, grants + 1} /\ grants' <= MaxGrants
  /\ rows' \in {rows, rows + 1}
  /\ \/ rows' = rows /\ row' = None /\ (row = None \/ rows < MaxRows)
     \/ rows' = rows + 1 /\ row = None /\ Fresh(row')
     \/ rows' = rows /\ row # None /\ Edited(row')

(* Only the user's coroutine asks, only the notices remind. *)
SendsOnly(c) ==
  /\ told' \in [Key -> 0 .. 2]
  /\ \A kind \in Notice, g \in 0 .. MaxGrants :
       c # "notices" => told'[<<kind, g>>] = told[<<kind, g>>]
  /\ \A r \in 1 .. MaxRows : c # "user" => told'[<<"ask", r>>] = told[<<"ask", r>>]
  /\ \A g \in 0 .. MaxGrants :
       told[<<"activated", g>>] > 0 => told'[<<"activated", g>>] > 0

LEMMA Keys ==
  /\ \A kind \in Notice \cup {"activated"}, g \in 0 .. MaxGrants : <<kind, g>> \in Key
  /\ \A r \in 1 .. MaxRows : <<"ask", r>> \in Key
BY DEF Key

LEMMA Constants ==
  /\ MaxRows \in Nat /\ MaxRows >= 1 /\ MaxGrants \in Nat /\ MaxDay \in Nat
  /\ MaxHosts \in Nat /\ MaxHosts >= 1 /\ GrantDays \in Nat
  /\ None \notin Account /\ None \notin AccountCopy /\ None \notin Int
BY AccountsAssumption

LEMMA StandsStill ==
  ASSUME Typed, UNCHANGED <<row, grants, rows>>
  PROVE  RowStep
BY Constants DEF Typed, RowStep, Edited, Account

LEMMA RowTypes ==
  ASSUME Typed, RowStep
  PROVE  /\ row' \in Account \cup {None}
         /\ row' # None => row'.id \in 1 .. rows' /\ row'.grant \in 0 .. grants'
         /\ row' = None => rows' < MaxRows
         /\ rows' \in 0 .. MaxRows /\ grants' \in 0 .. MaxGrants
         /\ Copies \subseteq Copies'
<1>1. rows \in Nat /\ grants \in Nat /\ rows' \in Nat /\ grants' \in Nat
      /\ rows <= MaxRows /\ grants <= grants' /\ rows <= rows' /\ grants' <= MaxGrants
  BY Constants DEF Typed, RowStep
<1>2. Copies \subseteq Copies'
  BY <1>1 DEF Copies, AccountCopy
<1>3. rows' <= MaxRows
  BY <1>1, Constants DEF Typed, RowStep
<1>4. CASE row' = None
  BY <1>1, <1>2, <1>3, <1>4, Constants DEF Typed, RowStep, Fresh, Edited
<1>5. CASE row = None /\ Fresh(row') /\ rows' = rows + 1
  BY <1>1, <1>2, <1>3, <1>5, Constants DEF Typed, Fresh
<1>6. CASE row # None /\ Edited(row') /\ rows' = rows
  BY <1>1, <1>2, <1>3, <1>6, Constants DEF Typed, Edited
<1> QED
  BY <1>4, <1>5, <1>6 DEF RowStep

(* A step that sends nothing keeps what the row says. *)
LEMMA RowSaysStill ==
  ASSUME Typed, Told, RowSays, RowStep, told' = told
  PROVE  Told' /\ RowSays'
<1>1. rows \in Nat /\ grants \in Nat /\ rows' \in Nat /\ grants' \in Nat
      /\ rows' <= MaxRows /\ grants <= grants' /\ rows <= rows' /\ grants' <= MaxGrants
  BY RowTypes DEF Typed, RowStep
<1>2. Told'
  BY <1>1, Keys, Constants DEF Told, Typed
<1>3. CASE row' = None
  BY <1>2, <1>3 DEF RowSays
<1>4. CASE row = None /\ Fresh(row') /\ rows' = rows + 1
  <2>1. \A kind \in Notice : told[<<kind, 0>>] = 0
    BY Constants DEF Told
  <2>2. told[<<"ask", rows'>>] = 0
    BY <1>1, <1>4 DEF Told
  <2> QED
    BY <1>2, <1>4, <2>1, <2>2 DEF RowSays, Fresh
<1>5. CASE row # None /\ Edited(row')
  <2>1. CASE /\ row'.grant = row.grant /\ row.flags \subseteq row'.flags
             /\ row'.exp \in {row.exp, None} /\ (row'.pending => row.pending)
    BY <1>2, <1>5, <2>1 DEF RowSays, Edited
  <2>2. CASE row'.grant = grants' /\ grants' = grants + 1
    <3>1. \A kind \in Notice : told[<<kind, grants'>>] = 0
      BY <1>1, <2>2 DEF Told
    <3> QED
      BY <1>1, <1>2, <1>5, <2>2, <3>1 DEF RowSays, Edited
  <2> QED
    BY <1>5, <2>1, <2>2 DEF Edited
<1> QED
  BY <1>3, <1>4, <1>5 DEF RowStep

(* What another coroutine knows survives the step of c. *)
LEMMA KnownByOthers ==
  ASSUME Typed, Told, RowStep, NEW c, SendsOnly(c),
         NEW d \in Coroutines, d # c, Knows(d), job'[d] = job[d]
  PROVE  Knows(d)'
<1>1. /\ rows \in Nat /\ grants \in Nat /\ rows' <= MaxRows /\ grants' <= MaxGrants
      /\ rows' \in Nat /\ grants' \in Nat
      /\ Copies \subseteq Copies'
      /\ row' # None => row'.id \in 1 .. rows'
      /\ 0 .. grants \subseteq 0 .. MaxGrants
  BY RowTypes, Constants DEF Typed
<1>2. ASSUME d \in Callers, ClearKnows(d)
      PROVE  ClearKnows(d)'
  <2> DEFINE user == job[d].user
  <2>1. SUFFICES ASSUME job[d].pc = "clear"
                 PROVE  /\ user \in Copies'
                        /\ told'[<<"activated", user.grant>>] > 0
                        /\ row' # None /\ row'.grant # 0 => user.grant <= row'.grant
    BY DEF ClearKnows
  <2>2. user \in Copies /\ told[<<"activated", user.grant>>] > 0
        /\ user.grant \in 0 .. grants
    BY <1>2, <2>1 DEF ClearKnows, Copies
  <2>3. told'[<<"activated", user.grant>>] > 0
    BY <1>1, <2>2 DEF SendsOnly
  <2>4. row' # None /\ row'.grant # 0 => user.grant <= row'.grant
    <3>1. SUFFICES ASSUME row' # None, row'.grant # 0
                   PROVE  user.grant <= row'.grant
      OBVIOUS
    <3>2. row # None /\ Edited(row')
      BY <3>1 DEF RowStep, Fresh
    <3>3. CASE row'.grant = row.grant
      BY <1>2, <2>1, <3>1, <3>2, <3>3 DEF ClearKnows
    <3>4. CASE row'.grant = grants + 1
      BY <1>1, <2>2, <3>4
    <3> QED
      BY <3>2, <3>3, <3>4 DEF Edited
  <2> QED
    BY <1>1, <2>2, <2>3, <2>4
<1>3. ASSUME d = "user", UserKnows
      PROVE  UserKnows'
  <2> DEFINE u == job["user"]
  <2>1. \A r \in 1 .. MaxRows : told'[<<"ask", r>>] = told[<<"ask", r>>]
    BY <1>3 DEF SendsOnly
  <2>2. ASSUME u.pc \in {"evaluate", "notify", "mark", "ask"}, NotAsked(u)
        PROVE  told'[<<"ask", u.user.id>>] = 0
    <3>1. u.user \in Copies /\ told[<<"ask", u.user.id>>] = 0
      BY <1>3, <2>2 DEF UserKnows
    <3>2. u.user.id \in 1 .. MaxRows
      BY <3>1, Constants DEF Copies, Typed
    <3> QED
      BY <2>1, <3>1, <3>2
  <2>3. ASSUME u.pc = "ask", row' # None, row'.id = u.user.id
        PROVE  row'.asked
    <3>1. u.user \in Copies /\ u.user.id \in 1 .. rows
      BY <1>3, <2>3 DEF UserKnows, Copies
    <3> QED
      BY <1>1, <1>3, <2>3, <3>1 DEF UserKnows, RowStep, Fresh, Edited
  <2>4. ASSUME u.pc = "reread", u.made, row' # None
        PROVE  told'[<<"ask", row'.id>>] = 0
    <3>1. row'.id \in 1 .. MaxRows
      BY <1>1, <2>4, Constants
    <3>2. CASE row = None
      BY <1>1, <2>1, <2>4, <3>1, <3>2 DEF RowStep, Fresh, Told
    <3>3. CASE row # None
      BY <1>3, <2>1, <2>4, <3>1, <3>3 DEF RowStep, Edited, UserKnows
    <3> QED
      BY <3>2, <3>3
  <2>5. job'["user"] = u
    BY <1>3
  <2> QED
    BY <1>1, <1>3, <2>2, <2>3, <2>4, <2>5 DEF UserKnows, NotAsked
<1>4. ASSUME d = "admin", AdminKnows
      PROVE  AdminKnows'
  BY <1>1, <1>4 DEF AdminKnows
<1>5. ASSUME d = "notices", NoticesKnow
      PROVE  NoticesKnow'
  <2> DEFINE n == job["notices"]
  <2>1. SUFFICES ASSUME n.pc = "due"
                 PROVE  /\ n.user \in Copies'
                        /\ told'[<<n.op, n.user.grant>>] = 0
                        /\ n.left # Steps(n.op) /\ row' # None /\ row'.grant = n.user.grant
                             => n.op \in row'.flags
    BY <1>5 DEF NoticesKnow
  <2>2. n.user \in Copies /\ n.user.grant # 0 /\ n.user.grant \in 0 .. grants /\ n.op \in Notice
    BY <1>5, <2>1 DEF NoticesKnow, Copies
  <2>3. n.user.grant \in 0 .. MaxGrants
    BY <1>1, <2>2
  <2>4. told'[<<n.op, n.user.grant>>] = 0
    <3>1. told[<<n.op, n.user.grant>>] = 0
      BY <1>5, <2>1 DEF NoticesKnow
    <3>2. told'[<<n.op, n.user.grant>>] = told[<<n.op, n.user.grant>>]
      BY <1>5, <2>2, <2>3 DEF SendsOnly
    <3> QED
      BY <3>1, <3>2
  <2>5. n.left # Steps(n.op) /\ row' # None /\ row'.grant = n.user.grant => n.op \in row'.flags
    BY <1>1, <1>5, <2>1, <2>2 DEF RowStep, Fresh, Edited, NoticesKnow
  <2> QED
    BY <1>1, <2>2, <2>4, <2>5
<1> QED
  BY <1>2, <1>3, <1>4, <1>5 DEF Knows, Callers, Coroutines

-----------------------------------------------------------------------------
(* Steps of one coroutine.                                                 *)

Around == hosts \in 0 .. MaxHosts /\ day \in 0 .. MaxDay /\ mode \in {"free", "paid"}

Only(c) ==
  /\ job' \in [Coroutines -> Job]
  /\ \A d \in Coroutines : d # c => job'[d] = job[d]

LEMMA Step ==
  ASSUME Inv, NEW c, Only(c), RowStep, Around', SendsOnly(c), Told', RowSays',
         c \in Coroutines => Knows(c)'
  PROVE  Inv'
<1>1. \A d \in Coroutines : Knows(d)'
  <2> TAKE d \in Coroutines
  <2>1. CASE d = c
    BY <2>1
  <2>2. CASE d # c
    BY <2>2, KnownByOthers DEF Inv, Only
  <2> QED
    BY <2>1, <2>2
<1>2. Typed'
  BY RowTypes DEF Typed, Inv, Around, Only, SendsOnly
<1> QED
  BY <1>1, <1>2 DEF Inv

LEMMA SaysNothing ==
  ASSUME Typed, told' = told, NEW c
  PROVE  SendsOnly(c)
BY DEF SendsOnly, Typed

(* A step that only changes the row. *)
LEMMA Quiet ==
  ASSUME Inv, NEW c, Only(c), RowStep, Around', told' = told,
         c \in Coroutines => Knows(c)'
  PROVE  Inv'
<1>1. Told' /\ RowSays'
  BY RowSaysStill DEF Inv
<1>2. SendsOnly(c)
  BY SaysNothing DEF Inv
<1> QED
  BY <1>1, <1>2, Step

(* And one that changes nothing but the coroutine. *)
LEMMA Silent ==
  ASSUME Inv, NEW c, Only(c), UNCHANGED <<row, grants, rows, told>>, Around',
         c \in Coroutines => Knows(c)'
  PROVE  Inv'
<1>1. RowStep
  BY StandsStill DEF Inv
<1> QED
  BY <1>1, Quiet

LEMMA Becomes ==
  ASSUME Typed, NEW c \in Coroutines, NEW j \in Job, job' = [job EXCEPT ![c] = j]
  PROVE  Only(c) /\ job'[c] = j
BY DEF Typed, Only

LEMMA GoesTo ==
  ASSUME Typed, NEW c \in Coroutines, NEW pc \in UserPc \cup AdminPc \cup NoticesPc,
         Goes(c, pc)
  PROVE  /\ Only(c)
         /\ job'[c].pc = pc /\ job'[c].op = job[c].op /\ job'[c].user = job[c].user
         /\ job'[c].made = job[c].made /\ job'[c].then = job[c].then
         /\ job'[c].left = job[c].left
<1> DEFINE j == [job[c] EXCEPT !.pc = pc]
<1>1. job[c] \in Job
  BY DEF Typed
<1>2. j \in Job
  BY <1>1 DEF Job
<1>3. job' = [job EXCEPT ![c] = j]
  BY DEF Goes
<1>4. Only(c) /\ job'[c] = j
  BY <1>2, <1>3 DEF Typed, Only
<1> QED
  BY <1>1, <1>4 DEF Job

LEMMA RestIsJob ==
  Rest \in Job /\ Rest.pc = "idle"
BY DEF Rest, Job, UserPc

LEMMA EndsAt ==
  ASSUME Typed, NEW c \in Coroutines, Ends(c)
  PROVE  Only(c) /\ Knows(c)'
<1>1. Only(c) /\ job'[c] = Rest
  BY RestIsJob, Becomes DEF Ends
<1>2. job'[c].pc = "idle"
  BY <1>1, RestIsJob
<1> QED
  BY <1>1, <1>2 DEF Knows, Coroutines, UserKnows, AdminKnows, NoticesKnow, ClearKnows,
        UserPc, AdminPc, NoticesPc

LEMMA GoesOnFrom ==
  ASSUME Typed, NEW c \in Callers, GoesOn(c), c = "user" => job["user"].op \in UserOp
  PROVE  Only(c) /\ Knows(c)'
<1>1. CASE c = "user" /\ job[c].op # "look"
  <2> DEFINE j == [Rest EXCEPT !.pc = "body", !.op = job[c].op]
  <2>1. j \in Job
    BY <1>1 DEF Rest, Job, UserPc
  <2>2. j.pc = "body" /\ j.op = job[c].op /\ ~j.made
    BY DEF Rest
  <2>3. Only(c) /\ job'[c] = j
    BY <1>1, <2>1, Becomes DEF GoesOn, Coroutines
  <2> HIDE DEF j
  <2> QED
    BY <1>1, <2>2, <2>3 DEF Knows, UserKnows, ClearKnows, UserPc, Coroutines
<1>2. CASE ~(c = "user" /\ job[c].op # "look")
  BY <1>2, EndsAt DEF GoesOn, Callers, Coroutines
<1> QED
  BY <1>1, <1>2

LEMMA RaisesFrom ==
  ASSUME Typed, NEW c \in Callers, Raises(c), c = "user" => job["user"].op \in UserOp
  PROVE  Only(c) /\ Knows(c)'
BY GoesOnFrom, EndsAt DEF Raises, Callers, Coroutines

-----------------------------------------------------------------------------
(* The steps that change neither the row nor what was sent.                *)

LEMMA AroundStays ==
  ASSUME Typed, UNCHANGED <<hosts, mode, day>>
  PROVE  Around'
BY DEF Typed, Around

(* A coroutine starts. *)
LEMMA UserSendsKeeps ==
  ASSUME Inv, NEW op \in UserOp, UserSends(op)
  PROVE  Inv'
<1> DEFINE j == [Rest EXCEPT !.pc = "get", !.op = op, !.then = "evaluate"]
<1>1. j \in Job
  BY DEF Rest, Job, UserPc
<1>2. j.pc = "get" /\ j.op = op /\ j.then = "evaluate" /\ ~j.made
  BY DEF Rest
<1>3. Only("user") /\ job'["user"] = j
  BY <1>1, Becomes DEF Inv, UserSends, Coroutines
<1> HIDE DEF j
<1>4. Knows("user")'
  BY <1>2, <1>3 DEF Knows, UserKnows, ClearKnows, UserPc
<1> QED
  BY <1>3, <1>4, AroundStays, Silent DEF Inv, UserSends

LEMMA AdminStartsKeeps ==
  ASSUME Inv, NEW op \in AdminOp, AdminStarts(op)
  PROVE  Inv'
<1> DEFINE pc == IF op \in {"ban", "unban", "grant"} THEN "get" ELSE "apply"
           j == [Rest EXCEPT !.op = op, !.then = "apply", !.pc = pc]
<1>1. j \in Job
  BY DEF Rest, Job, AdminPc
<1>2. j.pc = pc /\ j.op = op /\ j.then = "apply"
  BY DEF Rest
<1>3. Only("admin") /\ job'["admin"] = j
  BY <1>1, Becomes DEF Inv, AdminStarts, Coroutines
<1> HIDE DEF j
<1>4. Knows("admin")'
  BY <1>2, <1>3 DEF Knows, AdminKnows, ClearKnows, AdminPc
<1> QED
  BY <1>3, <1>4, AroundStays, Silent DEF Inv, AdminStarts

LEMMA CopyType ==
  ASSUME Typed, row # None
  PROVE  Copy \in Copies /\ Copy # None
BY Constants DEF Typed, Copies, Copy, Account, AccountCopy

LEMMA GetsKeeps ==
  ASSUME Inv, NEW c \in Callers, Gets(c)
  PROVE  Inv'
<1> DEFINE user == IF row = None \/ job[c].op \in {"ban", "unban"} THEN None ELSE Copy
           pc == IF row = None THEN "insert"
                 ELSE IF c = "user" /\ ~row.started THEN "update" ELSE job[c].then
<1>1. job[c] \in Job /\ job[c].pc = "get" /\ c \in Coroutines
  BY DEF Inv, Typed, Gets, At, Callers, Coroutines
<1>2. Knows(c)
  BY <1>1 DEF Inv
<1>3. pc \in {"insert", "update", "evaluate", "reban", "apply"}
  BY <1>1, <1>2 DEF Knows, UserKnows, AdminKnows, Callers
<1>4. user \in AccountCopy \cup {None}
  BY CopyType DEF Inv, Copies
<1>6. c = "user" \/ (c = "admin" /\ job[c].op = "grant") => (row # None => user = Copy)
  BY <1>1, <1>2 DEF Knows, UserKnows, UserOp
<1>7. row # None => /\ Copy \in Copies /\ Copy.asked = row.asked /\ Copy.id = row.id
                    /\ (~row.asked => told[<<"ask", row.id>>] = 0)
  BY CopyType DEF Inv, Copy, RowSays
<1>8. Copies' = Copies /\ row' = row /\ told' = told
  BY DEF Gets, Copies
<1>9. pc = IF row = None THEN "insert"
            ELSE IF c = "user" /\ ~row.started THEN "update" ELSE job[c].then
  OBVIOUS
<1> DEFINE j == [job[c] EXCEPT !.user = user, !.pc = pc]
<1>10. job' = [job EXCEPT ![c] = j] /\ j = [job[c] EXCEPT !.user = user, !.pc = pc]
  BY DEF Gets
<1> HIDE DEF user, pc, j
<1>11. /\ j \in Job /\ j.pc = pc /\ j.user = user /\ j.op = job[c].op
      /\ j.made = job[c].made /\ j.then = job[c].then
  <2>1. pc \in UserPc \cup AdminPc \cup NoticesPc
    BY <1>3 DEF UserPc, AdminPc
  <2> QED
    BY <1>1, <1>4, <1>10, <2>1 DEF Job
<1>12. Only(c) /\ job'[c] = j
  BY <1>1, <1>10, <1>11, Becomes DEF Inv
<1>13. CASE c = "user"
  <2>1. UserKnows
    BY <1>2, <1>13 DEF Knows
  <2>2. UserKnows' /\ ClearKnows("user")'
    BY <1>1, <1>3, <1>6, <1>7, <1>8, <1>9, <1>11, <1>12, <1>13, <2>1
       DEF UserKnows, ClearKnows, NotAsked, UserPc
  <2> QED
    BY <1>12, <1>13, <2>2, AroundStays, Silent DEF Inv, Gets, Knows
<1>14. CASE c = "admin"
  <2>1. AdminKnows
    BY <1>2, <1>14 DEF Knows
  <2>2. AdminKnows' /\ ClearKnows("admin")'
    BY <1>1, <1>3, <1>6, <1>7, <1>8, <1>9, <1>11, <1>12, <1>14, <2>1
       DEF AdminKnows, ClearKnows, AdminPc
  <2> QED
    BY <1>12, <1>14, <2>2, AroundStays, Silent DEF Inv, Gets, Knows
<1> QED
  BY <1>13, <1>14 DEF Callers

LEMMA RereadsKeeps ==
  ASSUME Inv, NEW c \in Callers, Rereads(c)
  PROVE  Inv'
<1>1. job[c] \in Job /\ job[c].pc = "reread" /\ c \in Coroutines
  BY DEF Inv, Typed, Rereads, At, Callers, Coroutines
<1>2. Knows(c)
  BY <1>1 DEF Inv
<1>3. CASE row = None
  <2>1. CASE job[c].then = "reban"
    <3>1. Goes(c, "reban") /\ c = "user" /\ UserKnows
      BY <1>1, <1>2, <1>3, <2>1 DEF Rereads, Knows, AdminKnows, Callers
    <3>2. Only(c) /\ job'[c].pc = "reban" /\ job'[c].op = job[c].op
      BY <1>1, <3>1, GoesTo DEF Inv, UserPc
    <3>3. Knows(c)'
      BY <1>1, <3>1, <3>2 DEF Knows, UserKnows, ClearKnows, UserPc
    <3> QED
      BY <1>1, <3>2, <3>3, AroundStays, Silent DEF Inv, Rereads
  <2>2. CASE job[c].then # "reban"
    <3>1. Raises(c)
      BY <1>3, <2>2 DEF Rereads
    <3>2. Only(c) /\ Knows(c)'
      BY <1>1, <1>2, <3>1, RaisesFrom DEF Inv, Knows, UserKnows
    <3> QED
      BY <1>1, <3>2, AroundStays, Silent DEF Inv, Rereads
  <2> QED
    BY <2>1, <2>2
<1>4. CASE row # None
  <2> DEFINE pc == IF c = "user" /\ job[c].made /\ job[c].then = "evaluate"
                   THEN "notify" ELSE job[c].then
             j == [job[c] EXCEPT !.user = Copy, !.pc = pc]
  <2>1. pc \in {"notify", "evaluate", "reban", "apply"}
    BY <1>1, <1>2 DEF Knows, UserKnows, AdminKnows, Callers
  <2>2. pc \in UserPc \cup AdminPc \cup NoticesPc
    BY <2>1 DEF UserPc, AdminPc
  <2>3. /\ Copy \in Copies /\ Copy \in AccountCopy
        /\ Copy.asked = row.asked /\ Copy.id = row.id
        /\ ~row.asked => told[<<"ask", row.id>>] = 0
    BY <1>4, CopyType DEF Inv, Copy, RowSays, Copies
  <2>4. Copies' = Copies /\ row' = row /\ told' = told
    BY DEF Rereads, Copies
  <2>5. job' = [job EXCEPT ![c] = j] /\ j = [job[c] EXCEPT !.user = Copy, !.pc = pc]
    BY <1>4 DEF Rereads
  <2>6. pc = IF c = "user" /\ job[c].made /\ job[c].then = "evaluate"
             THEN "notify" ELSE job[c].then
    OBVIOUS
  <2> HIDE DEF pc, j
  <2>7. /\ j \in Job /\ j.pc = pc /\ j.user = Copy /\ j.op = job[c].op
        /\ j.made = job[c].made /\ j.then = job[c].then
    BY <1>1, <2>2, <2>3, <2>5 DEF Job
  <2>8. Only(c) /\ job'[c] = j
    BY <1>1, <2>5, <2>7, Becomes DEF Inv
  <2>9. CASE c = "user"
    <3>1. UserKnows
      BY <1>2, <2>9 DEF Knows
    <3>2. UserKnows' /\ ClearKnows("user")'
      BY <1>1, <1>4, <2>1, <2>3, <2>4, <2>6, <2>7, <2>8, <2>9, <3>1
         DEF UserKnows, ClearKnows, NotAsked, UserPc
    <3> QED
      BY <2>8, <2>9, <3>2, AroundStays, Silent DEF Inv, Rereads, Knows
  <2>10. CASE c = "admin"
    <3>1. AdminKnows
      BY <1>2, <2>10 DEF Knows
    <3>2. AdminKnows' /\ ClearKnows("admin")'
      BY <1>1, <2>3, <2>4, <2>6, <2>7, <2>8, <2>10, <3>1
         DEF AdminKnows, ClearKnows, AdminPc
    <3> QED
      BY <2>8, <2>10, <3>2, AroundStays, Silent DEF Inv, Rereads, Knows
  <2> QED
    BY <2>9, <2>10 DEF Callers
<1> QED
  BY <1>3, <1>4

(* Where the user's coroutine is, and what it knows there. *)
LEMMA UserAt ==
  ASSUME Inv
  PROVE  /\ UserKnows /\ ClearKnows("user") /\ job["user"] \in Job
         /\ Typed /\ Told /\ RowSays
BY DEF Inv, Knows, Coroutines, Typed

LEMMA EvaluatesKeeps ==
  ASSUME Inv, Evaluates
  PROVE  Inv'
<1> DEFINE u == job["user"]
<1>1. u.pc = "evaluate" /\ UNCHANGED <<row, hosts, mode, day, grants, rows, told>>
  BY DEF Evaluates, At
<1>2. Copies' = Copies
  BY <1>1 DEF Copies
<1>3. Only("user") /\ Knows("user")'
  <2>1. CASE Ends("user")
    BY <2>1, UserAt, EndsAt DEF Coroutines
  <2>2. CASE GoesOn("user")
    BY <1>1, <2>2, UserAt, GoesOnFrom DEF Callers, UserKnows
  <2>3. CASE Goes("user", "activate")
    <3>1. Only("user") /\ job'["user"].pc = "activate" /\ job'["user"].op = u.op
      BY <2>3, UserAt, GoesTo DEF Coroutines, UserPc
    <3> QED
      BY <1>1, <3>1, UserAt DEF Knows, UserKnows, ClearKnows, UserPc
  <2>4. CASE AsksAccess(u) /\ Goes("user", "notify")
    <3>1. /\ Only("user") /\ job'["user"].pc = "notify" /\ job'["user"].op = u.op
          /\ job'["user"].user = u.user
      BY <2>4, UserAt, GoesTo DEF Coroutines, UserPc
    <3>2. u.user \in Copies /\ told[<<"ask", u.user.id>>] = 0
      BY <1>1, <2>4, UserAt DEF UserKnows, NotAsked, AsksAccess
    <3> QED
      BY <1>1, <1>2, <3>1, <3>2, UserAt DEF Knows, UserKnows, ClearKnows, UserPc
  <2> QED
    BY <2>1, <2>2, <2>3, <2>4 DEF Evaluates
<1> QED
  BY <1>1, <1>3, UserAt, AroundStays, Silent

LEMMA AfterReport ==
  ASSUME Typed, UserKnows, job["user"].pc \in {"notify", "ask"}, Reported,
         UNCHANGED <<grants, rows>>
  PROVE  Only("user") /\ Knows("user")'
<1> DEFINE u == job["user"]
<1>1. CASE u.made
  <2>1. /\ Only("user") /\ job'["user"].pc = "evaluate" /\ job'["user"].op = u.op
        /\ job'["user"].user = u.user /\ job'["user"].made
    BY <1>1, GoesTo DEF Coroutines, UserPc, Reported
  <2>2. u.user \in Copies' /\ u.op \in UserOp
    BY DEF UserKnows, Copies
  <2> QED
    BY <2>1, <2>2 DEF Knows, UserKnows, ClearKnows, NotAsked, UserPc
<1>2. CASE ~u.made
  BY <1>2, EndsAt DEF Reported, Coroutines
<1> QED
  BY <1>1, <1>2

LEMMA NotifiesKeeps ==
  ASSUME Inv, Notifies
  PROVE  Inv'
<1> DEFINE u == job["user"]
<1>1. u.pc = "notify" /\ UNCHANGED <<row, hosts, mode, day, grants, rows, told>>
  BY DEF Notifies, At
<1>2. Copies' = Copies
  BY <1>1 DEF Copies
<1>3. CASE Goes("user", "mark")
  <2>1. /\ Only("user") /\ job'["user"].pc = "mark" /\ job'["user"].op = u.op
        /\ job'["user"].user = u.user
    BY <1>3, UserAt, GoesTo DEF Coroutines, UserPc
  <2>2. Knows("user")'
    BY <1>1, <1>2, <2>1, UserAt DEF Knows, UserKnows, ClearKnows, NotAsked, UserPc
  <2> QED
    BY <1>1, <2>1, <2>2, UserAt, AroundStays, Silent
<1>4. CASE Reported
  <2>1. Only("user") /\ Knows("user")'
    BY <1>1, <1>4, UserAt, AfterReport
  <2> QED
    BY <1>1, <2>1, UserAt, AroundStays, Silent
<1> QED
  BY <1>3, <1>4 DEF Notifies

LEMMA BodyKeeps ==
  ASSUME Inv, ChecksLimit \/ Saves \/ StartsDeletion
  PROVE  Inv'
<1> DEFINE u == job["user"]
<1>1. UNCHANGED <<row, mode, day, grants, rows, told>> /\ u.pc \in {"body", "save"}
  BY DEF ChecksLimit, Saves, StartsDeletion, At
<1>2. Copies' = Copies
  BY <1>1 DEF Copies
<1>3. hosts' \in 0 .. MaxHosts
  BY Constants DEF Inv, Typed, ChecksLimit, Saves, StartsDeletion
<1>4. Around'
  BY <1>1, <1>3 DEF Inv, Typed, Around
<1>5. CASE Ends("user")
  <2>1. Only("user") /\ Knows("user")'
    BY <1>5, UserAt, EndsAt DEF Coroutines
  <2> QED
    BY <1>1, <1>4, <2>1, Silent
<1>6. CASE Goes("user", "save")
  <2>1. /\ Only("user") /\ job'["user"].pc = "save" /\ job'["user"].op = u.op
        /\ job'["user"].made = u.made
    BY <1>6, UserAt, GoesTo DEF Coroutines, UserPc
  <2>2. Knows("user")'
    BY <1>1, <2>1, UserAt DEF Knows, UserKnows, ClearKnows, UserPc
  <2> QED
    BY <1>1, <1>4, <2>1, <2>2, Silent
<1>7. CASE row # None /\ job' = [job EXCEPT !["user"] = [@ EXCEPT !.user = Copy, !.pc = "remove"]]
  <2> DEFINE j == [job["user"] EXCEPT !.user = Copy, !.pc = "remove"]
  <2>1. job' = [job EXCEPT !["user"] = j] /\ j = [job["user"] EXCEPT !.user = Copy, !.pc = "remove"]
    BY <1>7
  <2>2. Copy \in Copies /\ Copy \in AccountCopy
    BY <1>7, UserAt, CopyType DEF Copies
  <2> HIDE DEF j
  <2>3. /\ j \in Job /\ j.pc = "remove" /\ j.user = Copy /\ j.op = u.op /\ j.made = u.made
    BY <2>1, <2>2, UserAt DEF Job, UserPc
  <2>4. Only("user") /\ job'["user"] = j
    BY <2>1, <2>3, UserAt, Becomes DEF Coroutines
  <2>5. Knows("user")'
    BY <1>1, <1>2, <2>2, <2>3, <2>4, UserAt DEF Knows, UserKnows, ClearKnows, UserPc
  <2> QED
    BY <1>1, <1>4, <2>4, <2>5, Silent
<1> QED
  BY <1>5, <1>6, <1>7 DEF ChecksLimit, Saves, StartsDeletion

LEMMA SetsModeKeeps ==
  ASSUME Inv, SetsMode
  PROVE  Inv'
<1>1. Only("admin") /\ Knows("admin")'
  BY EndsAt DEF SetsMode, Inv, Coroutines
<1>2. Around'
  BY DEF Inv, Typed, Around, SetsMode
<1> QED
  BY <1>1, <1>2, Silent DEF SetsMode

LEMMA DayPassesKeeps ==
  ASSUME Inv, DayPasses
  PROVE  Inv'
<1>1. "clock" \notin Coroutines /\ Only("clock")
  BY DEF Inv, Typed, Only, Coroutines, DayPasses
<1>2. Around'
  BY Constants DEF Inv, Typed, Around, DayPasses
<1> QED
  BY <1>1, <1>2, Silent DEF DayPasses

LEMMA RestartsKeeps ==
  ASSUME Inv, Restarts
  PROVE  Inv'
<1>1. job' \in [Coroutines -> Job] /\ \A c \in Coroutines : job'[c].pc = "idle"
  BY RestIsJob DEF Inv, Typed, Restarts
<1>2. UNCHANGED <<row, hosts, mode, day, grants, rows, told>>
  BY DEF Restarts
<1>3. Typed' /\ Told' /\ RowSays'
  BY <1>1, <1>2 DEF Inv, Typed, Told, RowSays
<1>4. ASSUME NEW c \in Coroutines
      PROVE  Knows(c)'
  BY <1>1, <1>4 DEF Knows, Coroutines, UserKnows, AdminKnows, NoticesKnow, ClearKnows,
        UserPc, AdminPc, NoticesPc
<1> QED
  BY <1>3, <1>4 DEF Inv

(* What is due has not been sent: the row would have its mark. *)
LEMMA FindsDueKeeps ==
  ASSUME Inv, FindsDue
  PROVE  Inv'
<1>1. /\ row # None /\ row.exp # None
      /\ UNCHANGED <<row, hosts, mode, day, grants, rows, told>>
  BY DEF FindsDue
<1> DEFINE kind == Due(row.exp - day)
<1>2. /\ kind \in Notice /\ kind \notin row.flags
      /\ job' = [job EXCEPT !["notices"] =
                  [Rest EXCEPT !.pc = "due", !.op = kind, !.user = Copy, !.left = Steps(kind)]]
  BY DEF FindsDue, Due, Notice
<1> HIDE DEF kind
<1> DEFINE j == [Rest EXCEPT !.pc = "due", !.op = kind, !.user = Copy, !.left = Steps(kind)]
<1>3. Copy \in Copies /\ Copy \in AccountCopy /\ Copy.grant = row.grant
  BY <1>1, CopyType DEF Inv, Copies, Copy
<1>4. Steps(kind) \in Stages(kind)
  BY DEF Stages
<1>5. /\ j \in Job /\ j.pc = "due" /\ j.op = kind /\ j.user = Copy /\ j.left = Steps(kind)
  BY <1>2, <1>3, <1>4 DEF Rest, Job, NoticesPc
<1>6. Only("notices") /\ job'["notices"] = j
  BY <1>2, <1>5, Becomes DEF Inv, Coroutines
<1> HIDE DEF j
<1>7. row.grant # 0 /\ told[<<kind, row.grant>>] = 0
  BY <1>1, <1>2 DEF Inv, RowSays
<1>8. Copies' = Copies
  BY <1>1 DEF Copies
<1>9. Knows("notices")'
  BY <1>1, <1>2, <1>3, <1>4, <1>5, <1>6, <1>7, <1>8 DEF Knows, NoticesKnow, NoticesPc
<1> QED
  BY <1>1, <1>6, <1>9, AroundStays, Silent DEF Inv

-----------------------------------------------------------------------------
(* The steps that change the row.                                          *)

LEMMA EditIsRowStep ==
  ASSUME Typed, NEW new, Update(new), rows' = rows,
         grants' = grants \/ (grants' = grants + 1 /\ grants < MaxGrants),
         row # None => Edited(new)
  PROVE  RowStep
BY Constants DEF Typed, RowStep, Update

LEMMA RemovalIsRowStep ==
  ASSUME Typed, Removes, rows < MaxRows, UNCHANGED <<rows, grants, mode, day>>
  PROVE  RowStep /\ Around'
BY Constants DEF Typed, RowStep, Removes, RemovedHosts, Around

LEMMA InsertsKeeps ==
  ASSUME Inv, NEW c \in Callers, Inserts(c)
  PROVE  Inv'
<1>1. job[c] \in Job /\ job[c].pc = "insert" /\ c \in Coroutines /\ Typed
      /\ UNCHANGED <<hosts, mode, day, grants, told>>
  BY DEF Inv, Typed, Inserts, At, Callers, Coroutines
<1>2. Knows(c)
  BY <1>1 DEF Inv
<1>3. CASE row # None
  <2>1. Raises(c) /\ UNCHANGED <<row, rows>>
    BY <1>3 DEF Inserts, Duplicate
  <2>2. Only(c) /\ Knows(c)'
    BY <1>1, <1>2, <2>1, RaisesFrom DEF Knows, UserKnows
  <2> QED
    BY <1>1, <2>1, <2>2, AroundStays, Silent
<1>4. CASE row = None
  <2> DEFINE new == [banned |-> FALSE, exp |-> None, max |-> 0, pending |-> FALSE,
                     asked |-> FALSE, started |-> c = "user", flags |-> {},
                     grant |-> 0, id |-> rows']
             pc == IF job[c].op \in {"ban", "unban"} THEN "apply" ELSE "reread"
             j == [job[c] EXCEPT !.pc = pc, !.made = TRUE]
  <2>1. rows' = rows + 1 /\ row' = new
    BY <1>4 DEF Inserts, Duplicate
  <2>2. job' = [job EXCEPT ![c] = j] /\ j = [job[c] EXCEPT !.pc = pc, !.made = TRUE]
    BY <1>4 DEF Inserts, Duplicate
  <2>3. rows \in Nat /\ rows' \in 1 .. MaxRows /\ rows' \in Nat
    BY <1>1, <1>4, <2>1, Constants DEF Typed
  <2>4. Fresh(new)
    BY <2>3 DEF Fresh, Account, Time
  <2>5. new # None /\ new.id = rows'
    BY <2>4, Constants DEF Fresh
  <2> HIDE DEF new
  <2>6. RowStep
    BY <1>1, <1>4, <2>1, <2>3, <2>4, Constants DEF RowStep, Typed
  <2>7. pc = IF job[c].op \in {"ban", "unban"} THEN "apply" ELSE "reread"
    OBVIOUS
  <2> HIDE DEF pc, j
  <2>8. /\ j \in Job /\ j.pc = pc /\ j.op = job[c].op /\ j.then = job[c].then /\ j.made
    <3>1. job[c] \in Job /\ pc \in UserPc \cup AdminPc
      BY <1>1, <2>7 DEF UserPc, AdminPc
    <3>2. j = [job[c] EXCEPT !.pc = pc, !.made = TRUE]
      BY <2>2
    <3>3. /\ j.pc = pc /\ j.op = job[c].op /\ j.then = job[c].then /\ j.made
      BY <3>1, <3>2 DEF Job
    <3> QED
      BY <3>1, <3>2, <3>3 DEF Job
  <2>9. Only(c) /\ job'[c] = j
    BY <1>1, <2>2, <2>8, Becomes
  <2>10. told'[<<"ask", rows'>>] = 0
    BY <1>1, <2>1, <2>3 DEF Inv, Told
  <2>11. CASE c = "user"
    <3>1. UserKnows
      BY <1>2, <2>11 DEF Knows
    <3>2. UserKnows' /\ ClearKnows("user")'
      BY <1>1, <2>1, <2>5, <2>7, <2>8, <2>9, <2>10, <2>11, <3>1
         DEF UserKnows, ClearKnows, UserPc, UserOp
    <3> QED
      BY <1>1, <2>6, <2>9, <2>11, <3>2, AroundStays, Quiet DEF Knows
  <2>12. CASE c = "admin"
    <3>1. AdminKnows
      BY <1>2, <2>12 DEF Knows
    <3>2. AdminKnows' /\ ClearKnows("admin")'
      BY <1>1, <2>7, <2>8, <2>9, <2>12, <3>1 DEF AdminKnows, ClearKnows, AdminPc
    <3> QED
      BY <1>1, <2>6, <2>9, <2>12, <3>2, AroundStays, Quiet DEF Knows
  <2> QED
    BY <2>11, <2>12 DEF Callers
<1> QED
  BY <1>3, <1>4

LEMMA UpdatesSeenKeeps ==
  ASSUME Inv, UpdatesSeen
  PROVE  Inv'
<1> DEFINE u == job["user"]
           new == [row EXCEPT !.started = TRUE]
<1>1. u.pc = "update" /\ UNCHANGED <<hosts, mode, day, grants, rows, told>>
  BY DEF UpdatesSeen, At
<1>2. row # None => Edited(new)
  BY UserAt DEF Typed, Edited, Account
<1>3. RowStep
  <2>1. Update(new)
    BY DEF UpdatesSeen
  <2> HIDE DEF new
  <2> QED
    BY <1>1, <1>2, <2>1, UserAt, EditIsRowStep
<1>4. /\ Only("user") /\ job'["user"].pc = "reread" /\ job'["user"].op = u.op
      /\ job'["user"].made = u.made /\ job'["user"].then = u.then
  BY UserAt, GoesTo DEF Coroutines, UserPc, UpdatesSeen
<1>5. Knows("user")'
  BY <1>1, <1>4, UserAt DEF Knows, UserKnows, ClearKnows, UserPc
<1> QED
  BY <1>1, <1>3, <1>4, <1>5, UserAt, AroundStays, Quiet

LEMMA MarksRequestKeeps ==
  ASSUME Inv, MarksRequest
  PROVE  Inv'
<1> DEFINE u == job["user"]
           new == [row EXCEPT !.asked = TRUE]
<1>1. u.pc = "mark" /\ UNCHANGED <<hosts, mode, day, grants, rows, told>>
  BY DEF MarksRequest, At
<1>2. row # None => Edited(new) /\ new.asked
  BY UserAt DEF Typed, Edited, Account
<1>3. Update(new)
  BY DEF MarksRequest
<1> HIDE DEF new
<1>4. RowStep
  BY <1>1, <1>2, <1>3, UserAt, EditIsRowStep
<1>5. row' # None => row'.asked
  BY <1>2, <1>3 DEF Update
<1>6. /\ Only("user") /\ job'["user"].pc = "ask" /\ job'["user"].op = u.op
      /\ job'["user"].user = u.user
  BY UserAt, GoesTo DEF Coroutines, UserPc, MarksRequest
<1>7. Copies' = Copies
  BY <1>1 DEF Copies
<1>8. Knows("user")'
  BY <1>1, <1>5, <1>6, <1>7, UserAt DEF Knows, UserKnows, ClearKnows, NotAsked, UserPc
<1> QED
  BY <1>1, <1>4, <1>6, <1>8, UserAt, AroundStays, Quiet

LEMMA ClearsKeeps ==
  ASSUME Inv, NEW c \in Callers, Clears(c)
  PROVE  Inv'
<1> DEFINE new == [row EXCEPT !.pending = FALSE]
<1>1. job[c].pc = "clear" /\ UNCHANGED <<hosts, mode, day, grants, rows, told>> /\ c \in Coroutines
      /\ Update(new) /\ GoesOn(c) /\ Typed
  BY DEF Clears, At, Inv, Callers, Coroutines
<1>2. row # None => Edited(new)
  BY <1>1 DEF Typed, Edited, Account
<1> HIDE DEF new
<1>3. RowStep
  BY <1>1, <1>2, EditIsRowStep
<1>4. c = "user" => job["user"].op \in UserOp
  BY <1>1, UserAt DEF UserKnows
<1>5. Only(c) /\ Knows(c)'
  BY <1>1, <1>4, GoesOnFrom
<1> QED
  BY <1>1, <1>3, <1>5, AroundStays, Quiet

LEMMA BansAgainKeeps ==
  ASSUME Inv, BansAgain
  PROVE  Inv'
<1> DEFINE new == [row EXCEPT !.banned = TRUE]
<1>1. UNCHANGED <<hosts, mode, day, grants, rows, told>> /\ Update(new) /\ Ends("user") /\ Typed
  BY DEF BansAgain, Inv
<1>2. row # None => Edited(new)
  BY <1>1 DEF Typed, Edited, Account
<1> HIDE DEF new
<1>3. RowStep
  BY <1>1, <1>2, EditIsRowStep
<1>4. Only("user") /\ Knows("user")'
  BY <1>1, EndsAt DEF Coroutines
<1> QED
  BY <1>1, <1>3, <1>4, AroundStays, Quiet

LEMMA BansKeeps ==
  ASSUME Inv, Bans
  PROVE  Inv'
<1>1. PICK op \in {"ban", "unban"} : Update([row EXCEPT !.banned = op = "ban"])
  BY DEF Bans
<1> DEFINE new == [row EXCEPT !.banned = op = "ban"]
<1>2. UNCHANGED <<hosts, mode, day, grants, rows, told>> /\ Update(new) /\ Ends("admin") /\ Typed
  BY <1>1 DEF Bans, Inv
<1>3. row # None => Edited(new)
  BY <1>2 DEF Typed, Edited, Account
<1> HIDE DEF new
<1>4. RowStep
  BY <1>2, <1>3, EditIsRowStep
<1>5. Only("admin") /\ Knows("admin")'
  BY <1>2, EndsAt DEF Coroutines
<1> QED
  BY <1>2, <1>4, <1>5, AroundStays, Quiet

LEMMA RevokesKeeps ==
  ASSUME Inv, Revokes
  PROVE  Inv'
<1> DEFINE new == [row EXCEPT !.exp = None, !.max = 0]
<1>1. UNCHANGED <<hosts, mode, day, grants, rows, told>> /\ Update(new) /\ Ends("admin") /\ Typed
  BY DEF Revokes, Inv
<1>2. row # None => Edited(new)
  BY <1>1 DEF Typed, Edited, Account, Time
<1> HIDE DEF new
<1>3. RowStep
  BY <1>1, <1>2, EditIsRowStep
<1>4. Only("admin") /\ Knows("admin")'
  BY <1>1, EndsAt DEF Coroutines
<1> QED
  BY <1>1, <1>3, <1>4, AroundStays, Quiet

LEMMA GrantsEdit ==
  ASSUME Inv, Grants, row # None
  PROVE  Edited(row')
<1> DEFINE a == job["admin"]
           new == [row EXCEPT !.exp = Base(a.user) + GrantDays, !.max = MaxHosts,
                              !.flags = {}, !.pending = TRUE, !.grant = grants']
<1>1. /\ row' = new /\ Typed
      /\ grants' = grants + 1 /\ grants < MaxGrants /\ a.pc = "apply" /\ a.op = "grant"
  BY DEF Grants, Inv, Applies, At, Update
<1>2. AdminKnows
  BY DEF Inv, Knows, Coroutines
<1>3. a.user \in AccountCopy
  BY <1>1, <1>2 DEF AdminKnows, Copies
<1>4. Base(a.user) \in Nat
  BY <1>1, <1>3, Constants DEF Base, AccountCopy, Time, Typed
<1>5. Base(a.user) + GrantDays \in Nat
  BY <1>4, Constants
<1>6. Edited(new)
  <2> DEFINE exp == Base(a.user) + GrantDays
             grant == grants'
  <2>1. exp \in Time /\ grant \in Nat /\ MaxHosts \in Nat
    BY <1>1, <1>5, Constants DEF Typed, Time
  <2>2. grant = grants'
    OBVIOUS
  <2> HIDE DEF exp, grant
  <2>3. [row EXCEPT !.exp = exp, !.max = MaxHosts, !.flags = {},
                                  !.pending = TRUE, !.grant = grant] \in Account
    BY <1>1, <2>1 DEF Typed, Account
  <2> USE DEF exp, grant
  <2>4. new \in Account
    BY <2>3
  <2>5. new.id = row.id /\ new.asked = row.asked /\ new.grant = grants'
    BY <1>1 DEF Typed, Account
  <2> QED
    BY <1>1, <2>4, <2>5 DEF Edited
<1> HIDE DEF new
<1> QED
  BY <1>1, <1>6

LEMMA GrantsKeeps ==
  ASSUME Inv, Grants
  PROVE  Inv'
<1>1. /\ UNCHANGED <<hosts, mode, day, rows, told>> /\ Typed
      /\ grants' = grants + 1 /\ grants < MaxGrants
      /\ job' = [job EXCEPT !["admin"] = [Rest EXCEPT !.pc = "activate"]]
  BY DEF Grants, Inv
<1>2. row = None => row' = None
  BY DEF Grants, Update
<1>3. RowStep
  BY <1>1, <1>2, GrantsEdit, Constants DEF RowStep, Typed
<1> DEFINE j == [Rest EXCEPT !.pc = "activate"]
<1>4. j \in Job /\ j.pc = "activate"
  BY DEF Rest, Job, AdminPc
<1>5. Only("admin") /\ job'["admin"] = j
  BY <1>1, <1>4, Becomes DEF Coroutines
<1> HIDE DEF j
<1>6. Knows("admin")'
  BY <1>4, <1>5 DEF Knows, AdminKnows, ClearKnows, AdminPc
<1> QED
  BY <1>1, <1>3, <1>5, <1>6, AroundStays, Quiet

LEMMA DeletesUserKeeps ==
  ASSUME Inv, DeletesUser
  PROVE  Inv'
<1>1. Only("admin") /\ Knows("admin")'
  BY EndsAt DEF DeletesUser, Inv, Coroutines
<1>2. RowStep /\ Around'
  BY RemovalIsRowStep DEF DeletesUser, Inv
<1> QED
  BY <1>1, <1>2, Quiet DEF DeletesUser

LEMMA DeletesAccountKeeps ==
  ASSUME Inv, DeletesAccount
  PROVE  Inv'
<1> DEFINE u == job["user"]
<1>1. u.pc = "remove" /\ told' = told
  BY DEF DeletesAccount, At
<1>2. RowStep /\ Around'
  BY RemovalIsRowStep DEF DeletesAccount, Inv
<1>3. CASE Ends("user")
  <2>1. Only("user") /\ Knows("user")'
    BY <1>3, UserAt, EndsAt DEF Coroutines
  <2> QED
    BY <1>1, <1>2, <2>1, Quiet
<1>4. CASE job' = [job EXCEPT !["user"] = [@ EXCEPT !.pc = "get", !.then = "reban"]]
  <2> DEFINE j == [u EXCEPT !.pc = "get", !.then = "reban"]
  <2>1. job' = [job EXCEPT !["user"] = j] /\ j = [u EXCEPT !.pc = "get", !.then = "reban"]
    BY <1>4
  <2> HIDE DEF j
  <2>2. j \in Job /\ j.pc = "get" /\ j.then = "reban" /\ j.op = u.op /\ j.made = u.made
    BY <2>1, UserAt DEF Job, UserPc
  <2>3. Only("user") /\ job'["user"] = j
    BY <2>1, <2>2, UserAt, Becomes DEF Coroutines
  <2>4. Knows("user")'
    BY <1>1, <2>2, <2>3, UserAt DEF Knows, UserKnows, ClearKnows, UserPc
  <2> QED
    BY <1>1, <1>2, <2>3, <2>4, Quiet
<1> QED
  BY <1>3, <1>4 DEF DeletesAccount

-----------------------------------------------------------------------------
(* The steps that send.                                                    *)

LEMMA Tell ==
  ASSUME Typed, NEW kind, NEW id, <<kind, id>> \in Key, Tells(kind, id)
  PROVE  /\ told' \in [Key -> 0 .. 2]
         /\ \A k \in Key : k # <<kind, id>> => told'[k] = told[k]
         /\ kind = "activated" => told'[<<kind, id>>] = 1
         /\ kind # "activated" /\ told[<<kind, id>>] = 0 => told'[<<kind, id>>] = 1
<1> DEFINE key == <<kind, id>>
           new == IF kind = "activated" THEN 1
                  ELSE IF told[key] = 2 THEN 2 ELSE told[key] + 1
<1>1. told \in [Key -> 0 .. 2] /\ told[key] \in 0 .. 2
  BY DEF Typed
<1>2. new \in 0 .. 2
  BY <1>1
<1>3. told' = [told EXCEPT ![key] = new]
  BY DEF Tells
<1> QED
  BY <1>1, <1>2, <1>3

LEMMA OtherKeys ==
  /\ \A g, h : \A kind \in Notice :
       <<kind, g>> # <<"activated", h>> /\ <<kind, g>> # <<"ask", h>>
  /\ \A g, r : <<"ask", r>> # <<"activated", g>>
BY DEF Notice

LEMMA AnnouncesKeeps ==
  ASSUME Inv, NEW c \in Callers, Announces(c)
  PROVE  Inv'
<1>1. /\ job[c].pc = "activate" /\ c \in Coroutines /\ job[c] \in Job
      /\ UNCHANGED <<row, hosts, mode, day, grants, rows>> /\ Typed
  BY DEF Announces, At, Inv, Typed, Callers, Coroutines
<1>2. c = "user" => job["user"].op \in UserOp
  BY <1>1, UserAt DEF UserKnows
<1>3. CASE GoesOn(c) /\ told' = told
  <2>1. Only(c) /\ Knows(c)'
    BY <1>1, <1>2, <1>3, GoesOnFrom
  <2> QED
    BY <1>1, <1>3, <2>1, AroundStays, Silent
<1>4. CASE /\ row # None /\ Tells("activated", row.grant)
           /\ job' = [job EXCEPT ![c] = [@ EXCEPT !.pc = "clear", !.user = Copy]]
  <2> DEFINE j == [job[c] EXCEPT !.pc = "clear", !.user = Copy]
             key == <<"activated", row.grant>>
  <2>1. job' = [job EXCEPT ![c] = j] /\ j = [job[c] EXCEPT !.pc = "clear", !.user = Copy]
    BY <1>4
  <2>2. Copy \in Copies /\ Copy \in AccountCopy /\ Copy.grant = row.grant
    BY <1>1, <1>4, CopyType DEF Copies, Copy
  <2> HIDE DEF j
  <2>3. j \in Job /\ j.pc = "clear" /\ j.user = Copy /\ j.op = job[c].op
    BY <1>1, <2>1, <2>2 DEF Job, UserPc
  <2>4. Only(c) /\ job'[c] = j
    BY <1>1, <2>1, <2>3, Becomes
  <2>5. row.grant \in 0 .. MaxGrants /\ row.grant \in Nat
    BY <1>1, <1>4, Constants DEF Typed
  <2>6. key \in Key
    BY <2>5, Keys
  <2>7. /\ told' \in [Key -> 0 .. 2] /\ told'[key] = 1
        /\ \A k \in Key : k # key => told'[k] = told[k]
    BY <1>1, <1>4, <2>6, Tell
  <2>8. /\ \A kind \in Notice, g \in 0 .. MaxGrants : told'[<<kind, g>>] = told[<<kind, g>>]
        /\ \A r \in 1 .. MaxRows : told'[<<"ask", r>>] = told[<<"ask", r>>]
    BY <2>7, Keys, OtherKeys
  <2>9. SendsOnly(c)
    <3>1. ASSUME NEW g \in 0 .. MaxGrants, told[<<"activated", g>>] > 0
          PROVE  told'[<<"activated", g>>] > 0
      <4>1. <<"activated", g>> \in Key
        BY Keys
      <4>2. CASE <<"activated", g>> = key
        BY <2>7, <4>2
      <4> QED
        BY <2>7, <3>1, <4>1, <4>2
    <3> QED
      BY <2>7, <2>8, <3>1 DEF SendsOnly
  <2>10. Told'
    BY <1>1, <2>8 DEF Inv, Told
  <2>11. RowSays'
    <3>1. row.id \in 1 .. MaxRows
      BY <1>1, <1>4, Constants DEF Typed
    <3> QED
      BY <1>1, <1>4, <2>5, <2>8, <3>1 DEF Inv, RowSays
  <2>12. ClearKnows(c)'
    BY <1>1, <2>2, <2>3, <2>4, <2>5, <2>7 DEF ClearKnows, Copies
  <2>13. Knows(c)'
    <3>1. CASE c = "user"
      BY <1>2, <2>3, <2>4, <2>2, <2>12, <3>1, <1>1 DEF Knows, UserKnows, UserPc, Copies
    <3>2. CASE c = "admin"
      BY <2>3, <2>4, <2>12, <3>2 DEF Knows, AdminKnows, AdminPc
    <3> QED
      BY <3>1, <3>2 DEF Callers
  <2>14. RowStep
    BY <1>1, StandsStill
  <2> QED
    BY <1>1, <2>4, <2>9, <2>10, <2>11, <2>13, <2>14, AroundStays, Step
<1> QED
  BY <1>3, <1>4 DEF Announces, Owed

LEMMA AsksAdminKeeps ==
  ASSUME Inv, AsksAdmin
  PROVE  Inv'
<1> DEFINE u == job["user"]
           key == <<"ask", u.user.id>>
<1>1. /\ u.pc = "ask" /\ Tells("ask", u.user.id) /\ Reported
      /\ UNCHANGED <<row, hosts, mode, day, grants, rows>>
  BY DEF AsksAdmin, At
<1>2. /\ u.user \in Copies /\ told[key] = 0
      /\ row # None /\ row.id = u.user.id => row.asked
  BY <1>1, UserAt DEF UserKnows, NotAsked
<1>3. u.user.id \in 1 .. MaxRows /\ u.user.id \in 1 .. rows
  BY <1>2, UserAt, Constants DEF Copies, Typed
<1>4. key \in Key
  BY <1>3, Keys
<1>5. /\ told' \in [Key -> 0 .. 2] /\ told'[key] = 1
      /\ \A k \in Key : k # key => told'[k] = told[k]
  BY <1>1, <1>2, <1>4, UserAt, Tell
<1>6. /\ \A kind \in Notice, g \in 0 .. MaxGrants : told'[<<kind, g>>] = told[<<kind, g>>]
      /\ \A g \in 0 .. MaxGrants : told'[<<"activated", g>>] = told[<<"activated", g>>]
      /\ \A r \in 1 .. MaxRows : r # u.user.id => told'[<<"ask", r>>] = told[<<"ask", r>>]
  BY <1>5, Keys, OtherKeys
<1>7. SendsOnly("user")
  BY <1>5, <1>6 DEF SendsOnly
<1>8. Told'
  <2>1. ASSUME NEW r \in 1 .. MaxRows
        PROVE  told'[<<"ask", r>>] <= 1 /\ (r > rows => told'[<<"ask", r>>] = 0)
    <3>1. CASE r = u.user.id
      BY <1>3, <1>5, <3>1, UserAt, Constants DEF Typed
    <3>2. CASE r # u.user.id
      BY <1>6, <3>2, UserAt DEF Told
    <3> QED
      BY <3>1, <3>2
  <2> QED
    BY <1>1, <1>6, <2>1, UserAt DEF Told
<1>9. RowSays'
  <2>1. row # None => row.id \in 1 .. MaxRows /\ row.grant \in 0 .. MaxGrants
    BY UserAt, Constants DEF Typed
  <2> QED
    BY <1>1, <1>2, <1>6, <2>1, UserAt DEF RowSays
<1>10. Only("user") /\ Knows("user")'
  BY <1>1, UserAt, AfterReport
<1>11. RowStep
  BY <1>1, UserAt, StandsStill
<1> QED
  BY <1>1, <1>7, <1>8, <1>9, <1>10, <1>11, UserAt, AroundStays, Step

(* The marks of a notice come before its message, its own first. *)
LEMMA StageSteps ==
  ASSUME NEW kind \in Notice, NEW left \in Stages(kind)
  PROVE  /\ Head(left) \in Notice \cup {"send"}
         /\ left = Steps(kind) => Head(left) = kind
         /\ Head(left) \in Notice => Len(left) # 1 /\ Tail(left) \in Stages(kind)
         /\ Head(left) = "send" => Len(left) = 1 /\ left # Steps(kind)
<1>1. \A a, b, c : /\ Head(<<a, b, c>>) = a /\ Len(<<a, b, c>>) = 3
                   /\ Tail(<<a, b, c>>) = <<b, c>>
  OBVIOUS
<1>2. \A a, b : Head(<<a, b>>) = a /\ Len(<<a, b>>) = 2 /\ Tail(<<a, b>>) = <<b>>
  OBVIOUS
<1>3. \A a : Head(<<a>>) = a /\ Len(<<a>>) = 1
  OBVIOUS
<1>4. CASE kind = "n1" /\ left = <<"n1", "n3", "send">>
  BY <1>1, <1>4 DEF Stages, Steps, Notice
<1>5. CASE kind = "n1" /\ left = <<"n3", "send">>
  <2>1. left # <<"n1", "n3", "send">>
    BY <1>1, <1>2, <1>5
  <2> QED
    BY <1>2, <1>5, <2>1 DEF Stages, Steps, Notice
<1>6. CASE kind # "n1" /\ left = <<kind, "send">>
  BY <1>2, <1>6 DEF Stages, Steps, Notice
<1>7. CASE left = <<"send">>
  <2>1. left # Steps(kind)
    BY <1>1, <1>2, <1>3, <1>7 DEF Steps
  <2> QED
    BY <1>3, <1>7, <2>1 DEF Notice
<1> QED
  BY <1>4, <1>5, <1>6, <1>7 DEF Stages, Steps

LEMMA NoticesAt ==
  ASSUME Inv
  PROVE  NoticesKnow /\ Typed /\ Told /\ RowSays /\ job["notices"] \in Job
BY DEF Inv, Knows, Coroutines, Typed

LEMMA MarksNoticeKeeps ==
  ASSUME Inv, MarksNotice
  PROVE  Inv'
<1> DEFINE n == job["notices"]
           mark == Head(n.left)
           new == [row EXCEPT !.flags = @ \cup {mark}]
<1>1. /\ n.pc = "due" /\ mark \in Notice /\ Update(new) /\ Drops
      /\ UNCHANGED <<hosts, mode, day, grants, rows, told>>
  BY DEF MarksNotice, At, Next1
<1>2. /\ n.op \in Notice /\ n.user \in Copies /\ n.user.grant # 0
      /\ told[<<n.op, n.user.grant>>] = 0 /\ n.left \in Stages(n.op)
      /\ n.left # Steps(n.op) /\ row # None /\ row.grant = n.user.grant => n.op \in row.flags
  BY <1>1, NoticesAt DEF NoticesKnow
<1>3. /\ Len(n.left) # 1 /\ Tail(n.left) \in Stages(n.op)
      /\ n.left = Steps(n.op) => mark = n.op
  BY <1>1, <1>2, StageSteps
<1>4. row # None => Edited(new) /\ new.grant = row.grant /\ new.flags = row.flags \cup {mark}
  BY <1>1, NoticesAt DEF Typed, Edited, Account
<1> DEFINE j == [n EXCEPT !.left = Tail(n.left)]
<1>5. job' = [job EXCEPT !["notices"] = j] /\ j = [n EXCEPT !.left = Tail(n.left)]
  BY <1>1, <1>3 DEF Drops
<1> HIDE DEF new, j, mark
<1>6. RowStep
  BY <1>1, <1>4, NoticesAt, EditIsRowStep
<1>7. /\ j \in Job /\ j.pc = n.pc /\ j.op = n.op /\ j.user = n.user /\ j.left = Tail(n.left)
  <2> DEFINE left == Tail(n.left)
  <2>1. left \in UNION {Stages(kind) : kind \in Notice}
    BY <1>2, <1>3
  <2> HIDE DEF left
  <2>2. j = [n EXCEPT !.left = left]
    BY <1>5 DEF left
  <2>3. j \in Job /\ j.pc = n.pc /\ j.op = n.op /\ j.user = n.user /\ j.left = left
    BY <2>1, <2>2, NoticesAt DEF Job
  <2> QED
    BY <2>3 DEF left
<1>8. Only("notices") /\ job'["notices"] = j
  BY <1>5, <1>7, NoticesAt, Becomes DEF Coroutines
<1>9. row' # None /\ row'.grant = n.user.grant => n.op \in row'.flags
  BY <1>1, <1>2, <1>3, <1>4 DEF Update
<1>10. Copies' = Copies
  BY <1>1 DEF Copies
<1>11. Knows("notices")'
  BY <1>1, <1>2, <1>3, <1>7, <1>8, <1>9, <1>10 DEF Knows, NoticesKnow, NoticesPc
<1> QED
  BY <1>1, <1>6, <1>8, <1>11, NoticesAt, AroundStays, Quiet

LEMMA SendsNoticeKeeps ==
  ASSUME Inv, SendsNotice
  PROVE  Inv'
<1> DEFINE n == job["notices"]
           key == <<n.op, n.user.grant>>
<1>1. /\ n.pc = "due" /\ Head(n.left) = "send" /\ Tells(n.op, n.user.grant) /\ Drops
      /\ UNCHANGED <<row, hosts, mode, day, grants, rows>>
  BY DEF SendsNotice, At, Next1
<1>2. /\ n.op \in Notice /\ n.user \in Copies /\ n.user.grant # 0
      /\ told[key] = 0 /\ n.left \in Stages(n.op)
      /\ n.left # Steps(n.op) /\ row # None /\ row.grant = n.user.grant => n.op \in row.flags
  BY <1>1, NoticesAt DEF NoticesKnow
<1>3. Len(n.left) = 1 /\ n.left # Steps(n.op)
  BY <1>1, <1>2, StageSteps
<1>4. n.user.grant \in 0 .. MaxGrants /\ n.user.grant \in 0 .. grants
  BY <1>2, NoticesAt, Constants DEF Copies, Typed
<1>5. key \in Key
  BY <1>2, <1>4, Keys
<1>6. n.op # "activated"
  BY <1>2 DEF Notice
<1>7. /\ told' \in [Key -> 0 .. 2] /\ told'[key] = 1
      /\ \A k \in Key : k # key => told'[k] = told[k]
  BY <1>1, <1>2, <1>5, <1>6, NoticesAt, Tell
<1>8. /\ \A kind \in Notice, g \in 0 .. MaxGrants :
           kind # n.op \/ g # n.user.grant => told'[<<kind, g>>] = told[<<kind, g>>]
      /\ \A g \in 0 .. MaxGrants : told'[<<"activated", g>>] = told[<<"activated", g>>]
      /\ \A r \in 1 .. MaxRows : told'[<<"ask", r>>] = told[<<"ask", r>>]
  BY <1>2, <1>7, Keys, OtherKeys
<1>9. SendsOnly("notices")
  BY <1>7, <1>8 DEF SendsOnly
<1>10. Told'
  <2>1. ASSUME NEW kind \in Notice, NEW g \in 0 .. MaxGrants
        PROVE  /\ told'[<<kind, g>>] <= 1
               /\ g = 0 \/ g > grants => told'[<<kind, g>>] = 0
    <3>1. CASE kind = n.op /\ g = n.user.grant
      BY <1>2, <1>4, <1>7, <3>1, NoticesAt, Constants DEF Typed
    <3>2. CASE kind # n.op \/ g # n.user.grant
      BY <1>8, <3>2, NoticesAt DEF Told
    <3> QED
      BY <3>1, <3>2
  <2> QED
    BY <1>1, <1>8, <2>1, NoticesAt DEF Told
<1>11. RowSays'
  <2>1. row # None => row.id \in 1 .. MaxRows /\ row.grant \in 0 .. MaxGrants
    BY NoticesAt, Constants DEF Typed
  <2> QED
    BY <1>1, <1>2, <1>3, <1>8, <2>1, NoticesAt DEF RowSays
<1>12. Only("notices") /\ Knows("notices")'
  BY <1>1, <1>3, NoticesAt, EndsAt DEF Drops, Coroutines
<1>13. RowStep
  BY <1>1, NoticesAt, StandsStill
<1> QED
  BY <1>1, <1>9, <1>10, <1>11, <1>12, <1>13, NoticesAt, AroundStays, Step

-----------------------------------------------------------------------------
(* The theorems.                                                           *)

LEMMA InvInit ==
  ASSUME Init
  PROVE  Inv
<1>1. job \in [Coroutines -> Job] /\ \A c \in Coroutines : job[c].pc = "idle"
  BY RestIsJob DEF Init, Coroutines
<1>2. told \in [Key -> 0 .. 2] /\ \A k \in Key : told[k] = 0
  BY DEF Init
<1>3. Typed
  BY <1>1, <1>2, Constants DEF Init, Typed
<1>4. Told
  <2>1. \A kind \in Notice, g \in 0 .. MaxGrants : told[<<kind, g>>] = 0
    BY <1>2, Keys
  <2>2. \A r \in 1 .. MaxRows : told[<<"ask", r>>] = 0
    BY <1>2, Keys
  <2> QED
    BY <2>1, <2>2 DEF Told
<1>5. RowSays
  BY DEF Init, RowSays
<1>6. ASSUME NEW c \in Coroutines
      PROVE  Knows(c)
  BY <1>1, <1>6 DEF Knows, Coroutines, UserKnows, AdminKnows, NoticesKnow, ClearKnows,
        UserPc, AdminPc, NoticesPc
<1> QED
  BY <1>3, <1>4, <1>5, <1>6 DEF Inv

LEMMA InvStep ==
  ASSUME Inv, [Next]_vars
  PROVE  Inv'
<1>1. CASE UNCHANGED vars
  BY <1>1 DEF vars, Inv, Typed, Told, RowSays, Knows, Copies, UserKnows, AdminKnows,
        NoticesKnow, ClearKnows, NotAsked
<1>2. CASE \/ \E op \in UserOp : UserSends(op)
           \/ UpdatesSeen \/ Evaluates \/ Notifies \/ MarksRequest \/ AsksAdmin
           \/ ChecksLimit \/ Saves \/ StartsDeletion \/ DeletesAccount \/ BansAgain
  BY <1>2, UserSendsKeeps, UpdatesSeenKeeps, EvaluatesKeeps, NotifiesKeeps, MarksRequestKeeps,
     AsksAdminKeeps, BodyKeeps, DeletesAccountKeeps, BansAgainKeeps
<1>3. CASE \/ \E op \in AdminOp : AdminStarts(op)
           \/ Bans \/ Grants \/ Revokes \/ DeletesUser \/ SetsMode
  BY <1>3, AdminStartsKeeps, BansKeeps, GrantsKeeps, RevokesKeeps, DeletesUserKeeps,
     SetsModeKeeps
<1>4. CASE \E c \in Callers : Gets(c) \/ Inserts(c) \/ Rereads(c) \/ Announces(c) \/ Clears(c)
  BY <1>4, GetsKeeps, InsertsKeeps, RereadsKeeps, AnnouncesKeeps, ClearsKeeps
<1>5. CASE FindsDue \/ MarksNotice \/ SendsNotice \/ DayPasses \/ Restarts
  BY <1>5, FindsDueKeeps, MarksNoticeKeeps, SendsNoticeKeeps, DayPassesKeeps, RestartsKeeps
<1> QED
  BY <1>1, <1>2, <1>3, <1>4, <1>5 DEF Next, UserOp, AdminOp, Callers

(* Whatever statements of the gate, the administrator and housekeeping run *)
(* between two statements of one of them, and wherever the process dies,   *)
(* each goes on with a copy of the row that still says what it relies on,  *)
(* and the row remembers which messages were sent for it.                  *)
THEOREM AccountsInvariant == Spec => []Inv
<1>1. Init => Inv
  BY InvInit
<1>2. Inv /\ [Next]_vars => Inv'
  BY InvStep
<1> QED
  BY <1>1, <1>2, PTL DEF Spec

(* Rows, counters and copies keep their types, and no coroutine is at a    *)
(* statement that needs a copy of the row without one.                     *)
THEOREM AccountsTypeCorrect == Spec => []TypeOK
<1>1. Inv => TypeOK
  <2> SUFFICES ASSUME Inv
               PROVE  TypeOK
    OBVIOUS
  <2>1. Typed /\ UserKnows /\ ClearKnows("user") /\ AdminKnows /\ ClearKnows("admin")
    BY DEF Inv, Knows, Coroutines
  <2>2. \A u \in Copies : u # None
    BY Constants DEF Copies
  <2>3. \A c \in {"user", "admin"} :
          job[c].pc \in {"update", "evaluate", "mark", "ask", "remove", "clear"}
            => job[c].user # None
    BY <2>1, <2>2 DEF UserKnows, AdminKnows, ClearKnows, AdminPc
  <2> QED
    BY <2>1, <2>3, Constants DEF Typed, TypeOK
<1> QED
  BY <1>1, AccountsInvariant, PTL

(* No stage of a grant is announced twice, although housekeeping decides   *)
(* on a copy that a renewal, a revocation, a deletion or a restart may     *)
(* have overtaken (housekeeping.py:93-108).                                *)
THEOREM AlwaysNoticeOnce == Spec => []NoticeOnce
<1>1. Inv => NoticeOnce
  BY DEF Inv, Told, NoticeOnce
<1> QED
  BY <1>1, AccountsInvariant, PTL

(* The administrator is asked once about a user, by the first contact or   *)
(* by the gate behind it (gate.py:145-154, 172-189).                       *)
THEOREM AlwaysRequestOnce == Spec => []RequestOnce
<1>1. Inv => RequestOnce
  BY DEF Inv, Told, RequestOnce
<1> QED
  BY <1>1, AccountsInvariant, PTL

(* Who does not clear a debt keeps it. *)
LEMMA OnlyClears ==
  ASSUME Inv, [Next]_vars, row # None, row.pending, row' # None, row'.id = row.id, ~row'.pending
  PROVE  \E c \in Callers : Clears(c)
<1>1. row \in Account /\ row.id \in 1 .. rows /\ rows \in Nat
  BY DEF Inv, Typed
<1>2. row' # row
  OBVIOUS
<1>3. CASE UpdatesSeen \/ MarksRequest \/ BansAgain \/ Bans \/ Grants \/ Revokes \/ MarksNotice
  BY <1>1, <1>3 DEF UpdatesSeen, MarksRequest, BansAgain, Bans, Grants, Revokes, MarksNotice,
        Update, Account
<1>4. CASE DeletesAccount \/ DeletesUser
  BY <1>4 DEF DeletesAccount, DeletesUser, Removes
<1>5. CASE \E c \in Callers : Inserts(c)
  BY <1>2, <1>5 DEF Inserts, Duplicate
<1> QED
  BY <1>2, <1>3, <1>4, <1>5 DEF Next, vars, UserSends, Evaluates, Notifies, AsksAdmin,
        ChecksLimit, Saves, StartsDeletion, AdminStarts, SetsMode, Gets, Rereads, Announces,
        Callers, FindsDue, SendsNotice, DayPasses, Restarts

(* The debt of an activation message is cleared when the message of this   *)
(* grant arrived, or by the coroutine that told of an earlier grant        *)
(* (gate.py:123-142).                                                      *)
THEOREM AlwaysOwedUntilTold == Spec => OwedUntilTold
<1>1. ASSUME Inv, [Next]_vars, row # None, row.pending, row' # None, row'.id = row.id,
             ~row'.pending
      PROVE  \/ told[<<"activated", row.grant>>] > 0
             \/ \E c \in {"user", "admin"} : At(c, "clear") /\ job[c].user.grant < row.grant
  <2>1. PICK c \in Callers : Clears(c)
    BY <1>1, OnlyClears
  <2> DEFINE user == job[c].user
  <2>2. job[c].pc = "clear" /\ ClearKnows(c)
    BY <1>1, <2>1 DEF Inv, Knows, Callers, Coroutines, Clears, At
  <2>3. row.grant # 0 /\ row.grant \in Nat
    BY <1>1 DEF Inv, RowSays, Typed, Account
  <2>4. /\ user.grant \in Nat /\ user.grant <= row.grant
        /\ told[<<"activated", user.grant>>] > 0
    BY <1>1, <2>2, <2>3 DEF ClearKnows, Copies, AccountCopy
  <2>5. CASE user.grant = row.grant
    BY <2>4, <2>5
  <2>6. CASE user.grant < row.grant
    BY <2>2, <2>6 DEF Callers, At
  <2> QED
    BY <2>3, <2>4, <2>5, <2>6
<1>2. Inv /\ [Next]_vars
        => [row # None /\ row.pending /\ row' # None /\ row'.id = row.id /\ ~row'.pending
              => \/ told[<<"activated", row.grant>>] > 0
                 \/ \E c \in {"user", "admin"} : At(c, "clear") /\ job[c].user.grant < row.grant]_vars
  BY <1>1
<1> QED
  BY <1>2, AccountsInvariant, PTL DEF Spec, OwedUntilTold

LEMMA HostsChange ==
  ASSUME [Next]_vars, hosts' # hosts, hosts' # 0
  PROVE  Saves
BY DEF Next, vars, UserSends, UpdatesSeen, Evaluates, Notifies, MarksRequest, AsksAdmin,
       ChecksLimit, StartsDeletion, DeletesAccount, BansAgain, AdminStarts, Bans, Grants,
       Revokes, DeletesUser, SetsMode, Gets, Inserts, Rereads, Announces, Clears, FindsDue,
       MarksNotice, SendsNotice, DayPasses, Restarts, Removes, RemovedHosts

(* A row that goes takes its hosts with it. *)
LEMMA OnlyRemoved ==
  ASSUME Inv, [Next]_vars, row # None, row' = None
  PROVE  hosts' = 0
<1>1. Typed /\ row \in Account /\ row' \notin Account
  BY Constants DEF Inv, Typed
<1>2. ~(UpdatesSeen \/ MarksRequest \/ BansAgain \/ Bans \/ Revokes)
  <2>1. ~(UpdatesSeen \/ MarksRequest \/ BansAgain)
    BY <1>1 DEF UpdatesSeen, MarksRequest, BansAgain, Update, Account
  <2>2. ~Bans
    <3>1. \A banned \in BOOLEAN : [row EXCEPT !.banned = banned] \in Account
      BY <1>1 DEF Account
    <3>2. \A op : (op = "ban") \in BOOLEAN
      OBVIOUS
    <3> QED
      BY <1>1, <3>1, <3>2 DEF Bans, Update
  <2>3. ~Revokes
    <3>1. [row EXCEPT !.exp = None, !.max = 0] \in Account
      BY <1>1 DEF Account, Time
    <3> QED
      BY <1>1, <3>1 DEF Revokes, Update
  <2> QED
    BY <2>1, <2>2, <2>3
<1>3. ~MarksNotice
  BY <1>1 DEF MarksNotice, Update, Account
<1>4. ~Grants
  BY <1>1, GrantsEdit DEF Edited
<1>5. ASSUME NEW c \in Callers
      PROVE  ~Clears(c) /\ ~Inserts(c)
  BY <1>1 DEF Clears, Inserts, Duplicate, Update, Account
<1>6. CASE DeletesAccount \/ DeletesUser
  BY <1>6 DEF DeletesAccount, DeletesUser, Removes, RemovedHosts
<1> QED
  BY <1>2, <1>3, <1>4, <1>5, <1>6 DEF Next, vars, UserSends, Evaluates, Notifies, AsksAdmin,
        ChecksLimit, Saves, StartsDeletion, AdminStarts, SetsMode, Gets, Rereads, Announces,
        Callers, FindsDue, SendsNotice, DayPasses, Restarts

(* Whatever the administrator deletes meanwhile, hosts without a user row  *)
(* come only from the insert that ends the wizard (hosts.py:325-331).      *)
THEOREM AlwaysOrphansOnlyBySave == Spec => OrphansOnlyBySave
<1>1. ASSUME Inv, [Next]_vars, ~Orphans, Orphans'
      PROVE  At("user", "save") /\ row = None
  <2>1. row' = None /\ hosts' > 0
    BY <1>1 DEF Orphans
  <2>2. hosts' # 0
    BY <2>1
  <2>3. row = None
    BY <1>1, <2>1, <2>2, OnlyRemoved
  <2>4. hosts' # hosts
    BY <1>1, <2>1, <2>3 DEF Orphans
  <2>5. Saves
    BY <1>1, <2>2, <2>4, HostsChange
  <2> QED
    BY <2>3, <2>5 DEF Saves
<1>2. Inv /\ [Next]_vars => [~Orphans /\ Orphans' => At("user", "save") /\ row = None]_vars
  BY <1>1
<1> QED
  BY <1>2, AccountsInvariant, PTL DEF Spec, OrphansOnlyBySave

==============================================================================
