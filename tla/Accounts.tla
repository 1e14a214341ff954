------------------------------ MODULE Accounts ------------------------------
(***************************************************************************)
(* The row of one user and three coroutines that read and write it: the    *)
(* handlers of the user's chat behind the gate (handlers/gate.py), the     *)
(* handlers of the administrator (handlers/admin.py) and the notices of    *)
(* housekeeping (core/housekeeping.py).  The handlers of a chat run one at *)
(* a time (module OrderedProcessor), so each is one coroutine; every       *)
(* statement of the database runs by itself (Database._run), and the       *)
(* others run between any two of them.  A coroutine goes on with its copy  *)
(* of the row.                                                             *)
(*                                                                         *)
(* A step is a statement or a message; a statement that only reads what    *)
(* the next step decides with is part of that step.  Terms and channels    *)
(* can only block a user more: the gate may block anyone.  What ends a     *)
(* session (reset_chat, enforce_access) is in module Sessions.             *)
(***************************************************************************)
EXTENDS Integers, Sequences

CONSTANTS
  GrantDays,   \* days of a grant
  MaxDay,      \* bound: days that pass
  MaxGrants,   \* bound: grants
  MaxRows,     \* bound: rows made for the user
  MaxSent,     \* bound: updates of the user, acts of the administrator
  MaxHosts,    \* bound: hosts of the user; also sub_max_hosts of a grant
  Crashes,     \* whether the process may die and start again
  None

Notice == {"n3", "n1", "nexp"}

(* A row of users (db.py:20-36), and what a coroutine uses of its copy.    *)
(* NULL is None.                                                           *)
Time == Nat \cup {None}
Account == [banned: BOOLEAN, exp: Time, max: Nat, pending: BOOLEAN, asked: BOOLEAN,
            started: BOOLEAN, flags: SUBSET Notice, grant: Nat, id: Nat]
AccountCopy == [banned: BOOLEAN, exp: Time, pending: BOOLEAN, asked: BOOLEAN,
                grant: Nat, id: Nat]

ASSUME AccountsAssumption ==
  /\ {GrantDays, MaxHosts, MaxRows} \subseteq Nat \ {0}
  /\ {MaxDay, MaxGrants} \subseteq Nat
  /\ MaxSent \in [{"user", "admin"} -> Nat]
  /\ Crashes \in BOOLEAN
  /\ None \notin Int \cup Account \cup AccountCopy

VARIABLES
  row,     \* the user's row, or None
  hosts,   \* how many rows of hosts have this owner_id
  mode,    \* the setting "mode"
  day,     \* time.time()
  job,     \* the coroutines
  sent,    \* how many updates and acts there have been
  grants, rows,  \* history: how many there have been; they number the next
  told     \* history: how often a message was sent (activations: arrived), up to 2

vars == <<row, hosts, mode, day, job, sent, grants, rows, told>>

Key == ((Notice \cup {"activated"}) \X (0 .. MaxGrants)) \cup ({"ask"} \X (1 .. MaxRows))

(* pc, what it was asked, its copy of the row, whether it made the row,    *)
(* where it goes on with the row, and the steps of a notice that are left. *)
Rest == [pc |-> "idle", op |-> None, user |-> None, made |-> FALSE, then |-> "idle",
         left |-> <<>>]

Init ==
  /\ row = None /\ hosts = 0 /\ mode \in {"free", "paid"} /\ day = 0
  /\ job = [c \in {"user", "admin", "notices"} |-> Rest]
  /\ sent = [c \in {"user", "admin"} |-> 0]
  /\ grants = 0 /\ rows = 0 /\ told = [k \in Key |-> 0]

At(c, pc) == job[c].pc = pc
Counts(c) == sent[c] < MaxSent[c] /\ sent' = [sent EXCEPT ![c] = @ + 1]
Goes(c, pc) == job' = [job EXCEPT ![c].pc = pc]
Ends(c) == job' = [job EXCEPT ![c] = Rest]

(* The gate lets the user's update through to the handler proper; the      *)
(* administrator's handler is done.                                        *)
GoesOn(c) ==
  IF c = "user" /\ job[c].op # "look"
  THEN job' = [job EXCEPT ![c] = [Rest EXCEPT !.pc = "body", !.op = job[c].op]]
  ELSE Ends(c)

(* An exception.  One of the gate does not stop the update either          *)
(* (router.on_error): the handler proper runs without a verdict.           *)
Raises(c) == IF job[c].then = "evaluate" THEN GoesOn(c) ELSE Ends(c)

Copy == [banned |-> row.banned, exp |-> row.exp, pending |-> row.pending,
         asked |-> row.asked, grant |-> row.grant, id |-> row.id]

(* UPDATE users SET ... WHERE id=?: nothing if the row is gone. *)
Update(new) == row' = IF row = None THEN None ELSE new
Tells(kind, id) ==
  told' = [told EXCEPT ![<<kind, id>>] = IF kind = "activated" THEN 1 ELSE IF @ = 2 THEN 2 ELSE @ + 1]

----------------------------------------------------------------------------
(* ensure_user, ensure_placeholder and the first half of grant             *)
(* (db.py:136-163, 194-201); then is where the caller goes on.             *)

(* last_seen is not modelled: an UPDATE that changes nothing else is as a  *)
(* later get_user.                                                         *)
Gets(c) ==
  /\ At(c, "get")
  /\ job' = [job EXCEPT ![c] = [@ EXCEPT
       !.user = IF row = None \/ job[c].op \in {"ban", "unban"} THEN None ELSE Copy,
       !.pc = IF row = None THEN "insert"
              ELSE IF c = "user" /\ ~row.started THEN "update" ELSE job[c].then]]
  /\ UNCHANGED <<row, hosts, mode, day, sent, grants, rows, told>>

(* The key is unique: if the row has appeared it is an IntegrityError.     *)
Duplicate == row # None

Inserts(c) ==
  /\ At(c, "insert")
  /\ IF Duplicate THEN Raises(c) /\ UNCHANGED <<row, rows>>
     ELSE /\ rows' = rows + 1
          /\ row' = [banned |-> FALSE, exp |-> None, max |-> 0, pending |-> FALSE,
                     asked |-> FALSE, started |-> c = "user", flags |-> {},
                     grant |-> 0, id |-> rows']
          /\ job' = [job EXCEPT ![c] = [@ EXCEPT
               !.pc = IF job[c].op \in {"ban", "unban"} THEN "apply" ELSE "reread",
               !.made = TRUE]]
  /\ UNCHANGED <<hosts, mode, day, sent, grants, told>>

UpdatesSeen ==
  /\ At("user", "update")
  /\ Update([row EXCEPT !.started = TRUE])
  /\ Goes("user", "reread")
  /\ UNCHANGED <<hosts, mode, day, sent, grants, rows, told>>

(* A row that is gone again is a TypeError in the caller, except that      *)
(* "delete account" does not look at it (start.py:117).  A new user is     *)
(* reported first.                                                         *)
Rereads(c) ==
  /\ At(c, "reread")
  /\ IF row = None
     THEN IF job[c].then = "reban" THEN Goes(c, "reban") ELSE Raises(c)
     ELSE job' = [job EXCEPT ![c] = [@ EXCEPT
            !.user = Copy, !.pc = IF c = "user" /\ job[c].made /\ job[c].then = "evaluate" THEN "notify" ELSE job[c].then]]
  /\ UNCHANGED <<row, hosts, mode, day, sent, grants, rows, told>>

----------------------------------------------------------------------------
(* send_activation (gate.py:123-142).  A message that does not arrive is   *)
(* still owed.                                                             *)

Owed_Never(arrives) == FALSE
Owed(arrives) == ~arrives

Announces(c) ==
  /\ At(c, "activate")
  /\ \/ row = None /\ GoesOn(c) /\ UNCHANGED told
     \/ \E arrives \in BOOLEAN :
          /\ row # None
          /\ IF arrives THEN Tells("activated", row.grant) ELSE UNCHANGED told
          /\ IF Owed(arrives) THEN GoesOn(c)
             ELSE job' = [job EXCEPT ![c] = [@ EXCEPT !.pc = "clear", !.user = Copy]]
  /\ UNCHANGED <<row, hosts, mode, day, sent, grants, rows>>

Clears(c) ==
  /\ At(c, "clear")
  /\ Update([row EXCEPT !.pending = FALSE])
  /\ GoesOn(c)
  /\ UNCHANGED <<hosts, mode, day, sent, grants, rows, told>>

----------------------------------------------------------------------------
(* The gate (gate.py:33-86, 145-191) and the user's handlers.              *)

UserSends(op) ==
  /\ At("user", "idle") /\ Counts("user")
  /\ job' = [job EXCEPT !["user"] = [Rest EXCEPT !.pc = "get", !.op = op, !.then = "evaluate"]]
  /\ UNCHANGED <<row, hosts, mode, day, grants, rows, told>>

HasAccess(user) == mode = "free" \/ (user.exp # None /\ user.exp > day)

AsksAccess_AnyTime(u) == ~u.user.asked
AsksAccess(u) == ~u.user.asked /\ ~u.made

Evaluates ==
  LET u == job["user"] IN
  /\ At("user", "evaluate")
  /\ \/ Ends("user")                              \* terms, channels
     \/ /\ ~u.user.banned /\ HasAccess(u.user)
        /\ IF u.user.pending THEN Goes("user", "activate") ELSE GoesOn("user")
     \/ ~u.user.banned /\ ~HasAccess(u.user) /\ AsksAccess(u) /\ Goes("user", "notify")
  /\ UNCHANGED <<row, hosts, mode, day, sent, grants, rows, told>>

(* _notify_admin_new_user: in free mode the report asks for nothing.       *)
Reported == IF job["user"].made THEN Goes("user", "evaluate") ELSE Ends("user")

Notifies ==
  /\ At("user", "notify")
  /\ IF mode = "paid" THEN Goes("user", "mark") ELSE Reported
  /\ UNCHANGED <<row, hosts, mode, day, sent, grants, rows, told>>

MarksRequest ==
  /\ At("user", "mark")
  /\ Update([row EXCEPT !.asked = TRUE])
  /\ Goes("user", "ask")
  /\ UNCHANGED <<hosts, mode, day, sent, grants, rows, told>>

AsksAdmin ==
  /\ At("user", "ask")
  /\ Tells("ask", job["user"].user.id)
  /\ Reported
  /\ UNCHANGED <<row, hosts, mode, day, sent, grants, rows>>

(* The handler proper: a host saved by the wizard (hosts.py:207-211,       *)
(* 324-332), or "delete account" (start.py:105-119).                       *)
ChecksLimit ==
  /\ At("user", "body") /\ job["user"].op = "save"
  /\ IF mode = "paid" /\ (row = None \/ hosts >= row.max) THEN Ends("user")
     ELSE Goes("user", "save")
  /\ UNCHANGED <<row, hosts, mode, day, sent, grants, rows, told>>

Saves ==
  /\ At("user", "save")
  /\ hosts' = IF hosts < MaxHosts THEN hosts + 1 ELSE hosts
  /\ Ends("user")
  /\ UNCHANGED <<row, mode, day, sent, grants, rows, told>>

(* get_user, then reset_chat, which suspends. *)
StartsDeletion ==
  /\ At("user", "body") /\ job["user"].op = "delete"
  /\ IF row = None THEN Ends("user")
     ELSE job' = [job EXCEPT !["user"] = [@ EXCEPT !.user = Copy, !.pc = "remove"]]
  /\ UNCHANGED <<row, hosts, mode, day, sent, grants, rows, told>>

(* delete_user: one transaction (db.py:184-191). *)
RemovedHosts_Left == hosts
RemovedHosts == 0

Removes == row' = None /\ hosts' = RemovedHosts

DeletesAccount ==
  LET banned == job["user"].user.banned IN
  /\ At("user", "remove") /\ rows < MaxRows
  /\ Removes
  /\ IF banned THEN job' = [job EXCEPT !["user"] = [@ EXCEPT !.pc = "get", !.then = "reban"]]
     ELSE Ends("user")
  /\ UNCHANGED <<mode, day, sent, grants, rows, told>>

BansAgain ==
  /\ At("user", "reban")
  /\ Update([row EXCEPT !.banned = TRUE])
  /\ Ends("user")
  /\ UNCHANGED <<hosts, mode, day, sent, grants, rows, told>>

----------------------------------------------------------------------------
(* The administrator (admin.py:227-258, 264-278, 320-334, 707-711).        *)

AdminStarts(op) ==
  /\ At("admin", "idle") /\ Counts("admin")
  /\ job' = [job EXCEPT !["admin"] =
       [Rest EXCEPT !.op = op, !.then = "apply",
                    !.pc = IF op \in {"ban", "unban", "grant"} THEN "get" ELSE "apply"]]
  /\ UNCHANGED <<row, hosts, mode, day, grants, rows, told>>

Applies(op) == At("admin", "apply") /\ job["admin"].op = op

Bans ==
  /\ \E op \in {"ban", "unban"} :
       /\ Applies(op)
       /\ Update([row EXCEPT !.banned = op = "ban"])
  /\ Ends("admin")
  /\ UNCHANGED <<hosts, mode, day, sent, grants, rows, told>>

(* Days are added to what is left (db.py:202-207). *)
Base(user) == IF user.exp # None /\ user.exp > day THEN user.exp ELSE day

Grants ==
  /\ Applies("grant") /\ grants < MaxGrants
  /\ grants' = grants + 1
  /\ Update([row EXCEPT !.exp = Base(job["admin"].user) + GrantDays, !.max = MaxHosts,
                        !.flags = {}, !.pending = TRUE, !.grant = grants'])
  /\ job' = [job EXCEPT !["admin"] = [Rest EXCEPT !.pc = "activate"]]
  /\ UNCHANGED <<hosts, mode, day, sent, rows, told>>

Revokes ==
  /\ Applies("revoke")
  /\ Update([row EXCEPT !.exp = None, !.max = 0])
  /\ Ends("admin")
  /\ UNCHANGED <<hosts, mode, day, sent, grants, rows, told>>

DeletesUser ==
  /\ Applies("delete") /\ rows < MaxRows
  /\ Removes
  /\ Ends("admin")
  /\ UNCHANGED <<mode, day, sent, grants, rows, told>>

SetsMode ==
  /\ Applies("mode")
  /\ mode' \in {"free", "paid"}                  \* by the button, perhaps an old one
  /\ Ends("admin")
  /\ UNCHANGED <<row, hosts, day, sent, grants, rows, told>>

----------------------------------------------------------------------------
(* _subscription_notices (housekeeping.py:85-108) for this user: what is   *)
(* due by the copy is marked first and sent then.                          *)

Steps_SendsFirst(kind) == <<"send", kind>>
Steps(kind) == IF kind = "n1" THEN <<"n1", "n3", "send">> ELSE <<kind, "send">>

Due(left) == IF left <= 0 THEN "nexp" ELSE IF left <= 1 THEN "n1"
             ELSE IF left <= 3 THEN "n3" ELSE None

FindsDue ==
  /\ At("notices", "idle")
  /\ mode = "paid" /\ row # None
  /\ row.exp # None /\ row.started /\ ~row.banned
  /\ LET kind == Due(row.exp - day) IN
     /\ kind # None /\ kind \notin row.flags
     /\ job' = [job EXCEPT !["notices"] =
                  [Rest EXCEPT !.pc = "due", !.op = kind, !.user = Copy, !.left = Steps(kind)]]
  /\ UNCHANGED <<row, hosts, mode, day, sent, grants, rows, told>>

Next1 == Head(job["notices"].left)
Drops == IF Len(job["notices"].left) = 1 THEN Ends("notices")
         ELSE job' = [job EXCEPT !["notices"].left = Tail(@)]

MarksNotice ==
  /\ At("notices", "due") /\ Next1 \in Notice
  /\ Update([row EXCEPT !.flags = @ \cup {Next1}])
  /\ Drops
  /\ UNCHANGED <<hosts, mode, day, sent, grants, rows, told>>

SendsNotice ==
  /\ At("notices", "due") /\ Next1 = "send"
  /\ Tells(job["notices"].op, job["notices"].user.grant)
  /\ Drops
  /\ UNCHANGED <<row, hosts, mode, day, sent, grants, rows>>

----------------------------------------------------------------------------
DayPasses ==
  /\ day < MaxDay
  /\ day' = day + 1
  /\ UNCHANGED <<row, hosts, mode, job, sent, grants, rows, told>>

(* The process dies and starts again: the database is what it was. *)
Restarts ==
  /\ Crashes
  /\ job' = [c \in DOMAIN job |-> Rest]
  /\ UNCHANGED <<row, hosts, mode, day, sent, grants, rows, told>>

Next ==
  \/ \E op \in {"look", "save", "delete"} : UserSends(op)
  \/ UpdatesSeen \/ Evaluates \/ Notifies \/ MarksRequest \/ AsksAdmin
  \/ ChecksLimit \/ Saves \/ StartsDeletion \/ DeletesAccount \/ BansAgain
  \/ \E op \in {"ban", "unban", "grant", "revoke", "delete", "mode"} : AdminStarts(op)
  \/ Bans \/ Grants \/ Revokes \/ DeletesUser \/ SetsMode
  \/ \E c \in {"user", "admin"} :
       Gets(c) \/ Inserts(c) \/ Rereads(c) \/ Announces(c) \/ Clears(c)
  \/ FindsDue \/ MarksNotice \/ SendsNotice
  \/ DayPasses \/ Restarts

Spec == Init /\ [][Next]_vars

----------------------------------------------------------------------------
(* Properties.                                                             *)

(* The row (db.py:22-40) and the coroutines; a number is never used twice. *)
TypeOK ==
  /\ row # None => row \in Account /\ row.id \in 1 .. rows /\ row.grant \in 0 .. grants
  /\ hosts \in 0 .. MaxHosts /\ day \in 0 .. MaxDay
  /\ rows <= MaxRows /\ grants <= MaxGrants
  /\ \A c \in {"user", "admin"} :
       job[c].pc \in {"update", "evaluate", "mark", "ask", "remove", "clear"}
         => job[c].user # None

(* A user is reminded at most once of each stage of a grant, whatever      *)
(* dies, is renewed or is revoked meanwhile (housekeeping.py:93-108).      *)
NoticeOnce == \A kind \in Notice, g \in 0 .. MaxGrants : told[<<kind, g>>] <= 1

(* The administrator is asked at most once about a user who has no         *)
(* subscription, at the first contact or later (gate.py:145-154, 172-189). *)
RequestOnce == \A r \in 1 .. MaxRows : told[<<"ask", r>>] <= 1

(* A grant stops being owed a message only when its message was sent,      *)
(* unless the message of an earlier grant was still under way              *)
(* (gate.py:123-142).                                                      *)
OwedUntilTold ==
  [][row # None /\ row.pending /\ row' # None /\ row'.id = row.id /\ ~row'.pending
       => \/ told[<<"activated", row.grant>>] > 0
          \/ \E c \in {"user", "admin"} : At(c, "clear") /\ job[c].user.grant < row.grant]_vars

(* Hosts without a user row (rows with secrets that nobody can reach) come *)
(* only from the insert of a host whose user the administrator deleted     *)
(* after the update came (db.py:184-191, hosts.py:325-331).                *)
Orphans == row = None /\ hosts > 0
OrphansOnlyBySave == [][~Orphans /\ Orphans' => At("user", "save") /\ row = None]_vars
=============================================================================
