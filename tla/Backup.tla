------------------------------- MODULE Backup -------------------------------
(***************************************************************************)
(* Backup and restore (core/backup.py) over the vault (core/crypto.py) and *)
(* the database (database/db.py).                                          *)
(*                                                                         *)
(* The secrets of a host are stored under the vault's key, and the key is  *)
(* in a file beside the database: a restore must exchange both, and a      *)
(* backup must hold both as they were together.  Each request here is a    *)
(* coroutine.  What it does to the database goes through Database._run: it *)
(* waits for one asyncio.Lock, which serves in order of arrival, and the   *)
(* coroutine goes on to its next await before another may take the lock.   *)
(* So one step runs the operation at the head of the queue, and all the    *)
(* code up to the next await of the coroutine that asked for it.           *)
(*                                                                         *)
(* A crash keeps the two files.  Operations fail for want of disk space or *)
(* the like, at most MaxFailures times.                                    *)
(***************************************************************************)
EXTENDS Naturals, Sequences, FiniteSets

CONSTANTS Savers,       \* requests that store a host
          Builder,      \* the request that makes a backup
          Restorer,     \* the request that restores one
          MaxFailures,  \* bound: operations that fail
          MaxCrashes    \* bound: crashes of the process

ASSUME BackupAssumption ==
  /\ Builder \notin Savers /\ Restorer \notin Savers /\ Builder # Restorer
  /\ MaxFailures \in Nat /\ MaxCrashes \in Nat

Requests == Savers \cup {Builder, Restorer}

(* This server's key, and the key in the backup that is restored. *)
Keys == {"ours", "backup"}

(* A host is its row and the key its secret is stored under.  Besides the  *)
(* hosts saved here there is one from before and one in the backup.        *)
Rows == [host : Savers \cup {"before", "inBackup"}, key : Keys]
RestoredRows == {[host |-> "inBackup", key |-> "backup"]}

VARIABLES
  keyFile,   \* secret.key
  memKey,    \* Vault._aes, derived from the key that load read last
  rows,      \* the hosts in the database file
  open,      \* db._conn is not None
  queue,     \* Database._lock: its holder, then the coroutines that wait
  pc,        \* where each request is
  row,       \* the row a saver has made
  old,       \* old_db and old_key of restore_backup
  copy,      \* the database and the key that build_backup packs
  torn,      \* history: the process died in the middle of a restore, or
             \* putting back the old key or database failed as well
  spoilt,    \* history: a restore exchanged the key while the backup was
             \* being made, or it was made of torn files
  failures, crashes

files == <<keyFile, rows>>
vars == <<keyFile, memKey, rows, open, queue, pc, row, old, copy, torn, spoilt,
          failures, crashes>>

Nothing == [rows |-> {}, key |-> "none"]
NoRow == [host |-> "none", key |-> "none"]

Building == {"copying", "counting", "counting2"}
Waiting == Building \cup {"saving", "keeping", "replacing", "undoing"}
Ended == {"saved", "built", "restored", "undone", "failed", "gone"}

Init ==
  /\ keyFile = "ours" /\ memKey = "ours"
  /\ rows = {[host |-> "before", key |-> "ours"]} /\ open = TRUE
  /\ queue = <<>>
  /\ pc = [r \in Requests |-> "idle"]
  /\ row = [s \in Savers |-> NoRow]
  /\ old = Nothing /\ copy = Nothing
  /\ torn = FALSE /\ spoilt = FALSE /\ failures = 0 /\ crashes = 0

----------------------------------------------------------------------------
(* Coroutines and the lock.  The operators with a suffix are slips that    *)
(* the properties catch; no action uses them.                              *)

(* r asks for the lock: at the end of the queue, at its head if it is free. *)
Asks(r, at) ==
  /\ pc' = [pc EXCEPT ![r] = at]
  /\ queue' = Append(queue, r)

(* The request r, which holds the lock, is served and asks again, or ends. *)
ServedAndAsks(r, at) ==
  /\ pc' = [pc EXCEPT ![r] = at]
  /\ queue' = Append(Tail(queue), r)

ServedAndEnds_Kept(r, at) ==
  /\ pc' = [pc EXCEPT ![r] = at]
  /\ queue' = queue
ServedAndEnds(r, at) ==
  /\ pc' = [pc EXCEPT ![r] = at]
  /\ queue' = Tail(queue)

Runs(r, at) == queue # <<>> /\ Head(queue) = r /\ pc[r] = at

Fails == failures < MaxFailures /\ failures' = failures + 1
FailsTwice == failures + 1 < MaxFailures /\ failures' = failures + 2
Works == UNCHANGED failures

(* install_raw_key replaces the file in one system call and loads it. *)
Install_FileOnly(k) == keyFile' = k /\ UNCHANGED memKey
Install(k) == keyFile' = k /\ memKey' = k

(* A failing install_raw_key, before os.replace or after it. *)
InstallFails(k) == keyFile' \in {keyFile, k} /\ UNCHANGED memKey

----------------------------------------------------------------------------
(* add_host and update_host: the secret is encrypted before the statement  *)
(* waits for its turn.                                                     *)

StartSave(s) ==
  /\ pc[s] = "idle"
  /\ row' = [row EXCEPT ![s] = [host |-> s, key |-> memKey]]
  /\ Asks(s, "saving")
  /\ UNCHANGED <<keyFile, memKey, rows, open, old, copy, torn, spoilt,
                 failures, crashes>>

Save(s) ==
  /\ Runs(s, "saving")
  /\ \/ /\ open /\ Works
        /\ rows' = rows \cup {row[s]}
        /\ ServedAndEnds(s, "saved")
     \/ /\ IF open THEN Fails ELSE Works
        /\ UNCHANGED rows
        /\ ServedAndEnds(s, "failed")
  /\ UNCHANGED <<keyFile, memKey, open, row, old, copy, torn, spoilt, crashes>>

----------------------------------------------------------------------------
(* build_backup: snapshot_bytes, the two counts of stats, then raw_key. *)

StartBuild ==
  /\ pc[Builder] = "idle"
  /\ Asks(Builder, "copying")
  /\ UNCHANGED <<keyFile, memKey, rows, open, row, old, copy, torn, spoilt,
                 failures, crashes>>

(* The connection is gone, or the statement fails. *)
BuildFails ==
  /\ \E at \in Building : Runs(Builder, at)
  /\ IF open THEN Fails ELSE Works
  /\ ServedAndEnds(Builder, "failed")
  /\ UNCHANGED <<keyFile, memKey, rows, open, row, old, copy, torn, spoilt, crashes>>

Copy ==
  /\ Runs(Builder, "copying") /\ open
  /\ copy' = [Nothing EXCEPT !.rows = rows]
  /\ spoilt' = (spoilt \/ torn)
  /\ ServedAndAsks(Builder, "counting")
  /\ UNCHANGED <<keyFile, memKey, rows, open, row, old, torn, failures, crashes>>

CountUsers ==
  /\ Runs(Builder, "counting") /\ open
  /\ ServedAndAsks(Builder, "counting2")
  /\ UNCHANGED <<keyFile, memKey, rows, open, row, old, copy, torn, spoilt,
                 failures, crashes>>

(* The second count, and raw_key right after it. *)
CountHosts ==
  /\ Runs(Builder, "counting2") /\ open
  /\ copy' = [copy EXCEPT !.key = keyFile]
  /\ ServedAndEnds(Builder, "built")
  /\ UNCHANGED <<keyFile, memKey, rows, open, row, old, torn, spoilt,
                 failures, crashes>>

----------------------------------------------------------------------------
(* restore_backup, once the backup has been opened and validated. *)

StartRestore ==
  /\ pc[Restorer] = "idle"
  /\ Asks(Restorer, "keeping")
  /\ UNCHANGED <<keyFile, memKey, rows, open, row, old, copy, torn, spoilt,
                 failures, crashes>>

(* snapshot_bytes fails: nothing has been touched. *)
KeepFails ==
  /\ Runs(Restorer, "keeping")
  /\ IF open THEN Fails ELSE Works
  /\ ServedAndEnds(Restorer, "failed")
  /\ UNCHANGED <<keyFile, memKey, rows, open, row, old, copy, torn, spoilt, crashes>>

(* The snapshot is taken and the key exchanged, without an await between.  *)
(* When the key cannot be written the old one is, and the old database is  *)
(* put back all the same; when that fails as well, the restore ends.       *)
KeepOld ==
  /\ Runs(Restorer, "keeping") /\ open
  /\ old' = [rows |-> rows, key |-> keyFile]
  /\ \/ Works /\ Install("backup") /\ ServedAndAsks(Restorer, "replacing")
        /\ UNCHANGED torn
     \/ Fails /\ Install(keyFile) /\ ServedAndAsks(Restorer, "undoing")
        /\ UNCHANGED torn
     \/ FailsTwice /\ InstallFails("backup") /\ ServedAndEnds(Restorer, "failed")
        /\ torn' = TRUE
  /\ spoilt' = (spoilt \/ pc[Builder] \in Building)
  /\ UNCHANGED <<rows, open, row, copy, crashes>>

(* replace_file(new): it closes the connection, writes the file and opens  *)
(* it.  It may fail before os.replace or after it, and leaves no           *)
(* connection then.                                                        *)
ReplaceWorks(new) == rows' = new /\ open' = TRUE /\ Works
ReplaceFails(new) == rows' \in {rows, new} /\ open' = FALSE

KeyOnUndo_New == keyFile
KeyOnUndo == old.key

Replace ==
  /\ Runs(Restorer, "replacing")
  /\ \/ /\ ReplaceWorks(RestoredRows)
        /\ torn' = FALSE
        /\ ServedAndEnds(Restorer, "restored")
        /\ UNCHANGED <<keyFile, memKey>>
     \/ /\ ReplaceFails(RestoredRows) /\ Fails
        /\ Install(KeyOnUndo)
        /\ ServedAndAsks(Restorer, "undoing")
        /\ UNCHANGED torn
     \/ /\ ReplaceFails(RestoredRows) /\ FailsTwice
        /\ InstallFails(KeyOnUndo)
        /\ ServedAndEnds(Restorer, "failed")
        /\ torn' = TRUE
  /\ UNCHANGED <<row, old, copy, spoilt, crashes>>

(* The exception of the try block, or a second one, goes to cb_restore_go. *)
Undo ==
  /\ Runs(Restorer, "undoing")
  /\ \/ ReplaceWorks(old.rows) /\ UNCHANGED torn
     \/ ReplaceFails(old.rows) /\ Fails /\ torn' = TRUE
  /\ ServedAndEnds(Restorer, "undone")
  /\ UNCHANGED <<keyFile, memKey, row, old, copy, spoilt, crashes>>

----------------------------------------------------------------------------
(* The process dies and starts again: load reads the key file, open the    *)
(* database.  A new restore may be asked for afterwards.                   *)

MidRestore == pc[Restorer] \in {"replacing", "undoing"}

Crash ==
  /\ crashes < MaxCrashes
  /\ crashes' = crashes + 1
  /\ torn' = (torn \/ MidRestore)
  /\ memKey' = keyFile /\ open' = TRUE /\ queue' = <<>>
  /\ pc' = [r \in Requests |-> CASE pc[r] \in Ended -> pc[r]
                                 [] r = Restorer -> "idle"
                                 [] OTHER -> IF pc[r] = "idle" THEN "idle" ELSE "gone"]
  /\ row' = [s \in Savers |-> NoRow] /\ old' = Nothing
  /\ copy' = IF pc[Builder] = "built" THEN copy ELSE Nothing
  /\ UNCHANGED <<files, spoilt, failures>>

Next ==
  \/ \E s \in Savers : StartSave(s) \/ Save(s)
  \/ StartBuild \/ Copy \/ CountUsers \/ CountHosts \/ BuildFails
  \/ StartRestore \/ KeepOld \/ KeepFails \/ Replace \/ Undo
  \/ Crash

Spec == Init /\ [][Next]_vars

----------------------------------------------------------------------------
(* Properties. *)

(* Types; and a request is in the queue of Database._run once, if and only *)
(* if it is in the middle of an operation.                                 *)
TypeOK ==
  /\ keyFile \in Keys /\ memKey \in Keys
  /\ rows \subseteq Rows /\ open \in BOOLEAN
  /\ queue \in Seq(Requests)
  /\ pc \in [Requests -> {"idle"} \cup Waiting \cup Ended]
  /\ row \in [Savers -> Rows \cup {NoRow}]
  /\ old \in [rows : SUBSET Rows, key : Keys \cup {"none"}]
  /\ copy \in [rows : SUBSET Rows, key : Keys \cup {"none"}]
  /\ torn \in BOOLEAN /\ spoilt \in BOOLEAN
  /\ failures \in 0 .. MaxFailures /\ crashes \in 0 .. MaxCrashes
  /\ \A i, j \in DOMAIN queue : queue[i] = queue[j] => i = j
  /\ \A r \in Requests : pc[r] \in Waiting <=> r \in {queue[i] : i \in DOMAIN queue}

(* Outside the few steps of a restore in which the two files are exchanged *)
(* every stored secret can be decrypted with the key in memory, which is   *)
(* the key on disk: whatever was being saved meanwhile, with either key,   *)
(* has gone into the database its key belongs to or nowhere.  Only a death *)
(* of the process during those steps, or a second failure that stops the   *)
(* undoing, may break this, until the next restore that succeeds.          *)
(* restore_backup exchanges the key right after the snapshot, and the lock *)
(* keeps the order in which rows were encrypted.                           *)
SecretsReadable ==
  /\ ~torn => memKey = keyFile
  /\ (open /\ ~torn /\ ~MidRestore) => \A x \in rows : x.key = memKey

(* A restore that ends well leaves the database and the key of the backup; *)
(* one that fails, for a single reason, the key and every host of the old  *)
(* ones (the except block of restore_backup).                              *)
RestoreIsAllOrNothing ==
  [][ LET ends(at) == pc[Restorer] # at /\ pc'[Restorer] = at
      IN /\ ends("restored") => rows' = RestoredRows /\ keyFile' = "backup" /\ open'
         /\ ends("undone") /\ failures' = 1
              => rows' = old.rows /\ keyFile' = old.key /\ open' ]_vars

(* backup.py:5: the key is inside the backup, so that the file and its     *)
(* password are enough.  A finished backup holds the key its rows are      *)
(* stored under, unless a restore exchanged the key while build_backup     *)
(* waited between its operations, or a death of the process had torn the   *)
(* two apart before: restores before it, also those undone, saves and      *)
(* failures beside it do no harm (backup.py:28-39).                        *)
BackupUsableIfAlone ==
  pc[Builder] = "built" /\ ~spoilt => \A x \in copy.rows : x.key = copy.key
=============================================================================
