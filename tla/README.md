# AtronixX-Core SSH Server Manager in TLA+

AtronixX-Core is a Telegram bot that keeps SSH hosts for its users and opens
terminals, file browsers and one-shot monitoring on them. It is one Python
process on one asyncio event loop: everything interleaves at `await`, nothing
runs in parallel except single database statements in a worker thread.

This directory holds the specifications, the TLC configurations and the proofs.
Line numbers in comments and below are those of the files under `src/`.

    tlc -config Sessions.cfg MC_Sessions       # a model-checking run
    tlapm Sessions_proofs.tla                  # the proofs of a module

## 1. The system

| Component | State | Operations | Hard because |
|---|---|---|---|
| Update scheduling (`main.py` `OrderedProcessor`) | `_locks`, `_refs`: a reference-counted lock per chat; the library's 32 slots | `do_process_update` around every handler | locks are thrown away and remade; waiting updates keep slots |
| Registry (`core/registry.py`) | six dictionaries by chat: session, live message, render task, pending host key, file browser, connect task | `close_session`, `discard_pending_trust`, `close_sftp`, `cancel_connecting`, `reset_chat`, `close_all` | every `close_*` suspends after it has changed a dictionary |
| Connections and terminals (`handlers/terminal.py`, `core/ssh_manager.py`) | connect tasks, `TerminalSession`, render loops | connect (also by force), cancel, accept or refuse a host key, type, exit | background tasks, cancellation at any await, the user goes on pressing buttons |
| Housekeeping (`core/housekeeping.py`) | a tick counter; copies of dictionaries | access sweep, idle check, notices, backup schedule | decides on copies, acts after awaits |
| Rate limiter (`core/security.py`) | a deque of times per user | `allow`, `retry_after` | boundaries of the window |
| Backup, vault, database (`core/backup.py`, `core/crypto.py`, `database/db.py`) | key file and key in memory; database file, connection and its lock | save a host, build a backup, restore one | two files that belong together; failures; crashes |
| File browser (`handlers/sftp.py`) | path, entries, page and mode of a chat | navigate, download, upload, make folder, delete | listings and transfers run beside the handlers |
| Host wizard and host keys (`handlers/hosts.py`) | `user_data["flow"]`; `host_fingerprint` | the wizard's steps, edit, test | old buttons; an edit beside a prompt |
| Accounts and gate (`handlers/gate.py`, `start.py`, `admin.py`, `db.py`) | users, subscriptions, ban flags, membership cache | first contact, ban, grant, revoke, delete | user and administrator act on the same row |
| Broadcast (`handlers/admin.py`) | `_broadcast_running` | compose, go, send in the background | a flag that must be reset |
| Terminal screen and live message (`core/ssh_manager.py`, `handlers/terminal.py`) | screen, scrollback, alternate screen flag, dirty flag, `last_text` | `_feed`, `render`, `_render_loop` | output arrives in arbitrary chunks; edits of the message fail |
| Calendar (`core/jdate.py`) | none | date conversion | boundaries |
| Texts, keyboards, router, configuration, scripts | none of the bot's own | | |

How they interact: the scheduler runs one handler per chat. A handler resets the
registry's entries of its chat and starts a connect task; the task ends in
`launch_terminal` (a session, then a render loop), `launch_sftp` or
`launch_monitor`, or leaves an open connection in `pending_trust` until the user
answers. Housekeeping and the administrator's handlers close what other chats
have. The database serialises statements with one lock; hosts are encrypted with
the vault's key before they queue for it; a restore exchanges key and database
and then calls `close_all`.

What makes each correct:

- scheduling: one handler per chat, order of arrival, no update forgotten, no
  dictionary entry left behind;
- registry and terminals: an open connection has one owner and is not lost;
  cancel reaches whatever still works; ended terminals and users without access
  do not keep a place; the cap and "all closed" are what they say;
- rate limiter: never more than the limit in a window, never refused without
  reason;
- backup: every stored secret can be read, a restore is all or nothing, a backup
  holds the key of its rows;
- terminal: output means the same however it is cut; the message shows the
  screen in the end;
- file browser: a button does what its label says, entries belong to the path
  shown, transfers end;
- wizard: what is stored can be used, is stored once, and a text answers no
  question other than the one that is shown;
- hosts: a stored key is one the user confirmed for this address; groups of hosts
  exist;
- accounts: nobody is told or asked twice, a grant is announced, no host is left
  without an owner.

## 2. Modules

| Module | Models | Notes |
|---|---|---|
| `ChatOrder` | the docstring of `OrderedProcessor` | abstract specification; `InOrder` and `Live` are its two halves |
| `OrderedProcessor` | `main.py` 29-56 | refines `ChatOrder` by `phase <- Phase(pc)` |
| `Registry` | `core/registry.py` | dictionaries and closing operators, no next-state relation of its own |
| `Sessions` | `terminal.py`, with the parts of `sftp.py`, `tools.py`, `start.py`, `admin.py`, `housekeeping.py` that open or close | composes `Registry` with the coroutines that use it |
| `RateLimiter` | `core/security.py` 64-86 | |
| `Backup` | `core/backup.py`, `Vault`, `Database._run`, `add_host`, `snapshot_bytes`, `replace_file` | crashes and failures |
| `Screen` | `ScrollScreen`, `_on_alt_screen`, `render` | operators only |
| `WholeOutput` | what a terminal promises of its output | abstract specification; `Safe` and `Live` are its two halves |
| `Terminal` | `_read_loop`, `_feed`, `_render_loop`, `close_with_notice` | refines `WholeOutput` by `queue <- wire` |
| `Sftp` | `handlers/sftp.py`, the listing and buttons of `keyboards.sftp_kb` | who owns the connection is in `Sessions` |
| `Accounts` | one user's row in `db.py` under `gate.py`, `start.py`, `admin.py`, `housekeeping.py` | restarts |
| `Wizard` | `cb_add`, `cb_wizard` and the wizard's texts in `hosts.py` | old buttons, failing edits, restarts |
| `Hosts` | edit, delete, group and trust: `hosts.py`, `tools.py`, `terminal.py`, `open_trusted` | the connection itself is in `Sessions` |
| `MC_*` | constants of the runs | |
| `*_proofs` | theorems | `Admission_proofs` is about `OrderedProcessor` and `RateLimiter` |

Operators with a suffix such as `LastOut_TooEarly` are plausible slips in the
definition they are named for. No action uses them; put in its place, each makes
TLC find a violation of a property, which shows that the property depends on the
code.

### OrderedProcessor

An update is a number in order of arrival; `pc` says whether its task is new, waits
for a slot, waits for the lock, runs or is done. `Enter` is the code from the slot to the first await
on the lock (45-50), `Acquire` the wake-up of the first waiter, `Finish` the
release, the reference and the slot, which happen without an await (50-56). A lock
object is named after the update that made it, so that a lock which is deleted
and remade is a different one. The semaphore and the order in which tasks start
are the library's and are modelled from how `main.py` uses it.

### Registry and Sessions

Connections, sessions and render loops are named after the connect task they come
from. A coroutine is a program counter per process: `proc` for handlers (one per
chat, as the scheduler guarantees), housekeeping and the administrator; `task` for
connect tasks; `lpc` for render loops. An action is the code from one await that
matters to the next. Awaits between which the code touches nothing of the model
are one suspension. `cancel()` puts a task into `cancelled`; the task sees
`CancelledError` at its next step (`TaskCancelled`), which is a separate action
because other coroutines may run first.

| Action | Code |
|---|---|
| `ConnectClosing`, `Connect`, `Measure`, `Refused`, `Proceed` | `start_action`; the cap is read in `Connect`/`Measure` and used in `Proceed` |
| `ResetChat`, `AfterReset`, `ResetResumes` | `reset_chat`, one step per close that suspends it |
| `TrustYes`, `Trusted`, `TrustFails`, `TrustNo`, `ConnCancel` | the host key prompt and the cancel button |
| `ConnectTrusted`, `ConnectUntrusted`, `ConnectFails` | `_run_action` around `open_trusted` |
| `TerminalOpened`, `TerminalDrawn`, `BrowserStarted`, `Monitored` | the three launches |
| `DispatchFails`, `DispatchFailed`, `TaskCancelled`, `Reported` | ends of `_dispatch` and `_run_action` |
| `LoopStops`, `LoopCrashes`, `LoopFindsEnded`, `LoopCloses`, `LoopIsCancelled` | `_render_loop`, `close_with_notice` |
| `LookAt`, `Spare`, `Evict`, `Evicts`, `LookAtSftp`, ... | one entry of a sweep: look, await, decide, draw, close |
| `Ban`, `BanCloses`, `Restore`, `RestoreResumes`, `RestoreDone` | the administrator |
| `ShellExits`, `ConnectionDrops`, `ReadLoopEnds`, `GoesQuiet`, `AccessEnds` | what happens around the bot |

### RateLimiter

`Attempt` is `allow`, and `retry_after` when it refuses, at one reading of the
clock. The clock has several ticks to a second; `log` is the history of allowed
attempts, `told` the moment a refused user was told to wait for. The names of its
specification begin with `Limiter`, so that one module can prove things about it and
about `OrderedProcessor`: the two gates that a user's wish passes.

### Backup

A request is a coroutine whose database operations queue for the asyncio lock
(`queue`: the holder, then those who wait). The step that runs the operation at
the head also runs the coroutine to its next await, which is how asyncio orders
it: the next holder starts only later. So the snapshot and the exchange of the
key are one step, a save encrypts with the key in memory and queues in one step,
and writes much later. A row is a host and the key it was encrypted under. A crash keeps the two
files and nothing else. `replace_file` may fail before or after the file is
exchanged and leaves no connection in either case. `install_raw_key` may fail where the
new key is written, and again where the old one is put back (`FailsTwice`): the restore
then ends there, and `torn` says so.

### Screen, WholeOutput and Terminal

A piece of output is a text, a new line or an escape sequence, which is a
sequence of characters. `Screen` has what each does to rows, cursor and history.
In `Terminal` the shell writes pieces and the reader takes chunks that end at any
character: `Reads` is `_read_loop` with `_feed`, the characters kept back by
`_PARTIAL_RE` in `carry`, those kept back by pyte in `held`. `Feed` goes through the
characters (`Takes`), as `finditer` and `stream.feed` do between them. The render loop is
`Wakes` (sleep to `edit_message_text`), `Edited`, `EditFails` (RetryAfter, and
time-outs that may have taken effect), `Refused` (BadRequest, Forbidden), `SeesEnd`
and `ClosesWithNotice`. pyte, asyncssh and Telegram are external.

### Sftp

The state dictionary is `st`; `job` has one coroutine for the chat's handler and
one per transfer, each with its own place between awaits. Every message keeps the
buttons it was drawn with (`screen`), each with the place it carries and, as
history, the name its label showed. Names are numbers in the order of `listdir`.
Every edit may fail, and nobody looks (`ui.edit`); a question whose edit fails is a new
message (`ShowsIn`, at most `MaxReplies` of them), a listing that cannot be sent leaves
the browser where it was. `Blocked` is the gate in front of the handler.

### Accounts

One row, and three coroutines that go on with a copy of it: the user's handler
behind the gate, the administrator's, and the notices. A step is a statement or a
message. Since a grant, a row and a message are numbered, the history `told` can
say that something was sent twice. When a statement of the gate raises, only the gate's handler
ends: `router.on_error` does not stop the update, and the handler proper runs ungated
(`Raises`). `Restarts` loses the coroutines and keeps the database.

### Wizard

`flow` is the dictionary in `user_data`; `screen` is what each message shows, whose
buttons do not say which run of the wizard drew them. A handler is one step, but
updates wait in `inbox` in the order in which the user sent them. The history
`jumped` says that a button of an older run was used, `failed` that an edit failed.
`Blocked` is the gate: it may refuse any update, answers it with its block and keeps the
flow if the update was a text or a button of the wizard.

### Hosts

`hosts` are the rows (address, key, group); `task` is the connect task with the
host as it was when the button was pressed; `prompt` is `pending_trust`. The
history `accepted` has what the user confirmed, `edited` the hosts edited while
a task or a prompt of theirs was open. `had` has the buttons of a connect that each message
has ever had: a press may wait while its message changes, so a button may be handled that
is not there any more, and "connect" in whatever the message shows by then. Every edit may
fail; an edit of a task that is cancelled lands or does not (`Dropped`). A Yes is for the
prompt that is registered: what its message shows plays no part in the code, and is not
in the model.

## 3. Runs

| Run | Result | Question |
|---|---|---|
| `OrderedProcessor` | passes | Are a chat's updates handled one at a time, in order, all of them, with no entry left behind? |
| `Sessions` | passes | Does every open connection have at most one owner, and lose it only in three known places? Does cancel reach every task at work? |
| `Sessions_ended` | passes | Does a terminal whose shell is gone leave `active_sessions`? |
| `Sessions_access` | passes | Does a user without access lose everything for good? |
| `RateLimiter` | passes | Is the window respected, and are refusals justified? |
| `Backup` | passes | Can all secrets be read, and is a restore all or nothing? |
| `Terminal` | passes | Does output mean the same however it is cut, is all of it shown, does history come back after a full-screen program, and does the message show the screen in the end? |
| `Sftp` | passes | Do buttons act on what their labels name, does a listing belong to the path, and does every transfer end? |
| `Sftp_confirm` | violated | "Delete {name}?": the yes button deletes what has the file's place by then |
| `Accounts` | passes | Is nothing told or asked twice, is every grant announced, where do hosts without an owner come from? |
| `Wizard` | passes | Is a stored host usable and stored once; is no step answered while another one is shown? |
| `Hosts` | passes | Are trusted keys confirmed for the address they are used at? Do limits and groups hold? |

### Disagreements

`Sftp_confirm` is listed under `findings` in `PROJECT.json`:

- `sftp.py:164`: the yes button of a deletion carries a place in the listing, which may
  be another one by then.

One has no property, since there is no promise left that holds of it:

- `terminal.py:154`: a yes in the message of an older prompt accepts the key that is
  asked about now, not the one below which it was pressed, although
  `locales/_user.py:148` says there "Confirm only if you're sure this is your server".
  Two messages of a chat are enough; in a single one it takes a second "connect" that
  waits while the message becomes the first prompt, and an edit that fails.

Several properties that pass name an exception, which the model reaches and which is
where the code falls short of what its texts say:

- `terminal.py:89`: two chats that connect together exceed `MAX_LIVE_SESSIONS`
  ("Concurrent live terminal cap" in `README.en.md`), for nothing looks again when
  the terminal is registered. It is read from the code: the configurations of
  `Sessions` have one chat, and no run reaches it.
- `terminal.py:186`: two quick connects of a chat leave two shells, one of which
  nothing refers to (`LostInKnownPlaces` names the place).
- `registry.py:86`: `close_all` stops connect tasks last; one that registers its
  terminal meanwhile survives "All sessions were closed".
- `security.py:83`: the seconds told are cut off; waiting as told may be too short,
  waiting one second longer never is (`RetryNearlyEnough`).
- `backup.py:97`: a process that dies between the new key and the new database
  starts with rows it cannot read (`SecretsReadable` excepts `torn`).
- `backup.py:28`: a backup made beside a restore may pair old rows and the new key
  (`BackupUsableIfAlone`).
- `start.py:111`: a ban that falls between the reading of the row and its deletion
  disappears with the row, although the comment at line 116 says that deletion must
  not get round a ban.
- `terminal.py:159`: when a host's address is edited while its prompt waits, Yes stores
  the key of the old address for the new one, although the edit has just forgotten the
  host's key for that reason (`hosts.py:174`; the exception `edited` of
  `KeysAreConfirmed` and `UsesConfirmedKeys`).
- `gate.py:169`, `190`: a user who loses access in the middle of the wizard and presses
  one of its buttons gets the block in place of the step, but keeps the flow: a text
  sent once access is back answers a step that is not shown (`ShowsItsStep` allows the
  block, and no other step).
- `sftp.py:80`: an edit that fails is not noticed. The folder has changed and the
  message still shows the old one; its buttons then act on the new listing
  (`HandlerShowsItsFolder` allows it, `ButtonsDoWhatTheySay` is about messages that show
  the present listing).
- `ssh_manager.py:145`: a full-screen program that clears its screen clears the
  history that the docstring of `_on_alt_screen` promises to show again. One that
  scrolls leaves its own rows in that history, for `index` (line 137) does not ask
  whether the alternate screen is on (`HistoryComesBack` is about programs that do
  neither).
- `terminal.py:210`: when an edit that timed out took effect and the screen goes
  back to the picture drawn before, the message keeps the wrong one
  (`DrawnInTheEnd`, the exception `applied`).

### Bounds

- `OrderedProcessor`: five updates, two chats, three slots. A chat can fill all
  slots, wait, go quiet and come back with a new lock; the reference count
  reaches three.
- `Sessions*`: two connect tasks (the second replaces, forces or follows the
  first). Each run has one chat, the safety run with all kinds of work: all state is
  per chat except the cap, which no property is about, and the sweep of `close_all`,
  which takes the chats one after another. The proofs are for any number of chats. The
  liveness runs keep the actions that can close or keep what they ask about.
- `RateLimiter`: limit 2, window 5 ticks, two ticks to a second, 10 ticks: entries
  expire singly and together, at every alignment, and half seconds are cut off.
  Users do not share anything, two show it.
- `Backup`: two saves, a build, a restore, two failures and a crash anywhere,
  after which the restore may be asked for again.
- `Terminal`: two rows, two rows of history, three pieces, one failing edit, and one
  text, a digit, so that text looks like a part of a switch. A switch of screens has
  eight characters and is cut at each of them; two pieces in one chunk, history that
  overflows and an edit overtaken by output all occur. `HistoryComesBack` is looked at
  for every program of up to two pieces (`MaxProgram`). What more texts, modes, rows and
  pieces would do is proved (section 4).
- `Sftp`: one folder in another, one file, one entry to a page, two transfers on one
  slot, three acts of the user (buttons, two of which may be on their way, and
  documents), and one message that replaces one whose edit failed (`MaxReplies`), beside
  what transfers do: two uploads and a press, or a download and two presses, may meet.
  `Sftp_confirm` needs no new messages.
- `Accounts`: two updates of the user, two acts of the administrator, two grants,
  two rows (a user who is deleted and comes back), restarts.
- `Wizard`: two messages, two runs, two updates on their way, twelve in all: a run
  to the end with a detour, or two runs mixed.
- `Hosts`: two messages, addresses and keys, one host, groups one of which follows
  another. The second message is the one whose prompt an old Yes may answer.

### Fairness

- Scheduling: weak fairness of each update's steps. asyncio resumes every task that
  can run, locks and semaphores are first come first served, and handlers end
  because Telegram, SSH and database calls have timeouts.
- Sessions: weak fairness of each coroutine for the same reason. Housekeeping's
  loop runs every 30 seconds and goes through every entry, so an entry that it
  keeps finding is looked at: strong fairness of `LookAt` and `LookAtSftp` per
  chat, because the entry may come and go. An ended session receives nothing
  more, so it becomes quiet. No user and no administrator is obliged to act, and
  a render loop is not obliged to crash.
- `Terminal`: weak fairness of the reader and of the render loop: asyncssh delivers,
  sleeps end, Telegram answers or times out, and finitely many edits fail
  (`MaxFaults`). The user and the shell need not do anything.
- `Sftp`: weak fairness of each transfer's steps: asyncio resumes every coroutine and
  SSH connections have keepalives. Handlers and the user need not move.
- `RateLimiter`, `Backup`, `Accounts`, `Wizard` and `Hosts` state no liveness property.

Deadlock is checked in `Sessions` and `Sessions_ended`. `OrderedProcessor` rests when
every update was handled; that it does not stop before is `EveryUpdateHandled`.
`Sessions_access` and `Backup` may really stop (everyone is out; every request is
done), and so may `Terminal` (the shell has ended), `Sftp`, `Accounts`, `Wizard` and
`Hosts` (the user does nothing more). `RateLimiter` never stops, a refused
attempt is always possible.

## 4. Proofs

For every value of the constants under the named assumptions of each module
(numbers are naturals, `Chats` and `Files` are finite, process names differ).

**Admission_proofs, OrderedProcessor.** Mutual exclusion is not inductive: that a new update
does not find a free lock rests on the chat's entry being the lock which the
running update holds, and that on the entry not being removed early. The
invariant `Bookkeeping` adds: `refs[c]` is the number of the chat's updates
inside; all of them hold or wait for `locks[c]`; a lock belongs to one chat; a
running update's lock is held; free slots plus updates inside make
`MaxConcurrent`. From it: `TypeCorrect`, `MutualExclusion`, `EntriesMatchTasks`.
`ImplementsChatOrder` is the refinement `KeepsChatOrder`: every step of the scheduler
is a step of the docstring's promise or changes nothing of it.
That a new update overtakes none of its chat needs `Ordered`: both queues are sorted
by arrival (`SemSorted`, `WaitersSorted`), and whatever of the chat came before the
update that holds the lock is done (`EarlierDone`).

**Sessions_proofs.** `CancelReaches` says that a task which may still open or use
a connection is `connecting[chat]`. Two places write `connecting` without a
cancel before it: the end of `start_action` after a `reset_chat` that suspended,
and `cb_trust_yes`. The invariant needs `Unclaimed`: while a handler is in such a
reset nothing is registered for the chat and there is no prompt; while a prompt
is up or being accepted, what is registered is at most the task that is drawing
the prompt. `TasksMakeSense` and `ProcsMakeSense` say whom tasks and handlers work
for. The lemmas are one per handler or group of steps with the same effect; from
the invariant: `SessionsTypeCorrect`, `CancelAlwaysReaches`.

The second half is about who holds a connection. `OneOwner` counts; `Owned` says it
without counting: all holders of an open connection are the same one (`Alone`), the
connection that a task is about to open is not there yet (`NotYet`), and whatever
refers to a connection refers to one that was opened (`Known`). `NoBrowser` is needed
because `launch_sftp` registers over whatever is there: while a task that may start a
browser works for a chat, while the chat is asked about a host key, and between the
last close of a reset and the task it is for, the chat has no file browser. Every step
then lets go (nobody holds what he did not hold, and what a place no longer
holds is closed or one of the three exceptions: `Lets`), hands one connection on
(`HandOver`), or opens one that nobody holds (`Opens`). From it: `AlwaysOneOwner`, and
the action property `AlwaysLostInKnownPlaces`.

**Admission_proofs, RateLimiter.** The invariant `Memory`: the deque is a suffix of the log
of allowed attempts; everything before it is out of the window for good; attempts
`Limit` apart are more than a window apart. From it `WindowIsBounded`,
`LimiterTypeCorrect` and the action property `RefusalsAreJustified`. A second
invariant, `Promised`, relates what a refused user was told to the oldest entry of
his deque: a second after that time it has expired (`WholeSeconds` is the
arithmetic of the cut-off part). From both: `WaitingIsEnough`, which is
`RetryNearlyEnough` for every limit, window and resolution of the clock.

**Hosts_proofs.** Two copies of a row travel outside the table: one with the connect
task, one with the prompt it registers. The invariant `Copies` says what remains true
of them under any edits, deletions, old buttons and restarts: a copy of a host that
was not edited under it has the row's address as long as there is a row (ids are not
given again), and the task's copy of the key was confirmed. A step is
`Gentle` to the copied rows and changes every row as `RowChange` says; the rest
follows without looking at the actions on rows again. From it:
`KeysAlwaysConfirmed`, `OnlyConfirmedKeysUsed`. Which buttons messages have had does not
matter to them.
`LimitsAlwaysHold` rests on `Limited` (a flow that adds is open only below the limit,
and nothing is added while it is open), `GroupsAlwaysExist` on the types of the rows.
All four properties of the run `Hosts` hold for any number of messages, addresses, keys, rows
and groups and any limits.

**Backup_proofs.** A restore exchanges the key at once and the database in its turn,
so that `SecretsReadable` alone says nothing about the rows that wait meanwhile. The
invariant `Sorted` does: who waits before the restore was encrypted with the old key
and is written to the old database, who waits behind it with the new one; after a
failure the same with the roles exchanged (`RowsInOrder`). `RowsUnder` and
`KeysOfRestore` say which key the stored rows and the snapshot are under at each
stage, `CopyUnder` what a backup under way holds. A restore that gives up after a second
failure (`GivesUp`) leaves files that are torn, and the key in memory may differ from the
one on disk until the process ends. From it, for any number of saves,
builds, failures and crashes: `AlwaysSecretsReadable`, `AlwaysBackupUsable` and the
action property `AlwaysAllOrNothing`.

**Wizard_proofs.** A button says nothing of the run of the wizard that drew it. The
invariant `InStep` says of every message drawn in this run, and of every press on its
way, that the answers its buttons take for granted have been given (`Answered`), and
`Past` says the same of the state's step; `WellKept` ties the secret to the method of
login and to the passphrase. From it: `AlwaysSavedOnce`, `AlwaysSavedIsUsable`,
`AlwaysInOrder` and `AlwaysShowsItsStep`, for any number of messages, runs and updates.
The gate may refuse any update between any two.

**Accounts_proofs.** Three coroutines go on with copies of a row that the other two
change. `UserKnows`, `AdminKnows` and `NoticesKnow` say what each may rely on at each
of its statements, `RowSays` what the row itself remembers of the messages sent. Others
change a row only as `RowStep` says, and `KnownByOthers` shows once for all that this
takes nothing of what a coroutine knows; each statement is then looked at for its own
coroutine only. From it: `AlwaysNoticeOnce`, `AlwaysRequestOnce` and the action
properties `AlwaysOwedUntilTold` and `AlwaysOrphansOnlyBySave`.

**Sftp_proofs.** A button carries a place, and handler and transfers share one
dictionary. The invariant: the buttons of fresh messages name what is at their places
in `st.entries` (`Named`); while the handler lists a folder the path stays the one it
asked for (`AsksForItsPath`), because no transfer goes back to an older path
(`OnlyHandlerGoesBack`). Every coroutine's step either leaves the dictionary alone
(`QuietKeeps`), changes it without storing a listing, or stores one (`WhatIsShown`). From
it: `ButtonsAlwaysDoWhatTheySay`, `HandlerAlwaysShowsItsFolder` and
`EntriesAlwaysMixOnlyByTransfers`, for any files, page size, transfers, slots and presses
on their way. The type of a listing rests on `SortedSequenceExists`: a finite set of
numbers can be put in order, by the number of its elements up to each.

**Terminal_proofs.** The reader sees characters, the promise is about pieces of output.
`KeptOnce` says where the two meet between two reads: what was read of a piece that is
cut is in `carry` if it may still become a switch of screens, else in `held`, and
nowhere else. It is inductive, and that it is so is the work of one read:

- where each piece lies among the characters (`Layout`), and that a chunk with what was
  kept is exactly what pyte has not had yet (`ChunkIs`);
- that the reader holds back the start of the piece that is cut, or nothing
  (`PartialAtIs`): a start of a switch has no letter in it, and after an ESC among whole
  pieces a letter follows (`LetterFollows`);
- that a piece fed whole has its effect whatever its kind: one character, a sequence
  that pyte keeps until its letter comes, a switch that the reader takes out
  (`CharacterFed`, `EscapeFed`, `SwitchFed`), and so pieces in turn (`PiecesFed`);
- that the start of a sequence which is no switch is kept by pyte (`StartHeld`).

`ReadsWhole` puts these together: a read shows some whole pieces of what waits, and
keeps the start of the next. From it `AlwaysKeptOnce`, and the refinement
`ImplementsWholeOutput`, which is `ChunksDoNotMatter` for any texts, modes, rows and
history and any amount of output. Of the texts it needs only that they are not ESC or a
line feed, and of the modes that they have one to four digits and that none is that of
the cursor (`OutputAssumption`); a mode of more than four digits would indeed be missed
by `_PARTIAL_RE`. `AlwaysHistoryComesBack` is about `Screen`: a program of any length that
neither clears nor scrolls draws on its own page and leaves the history alone
(`ProgramOnThePage`, by induction over its pieces), and what the newest rows of a history
are after more rows were added (`NewestOfConcatenation`), from every screen with at least
two rows and a history that is not shorter than the screen.

`Feed`, `AfterAll` and `Characters` go through sequences of any length. The library's
induction takes a predicate, which the provers cannot instantiate; `Induction` takes a
set of numbers instead, from the library's theorem that numbers are well-founded
(`Least`), and `Recursion` and `Unique` say from it that such a function exists and what
it is.

Model-checked only: liveness (`EveryUpdateHandled`, `EndedSessionsLeave`,
`AccessLostCloses`, `AllIsShown`, `DrawnInTheEnd`, `TransfersEnd`), which is out of the
prover's reach. `DeletesWhatWasConfirmed` does not hold (section 3). Every other property
of the runs is proved, for every value of the constants. The other way round, the types
of `Sessions`, `RateLimiter` and `Accounts` are proved (`SessionsTypeCorrect`,
`LimiterTypeCorrect`, `AccountsTypeCorrect`) and no run checks them again.

## 5. Not modelled

Columns, wrapping and scroll regions of the screen; keys sent (they write to the
server); scrypt, AES-GCM, SSH, pyte and SQLite themselves; texts and the layout of
keyboards without data; the router (it chooses a handler and keeps nothing); the
address checks and the calendar (pure functions of a library's values, with nothing
in the repository to check them against but themselves); terms, channels and the
membership cache (in `Accounts` the gate may block anyone); broadcast, reports and
settings of the administrator; the backup schedule; `config.py` (its numbers are
constants here); the shell scripts and Docker files.

Simplifications that matter: a close that suspends is always given a suspension,
also where the entry is gone meanwhile (more interleavings, never fewer); the
administrator's own chat is not among `Chats`; a database statement whose coroutine
is cancelled keeps the lock until it is done, while in the code the thread goes on
without it; outside `Terminal` an edit that is reported as failed had no effect, and
everywhere an edit that timed out, or whose task was cancelled, takes effect at once or
never, not after a later one; in `Wizard` and `Hosts` a handler is one step, since the handlers
of a chat run one at a time and what they await there is their own row.

## 6. Plan

1. `Broadcast` (its flag, the loop under failures, audiences read once), the stages
   of a housekeeping tick and the backup schedule.
2. The vault's first start and cancelled statements in `Backup`; account deletion in
   `Sessions`; the membership cache in `Accounts`.
3. Proofs about what the models gain.
