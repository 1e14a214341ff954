-------------------------------- MODULE Sftp --------------------------------
(***************************************************************************)
(* The file browser of one chat (handlers/sftp.py): a state dictionary     *)
(* that the handlers of the chat and its transfers share.  A handler (one  *)
(* at a time: module OrderedProcessor) and every transfer lists the folder *)
(* again when it is done (_render); listings therefore overlap, and so do  *)
(* the messages whose buttons name an entry by its place in a listing.     *)
(*                                                                         *)
(* The server has the folder "top", in it a directory Dir (the folder      *)
(* "sub") and files.  Names are numbers in the order of listdir, which     *)
(* puts directories first.  How the browser is opened is in module         *)
(* Sessions; here it is open at first and may be closed at any time.       *)
(* A suspension in which nothing below is read or written (status          *)
(* messages) is part of the step before it.                                *)
(*                                                                         *)
(* Telegram may refuse every edit and every message.  ui.edit and ui.send  *)
(* swallow that, and nobody here looks at the result of an edit; ui.show   *)
(* posts a new message instead, or raises.                                 *)
(***************************************************************************)
EXTENDS Naturals, Sequences, FiniteSets, FiniteSetsExt

CONSTANTS
  Files,         \* names of files, numbers greater than Dir
  Contents,      \* what the server may hold at first
  MaxStarted,    \* bound: background uploads and downloads
  PerPage,       \* entries on a page (sftp.py:34)
  MaxTransfers,  \* slots of _transfer_sem, for all chats (sftp.py:37)
  MaxPresses,    \* bound: buttons the user presses and documents he sends
  MaxInbox,      \* bound: presses on their way at once
  MaxReplies,    \* bound: new messages of ui.show where an edit failed
  None

Dir == 0
Folder == {"top", "sub", "nowhere"}
Name == Files \cup {Dir}

ASSUME SftpAssumption ==
  /\ Files \subseteq Nat \ {Dir} /\ IsFiniteSet(Files)
  /\ \A c \in Contents : /\ c \in [Folder -> SUBSET Name] /\ c["nowhere"] = {}
                         /\ Dir \notin c["sub"] /\ (Dir \notin c["top"] => c["sub"] = {})
  /\ PerPage \in Nat \ {0} /\ MaxTransfers \in Nat \ {0}
  /\ MaxPresses \in Nat /\ MaxInbox \in Nat /\ MaxReplies \in Nat
  /\ MaxStarted \in Nat /\ None \notin Folder /\ None \notin 0 .. (MaxStarted + MaxReplies)

VARIABLES
  content,   \* the server: names in each folder
  st,        \* the state dictionary in registry.sftp_state
  open,      \* whether it is still there (and its connection open)
  screen,    \* buttons of each message, none when it is a menu, gone or not yet there
  replies,   \* how many messages ui.show has posted
  inbox,     \* presses on their way to the handler
  presses,   \* how many there have been
  flow,      \* message that asks for a folder name (user_data["flow"])
  job,       \* the handler and the transfers
  from,      \* history: the folder that st.entries was read from
  fresh      \* history: messages drawn from st.path and st.entries as they are

vars == <<content, st, open, screen, replies, inbox, presses, flow, job, from, fresh>>

Transfer == 1 .. MaxStarted         \* in the order they are started
Handler == 0
First == 0                            \* the message the browser was opened in
Coroutine == Transfer \cup {Handler}
Reply == (MaxStarted + 1) .. (MaxStarted + MaxReplies)
Msg == Transfer \cup {First} \cup Reply          \* transfer t posts message t

----------------------------------------------------------------------------
(* Pages and keyboards (sftp.py:60-69, keyboards.py:154-187).              *)

Pages(entries) == Max({1, (Len(entries) + PerPage - 1) \div PerPage})

(* In the slip a button counts from the first entry of its page. *)
Place_OnPage(page, i) == i - page * PerPage
Place(page, i) == i

Plain(verb) == [verb |-> verb, arg |-> 0, saw |-> None]

(* The buttons of a listing; saw is what the label says.  Delete mode      *)
(* turns the entries' buttons into deletions.                              *)
Listing(path, entries, page, mode) ==
  LET here == (page * PerPage + 1) .. Min({Len(entries), (page + 1) * PerPage})
      verb(i) == IF mode = "delete" THEN "del"
                 ELSE IF entries[i] = Dir THEN "cd" ELSE "dl"
  IN  {[verb |-> verb(i), arg |-> Place(page, i), saw |-> <<path, entries[i]>>] : i \in here}
      \cup {[verb |-> "pg", arg |-> p, saw |-> None] :
              p \in {n \in 0 .. (Pages(entries) - 1) : n + 1 = page \/ n = page + 1}}
      \cup {Plain(v) : v \in {"rf", "md", "dm", "exit"}
                              \cup (IF path = "top" THEN {} ELSE {"up"})}

ErrorButtons == {Plain("rf"), Plain("up"), Plain("exit")}
Question(i, file) == {[verb |-> "delyes", arg |-> i, saw |-> file], Plain("rf")}

----------------------------------------------------------------------------
(* The server.                                                             *)

Exists(f) == f = "top" \/ (f = "sub" /\ Dir \in content["top"])

(* posixpath.join(path, name) taken as a folder. *)
Enter(path, name) == IF path = "top" /\ name = Dir THEN "sub" ELSE "nowhere"

Removed(file) ==
  [f \in Folder |-> IF file = <<"top", Dir>> /\ f = "sub" THEN {}
                    ELSE IF f = file[1] THEN content[f] \ {file[2]} ELSE content[f]]

(* SFTPBrowser.listdir: directories first, then by name. *)
SortedContent(f) ==
  CHOOSE s \in [1 .. Cardinality(content[f]) -> content[f]] :
    \A i, j \in DOMAIN s : i < j => s[i] < s[j]

----------------------------------------------------------------------------
AtRest == [pc |-> "idle", asked |-> "top", got |-> None, back |-> None,
           target |-> None, kind |-> None]

Init ==
  /\ content \in Contents
  /\ \E mode \in {"browse", "delete"} :
       st = [path |-> "top", entries |-> SortedContent("top"), page |-> 0,
             mode |-> mode, mid |-> First]
  /\ open = TRUE
  /\ screen = [m \in Msg |->
                 IF m = First THEN Listing("top", st.entries, 0, st.mode) ELSE {}]
  /\ replies = 0 /\ inbox = <<>> /\ presses = 0 /\ flow = None
  /\ job = [r \in Coroutine |-> IF r = Handler THEN AtRest
                                ELSE [AtRest EXCEPT !.pc = "none"]]
  /\ from = "top"
  /\ fresh = {First}

(* The user presses a button of any message that is there. *)
Press(m) ==
  /\ presses < MaxPresses /\ Len(inbox) < MaxInbox
  /\ \E b \in screen[m] : inbox' = Append(inbox, [msg |-> m, button |-> b])
  /\ presses' = presses + 1
  /\ UNCHANGED <<content, st, open, screen, replies, flow, job, from, fresh>>

----------------------------------------------------------------------------
(* _render.  It asks for the folder in st.path and suspends.  The server   *)
(* may fail.  Changes of a folder between the question and the answer are  *)
(* the same as ones before the question.                                   *)
Asks(r, path, back) ==
  \E got \in {None} \cup (IF open /\ Exists(path) THEN {SortedContent(path)} ELSE {}) :
    job' = [job EXCEPT ![r] = [@ EXCEPT !.pc = "listing", !.asked = path,
                                        !.got = got, !.back = back]]

(* min(page, pages - 1) (sftp.py:61). *)
Page_Unclamped(entries) == st.page
Page(entries) == Min({st.page, Pages(entries) - 1})

(* cb_nav's cd goes back to the old path if the listing failed (154-155).  *)
PathAfter_Inverted(r, ok) == IF ok /\ job[r].back # None THEN job[r].back ELSE st.path
PathAfter(r, ok) == IF ~ok /\ job[r].back # None THEN job[r].back ELSE st.path

(* The answer is stored and drawn with the path, mode and message of now:  *)
(* the handler edits the message, a transfer posts a new one.  An edit     *)
(* that fails leaves the message as it was, a message that fails leaves    *)
(* the browser where it was; the entries are stored all the same.          *)
Shows(r) ==
  /\ job[r].pc = "listing"
  /\ LET ok      == job[r].got # None
         entries == IF ok THEN job[r].got ELSE st.entries
         page    == IF ok THEN Page(entries) ELSE st.page
         posts   == ok /\ r # Handler
         m       == IF posts THEN r ELSE st.mid
         buttons == IF ok THEN Listing(st.path, entries, page, st.mode) ELSE ErrorButtons
     IN  \E drawn \in IF posts \/ screen[m] # {} THEN BOOLEAN ELSE {FALSE} :
           /\ st' = [st EXCEPT !.entries = entries, !.page = page, !.path = PathAfter(r, ok)]
           /\ screen' = IF drawn THEN [screen EXCEPT ![m] = buttons] ELSE screen
           /\ job' = [job EXCEPT ![r] =
                        IF r = Handler THEN AtRest
                        ELSE IF posts /\ drawn
                               THEN [AtRest EXCEPT !.pc = "posted", !.target = st.mid]
                        ELSE [AtRest EXCEPT !.pc = "done"]]
           /\ from' = IF ok THEN job[r].asked ELSE from
           /\ fresh' = IF ok /\ drawn THEN {m} ELSE {}
  /\ UNCHANGED <<content, open, replies, inbox, presses, flow>>

(* sftp.py:72-78: the new message is there; the old one is deleted. *)
Replaces(t) ==
  /\ job[t].pc = "posted"
  /\ st' = [st EXCEPT !.mid = t]
  /\ screen' = [screen EXCEPT ![job[t].target] = {}]
  /\ job' = [job EXCEPT ![t] = [AtRest EXCEPT !.pc = "done"]]
  /\ UNCHANGED <<content, open, replies, inbox, presses, flow, from, fresh>>

----------------------------------------------------------------------------
(* cb_nav (sftp.py:99-170) for the next press.                             *)

HandlerFree == job[Handler].pc = "idle"

Takes(verbs) ==
  /\ HandlerFree /\ inbox # <<>> /\ Head(inbox).button.verb \in verbs
  /\ inbox' = Tail(inbox)
  /\ flow' = None                              \* gate.pre_check (gate.py:169-170)
  /\ UNCHANGED <<content, presses, from>>

Pressed == Head(inbox).button
Here == Head(inbox).msg

(* ui.show: the pressed message is edited, or a new one is posted, or      *)
(* neither works and it raises (m is None).                                *)
ShowsIn(m, buttons) ==
  \/ m = Here /\ screen[Here] # {}
     /\ screen' = [screen EXCEPT ![Here] = buttons] /\ UNCHANGED replies
  \/ /\ m \in Reply /\ m = MaxStarted + replies + 1
     /\ screen' = [screen EXCEPT ![m] = buttons] /\ replies' = replies + 1
  \/ m = None /\ UNCHANGED <<screen, replies>>

(* The handler ends before it does anything: its answer to the press fails,*)
(* or the file pressed is a directory, empty or too large (174-183).       *)
OnlyTakes ==
  /\ Takes({Pressed.verb}) /\ open
  /\ st' = [st EXCEPT !.mid = Here]
  /\ UNCHANGED <<open, screen, replies, job, fresh>>

(* The gate lets the user not in, for a channel, the terms or his access:  *)
(* the handler is not called, and the message shows the gate's text        *)
(* (gate.py:157-191).                                                      *)
Blocked ==
  /\ Takes({Pressed.verb})
  /\ screen' \in {screen, [screen EXCEPT ![Here] = {}]}
  /\ UNCHANGED <<st, open, replies, job, fresh>>

(* rf, pg, up and dm change the dictionary and list again. *)
Moved(b) ==
  LET here == [st EXCEPT !.mid = Here]
  IN  CASE b.verb = "rf" -> here
        [] b.verb = "pg" -> [here EXCEPT !.page = b.arg]
        [] b.verb = "up" -> [here EXCEPT !.path = "top", !.page = 0]
        [] b.verb = "dm" -> [here EXCEPT !.mode = IF @ = "delete" THEN "browse" ELSE "delete"]

Navigates ==
  /\ Takes({"rf", "pg", "up", "dm"}) /\ open
  /\ st' = Moved(Pressed)
  /\ Asks(Handler, st'.path, None)
  /\ fresh' = IF st'.path = st.path THEN fresh ELSE {}
  /\ UNCHANGED <<open, screen, replies>>

(* cd, dl, del and delyes with a place that is not in the listing. *)
Known(i) == i \in 1 .. Len(st.entries)
File(i) == <<st.path, st.entries[i]>>

ListsAgain ==
  /\ Takes({"cd", "dl", "del", "delyes"}) /\ open /\ ~Known(Pressed.arg)
  /\ st' = [st EXCEPT !.mid = Here]
  /\ Asks(Handler, st.path, None)
  /\ UNCHANGED <<open, screen, replies, fresh>>

ChangesFolder ==
  /\ Takes({"cd"}) /\ open /\ Known(Pressed.arg)
  /\ st' = [st EXCEPT !.mid = Here, !.page = 0,
                      !.path = Enter(st.path, st.entries[Pressed.arg])]
  /\ Asks(Handler, st'.path, st.path)
  /\ fresh' = {}
  /\ UNCHANGED <<open, screen, replies>>

IsNext(t) == \A u \in Transfer : job[u].pc = "none" <=> u >= t

(* _start_download (174-183) of a file. *)
Downloads ==
  /\ Takes({"dl"}) /\ open /\ Known(Pressed.arg) /\ st.entries[Pressed.arg] # Dir
  /\ st' = [st EXCEPT !.mid = Here]
  /\ \E t \in Transfer : IsNext(t) /\ job' = [job EXCEPT ![t] =
       [@ EXCEPT !.pc = "waiting", !.kind = "download", !.target = File(Pressed.arg)]]
  /\ UNCHANGED <<open, screen, replies, fresh>>

(* The question names the file, its yes button the place. *)
AsksToDelete ==
  /\ Takes({"del"}) /\ open /\ Known(Pressed.arg)
  /\ st' = [st EXCEPT !.mid = Here]
  /\ \E m \in Msg \cup {None} :
       /\ ShowsIn(m, Question(Pressed.arg, File(Pressed.arg)))
       /\ fresh' = fresh \cup ({m} \ {None})
  /\ UNCHANGED <<open, job>>

Deletes ==
  /\ Takes({"delyes"}) /\ open /\ Known(Pressed.arg)
  /\ st' = [st EXCEPT !.mid = Here]
  /\ job' = [job EXCEPT ![Handler] = [@ EXCEPT !.pc = "removing",
                                                 !.target = File(Pressed.arg)]]
  /\ UNCHANGED <<open, screen, replies, fresh>>

(* The server removes the file or directory, or refuses; the folder is     *)
(* listed in both cases (166-170).                                         *)
RemovesThenLists ==
  /\ job[Handler].pc = "removing"
  /\ \/ open /\ content' = Removed(job[Handler].target)
     \/ UNCHANGED content
  /\ job' = [job EXCEPT ![Handler].pc = "removed"]
  /\ UNCHANGED <<st, open, screen, replies, inbox, presses, flow, from, fresh>>

ListsAfterChange ==
  /\ job[Handler].pc = "removed"
  /\ Asks(Handler, st.path, None)
  /\ UNCHANGED <<content, st, open, screen, replies, inbox, presses, flow, from, fresh>>

AsksForName ==
  /\ HandlerFree /\ inbox # <<>> /\ Pressed.verb = "md" /\ open
  /\ inbox' = Tail(inbox)
  /\ st' = [st EXCEPT !.mid = Here]
  /\ \E m \in Msg \cup {None} : ShowsIn(m, {Plain("rf")}) /\ flow' = m
  /\ UNCHANGED <<content, open, presses, job, from, fresh>>

(* flow_text (252-275): the name comes as a text; the folder is made where *)
(* the browser is by now.  Of the names only Dir can be made.              *)
MakesFolder ==
  /\ HandlerFree /\ inbox = <<>> /\ flow # None
  /\ flow' = None
  /\ IF ~open THEN UNCHANGED <<content, st, job>>
     ELSE /\ st' = [st EXCEPT !.mid = flow]
          /\ \/ /\ st.path = "top"
                /\ content' = [content EXCEPT !["top"] = @ \cup {Dir}]
             \/ UNCHANGED content
          /\ job' = [job EXCEPT ![Handler].pc = "removed"]
  /\ UNCHANGED <<open, screen, replies, inbox, presses, from, fresh>>

(* Not a name of a folder: the question is asked again (264-266). *)
RefusesName ==
  /\ HandlerFree /\ inbox = <<>> /\ flow # None /\ open
  /\ \/ screen[flow] # {} /\ screen' = [screen EXCEPT ![flow] = {Plain("rf")}]
     \/ UNCHANGED screen
  /\ UNCHANGED <<content, st, open, replies, inbox, presses, flow, job, from, fresh>>

(* The exit button, and a press after the browser is gone: the message     *)
(* becomes a menu (103-106, 119-126), or the menu is a new message.        *)
Leaves ==
  /\ HandlerFree /\ inbox # <<>> /\ (Pressed.verb = "exit" \/ ~open)
  /\ inbox' = Tail(inbox)
  /\ flow' = None
  /\ open' = FALSE
  /\ st' = IF open THEN [st EXCEPT !.mid = Here] ELSE st
  /\ screen' \in {screen, [screen EXCEPT ![Here] = {}]}
  /\ UNCHANGED <<content, replies, presses, job, from, fresh>>

----------------------------------------------------------------------------
(* Transfers.                                                              *)

(* A document from the user (on_upload). *)
Uploads(t) ==
  /\ HandlerFree /\ open /\ IsNext(t) /\ presses < MaxPresses
  /\ job' = [job EXCEPT ![t].pc = "waiting", ![t].kind = "upload"]
  /\ presses' = presses + 1
  /\ UNCHANGED <<content, st, open, screen, replies, inbox, flow, from, fresh>>

InSlot == {t \in Transfer : job[t].pc \in {"fetching", "moving"}}
SlotFree_OneTooMany == Cardinality(InSlot) <= MaxTransfers
SlotFree == Cardinality(InSlot) < MaxTransfers

(* async with _sem(): a download takes the file it was started for.        *)
Moves(t) ==
  /\ job[t].pc = "waiting" /\ SlotFree
  /\ job' = [job EXCEPT ![t].pc = IF job[t].kind = "upload" THEN "fetching" ELSE "moving"]
  /\ UNCHANGED <<content, st, open, screen, replies, inbox, presses, flow, from, fresh>>

(* The slot is given back however the transfer ended; in the slip a failed *)
(* one keeps it.                                                           *)
AfterMove_KeepsSlot(t, ok) == IF ok THEN "moved" ELSE job[t].pc
AfterMove(t, ok) == "moved"

(* The document is fetched from Telegram, which may fail; its name is put  *)
(* under the folder of now (233-235).                                      *)
Fetches(t) ==
  /\ job[t].pc = "fetching"
  /\ \/ \E f \in Files : job' = [job EXCEPT ![t].pc = "moving", ![t].target = <<st.path, f>>]
     \/ job' = [job EXCEPT ![t].pc = AfterMove(t, FALSE)]
  /\ UNCHANGED <<content, st, open, screen, replies, inbox, presses, flow, from, fresh>>

Arrives(t) ==
  /\ job[t].pc = "moving"
  /\ \E ok \in {FALSE} \cup {open /\ Exists(job[t].target[1])} :
       /\ content' = IF ok /\ job[t].kind = "upload"
                       THEN [content EXCEPT ![job[t].target[1]] = @ \cup {job[t].target[2]}]
                       ELSE content
       /\ job' = [job EXCEPT ![t].pc = AfterMove(t, ok)]
  /\ UNCHANGED <<st, open, screen, replies, inbox, presses, flow, from, fresh>>

(* The temporary file and the status message are gone; if the browser is   *)
(* still there, its folder is listed (205, 248).                           *)
Finishes(t) ==
  /\ job[t].pc = "moved"
  /\ IF open THEN Asks(t, st.path, None) ELSE job' = [job EXCEPT ![t] = [AtRest EXCEPT !.pc = "done"]]
  /\ UNCHANGED <<content, st, open, screen, replies, inbox, presses, flow, from, fresh>>

(* close_sftp by the idle check (whatever the transfers do), by            *)
(* enforce_access, /start and others.  That the idle check takes the       *)
(* message's buttons away is left out: they would only open a menu.        *)
Closes ==
  /\ open
  /\ open' = FALSE
  /\ UNCHANGED <<content, st, screen, replies, inbox, presses, flow, job, from, fresh>>

----------------------------------------------------------------------------
HandlerStep ==
  \/ Blocked \/ OnlyTakes \/ Navigates \/ ListsAgain \/ ChangesFolder \/ Downloads \/ AsksToDelete
  \/ Deletes \/ RemovesThenLists \/ ListsAfterChange \/ AsksForName \/ Leaves \/ Shows(Handler)

TransferStep(t) == Moves(t) \/ Fetches(t) \/ Arrives(t) \/ Finishes(t) \/ Shows(t) \/ Replaces(t)

Next ==
  \/ HandlerStep \/ MakesFolder \/ RefusesName \/ Closes
  \/ \E m \in Msg : Press(m)
  \/ \E t \in Transfer : Uploads(t) \/ TransferStep(t)

(* asyncio resumes every coroutine; transfers end, for the connection has  *)
(* keepalives.  The handlers and the user need not move.                   *)
Fairness == \A t \in Transfer : WF_vars(TransferStep(t))

Spec == Init /\ [][Next]_vars /\ Fairness

----------------------------------------------------------------------------
(* Properties.                                                             *)

JobPC == {"idle", "none", "listing", "removing", "removed", "waiting", "fetching", "moving",
          "moved", "posted", "done"}

(* The state dictionary (sftp.py:87-90) and what the coroutines hold. *)
TypeOK ==
  /\ content \in [Folder -> SUBSET Name] /\ content["nowhere"] = {}
  /\ st \in [path : Folder, entries : Seq(Name), page : Nat,
             mode : {"browse", "delete"}, mid : Msg]
  /\ \A m \in Msg : \A b \in screen[m] : b.arg \in Nat
  /\ \A r \in Coroutine : job[r].pc \in JobPC
  /\ Cardinality(InSlot) <= MaxTransfers
  /\ from \in Folder /\ fresh \subseteq Msg /\ flow \in Msg \cup {None}

Starts(r, pc) == job[r].pc # pc /\ job'[r].pc = pc

(* Buttons carry places, labels and questions name files.  A button acts   *)
(* on the file that its label or question names, on every page and in both *)
(* modes, unless a listing was stored or the folder left since it was      *)
(* drawn (sftp.py:143-170, keyboards.py:156-165).                          *)
ButtonsDoWhatTheySay ==
  [][/\ inbox # <<>> /\ inbox' = Tail(inbox) /\ open
      /\ Here \in fresh /\ Pressed \in screen[Here] /\ Pressed.saw # None
       => Known(Pressed.arg) /\ File(Pressed.arg) = Pressed.saw]_vars

(* locales/_user.py:173 asks "Delete <kind> <name>?": what is deleted is   *)
(* what the question named.                                                *)
DeletesWhatWasConfirmed ==
  [][Starts(Handler, "removing") => job'[Handler].target = Pressed.saw]_vars

(* A handler that has listed a folder leaves entries of the folder in path *)
(* and a page that they have, whatever transfers did meanwhile; the current*)
(* message shows just that, or, for nobody looks whether the edit worked,  *)
(* what it showed before (sftp.py:50-81, 151-155).                         *)
HandlerShowsItsFolder ==
  [][job[Handler].pc = "listing" /\ job'[Handler].pc = "idle" /\ job[Handler].got # None
       => /\ from' = st'.path
          /\ st'.page < Pages(st'.entries)
          /\ screen'[st'.mid] \in
               {screen[st'.mid], Listing(st'.path, st'.entries, st'.page, st'.mode)}]_vars

(* The entries are of another folder than the path (and a press would then *)
(* act on a file that is not there, or on another one), or will be so if   *)
(* the listing that a cd has asked for fails.  This comes about only when  *)
(* a transfer stores its listing, or a listing of the handler fails that,  *)
(* unlike the one of cd, does not go back: a cd never brings it about,     *)
(* however it ends (sftp.py:50-81, 133-136, 151-155).                      *)
Mixed ==
  IF job[Handler].pc = "listing"
    THEN job[Handler].back # None /\ from # job[Handler].back
    ELSE from # st.path
EntriesMixOnlyByTransfers ==
  [][~Mixed /\ Mixed' =>
       \/ \E t \in Transfer : job[t].got # None /\ job'[t].got = None
       \/ job[Handler].pc = "listing" /\ job[Handler].got = None /\ job[Handler].back = None]_vars

(* Every transfer ends and gives its slot to the next, also if it fails or *)
(* the browser is closed under it (sftp.py:191-206, 232-249).              *)
TransfersEnd ==
  \A t \in Transfer : (job[t].pc = "waiting") ~> (job[t].pc = "done")

=============================================================================
