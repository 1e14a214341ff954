----------------------------- MODULE Sftp_proofs -----------------------------
(***************************************************************************)
(* For any files, contents, page size, number of transfers, slots and      *)
(* presses on their way: a button acts on the file that its label names    *)
(* unless a listing came between, the handler leaves entries of the folder *)
(* in path, and only transfers and failures of other listings than those   *)
(* of cd mix the two.                                                      *)
(*                                                                         *)
(* A button carries a place, and the state dictionary is shared by the     *)
(* handler and all transfers.  The invariant says what survives that: the  *)
(* buttons of fresh messages name what is at their places (Named), and     *)
(* while the handler lists a folder nobody changes the path under it       *)
(* (AsksForItsPath), for only the handler goes back (OnlyHandlerGoesBack). *)
(***************************************************************************)
EXTENDS Sftp, FiniteSetTheorems, TLAPS

Verbs == {"cd", "dl", "del", "delyes", "pg", "rf", "md", "dm", "exit", "up"}
Button == [verb : Verbs, arg : Nat, saw : {None} \cup (Folder \X Name)]
Update == [msg : Msg, button : Button]
Job == [pc : JobPC, asked : Folder, got : {None} \cup Seq(Name), back : {None} \cup Folder,
        target : {None} \cup Msg \cup (Folder \X Name), kind : {None, "upload", "download"}]

Typed ==
  /\ content \in [Folder -> SUBSET Name] /\ content["nowhere"] = {}
  /\ st \in [path : Folder, entries : Seq(Name), page : Nat,
             mode : {"browse", "delete"}, mid : Msg]
  /\ screen \in [Msg -> SUBSET Button]
  /\ inbox \in Seq(Update)
  /\ flow \in Msg \cup {None}
  /\ job \in [Coroutine -> Job]
  /\ from \in Folder /\ fresh \subseteq Msg

(* What removes or writes a file has its name. *)
Targets ==
  /\ job[Handler].pc = "removing" => job[Handler].target \in Folder \X Name
  /\ \A t \in Transfer :
       job[t].pc = "moving" /\ job[t].kind = "upload" => job[t].target \in Folder \X Name

NamesPlace(b, path, entries) ==
  b.saw # None => b.arg \in 1 .. Len(entries) /\ <<path, entries[b.arg]>> = b.saw

Named == \A m \in fresh : \A b \in screen[m] : NamesPlace(b, st.path, st.entries)

AsksForItsPath == job[Handler].pc = "listing" => job[Handler].asked = st.path

OnlyHandlerGoesBack == \A t \in Transfer : job[t].back = None

SlotsKept == Cardinality(InSlot) <= MaxTransfers

Rest == Targets /\ OnlyHandlerGoesBack /\ SlotsKept

Inv == Typed /\ Rest /\ Named /\ AsksForItsPath

----------------------------------------------------------------------------
(* Pages, listings and sorted folders.                                     *)

LEMMA Extremes ==
  ASSUME NEW a \in Int, NEW b \in Int
  PROVE  /\ Max({a, b}) \in {a, b} /\ Max({a, b}) >= a /\ Max({a, b}) >= b
         /\ Min({a, b}) \in {a, b} /\ Min({a, b}) <= a /\ Min({a, b}) <= b
<1>1. \E x \in {a, b} : \A y \in {a, b} : x >= y
  OBVIOUS
<1>2. \E x \in {a, b} : \A y \in {a, b} : x <= y
  OBVIOUS
<1> QED
  BY <1>1, <1>2 DEF Max, Min

LEMMA PagesArePositive ==
  ASSUME NEW entries \in Seq(Name)
  PROVE  Pages(entries) \in Nat \ {0}
<1> DEFINE full == (Len(entries) + PerPage - 1) \div PerPage
<1>1. full \in Int
  BY SftpAssumption
<1>2. Pages(entries) = Max({1, full})
  BY DEF Pages
<1> HIDE DEF full
<1>3. Max({1, full}) \in {1, full} /\ Max({1, full}) >= 1
  BY <1>1, Extremes, 1 \in Int
<1> QED
  BY <1>1, <1>2, <1>3

LEMMA ListingTyped ==
  ASSUME NEW path \in Folder, NEW entries \in Seq(Name), NEW page \in Nat, NEW mode,
         NEW b \in Listing(path, entries, page, mode)
  PROVE  b \in Button /\ NamesPlace(b, path, entries)
<1> DEFINE first == page * PerPage + 1
           end == (page + 1) * PerPage
           last == Min({Len(entries), end})
           verb(i) == IF mode = "delete" THEN "del" ELSE IF entries[i] = Dir THEN "cd" ELSE "dl"
<1>1. first \in Nat \ {0} /\ last \in Int /\ last <= Len(entries)
  <2>1. page * PerPage \in Nat /\ end \in Int
    BY SftpAssumption
  <2>2. Len(entries) \in Int
    OBVIOUS
  <2> HIDE DEF end
  <2>3. last \in Int /\ last <= Len(entries)
    BY <2>1, <2>2, Extremes
  <2> QED
    BY <2>1, <2>3
<1>2. \/ \E i \in first .. last :
            b = [verb |-> verb(i), arg |-> Place(page, i), saw |-> <<path, entries[i]>>]
      \/ \E p \in 0 .. (Pages(entries) - 1) : b = [verb |-> "pg", arg |-> p, saw |-> None]
      \/ \E v \in {"rf", "md", "dm", "exit", "up"} : b = Plain(v)
  BY DEF Listing
<1> HIDE DEF first, last
<1>3. ASSUME NEW i \in first .. last,
             b = [verb |-> verb(i), arg |-> Place(page, i), saw |-> <<path, entries[i]>>]
      PROVE  b \in Button /\ NamesPlace(b, path, entries)
  <2>1. i \in 1 .. Len(entries) /\ entries[i] \in Name
    BY <1>1
  <2>2. verb(i) \in Verbs
    BY DEF Verbs
  <2> HIDE DEF verb
  <2> QED
    BY <1>3, <2>1, <2>2 DEF Button, NamesPlace, Place
<1>4. ASSUME NEW p \in 0 .. (Pages(entries) - 1),
             b = [verb |-> "pg", arg |-> p, saw |-> None]
      PROVE  b \in Button /\ NamesPlace(b, path, entries)
  BY <1>4, PagesArePositive DEF Button, NamesPlace, Verbs
<1>5. ASSUME NEW v \in {"rf", "md", "dm", "exit", "up"}, b = Plain(v)
      PROVE  b \in Button /\ NamesPlace(b, path, entries)
  BY <1>5 DEF Button, NamesPlace, Plain, Verbs
<1> QED
  BY <1>2, <1>3, <1>4, <1>5

LEMMA NamesAreFinite == IsFiniteSet(Name) /\ Name \subseteq Nat
  BY SftpAssumption, FS_AddElement DEF Name, Dir

(* listdir gives a folder's names in order: a name's place is the number   *)
(* of names up to it, which takes every value once.                        *)
LEMMA SortedSequenceExists ==
  ASSUME NEW C \in SUBSET Name
  PROVE  \E s \in [1 .. Cardinality(C) -> C] : \A i, j \in DOMAIN s : i < j => s[i] < s[j]
<1> DEFINE n == Cardinality(C)
           upTo(x) == {y \in C : y <= x}
           place == [x \in C |-> Cardinality(upTo(x))]
<1>1. IsFiniteSet(C) /\ C \subseteq Nat /\ n \in Nat
  BY NamesAreFinite, FS_Subset, FS_CardinalityType
<1>2. ASSUME NEW x \in C
      PROVE  IsFiniteSet(upTo(x)) /\ Cardinality(upTo(x)) \in 1 .. n
  <2>1. IsFiniteSet(upTo(x)) /\ Cardinality(upTo(x)) <= n /\ Cardinality(upTo(x)) \in Nat
    BY <1>1, FS_Subset, FS_CardinalityType
  <2>2. x \in upTo(x)
    BY <1>1
  <2>3. Cardinality(upTo(x)) # 0
    BY <2>1, <2>2, FS_EmptySet
  <2> QED
    BY <1>1, <2>1, <2>3
<1>3. ASSUME NEW x \in C, NEW y \in C, x < y
      PROVE  Cardinality(upTo(x)) < Cardinality(upTo(y))
  <2>1. upTo(x) \subseteq upTo(y) /\ y \in upTo(y) /\ y \notin upTo(x)
    <3>1. \A z \in C : z <= x => z <= y
      BY <1>1, <1>3
    <3>2. y <= y /\ ~(y <= x)
      BY <1>1, <1>3
    <3> QED
      BY <3>1, <3>2
  <2>2. upTo(x) # upTo(y)
    BY <2>1
  <2>3. /\ Cardinality(upTo(x)) <= Cardinality(upTo(y))
        /\ Cardinality(upTo(x)) # Cardinality(upTo(y))
    <3> HIDE DEF upTo
    <3> QED
      BY <1>2, <2>1, <2>2, FS_Subset
  <2> QED
    BY <1>2, <2>3
<1> HIDE DEF upTo
<1>4. place \in [C -> 1 .. n] /\ \A x, y \in C : x < y <=> place[x] < place[y]
  <2>1. ASSUME NEW x \in C, NEW y \in C
        PROVE  x < y <=> place[x] < place[y]
    BY <1>1, <1>2, <1>3
  <2> QED
    BY <1>2, <2>1
<1> HIDE DEF place
<1>5. place \in Injection(C, 1 .. n)
  BY <1>1, <1>4 DEF Injection, IsInjective
<1>6. place \in Surjection(C, 1 .. n)
  <2>1. IsFiniteSet(1 .. n) /\ Cardinality(1 .. n) = n
    BY <1>1, FS_Interval
  <2> QED
    BY <1>5, <2>1, FS_Injection
<1>7. \A i \in 1 .. n : \E x \in C : place[x] = i
  BY <1>6 DEF Surjection
<1> DEFINE s == [i \in 1 .. n |-> CHOOSE x \in C : place[x] = i]
<1>8. \A i \in 1 .. n : s[i] \in C /\ place[s[i]] = i
  BY <1>7
<1>9. s \in [1 .. n -> C] /\ \A i, j \in DOMAIN s : i < j => s[i] < s[j]
  <2>1. DOMAIN s = 1 .. n /\ s \in [1 .. n -> C]
    BY <1>8
  <2>2. ASSUME NEW i \in 1 .. n, NEW j \in 1 .. n, i < j
        PROVE  s[i] < s[j]
    <3> HIDE DEF s
    <3> QED
      BY <1>4, <1>8, <2>2
  <2> HIDE DEF s
  <2> QED
    BY <2>1, <2>2
<1> QED
  BY <1>9

LEMMA SortedContentTyped ==
  ASSUME content \in [Folder -> SUBSET Name], NEW f \in Folder
  PROVE  SortedContent(f) \in Seq(Name)
<1> PICK C \in SUBSET Name : C = content[f]
  OBVIOUS
<1>1. SortedContent(f) \in [1 .. Cardinality(C) -> C]
  BY SortedSequenceExists DEF SortedContent
<1>2. Cardinality(C) \in Nat
  BY NamesAreFinite, FS_Subset, FS_CardinalityType
<1> QED
  BY <1>1, <1>2

----------------------------------------------------------------------------
(* What the steps do to the jobs, and when the names stay right.           *)

LEMMA TypedIds ==
  /\ Handler \in Coroutine /\ Handler \notin Transfer /\ First \in Msg
  /\ Coroutine = Transfer \cup {Handler} /\ Transfer \subseteq Msg
  /\ None \notin Folder /\ None \notin Msg
  /\ IsFiniteSet(Transfer)
  BY SftpAssumption, FS_Interval
     DEF Handler, Coroutine, Transfer, First, Reply, Msg

LEMMA HeadTyped ==
  ASSUME inbox \in Seq(Update), inbox # <<>>
  PROVE  /\ Here \in Msg /\ Pressed \in Button
         /\ Tail(inbox) \in Seq(Update) /\ Len(Tail(inbox)) = Len(inbox) - 1
<1>1. Head(inbox) \in Update /\ Tail(inbox) \in Seq(Update) /\ Len(Tail(inbox)) = Len(inbox) - 1
  OBVIOUS
<1> QED
  BY <1>1 DEF Here, Pressed, Update

LEMMA AsksFor ==
  ASSUME Typed, NEW r \in Coroutine, NEW path \in Folder, NEW back \in {None} \cup Folder,
         Asks(r, path, back)
  PROVE  /\ job' \in [Coroutine -> Job]
         /\ job'[r].pc = "listing" /\ job'[r].asked = path /\ job'[r].back = back
         /\ \A q \in Coroutine \ {r} : job'[q] = job[q]
<1>1. PICK got \in {None} \cup Seq(Name) :
        job' = [job EXCEPT ![r] = [@ EXCEPT !.pc = "listing", !.asked = path,
                                            !.got = got, !.back = back]]
  BY SortedContentTyped DEF Asks, Typed
<1>2. job[r] \in Job
  BY DEF Typed
<1>3. [job[r] EXCEPT !.pc = "listing", !.asked = path, !.got = got, !.back = back] \in Job
  BY <1>2 DEF Job, JobPC
<1> QED
  BY <1>1, <1>2, <1>3 DEF Typed, Job

LEMMA SlotsShrink ==
  ASSUME SlotsKept, InSlot' \subseteq InSlot
  PROVE  SlotsKept'
<1>1. IsFiniteSet(InSlot) /\ Cardinality(InSlot) \in Nat
  BY TypedIds, FS_Subset, FS_CardinalityType DEF InSlot
<1>2. Cardinality(InSlot') <= Cardinality(InSlot) /\ Cardinality(InSlot') \in Nat
  BY <1>1, FS_Subset, FS_CardinalityType
<1> QED
  BY <1>1, <1>2, SftpAssumption DEF SlotsKept

LEMMA OnlyHandlerMoves ==
  ASSUME Rest, \A t \in Transfer : job'[t] = job[t],
         job'[Handler].pc = "removing" => job'[Handler].target \in Folder \X Name
  PROVE  Rest'
<1>1. InSlot' \subseteq InSlot
  BY DEF InSlot
<1> QED
  BY <1>1, SlotsShrink DEF Rest, Targets, OnlyHandlerGoesBack

LEMMA OnlyTransferMoves ==
  ASSUME Rest, NEW t \in Transfer, \A q \in Coroutine \ {t} : job'[q] = job[q],
         job'[t].back = None, job'[t].pc \notin {"fetching", "moving"}
  PROVE  Rest' /\ job'[Handler] = job[Handler]
<1>1. job'[Handler] = job[Handler] /\ \A q \in Transfer \ {t} : job'[q] = job[q]
  BY TypedIds
<1>2. InSlot' \subseteq InSlot
  BY <1>1 DEF InSlot
<1> QED
  BY <1>1, <1>2, SlotsShrink DEF Rest, Targets, OnlyHandlerGoesBack

(* Messages may lose buttons, or get ones that name nothing. *)
LEMMA NamesStay ==
  ASSUME Named, st'.path = st.path, st'.entries = st.entries, fresh' \subseteq fresh,
         \A m \in fresh' : \A b \in screen'[m] : b \in screen[m] \/ b.saw = None
  PROVE  Named'
  BY DEF Named, NamesPlace

----------------------------------------------------------------------------
(* The handler.                                                            *)

LEMMA PressKeeps ==
  ASSUME Inv, NEW m \in Msg, Press(m)
  PROVE  Inv'
<1>1. PICK b \in screen[m] : inbox' = Append(inbox, [msg |-> m, button |-> b])
  BY DEF Press
<1>2. [msg |-> m, button |-> b] \in Update
  BY DEF Inv, Typed, Update
<1>3. UNCHANGED <<content, st, open, screen, flow, job, from, fresh>> /\ inbox' \in Seq(Update)
  BY <1>1, <1>2 DEF Press, Inv, Typed
<1>4. Typed'
  BY <1>3 DEF Inv, Typed
<1>5. Rest'
  BY <1>3 DEF Inv, Rest, Targets, OnlyHandlerGoesBack, SlotsKept, InSlot
<1>6. Named' /\ AsksForItsPath'
  BY <1>3 DEF Inv, Named, AsksForItsPath
<1> QED
  BY <1>4, <1>5, <1>6 DEF Inv

LEMMA ClosesKeeps ==
  ASSUME Inv, UNCHANGED <<content, st, screen, inbox, flow, job, from, fresh>>
  PROVE  Inv'
<1>1. Typed' /\ Rest'
  BY DEF Inv, Typed, Rest, Targets, OnlyHandlerGoesBack, SlotsKept, InSlot
<1> QED
  BY <1>1 DEF Inv, Named, AsksForItsPath

LEMMA NavigatesKeeps ==
  ASSUME Inv, Navigates
  PROVE  Inv'
<1>1. /\ Here \in Msg /\ Pressed \in Button /\ inbox' \in Seq(Update)
      /\ flow' = None /\ UNCHANGED <<content, from, open, screen>>
      /\ Pressed.verb \in {"rf", "pg", "up", "dm"}
      /\ job[Handler].pc = "idle"
  BY HeadTyped DEF Inv, Typed, Navigates, Takes, HandlerFree, Pressed
<1>2. /\ st' \in [path : Folder, entries : Seq(Name), page : Nat,
                  mode : {"browse", "delete"}, mid : Msg]
      /\ st'.entries = st.entries
  BY <1>1 DEF Inv, Typed, Navigates, Moved, Button, Folder
<1>3. /\ job' \in [Coroutine -> Job] /\ \A t \in Transfer : job'[t] = job[t]
      /\ job'[Handler].pc = "listing" /\ job'[Handler].asked = st'.path
  <2>1. Asks(Handler, st'.path, None) /\ st'.path \in Folder
    BY <1>2 DEF Navigates
  <2> QED
    BY <2>1, AsksFor, TypedIds DEF Inv
<1>4. fresh' = (IF st'.path = st.path THEN fresh ELSE {})
  BY DEF Navigates
<1>5. Typed'
  BY <1>1, <1>2, <1>3, <1>4 DEF Inv, Typed
<1>6. Rest'
  BY <1>3, OnlyHandlerMoves DEF Inv
<1>7. Named'
  BY <1>1, <1>2, <1>4 DEF Inv, Named, NamesPlace
<1> QED
  BY <1>3, <1>5, <1>6, <1>7 DEF Inv, AsksForItsPath

LEMMA ListsAgainKeeps ==
  ASSUME Inv, ListsAgain
  PROVE  Inv'
<1>1. /\ Here \in Msg /\ inbox' \in Seq(Update) /\ flow' = None
      /\ UNCHANGED <<content, from, open, screen, fresh>>
  BY HeadTyped DEF Inv, Typed, ListsAgain, Takes
<1>2. /\ st' \in [path : Folder, entries : Seq(Name), page : Nat,
                  mode : {"browse", "delete"}, mid : Msg]
      /\ st'.entries = st.entries /\ st'.path = st.path
  BY <1>1 DEF Inv, Typed, ListsAgain
<1>3. /\ job' \in [Coroutine -> Job] /\ \A t \in Transfer : job'[t] = job[t]
      /\ job'[Handler].pc = "listing" /\ job'[Handler].asked = st.path
  <2>1. Asks(Handler, st.path, None) /\ st.path \in Folder
    BY DEF ListsAgain, Inv, Typed
  <2> QED
    BY <2>1, AsksFor, TypedIds DEF Inv
<1>4. Typed'
  BY <1>1, <1>2, <1>3 DEF Inv, Typed
<1>5. Rest'
  BY <1>3, OnlyHandlerMoves DEF Inv
<1>6. Named'
  BY <1>1, <1>2, NamesStay DEF Inv
<1> QED
  BY <1>2, <1>3, <1>4, <1>5, <1>6 DEF Inv, AsksForItsPath

LEMMA ChangesFolderKeeps ==
  ASSUME Inv, ChangesFolder
  PROVE  Inv'
<1>1. /\ Here \in Msg /\ inbox' \in Seq(Update) /\ flow' = None
      /\ UNCHANGED <<content, from, open, screen>> /\ fresh' = {}
  BY HeadTyped DEF Inv, Typed, ChangesFolder, Takes
<1>2. st' \in [path : Folder, entries : Seq(Name), page : Nat,
               mode : {"browse", "delete"}, mid : Msg]
  BY <1>1 DEF Inv, Typed, ChangesFolder, Enter, Folder
<1>3. /\ job' \in [Coroutine -> Job] /\ \A t \in Transfer : job'[t] = job[t]
      /\ job'[Handler].pc = "listing" /\ job'[Handler].asked = st'.path
  <2>1. /\ Asks(Handler, st'.path, st.path)
        /\ st'.path \in Folder /\ st.path \in {None} \cup Folder
    BY <1>2 DEF ChangesFolder, Inv, Typed
  <2> QED
    BY <2>1, AsksFor, TypedIds DEF Inv
<1>4. Typed'
  BY <1>1, <1>2, <1>3 DEF Inv, Typed
<1>5. Rest'
  BY <1>3, OnlyHandlerMoves DEF Inv
<1>6. Named'
  BY <1>1 DEF Named
<1> QED
  BY <1>3, <1>4, <1>5, <1>6 DEF Inv, AsksForItsPath


(* A press that starts, or asks about, a file at a known place. *)
LEMMA FileTyped ==
  ASSUME Typed, inbox # <<>>, Known(Pressed.arg)
  PROVE  File(Pressed.arg) \in Folder \X Name
BY DEF Typed, Known, File

LEMMA OnlyTakesKeeps ==
  ASSUME Inv, OnlyTakes
  PROVE  Inv'
<1>1. /\ Here \in Msg /\ inbox' \in Seq(Update) /\ flow' = None
      /\ UNCHANGED <<content, from, open, screen, job, fresh>>
  BY HeadTyped DEF Inv, Typed, OnlyTakes, Takes
<1>2. /\ st' \in [path : Folder, entries : Seq(Name), page : Nat,
                  mode : {"browse", "delete"}, mid : Msg]
      /\ st'.entries = st.entries /\ st'.path = st.path
  BY <1>1 DEF Inv, Typed, OnlyTakes
<1>3. Typed'
  BY <1>1, <1>2 DEF Inv, Typed
<1>4. Rest'
  BY <1>1 DEF Inv, Rest, Targets, OnlyHandlerGoesBack, SlotsKept, InSlot
<1>5. Named'
  BY <1>1, <1>2, NamesStay DEF Inv
<1> QED
  BY <1>1, <1>2, <1>3, <1>4, <1>5 DEF Inv, AsksForItsPath

LEMMA DownloadsKeeps ==
  ASSUME Inv, Downloads
  PROVE  Inv'
<1>1. /\ Here \in Msg /\ inbox' \in Seq(Update) /\ flow' = None
      /\ UNCHANGED <<content, from, open, screen, fresh>>
      /\ job[Handler].pc = "idle"
  BY HeadTyped DEF Inv, Typed, Downloads, Takes, HandlerFree
<1>2. /\ st' \in [path : Folder, entries : Seq(Name), page : Nat,
                  mode : {"browse", "delete"}, mid : Msg]
      /\ st'.entries = st.entries /\ st'.path = st.path
  BY <1>1 DEF Inv, Typed, Downloads
<1>3. job' \in [Coroutine -> Job] /\ Rest' /\ job'[Handler] = job[Handler]
  <2> PICK t \in Transfer :
        job' = [job EXCEPT ![t] = [@ EXCEPT !.pc = "waiting", !.kind = "download",
                                            !.target = File(Pressed.arg)]]
    BY DEF Downloads
  <2>1. File(Pressed.arg) \in Folder \X Name
    BY FileTyped DEF Inv, Downloads, Takes
  <2>2. t \in Coroutine /\ job[t] \in Job /\ job[t].back = None
    BY TypedIds DEF Inv, Typed, Rest, OnlyHandlerGoesBack
  <2>3. job'[t] \in Job /\ job'[t].pc = "waiting" /\ job'[t].back = None
    BY <2>1, <2>2 DEF Inv, Typed, Job, JobPC
  <2>4. job' \in [Coroutine -> Job] /\ \A q \in Coroutine \ {t} : job'[q] = job[q]
    BY <2>2, <2>3 DEF Inv, Typed
  <2> QED
    BY <2>3, <2>4, OnlyTransferMoves DEF Inv
<1>4. Typed'
  BY <1>1, <1>2, <1>3 DEF Inv, Typed
<1>5. Named'
  BY <1>1, <1>2, NamesStay DEF Inv
<1> QED
  BY <1>1, <1>3, <1>4, <1>5 DEF Inv, AsksForItsPath

(* ui.show puts its buttons on one message, or nowhere. *)
LEMMA ShowsInOne ==
  ASSUME Typed, NEW m \in Msg \cup {None}, NEW buttons \in SUBSET Button, Here \in Msg,
         ShowsIn(m, buttons)
  PROVE  /\ screen' \in [Msg -> SUBSET Button]
         /\ m \in Msg => screen'[m] = buttons
         /\ \A q \in Msg \ {m} : screen'[q] = screen[q]
<1>1. CASE m = None
  <2>1. UNCHANGED screen
    BY <1>1, TypedIds, SftpAssumption DEF ShowsIn, Reply, Msg
  <2> QED
    BY <1>1, <2>1, TypedIds DEF Typed
<1>2. CASE m \in Msg
  <2>1. screen' = [screen EXCEPT ![m] = buttons]
    BY <1>2, TypedIds DEF ShowsIn
  <2> QED
    BY <1>2, <2>1 DEF Typed
<1> QED
  BY <1>1, <1>2

LEMMA AsksToDeleteKeeps ==
  ASSUME Inv, AsksToDelete
  PROVE  Inv'
<1> PICK file \in Folder \X Name : file = File(Pressed.arg)
  BY FileTyped DEF Inv, AsksToDelete, Takes
<1> PICK m \in Msg \cup {None} : /\ ShowsIn(m, Question(Pressed.arg, file))
                              /\ fresh' = fresh \cup ({m} \ {None})
  BY DEF AsksToDelete
<1>1. /\ inbox' \in Seq(Update) /\ flow' = None
      /\ UNCHANGED <<content, from, open, job>>
      /\ job[Handler].pc = "idle" /\ Pressed \in Button /\ Here \in Msg
  BY HeadTyped DEF Inv, Typed, AsksToDelete, Takes, HandlerFree
<1>2. /\ st' \in [path : Folder, entries : Seq(Name), page : Nat,
                  mode : {"browse", "delete"}, mid : Msg]
      /\ st'.entries = st.entries /\ st'.path = st.path
  BY <1>1 DEF Inv, Typed, AsksToDelete
<1>3. \A b \in Question(Pressed.arg, file) :
        b \in Button /\ NamesPlace(b, st.path, st.entries)
  <2>1. Pressed.arg \in 1 .. Len(st.entries) /\ <<st.path, st.entries[Pressed.arg]>> = file
    BY DEF AsksToDelete, Known, File
  <2> SUFFICES ASSUME NEW b \in Question(Pressed.arg, file)
               PROVE  b \in Button /\ NamesPlace(b, st.path, st.entries)
    OBVIOUS
  <2>2. CASE b = [verb |-> "delyes", arg |-> Pressed.arg, saw |-> file]
    <3>1. Pressed.arg \in Nat
      BY <1>1 DEF Button
    <3> QED
      BY <2>1, <2>2, <3>1 DEF Button, Verbs, NamesPlace
  <2>3. CASE b = Plain("rf")
    BY <2>3 DEF Button, Verbs, NamesPlace, Plain
  <2> QED
    BY <2>2, <2>3 DEF Question
<1>4. /\ screen' \in [Msg -> SUBSET Button]
      /\ m \in Msg => screen'[m] = Question(Pressed.arg, file)
      /\ \A q \in Msg \ {m} : screen'[q] = screen[q]
  BY <1>1, <1>3, ShowsInOne DEF Inv
<1>5. fresh' \subseteq Msg /\ \A q \in fresh' : q \in fresh \/ q = m
  BY DEF Inv, Typed
<1>6. Typed'
  BY <1>1, <1>2, <1>4, <1>5 DEF Inv, Typed
<1>7. Rest'
  BY <1>1 DEF Inv, Rest, Targets, OnlyHandlerGoesBack, SlotsKept, InSlot
<1>8. Named'
  <2> SUFFICES ASSUME NEW q \in fresh', NEW b \in screen'[q]
               PROVE  NamesPlace(b, st.path, st.entries)
    BY <1>2 DEF Named
  <2>1. CASE q = m
    BY <1>3, <1>4, <1>5, <2>1
  <2>2. CASE q # m
    BY <1>4, <1>5, <2>2 DEF Inv, Named
  <2> QED
    BY <2>1, <2>2
<1> QED
  BY <1>1, <1>6, <1>7, <1>8 DEF Inv, AsksForItsPath

LEMMA DeletesKeeps ==
  ASSUME Inv, Deletes
  PROVE  Inv'
<1> PICK file \in Folder \X Name : file = File(Pressed.arg)
  BY FileTyped DEF Inv, Deletes, Takes
<1>1. /\ Here \in Msg /\ inbox' \in Seq(Update) /\ flow' = None
      /\ UNCHANGED <<content, from, open, screen, fresh>>
      /\ job' = [job EXCEPT ![Handler] = [@ EXCEPT !.pc = "removing", !.target = file]]
  BY HeadTyped DEF Inv, Typed, Deletes, Takes
<1>2. /\ st' \in [path : Folder, entries : Seq(Name), page : Nat,
                  mode : {"browse", "delete"}, mid : Msg]
      /\ st'.entries = st.entries /\ st'.path = st.path
  BY <1>1 DEF Inv, Typed, Deletes
<1>3. job'[Handler] \in Job /\ job'[Handler].pc = "removing" /\ job'[Handler].target = file
  <2>1. job[Handler] \in Job
    BY TypedIds DEF Inv, Typed
  <2>2. job'[Handler] = [job[Handler] EXCEPT !.pc = "removing", !.target = file]
    BY <1>1, TypedIds DEF Inv, Typed
  <2> QED
    BY <2>1, <2>2 DEF Job, JobPC
<1>4. job' \in [Coroutine -> Job] /\ \A t \in Transfer : job'[t] = job[t]
  BY <1>1, <1>3, TypedIds DEF Inv, Typed
<1>5. Typed'
  BY <1>1, <1>2, <1>4 DEF Inv, Typed
<1>6. Rest'
  BY <1>3, <1>4, OnlyHandlerMoves DEF Inv
<1>7. Named'
  BY <1>1, <1>2, NamesStay DEF Inv
<1> QED
  BY <1>3, <1>5, <1>6, <1>7 DEF Inv, AsksForItsPath

LEMMA HandlerHasChanged ==
  ASSUME job \in [Coroutine -> Job], job' = [job EXCEPT ![Handler].pc = "removed"]
  PROVE  /\ job' \in [Coroutine -> Job] /\ \A t \in Transfer : job'[t] = job[t]
         /\ job'[Handler].pc = "removed"
<1>1. job[Handler] \in Job /\ job'[Handler] = [job[Handler] EXCEPT !.pc = "removed"]
  BY TypedIds
<1>2. job'[Handler] \in Job /\ job'[Handler].pc = "removed"
  BY <1>1 DEF Job, JobPC
<1> QED
  BY <1>2, TypedIds

LEMMA RemovesKeeps ==
  ASSUME Inv, RemovesThenLists
  PROVE  Inv'
<1>1. /\ UNCHANGED <<st, open, screen, inbox, presses, flow, from, fresh>>
      /\ job' = [job EXCEPT ![Handler].pc = "removed"]
      /\ job[Handler].target \in Folder \X Name
  BY DEF RemovesThenLists, Inv, Rest, Targets
<1>2. content' \in [Folder -> SUBSET Name] /\ content'["nowhere"] = {}
  BY <1>1 DEF RemovesThenLists, Removed, Inv, Typed, Folder
<1>3. /\ job' \in [Coroutine -> Job] /\ \A t \in Transfer : job'[t] = job[t]
      /\ job'[Handler].pc = "removed"
  BY <1>1, HandlerHasChanged DEF Inv, Typed
<1>4. Typed'
  BY <1>1, <1>2, <1>3 DEF Inv, Typed
<1>5. Rest'
  BY <1>3, OnlyHandlerMoves DEF Inv
<1>6. Named'
  BY <1>1, NamesStay DEF Inv
<1> QED
  BY <1>3, <1>4, <1>5, <1>6 DEF Inv, AsksForItsPath

LEMMA ListsAfterChangeKeeps ==
  ASSUME Inv, ListsAfterChange
  PROVE  Inv'
<1>1. UNCHANGED <<content, st, open, screen, inbox, presses, flow, from, fresh>>
  BY DEF ListsAfterChange
<1>2. /\ job' \in [Coroutine -> Job] /\ \A t \in Transfer : job'[t] = job[t]
      /\ job'[Handler].pc = "listing" /\ job'[Handler].asked = st.path
  <2>1. Asks(Handler, st.path, None) /\ st.path \in Folder
    BY DEF ListsAfterChange, Inv, Typed
  <2> QED
    BY <2>1, AsksFor, TypedIds DEF Inv
<1>3. Typed'
  BY <1>1, <1>2 DEF Inv, Typed
<1>4. Rest'
  BY <1>2, OnlyHandlerMoves DEF Inv
<1>5. Named'
  BY <1>1, NamesStay DEF Inv
<1> QED
  BY <1>1, <1>2, <1>3, <1>4, <1>5 DEF Inv, AsksForItsPath

LEMMA AsksForNameKeeps ==
  ASSUME Inv, AsksForName
  PROVE  Inv'
<1> PICK m \in Msg \cup {None} : ShowsIn(m, {Plain("rf")}) /\ flow' = m
  BY DEF AsksForName
<1>1. /\ inbox' \in Seq(Update) /\ Here \in Msg
      /\ UNCHANGED <<content, open, presses, job, from, fresh>>
      /\ job[Handler].pc = "idle"
  BY HeadTyped DEF Inv, Typed, AsksForName, HandlerFree
<1>2. /\ st' \in [path : Folder, entries : Seq(Name), page : Nat,
                  mode : {"browse", "delete"}, mid : Msg]
      /\ st'.entries = st.entries /\ st'.path = st.path
  BY <1>1 DEF Inv, Typed, AsksForName
<1>3. Plain("rf") \in Button /\ Plain("rf").saw = None
  BY DEF Plain, Button, Verbs
<1>4. /\ screen' \in [Msg -> SUBSET Button]
      /\ m \in Msg => screen'[m] = {Plain("rf")}
      /\ \A q \in Msg \ {m} : screen'[q] = screen[q]
  BY <1>1, <1>3, ShowsInOne DEF Inv
<1>5. Typed'
  BY <1>1, <1>2, <1>4 DEF Inv, Typed
<1>6. Rest'
  BY <1>1 DEF Inv, Rest, Targets, OnlyHandlerGoesBack, SlotsKept, InSlot
<1>7. \A q \in fresh' : \A b \in screen'[q] : b \in screen[q] \/ b.saw = None
  BY <1>1, <1>3, <1>4 DEF Inv, Typed
<1>8. Named'
  BY <1>1, <1>2, <1>7, NamesStay DEF Inv
<1> QED
  BY <1>1, <1>5, <1>6, <1>8 DEF Inv, AsksForItsPath

LEMMA MakesFolderKeeps ==
  ASSUME Inv, MakesFolder
  PROVE  Inv'
<1>1. /\ UNCHANGED <<open, screen, inbox, presses, from, fresh>> /\ flow' = None
      /\ flow \in Msg /\ job[Handler].pc = "idle"
  BY DEF MakesFolder, HandlerFree, Inv, Typed
<1>2. /\ st' \in [path : Folder, entries : Seq(Name), page : Nat,
                  mode : {"browse", "delete"}, mid : Msg]
      /\ st'.entries = st.entries /\ st'.path = st.path
  BY <1>1 DEF MakesFolder, Inv, Typed
<1>3. content' \in [Folder -> SUBSET Name] /\ content'["nowhere"] = {}
  BY DEF MakesFolder, Inv, Typed, Folder, Name
<1>4. /\ job' \in [Coroutine -> Job] /\ \A t \in Transfer : job'[t] = job[t]
      /\ job'[Handler].pc \in {"idle", "removed"}
  <2>1. UNCHANGED job \/ job' = [job EXCEPT ![Handler].pc = "removed"]
    BY DEF MakesFolder
  <2> QED
    BY <1>1, <2>1, HandlerHasChanged DEF Inv, Typed
<1>5. Typed'
  BY <1>1, <1>2, <1>3, <1>4 DEF Inv, Typed
<1>6. Rest'
  BY <1>4, OnlyHandlerMoves DEF Inv
<1>7. Named'
  BY <1>1, <1>2, NamesStay DEF Inv
<1> QED
  BY <1>4, <1>5, <1>6, <1>7 DEF Inv, AsksForItsPath

LEMMA RefusesNameKeeps ==
  ASSUME Inv, RefusesName
  PROVE  Inv'
<1>1. /\ UNCHANGED <<content, st, open, inbox, presses, flow, job, from, fresh>>
      /\ flow \in Msg
  BY DEF RefusesName, Inv, Typed
<1>2. Plain("rf") \in Button /\ Plain("rf").saw = None
  BY DEF Plain, Button, Verbs
<1>3. /\ screen' \in [Msg -> SUBSET Button]
      /\ \A q \in Msg : \A b \in screen'[q] : b \in screen[q] \/ b.saw = None
  BY <1>1, <1>2 DEF RefusesName, Inv, Typed
<1>4. Typed'
  BY <1>1, <1>3 DEF Inv, Typed
<1>5. Rest'
  BY <1>1 DEF Inv, Rest, Targets, OnlyHandlerGoesBack, SlotsKept, InSlot
<1>6. Named'
  BY <1>1, <1>3, NamesStay DEF Inv, Typed
<1> QED
  BY <1>1, <1>4, <1>5, <1>6 DEF Inv, AsksForItsPath

LEMMA LeavesKeeps ==
  ASSUME Inv, Leaves \/ Blocked
  PROVE  Inv'
<1> PICK here \in Msg : here = Here
  BY HeadTyped DEF Inv, Typed, Leaves, Blocked, Takes
<1>1. /\ inbox' \in Seq(Update) /\ flow' = None
      /\ UNCHANGED <<content, presses, job, from, fresh>>
      /\ screen' \in {screen, [screen EXCEPT ![here] = {}]}
      /\ job[Handler].pc = "idle"
  BY HeadTyped DEF Inv, Typed, Leaves, Blocked, Takes, HandlerFree
<1>2. /\ st' \in [path : Folder, entries : Seq(Name), page : Nat,
                  mode : {"browse", "delete"}, mid : Msg]
      /\ st'.entries = st.entries /\ st'.path = st.path
  BY DEF Inv, Typed, Leaves, Blocked, Takes
<1>3. screen' \in [Msg -> SUBSET Button] /\ \A q \in Msg : screen'[q] \subseteq screen[q]
  BY <1>1 DEF Inv, Typed
<1>4. Typed'
  BY <1>1, <1>2, <1>3 DEF Inv, Typed
<1>5. Rest'
  BY <1>1 DEF Inv, Rest, Targets, OnlyHandlerGoesBack, SlotsKept, InSlot
<1>6. \A m \in fresh' : \A b \in screen'[m] : b \in screen[m]
  BY <1>1, <1>3 DEF Inv, Typed
<1>7. Named'
  BY <1>1, <1>2, <1>6, NamesStay DEF Inv
<1> QED
  BY <1>1, <1>4, <1>5, <1>7 DEF Inv, AsksForItsPath

----------------------------------------------------------------------------
(* Listings that are shown, and transfers.                                 *)

LEMMA RestTyped ==
  /\ AtRest \in Job /\ AtRest.pc = "idle" /\ AtRest.back = None
  /\ /\ [AtRest EXCEPT !.pc = "done"] \in Job
     /\ [AtRest EXCEPT !.pc = "done"].pc = "done"
     /\ [AtRest EXCEPT !.pc = "done"].back = None
  /\ \A m \in Msg :
       /\ [AtRest EXCEPT !.pc = "posted", !.target = m] \in Job
       /\ [AtRest EXCEPT !.pc = "posted", !.target = m].pc = "posted"
       /\ [AtRest EXCEPT !.pc = "posted", !.target = m].back = None
  BY DEF AtRest, Job, JobPC, Folder

LEMMA ErrorNamesNothing ==
  \A b \in ErrorButtons : b \in Button /\ b.saw = None
  BY DEF ErrorButtons, Plain, Button, Verbs

(* What a coroutine leaves when its listing is shown: of its message, the  *)
(* listing that belongs to the dictionary as it is now, or what it was.    *)
LEMMA WhatIsShown ==
  ASSUME Typed, AsksForItsPath, OnlyHandlerGoesBack, NEW r \in Coroutine, Shows(r)
  PROVE  /\ st' \in [path : Folder, entries : Seq(Name), page : Nat,
                     mode : {"browse", "delete"}, mid : Msg]
         /\ st'.mid = st.mid
         /\ IF job[r].got = None
              THEN /\ st'.path = (IF job[r].back = None THEN st.path ELSE job[r].back)
                   /\ (r \in Transfer => st'.path = st.path)
                   /\ st'.entries = st.entries /\ fresh' = {} /\ from' = from
              ELSE /\ st'.path = st.path /\ from' = job[r].asked
                   /\ st'.page < Pages(st'.entries)
         /\ \E m \in Msg :
              /\ m = (IF job[r].got # None /\ r # Handler THEN r ELSE st.mid)
              /\ \A q \in Msg \ {m} : screen'[q] = screen[q]
              /\ screen'[m] \in {screen[m], IF job[r].got = None THEN ErrorButtons
                                     ELSE Listing(st'.path, st'.entries, st'.page, st'.mode)}
              /\ \A q \in fresh' :
                   q = m /\ screen'[m] = Listing(st'.path, st'.entries, st'.page, st'.mode)
         /\ screen' \in [Msg -> SUBSET Button]
<1> DEFINE ok      == job[r].got # None
           entries == IF ok THEN job[r].got ELSE st.entries
           page    == IF ok THEN Page(entries) ELSE st.page
           posts   == ok /\ r # Handler
           m       == IF posts THEN r ELSE st.mid
           buttons == IF ok THEN Listing(st.path, entries, page, st.mode) ELSE ErrorButtons
<1>1. PICK drawn \in BOOLEAN :
        /\ st' = [st EXCEPT !.entries = entries, !.page = page, !.path = PathAfter(r, ok)]
        /\ screen' = IF drawn THEN [screen EXCEPT ![m] = buttons] ELSE screen
        /\ from' = IF ok THEN job[r].asked ELSE from
        /\ fresh' = IF ok /\ drawn THEN {m} ELSE {}
  BY DEF Shows
<1>2. /\ job[r] \in Job /\ m \in Msg /\ entries \in Seq(Name)
      /\ PathAfter(r, ok) \in Folder /\ st.path \in Folder
  BY TypedIds DEF Typed, Job, PathAfter
<1>3. page \in Nat /\ (ok => page < Pages(entries))
  <2>1. st.page \in Nat
    BY DEF Typed
  <2>2. Pages(entries) \in Nat \ {0}
    BY <1>2, PagesArePositive
  <2> HIDE DEF entries
  <2>3. Pages(entries) - 1 \in Nat
    BY <2>2
  <2>4. Page(entries) \in Nat /\ Page(entries) < Pages(entries)
    <3> DEFINE last == Pages(entries) - 1
    <3> PICK p \in Nat : p = st.page
      BY <2>1
    <3>1. Page(entries) = Min({p, last}) /\ last \in Nat /\ last < Pages(entries)
      BY <2>2 DEF Page
    <3> HIDE DEF last
    <3>2. Min({p, last}) \in {p, last} /\ Min({p, last}) <= last
      <4>1. p \in Int /\ last \in Int
        BY <3>1
      <4> QED
        BY <4>1, Extremes
    <3> QED
      BY <2>1, <2>2, <3>1, <3>2
  <2> QED
    BY <2>1, <2>4
<1>4. buttons \in SUBSET Button
  BY <1>2, <1>3, ListingTyped, ErrorNamesNothing
<1>5. /\ st'.path = PathAfter(r, ok) /\ st'.entries = entries /\ st'.page = page
      /\ st'.mode = st.mode /\ st'.mid = st.mid
      /\ st' \in [path : Folder, entries : Seq(Name), page : Nat,
                  mode : {"browse", "delete"}, mid : Msg]
  <2> HIDE DEF entries, page, ok
  <2> QED
    BY <1>1, <1>2, <1>3 DEF Typed
<1>6. /\ PathAfter(r, ok) = IF ok \/ job[r].back = None THEN st.path ELSE job[r].back
      /\ r \in Transfer => job[r].back = None
  BY DEF PathAfter, OnlyHandlerGoesBack
<1>7. /\ screen' \in [Msg -> SUBSET Button]
      /\ \A q \in Msg \ {m} : screen'[q] = screen[q]
      /\ screen'[m] = IF drawn THEN buttons ELSE screen[m]
  <2> HIDE DEF buttons, m, posts
  <2> QED
    BY <1>1, <1>2, <1>4 DEF Typed
<1>8. buttons = IF ~ok THEN ErrorButtons
                ELSE Listing(st'.path, st'.entries, st'.page, st'.mode)
  BY <1>5, <1>6
<1>9. \A q \in fresh' :
        q = m /\ screen'[m] = Listing(st'.path, st'.entries, st'.page, st'.mode)
  BY <1>1, <1>7, <1>8
<1> QED
  BY <1>1, <1>2, <1>3, <1>5, <1>6, <1>7, <1>8, <1>9

LEMMA ShowsKeeps ==
  ASSUME Inv, NEW r \in Coroutine, Shows(r)
  PROVE  Inv'
<1>1. /\ Typed /\ Named /\ AsksForItsPath /\ OnlyHandlerGoesBack /\ Rest
      /\ UNCHANGED <<content, open, inbox, presses, flow>>
      /\ job[r] \in Job
  BY DEF Inv, Rest, Shows, Typed
<1>2. /\ job' \in [Coroutine -> Job]
      /\ \A q \in Coroutine \ {r} : job'[q] = job[q]
      /\ job'[r].pc \in {"idle", "posted", "done"} /\ job'[r].back = None
  <2>1. PICK rec \in Job : /\ job' = [job EXCEPT ![r] = rec]
                           /\ rec.pc \in {"idle", "posted", "done"} /\ rec.back = None
    <3>1. st.mid \in Msg
      BY <1>1 DEF Typed
    <3>2. \/ job' = [job EXCEPT ![r] = AtRest]
          \/ job' = [job EXCEPT ![r] = [AtRest EXCEPT !.pc = "posted", !.target = st.mid]]
          \/ job' = [job EXCEPT ![r] = [AtRest EXCEPT !.pc = "done"]]
      BY DEF Shows
    <3>3. /\ AtRest \in Job /\ AtRest.pc = "idle" /\ AtRest.back = None
          /\ [AtRest EXCEPT !.pc = "done"] \in Job
          /\ [AtRest EXCEPT !.pc = "done"].pc = "done"
          /\ [AtRest EXCEPT !.pc = "done"].back = None
          /\ [AtRest EXCEPT !.pc = "posted", !.target = st.mid] \in Job
          /\ [AtRest EXCEPT !.pc = "posted", !.target = st.mid].pc = "posted"
          /\ [AtRest EXCEPT !.pc = "posted", !.target = st.mid].back = None
      BY <3>1, RestTyped
    <3> QED
      BY <3>2, <3>3
  <2> QED
    BY <1>1, <2>1 DEF Typed
<1>3. Rest' /\ (r # Handler => job'[Handler] = job[Handler])
  <2>1. CASE r = Handler
    BY <1>1, <1>2, <2>1, OnlyHandlerMoves, TypedIds
  <2>2. CASE r \in Transfer
    BY <1>1, <1>2, <2>2, OnlyTransferMoves, TypedIds
  <2> QED
    BY <2>1, <2>2, TypedIds
<1>4. Typed'
  <2>1. from' \in Folder /\ fresh' \subseteq Msg
    BY <1>1, WhatIsShown, TypedIds DEF Typed, Job
  <2> QED
    BY <1>1, <1>2, <2>1, WhatIsShown DEF Typed
<1>5. Named'
  <2>1. CASE job[r].got = None
    BY <1>1, <2>1, WhatIsShown DEF Named
  <2>2. CASE job[r].got # None
    <3> SUFFICES ASSUME NEW m \in fresh', NEW b \in screen'[m]
                 PROVE  NamesPlace(b, st'.path, st'.entries)
      BY DEF Named, NamesPlace
    <3>1. screen'[m] = Listing(st'.path, st'.entries, st'.page, st'.mode)
      BY <1>1, <2>2, WhatIsShown
    <3> QED
      BY <1>4, <3>1, ListingTyped DEF Typed
  <2> QED
    BY <2>1, <2>2
<1>6. AsksForItsPath'
  <2>1. CASE r = Handler
    BY <1>2, <2>1 DEF AsksForItsPath
  <2>2. CASE r \in Transfer
    BY <1>1, <1>3, <2>2, WhatIsShown, TypedIds DEF AsksForItsPath
  <2> QED
    BY <2>1, <2>2, TypedIds
<1> QED
  BY <1>3, <1>4, <1>5, <1>6 DEF Inv


LEMMA ReplacesKeeps ==
  ASSUME Inv, NEW t \in Transfer, Replaces(t)
  PROVE  Inv'
<1>1. /\ UNCHANGED <<content, open, inbox, presses, flow, from, fresh>>
      /\ t \in Msg /\ t \in Coroutine
      /\ st' \in [path : Folder, entries : Seq(Name), page : Nat,
                  mode : {"browse", "delete"}, mid : Msg]
      /\ st'.entries = st.entries /\ st'.path = st.path
  BY TypedIds DEF Replaces, Inv, Typed
<1>2. screen' \in [Msg -> SUBSET Button] /\ \A m \in Msg : screen'[m] \subseteq screen[m]
  BY DEF Replaces, Inv, Typed
<1>3. /\ job' \in [Coroutine -> Job] /\ \A q \in Coroutine \ {t} : job'[q] = job[q]
      /\ job'[t].pc = "done" /\ job'[t].back = None
  <2>1. /\ [AtRest EXCEPT !.pc = "done"] \in Job
        /\ [AtRest EXCEPT !.pc = "done"].pc = "done" /\ [AtRest EXCEPT !.pc = "done"].back = None
    BY <1>1, RestTyped
  <2> QED
    BY <1>1, <2>1 DEF Replaces, Inv, Typed
<1>4. Rest' /\ job'[Handler] = job[Handler]
  BY <1>3, OnlyTransferMoves DEF Inv
<1>5. Typed'
  BY <1>1, <1>2, <1>3 DEF Inv, Typed
<1>6. Named'
  <2>1. \A m \in fresh' : \A b \in screen'[m] : b \in screen[m]
    BY <1>1, <1>2 DEF Inv, Typed
  <2> QED
    BY <1>1, <2>1, NamesStay DEF Inv
<1> QED
  BY <1>1, <1>4, <1>5, <1>6 DEF Inv, AsksForItsPath

(* The other steps of a transfer draw nothing and leave the dictionary     *)
(* alone.                                                                  *)
LEMMA QuietKeeps ==
  ASSUME Inv, NEW t \in Transfer, UNCHANGED <<st, screen, inbox, flow, from, fresh>>,
         content' \in [Folder -> SUBSET Name], content'["nowhere"] = {},
         job' \in [Coroutine -> Job], \A q \in Coroutine \ {t} : job'[q] = job[q], Rest'
  PROVE  Inv'
<1>1. job'[Handler] = job[Handler]
  BY TypedIds
<1>2. Typed'
  BY DEF Inv, Typed
<1>3. Named' /\ AsksForItsPath'
  BY <1>1 DEF Inv, Named, NamesPlace, AsksForItsPath
<1> QED
  BY <1>2, <1>3 DEF Inv

LEMMA UploadsKeeps ==
  ASSUME Inv, NEW t \in Transfer, Uploads(t)
  PROVE  Inv'
<1>1. job[t] \in Job /\ job[t].back = None /\ t \in Coroutine
  BY TypedIds DEF Inv, Typed, Rest, OnlyHandlerGoesBack
<1>2. job' = [job EXCEPT ![t] = [@ EXCEPT !.pc = "waiting", !.kind = "upload"]]
  BY <1>1 DEF Uploads, Inv, Typed
<1>3. job'[t] \in Job /\ job'[t].pc = "waiting" /\ job'[t].back = None
  BY <1>1, <1>2 DEF Inv, Typed, Job, JobPC
<1>4. job' \in [Coroutine -> Job] /\ \A q \in Coroutine \ {t} : job'[q] = job[q]
  BY <1>1, <1>2, <1>3 DEF Inv, Typed
<1>5. Rest'
  BY <1>3, <1>4, OnlyTransferMoves DEF Inv
<1> QED
  BY <1>4, <1>5, QuietKeeps DEF Uploads, Inv, Typed

LEMMA MovesKeeps ==
  ASSUME Inv, NEW t \in Transfer, Moves(t)
  PROVE  Inv'
<1>1. /\ job[t] \in Job /\ job[t].back = None /\ t \in Coroutine
      /\ job[t].pc = "waiting"
  BY TypedIds DEF Inv, Typed, Rest, OnlyHandlerGoesBack, Moves
<1>2. PICK pc \in {"fetching", "moving"} :
        /\ job' = [job EXCEPT ![t].pc = pc]
        /\ pc = "moving" => job[t].kind # "upload"
  BY DEF Moves
<1>3. /\ job'[t] \in Job /\ job'[t].pc = pc /\ job'[t].back = None
      /\ job'[t].kind = job[t].kind
  BY <1>1, <1>2 DEF Inv, Typed, Job, JobPC
<1>4. job' \in [Coroutine -> Job] /\ \A q \in Coroutine \ {t} : job'[q] = job[q]
  BY <1>1, <1>2, <1>3 DEF Inv, Typed
<1>5. SlotsKept'
  <2>1. InSlot' = InSlot \cup {t} /\ t \notin InSlot
    BY <1>1, <1>3, <1>4, TypedIds DEF InSlot
  <2>2. IsFiniteSet(InSlot) /\ Cardinality(InSlot) \in Nat
    BY TypedIds, FS_Subset, FS_CardinalityType DEF InSlot
  <2>3. Cardinality(InSlot') = Cardinality(InSlot) + 1
    BY <2>1, <2>2, FS_AddElement
  <2> QED
    BY <2>2, <2>3, SftpAssumption DEF SlotsKept, Moves, SlotFree
<1>6. Rest'
  BY <1>2, <1>3, <1>4, <1>5, TypedIds DEF Inv, Rest, Targets, OnlyHandlerGoesBack
<1> QED
  BY <1>4, <1>6, QuietKeeps DEF Moves, Inv, Typed

LEMMA FetchesKeeps ==
  ASSUME Inv, NEW t \in Transfer, Fetches(t)
  PROVE  Inv'
<1>1. /\ job[t] \in Job /\ job[t].back = None /\ t \in Coroutine /\ st.path \in Folder
      /\ job[t].pc = "fetching"
  BY TypedIds DEF Inv, Typed, Rest, OnlyHandlerGoesBack, Fetches
<1>2. CASE job' = [job EXCEPT ![t].pc = "moved"]
  <2>1. job'[t] \in Job /\ job'[t].pc = "moved" /\ job'[t].back = None
    BY <1>1, <1>2 DEF Inv, Typed, Job, JobPC
  <2>2. job' \in [Coroutine -> Job] /\ \A q \in Coroutine \ {t} : job'[q] = job[q]
    BY <1>1, <1>2, <2>1 DEF Inv, Typed
  <2>3. Rest'
    BY <2>1, <2>2, OnlyTransferMoves DEF Inv
  <2> QED
    BY <2>2, <2>3, QuietKeeps DEF Fetches, Inv, Typed
<1>3. ASSUME NEW f \in Files,
             job' = [job EXCEPT ![t].pc = "moving", ![t].target = <<st.path, f>>]
      PROVE  Inv'
  <2>1. <<st.path, f>> \in Folder \X Name
    BY <1>1 DEF Name
  <2>2. job' = [job EXCEPT ![t] = [@ EXCEPT !.pc = "moving", !.target = <<st.path, f>>]]
    BY <1>1, <1>3 DEF Inv, Typed, Job
  <2>3. /\ job'[t] \in Job /\ job'[t].pc = "moving" /\ job'[t].back = None
        /\ job'[t].target \in Folder \X Name
    BY <1>1, <2>1, <2>2 DEF Inv, Typed, Job, JobPC
  <2>4. job' \in [Coroutine -> Job] /\ \A q \in Coroutine \ {t} : job'[q] = job[q]
    BY <1>1, <2>2, <2>3 DEF Inv, Typed
  <2>5. InSlot' = InSlot
    BY <1>1, <2>3, <2>4, TypedIds DEF InSlot
  <2>6. Rest'
    BY <2>3, <2>4, <2>5, TypedIds
       DEF Inv, Rest, Targets, OnlyHandlerGoesBack, SlotsKept
  <2> QED
    BY <2>4, <2>6, QuietKeeps DEF Fetches, Inv, Typed
<1> QED
  BY <1>2, <1>3 DEF Fetches, AfterMove

LEMMA ArrivesKeeps ==
  ASSUME Inv, NEW t \in Transfer, Arrives(t)
  PROVE  Inv'
<1>1. /\ job[t] \in Job /\ job[t].back = None /\ t \in Coroutine /\ job[t].pc = "moving"
      /\ job[t].kind = "upload" => job[t].target \in Folder \X Name
      /\ job' = [job EXCEPT ![t] = [@ EXCEPT !.pc = "moved"]]
  BY TypedIds DEF Inv, Typed, Rest, Targets, OnlyHandlerGoesBack, Arrives, AfterMove
<1>2. job'[t] \in Job /\ job'[t].pc = "moved" /\ job'[t].back = None
  BY <1>1 DEF Inv, Typed, Job, JobPC
<1>3. job' \in [Coroutine -> Job] /\ \A q \in Coroutine \ {t} : job'[q] = job[q]
  BY <1>1, <1>2 DEF Inv, Typed
<1>4. Rest'
  BY <1>2, <1>3, OnlyTransferMoves DEF Inv
<1>5. content' \in [Folder -> SUBSET Name] /\ content'["nowhere"] = {}
  <2>1. CASE UNCHANGED content
    BY <2>1 DEF Inv, Typed
  <2>2. ASSUME job[t].kind = "upload", Exists(job[t].target[1]),
               content' = [content EXCEPT ![job[t].target[1]] = @ \cup {job[t].target[2]}]
        PROVE  content' \in [Folder -> SUBSET Name] /\ content'["nowhere"] = {}
    <3>1. /\ job[t].target[1] \in Folder /\ job[t].target[2] \in Name
          /\ job[t].target[1] # "nowhere"
      BY <1>1, <2>2 DEF Exists
    <3> QED
      BY <2>2, <3>1 DEF Inv, Typed, Folder
  <2> QED
    BY <2>1, <2>2 DEF Arrives
<1> QED
  BY <1>3, <1>4, <1>5, QuietKeeps DEF Arrives

LEMMA FinishesKeeps ==
  ASSUME Inv, NEW t \in Transfer, Finishes(t)
  PROVE  Inv'
<1>1. t \in Coroutine /\ t \in Msg /\ st.path \in Folder
  BY TypedIds DEF Inv, Typed
<1>2. /\ job' \in [Coroutine -> Job] /\ \A q \in Coroutine \ {t} : job'[q] = job[q]
      /\ job'[t].pc \in {"listing", "done"} /\ job'[t].back = None
  <2>1. CASE Asks(t, st.path, None)
    BY <1>1, <2>1, AsksFor DEF Inv
  <2>2. CASE job' = [job EXCEPT ![t] = [AtRest EXCEPT !.pc = "done"]]
    <3>1. /\ [AtRest EXCEPT !.pc = "done"] \in Job
          /\ [AtRest EXCEPT !.pc = "done"].pc = "done" /\ [AtRest EXCEPT !.pc = "done"].back = None
      BY <1>1, RestTyped
    <3> QED
      BY <1>1, <2>2, <3>1 DEF Inv, Typed
  <2> QED
    BY <2>1, <2>2 DEF Finishes
<1>3. Rest'
  BY <1>2, OnlyTransferMoves DEF Inv
<1> QED
  BY <1>2, <1>3, QuietKeeps DEF Finishes, Inv, Typed


----------------------------------------------------------------------------
(* The theorems.                                                           *)

LEMMA InitHolds == Init => Inv
<1> SUFFICES ASSUME Init
             PROVE  Inv
  OBVIOUS
<1> PICK mode \in {"browse", "delete"} :
      st = [path |-> "top", entries |-> SortedContent("top"), page |-> 0,
            mode |-> mode, mid |-> First]
  BY DEF Init
<1>1. content \in [Folder -> SUBSET Name] /\ content["nowhere"] = {}
  BY SftpAssumption DEF Init
<1>2. st \in [path : Folder, entries : Seq(Name), page : Nat,
              mode : {"browse", "delete"}, mid : Msg]
  BY <1>1, SortedContentTyped, TypedIds DEF Folder
<1>3. /\ Listing("top", st.entries, 0, st.mode) \in SUBSET Button
      /\ \A b \in Listing("top", st.entries, 0, st.mode) : NamesPlace(b, st.path, st.entries)
  BY <1>2, ListingTyped DEF Folder
<1>4. screen \in [Msg -> SUBSET Button]
  BY <1>3 DEF Init
<1>5. job \in [Coroutine -> Job] /\ \A r \in Coroutine : job[r].pc \in {"idle", "none"}
                                                      /\ job[r].back = None
  <2>1. /\ [AtRest EXCEPT !.pc = "none"] \in Job /\ [AtRest EXCEPT !.pc = "none"].pc = "none"
        /\ [AtRest EXCEPT !.pc = "none"].back = None
    BY DEF AtRest, Job, JobPC, Folder
  <2> QED
    BY <2>1, RestTyped DEF Init
<1>6. Typed
  <2>1. inbox \in Seq(Update) /\ flow \in Msg \cup {None} /\ from \in Folder /\ fresh \subseteq Msg
    BY TypedIds DEF Init, Folder
  <2> QED
    BY <1>1, <1>2, <1>4, <1>5, <2>1 DEF Typed
<1>7. Rest
  <2>1. InSlot = {}
    BY <1>5, TypedIds DEF InSlot
  <2>2. SlotsKept
    BY <2>1, FS_EmptySet, SftpAssumption DEF SlotsKept
  <2> QED
    BY <1>5, <2>2, TypedIds DEF Rest, Targets, OnlyHandlerGoesBack
<1>8. Named /\ AsksForItsPath
  BY <1>3, <1>5, TypedIds DEF Init, Named, AsksForItsPath
<1> QED
  BY <1>6, <1>7, <1>8 DEF Inv

LEMMA StepKeeps == Inv /\ [Next]_vars => Inv'
<1> SUFFICES ASSUME Inv, [Next]_vars
             PROVE  Inv'
  OBVIOUS
<1>1. CASE HandlerStep
  BY <1>1, OnlyTakesKeeps, NavigatesKeeps, ListsAgainKeeps, ChangesFolderKeeps, DownloadsKeeps,
     AsksToDeleteKeeps, DeletesKeeps, RemovesKeeps, ListsAfterChangeKeeps,
     AsksForNameKeeps, LeavesKeeps, ShowsKeeps, TypedIds
     DEF HandlerStep
<1>2. CASE MakesFolder
  BY <1>2, MakesFolderKeeps
<1>7. CASE RefusesName
  BY <1>7, RefusesNameKeeps
<1>3. CASE Closes
  BY <1>3, ClosesKeeps DEF Closes
<1>4. ASSUME NEW m \in Msg, Press(m)
      PROVE  Inv'
  BY <1>4, PressKeeps
<1>5. ASSUME NEW t \in Transfer, Uploads(t) \/ TransferStep(t)
      PROVE  Inv'
  BY <1>5, UploadsKeeps, MovesKeeps, FetchesKeeps, ArrivesKeeps, FinishesKeeps, ShowsKeeps,
     ReplacesKeeps, TypedIds
     DEF TransferStep
<1>6. CASE UNCHANGED vars
  BY <1>6, ClosesKeeps DEF vars
<1> QED
  BY <1>1, <1>2, <1>3, <1>4, <1>5, <1>6, <1>7 DEF Next

(* The invariant: the buttons of messages drawn from the present listing   *)
(* name what is at their places in it, and the handler asks for the folder *)
(* that will still be in path when the answer is there (sftp.py:50-81).    *)
THEOREM SftpInvariant == Spec => []Inv
<1> QED
  BY InitHolds, StepKeeps, PTL DEF Spec

(* The types of the state dictionary (sftp.py:87-90) and of what the       *)
(* coroutines hold, and the bound on transfers at once (sftp.py:34-46).    *)
THEOREM SftpTypeCorrect == Spec => []TypeOK
<1>1. Inv => TypeOK
  BY DEF Inv, Typed, Rest, SlotsKept, TypeOK, Button, Job
<1> QED
  BY <1>1, SftpInvariant, PTL


(* A transfer leaves the handler's job alone. *)
LEMMA TransfersLeaveHandler ==
  ASSUME Typed, NEW t \in Transfer, Uploads(t) \/ TransferStep(t)
  PROVE  job'[Handler] = job[Handler]
<1>1. t \in Coroutine /\ t # Handler /\ Handler \in Coroutine /\ job \in [Coroutine -> Job]
  BY TypedIds DEF Typed
<1> QED
  BY <1>1 DEF Uploads, TransferStep, Moves, Fetches, Arrives, Finishes, Shows, Replaces, Asks

(* A step that ends a listing of the handler is its Shows. *)
LEMMA OnlyShowsEndsListing ==
  ASSUME Typed, [Next]_vars, job[Handler].pc = "listing", ~Shows(Handler)
  PROVE  job'[Handler] = job[Handler]
<1>1. CASE HandlerStep
  BY <1>1 DEF HandlerStep, Blocked, OnlyTakes, Navigates, ListsAgain, ChangesFolder, Downloads, AsksToDelete,
              Deletes, RemovesThenLists, ListsAfterChange, AsksForName, Leaves, Takes,
              HandlerFree
<1>2. CASE MakesFolder \/ RefusesName \/ Closes \/ (\E m \in Msg : Press(m)) \/ UNCHANGED vars
  BY <1>2 DEF MakesFolder, RefusesName, HandlerFree, Closes, Press, vars
<1>3. ASSUME NEW t \in Transfer, Uploads(t) \/ TransferStep(t)
      PROVE  job'[Handler] = job[Handler]
  BY <1>3, TransfersLeaveHandler
<1> QED
  BY <1>1, <1>2, <1>3 DEF Next

(* A button of a message that shows the present listing, or asks about one *)
(* of its files, acts on the file that its label or question names, on     *)
(* every page and in both modes (sftp.py:143-170, keyboards.py:156-165).   *)
THEOREM ButtonsAlwaysDoWhatTheySay == Spec => ButtonsDoWhatTheySay
<1>1. Inv =>
        (/\ inbox # <<>> /\ inbox' = Tail(inbox) /\ open
         /\ Here \in fresh /\ Pressed \in screen[Here] /\ Pressed.saw # None
         => Known(Pressed.arg) /\ File(Pressed.arg) = Pressed.saw)
  <2> SUFFICES ASSUME Inv, Here \in fresh, Pressed \in screen[Here], Pressed.saw # None
               PROVE  Known(Pressed.arg) /\ File(Pressed.arg) = Pressed.saw
    OBVIOUS
  <2> QED
    BY DEF Inv, Named, NamesPlace, Known, File
<1> QED
  BY <1>1, SftpInvariant, PTL DEF ButtonsDoWhatTheySay

(* When the handler has listed a folder, the entries are of the folder in  *)
(* path and the page exists, whatever transfers listed meanwhile; the      *)
(* current message shows just that, or what it showed before, for the      *)
(* result of the edit is not looked at (sftp.py:50-81, 151-155).           *)
THEOREM HandlerAlwaysShowsItsFolder == Spec => HandlerShowsItsFolder
<1>1. ASSUME Inv, [Next]_vars,
             job[Handler].pc = "listing", job'[Handler].pc = "idle", job[Handler].got # None
      PROVE  /\ from' = st'.path
             /\ st'.page < Pages(st'.entries)
             /\ screen'[st'.mid] \in
                  {screen[st'.mid], Listing(st'.path, st'.entries, st'.page, st'.mode)}
  <2>1. Shows(Handler)
    BY <1>1, OnlyShowsEndsListing DEF Inv
  <2> QED
    BY <1>1, <2>1, WhatIsShown, TypedIds DEF Inv, Rest, AsksForItsPath
<1>2. Inv /\ [Next]_vars =>
        [job[Handler].pc = "listing" /\ job'[Handler].pc = "idle" /\ job[Handler].got # None
           => /\ from' = st'.path
              /\ st'.page < Pages(st'.entries)
              /\ screen'[st'.mid] \in
                  {screen[st'.mid], Listing(st'.path, st'.entries, st'.page, st'.mode)}]_vars
  BY <1>1
<1> QED
  BY <1>2, SftpInvariant, PTL DEF HandlerShowsItsFolder, Spec

(* While no listing is stored the entries stay those of from; the path is *)
(* changed only by a handler that lists the new one.                       *)
LEMMA OthersMixNothing ==
  ASSUME Inv, [Next]_vars, \A r \in Coroutine : ~Shows(r), Mixed'
  PROVE  Mixed
<1>1. job \in [Coroutine -> Job] /\ Handler \in Coroutine /\ st.path \in Folder
      /\ None \notin Folder
  BY TypedIds DEF Inv, Typed
<1>2. CASE job'[Handler] = job[Handler] /\ from' = from /\ st'.path = st.path
  BY <1>2 DEF Mixed
<1>3. ASSUME from' = from, NEW path \in Folder, Asks(Handler, path, None)
      PROVE  Mixed
  BY <1>3, AsksFor, TypedIds DEF Inv, Mixed
<1>4. CASE ChangesFolder
  <2>1. job'[Handler].pc = "listing" /\ job'[Handler].back = st.path
    <3>1. Asks(Handler, st'.path, st.path) /\ st'.path \in Folder
      BY <1>4 DEF ChangesFolder, Enter, Folder, Inv, Typed
    <3> QED
      BY <1>1, <3>1, AsksFor DEF Inv
  <2>2. from' = from /\ job[Handler].pc = "idle"
    BY <1>4 DEF ChangesFolder, Takes, HandlerFree
  <2> QED
    BY <2>1, <2>2 DEF Mixed
<1>5. CASE Navigates
  <2>1. Asks(Handler, st'.path, None) /\ st'.path \in Folder /\ from' = from
    <3>1. Pressed.verb \in {"rf", "pg", "up", "dm"} /\ st' = Moved(Pressed) /\ from' = from
      BY <1>5 DEF Navigates, Takes, Pressed
    <3>2. st'.path \in {st.path, "top"}
      BY <3>1 DEF Moved, Inv, Typed
    <3> QED
      BY <1>1, <1>5, <3>1, <3>2 DEF Navigates, Folder
  <2> QED
    BY <1>3, <2>1
<1>6. CASE ListsAgain \/ ListsAfterChange
  <2>1. Asks(Handler, st.path, None) /\ from' = from
    BY <1>6 DEF ListsAgain, ListsAfterChange, Takes
  <2> QED
    BY <1>1, <1>3, <2>1
<1>7. CASE Deletes \/ RemovesThenLists \/ MakesFolder
  <2>1. from' = from /\ st'.path = st.path
    BY <1>7 DEF Deletes, RemovesThenLists, MakesFolder, Takes, Inv, Typed
  <2>2. job[Handler].pc # "listing"
    BY <1>7 DEF Deletes, RemovesThenLists, MakesFolder, Takes, HandlerFree
  <2>3. job'[Handler].pc # "listing"
    BY <1>1, <1>7, <2>2 DEF Deletes, RemovesThenLists, MakesFolder, Job
  <2> QED
    BY <2>1, <2>2, <2>3 DEF Mixed
<1>8. CASE Downloads
  <2>1. from' = from /\ st'.path = st.path
    BY <1>8 DEF Downloads, Takes, Inv, Typed
  <2>2. job'[Handler] = job[Handler]
    BY <1>1, <1>8, TypedIds DEF Downloads
  <2> QED
    BY <1>2, <2>1, <2>2
<1>9. CASE Blocked \/ OnlyTakes \/ AsksToDelete \/ AsksForName \/ RefusesName \/ Leaves
  BY <1>2, <1>9
     DEF Blocked, OnlyTakes, AsksToDelete, AsksForName, RefusesName, Leaves, Takes, Inv, Typed
<1>10. CASE Closes \/ (\E m \in Msg : Press(m)) \/ UNCHANGED vars
  BY <1>2, <1>10 DEF Closes, Press, vars
<1>11. ASSUME NEW t \in Transfer, Uploads(t) \/ TransferStep(t)
       PROVE  Mixed
  <2>1. job'[Handler] = job[Handler]
    BY <1>11, TransfersLeaveHandler DEF Inv
  <2>2. from' = from /\ st'.path = st.path
    BY <1>11, TypedIds DEF Uploads, TransferStep, Moves, Fetches, Arrives, Finishes, Replaces, Inv, Typed
  <2> QED
    BY <1>2, <2>1, <2>2
<1>12. ~Shows(Handler)
  BY <1>1
<1> QED
  BY <1>4, <1>5, <1>6, <1>7, <1>8, <1>9, <1>10, <1>11, <1>12 DEF Next, HandlerStep

(* The entries come under another path only when a transfer stores its     *)
(* listing, or a listing of the handler fails that, unlike the one of cd,  *)
(* does not go back (sftp.py:50-81, 133-136, 151-155).                     *)
THEOREM EntriesAlwaysMixOnlyByTransfers == Spec => EntriesMixOnlyByTransfers
<1> DEFINE Exception ==
      \/ \E t \in Transfer : job[t].got # None /\ job'[t].got = None
      \/ job[Handler].pc = "listing" /\ job[Handler].got = None /\ job[Handler].back = None
<1>1. ASSUME Inv, [Next]_vars, ~Mixed, Mixed'
      PROVE  Exception
  <2>1. PICK r \in Coroutine : Shows(r)
    BY <1>1, OthersMixNothing
  <2>2. /\ job[r].pc = "listing" /\ job \in [Coroutine -> Job] /\ st.path \in Folder
        /\ None \notin Folder
    <3>1. job[r].pc = "listing"
      BY <2>1 DEF Shows
    <3>2. job \in [Coroutine -> Job] /\ st.path \in Folder
      BY <1>1 DEF Inv, Typed
    <3> QED
      BY <3>1, <3>2, TypedIds
  <2>3. CASE r = Handler
    <3>1. job'[Handler].pc = "idle"
      BY <2>1, <2>2, <2>3, TypedIds DEF Shows, AtRest
    <3>2. from' # st'.path
      BY <1>1, <3>1 DEF Mixed
    <3>3. job[Handler].got = None
      <4>1. job[Handler].asked = st.path
        BY <1>1, <2>2, <2>3 DEF Inv, AsksForItsPath
      <4>2. job[Handler].got # None => from' = job[Handler].asked /\ st'.path = st.path
        BY <1>1, <2>1, <2>3, WhatIsShown DEF Inv, Rest
      <4> QED
        BY <3>2, <4>1, <4>2
    <3>4. job[Handler].back = None
      BY <1>1, <2>1, <2>2, <2>3, <3>2, <3>3, WhatIsShown DEF Inv, Rest, Mixed
    <3> QED
      BY <2>2, <2>3, <3>3, <3>4
  <2>4. CASE r \in Transfer /\ job[r].got # None
    <3>1. job'[r].got = None
      BY <2>1, <2>2, <2>4, TypedIds DEF Shows, AtRest
    <3> QED
      BY <2>4, <3>1
  <2>5. CASE r \in Transfer /\ job[r].got = None
    <3>1. job'[Handler] = job[Handler]
      <4>1. Typed /\ TransferStep(r)
        BY <1>1, <2>1 DEF Inv, TransferStep
      <4> QED
        BY <2>5, <4>1, TransfersLeaveHandler
    <3>2. from' = from /\ st'.path = st.path
      BY <1>1, <2>1, <2>5, WhatIsShown DEF Inv, Rest
    <3> QED
      BY <1>1, <3>1, <3>2 DEF Mixed
  <2> QED
    BY <2>3, <2>4, <2>5, TypedIds
<1>2. Inv /\ [Next]_vars => [~Mixed /\ Mixed' => Exception]_vars
  BY <1>1
<1> QED
  BY <1>2, SftpInvariant, PTL DEF EntriesMixOnlyByTransfers, Spec

=============================================================================
