----------------------------- MODULE Hosts_proofs -----------------------------
(***************************************************************************)
(* What Hosts says of limits, groups and keys, for any number of messages, *)
(* addresses, keys and rows.  The keys need the longest argument: a copy   *)
(* of the row travels with the connect task and another with the prompt,   *)
(* and the invariant Copies says what is still true of them.               *)
(***************************************************************************)
EXTENDS Hosts, FiniteSetTheorems, TLAPS

TaskRecord == [host : HostId, addr : Addr, stored : Key \cup {None}, msg : Msg,
               asks : BOOLEAN]
PromptRecord == [host : HostId, addr : Addr, key : Key]

Types ==
  /\ hosts \in [HostId -> Host \cup {None}] /\ hostIds \in 0 .. MaxHosts
  /\ groupIds \in 0 .. MaxGroupIds /\ groups \in SUBSET (1 .. groupIds)
  /\ task # None => task \in TaskRecord
  /\ prompt # None => prompt \in PromptRecord
  /\ flow # None /\ flow.type = "edit_host" => flow.host \in HostId

(* A name was asked for only below the limit. *)
Limited ==
  /\ IsFiniteSet(groups) /\ snippets \in Nat
  /\ Cardinality(groups) <= MAX_GROUPS /\ snippets <= MAX_SNIPPETS
  /\ flow # None /\ flow.type = "grp_add" => Cardinality(groups) < MAX_GROUPS
  /\ flow # None /\ flow.type \in {"snip_name", "snip_cmd"} => snippets < MAX_SNIPPETS

-----------------------------------------------------------------------------
(* Limits.                                                                 *)

(* The flow that adds is started below the limit and ends with what it     *)
(* adds: no step between the two adds anything.                            *)
LEMMA LimitedStep == Limited /\ [Next]_vars => Limited'
<1> SUFFICES ASSUME Limited, [Next]_vars
             PROVE  Limited'
  OBVIOUS
<1> USE HostsAssumption DEF Limited
<1>1. ASSUME UNCHANGED <<groups, snippets>>, flow' \in {flow, None}
      PROVE  Limited'
  BY <1>1
<1>2. ASSUME NEW h \in HostId, NEW field, AsksField(h, field)
      PROVE  Limited'
  BY <1>2 DEF AsksField, Data
<1>3. CASE AsksGroup
  <2>1. UNCHANGED <<groups, snippets>>
    BY <1>3 DEF AsksGroup, Data
  <2>2. Cardinality(groups) \in Nat
    BY FS_CardinalityType
  <2>3. /\ flow' # None => Cardinality(groups) < MAX_GROUPS
        /\ flow' # None => flow'.type = "grp_add"
    BY <1>3, <2>2 DEF AsksGroup
  <2> QED
    BY <2>1, <2>3
<1>4. CASE AsksSnippet
  <2>1. UNCHANGED <<groups, snippets>>
    BY <1>4 DEF AsksSnippet, Data
  <2>2. /\ flow' # None => snippets < MAX_SNIPPETS
        /\ flow' # None => flow'.type = "snip_name"
    BY <1>4 DEF AsksSnippet
  <2> QED
    BY <2>1, <2>2
<1>5. CASE AddsGroup
  <2>1. flow.type = "grp_add" /\ flow # None /\ flow' = None /\ snippets' = snippets
    BY <1>5 DEF AddsGroup, AfterText
  <2>2. groups' = groups \cup {groupIds'}
    BY <1>5 DEF AddsGroup
  <2>3. /\ IsFiniteSet(groups') /\ Cardinality(groups) \in Nat
        /\ Cardinality(groups') \in {Cardinality(groups), Cardinality(groups) + 1}
    BY <2>2, FS_AddElement, FS_CardinalityType
  <2> QED
    BY <2>1, <2>3
<1>6. CASE WritesSnippet
  <2>1. groups' = groups
    BY <1>6 DEF WritesSnippet
  <2>2. CASE flow.type = "snip_name"
    BY <1>6, <2>1, <2>2 DEF WritesSnippet, AfterText
  <2>3. CASE flow.type = "snip_cmd"
    BY <1>6, <2>1, <2>3 DEF WritesSnippet, AfterText
  <2> QED
    BY <1>6, <2>2, <2>3 DEF WritesSnippet
<1>7. ASSUME NEW g \in GroupId, DeletesGroup(g)
      PROVE  Limited'
  <2>1. groups' = groups \ {g} /\ flow' = None /\ snippets' = snippets
    BY <1>7 DEF DeletesGroup
  <2>2. /\ IsFiniteSet(groups') /\ Cardinality(groups') \in Nat
        /\ Cardinality(groups') <= Cardinality(groups) /\ Cardinality(groups) \in Nat
    BY <2>1, FS_Subset, FS_CardinalityType
  <2> QED
    BY <2>1, <2>2
<1>8. CASE DeletesSnippet
  BY <1>8 DEF DeletesSnippet
<1>9. CASE \/ Edits \/ ShowsPrompt \/ Fails \/ Reboots \/ Elsewhere
           \/ \E a \in Addr : AddsHost(a)
           \/ \E h \in HostId : \/ DeletesHost(h)
                                \/ \E g \in 0 .. groupIds : SetsGroup(h, g)
                                \/ \E m \in Msg : Connects(m, h)
           \/ \E key \in Key : Trusted(key) \/ Untrusted(key)
           \/ \E m \in Msg : Cancels(m) \/ Accepts(m) \/ Refuses(m)
           \/ UNCHANGED vars
  <2>1. UNCHANGED <<groups, snippets>> /\ flow' \in {flow, None}
    BY <1>9 DEF Elsewhere, Edits, ShowsPrompt, Fails, Reboots, AddsHost, DeletesHost,
                SetsGroup, Connects, Trusted, Untrusted, Cancels, Accepts, Refuses,
                Data, vars
  <2> QED
    BY <1>1, <2>1
<1> QED
  BY <1>2, <1>3, <1>4, <1>5, <1>6, <1>7, <1>8, <1>9 DEF Next

(* However long a flow stays open, the limits of groups and snippets hold  *)
(* when its text comes: nothing is added while it is open.                 *)
THEOREM LimitsAlwaysHold == Spec => []LimitsHold
<1>1. Init => Limited
  <2>1. IsFiniteSet({}) /\ Cardinality({}) = 0
    BY FS_EmptySet
  <2> QED
    BY <2>1, HostsAssumption DEF Init, Limited
<1>2. Limited => LimitsHold
  BY DEF Limited, LimitsHold
<1> QED
  BY <1>1, <1>2, LimitedStep, PTL DEF Spec

-----------------------------------------------------------------------------
(* Types, and the groups of the rows.                                      *)

(* The rows stay rows whatever the step does to them. *)
LEMMA RowsStep ==
  ASSUME Types, [Next]_vars
  PROVE  hosts' \in [HostId -> Host \cup {None}]
<1> USE HostsAssumption DEF Types
<1>1. ASSUME NEW h \in HostId, NEW row \in Host \cup {None},
             hosts' = [hosts EXCEPT ![h] = row]
      PROVE  hosts' \in [HostId -> Host \cup {None}]
  BY <1>1
<1>2. ASSUME NEW a \in Addr, AddsHost(a)
      PROVE  hosts' \in [HostId -> Host \cup {None}]
  <2>1. hostIds' \in HostId
    BY <1>2 DEF AddsHost, HostId
  <2>2. [addr |-> a, key |-> None, group |-> None] \in Host
    BY DEF Host
  <2> QED
    BY <1>1, <1>2, <2>1, <2>2 DEF AddsHost
<1>3. CASE Edits
  <2>1. CASE hosts' = hosts
    BY <2>1
  <2>2. CASE hosts' # hosts
    <3>1. flow.host \in HostId /\ hosts[flow.host] # None
      BY <1>3, <2>2 DEF Edits
    <3>2. PICK a \in Addr : hosts' = [hosts EXCEPT ![flow.host] = AtAddress(@, a)]
      BY <1>3, <2>2 DEF Edits
    <3>3. hosts[flow.host] \in Host
      BY <3>1
    <3>4. AtAddress(hosts[flow.host], a) \in Host
      BY <3>3 DEF AtAddress, Host
    <3> QED
      BY <1>1, <3>1, <3>2, <3>4
  <2> QED
    BY <2>1, <2>2
<1>4. ASSUME NEW h \in HostId, DeletesHost(h)
      PROVE  hosts' \in [HostId -> Host \cup {None}]
  BY <1>1, <1>4 DEF DeletesHost
<1>5. ASSUME NEW h \in HostId, NEW g \in 0 .. groupIds, SetsGroup(h, g)
      PROVE  hosts' \in [HostId -> Host \cup {None}]
  <2>1. hosts[h] \in Host
    BY <1>5 DEF SetsGroup
  <2>2. (IF g = 0 THEN None ELSE g) \in GroupId \cup {None}
    BY DEF GroupId
  <2>3. [hosts[h] EXCEPT !.group = IF g = 0 THEN None ELSE g] \in Host
    BY <2>1, <2>2 DEF Host
  <2> QED
    BY <1>1, <1>5, <2>3 DEF SetsGroup
<1>6. ASSUME NEW g \in GroupId, DeletesGroup(g)
      PROVE  hosts' \in [HostId -> Host \cup {None}]
  <2>1. ASSUME NEW h \in HostId, hosts[h] \in Host
        PROVE  [hosts[h] EXCEPT !.group = None] \in Host
    BY <2>1 DEF Host
  <2>2. ASSUME NEW h \in HostId
        PROVE  (IF h \in Stored /\ hosts[h].group = g
                  THEN [hosts[h] EXCEPT !.group = None] ELSE hosts[h]) \in Host \cup {None}
    BY <2>1 DEF Stored
  <2> QED
    BY <1>6, <2>2 DEF DeletesGroup
<1>7. ASSUME NEW m \in Msg, Accepts(m)
      PROVE  hosts' \in [HostId -> Host \cup {None}]
  <2>1. CASE hosts' = hosts
    BY <2>1
  <2>2. CASE hosts' # hosts
    <3>1. /\ prompt # None /\ hosts[prompt.host] # None
          /\ hosts' = [hosts EXCEPT ![prompt.host].key = prompt.key]
      BY <1>7, <2>2 DEF Accepts
    <3>2. prompt.host \in HostId /\ prompt.key \in Key
      BY <3>1 DEF PromptRecord
    <3>3. hosts[prompt.host] \in Host
      BY <3>1, <3>2
    <3>4. [hosts[prompt.host] EXCEPT !.key = prompt.key] \in Host
      BY <3>2, <3>3 DEF Host
    <3> QED
      BY <1>1, <3>1, <3>2, <3>4
  <2> QED
    BY <2>1, <2>2
<1>8. CASE \/ AsksGroup \/ AsksSnippet \/ AddsGroup \/ WritesSnippet
           \/ DeletesSnippet \/ ShowsPrompt \/ Fails \/ Reboots \/ Elsewhere
           \/ \E h \in HostId : \/ \E field \in {"addr", "other"} : AsksField(h, field)
                                \/ \E m \in Msg : Connects(m, h)
           \/ \E key \in Key : Trusted(key) \/ Untrusted(key)
           \/ \E m \in Msg : Cancels(m) \/ Refuses(m)
           \/ UNCHANGED vars
  BY <1>8 DEF Elsewhere, AsksGroup, AsksSnippet, AddsGroup, WritesSnippet,
              DeletesSnippet, ShowsPrompt, Fails, Reboots, AsksField, Connects,
              Trusted, Untrusted, Cancels, Refuses, Data, vars
<1> QED
  BY <1>2, <1>3, <1>4, <1>5, <1>6, <1>7, <1>8 DEF Next

LEMMA TypesStep == Types /\ [Next]_vars => Types'
<1> SUFFICES ASSUME Types, [Next]_vars
             PROVE  Types'
  OBVIOUS
<1> USE HostsAssumption
<1>1. hosts' \in [HostId -> Host \cup {None}]
  BY RowsStep
<1>2. hostIds' \in 0 .. MaxHosts
  BY DEF Types, Next, vars, Data, Elsewhere, Edits, AsksField, AsksGroup, AsksSnippet,
         AddsGroup, WritesSnippet, DeletesSnippet, ShowsPrompt, Fails, Reboots, AddsHost,
         DeletesHost, SetsGroup, Connects, DeletesGroup, Trusted, Untrusted, Cancels,
         Accepts, Refuses
<1>3. groupIds' \in 0 .. MaxGroupIds /\ groups' \in SUBSET (1 .. groupIds')
  <2>1. CASE AddsGroup
    BY <2>1 DEF Types, AddsGroup
  <2>2. CASE \E g \in GroupId : DeletesGroup(g)
    BY <2>2 DEF Types, DeletesGroup
  <2>3. CASE UNCHANGED <<groups, groupIds>>
    BY <2>3 DEF Types
  <2> QED
    BY <2>1, <2>2, <2>3
       DEF Next, vars, Data, Elsewhere, Edits, AsksField, AsksGroup, AsksSnippet,
           WritesSnippet, DeletesSnippet, ShowsPrompt, Fails, Reboots, AddsHost,
           DeletesHost, SetsGroup, Connects, Trusted, Untrusted, Cancels, Accepts, Refuses
<1>4. /\ task' # None => task' \in TaskRecord
      /\ prompt' # None => prompt' \in PromptRecord
  <2>1. ASSUME NEW m \in Msg, NEW h \in HostId, Connects(m, h)
        PROVE  task' \in TaskRecord /\ prompt' = None
    <3>1. hosts[h] \in Host
      BY <2>1 DEF Types, Connects
    <3> QED
      BY <2>1, <3>1 DEF Connects, TaskRecord, Host
  <2>2. ASSUME NEW key \in Key, Untrusted(key)
        PROVE  task' \in TaskRecord /\ prompt' \in PromptRecord
    BY <2>2 DEF Types, Untrusted, TaskRecord, PromptRecord
  <2>3. CASE task' \in {task, None} /\ prompt' \in {prompt, None}
    BY <2>3 DEF Types
  <2> QED
    BY <2>1, <2>2, <2>3
       DEF Next, vars, Live, Elsewhere, Edits, AsksField, AsksGroup, AsksSnippet,
           AddsGroup, WritesSnippet, DeletesSnippet, ShowsPrompt, Fails, Reboots,
           AddsHost, DeletesHost, SetsGroup, DeletesGroup, Trusted, Cancels, Accepts,
           Refuses
<1>5. flow' # None /\ flow'.type = "edit_host" => flow'.host \in HostId
  <2>1. ASSUME NEW h \in HostId, NEW field, AsksField(h, field)
        PROVE  flow'.host \in HostId
    BY <2>1 DEF AsksField
  <2>2. flow' \in {flow, None} \/ flow'.type \in {"grp_add", "snip_name", "snip_cmd"}
        \/ \E h \in HostId, field \in {"addr", "other"} : AsksField(h, field)
    BY DEF Next, vars, Elsewhere, Edits, AsksGroup, AsksSnippet, AddsGroup, WritesSnippet,
           DeletesSnippet, ShowsPrompt, Fails, Reboots, AddsHost, DeletesHost, SetsGroup,
           Connects, DeletesGroup, Trusted, Untrusted, Cancels, Accepts, Refuses, AfterText
  <2> QED
    BY <2>1, <2>2 DEF Types
<1> QED
  BY <1>1, <1>2, <1>3, <1>4, <1>5 DEF Types

LEMMA TypesAtFirst == Init => Types
BY HostsAssumption DEF Init, Types

(* What an action does to a row, its group aside, does not matter here.    *)
LEMMA GroupsStep == Types /\ GroupsExist /\ [Next]_vars => GroupsExist'
<1> SUFFICES ASSUME Types, GroupsExist, [Next]_vars, NEW h \in HostId, hosts'[h] # None
             PROVE  hosts'[h].group \in groups' \cup {None}
  BY DEF GroupsExist, Stored
<1> USE HostsAssumption
<1>1. ASSUME hosts[h] # None, hosts'[h].group \in {hosts[h].group, None},
             groups \subseteq groups'
      PROVE  hosts'[h].group \in groups' \cup {None}
  BY <1>1 DEF GroupsExist, Stored
<1>2. ASSUME NEW a \in Addr, AddsHost(a)
      PROVE  hosts'[h].group \in groups' \cup {None}
  <2>1. hosts' = [hosts EXCEPT ![hostIds'] = [addr |-> a, key |-> None, group |-> None]]
        /\ groups' = groups
    BY <1>2 DEF AddsHost
  <2>2. CASE h = hostIds'
    BY <2>1, <2>2 DEF Types
  <2>3. CASE h # hostIds'
    BY <1>1, <2>1, <2>3 DEF Types
  <2> QED
    BY <2>2, <2>3
<1>3. CASE Edits
  <2>1. CASE hosts' = hosts
    BY <1>1, <1>3, <2>1 DEF Edits
  <2>2. CASE hosts' # hosts
    <3>1. PICK a \in Addr : hosts' = [hosts EXCEPT ![flow.host] = AtAddress(@, a)]
      BY <1>3, <2>2 DEF Edits
    <3>2. flow.host \in HostId /\ hosts[flow.host] # None /\ groups' = groups
      BY <1>3, <2>2 DEF Edits, Types
    <3>3. hosts[flow.host] \in Host
      BY <3>2 DEF Types
    <3>4. AtAddress(hosts[flow.host], a).group = hosts[flow.host].group
      BY <3>3 DEF AtAddress, Host
    <3>5. CASE h = flow.host
      BY <1>1, <3>1, <3>2, <3>4, <3>5 DEF Types
    <3>6. CASE h # flow.host
      BY <1>1, <3>1, <3>2, <3>6 DEF Types
    <3> QED
      BY <3>5, <3>6
  <2> QED
    BY <2>1, <2>2
<1>4. ASSUME NEW i \in HostId, DeletesHost(i)
      PROVE  hosts'[h].group \in groups' \cup {None}
  <2>1. h # i /\ hosts'[h] = hosts[h] /\ groups' = groups
    BY <1>4 DEF DeletesHost, Types
  <2> QED
    BY <1>1, <2>1
<1>5. ASSUME NEW i \in HostId, NEW g \in 0 .. groupIds, SetsGroup(i, g)
      PROVE  hosts'[h].group \in groups' \cup {None}
  <2>1. hosts[i] \in Host /\ groups' = groups
    BY <1>5 DEF SetsGroup, Types
  <2>2. CASE h = i /\ g \in Settable
    <3>1. hosts'[h].group = IF g = 0 THEN None ELSE g
      BY <1>5, <2>1, <2>2 DEF SetsGroup, Types, Host
    <3> QED
      BY <2>1, <2>2, <3>1 DEF Settable
  <2>3. CASE h # i \/ g \notin Settable
    <3>1. hosts'[h] = hosts[h]
      BY <1>5, <2>3 DEF SetsGroup, Types
    <3> QED
      BY <1>1, <2>1, <3>1
  <2> QED
    BY <2>2, <2>3
<1>6. ASSUME NEW g \in GroupId, DeletesGroup(g)
      PROVE  hosts'[h].group \in groups' \cup {None}
  <2>1. /\ groups' = groups \ {g}
        /\ hosts'[h] = IF h \in Stored /\ hosts[h].group = g
                         THEN [hosts[h] EXCEPT !.group = None] ELSE hosts[h]
    BY <1>6 DEF DeletesGroup
  <2>2. CASE h \in Stored /\ hosts[h].group = g
    <3>1. hosts[h] \in Host
      BY <2>2 DEF Types, Stored
    <3> QED
      BY <2>1, <2>2, <3>1 DEF Host
  <2>3. CASE ~(h \in Stored /\ hosts[h].group = g)
    <3>1. hosts'[h] = hosts[h] /\ h \in Stored /\ hosts[h].group # g
      BY <2>1, <2>3 DEF Stored
    <3> QED
      BY <2>1, <3>1 DEF GroupsExist
  <2> QED
    BY <2>2, <2>3
<1>7. ASSUME NEW m \in Msg, Accepts(m)
      PROVE  hosts'[h].group \in groups' \cup {None}
  <2>1. groups' = groups
    BY <1>7 DEF Accepts
  <2>2. CASE hosts'[h] = hosts[h]
    BY <1>1, <2>1, <2>2
  <2>3. CASE hosts'[h] # hosts[h]
    <3>1. /\ prompt # None /\ hosts[prompt.host] # None
          /\ hosts' = [hosts EXCEPT ![prompt.host].key = prompt.key]
      BY <1>7, <2>3 DEF Accepts
    <3>2. h = prompt.host /\ hosts[h] \in Host
      BY <2>3, <3>1 DEF Types
    <3>3. hosts'[h].group = hosts[h].group
      BY <3>1, <3>2 DEF Types, Host
    <3> QED
      BY <1>1, <2>1, <3>1, <3>2, <3>3
  <2> QED
    BY <2>2, <2>3
<1>8. CASE AddsGroup
  BY <1>1, <1>8 DEF AddsGroup
<1>9. CASE \/ AsksGroup \/ AsksSnippet \/ WritesSnippet
           \/ DeletesSnippet \/ ShowsPrompt \/ Fails \/ Reboots \/ Elsewhere
           \/ \E i \in HostId : \/ \E field \in {"addr", "other"} : AsksField(i, field)
                                \/ \E m \in Msg : Connects(m, i)
           \/ \E key \in Key : Trusted(key) \/ Untrusted(key)
           \/ \E m \in Msg : Cancels(m) \/ Refuses(m)
           \/ UNCHANGED vars
  <2>1. hosts' = hosts /\ groups' = groups
    BY <1>9 DEF Elsewhere, AsksGroup, AsksSnippet, WritesSnippet, DeletesSnippet,
                ShowsPrompt, Fails, Reboots, AsksField, Connects, Trusted, Untrusted,
                Cancels, Refuses, Data, vars
  <2> QED
    BY <1>1, <2>1
<1> QED
  BY <1>2, <1>3, <1>4, <1>5, <1>6, <1>7, <1>8, <1>9 DEF Next

(* No row is ever in a group that is gone: buttons of old messages that    *)
(* name it are harmless, and its deletion takes the rows out.              *)
THEOREM GroupsAlwaysExist == Spec => []GroupsExist
<1>1. Init => GroupsExist
  BY DEF Init, GroupsExist, Stored
<1> QED
  BY <1>1, TypesAtFirst, TypesStep, GroupsStep, PTL DEF Spec

-----------------------------------------------------------------------------
(* Keys.                                                                   *)

(* A copy of a row, of a host that was not edited under it, has the row's  *)
(* address as long as there is a row. *)
CopyHolds(copy) ==
  /\ copy.host <= hostIds
  /\ copy.host \notin edited /\ hosts[copy.host] # None
       => hosts[copy.host].addr = copy.addr

(* The task's copy of the key was confirmed. *)
TaskHolds ==
  task # None =>
    /\ CopyHolds(task)
    /\ task.host \notin edited /\ task.stored # None
         => [host |-> task.host, addr |-> task.addr, key |-> task.stored] \in accepted

PromptHolds == prompt # None => CopyHolds(prompt)

(* Ids that were not given have no row. *)
RowsGiven == \A h \in HostId : hosts[h] # None => h <= hostIds

Copies ==
  /\ Types /\ RowsGiven /\ KeysAreConfirmed /\ TaskHolds /\ PromptHolds

Copied == {copy.host : copy \in {task, prompt} \ {None}}

(* What a step may do to the rows without disturbing a copy: ids are not   *)
(* given again, and the address of a copied row changes only with an edit. *)
Gentle ==
  /\ hostIds <= hostIds' /\ edited \subseteq edited' /\ accepted \subseteq accepted'
  /\ \A h \in HostId : h <= hostIds /\ h \notin edited' /\ h \in Copied /\ hosts'[h] # None
       => hosts[h] # None /\ hosts'[h].addr = hosts[h].addr

(* A row keeps its address and key, or it has no key, or the key and the   *)
(* address are those that were just accepted for it. *)
RowChange(h) ==
  \/ hosts[h] # None /\ hosts'[h].addr = hosts[h].addr /\ hosts'[h].key = hosts[h].key
  \/ hosts'[h].key = None
  \/ [host |-> h, addr |-> hosts'[h].addr, key |-> hosts'[h].key] \in accepted'
  \/ h \in edited'

LEMMA CopySurvives ==
  ASSUME Types, Types', Gentle, NEW host \in HostId, NEW addr,
         host \in Copied, host <= hostIds,
         host \notin edited /\ hosts[host] # None => hosts[host].addr = addr
  PROVE  /\ host <= hostIds'
         /\ host \notin edited' /\ hosts'[host] # None => hosts'[host].addr = addr
BY HostsAssumption DEF Types, Gentle, HostId

(* The rows of a step that keeps all of them. *)
LEMMA RowsKept ==
  ASSUME Types, UNCHANGED <<hosts, hostIds, edited, accepted>>
  PROVE  Gentle /\ \A h \in HostId : hosts'[h] # None => RowChange(h)
BY HostsAssumption DEF Types, Gentle, RowChange

(* The rows of a step that changes one. *)
LEMMA OneRow ==
  ASSUME Types, UNCHANGED hostIds, edited \subseteq edited', accepted \subseteq accepted',
         NEW i \in HostId, NEW row, hosts[i] # None, hosts' = [hosts EXCEPT ![i] = row],
         row # None =>
           /\ row.addr = hosts[i].addr \/ i \in edited' \/ i \notin Copied
           /\ \/ row.addr = hosts[i].addr /\ row.key = hosts[i].key
              \/ row.key = None
              \/ [host |-> i, addr |-> row.addr, key |-> row.key] \in accepted'
              \/ i \in edited'
  PROVE  Gentle /\ \A h \in HostId : hosts'[h] # None => RowChange(h)
<1>1. hostIds \in Nat /\ hosts'[i] = row
      /\ \A h \in HostId \ {i} : hosts'[h] = hosts[h]
  BY HostsAssumption DEF Types
<1>2. Gentle
  BY <1>1 DEF Gentle
<1>3. \A h \in HostId : hosts'[h] # None => RowChange(h)
  BY <1>1 DEF RowChange
<1> QED
  BY <1>2, <1>3

(* What every step does to the rows. *)
LEMMA RowsOfStep ==
  ASSUME Copies, [Next]_vars
  PROVE  Gentle /\ \A h \in HostId : hosts'[h] # None => RowChange(h)
<1> DEFINE Goal == Gentle /\ \A h \in HostId : hosts'[h] # None => RowChange(h)
<1>0. Types
  BY DEF Copies
<1>1. ASSUME NEW a \in Addr, AddsHost(a)
      PROVE  Goal
  <2>1. /\ hostIds' = hostIds + 1 /\ hostIds' \in HostId /\ hostIds \in Nat
        /\ hosts'[hostIds'].key = None
        /\ \A h \in HostId \ {hostIds'} : hosts'[h] = hosts[h]
        /\ UNCHANGED <<edited, accepted>>
    BY <1>0, <1>1, HostsAssumption DEF AddsHost, Types, HostId, History
  <2>2. \A h \in HostId : h <= hostIds => h # hostIds'
    BY <2>1 DEF HostId
  <2>3. Gentle
    BY <2>1, <2>2 DEF Gentle
  <2>4. \A h \in HostId : hosts'[h] # None => RowChange(h)
    BY <2>1 DEF RowChange
  <2> QED
    BY <2>3, <2>4
<1>2. CASE Edits
  <2>1. CASE hosts' = hosts /\ edited' = edited
    BY <1>0, <1>2, <2>1, RowsKept DEF Edits
  <2>2. CASE ~(hosts' = hosts /\ edited' = edited)
    <3>1. PICK a \in Addr : hosts' = [hosts EXCEPT ![flow.host] = AtAddress(@, a)]
      BY <1>2, <2>2 DEF Edits
    <3>2. /\ flow.host \in HostId /\ hosts[flow.host] # None
          /\ edited' = edited \cup ({flow.host} \cap Copied)
          /\ UNCHANGED <<hostIds, accepted>>
      BY <1>0, <1>2, <2>2 DEF Edits, Types, Copied
    <3>3. hosts[flow.host] \in Host
      BY <1>0, <3>2 DEF Types
    <3> DEFINE row == AtAddress(hosts[flow.host], a)
    <3>4. row.key = None
      BY <3>3 DEF AtAddress, Host
    <3>5. flow.host \in edited' \/ flow.host \notin Copied
      BY <3>2
    <3>6. hosts' = [hosts EXCEPT ![flow.host] = row]
      BY <3>1
    <3> HIDE DEF row
    <3> QED
      BY <1>0, <3>2, <3>4, <3>5, <3>6, OneRow
  <2> QED
    BY <2>1, <2>2
<1>3. ASSUME NEW h \in HostId, DeletesHost(h)
      PROVE  Goal
  <2>1. /\ hosts[h] # None /\ hosts' = [hosts EXCEPT ![h] = None]
        /\ UNCHANGED <<hostIds, edited, accepted>>
    BY <1>3 DEF DeletesHost, History
  <2> QED
    BY <1>0, <2>1, OneRow
<1>4. ASSUME NEW h \in HostId, NEW g \in 0 .. groupIds, SetsGroup(h, g)
      PROVE  Goal
  <2>1. hosts[h] # None /\ hosts[h] \in Host /\ UNCHANGED <<hostIds, edited, accepted>>
    BY <1>0, <1>4 DEF SetsGroup, Types, History
  <2> DEFINE row == [hosts[h] EXCEPT !.group = IF g = 0 THEN None ELSE g]
  <2>2. CASE g \in Settable
    <3>1. hosts' = [hosts EXCEPT ![h] = row]
      BY <1>4, <2>2 DEF SetsGroup
    <3>2. row.addr = hosts[h].addr /\ row.key = hosts[h].key
      BY <2>1 DEF Host
    <3> HIDE DEF row
    <3> QED
      BY <1>0, <2>1, <3>1, <3>2, OneRow
  <2>3. CASE g \notin Settable
    BY <1>0, <1>4, <2>1, <2>3, RowsKept DEF SetsGroup
  <2> QED
    BY <2>2, <2>3
<1>5. ASSUME NEW g \in GroupId, DeletesGroup(g)
      PROVE  Goal
  <2>1. ASSUME NEW h \in HostId, hosts'[h] # None
        PROVE  hosts[h] # None /\ hosts'[h].addr = hosts[h].addr /\ hosts'[h].key = hosts[h].key
    <3>1. hosts'[h] = IF h \in Stored /\ hosts[h].group = g
                        THEN [hosts[h] EXCEPT !.group = None] ELSE hosts[h]
      BY <1>5 DEF DeletesGroup
    <3>2. hosts[h] # None /\ hosts[h] \in Host
      BY <1>0, <2>1, <3>1 DEF Stored, Types
    <3> QED
      BY <3>1, <3>2 DEF Host
  <2>2. UNCHANGED <<hostIds, edited, accepted>> /\ hostIds \in Nat
    BY <1>0, <1>5, HostsAssumption DEF DeletesGroup, History, Types
  <2> QED
    BY <2>1, <2>2 DEF Gentle, RowChange
<1>6. ASSUME NEW m \in Msg, Accepts(m)
      PROVE  Goal
  <2>1. UNCHANGED <<hostIds, edited>> /\ accepted \subseteq accepted'
    BY <1>6 DEF Accepts
  <2>2. CASE prompt = None
    BY <1>0, <1>6, <2>1, <2>2, RowsKept DEF Accepts
  <2>3. CASE prompt # None /\ hosts[prompt.host] = None
    <3>1. hosts' = hosts
      BY <1>6, <2>3 DEF Accepts
    <3> QED
      BY <1>0, <2>1, <3>1, HostsAssumption DEF Gentle, RowChange, Types
  <2>4. CASE prompt # None /\ hosts[prompt.host] # None
    <3>1. prompt.host \in HostId /\ hosts[prompt.host] \in Host
      BY <1>0, <2>4 DEF Types, PromptRecord
    <3> DEFINE row == [hosts[prompt.host] EXCEPT !.key = prompt.key]
    <3>2. hosts' = [hosts EXCEPT ![prompt.host] = row]
      BY <1>6, <2>4 DEF Accepts
    <3>3. row.addr = hosts[prompt.host].addr /\ row.key = prompt.key
      BY <3>1 DEF Host
    <3>4. [host |-> prompt.host, addr |-> prompt.addr, key |-> prompt.key] \in accepted'
      <4>1. prompt \in PromptRecord /\ prompt \in accepted'
        BY <1>0, <1>6, <2>4 DEF Types, Accepts
      <4> QED
        BY <4>1 DEF PromptRecord
    <3>5. prompt.host \notin edited => hosts[prompt.host].addr = prompt.addr
      BY <2>4 DEF Copies, PromptHolds, CopyHolds
    <3> HIDE DEF row
    <3> QED
      BY <1>0, <2>1, <2>4, <3>1, <3>2, <3>3, <3>4, <3>5, OneRow
  <2> QED
    BY <2>2, <2>3, <2>4
<1>7. CASE \/ AsksGroup \/ AsksSnippet \/ AddsGroup \/ WritesSnippet
           \/ DeletesSnippet \/ ShowsPrompt \/ Fails \/ Reboots \/ Elsewhere
           \/ \E h \in HostId : \/ \E field \in {"addr", "other"} : AsksField(h, field)
                                \/ \E m \in Msg : Connects(m, h)
           \/ \E key \in Key : Trusted(key) \/ Untrusted(key)
           \/ \E m \in Msg : Cancels(m) \/ Refuses(m)
           \/ UNCHANGED vars
  <2>1. UNCHANGED <<hosts, hostIds, edited, accepted>>
    BY <1>7 DEF Elsewhere, AsksGroup, AsksSnippet, AddsGroup, WritesSnippet,
                DeletesSnippet, ShowsPrompt, Fails, Reboots, AsksField, Connects,
                Trusted, Untrusted, Cancels, Refuses, Data, History, vars
  <2> QED
    BY <1>0, <2>1, RowsKept
<1> QED
  BY <1>1, <1>2, <1>3, <1>4, <1>5, <1>6, <1>7 DEF Next

LEMMA RowsGivenStep == Types /\ RowsGiven /\ [Next]_vars => RowsGiven'
<1> SUFFICES ASSUME Types, RowsGiven, [Next]_vars, NEW h \in HostId, hosts'[h] # None
             PROVE  h <= hostIds'
  BY DEF RowsGiven
<1>1. hostIds \in Nat /\ hostIds' \in Nat /\ h \in Nat
  BY TypesStep, HostsAssumption DEF Types, HostId
<1>2. CASE \E a \in Addr : AddsHost(a)
  BY <1>1, <1>2 DEF AddsHost, Types, RowsGiven
<1>3. ASSUME ~(\E a \in Addr : AddsHost(a))
      PROVE  hostIds' = hostIds
  BY <1>3 DEF Next, vars, Data, Elsewhere, Edits, AsksField, AsksGroup, AsksSnippet,
              AddsGroup, WritesSnippet, DeletesSnippet, ShowsPrompt, Fails, Reboots,
              DeletesHost, SetsGroup, Connects, DeletesGroup, Trusted, Untrusted,
              Cancels, Accepts, Refuses
<1>4. ASSUME ~(\E a \in Addr : AddsHost(a))
      PROVE  hosts[h] # None
  BY <1>4 DEF Next, vars, Data, Elsewhere, Edits, AsksField, AsksGroup, AsksSnippet,
              AddsGroup, WritesSnippet, DeletesSnippet, ShowsPrompt, Fails, Reboots,
              DeletesHost, SetsGroup, Connects, DeletesGroup, Trusted, Untrusted,
              Cancels, Accepts, Refuses, Stored, Types
<1> QED
  BY <1>1, <1>2, <1>3, <1>4 DEF RowsGiven

LEMMA KeysStep ==
  ASSUME Copies, [Next]_vars
  PROVE  KeysAreConfirmed'
<1> SUFFICES ASSUME NEW h \in HostId, hosts'[h] # None, h \notin edited',
                    hosts'[h].key # None
             PROVE  [host |-> h, addr |-> hosts'[h].addr, key |-> hosts'[h].key] \in accepted'
  BY DEF KeysAreConfirmed, Stored
<1>1. RowChange(h) /\ edited \subseteq edited' /\ accepted \subseteq accepted'
  BY RowsOfStep DEF Gentle
<1>2. CASE hosts[h] # None /\ hosts'[h].addr = hosts[h].addr /\ hosts'[h].key = hosts[h].key
  <2>1. [host |-> h, addr |-> hosts[h].addr, key |-> hosts[h].key] \in accepted
    BY <1>1, <1>2 DEF Copies, KeysAreConfirmed, Stored
  <2> QED
    BY <1>1, <1>2, <2>1
<1> QED
  BY <1>1, <1>2 DEF RowChange

LEMMA CopiesStep == Copies /\ [Next]_vars => Copies'
<1> SUFFICES ASSUME Copies, [Next]_vars
             PROVE  TaskHolds' /\ PromptHolds'
  BY KeysStep, TypesStep, RowsGivenStep DEF Copies
<1>1. Types /\ Types' /\ Gentle /\ TaskHolds /\ PromptHolds /\ None \notin Key
  BY RowsOfStep, TypesStep, HostsAssumption DEF Copies
<1>2. ASSUME task # None
      PROVE  /\ task.host <= hostIds'
             /\ task.host \notin edited' /\ hosts'[task.host] # None
                  => hosts'[task.host].addr = task.addr
             /\ task.host \notin edited' /\ task.stored # None
                  => [host |-> task.host, addr |-> task.addr, key |-> task.stored] \in accepted'
             /\ task \in TaskRecord
  <2>1. task \in TaskRecord /\ task.host \in HostId /\ task.host \in Copied
    BY <1>1, <1>2 DEF Types, TaskRecord, Copied
  <2>2. CopyHolds(task) /\ edited \subseteq edited' /\ accepted \subseteq accepted'
    BY <1>1, <1>2 DEF TaskHolds, Gentle
  <2>3. /\ task.host <= hostIds'
        /\ task.host \notin edited' /\ hosts'[task.host] # None
             => hosts'[task.host].addr = task.addr
    BY <1>1, <2>1, <2>2, CopySurvives DEF CopyHolds
  <2> QED
    BY <1>1, <1>2, <2>1, <2>2, <2>3 DEF TaskHolds
<1>3. ASSUME prompt # None
      PROVE  /\ prompt.host <= hostIds'
             /\ prompt.host \notin edited' /\ hosts'[prompt.host] # None
                  => hosts'[prompt.host].addr = prompt.addr
             /\ prompt \in PromptRecord
  <2>1. prompt \in PromptRecord /\ prompt.host \in HostId /\ prompt.host \in Copied
    BY <1>1, <1>3 DEF Types, PromptRecord, Copied
  <2>2. CopyHolds(prompt)
    BY <1>1, <1>3 DEF PromptHolds
  <2>3. /\ prompt.host <= hostIds'
        /\ prompt.host \notin edited' /\ hosts'[prompt.host] # None
             => hosts'[prompt.host].addr = prompt.addr
    BY <1>1, <2>1, <2>2, CopySurvives DEF CopyHolds
  <2> QED
    BY <2>1, <2>3
<1>4. CASE task' \in {task, None} /\ prompt' \in {prompt, None}
  BY <1>2, <1>3, <1>4 DEF TaskHolds, PromptHolds, CopyHolds
<1>5. ASSUME NEW m \in Msg, NEW h \in HostId, Connects(m, h)
      PROVE  TaskHolds' /\ PromptHolds'
  <2>1. /\ task' = [host |-> h, addr |-> hosts[h].addr, stored |-> hosts[h].key,
                    msg |-> m, asks |-> FALSE]
        /\ prompt' = None /\ hosts[h] # None
        /\ UNCHANGED <<hosts, hostIds, edited, accepted>>
    BY <1>5 DEF Connects, Data, History
  <2>2. h <= hostIds
    BY <1>1, <2>1 DEF Copies, RowsGiven
  <2>3. h \notin edited /\ hosts[h].key # None
          => [host |-> h, addr |-> hosts[h].addr, key |-> hosts[h].key] \in accepted
    BY <2>1 DEF Copies, KeysAreConfirmed, Stored
  <2> QED
    BY <2>1, <2>2, <2>3 DEF TaskHolds, PromptHolds, CopyHolds
<1>6. ASSUME NEW key \in Key, Untrusted(key)
      PROVE  TaskHolds' /\ PromptHolds'
  <2>1. /\ task # None /\ task' = [task EXCEPT !.asks = TRUE]
        /\ prompt' = [host |-> task.host, addr |-> task.addr, key |-> key]
    BY <1>6 DEF Untrusted
  <2>2. /\ task'.host = task.host /\ task'.addr = task.addr /\ task'.stored = task.stored
    BY <1>1, <1>2, <2>1 DEF TaskRecord
  <2> QED
    BY <1>2, <2>1, <2>2 DEF TaskHolds, PromptHolds, CopyHolds
<1>7. CASE \/ Edits \/ AsksGroup \/ AsksSnippet \/ AddsGroup \/ WritesSnippet
           \/ DeletesSnippet \/ ShowsPrompt \/ Fails \/ Reboots \/ Elsewhere
           \/ \E a \in Addr : AddsHost(a)
           \/ \E h \in HostId : \/ DeletesHost(h)
                                \/ \E field \in {"addr", "other"} : AsksField(h, field)
                                \/ \E g \in 0 .. groupIds : SetsGroup(h, g)
           \/ \E g \in GroupId : DeletesGroup(g)
           \/ \E key \in Key : Trusted(key)
           \/ \E m \in Msg : Cancels(m) \/ Accepts(m) \/ Refuses(m)
           \/ UNCHANGED vars
  BY <1>4, <1>7 DEF Edits, AsksGroup, AsksSnippet, AddsGroup, WritesSnippet,
                    DeletesSnippet, ShowsPrompt, Fails, Reboots, AddsHost, DeletesHost,
                    AsksField, SetsGroup, DeletesGroup, Trusted, Elsewhere, Cancels,
                    Accepts, Refuses, Live, vars
<1> QED
  BY <1>5, <1>6, <1>7 DEF Next

LEMMA CopiesAtFirst == Init => Copies
BY TypesAtFirst
   DEF Init, Copies, RowsGiven, KeysAreConfirmed, Stored, TaskHolds, PromptHolds

LEMMA CopiesAlways == Spec => []Copies
BY CopiesAtFirst, CopiesStep, PTL DEF Spec

(* A stored key was confirmed for the address its row has now, whatever    *)
(* was edited, deleted and accepted in between, edits of a host that is    *)
(* connecting aside. *)
THEOREM KeysAlwaysConfirmed == Spec => []KeysAreConfirmed
<1>1. Copies => KeysAreConfirmed
  BY DEF Copies
<1> QED
  BY <1>1, CopiesAlways, PTL

(* No connection is used without a question except with a key that was     *)
(* confirmed for the very address it was made to. *)
THEOREM OnlyConfirmedKeysUsed == Spec => UsesConfirmedKeys
<1>1. ASSUME Copies, NEW key \in Key, Trusted(key), task.host \notin edited
      PROVE  [host |-> task.host, addr |-> task.addr, key |-> key] \in accepted
  <2>1. task # None /\ task.stored = key /\ key # None
    BY <1>1, HostsAssumption DEF Trusted, Trusts
  <2> QED
    BY <1>1, <2>1 DEF Copies, TaskHolds
<1>2. Copies =>
        [\A key \in Key : Trusted(key) /\ task.host \notin edited
           => [host |-> task.host, addr |-> task.addr, key |-> key] \in accepted]_vars
  BY <1>1
<1> QED
  BY <1>2, CopiesAlways, PTL DEF UsesConfirmedKeys

=============================================================================
