-------------------------------- MODULE Hosts --------------------------------
(***************************************************************************)
(* The stored servers of one user and the trust in their keys: edit,       *)
(* delete, groups and snippets (handlers/hosts.py, tools.py), the key a    *)
(* user accepts for a host and the connections made with it                *)
(* (handlers/terminal.py, ssh_manager.open_trusted).                       *)
(*                                                                         *)
(* The handlers of the chat run one at a time and each is one step; the    *)
(* connect task runs beside them, with the host as it was when the press   *)
(* was handled.  A press may be handled when its message shows something   *)
(* else by then, and the buttons of a prompt do not say which key it       *)
(* showed: a Yes is for the prompt that is registered, so what a message   *)
(* shows is not kept here, only which buttons it has had.  What becomes of *)
(* the connection itself is in module Sessions.                            *)
(***************************************************************************)
EXTENDS Naturals, FiniteSets

CONSTANTS
  Msg,         \* messages of the bot in the chat
  Addr,        \* addresses with their ports
  Key,         \* fingerprints of the servers' keys
  MaxHosts,    \* bound: host ids
  MaxGroupIds, \* bound: group ids
  MAX_GROUPS, MAX_SNIPPETS,   \* tools.py:22-23
  None

ASSUME HostsAssumption ==
  /\ MaxHosts \in Nat /\ MaxGroupIds \in Nat
  /\ MAX_GROUPS \in Nat /\ MAX_SNIPPETS \in Nat
  /\ None \notin Addr \cup Key \cup Nat

VARIABLES
  hosts,     \* the rows by id: None, or address, key and group
  hostIds,   \* the last id given to a host
  groups,    \* ids of the groups
  groupIds,  \* the last id given to a group
  snippets,  \* how many there are
  flow,      \* what the next text is for (user_data["flow"])
  task,      \* the connect task, in registry.connecting
  prompt,    \* registry.pending_trust
  had,       \* the buttons of a connect that each message has had
  accepted,  \* history: the hosts, addresses and keys the user confirmed
  edited     \* history: hosts whose address was edited while they were connecting

vars == <<hosts, hostIds, groups, groupIds, snippets, flow, task, prompt, had,
          accepted, edited>>

HostId == 1 .. MaxHosts
GroupId == 1 .. MaxGroupIds
Host == [addr : Addr, key : Key \cup {None}, group : GroupId \cup {None}]
Stored == {h \in HostId : hosts[h] # None}

Init ==
  /\ hosts = [h \in HostId |-> None] /\ hostIds = 0
  /\ groups = {} /\ groupIds = 0 /\ snippets = 0
  /\ flow = None /\ task = None /\ prompt = None
  /\ had = [m \in Msg |-> {}]
  /\ accepted = {} /\ edited = {}

Data == <<hosts, hostIds, groups, groupIds, snippets>>
Live == <<task, prompt, had>>
History == <<accepted, edited>>

----------------------------------------------------------------------------
(* Messages.  Every edit may fail (ui.edit), and a button that a message   *)
(* has had may have been pressed before the message changed: the press is  *)
(* handled all the same.                                                   *)

(* An edit of m that gives it a button, or fails. *)
Edited(S, m, button) == S \cup {[s EXCEPT ![m] = @ \cup {button}] : s \in S}

(* Any other button, and a "connect" that is refused: for the rate, a      *)
(* running session, the cap, or a host that is gone.  Like every button it *)
(* ends the flow (gate.pre_check).                                         *)
Elsewhere ==
  /\ flow # None /\ flow' = None
  /\ UNCHANGED <<Data, Live, History>>

----------------------------------------------------------------------------
(* Texts that the user is asked for.                                       *)

Flow == [type : {"edit_host"}, host : HostId, field : {"addr", "other"}]
        \cup [type : {"grp_add", "snip_name", "snip_cmd"}]

(* cb_edit_field; the fields other than the address and the port change    *)
(* nothing here. *)
AsksField(h, field) ==
  /\ hosts[h] # None
  /\ flow' = [type |-> "edit_host", host |-> h, field |-> field]
  /\ UNCHANGED <<Data, Live, History>>

(* In the slip a new address keeps the key. *)
AtAddress_KeepsKey(row, a) == [row EXCEPT !.addr = a]
AtAddress(row, a) == [row EXCEPT !.addr = a, !.key = None]

(* _edit_text with a text that is not refused; the host may be gone. *)
Edits ==
  /\ flow # None /\ flow.type = "edit_host" /\ flow' = None
  /\ \/ /\ flow.field = "addr" /\ hosts[flow.host] # None
        /\ \E a \in Addr : hosts' = [hosts EXCEPT ![flow.host] = AtAddress(@, a)]
        /\ edited' = edited \cup ({flow.host} \cap {t.host : t \in {task, prompt} \ {None}})
     \/ /\ flow.field = "other" \/ hosts[flow.host] = None
        /\ UNCHANGED <<hosts, edited>>
  /\ UNCHANGED <<hostIds, groups, groupIds, snippets, Live, accepted>>

(* cb_grp_add, cb_snip_add: refused at the limit. *)
AsksGroup ==
  /\ flow' = IF Cardinality(groups) >= MAX_GROUPS THEN None ELSE [type |-> "grp_add"]
  /\ UNCHANGED <<Data, Live, History>>

AsksSnippet ==
  /\ flow' = IF snippets >= MAX_SNIPPETS THEN None ELSE [type |-> "snip_name"]
  /\ UNCHANGED <<Data, Live, History>>

(* flow_text of tools.py; in the slip the flow stays for the next text. *)
AfterText_Stays == IF flow.type = "snip_name" THEN [type |-> "snip_cmd"] ELSE flow
AfterText == IF flow.type = "snip_name" THEN [type |-> "snip_cmd"] ELSE None

AddsGroup ==
  /\ flow # None /\ flow.type = "grp_add" /\ groupIds < MaxGroupIds
  /\ groupIds' = groupIds + 1
  /\ groups' = groups \cup {groupIds'}
  /\ flow' = AfterText
  /\ UNCHANGED <<hosts, hostIds, snippets, Live, History>>

WritesSnippet ==
  /\ flow # None /\ flow.type \in {"snip_name", "snip_cmd"}
  /\ snippets' = IF flow.type = "snip_cmd" THEN snippets + 1 ELSE snippets
  /\ flow' = AfterText
  /\ UNCHANGED <<hosts, hostIds, groups, groupIds, Live, History>>

----------------------------------------------------------------------------
(* Rows.  The ids in the buttons of old messages may be of rows that are   *)
(* gone; ids are never given again (AUTOINCREMENT, db.py:33-46).           *)

(* The end of the wizard (module Wizard). *)
AddsHost(a) ==
  /\ hostIds < MaxHosts
  /\ hostIds' = hostIds + 1
  /\ hosts' = [hosts EXCEPT ![hostIds'] = [addr |-> a, key |-> None, group |-> None]]
  /\ flow' = None
  /\ UNCHANGED <<groups, groupIds, snippets, Live, History>>

DeletesHost(h) ==
  /\ hosts[h] # None
  /\ hosts' = [hosts EXCEPT ![h] = None]
  /\ flow' = None
  /\ UNCHANGED <<hostIds, groups, groupIds, snippets, Live, History>>

(* cb_set_group: zero is "no group"; in the slip the group is not looked up. *)
Settable_Any == 0 .. groupIds
Settable == {0} \cup groups

SetsGroup(h, g) ==
  /\ hosts[h] # None
  /\ hosts' = IF g \in Settable
                THEN [hosts EXCEPT ![h].group = IF g = 0 THEN None ELSE g] ELSE hosts
  /\ flow' = None
  /\ UNCHANGED <<hostIds, groups, groupIds, snippets, Live, History>>

DeletesGroup(g) ==
  /\ g \in groups
  /\ groups' = groups \ {g}
  /\ hosts' = [h \in HostId |-> IF h \in Stored /\ hosts[h].group = g
                                  THEN [hosts[h] EXCEPT !.group = None] ELSE hosts[h]]
  /\ flow' = None
  /\ UNCHANGED <<hostIds, groupIds, snippets, Live, History>>

DeletesSnippet ==
  /\ snippets > 0 /\ snippets' = snippets - 1
  /\ flow' = None
  /\ UNCHANGED <<hosts, hostIds, groups, groupIds, Live, History>>

----------------------------------------------------------------------------
(* Connections.                                                            *)

(* The task is cancelled: the edit on its way lands or does not. *)
Dropped == IF task # None /\ task.asks THEN Edited({had}, task.msg, "trust") ELSE {had}

(* start_action, in whatever m shows by now: the chat is reset, which      *)
(* cancels the task and discards the prompt; the task gets a copy of the   *)
(* row. *)
Connects(m, h) ==
  /\ hosts[h] # None
  /\ task' = [host |-> h, addr |-> hosts[h].addr, stored |-> hosts[h].key, msg |-> m,
              asks |-> FALSE]
  /\ prompt' = None
  /\ flow' = None
  /\ had' \in Edited(Dropped, m, "cancel")
  /\ UNCHANGED <<Data, History>>

(* open_trusted: any key may come; the one that is stored needs no         *)
(* question.  In the slip no stored key does not either.                   *)
Trusts_First(stored, key) == stored \in {None, key}
Trusts(stored, key) == stored = key

Trusted(key) ==
  /\ task # None /\ ~task.asks /\ Trusts(task.stored, key)
  /\ task' = None
  /\ UNCHANGED <<Data, flow, prompt, had, History>>

(* HostKeyUntrusted: the prompt is registered, then shown. *)
Untrusted(key) ==
  /\ task # None /\ ~task.asks /\ ~Trusts(task.stored, key)
  /\ prompt' = [host |-> task.host, addr |-> task.addr, key |-> key]
  /\ task' = [task EXCEPT !.asks = TRUE]
  /\ UNCHANGED <<Data, flow, had, History>>

ShowsPrompt ==
  /\ task # None /\ task.asks
  /\ had' \in Edited({had}, task.msg, "trust")
  /\ task' = None
  /\ UNCHANGED <<Data, flow, prompt, History>>

(* No connection. *)
Fails ==
  /\ task # None /\ ~task.asks
  /\ task' = None
  /\ UNCHANGED <<Data, flow, prompt, had, History>>

(* cb_conn_cancel: a prompt that was registered before stays registered. *)
Cancels(m) ==
  /\ "cancel" \in had[m]
  /\ task' = None
  /\ had' \in Dropped
  /\ flow' = None
  /\ UNCHANGED <<Data, prompt, History>>

(* cb_trust_yes in any message that has shown a prompt: the key of the     *)
(* registered one is stored, and its connection used.                      *)
Accepts(m) ==
  /\ "trust" \in had[m]
  /\ IF prompt = None THEN UNCHANGED <<hosts, accepted>>
     ELSE /\ hosts' = IF hosts[prompt.host] = None THEN hosts
                      ELSE [hosts EXCEPT ![prompt.host].key = prompt.key]
          /\ accepted' = accepted \cup {prompt}
  /\ prompt' = None
  /\ flow' = None
  /\ UNCHANGED <<hostIds, groups, groupIds, snippets, task, had, edited>>

Refuses(m) ==
  /\ "trust" \in had[m]
  /\ prompt' = None
  /\ flow' = None
  /\ UNCHANGED <<Data, task, had, History>>

(* The process starts again; the messages stay. *)
Reboots ==
  /\ <<flow, task, prompt>> # <<None, None, None>>
  /\ flow' = None /\ task' = None /\ prompt' = None
  /\ had' \in Dropped
  /\ UNCHANGED <<Data, History>>

Next ==
  \/ Edits \/ AsksGroup \/ AsksSnippet \/ AddsGroup \/ WritesSnippet
  \/ DeletesSnippet \/ ShowsPrompt \/ Fails \/ Reboots \/ Elsewhere
  \/ \E a \in Addr : AddsHost(a)
  \/ \E h \in HostId :
       \/ DeletesHost(h)
       \/ \E field \in {"addr", "other"} : AsksField(h, field)
       \/ \E g \in 0 .. groupIds : SetsGroup(h, g)
       \/ \E m \in Msg : Connects(m, h)
  \/ \E g \in GroupId : DeletesGroup(g)
  \/ \E key \in Key : Trusted(key) \/ Untrusted(key)
  \/ \E m \in Msg : Cancels(m) \/ Accepts(m) \/ Refuses(m)

Spec == Init /\ [][Next]_vars

----------------------------------------------------------------------------
(* Properties.                                                             *)

(* A key that is stored was answered with Yes for this host at the         *)
(* address the row has now: an edit of the address or port forgets it      *)
(* (hosts.py:174-175).  The exception is an edit while the host was        *)
(* connecting or its prompt waited: the answer to the prompt then stores   *)
(* the key of the old address (terminal.py:159).                           *)
KeysAreConfirmed ==
  \A h \in Stored \ edited :
    hosts[h].key # None => [host |-> h, addr |-> hosts[h].addr, key |-> hosts[h].key] \in accepted

(* A connection is used without a question only with a key that was        *)
(* confirmed for the address it was made to, whatever was edited, deleted  *)
(* or accepted while the task was at work (ssh_manager.py:93-102).         *)
UsesConfirmedKeys ==
  [][\A key \in Key : Trusted(key) /\ task.host \notin edited
       => [host |-> task.host, addr |-> task.addr, key |-> key] \in accepted]_vars

(* No host is in a group that is gone, whatever old buttons name           *)
(* (hosts.py:86-92, db.py:396-401; the schema has no foreign key).         *)
GroupsExist == \A h \in Stored : hosts[h].group \in groups \cup {None}

(* The limits hold although they are looked at when the name is asked for  *)
(* and not when it comes (tools.py:59-66, 127-134, 146-171).               *)
LimitsHold == Cardinality(groups) <= MAX_GROUPS /\ snippets <= MAX_SNIPPETS
=============================================================================
