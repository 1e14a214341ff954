----------------------------- MODULE ChatOrder -----------------------------
(***************************************************************************)
(* What main.OrderedProcessor promises in its docstring (main.py:30-31):   *)
(* updates of different users are handled concurrently, the updates of one *)
(* chat one at a time and in the order they arrived.  No locks, no         *)
(* reference counts, no pool of slots: only the promise.                   *)
(*                                                                         *)
(* Updates are numbered in the order of their arrival.                     *)
(***************************************************************************)
EXTENDS Naturals

CONSTANTS Chats,        \* the chats that send updates
          MaxUpdates    \* bound on the updates that arrive

VARIABLES arrived,      \* how many updates have arrived
          chatOf,       \* the chat of each update
          phase         \* "new", "waiting", "handling" or "done"

vars == <<arrived, chatOf, phase>>

Updates == 1 .. MaxUpdates

Init ==
  /\ arrived = 0
  /\ chatOf \in [Updates -> Chats]
  /\ phase = [u \in Updates |-> "new"]

(* The next update reaches the bot. *)
Arrive ==
  /\ arrived < MaxUpdates
  /\ arrived' = arrived + 1
  /\ phase' = [phase EXCEPT ![arrived + 1] = "waiting"]
  /\ UNCHANGED chatOf

(* An update may be handled once every earlier update of its chat is done. *)
Handle(u) ==
  /\ phase[u] = "waiting"
  /\ \A v \in Updates :
        v < u /\ chatOf[v] = chatOf[u] => phase[v] = "done"
  /\ phase' = [phase EXCEPT ![u] = "handling"]
  /\ UNCHANGED <<arrived, chatOf>>

Complete(u) ==
  /\ phase[u] = "handling"
  /\ phase' = [phase EXCEPT ![u] = "done"]
  /\ UNCHANGED <<arrived, chatOf>>

Next ==
  \/ Arrive
  \/ \E u \in Updates : Handle(u) \/ Complete(u)

(* One chat's updates one at a time and in order.                          *)
InOrder == Init /\ [][Next]_vars

(* No update waits for ever.                                               *)
Live == \A u \in Updates : WF_vars(Handle(u) \/ Complete(u))

Spec == InOrder /\ Live

=============================================================================
