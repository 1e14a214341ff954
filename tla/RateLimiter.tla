---------------------------- MODULE RateLimiter ----------------------------
(***************************************************************************)
(* core.security.RateLimiter (security.py:64-86): how often a user may     *)
(* open SSH connections.  start_action, cb_test and the wizard's test      *)
(* button ask the same connect_limiter before they connect.                *)
(*                                                                         *)
(* allow() and retry_after() run without an await between them, at one     *)
(* reading of the monotonic clock.  The clock runs in ticks, several to a  *)
(* second: what is at stake is what happens between two whole seconds.     *)
(*                                                                         *)
(* The names that every module has carry the limiter's here, since the     *)
(* proofs read this module together with OrderedProcessor.                 *)
(***************************************************************************)
EXTENDS Integers, Sequences

CONSTANTS Users,    \* keys of the limiter: Telegram user ids
          Limit,    \* attempts allowed in a window
          Window,   \* its length, in ticks
          Second,   \* ticks in a second
          MaxTime   \* bound: when the clock stops

ASSUME RateLimiterAssumption ==
  /\ Limit \in Nat \ {0} /\ Window \in Nat /\ Second \in Nat \ {0}
  /\ MaxTime \in Nat

VARIABLES
  now,      \* time.monotonic()
  hits,     \* self._hits: per user, the times still remembered
  log,      \* history: per user, the times of all attempts allowed
  told      \* per user, when a refused user may try again by the message

limiterVars == <<now, hits, log, told>>

(* No refusal since the last attempt that was allowed. *)
Never == 0

LimiterInit ==
  /\ now = 0
  /\ hits = [u \in Users |-> <<>>]
  /\ log = [u \in Users |-> <<>>]
  /\ told = [u \in Users |-> Never]

Tick ==
  /\ now < MaxTime
  /\ now' = now + 1
  /\ UNCHANGED <<hits, log, told>>

(* The operators with a suffix are slips that the properties catch; no     *)
(* action uses them.                                                       *)
Expired_Early(x) == now - x >= Window
Expired(x) == now - x > Window

(* The while loop of allow drops the first n entries of q. *)
Dropped(q, n) ==
  /\ n \in 0 .. Len(q)
  /\ \A i \in 1 .. n : Expired(q[i])
  /\ n < Len(q) => ~Expired(q[n + 1])

Room_OneLess(q) == Len(q) + 1 < Limit
Room(q) == Len(q) < Limit

(* Whole seconds until the oldest entry expires, at least one. *)
RetryAfter_Elapsed(q) ==
  LET gone == (now - q[1]) \div Second
  IN  IF gone < 1 THEN 1 ELSE gone
RetryAfter(q) ==
  LET left == (Window - (now - q[1])) \div Second
  IN  IF left < 1 THEN 1 ELSE left

(* allow(), and retry_after() when it said no. *)
Attempt(u) ==
  \E n \in 0 .. Len(hits[u]) :
    LET q == SubSeq(hits[u], n + 1, Len(hits[u]))
    IN  /\ Dropped(hits[u], n)
        /\ \/ /\ Room(q)
              /\ hits' = [hits EXCEPT ![u] = Append(q, now)]
              /\ log' = [log EXCEPT ![u] = Append(@, now)]
              /\ told' = [told EXCEPT ![u] = Never]
           \/ /\ ~Room(q)
              /\ hits' = [hits EXCEPT ![u] = q]
              /\ told' = [told EXCEPT ![u] = now + RetryAfter(q) * Second]
              /\ UNCHANGED log
        /\ UNCHANGED now

LimiterNext == Tick \/ \E u \in Users : Attempt(u)

LimiterSpec == LimiterInit /\ [][LimiterNext]_limiterVars

----------------------------------------------------------------------------
(* The deque holds at most Limit times (security.py:66-76). *)
LimiterTypeOK ==
  /\ now \in 0 .. MaxTime
  /\ hits \in [Users -> Seq(0 .. MaxTime)]
  /\ log \in [Users -> Seq(0 .. MaxTime)]
  /\ told \in [Users -> Nat]
  /\ \A u \in Users : Len(hits[u]) <= Limit

(* No window of the configured length, wherever it starts, holds more than *)
(* Limit allowed attempts of a user: entries forgotten to save memory are  *)
(* never needed again (security.py:69-77).                                 *)
WindowBound ==
  \A u \in Users : \A i \in 1 .. Len(log[u]) :
    i + Limit <= Len(log[u]) => log[u][i + Limit] - log[u][i] > Window

(* A user is refused only while Limit of his attempts lie in the window    *)
(* that ends now: old attempts and other users' do not count against him   *)
(* (security.py:72-75).                                                    *)
RefusedOnlyWhenFull ==
  [][\A u \in Users :
       Attempt(u) /\ log'[u] = log[u]
         => LET n == Len(log[u])
            IN  n >= Limit /\ now - log[u][n - Limit + 1] <= Window]_limiterVars

(* The message a refused user gets, "Try again in {sec}s."                 *)
(* (locales/_user.py:72), is short by less than a second, although         *)
(* retry_after cuts off parts of seconds and says 1 for 0: who waits a     *)
(* second longer than told is not refused again, whenever between ticks    *)
(* and seconds his attempts fell (security.py:79-86).                      *)
RetryNearlyEnough ==
  [][\A u \in Users :
       told[u] # Never /\ now >= told[u] + Second /\ Attempt(u)
         => log'[u] # log[u]]_limiterVars

=============================================================================
