---------------------------- MODULE CachedSource ----------------------------
(***************************************************************************)
(* What the api_gateway promises to those who ask it for a resource: the   *)
(* value shown was the source's at most Bound ago, and is never older than *)
(* one that had been shown to anybody before the request was made.  A      *)
(* request may also end with no value.  How the value is obtained is       *)
(* ApiGateway's business.                                                  *)
(***************************************************************************)
EXTENDS Integers, Sequences

CONSTANTS
  Reqs,       \* requests, each asked again and again
  Bound       \* how long a value may be shown after it has changed

VARIABLES
  now,
  changed,    \* when the source changed: changed[v + 1] is the end of version v
  shown,      \* what each request was last answered, or that it waits
  floor,      \* the version a waiting request must not go below
  newest      \* the newest version shown

vars == <<now, changed, shown, floor, newest>>

Version == Len(changed)
Result(is, v) == [is |-> is, v |-> v]

Init ==
  /\ now = 0 /\ changed = <<>> /\ newest = 0
  /\ shown = [r \in Reqs |-> Result("none", 0)]
  /\ floor = [r \in Reqs |-> 0]

Tick ==
  /\ now' = now + 1
  /\ UNCHANGED <<changed, shown, floor, newest>>

Change ==
  /\ changed' = Append(changed, now)
  /\ UNCHANGED <<now, shown, floor, newest>>

Ask(r) ==
  /\ shown[r].is # "waiting"
  /\ shown' = [shown EXCEPT ![r] = Result("waiting", 0)]
  /\ floor' = [floor EXCEPT ![r] = newest]
  /\ UNCHANGED <<now, changed, newest>>

\* The source still had version v, Bound ago.
Recent(v) == v < Version => now - changed[v + 1] <= Bound

Answer(r, v) ==
  /\ shown[r].is = "waiting"
  /\ v \in floor[r] .. Version /\ Recent(v)
  /\ shown' = [shown EXCEPT ![r] = Result("value", v)]
  /\ floor' = [floor EXCEPT ![r] = 0]
  /\ newest' = IF v > newest THEN v ELSE newest
  /\ UNCHANGED <<now, changed>>

\* No value: an error, a request given up, or a POST, that the cache has no part in.
NoValue(S) ==
  /\ \A r \in S : shown[r].is = "waiting"
  /\ shown' = [r \in Reqs |-> IF r \in S THEN Result("none", 0) ELSE shown[r]]
  /\ floor' = [r \in Reqs |-> IF r \in S THEN 0 ELSE floor[r]]
  /\ UNCHANGED <<now, changed, newest>>

Next ==
  \/ Tick \/ Change
  \/ \E r \in Reqs : Ask(r) \/ \E v \in 0 .. Version : Answer(r, v)
  \/ \E S \in SUBSET Reqs : NoValue(S)

Spec == Init /\ [][Next]_vars
=============================================================================
