------------------------------ MODULE RemoteCall ------------------------------
(* What a call promises its caller, whatever the network does: the portal       *)
(* executes it at most once, a call that succeeds was executed before it        *)
(* returned, and one that failed may have been executed or may be later.        *)
EXTENDS Naturals

CONSTANT Callers

VARIABLES
  state,     \* caller -> "idle", "pending", "ok" or "failed", of its latest call
  count,     \* caller -> the calls it made
  executed   \* the calls <<caller, number>> the portal executed

vars == <<state, count, executed>>

Init ==
  /\ state = [c \in Callers |-> "idle"]
  /\ count = [c \in Callers |-> 0]
  /\ executed = {}

(* A call starts, and may fail at once without ever being executed.             *)
Issue(c) ==
  /\ state[c] # "pending"
  /\ count' = [count EXCEPT ![c] = @ + 1]
  /\ \E s \in {"pending", "failed"} : state' = [state EXCEPT ![c] = s]
  /\ UNCHANGED executed

Execute(c, n) ==
  /\ n \in 1 .. count[c]
  /\ <<c, n>> \notin executed
  /\ executed' = executed \cup {<<c, n>>}
  /\ UNCHANGED <<state, count>>

Succeed(c) ==
  /\ state[c] = "pending"
  /\ <<c, count[c]>> \in executed
  /\ state' = [state EXCEPT ![c] = "ok"]
  /\ UNCHANGED <<count, executed>>

GiveUp(c) ==
  /\ state[c] = "pending"
  /\ state' = [state EXCEPT ![c] = "failed"]
  /\ UNCHANGED <<count, executed>>

Next ==
  \E c \in Callers :
    \/ Issue(c)
    \/ \E n \in 1 .. count[c] : Execute(c, n)
    \/ Succeed(c)
    \/ GiveUp(c)

Spec == Init /\ [][Next]_vars
===============================================================================
