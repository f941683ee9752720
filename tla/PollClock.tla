------------------------------ MODULE PollClock -------------------------------
(* The clock side of poll (cmd/lgtsend/main.go): a loop that asks for a status  *)
(* at each tick of a time.Ticker until its window is over, under a context that *)
(* the send before it has already used a part of.  What the queries carry is    *)
(* left to Lgtsend; here only when they start matters.                          *)
EXTENDS Integers

CONSTANTS Everys,     \* the values of -poll-every a run may have
          Totals,     \* the values of -poll-for
          Timeouts,   \* the values of -timeout
          MaxTime     \* bound: the clock stops here

ASSUME PollClockAssumption ==
  /\ Everys \subseteq Nat /\ Totals \subseteq Nat \ {0} /\ Timeouts \subseteq Nat
  /\ MaxTime \in Nat

VARIABLES
  every, total, timeout, \* the flags
  spent,         \* what the send took of the context's time
  now,           \* the time since poll was called
  pc,            \* where poll is, or how it ended
  deadline,      \* the end of the window
  next,          \* when the ticker fires next
  slot,          \* how many ticks the ticker's channel, of capacity one, holds
  queries,       \* history: how many queries were started
  fired,         \* history: how often the ticker fired
  begun,         \* history: when the ticker was made
  last, before,  \* history: when the last query and the one before it started
  late           \* history: queries started when the window was over

flags   == <<every, total, timeout, spent>>
ticker  == <<next, slot, fired, begun>>
history == <<queries, last, before, late>>
vars    == <<flags, now, pc, deadline, ticker, history>>

Ends == {"done", "cancelled", "failed", "panicked"}

(* Mutant: the context is given -timeout alone.                                 *)
ctxEnd_Timeout == timeout - spent

(* When the context expires: run gives it -timeout and -poll-for together, from *)
(* before the send, and poll finds what the send left of it.                    *)
ctxEnd == timeout + total - spent

Init ==
  /\ every \in Everys
  /\ total \in Totals
  /\ timeout \in Timeouts
  /\ spent \in 0 .. (timeout + total)
  /\ now = 0 /\ pc = "called" /\ deadline = 0
  /\ next = 0 /\ slot = 0 /\ fired = 0 /\ begun = 0
  /\ queries = 0 /\ last = 0 /\ before = 0 /\ late = 0
-------------------------------------------------------------------------------
ticking == pc \in {"loop", "wait", "query"}

SetDeadline ==
  /\ pc = "called"
  /\ pc' = "window"
  /\ deadline' = now + total
  /\ UNCHANGED <<flags, now, ticker, history>>

(* time.NewTicker panics on an interval that is not positive.                   *)
NewTicker ==
  /\ pc = "window"
  /\ IF every = 0 THEN pc' = "panicked" /\ UNCHANGED <<next, begun>>
     ELSE pc' = "loop" /\ next' = now + every /\ begun' = now
  /\ UNCHANGED <<flags, now, deadline, slot, fired, history>>

(* Mutant: the window is looked at once, before the loop.                       *)
Loop_NeverDone ==
  /\ pc = "loop"
  /\ pc' = "wait"
  /\ UNCHANGED <<flags, now, deadline, ticker, history>>

(* The loop's condition.                                                        *)
Loop ==
  /\ pc = "loop"
  /\ pc' = IF now < deadline THEN "wait" ELSE "done"
  /\ UNCHANGED <<flags, now, deadline, ticker, history>>

(* Mutant: the tick stays in the channel.                                       *)
Tick_NotConsumed ==
  /\ pc = "wait" /\ slot > 0
  /\ pc' = "query"
  /\ queries' = queries + 1 /\ last' = now /\ before' = last
  /\ late' = late + (IF now < deadline THEN 0 ELSE 1)
  /\ UNCHANGED <<flags, now, deadline, ticker>>

(* The select takes a tick, and the query of this round starts.                 *)
Tick ==
  /\ pc = "wait" /\ slot > 0
  /\ pc' = "query" /\ slot' = slot - 1
  /\ queries' = queries + 1 /\ last' = now /\ before' = last
  /\ late' = late + (IF now < deadline THEN 0 ELSE 1)
  /\ UNCHANGED <<flags, now, deadline, next, fired, begun>>

(* The select finds the context done; with a tick there too, either is taken.   *)
Cancelled ==
  /\ pc = "wait" /\ now >= ctxEnd
  /\ pc' = "cancelled"
  /\ UNCHANGED <<flags, now, deadline, ticker, history>>

(* Mutant: a query outlives its context.                                        *)
Failed_NoDeadline ==
  /\ pc = "query" /\ now < ctxEnd
  /\ pc' = "failed"
  /\ UNCHANGED <<flags, now, deadline, ticker, history>>

(* The query returns: an answer, until the context is done, or an error.        *)
Answered ==
  /\ pc = "query" /\ now <= ctxEnd
  /\ pc' = "loop"
  /\ UNCHANGED <<flags, now, deadline, ticker, history>>

Failed ==
  /\ pc = "query"
  /\ pc' = "failed"
  /\ UNCHANGED <<flags, now, deadline, ticker, history>>

(* Mutant: a channel that holds every tick.                                     *)
Clock_Queues ==
  /\ pc \notin Ends /\ now < MaxTime
  /\ now' = now + 1
  /\ IF ticking /\ now + 1 >= next
       THEN slot' = slot + 1 /\ next' = next + every /\ fired' = fired + 1
       ELSE UNCHANGED <<slot, next, fired>>
  /\ UNCHANGED <<flags, pc, deadline, begun, history>>

(* Time passes, whatever the process is doing.  A tick that comes due goes into *)
(* the channel, or is dropped when one waits there.                             *)
Clock ==
  /\ pc \notin Ends /\ now < MaxTime
  /\ now' = now + 1
  /\ IF ticking /\ now + 1 >= next
       THEN slot' = 1 /\ next' = next + every /\ fired' = fired + 1
       ELSE UNCHANGED <<slot, next, fired>>
  /\ UNCHANGED <<flags, pc, deadline, begun, history>>

Step == SetDeadline \/ NewTicker \/ Loop \/ Tick \/ Cancelled \/ Answered \/ Failed

Next == Step \/ Clock

(* Time passes, and a step that can be taken is: the query too ends, at the     *)
(* latest when its context is done.                                             *)
Fairness == WF_vars(Step) /\ WF_vars(Clock)

Spec == Init /\ [][Next]_vars

FairSpec == Spec /\ Fairness
-------------------------------------------------------------------------------
TypeOK ==
  /\ every \in Nat /\ total \in Nat /\ timeout \in Nat
  /\ spent \in 0 .. (timeout + total)
  /\ now \in Nat /\ deadline \in Nat /\ next \in Nat
  /\ pc \in {"called", "window", "loop", "wait", "query"} \cup Ends
  /\ slot \in 0 .. 1
  /\ queries \in Nat /\ fired \in Nat /\ begun \in Nat
  /\ last \in Nat /\ before \in Nat /\ late \in Nat

(* The portal is not asked more often than once per -poll-every since the poll  *)
(* began, however slow an answer or the machine is (poll's ticker).             *)
RateBounded == queries * every <= now - begun

(* A slow answer is not followed by a burst: ticks missed meanwhile are not made *)
(* up for, so of three queries in a row the last starts at least -poll-every    *)
(* after the first (the channel of a ticker holds one tick).                    *)
NoBurst == [][queries' > queries /\ queries >= 2 => now - before >= every]_vars

(* The window is looked at before the wait for a tick, not after it, so a query *)
(* may start when it is over; but never more than one.                          *)
AtMostOneLate == late <= 1

(* The poll ends, whatever the portal does.                                     *)
PollEnds == <>(pc \in Ends)

(* The context does not cut the window short, unless the send, and what came    *)
(* between it and the window, took longer than -timeout (main.go:158, 884): the *)
(* -poll-for in the context is there for the poll.                              *)
PromptSendKeepsWindow ==
  pc = "cancelled" /\ spent + (deadline - total) <= timeout => now >= deadline
===============================================================================
