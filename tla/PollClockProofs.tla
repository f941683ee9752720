---------------------------- MODULE PollClockProofs ----------------------------
(* What TLAPS proves of PollClock, for every interval, window and time-out.     *)
EXTENDS PollClock, TLAPS

(* The ticker: it fires at multiples of every, counted from when it was made,   *)
(* and hands out a tick at most once.                                           *)
TickerInv ==
  /\ begun <= now
  /\ pc \in {"called", "window"} => queries = 0 /\ fired = 0 /\ slot = 0 /\ begun = 0
  /\ ticking => every > 0 /\ now < next /\ next = begun + fired * every + every
  /\ queries + slot <= fired
  /\ fired * every <= now - begun

(* The spacing of queries.  With the channel empty, the next tick comes at least *)
(* an interval after the last query but one; with a tick in it, that interval is *)
(* over, and the tick after it comes an interval after the last query.           *)
SpacingInv ==
  /\ before <= last /\ last <= now
  /\ ticking => /\ slot = 0 /\ queries >= 2 => next >= before + every
                /\ slot = 1 /\ queries >= 2 => now >= before + every
                /\ slot = 1 /\ queries >= 1 => next >= last + every

(* A late query is the last: the loop does not come back to its wait.           *)
LateInv ==
  /\ late <= 1
  /\ late = 1 => /\ pc \in {"query", "loop"} \cup Ends
                 /\ ticking => now >= deadline

(* A poll is cut short by its context only when that has expired.               *)
CutInv == pc = "cancelled" => now >= ctxEnd

Inv == TypeOK /\ TickerInv /\ SpacingInv /\ LateInv /\ CutInv
-------------------------------------------------------------------------------
LEMMA InitInv == Init => Inv
  BY PollClockAssumption, SMTT(30)
     DEF Init, Inv, TypeOK, TickerInv, SpacingInv, LateInv, CutInv, ctxEnd, ticking, Ends

(* The steps of the process.                                                    *)
LEMMA StepInv ==
  ASSUME Inv, Step
  PROVE  Inv'
<1> USE DEF Inv, TypeOK, TickerInv, SpacingInv, LateInv, CutInv, ctxEnd, ticking, Ends, flags, ticker, history
<1>1. CASE SetDeadline
  BY <1>1 DEF SetDeadline
<1>2. CASE NewTicker
  <2>1. CASE every = 0
    BY <1>2, <2>1 DEF NewTicker
  <2>2. CASE every # 0
    BY <1>2, <2>2 DEF NewTicker
  <2> QED BY <2>1, <2>2
<1>3. CASE Loop
  BY <1>3 DEF Loop
<1>4. CASE Tick
  BY <1>4 DEF Tick
<1>5. CASE Cancelled
  BY <1>5 DEF Cancelled
<1>6. CASE Answered
  BY <1>6 DEF Answered
<1>7. CASE Failed
  BY <1>7 DEF Failed
<1> QED BY <1>1, <1>2, <1>3, <1>4, <1>5, <1>6, <1>7 DEF Step

(* The passing of time.                                                         *)
LEMMA ClockInv ==
  ASSUME Inv, Clock
  PROVE  Inv'
<1> USE DEF Inv, TypeOK, TickerInv, SpacingInv, LateInv, CutInv, ctxEnd, ticking, Ends, flags, history, Clock
<1>1. CASE ticking /\ now + 1 >= next
  <2>1. next = now + 1
    BY <1>1
  <2>2. fired' * every = fired * every + every
    BY <1>1
  <2> QED BY <1>1, <2>1, <2>2
<1>2. CASE ~(ticking /\ now + 1 >= next)
  BY <1>2
<1> QED BY <1>1, <1>2

THEOREM Invariance == Spec => []Inv
<1>1. Inv /\ [Next]_vars => Inv'
  <2> SUFFICES ASSUME Inv, [Next]_vars PROVE Inv'
    OBVIOUS
  <2>1. CASE Next
    BY <2>1, StepInv, ClockInv DEF Next
  <2>2. CASE UNCHANGED vars
    BY <2>2 DEF vars, flags, ticker, history, Inv, TypeOK, TickerInv, SpacingInv, LateInv, CutInv, ctxEnd, ticking
  <2> QED BY <2>1, <2>2
<1> QED BY InitInv, <1>1, PTL DEF Spec

(* The variables keep their types; the channel never holds more than one tick.  *)
THEOREM TypeCorrect == Spec => []TypeOK
BY Invariance, PTL DEF Inv

(* The portal is asked at most once per interval since poll began: what is       *)
(* proved is that queries do not outnumber ticks, which come once an interval.   *)
THEOREM BoundedRate == Spec => []RateBounded
<1>1. Inv => RateBounded
  <2> SUFFICES ASSUME Inv PROVE RateBounded
    OBVIOUS
  <2>1. queries <= fired /\ queries \in Nat /\ fired \in Nat /\ every \in Nat
    BY DEF Inv, TypeOK, TickerInv
  <2>2. queries * every <= fired * every
    BY <2>1
  <2> QED BY <2>1, <2>2 DEF Inv, TypeOK, TickerInv, RateBounded
<1> QED BY Invariance, <1>1, PTL

(* Ticks missed during a slow query are not made up for: the query after the     *)
(* next starts at least an interval later.                                       *)
THEOREM Unhurried == Spec => NoBurst
<1>1. Inv /\ [Next]_vars => [queries' > queries /\ queries >= 2 => now - before >= every]_vars
  <2> SUFFICES ASSUME Inv, Next, queries' > queries, queries >= 2
               PROVE  now - before >= every
    OBVIOUS
  <2>1. CASE Tick
    BY <2>1 DEF Tick, Inv, TypeOK, SpacingInv, ticking
  <2>2. CASE ~Tick
    BY <2>2 DEF Next, Step, Clock, SetDeadline, NewTicker, Loop, Cancelled, Answered, Failed,
                history, Inv, TypeOK
  <2> QED BY <2>1, <2>2
<1> QED BY Invariance, <1>1, PTL DEF Spec, NoBurst

(* A query that starts after the window's end is the last one.                  *)
THEOREM OneLate == Spec => []AtMostOneLate
BY Invariance, PTL DEF Inv, LateInv, AtMostOneLate

(* Unless the send took longer than -timeout, the context leaves the poll its    *)
(* window: what is left of it is no shorter.                                     *)
THEOREM WindowKept == Spec => []PromptSendKeepsWindow
<1>1. Inv => PromptSendKeepsWindow
  BY DEF Inv, TypeOK, CutInv, ctxEnd, PromptSendKeepsWindow
<1> QED BY Invariance, <1>1, PTL
===============================================================================
