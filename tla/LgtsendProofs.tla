---------------------------- MODULE LgtsendProofs -----------------------------
(* Proofs about Lgtsend, for any set of runs, any flags and any number of       *)
(* results.                                                                     *)
EXTENDS Lgtsend, SoapClientProofs, WellFoundedInduction

(* A set of indices has a least one: firstGUID's choice exists.                 *)
LEMMA LeastIndex ==
  ASSUME NEW S, S \subseteq Nat, S # {}
  PROVE  \E k \in S : \A j \in S : k <= j
<1>1. PICK k \in S : \A j \in S : ~ (<<j, k>> \in OpToRel(<, Nat))
  BY NatLessThanWellFounded, WFMin
<1>2. \A j \in S : ~ (j < k)
  BY <1>1 DEF OpToRel
<1> QED BY <1>2

(* Values the runs hold and the portal sends, as far as proofs need them.       *)
GoodResults(v) ==
  /\ DOMAIN v \subseteq Nat
  /\ \A k \in DOMAIN v : v[k].guid \in Shipments \cup {NoGuid}

LEMMA FirstGUIDType ==
  ASSUME NEW v, GoodResults(v)
  PROVE  firstGUID(v) \in Shipments \cup {NoGuid}
<1> DEFINE with == {k \in DOMAIN v : v[k].guid # NoGuid}
<1>1. CASE with = {}
  BY <1>1 DEF firstGUID
<1>2. CASE with # {}
  <2>1. \E k \in with : \A j \in with : k <= j
    BY <1>2, LeastIndex DEF GoodResults
  <2>2. (CHOOSE k \in with : \A j \in with : k <= j) \in with
    BY <2>1
  <2> QED BY <1>2, <2>2 DEF firstGUID, GoodResults
<1> QED BY <1>1, <1>2
-------------------------------------------------------------------------------
(* Where a run is and what that says of its calls and of its flags.             *)
Control(r) ==
  /\ pc[r] \in {"idle", "send", "dispatch", "status"} => count[r] = 0
  /\ pc[r] \in {"send", "dispatch"} =>
       "endpoint" \in opts[r].given /\ opts[r].status = NoRef
  /\ pc[r] = "dispatch" => sends(opts[r]) /\ complete(opts[r])
  /\ pc[r] = "dispatch" /\ buildable(opts[r]) => preview[r] = dispatch(opts[r])
  /\ pc[r] = "sent" => count[r] = 1 /\ \A m \in posted : m.id[1] = r => m \in SendsOf(r)
  /\ pc[r] = "status" => opts[r].status # NoRef
  /\ pc[r] \in {"poll", "wait", "polling"} => guid[r] \in Shipments

(* Every send of a run is its first call, is asked for, and was previewed.      *)
Sends(r) ==
  \A m \in SendsOf(r) :
    /\ m.id = <<r, 1>>
    /\ m.request = preview[r]
    /\ {"send", "endpoint"} \subseteq opts[r].given
    /\ complete(opts[r])
    /\ opts[r].status = NoRef

(* The answers to sends, and the out variable of the run that made one, hold    *)
(* results.                                                                     *)
Answered(r) ==
  /\ pc[r] = "sent" => GoodResults(result[r].value)
  /\ \A m \in SendsOf(r), s \in served : s.id = m.id => GoodResults(s.response.value)

Running(r) == Control(r) /\ Sends(r) /\ Answered(r)

IInv == TypeOK /\ WireInv /\ \A r \in Callers : Running(r)

LEMMA NoStatusOp == StatusOp \notin SendOps
  BY DEF StatusOp, SendOps

LEMMA DispatchType ==
  ASSUME NEW o \in OptionSet
  PROVE  dispatch(o) \in Requests /\ dispatch(o).op \in SendOps
  BY DEF dispatch, OptionSet, Requests, SendOps

LEMMA QueryType ==
  ASSUME NEW gs \in SUBSET (Shipments \cup Refs), NEW rs \in SUBSET (Refs \cup {NoRef})
  PROVE  statusQuery(gs, rs) \in Requests /\ statusQuery(gs, rs).op \notin SendOps
  BY DEF statusQuery, Requests, SendOps, StatusOp

(* A run that made no call posted nothing.                                      *)
LEMMA NoCallNoPost ==
  ASSUME WireInv, NEW r \in Callers, count[r] = 0
  PROVE  SendsOf(r) = {}
  BY DEF WireInv, SoapTypeOK, SendsOf

LEMMA InitIInv == Init => IInv
<1> SUFFICES ASSUME Init PROVE IInv
  OBVIOUS
<1>1. WireInv
  BY InitWire DEF Init
<1>2. opts \in [Callers -> OptionSet]
  BY LgtsendAssumption DEF Init
<1>3. TypeOK
  BY <1>1, <1>2 DEF Init, SoapInit, TypeOK, WireInv, Exits, Verdicts, Shipments
<1>4. ASSUME NEW r \in Callers PROVE Running(r)
  BY DEF Init, SoapInit, Running, Control, Sends, Answered, SendsOf
<1> QED BY <1>1, <1>3, <1>4 DEF IInv
-------------------------------------------------------------------------------
(* A step that leaves a run alone, and posts no send of its, keeps what is said *)
(* of it.                                                                       *)
LEMMA Frame ==
  ASSUME IInv, NEW q \in Callers, opts' = opts,
         pc'[q] = pc[q], count'[q] = count[q], preview'[q] = preview[q],
         guid'[q] = guid[q], result'[q] = result[q], SendsOf(q)' = SendsOf(q),
         \A m \in posted' : m.id[1] = q => m \in posted,
         \A m \in SendsOf(q), s \in served' :
           s.id = m.id => s \in served \/ GoodResults(s.response.value)
  PROVE  Running(q)'
<1> USE DEF IInv, Running
<1>1. Control(q)'
  BY DEF Control
<1>2. Sends(q)'
  BY DEF Sends
<1>3. Answered(q)'
  BY DEF Answered
<1> QED BY <1>1, <1>2, <1>3

(* A step of run r within the process: nothing is posted, nothing is served.    *)
LEMMA Local ==
  ASSUME IInv, NEW r \in Callers, UNCHANGED <<soapVars, opts>>, TypeOK',
         \A q \in Callers : q # r =>
           pc'[q] = pc[q] /\ preview'[q] = preview[q] /\ guid'[q] = guid[q],
         Control(r)',
         preview'[r] = preview[r] \/ SendsOf(r) = {},
         pc'[r] = "sent" => pc[r] = "sent"
  PROVE  IInv'
<1>1. UNCHANGED <<phase, count, result, outbound, inbound, posted, served>>
  BY DEF soapVars, callVars
<1>2. WireInv'
  BY <1>1, StutterWire DEF IInv
<1>3. \A q \in Callers : SendsOf(q)' = SendsOf(q)
  BY <1>1 DEF SendsOf
<1>4. ASSUME NEW q \in Callers, q # r PROVE Running(q)'
  BY <1>1, <1>3, <1>4, Frame
<1>5. Sends(r)' /\ Answered(r)'
  BY <1>1, <1>3 DEF IInv, Running, Sends, Answered
<1> QED BY <1>2, <1>4, <1>5 DEF IInv, Running

(* The part of TypeOK that a step without calls cannot disturb.                 *)
LEMMA QuietTypes ==
  ASSUME IInv, UNCHANGED soapVars
  PROVE  SoapTypeOK' /\ \A m \in posted' : m.request \in Requests
<1>1. posted' = posted
  BY DEF soapVars
<1>2. WireInv'
  BY StutterWire DEF IInv
<1> QED BY <1>1, <1>2 DEF IInv, TypeOK, WireInv

LEMMA StartIInv == ASSUME IInv, NEW r \in Callers, Start(r) PROVE IInv'
<1> USE DEF IInv
<1>1. UNCHANGED <<soapVars, opts, preview, guid>>
  BY DEF Start
<1>2. TypeOK'
  <2>1. SoapTypeOK' /\ \A m \in posted' : m.request \in Requests
    BY <1>1, QuietTypes
  <2> QED BY <1>1, <2>1 DEF Start, Exit, Goto, TypeOK, Exits, portalVars
<1>3. \A q \in Callers : q # r => pc'[q] = pc[q]
  BY DEF Start, Exit, Goto, TypeOK
<1>4. Control(r)' /\ pc'[r] # "sent"
  BY <1>1 DEF Start, Exit, Goto, TypeOK, Running, Control, soapVars, callVars
<1> QED BY <1>1, <1>2, <1>3, <1>4, Local

LEMMA PrepareIInv == ASSUME IInv, NEW r \in Callers, Prepare(r) PROVE IInv'
<1> USE DEF IInv
<1>1. UNCHANGED <<soapVars, opts, guid>> /\ pc[r] = "send"
  BY DEF Prepare
<1>2. dispatch(opts[r]) \in Requests
  BY DispatchType DEF TypeOK
<1>3. TypeOK'
  <2>1. SoapTypeOK' /\ \A m \in posted' : m.request \in Requests
    BY <1>1, QuietTypes
  <2> QED BY <1>1, <1>2, <2>1
          DEF Prepare, Exit, Goto, TypeOK, Exits, portalVars, captureEnvelope
<1>4. \A q \in Callers : q # r => pc'[q] = pc[q] /\ preview'[q] = preview[q]
  BY DEF Prepare, Exit, Goto, TypeOK
<1>5. Control(r)' /\ pc'[r] # "sent"
  BY <1>1 DEF Prepare, Exit, Goto, TypeOK, Running, Control, soapVars, callVars, captureEnvelope
<1>6. SendsOf(r) = {}
  BY <1>1, NoCallNoPost DEF Running, Control
<1> QED BY <1>1, <1>3, <1>4, <1>5, <1>6, Local

(* What a run polls is a shipment or nothing.                                   *)
LEMMA PolledType ==
  ASSUME IInv, NEW r \in Callers, pc[r] = "sent"
  PROVE  polled(r, Answer(r)) \in Shipments \cup {NoGuid}
<1>1. GoodResults(result[r].value)
  BY DEF IInv, Running, Answered
<1> QED BY <1>1, FirstGUIDType DEF polled, Answer

LEMMA OutcomeType ==
  ASSUME NEW answer
  PROVE  outcomeOf(answer) \in Verdicts /\ outcomeOf(answer) \in Exits
  BY DEF outcomeOf, Verdicts, Exits

LEMMA ReportIInv == ASSUME IInv, NEW r \in Callers, Report(r) PROVE IInv'
<1> USE DEF IInv
<1>1. UNCHANGED <<soapVars, opts, preview>> /\ pc[r] = "sent"
  BY DEF Report
<1>2. polled(r, Answer(r)) \in Shipments \cup {NoGuid}
  BY <1>1, PolledType
<1>3. outcomeOf(Answer(r)) \in Verdicts /\ outcomeOf(Answer(r)) \in Exits
  BY OutcomeType
<1>4. TypeOK'
  <2>1. SoapTypeOK' /\ \A m \in posted' : m.request \in Requests
    BY <1>1, QuietTypes
  <2> QED BY <1>1, <1>2, <1>3, <2>1 DEF Report, Exit, Goto, TypeOK, portalVars
<1>5. \A q \in Callers : q # r => pc'[q] = pc[q] /\ guid'[q] = guid[q]
  BY DEF Report, Exit, Goto, TypeOK
<1>6. Control(r)' /\ pc'[r] # "sent"
  BY <1>1, <1>2 DEF Report, Exit, Goto, TypeOK, Running, Control
<1> QED BY <1>1, <1>4, <1>5, <1>6, Local

LEMMA PollStepIInv ==
  ASSUME IInv, NEW r \in Callers,
         PollLoop(r) \/ PollCancelled(r) \/ PollReport(r)
  PROVE  IInv'
<1> USE DEF IInv
<1>1. UNCHANGED <<soapVars, opts, preview, guid, portalVars, verdict, elapsed, expired, knew>>
  BY DEF PollLoop, PollCancelled, PollReport
<1>2. pc[r] \in {"poll", "wait", "polling"}
  BY DEF PollLoop, PollCancelled, PollReport
<1>3. \E where \in {"poll", "wait", "exited"} : pc' = [pc EXCEPT ![r] = where]
  BY DEF PollLoop, PollCancelled, PollReport, Exit, Goto
<1>4. exit' \in [Callers -> Exits]
  BY DEF PollLoop, PollCancelled, PollReport, Exit, Goto, TypeOK, Exits
<1>5. TypeOK'
  <2>1. SoapTypeOK' /\ \A m \in posted' : m.request \in Requests
    BY <1>1, QuietTypes
  <2> QED BY <1>1, <1>3, <1>4, <2>1 DEF TypeOK, portalVars
<1>6. (\A q \in Callers : q # r => pc'[q] = pc[q]) /\ Control(r)' /\ pc'[r] # "sent"
  BY <1>1, <1>2, <1>3 DEF TypeOK, Running, Control
<1> QED BY <1>1, <1>5, <1>6, Local

LEMMA ShowStatusIInv == ASSUME IInv, NEW r \in Callers, ShowStatus(r) PROVE IInv'
<1> USE DEF IInv
<1>1. UNCHANGED <<soapVars, opts, preview, guid, portalVars, verdict, elapsed, expired, knew>>
  BY DEF ShowStatus
<1>2. pc' = [pc EXCEPT ![r] = "exited"] /\ exit' \in [Callers -> Exits]
  BY DEF ShowStatus, Exit, TypeOK, Exits
<1>3. TypeOK'
  <2>1. SoapTypeOK' /\ \A m \in posted' : m.request \in Requests
    BY <1>1, QuietTypes
  <2> QED BY <1>1, <1>2, <2>1 DEF TypeOK, portalVars
<1>4. (\A q \in Callers : q # r => pc'[q] = pc[q]) /\ Control(r)' /\ pc'[r] # "sent"
  BY <1>1, <1>2 DEF TypeOK, Running, Control
<1> QED BY <1>1, <1>3, <1>4, Local

(* Time passing and a kill change where a run is at most to its end.            *)
LEMMA AsideIInv ==
  ASSUME IInv, NEW r \in Callers, Elapse(r) \/ Expire(r) \/ Kill(r)
  PROVE  IInv'
<1> USE DEF IInv
<1>1. UNCHANGED <<soapVars, opts, preview, guid, portalVars, verdict, knew>>
  BY DEF Elapse, Expire, Kill
<1>2. pc' = pc \/ pc' = [pc EXCEPT ![r] = "exited"]
  BY DEF Elapse, Expire, Kill, Exit
<1>3. exit' \in [Callers -> Exits] /\ elapsed' \subseteq Callers /\ expired' \subseteq Callers
  BY DEF Elapse, Expire, Kill, Exit, TypeOK, Exits
<1>4. TypeOK'
  <2>1. SoapTypeOK' /\ \A m \in posted' : m.request \in Requests
    BY <1>1, QuietTypes
  <2> QED BY <1>1, <1>2, <1>3, <2>1 DEF TypeOK, portalVars
<1>5. (\A q \in Callers : q # r => pc'[q] = pc[q]) /\ (pc'[r] = "sent" => pc[r] = "sent")
  BY <1>2 DEF TypeOK
<1>6. Control(r)'
  <2>1. SendsOf(r)' = SendsOf(r) /\ posted' = posted /\ count' = count
    BY <1>1 DEF SendsOf, soapVars, callVars
  <2> QED BY <1>1, <1>2, <2>1 DEF TypeOK, Running, Control
<1> QED BY <1>1, <1>4, <1>5, <1>6, Local
-------------------------------------------------------------------------------
(* A call of run r with a request of a known type: what it does to the wire.    *)
LEMMA RequestEffect ==
  ASSUME IInv, NEW r \in Callers, NEW request \in Requests, NEW zero,
         Request(r, request, zero), opts' = opts
  PROVE  /\ WireInv'
         /\ \A m \in posted' : m.request \in Requests
         /\ count' = [count EXCEPT ![r] = count[r] + 1]
         /\ \A q \in Callers : q # r => result'[q] = result[q]
         /\ result'[r].value = zero
         /\ served' = served
         /\ \A q \in Callers : q # r => SendsOf(q)' = SendsOf(q)
         /\ request.op \notin SendOps => SendsOf(r)' = SendsOf(r)
         /\ \A m \in posted' : m \in posted \/
              (m.id = <<r, count[r] + 1>> /\ m.request = request /\ buildable(opts[r]))
<1> USE DEF IInv
<1> DEFINE message == [id |-> <<r, count[r] + 1>>, request |-> request]
<1>1. CASE buildable(opts[r])
  <2>1. Call(r, request, zero)
    BY <1>1 DEF Request
  <2>2. WireInv'
    BY <2>1, CallWire
  <2>3. posted' = posted \cup {message} /\ served' = served
    BY <2>1 DEF Call
  <2>4. /\ count' = [count EXCEPT ![r] = count[r] + 1]
        /\ \A q \in Callers : q # r => result'[q] = result[q]
        /\ result'[r].value = zero
    BY <2>1 DEF Call, Begin, WireInv, SoapTypeOK
  <2>5. message.id = <<r, count[r] + 1>> /\ message.request = request /\ message.id[1] = r
    OBVIOUS
  <2> HIDE DEF message
  <2> QED BY <1>1, <2>2, <2>3, <2>4, <2>5 DEF SendsOf, TypeOK
<1>2. CASE ~buildable(opts[r])
  <2>1. Refuse(r, zero)
    BY <1>2 DEF Request
  <2>2. WireInv'
    BY <2>1, RefuseWire
  <2>3. posted' = posted /\ served' = served
    BY <2>1 DEF Refuse
  <2>4. /\ count' = [count EXCEPT ![r] = count[r] + 1]
        /\ \A q \in Callers : q # r => result'[q] = result[q]
        /\ result'[r].value = zero
    BY <2>1 DEF Refuse, Begin, WireInv, SoapTypeOK
  <2> QED BY <2>2, <2>3, <2>4 DEF SendsOf, TypeOK
<1> QED BY <1>1, <1>2

LEMMA DispatchIInv == ASSUME IInv, NEW r \in Callers, Dispatch(r) PROVE IInv'
<1> USE DEF IInv
<1>1. /\ UNCHANGED <<portalVars, opts, preview, verdict, guid, shown, elapsed, expired, knew, exit>>
      /\ pc[r] = "dispatch" /\ pc' = [pc EXCEPT ![r] = "sent"]
      /\ Request(r, dispatch(opts[r]), <<>>)
  BY DEF Dispatch, Goto
<1>2. dispatch(opts[r]) \in Requests
  BY DispatchType DEF TypeOK
<1>3. /\ WireInv'
      /\ \A m \in posted' : m.request \in Requests
      /\ count' = [count EXCEPT ![r] = count[r] + 1]
      /\ \A q \in Callers : q # r => result'[q] = result[q]
      /\ result'[r].value = <<>>
      /\ served' = served
      /\ \A q \in Callers : q # r => SendsOf(q)' = SendsOf(q)
      /\ \A m \in posted' : m \in posted \/
           (m.id = <<r, count[r] + 1>> /\ m.request = dispatch(opts[r]) /\ buildable(opts[r]))
  BY <1>1, <1>2, RequestEffect
<1>4. TypeOK'
  BY <1>1, <1>3 DEF TypeOK, WireInv, portalVars
<1>5. count[r] = 0 /\ SendsOf(r) = {} /\ \A m \in posted : m.id[1] # r
  BY <1>1, NoCallNoPost DEF Running, Control, WireInv, SoapTypeOK
<1>6. count'[r] = 1 /\ pc'[r] = "sent"
  BY <1>1, <1>3, <1>5 DEF TypeOK, SoapTypeOK
<1>7. ASSUME NEW q \in Callers, q # r PROVE Running(q)'
  <2>1. pc'[q] = pc[q] /\ count'[q] = count[q]
    BY <1>1, <1>3, <1>7 DEF TypeOK, SoapTypeOK
  <2> QED BY <1>1, <1>3, <1>7, <2>1, Frame
<1>8. Control(r)'
  <2>1. \A m \in posted' : m.id[1] = r => m \in SendsOf(r)'
    BY <1>2, <1>3, <1>5, DispatchType DEF SendsOf, TypeOK
  <2> QED BY <1>6, <2>1 DEF Control
<1>9. Sends(r)'
  <2>1. \A m \in SendsOf(r)' :
          m.id = <<r, 1>> /\ m.request = dispatch(opts[r]) /\ buildable(opts[r])
    BY <1>3, <1>5 DEF SendsOf
  <2> QED BY <1>1, <1>3, <1>5, <2>1 DEF Sends, Running, Control, sends
<1>10. Answered(r)'
  <2>1. \A m \in SendsOf(r)', s \in served' : s.id # m.id
    BY <1>3, <1>5 DEF WireInv, SoapTypeOK, Identified, SendsOf
  <2>2. GoodResults(result'[r].value)
    BY <1>3 DEF GoodResults
  <2> QED BY <2>1, <2>2 DEF Answered
<1> QED BY <1>3, <1>4, <1>7, <1>8, <1>9, <1>10 DEF Running

(* A status query posts no send.                                                *)
LEMMA QueryIInv ==
  ASSUME IInv, NEW r \in Callers, PollTick(r) \/ AskStatus(r)
  PROVE  IInv'
<1> USE DEF IInv
<1>1. /\ UNCHANGED <<portalVars, opts, preview, verdict, guid, shown, elapsed, expired, knew, exit>>
      /\ \E where \in {"polling", "asked"} :
           /\ pc' = [pc EXCEPT ![r] = where]
           /\ where = "polling" => guid[r] \in Shipments
  BY DEF PollTick, AskStatus, Goto, Running, Control
<1>2. PICK request \in Requests : Request(r, request, {}) /\ request.op \notin SendOps
  <2>1. CASE PollTick(r)
    <3>1. {guid[r]} \in SUBSET (Shipments \cup Refs)
      BY <2>1 DEF PollTick, Running, Control
    <3> QED BY <2>1, <3>1, QueryType DEF PollTick
  <2>2. CASE AskStatus(r)
    <3>1. {opts[r].status} \in SUBSET (Shipments \cup Refs)
      BY <2>2 DEF AskStatus, Running, Control, TypeOK, OptionSet
    <3>2. {opts[r].status} \in SUBSET (Refs \cup {NoRef})
      BY DEF TypeOK, OptionSet
    <3> QED BY <2>2, <3>1, <3>2, QueryType DEF AskStatus
  <2> QED BY <2>1, <2>2
<1>3. /\ WireInv'
      /\ \A m \in posted' : m.request \in Requests
      /\ count' = [count EXCEPT ![r] = count[r] + 1]
      /\ \A q \in Callers : q # r => result'[q] = result[q]
      /\ served' = served
      /\ \A q \in Callers : SendsOf(q)' = SendsOf(q)
      /\ \A m \in posted' : m \in posted \/ m.id = <<r, count[r] + 1>>
  BY <1>1, <1>2, RequestEffect
<1>4. TypeOK'
  BY <1>1, <1>3 DEF TypeOK, WireInv, portalVars
<1>5. ASSUME NEW q \in Callers, q # r PROVE Running(q)'
  <2>1. pc'[q] = pc[q] /\ count'[q] = count[q]
    BY <1>1, <1>3, <1>5 DEF TypeOK, SoapTypeOK
  <2> QED BY <1>1, <1>3, <1>5, <2>1, Frame
<1>6. Control(r)'
  BY <1>1 DEF Control, TypeOK
<1>7. Sends(r)' /\ Answered(r)'
  BY <1>1, <1>3 DEF Sends, Answered, Running, TypeOK
<1> QED BY <1>3, <1>4, <1>5, <1>6, <1>7 DEF Running

(* A call that comes back carries results, or leaves the out variable alone.    *)
LEMMA CallEndsIInv == ASSUME IInv, NEW r \in Callers, CallEnds(r) PROVE IInv'
<1> USE DEF IInv
<1>1. UNCHANGED <<runVars, portalVars>> /\ (Return(r) \/ Fail(r))
  BY DEF CallEnds
<1>2. WireInv'
  BY <1>1, ReturnWire, FailWire
<1>3. posted' = posted /\ served' = served /\ count' = count
  BY <1>1 DEF Return, Fail, Finish
<1>4. TypeOK'
  BY <1>1, <1>2, <1>3 DEF TypeOK, WireInv, runVars, portalVars
<1>5. \A q \in Callers : SendsOf(q)' = SendsOf(q)
  BY <1>3 DEF SendsOf
<1>6. ASSUME NEW q \in Callers, q # r PROVE Running(q)'
  <2>1. result'[q] = result[q]
    BY <1>1, <1>6 DEF Return, Fail, Finish, WireInv, SoapTypeOK
  <2> QED BY <1>1, <1>3, <1>5, <1>6, <2>1, Frame DEF runVars
<1>7. Control(r)' /\ Sends(r)'
  BY <1>1, <1>3, <1>5 DEF Running, Control, Sends, runVars
<1>8. Answered(r)'
  <2>1. ASSUME pc[r] = "sent" PROVE GoodResults(result'[r].value)
    <3>1. GoodResults(result[r].value)
      BY <2>1 DEF Running, Answered
    <3>2. CASE Fail(r)
      BY <3>1, <3>2 DEF Fail, Finish, WireInv, SoapTypeOK
    <3>3. CASE Return(r)
      <4>1. PICK s \in inbound : /\ s.id = <<r, count[r]>>
                                 /\ result' = [result EXCEPT ![r] =
                                      decodeResponse(s.response, result[r].value)]
        BY <3>3 DEF Return, Finish, Id
      <4>2. s \in served /\ s.id = <<r, 1>>
        BY <2>1, <4>1 DEF Running, Control, WireInv, SoapTypeOK
      <4>3. PICK m \in posted : m.id = s.id
        BY <4>2 DEF WireInv, Identified
      <4>4. result'[r].value \in {result[r].value, s.response.value}
        BY <4>1 DEF decodeResponse, WireInv, SoapTypeOK
      <4>5. m \in SendsOf(r)
        BY <2>1, <4>2, <4>3 DEF Running, Control
      <4>6. GoodResults(s.response.value)
        BY <4>2, <4>3, <4>5 DEF Running, Answered
      <4> QED BY <3>1, <4>4, <4>6
    <3> QED BY <1>1, <3>2, <3>3
  <2> QED BY <1>1, <1>3, <1>5, <2>1 DEF Running, Answered, runVars
<1> QED BY <1>2, <1>4, <1>6, <1>7, <1>8 DEF Running
-------------------------------------------------------------------------------
(* The portal's answers are of a kind the client knows, and hold results when   *)
(* they answer a send.                                                          *)
LEMMA ResultsType ==
  ASSUME NEW r \in Callers, NEW rs \in ResultsOf(r)
  PROVE  GoodResults(rs)
<1>1. PICK n \in 1 .. MaxResults : DOMAIN rs = 1 .. n
  BY DEF ResultsOf
<1>2. ASSUME NEW k \in DOMAIN rs PROVE rs[k].guid \in Shipments \cup {NoGuid}
  <2>1. k \in 1 .. MaxResults
    BY <1>1, LgtsendAssumption
  <2> QED BY <2>1 DEF ResultsOf, Shipments
<1> QED BY <1>1, <1>2 DEF GoodResults

LEMMA TroubleType ==
  ASSUME NEW value, NEW answer \in Troubles(value)
  PROVE  answer.kind \in Kinds /\ answer.value = value
  BY DEF Troubles, Reply, Kinds

(* An answer put on the wire, for the runs.                                     *)
LEMMA ServeKeeps ==
  ASSUME IInv, NEW m, NEW a, Serve(m, a), a.kind \in Kinds, UNCHANGED runVars, TypeOK',
         m.request.op \in SendOps => GoodResults(a.value)
  PROVE  IInv'
<1> USE DEF IInv
<1> DEFINE reply == [id |-> m.id, response |-> a]
<1>1. WireInv'
  BY ServeWire
<1>2. /\ UNCHANGED <<phase, count, result, posted>>
      /\ served' = served \cup {reply}
      /\ m \in posted
  BY DEF Serve, callVars, WireInv, SoapTypeOK
<1>3. reply.id = m.id /\ reply.response = a
  OBVIOUS
<1> HIDE DEF reply
<1>4. ASSUME NEW q \in Callers PROVE Running(q)'
  <2>1. SendsOf(q)' = SendsOf(q)
    BY <1>2 DEF SendsOf
  <2>2. ASSUME NEW k \in SendsOf(q), NEW s \in served', s.id = k.id
        PROVE  s \in served \/ GoodResults(s.response.value)
    <3>1. CASE s \in served
      BY <3>1
    <3>2. CASE s = reply
      <4>1. k = m
        BY <1>2, <1>3, <2>2, <3>2 DEF SendsOf, WireInv, Identified
      <4> QED BY <1>3, <3>2, <4>1 DEF SendsOf
    <3> QED BY <1>2, <3>1, <3>2
  <2> QED BY <1>2, <2>1, <2>2, Frame DEF runVars
<1> QED BY <1>1, <1>4

LEMMA CreateType ==
  ASSUME IInv, NEW r, NEW new, Create(r, new)
  PROVE  shipment' \in [Shipments -> Statuses \cup {Absent}]
  BY DEF IInv, TypeOK, Create, Statuses

(* The types outside the wire, when the portal changes its own variables only.  *)
LEMMA PortalTypes ==
  ASSUME IInv, UNCHANGED runVars, WireInv', posted' = posted,
         shipment' \in [Shipments -> Statuses \cup {Absent}], visible' \subseteq Shipments
  PROVE  TypeOK'
  BY DEF IInv, TypeOK, runVars, WireInv

LEMMA ServeSendIInv == ASSUME IInv, NEW m \in outbound, ServeSend(m) PROVE IInv'
<1> USE DEF IInv
<1>1. m \in posted /\ m.id[1] \in Callers
  BY DEF WireInv, SoapTypeOK
<1>2. PICK a : /\ Serve(m, a) /\ a.kind \in Kinds /\ GoodResults(a.value)
               /\ visible' \subseteq Shipments
               /\ \E new : Create(m.id[1], new)
  <2>1. CASE \E rs \in ResultsOf(m.id[1]) :
               /\ Create(m.id[1], AcceptedIn(rs))
               /\ visible' = visible \cup ({rs[k].guid : k \in DOMAIN rs} \ {NoGuid})
               /\ Serve(m, Reply("payload", rs))
    <3>1. PICK rs \in ResultsOf(m.id[1]) :
               /\ Create(m.id[1], AcceptedIn(rs))
               /\ visible' = visible \cup ({rs[k].guid : k \in DOMAIN rs} \ {NoGuid})
               /\ Serve(m, Reply("payload", rs))
      BY <2>1
    <3>2. GoodResults(rs)
      BY <1>1, ResultsType
    <3>3. visible' \subseteq Shipments
      BY <3>1, <3>2 DEF GoodResults, TypeOK
    <3>4. Reply("payload", rs).kind \in Kinds /\ Reply("payload", rs).value = rs
      BY DEF Reply, Kinds
    <3> QED BY <3>1, <3>2, <3>3, <3>4
  <2>2. CASE \E new \in {{}, {1}},
               answer \in {Reply("empty", <<>>)}
                 \cup Troubles(<<[retCode |-> RetCodeOK, guid |-> NoGuid]>>) :
               /\ Create(m.id[1], new)
               /\ Serve(m, answer)
               /\ UNCHANGED visible
    <3>1. PICK new \in {{}, {1}},
               answer \in {Reply("empty", <<>>)}
                 \cup Troubles(<<[retCode |-> RetCodeOK, guid |-> NoGuid]>>) :
               /\ Create(m.id[1], new)
               /\ Serve(m, answer)
               /\ UNCHANGED visible
      BY <2>2
    <3>2. GoodResults(<<>>) /\ GoodResults(<<[retCode |-> RetCodeOK, guid |-> NoGuid]>>)
      BY DEF GoodResults
    <3>3. answer.kind \in Kinds /\ GoodResults(answer.value)
      <4>1. CASE answer = Reply("empty", <<>>)
        BY <3>2, <4>1 DEF Reply, Kinds
      <4>2. CASE answer \in Troubles(<<[retCode |-> RetCodeOK, guid |-> NoGuid]>>)
        BY <3>2, <4>2, TroubleType
      <4> QED BY <4>1, <4>2
    <3> QED BY <3>1, <3>3 DEF TypeOK
  <2> QED BY <2>1, <2>2 DEF ServeSend
<1>3. WireInv'
  BY <1>2, ServeWire
<1>4. TypeOK'
  <2>1. posted' = posted
    BY <1>2 DEF Serve
  <2> QED BY <1>2, <1>3, <2>1, CreateType, PortalTypes DEF ServeSend
<1> QED BY <1>2, <1>4, ServeKeeps DEF ServeSend

LEMMA ServeStatusIInv == ASSUME IInv, NEW m \in outbound, ServeStatus(m) PROVE IInv'
<1> USE DEF IInv
<1>1. PICK a : Serve(m, a) /\ a.kind \in Kinds
  <2>1. Reply("payload", {[guid |-> s, status |-> shipment[s]] : s \in Matching(m.request)}).kind
          \in Kinds
    BY DEF Reply, Kinds
  <2>2. Reply("empty", {}).kind \in Kinds
    BY DEF Reply, Kinds
  <2> QED BY <2>1, <2>2, TroubleType DEF ServeStatus
<1>2. m.request.op \notin SendOps /\ UNCHANGED <<runVars, portalVars>>
  BY NoStatusOp DEF ServeStatus
<1>3. TypeOK'
  <2>1. WireInv' /\ posted' = posted
    BY <1>1, ServeWire DEF Serve
  <2> QED BY <1>2, <2>1, PortalTypes DEF portalVars, TypeOK
<1> QED BY <1>1, <1>2, <1>3, ServeKeeps

LEMMA PortalIInv ==
  ASSUME IInv, NEW s \in Shipments, Move(s) \/ AssignGuid(s)
  PROVE  IInv'
<1> USE DEF IInv
<1>1. UNCHANGED <<soapVars, runVars>>
  BY DEF Move, AssignGuid
<1>2. shipment' \in [Shipments -> Statuses \cup {Absent}] /\ visible' \subseteq Shipments
  BY LgtsendAssumption DEF Move, AssignGuid, TypeOK
<1>3. WireInv' /\ UNCHANGED <<phase, count, result, outbound, inbound, posted, served>>
  BY <1>1, StutterWire DEF soapVars, callVars
<1>4. TypeOK'
  BY <1>1, <1>2, <1>3, PortalTypes
<1>5. ASSUME NEW q \in Callers PROVE Running(q)'
  <2>1. SendsOf(q)' = SendsOf(q)
    BY <1>3 DEF SendsOf
  <2> QED BY <1>1, <1>3, <2>1, Frame DEF runVars
<1> QED BY <1>3, <1>4, <1>5

LEMMA NextIInv == IInv /\ [Next]_vars => IInv'
<1> SUFFICES ASSUME IInv, [Next]_vars PROVE IInv'
  OBVIOUS
<1>1. ASSUME NEW r \in Callers, Step(r) PROVE IInv'
  BY <1>1, StartIInv, PrepareIInv, DispatchIInv, ReportIInv, PollStepIInv, QueryIInv,
     ShowStatusIInv DEF Step
<1>2. ASSUME NEW r \in Callers, CallEnds(r) \/ Elapse(r) \/ Expire(r) \/ Kill(r) PROVE IInv'
  BY <1>2, CallEndsIInv, AsideIInv
<1>3. ASSUME NEW m \in outbound, ServeSend(m) \/ ServeStatus(m) PROVE IInv'
  BY <1>3, ServeSendIInv, ServeStatusIInv
<1>4. ASSUME NEW s \in Shipments, Move(s) \/ AssignGuid(s) PROVE IInv'
  BY <1>4, PortalIInv
<1>5. CASE UNCHANGED vars
  <2>1. UNCHANGED <<soapVars, runVars, portalVars>>
    BY <1>5 DEF vars
  <2>2. WireInv' /\ UNCHANGED <<phase, count, result, outbound, inbound, posted, served>>
    BY <2>1, StutterWire DEF soapVars, callVars, IInv
  <2>3. TypeOK'
    BY <2>1, <2>2, PortalTypes DEF IInv, TypeOK, portalVars
  <2>4. ASSUME NEW q \in Callers PROVE Running(q)'
    <3>1. SendsOf(q)' = SendsOf(q)
      BY <2>2 DEF SendsOf
    <3> QED BY <2>1, <2>2, <3>1, Frame DEF runVars
  <2> QED BY <2>2, <2>3, <2>4 DEF IInv
<1> QED BY <1>1, <1>2, <1>3, <1>4, <1>5 DEF Next

(* The inductive invariant holds of every behaviour of the command.             *)
THEOREM Invariance == Spec => []IInv
<1> QED BY InitIInv, NextIInv, PTL DEF Spec

(* Types of every variable, for any runs, flags and number of results.          *)
THEOREM TypeCorrect == Spec => []TypeOK
<1>1. IInv => TypeOK BY DEF IInv
<1> QED BY <1>1, Invariance, PTL

(* Nothing is sent without -send and a complete request, nor with -status.      *)
THEOREM NeverSendsUnasked == Spec => []NothingSentUnasked
<1>1. IInv => NothingSentUnasked
  BY DEF IInv, Running, Sends, NothingSentUnasked
<1> QED BY <1>1, Invariance, PTL

(* What is sent is what was printed.                                            *)
THEOREM SendsThePreview == Spec => []PreviewIsWhatIsSent
<1>1. IInv => PreviewIsWhatIsSent
  BY DEF IInv, Running, Sends, PreviewIsWhatIsSent
<1> QED BY <1>1, Invariance, PTL

(* A run submits at most once, whatever the network and the portal do.          *)
THEOREM SubmitsOnce == Spec => []SubmittedOnce
<1>1. IInv => SubmittedOnce
  BY DEF IInv, WireInv, Identified, Running, Sends, SubmittedOnce, SendsOf
<1> QED BY <1>1, Invariance, PTL
-------------------------------------------------------------------------------
(* What the runs say is true.  Truth strengthens VerdictIsTrue, AdviceIsSound   *)
(* and PollsItsOwn into something that steps preserve: every answer a run       *)
(* relies on is one that was served, to what it asked, and still holds.         *)
Waiting(r) == pc[r] \in {"sent", "polling", "asked"}

zeroOf(r) == IF pc[r] = "sent" THEN <<>> ELSE {}

(* What a run heard of the call it waits for.                                   *)
Heard(r) ==
  Waiting(r) =>
    /\ phase[r] = "flight" => result[r].value = zeroOf(r)
    /\ phase[r] = "returned" =>
         \/ result[r].err \in {"request", "transport"}
         \/ \E s \in served : s.id = Id(r) /\ result[r] = decodeResponse(s.response, zeroOf(r))

(* What it asked.                                                               *)
Asking(r) ==
  \A m \in posted : m.id = Id(r) =>
    /\ pc[r] = "polling" => m.request = statusQuery({guid[r]}, {})
    /\ pc[r] = "asked" => m.request = statusQuery({opts[r].status}, {opts[r].status})

Decided == {"accepted", "refused", "silent"}

(* What it said, and what that rests on.                                        *)
Said(r) ==
  /\ pc[r] # "exited" => exit[r] = "none"
  /\ pc[r] \in {"idle", "send", "dispatch", "sent", "status", "asked"} =>
       verdict[r] = "none" /\ shown[r] = {}
  /\ pc[r] \in {"poll", "wait", "polling"} =>
       /\ verdict[r] = "accepted"
       /\ guid[r][1] = r /\ shipment[guid[r]] # Absent
       /\ \A state \in shown[r] : state.guid = guid[r]
  /\ verdict[r] \in Decided =>
       \E s \in SendServed(r) : decisionOf(s.response) = verdict[r]
  /\ exit[r] \in {"accepted", "silent"} => verdict[r] = exit[r]
  /\ exit[r] = "previewed" => ~sends(opts[r])
  /\ pc[r] = "asked" \/ exit[r] \in {"nomatch", "matched"} => opts[r].status # NoRef
  /\ exit[r] = "nomatch" =>
       \E m \in posted, s \in served :
         /\ m.id[1] = r /\ s.id = m.id
         /\ m.request = statusQuery({opts[r].status}, {opts[r].status})
         /\ s.response.kind \in {"empty", "absent"}

(* The portal's answers to sends tell what it created.                          *)
SendAnswers ==
  \A r \in Callers : \A m \in SendsOf(r), s \in served :
    s.id = m.id /\ s.response.kind = "payload" =>
      /\ s.response.value \in ResultsOf(r)
      /\ \A k \in AcceptedIn(s.response.value) : shipment[<<r, k>>] # Absent

(* Its answers to queries tell what they name, and one that found nothing still *)
(* would find nothing of a run that had ended silently before it was made.      *)
QueryAnswers ==
  \A m \in posted, s \in served :
    s.id = m.id /\ m.request.op = StatusOp =>
      /\ s.response.kind = "payload" =>
           /\ s.response.value # {}
           /\ m.request.refs = {} => \A state \in s.response.value : state.guid \in m.request.guids
      /\ s.response.kind \in {"empty", "absent"} =>
           \A r \in knew[m.id[1]] :
             exit[r] = "silent" /\ opts[r].externalID \in m.request.refs => Created(r) = {}

KnewEnded == \A q \in Callers : \A r \in knew[q] : pc[r] = "exited"

Truth ==
  /\ \A r \in Callers : Heard(r) /\ Asking(r) /\ Said(r)
  /\ SendAnswers /\ QueryAnswers /\ KnewEnded
  /\ DOMAIN shown = Callers

LEMMA InitTruth == Init => Truth
  BY DEF Init, SoapInit, Truth, Heard, Asking, Said, Waiting, SendAnswers, QueryAnswers,
         KnewEnded, SendsOf, Decided, Absent

(* What is said of a run stays when it does not move, while requests and        *)
(* answers are added and shipments come and move on.                            *)
LEMMA TruthFrame ==
  ASSUME IInv, Truth, NEW q \in Callers, opts' = opts,
         pc'[q] = pc[q], exit'[q] = exit[q], verdict'[q] = verdict[q], guid'[q] = guid[q],
         shown'[q] = shown[q], phase'[q] = phase[q], count'[q] = count[q],
         result'[q] = result[q], served \subseteq served', posted \subseteq posted',
         \A m \in posted' : m.id[1] = q => m \in posted,
         \A s \in Shipments : shipment[s] # Absent => shipment'[s] # Absent
  PROVE  Heard(q)' /\ Asking(q)' /\ Said(q)'
<1>1. Heard(q) /\ Asking(q) /\ Said(q)
  BY DEF Truth
<1>2. Heard(q)'
  BY <1>1 DEF Heard, Waiting, zeroOf, Id
<1>3. Asking(q)'
  <2> SUFFICES ASSUME NEW m \in posted', m.id = Id(q)'
               PROVE  /\ pc'[q] = "polling" => m.request = statusQuery({guid'[q]}, {})
                      /\ pc'[q] = "asked" =>
                           m.request = statusQuery({opts'[q].status}, {opts'[q].status})
    BY DEF Asking
  <2>1. m.id = Id(q) /\ m \in posted
    BY DEF Id
  <2> QED BY <1>1, <2>1 DEF Asking
<1>4. Said(q)'
  <2>1. \A s \in SendServed(q) : s \in SendServed(q)'
    BY DEF SendServed, SendsOf
  <2>2. pc[q] \in {"poll", "wait", "polling"} => guid[q] \in Shipments
    BY DEF IInv, Running, Control
  <2> QED BY <1>1, <2>1, <2>2 DEF Said
<1> QED BY <1>2, <1>3, <1>4

(* A step of run r that creates nothing, and posts at most its next request.    *)
LEMMA TruthMove ==
  ASSUME IInv, Truth, NEW r \in Callers, UNCHANGED <<opts, served, shipment>>,
         posted \subseteq posted',
         \A m \in posted' : m \in posted \/ m.id = <<r, count[r] + 1>>,
         \A q \in Callers : q # r =>
           /\ pc'[q] = pc[q] /\ exit'[q] = exit[q] /\ verdict'[q] = verdict[q]
           /\ guid'[q] = guid[q] /\ shown'[q] = shown[q] /\ knew'[q] = knew[q]
           /\ phase'[q] = phase[q] /\ count'[q] = count[q] /\ result'[q] = result[q],
         pc[r] # "exited",
         \/ knew'[r] = knew[r]
         \/ count[r] = 0 /\ knew'[r] = {q \in Callers : pc[q] = "exited"},
         Heard(r)', Asking(r)', Said(r)', DOMAIN shown' = Callers
  PROVE  Truth'
<1>1. ASSUME NEW q \in Callers, q # r PROVE Heard(q)' /\ Asking(q)' /\ Said(q)'
  BY <1>1, TruthFrame
<1>2. \A m \in posted' : m \in posted \/ \A s \in served : s.id # m.id
  BY DEF IInv, WireInv, SoapTypeOK, Identified
<1>3. SendAnswers'
  BY <1>2 DEF Truth, SendAnswers, SendsOf
<1>4. \A q \in Callers : \A p \in knew[q] : p \in Callers /\ p # r /\ pc[p] = "exited"
  BY DEF Truth, KnewEnded, IInv, TypeOK
<1>5. \A m \in posted : m.id[1] \in Callers /\ (count[r] = 0 => m.id[1] # r)
  BY DEF IInv, WireInv, SoapTypeOK
<1>6. QueryAnswers'
  <2> SUFFICES ASSUME NEW m \in posted, NEW s \in served, s.id = m.id, m.request.op = StatusOp,
                      s.response.kind \in {"empty", "absent"}, NEW p \in knew'[m.id[1]],
                      exit'[p] = "silent", opts[p].externalID \in m.request.refs
               PROVE  Created(p) = {}
    BY <1>2 DEF Truth, QueryAnswers, Created
  <2>1. p \in knew[m.id[1]]
    BY <1>5
  <2> QED BY <1>4, <1>5, <2>1 DEF Truth, QueryAnswers
<1>7. KnewEnded'
  BY <1>4 DEF KnewEnded
<1> QED BY <1>1, <1>3, <1>6, <1>7 DEF Truth

(* One run moves.                                                               *)
LEMMA OneMoves ==
  ASSUME IInv, NEW r \in Callers, NEW where, pc' = [pc EXCEPT ![r] = where]
  PROVE  pc'[r] = where /\ \A q \in Callers : q # r => pc'[q] = pc[q]
  BY DEF IInv, TypeOK

LEMMA OneEnds ==
  ASSUME IInv, NEW r \in Callers, NEW how, exit' = [exit EXCEPT ![r] = how]
  PROVE  exit'[r] = how /\ \A q \in Callers : q # r => exit'[q] = exit[q]
  BY DEF IInv, TypeOK

(* A call is begun for one run.                                                 *)
LEMMA BeginOthers ==
  ASSUME IInv, NEW r \in Callers, NEW where, NEW answer, Begin(r, where, answer)
  PROVE  /\ \A q \in Callers : q # r =>
              phase'[q] = phase[q] /\ count'[q] = count[q] /\ result'[q] = result[q]
         /\ phase'[r] = where /\ result'[r] = answer /\ count'[r] = count[r] + 1
<1>1. phase \in [Callers -> Phases] /\ count \in [Callers -> Nat] /\ DOMAIN result = Callers
  BY DEF IInv, WireInv, SoapTypeOK
<1>2. /\ phase' = [phase EXCEPT ![r] = where] /\ result' = [result EXCEPT ![r] = answer]
      /\ count' = [count EXCEPT ![r] = @ + 1]
  BY DEF Begin
<1> QED BY <1>1, <1>2

(* What a request made by run r leaves behind, as far as Truth needs it.        *)
LEMMA RequestTruth ==
  ASSUME IInv, NEW r \in Callers, NEW request, NEW zero, Request(r, request, zero)
  PROVE  /\ \A q \in Callers : q # r =>
              phase'[q] = phase[q] /\ count'[q] = count[q] /\ result'[q] = result[q]
         /\ result'[r].value = zero
         /\ phase'[r] = "returned" => result'[r].err = "request"
         /\ count'[r] = count[r] + 1
         /\ served' = served /\ posted \subseteq posted'
         /\ \A m \in posted' : m \in posted \/ (m.id = <<r, count[r] + 1>> /\ m.request = request)
<1>1. CASE buildable(opts[r])
  <2>1. Call(r, request, zero)
    BY <1>1 DEF Request
  <2> DEFINE message == [id |-> <<r, count[r] + 1>>, request |-> request]
  <2>2. posted' = posted \cup {message} /\ served' = served
    BY <2>1 DEF Call
  <2>3. message.id = <<r, count[r] + 1>> /\ message.request = request
    OBVIOUS
  <2> HIDE DEF message
  <2>4. Begin(r, "flight", [err |-> "none", value |-> zero])
    BY <2>1 DEF Call
  <2>5. PICK answer : answer.value = zero /\ Begin(r, "flight", answer)
    BY <2>4
  <2>6. /\ \A q \in Callers : q # r =>
             phase'[q] = phase[q] /\ count'[q] = count[q] /\ result'[q] = result[q]
        /\ phase'[r] = "flight" /\ result'[r] = answer /\ count'[r] = count[r] + 1
    BY <2>5, BeginOthers
  <2> QED BY <2>2, <2>3, <2>5, <2>6
<1>2. CASE ~buildable(opts[r])
  <2>1. PICK answer :
          answer.value = zero /\ answer.err = "request" /\ Begin(r, "returned", answer)
    <3>1. Begin(r, "returned", [err |-> "request", value |-> zero])
      BY <1>2 DEF Request, Refuse
    <3> QED BY <3>1
  <2>2. posted' = posted /\ served' = served
    BY <1>2 DEF Request, Refuse
  <2>3. /\ \A q \in Callers : q # r =>
             phase'[q] = phase[q] /\ count'[q] = count[q] /\ result'[q] = result[q]
        /\ result'[r] = answer /\ count'[r] = count[r] + 1
    BY <2>1, BeginOthers
  <2> QED BY <2>1, <2>2, <2>3
<1> QED BY <1>1, <1>2

LEMMA DispatchTruth == ASSUME IInv, Truth, NEW r \in Callers, Dispatch(r) PROVE Truth'
<1>1. /\ UNCHANGED <<portalVars, opts, verdict, guid, shown, knew, exit>>
      /\ pc[r] = "dispatch" /\ pc' = [pc EXCEPT ![r] = "sent"]
      /\ Request(r, dispatch(opts[r]), <<>>)
  BY DEF Dispatch, Goto
<1>2. /\ \A q \in Callers : q # r =>
           phase'[q] = phase[q] /\ count'[q] = count[q] /\ result'[q] = result[q]
      /\ result'[r].value = <<>>
      /\ phase'[r] = "returned" => result'[r].err = "request"
      /\ served' = served /\ posted \subseteq posted'
      /\ \A m \in posted' : m \in posted \/ m.id = <<r, count[r] + 1>>
  BY <1>1, RequestTruth
<1>3. pc'[r] = "sent" /\ \A q \in Callers : q # r => pc'[q] = pc[q]
  BY <1>1 DEF IInv, TypeOK
<1>4. Heard(r)' /\ Asking(r)'
  BY <1>2, <1>3 DEF Heard, Asking, zeroOf
<1>5. Said(r)'
  <2>1. verdict'[r] = "none" /\ exit'[r] = "none" /\ shown'[r] = {}
    BY <1>1 DEF Truth, Said
  <2> QED BY <1>3, <2>1 DEF Said, Decided
<1>6. DOMAIN shown' = Callers
  BY <1>1 DEF Truth
<1> QED BY <1>1, <1>2, <1>3, <1>4, <1>5, <1>6, TruthMove DEF portalVars

(* A query asks for what the run says it asks for.                              *)
LEMMA QueryTruth ==
  ASSUME IInv, Truth, NEW r \in Callers, PollTick(r) \/ AskStatus(r)
  PROVE  Truth'
<1>1. UNCHANGED <<portalVars, opts, verdict, guid, shown, knew, exit>>
  BY DEF PollTick, AskStatus, Goto
<1>2. \/ /\ pc[r] = "wait" /\ pc' = [pc EXCEPT ![r] = "polling"]
         /\ Request(r, statusQuery({guid[r]}, {}), {})
      \/ /\ pc[r] = "status" /\ pc' = [pc EXCEPT ![r] = "asked"]
         /\ Request(r, statusQuery({opts[r].status}, {opts[r].status}), {})
  BY DEF PollTick, AskStatus, Goto
<1>3. PICK request : /\ Request(r, request, {})
                     /\ pc[r] = "wait" => request = statusQuery({guid[r]}, {})
                     /\ pc[r] = "status" =>
                          request = statusQuery({opts[r].status}, {opts[r].status})
  BY <1>2
<1>4. /\ \A q \in Callers : q # r =>
           phase'[q] = phase[q] /\ count'[q] = count[q] /\ result'[q] = result[q]
      /\ result'[r].value = {}
      /\ phase'[r] = "returned" => result'[r].err = "request"
      /\ count'[r] = count[r] + 1
      /\ served' = served /\ posted \subseteq posted'
      /\ \A m \in posted' : m \in posted \/ (m.id = <<r, count[r] + 1>> /\ m.request = request)
  BY <1>3, RequestTruth
<1>5. /\ (pc[r] = "wait" /\ pc'[r] = "polling") \/ (pc[r] = "status" /\ pc'[r] = "asked")
      /\ \A q \in Callers : q # r => pc'[q] = pc[q]
  <2>1. \/ pc[r] = "wait" /\ pc' = [pc EXCEPT ![r] = "polling"]
        \/ pc[r] = "status" /\ pc' = [pc EXCEPT ![r] = "asked"]
    BY <1>2
  <2> QED BY <2>1, OneMoves
<1>6. Heard(r)'
  BY <1>4, <1>5 DEF Heard, zeroOf
<1>7. Asking(r)'
  <2> SUFFICES ASSUME NEW m \in posted', m.id = Id(r)'
               PROVE  /\ pc'[r] = "polling" => m.request = statusQuery({guid'[r]}, {})
                      /\ pc'[r] = "asked" =>
                           m.request = statusQuery({opts'[r].status}, {opts'[r].status})
    BY DEF Asking
  <2>1. m \notin posted
    <3>1. m.id = <<r, count[r] + 1>>
      BY <1>4 DEF Id
    <3> QED BY <3>1 DEF IInv, WireInv, SoapTypeOK
  <2> QED BY <1>1, <1>3, <1>4, <1>5, <2>1
<1>8. Said(r)'
  <2>1. Said(r)
    BY DEF Truth
  <2>2. \A s \in SendServed(r) : s \in SendServed(r)'
    BY <1>4 DEF SendServed, SendsOf
  <2>3. pc[r] = "status" => opts[r].status # NoRef
    BY DEF IInv, Running, Control
  <2> QED BY <1>1, <1>5, <2>1, <2>2, <2>3 DEF Said, portalVars, Decided
<1>9. DOMAIN shown' = Callers
  BY <1>1 DEF Truth
<1> QED BY <1>1, <1>4, <1>5, <1>6, <1>7, <1>8, <1>9, TruthMove DEF portalVars

(* A step within the process: no call is made, none comes back.                 *)
LEMMA LocalTruth ==
  ASSUME IInv, Truth, NEW r \in Callers, UNCHANGED <<soapVars, portalVars, opts>>,
         \A q \in Callers : q # r =>
           /\ pc'[q] = pc[q] /\ exit'[q] = exit[q] /\ verdict'[q] = verdict[q]
           /\ guid'[q] = guid[q] /\ shown'[q] = shown[q] /\ knew'[q] = knew[q],
         pc[r] # "exited",
         \/ knew'[r] = knew[r]
         \/ count[r] = 0 /\ knew'[r] = {q \in Callers : pc[q] = "exited"},
         ~Waiting(r)', Said(r)', DOMAIN shown' = Callers
  PROVE  Truth'
<1>1. UNCHANGED <<phase, count, result, posted, served, shipment>>
  BY DEF soapVars, callVars, portalVars
<1>2. Heard(r)' /\ Asking(r)'
  BY DEF Heard, Asking, Waiting
<1>3. \A q \in Callers : q # r =>
        phase'[q] = phase[q] /\ count'[q] = count[q] /\ result'[q] = result[q]
  BY <1>1
<1> QED BY <1>1, <1>2, <1>3, TruthMove

LEMMA StartTruth == ASSUME IInv, Truth, NEW r \in Callers, Start(r) PROVE Truth'
<1>1. /\ UNCHANGED <<soapVars, portalVars, opts, verdict, guid, shown>> /\ pc[r] = "idle"
      /\ knew' = [knew EXCEPT ![r] = {q \in Callers : pc[q] = "exited"}]
  BY DEF Start
<1>2. /\ pc'[r] \in {"exited", "status", "send"}
      /\ exit'[r] = exit[r] \/ (exit'[r] = "usage" /\ pc'[r] = "exited")
      /\ \A q \in Callers : q # r =>
           pc'[q] = pc[q] /\ exit'[q] = exit[q] /\ knew'[q] = knew[q]
      /\ knew'[r] = {q \in Callers : pc[q] = "exited"}
  <2>1. \/ \E where \in {"status", "send"} : pc' = [pc EXCEPT ![r] = where] /\ exit' = exit
        \/ pc' = [pc EXCEPT ![r] = "exited"] /\ exit' = [exit EXCEPT ![r] = "usage"]
    BY DEF Start, Exit, Goto
  <2>2. knew'[r] = {q \in Callers : pc[q] = "exited"} /\
        \A q \in Callers : q # r => knew'[q] = knew[q]
    BY <1>1 DEF IInv, TypeOK
  <2> QED BY <2>1, <2>2, OneMoves, OneEnds
<1>3. count[r] = 0
  BY <1>1 DEF IInv, Running, Control
<1>4. Said(r)'
  <2>1. verdict[r] = "none" /\ exit[r] = "none" /\ shown[r] = {}
    BY <1>1 DEF Truth, Said
  <2> QED BY <1>1, <1>2, <2>1 DEF Said, Decided
<1>5. ~Waiting(r)'
  BY <1>2 DEF Waiting
<1>6. DOMAIN shown' = Callers
  BY <1>1 DEF Truth
<1> QED BY <1>1, <1>2, <1>3, <1>4, <1>5, <1>6, LocalTruth

LEMMA PrepareTruth == ASSUME IInv, Truth, NEW r \in Callers, Prepare(r) PROVE Truth'
<1>1. UNCHANGED <<soapVars, portalVars, opts, verdict, guid, shown, knew>> /\ pc[r] = "send"
  BY DEF Prepare
<1>2. /\ \/ pc'[r] = "dispatch" /\ exit'[r] = exit[r]
         \/ pc'[r] = "exited" /\ exit'[r] = "usage"
         \/ pc'[r] = "exited" /\ exit'[r] = "previewed" /\ ~sends(opts[r])
      /\ \A q \in Callers : q # r => pc'[q] = pc[q] /\ exit'[q] = exit[q]
  BY DEF Prepare, Exit, Goto, IInv, TypeOK
<1>3. Said(r)'
  <2>1. verdict[r] = "none" /\ exit[r] = "none" /\ shown[r] = {}
    BY <1>1 DEF Truth, Said
  <2> QED BY <1>1, <1>2, <2>1 DEF Said, Decided
<1>4. ~Waiting(r)'
  BY <1>2 DEF Waiting
<1>5. DOMAIN shown' = Callers
  BY <1>1 DEF Truth
<1> QED BY <1>1, <1>2, <1>3, <1>4, <1>5, LocalTruth

(* The GUID a run polls is that of a result that was accepted.                  *)
LEMMA FirstGUIDOf ==
  ASSUME NEW r \in Callers, NEW rs \in ResultsOf(r), firstGUID(rs) # NoGuid
  PROVE  \E k \in AcceptedIn(rs) : firstGUID(rs) = <<r, k>> /\ k \in 1 .. MaxResults
<1> DEFINE with == {k \in DOMAIN rs : rs[k].guid # NoGuid}
<1>1. PICK n \in 1 .. MaxResults : DOMAIN rs = 1 .. n
  BY DEF ResultsOf
<1>2. with # {} /\ with \subseteq Nat
  BY <1>1 DEF firstGUID
<1>3. PICK k \in with : firstGUID(rs) = rs[k].guid
  <2>1. \E k \in with : \A j \in with : k <= j
    BY <1>2, LeastIndex
  <2>2. (CHOOSE k \in with : \A j \in with : k <= j) \in with
    BY <2>1
  <2> QED BY <1>2, <2>2 DEF firstGUID
<1>4. rs[k] \in {[retCode |-> 140, guid |-> NoGuid], [retCode |-> RetCodeOK, guid |-> NoGuid],
                 [retCode |-> RetCodeOK, guid |-> <<r, k>>]}
  BY DEF ResultsOf
<1>5. rs[k].retCode = RetCodeOK /\ rs[k].guid = <<r, k>>
  BY <1>4
<1>6. k \in 1 .. MaxResults
  BY <1>1, LgtsendAssumption
<1> QED BY <1>3, <1>5, <1>6 DEF AcceptedIn, Err

(* An answer that a run took for one without error or from which it read        *)
(* results.                                                                     *)
LEMMA NilAnswer ==
  ASSUME NEW response, NEW out, response.kind \in Kinds,
         decodeResponse(response, out).err = "nil"
  PROVE  \/ /\ response.kind = "payload"
            /\ decodeResponse(response, out).value = response.value
         \/ /\ response.kind \in {"empty", "absent"}
            /\ decodeResponse(response, out).value = out
  BY DEF decodeResponse, Kinds, parses

(* What a run heard without an error, of the request it posted.                 *)
LEMMA HeardNil ==
  ASSUME IInv, Truth, NEW r \in Callers, Waiting(r), phase[r] = "returned",
         result[r].err = "nil"
  PROVE  \E s \in served, m \in posted :
           /\ s.id = m.id /\ m.id = Id(r)
           /\ result[r] = decodeResponse(s.response, zeroOf(r))
           /\ \/ s.response.kind = "payload" /\ result[r].value = s.response.value
              \/ s.response.kind \in {"empty", "absent"} /\ result[r].value = zeroOf(r)
<1>1. PICK s \in served : s.id = Id(r) /\ result[r] = decodeResponse(s.response, zeroOf(r))
  BY DEF Truth, Heard
<1>2. PICK m \in posted : m.id = s.id
  BY DEF IInv, WireInv, Identified
<1>3. s.response.kind \in Kinds
  BY DEF IInv, WireInv, SoapTypeOK
<1>4. \/ s.response.kind = "payload" /\ result[r].value = s.response.value
      \/ s.response.kind \in {"empty", "absent"} /\ result[r].value = zeroOf(r)
  BY <1>1, <1>3, NilAnswer
<1> QED BY <1>1, <1>2, <1>4

(* What a run is about to say of its shipment is what the portal decided, and   *)
(* the results it read are those of the answer.                                 *)
LEMMA ReportedIsDecided ==
  ASSUME IInv, Truth, NEW r \in Callers, pc[r] = "sent", phase[r] = "returned",
         outcomeOf(Answer(r)) # "unknown"
  PROVE  \E s \in SendServed(r) :
           /\ decisionOf(s.response) = outcomeOf(Answer(r))
           /\ s.response.kind = "payload" => Answer(r).value \in ResultsOf(r) /\
                \A k \in AcceptedIn(Answer(r).value) : shipment[<<r, k>>] # Absent
           /\ s.response.kind # "payload" => Answer(r).value = <<>>
<1>1. Waiting(r) /\ zeroOf(r) = <<>> /\ result[r].err = "nil"
  BY DEF Waiting, zeroOf, outcomeOf, Answer
<1>2. PICK s \in served, m \in posted :
         /\ s.id = m.id /\ m.id = Id(r)
         /\ result[r] = decodeResponse(s.response, <<>>)
         /\ \/ s.response.kind = "payload" /\ result[r].value = s.response.value
            \/ s.response.kind \in {"empty", "absent"} /\ result[r].value = <<>>
  BY <1>1, HeardNil
<1>3. m.id[1] = r
  BY <1>2 DEF Id
<1>4. m \in SendsOf(r)
  BY <1>2, <1>3 DEF IInv, Running, Control
<1>5. s \in SendServed(r)
  BY <1>2, <1>4 DEF SendServed
<1>6. decisionOf(s.response) = outcomeOf(Answer(r))
  BY <1>1, <1>2 DEF decisionOf, outcomeOf, Answer
<1>7. s.response.kind = "payload" =>
         /\ Answer(r).value \in ResultsOf(r)
         /\ \A k \in AcceptedIn(Answer(r).value) : shipment[<<r, k>>] # Absent
  BY <1>2, <1>4 DEF Truth, SendAnswers, Answer
<1> QED BY <1>2, <1>5, <1>6, <1>7 DEF Answer

LEMMA ReportTruth == ASSUME IInv, Truth, NEW r \in Callers, Report(r) PROVE Truth'
<1> DEFINE answer == Answer(r)
<1>1. /\ UNCHANGED <<soapVars, portalVars, opts, shown, knew>>
      /\ pc[r] = "sent" /\ phase[r] = "returned"
      /\ verdict' = [verdict EXCEPT ![r] = outcomeOf(answer)]
      /\ guid' = [guid EXCEPT ![r] = polled(r, answer)]
  BY DEF Report, Returned
<1>2. /\ verdict'[r] = outcomeOf(answer) /\ guid'[r] = polled(r, answer)
      /\ \A q \in Callers : q # r => verdict'[q] = verdict[q] /\ guid'[q] = guid[q]
  BY <1>1 DEF IInv, TypeOK
<1>3. /\ \/ polled(r, answer) # NoGuid /\ pc'[r] = "poll" /\ exit'[r] = exit[r]
         \/ polled(r, answer) = NoGuid /\ pc'[r] = "exited" /\ exit'[r] = outcomeOf(answer)
      /\ \A q \in Callers : q # r => pc'[q] = pc[q] /\ exit'[q] = exit[q]
  <2>1. CASE polled(r, answer) # NoGuid
    BY <2>1, OneMoves DEF Report, Goto
  <2>2. CASE polled(r, answer) = NoGuid
    BY <2>2, OneMoves, OneEnds DEF Report, Exit
  <2> QED BY <2>1, <2>2
<1>4. ASSUME outcomeOf(answer) # "unknown"
      PROVE  \E s \in SendServed(r) :
               /\ decisionOf(s.response) = outcomeOf(answer)
               /\ s.response.kind = "payload" => answer.value \in ResultsOf(r) /\
                    \A k \in AcceptedIn(answer.value) : shipment[<<r, k>>] # Absent
               /\ s.response.kind # "payload" => answer.value = <<>>
  BY <1>1, <1>4, ReportedIsDecided
<1>5. ASSUME polled(r, answer) # NoGuid
      PROVE  /\ outcomeOf(answer) = "accepted" /\ polled(r, answer)[1] = r
             /\ shipment[polled(r, answer)] # Absent
  <2>1. outcomeOf(answer) = "accepted" /\ polled(r, answer) = firstGUID(answer.value)
    BY <1>5 DEF polled
  <2>2. answer.value # <<>>
    BY <2>1 DEF outcomeOf
  <2>3. /\ answer.value \in ResultsOf(r)
        /\ \A k \in AcceptedIn(answer.value) : shipment[<<r, k>>] # Absent
    BY <1>4, <2>1, <2>2
  <2>4. PICK k \in AcceptedIn(answer.value) : firstGUID(answer.value) = <<r, k>>
    BY <1>5, <2>1, <2>3, FirstGUIDOf
  <2> QED BY <2>1, <2>3, <2>4
<1>6. Said(r)'
  <2>1. verdict[r] = "none" /\ exit[r] = "none" /\ shown'[r] = {}
    BY <1>1 DEF Truth, Said
  <2>2. SendServed(r)' = SendServed(r) /\ shipment' = shipment
    BY <1>1 DEF SendServed, SendsOf, soapVars, portalVars
  <2>3. outcomeOf(answer) \in {"unknown", "silent", "refused", "accepted"}
    BY DEF outcomeOf
  <2>4. outcomeOf(answer) \in Decided =>
          \E s \in SendServed(r) : decisionOf(s.response) = outcomeOf(answer)
    BY <1>4 DEF Decided
  <2> HIDE DEF answer
  <2> QED BY <1>2, <1>3, <1>5, <2>1, <2>2, <2>3, <2>4 DEF Said
<1>7. ~Waiting(r)'
  BY <1>3 DEF Waiting
<1>8. DOMAIN shown' = Callers
  BY <1>1 DEF Truth
<1> QED BY <1>1, <1>2, <1>3, <1>6, <1>7, <1>8, LocalTruth

LEMMA ShowStatusTruth == ASSUME IInv, Truth, NEW r \in Callers, ShowStatus(r) PROVE Truth'
<1>1. /\ UNCHANGED <<soapVars, portalVars, opts, verdict, guid, knew>>
      /\ pc[r] = "asked" /\ phase[r] = "returned"
  BY DEF ShowStatus, Returned
<1>2. /\ pc'[r] = "exited"
      /\ \/ exit'[r] = "failed"
         \/ result[r].err = "nil" /\ result[r].value = {} /\ exit'[r] = "nomatch"
         \/ exit'[r] = "matched"
      /\ \A q \in Callers : q # r =>
           pc'[q] = pc[q] /\ exit'[q] = exit[q] /\ shown'[q] = shown[q]
  <2>1. pc' = [pc EXCEPT ![r] = "exited"]
    BY DEF ShowStatus, Exit
  <2>2. \/ shown' = shown /\ exit' = [exit EXCEPT ![r] = "failed"]
        \/ /\ exit' = [exit EXCEPT ![r] = "nomatch"]
           /\ result[r].err = "nil" /\ result[r].value = {}
           /\ shown' = [shown EXCEPT ![r] = result[r].value]
        \/ /\ exit' = [exit EXCEPT ![r] = "matched"]
           /\ shown' = [shown EXCEPT ![r] = result[r].value]
    BY DEF ShowStatus, Exit, Answer
  <2>3. \A q \in Callers : q # r => shown'[q] = shown[q]
    BY <2>2 DEF Truth
  <2>4. PICK how \in {"failed", "nomatch", "matched"} :
          /\ exit' = [exit EXCEPT ![r] = how]
          /\ how = "nomatch" => result[r].err = "nil" /\ result[r].value = {}
    BY <2>2
  <2>5. exit'[r] = how /\ \A q \in Callers : q # r => exit'[q] = exit[q]
    BY <2>4, OneEnds
  <2>6. pc'[r] = "exited" /\ \A q \in Callers : q # r => pc'[q] = pc[q]
    BY <2>1, OneMoves
  <2> QED BY <2>3, <2>4, <2>5, <2>6
<1>3. ASSUME exit'[r] = "nomatch"
      PROVE  \E m \in posted, s \in served :
               /\ m.id[1] = r /\ s.id = m.id
               /\ m.request = statusQuery({opts[r].status}, {opts[r].status})
               /\ s.response.kind \in {"empty", "absent"}
  <2>1. Waiting(r) /\ zeroOf(r) = {} /\ result[r].err = "nil" /\ result[r].value = {}
    BY <1>1, <1>2, <1>3 DEF Waiting, zeroOf
  <2>2. PICK s \in served, m \in posted :
           /\ s.id = m.id /\ m.id = Id(r)
           /\ \/ s.response.kind = "payload" /\ result[r].value = s.response.value
              \/ s.response.kind \in {"empty", "absent"}
    BY <1>1, <2>1, HeardNil
  <2>3. m.id[1] = r /\ m.request = statusQuery({opts[r].status}, {opts[r].status})
    <3>1. Asking(r)
      BY DEF Truth
    <3>2. m.request = statusQuery({opts[r].status}, {opts[r].status})
      BY <1>1, <2>2, <3>1 DEF Asking
    <3>3. m.id[1] = r
      BY <2>2 DEF Id
    <3> QED BY <3>2, <3>3
  <2>4. s.response.kind = "payload" => s.response.value # {}
    BY <2>2, <2>3 DEF Truth, QueryAnswers, statusQuery
  <2> QED BY <2>1, <2>2, <2>3, <2>4
<1>4. Said(r)'
  <2>1. Said(r)
    BY DEF Truth
  <2>2. UNCHANGED <<posted, served, shipment>> /\ SendServed(r)' = SendServed(r)
    BY <1>1 DEF soapVars, portalVars, SendServed, SendsOf
  <2>3. verdict[r] = "none"
    BY <1>1, <2>1 DEF Said
  <2>4. opts[r].status # NoRef
    BY <1>1, <2>1 DEF Said
  <2> QED BY <1>1, <1>2, <1>3, <2>2, <2>3, <2>4 DEF Said, Decided
<1>5. ~Waiting(r)'
  BY <1>2 DEF Waiting
<1>6. DOMAIN shown' = Callers
  BY DEF Truth, ShowStatus
<1> QED BY <1>1, <1>2, <1>4, <1>5, <1>6, LocalTruth

(* The steps of a poll that make no call: the states printed are those of the   *)
(* GUID the run asked for.                                                      *)
LEMMA PollTruth ==
  ASSUME IInv, Truth, NEW r \in Callers, PollLoop(r) \/ PollCancelled(r) \/ PollReport(r)
  PROVE  Truth'
<1>1. /\ UNCHANGED <<soapVars, portalVars, opts, verdict, guid, knew>>
      /\ pc[r] \in {"poll", "wait", "polling"}
  BY DEF PollLoop, PollCancelled, PollReport
<1>2. /\ \/ pc'[r] \in {"poll", "wait"} /\ exit'[r] = exit[r]
         \/ pc'[r] = "exited" /\ exit'[r] \in {"accepted", "cancelled", "failed"}
      /\ \/ shown'[r] = shown[r]
         \/ /\ pc[r] = "polling" /\ phase[r] = "returned" /\ result[r].err = "nil"
            /\ shown'[r] = result[r].value
      /\ \A q \in Callers : q # r =>
           pc'[q] = pc[q] /\ exit'[q] = exit[q] /\ shown'[q] = shown[q]
  <2>1. \/ \E where \in {"poll", "wait"} : pc' = [pc EXCEPT ![r] = where] /\ exit' = exit
        \/ \E how \in {"accepted", "cancelled", "failed"} :
             pc' = [pc EXCEPT ![r] = "exited"] /\ exit' = [exit EXCEPT ![r] = how]
    BY DEF PollLoop, PollCancelled, PollReport, Exit, Goto
  <2>2. \/ shown' = shown
        \/ /\ pc[r] = "polling" /\ phase[r] = "returned" /\ result[r].err = "nil"
           /\ shown' = [shown EXCEPT ![r] = result[r].value]
    BY DEF PollLoop, PollCancelled, PollReport, Returned, Answer
  <2>3. /\ \/ pc'[r] \in {"poll", "wait"} /\ exit'[r] = exit[r]
           \/ pc'[r] = "exited" /\ exit'[r] \in {"accepted", "cancelled", "failed"}
        /\ \A q \in Callers : q # r => pc'[q] = pc[q] /\ exit'[q] = exit[q]
    BY <2>1, OneMoves, OneEnds
  <2>4. \A q \in Callers : q # r => shown'[q] = shown[q]
    BY <2>2 DEF Truth
  <2> QED BY <2>2, <2>3, <2>4 DEF Truth
<1>3. Said(r)
  BY DEF Truth
<1>4. \A state \in shown'[r] : state.guid = guid[r]
  <2>1. CASE shown'[r] = shown[r]
    BY <1>1, <1>3, <2>1 DEF Said
  <2>2. CASE /\ pc[r] = "polling" /\ phase[r] = "returned" /\ result[r].err = "nil"
             /\ shown'[r] = result[r].value
    <3>1. Waiting(r) /\ zeroOf(r) = {}
      BY <2>2 DEF Waiting, zeroOf
    <3>2. PICK s \in served, m \in posted :
             /\ s.id = m.id /\ m.id = Id(r)
             /\ \/ s.response.kind = "payload" /\ result[r].value = s.response.value
                \/ result[r].value = {}
      BY <2>2, <3>1, HeardNil
    <3>3. m.request = statusQuery({guid[r]}, {})
      BY <2>2, <3>2 DEF Truth, Asking
    <3>4. m.request.op = StatusOp /\ m.request.refs = {} /\ m.request.guids = {guid[r]}
      BY <3>3 DEF statusQuery
    <3>5. s.response.kind = "payload" => \A state \in s.response.value : state.guid = guid[r]
      BY <3>2, <3>4 DEF Truth, QueryAnswers
    <3> QED BY <2>2, <3>2, <3>5
  <2> QED BY <1>2, <2>1, <2>2
<1>5. Said(r)'
  <2>1. UNCHANGED <<posted, served, shipment>> /\ SendServed(r)' = SendServed(r)
    BY <1>1 DEF soapVars, portalVars, SendServed, SendsOf
  <2>2. exit[r] = "none" /\ verdict[r] = "accepted"
    BY <1>1, <1>3 DEF Said
  <2> QED BY <1>1, <1>2, <1>3, <1>4, <2>1, <2>2 DEF Said
<1>6. ~Waiting(r)'
  BY <1>2 DEF Waiting
<1>7. DOMAIN shown' = Callers
  BY DEF Truth, PollLoop, PollCancelled, PollReport
<1> QED BY <1>1, <1>2, <1>5, <1>6, <1>7, LocalTruth

(* The call of a run comes back, with what was served to it or without.         *)
LEMMA CallEndsTruth == ASSUME IInv, Truth, NEW r \in Callers, CallEnds(r) PROVE Truth'
<1>1. UNCHANGED <<opts, pc, exit, verdict, guid, shown, knew, portalVars>> /\ pc[r] # "exited"
  BY DEF CallEnds, runVars, Active
<1>2. /\ UNCHANGED <<posted, served, count>> /\ phase[r] = "flight"
      /\ phase' = [phase EXCEPT ![r] = "returned"]
      /\ \/ result' = [result EXCEPT ![r] = [err |-> "transport", value |-> result[r].value]]
         \/ \E s \in inbound : s.id = Id(r) /\
              result' = [result EXCEPT ![r] = decodeResponse(s.response, result[r].value)]
  BY DEF CallEnds, Return, Fail, Finish
<1>3. phase \in [Callers -> Phases] /\ DOMAIN result = Callers /\ inbound \subseteq served
  BY DEF IInv, WireInv, SoapTypeOK
<1>4. /\ \A q \in Callers : q # r => phase'[q] = phase[q] /\ result'[q] = result[q]
      /\ phase'[r] = "returned"
      /\ \/ result'[r].err = "transport"
         \/ \E s \in served : s.id = Id(r) /\
              result'[r] = decodeResponse(s.response, result[r].value)
  <2>1. CASE result' = [result EXCEPT ![r] = [err |-> "transport", value |-> result[r].value]]
    BY <1>2, <1>3, <2>1
  <2>2. CASE \E s \in inbound : s.id = Id(r) /\
               result' = [result EXCEPT ![r] = decodeResponse(s.response, result[r].value)]
    BY <1>2, <1>3, <2>2
  <2> QED BY <1>2, <2>1, <2>2
<1>5. Heard(r)'
  <2> SUFFICES ASSUME Waiting(r), result'[r].err # "transport"
               PROVE  \E s \in served :
                        s.id = Id(r) /\ result'[r] = decodeResponse(s.response, zeroOf(r))
    BY <1>1, <1>2, <1>4 DEF Heard, Waiting, zeroOf, Id
  <2>1. result[r].value = zeroOf(r)
    BY <1>2 DEF Truth, Heard
  <2> QED BY <1>4, <2>1
<1>6. Asking(r)'
  <2>1. Asking(r)
    BY DEF Truth
  <2>2. Id(r)' = Id(r)
    BY <1>2 DEF Id
  <2> QED BY <1>1, <1>2, <2>1, <2>2 DEF Asking
<1>7. Said(r)'
  <2>1. SendServed(r)' = SendServed(r)
    BY <1>2 DEF SendServed, SendsOf
  <2>2. Said(r)
    BY DEF Truth
  <2> QED BY <1>1, <1>2, <2>1, <2>2 DEF Said, portalVars
<1>8. DOMAIN shown' = Callers
  BY <1>1 DEF Truth
<1> QED BY <1>1, <1>2, <1>4, <1>5, <1>6, <1>7, <1>8, TruthMove DEF portalVars

(* Time passing and a kill: nothing more is said.                               *)
LEMMA AsideTruth ==
  ASSUME IInv, Truth, NEW r \in Callers, Elapse(r) \/ Expire(r) \/ Kill(r)
  PROVE  Truth'
<1>1. UNCHANGED <<opts, verdict, guid, shown, knew, soapVars, portalVars>> /\ pc[r] # "exited"
  BY DEF Elapse, Expire, Kill, Active
<1>2. UNCHANGED <<phase, count, result, posted, served, shipment>>
  BY <1>1 DEF soapVars, callVars, portalVars
<1>3. /\ \/ pc'[r] = pc[r] /\ exit'[r] = exit[r]
         \/ pc'[r] = "exited" /\ exit'[r] = "killed"
      /\ \A q \in Callers : q # r => pc'[q] = pc[q] /\ exit'[q] = exit[q]
  <2>1. CASE Elapse(r) \/ Expire(r)
    BY <2>1 DEF Elapse, Expire
  <2>2. CASE Kill(r)
    <3>1. pc' = [pc EXCEPT ![r] = "exited"] /\ exit' = [exit EXCEPT ![r] = "killed"]
      BY <2>2 DEF Kill, Exit
    <3>2. exit'[r] = "killed" /\ \A q \in Callers : q # r => exit'[q] = exit[q]
      BY <3>1, OneEnds
    <3>3. pc'[r] = "exited" /\ \A q \in Callers : q # r => pc'[q] = pc[q]
      BY <3>1, OneMoves
    <3> QED BY <3>2, <3>3
  <2> QED BY <2>1, <2>2
<1>4. Heard(r) /\ Asking(r) /\ Said(r)
  BY DEF Truth
<1>5. Heard(r)'
  BY <1>2, <1>3, <1>4 DEF Heard, Waiting, zeroOf, Id
<1>6. Asking(r)'
  <2>1. Id(r)' = Id(r)
    BY <1>2 DEF Id
  <2> QED BY <1>1, <1>2, <1>3, <1>4, <2>1 DEF Asking
<1>7. Said(r)'
  <2>1. SendServed(r)' = SendServed(r)
    BY <1>2 DEF SendServed, SendsOf
  <2> QED BY <1>1, <1>2, <1>3, <1>4, <2>1 DEF Said
<1>8. DOMAIN shown' = Callers
  BY <1>1 DEF Truth
<1> QED BY <1>1, <1>2, <1>3, <1>5, <1>6, <1>7, <1>8, TruthMove
-------------------------------------------------------------------------------
(* What the portal does to what the runs said: it adds an answer, and shipments *)
(* do not go away.                                                              *)
LEMMA PortalTruth ==
  ASSUME IInv, Truth, UNCHANGED <<phase, count, result, posted>>, UNCHANGED runVars,
         served \subseteq served',
         \A s \in Shipments : shipment[s] # Absent => shipment'[s] # Absent,
         SendAnswers', QueryAnswers'
  PROVE  Truth'
<1>1. \A q \in Callers : Heard(q)' /\ Asking(q)' /\ Said(q)'
  <2> TAKE q \in Callers
  <2> QED BY TruthFrame DEF runVars
<1>2. KnewEnded' /\ DOMAIN shown' = Callers
  BY DEF Truth, KnewEnded, runVars
<1> QED BY <1>1, <1>2 DEF Truth

(* What Serve adds.                                                             *)
LEMMA ServeAdds ==
  ASSUME NEW m, NEW a, Serve(m, a)
  PROVE  /\ UNCHANGED <<phase, count, result, posted>> /\ served \subseteq served'
         /\ \A s \in served' : s \in served \/ (s.id = m.id /\ s.response = a)
<1> DEFINE reply == [id |-> m.id, response |-> a]
<1>1. UNCHANGED <<phase, count, result, posted>> /\ served' = served \cup {reply}
  BY DEF Serve, callVars
<1>2. reply.id = m.id /\ reply.response = a
  OBVIOUS
<1> HIDE DEF reply
<1> QED BY <1>1, <1>2

(* A run that ended in silence is no longer being served.                       *)
LEMMA SilentIsServed ==
  ASSUME IInv, Truth, NEW r \in Callers, verdict[r] \in Decided, NEW m \in outbound
  PROVE  m \notin SendsOf(r)
<1>1. PICK s \in served, k \in SendsOf(r) : s.id = k.id
  <2>1. Said(r)
    BY DEF Truth
  <2>2. \E s \in SendServed(r) : TRUE
    BY <2>1 DEF Said
  <2> QED BY <2>2 DEF SendServed
<1>2. m \in SendsOf(r) => m.id = <<r, 1>>
  BY DEF IInv, Running, Sends
<1>3. k.id = <<r, 1>>
  BY DEF IInv, Running, Sends
<1> QED BY <1>1, <1>2, <1>3 DEF IInv, WireInv, HandledOnce

LEMMA ServeSendTruth ==
  ASSUME IInv, Truth, NEW m \in outbound, ServeSend(m)
  PROVE  Truth'
<1>1. PICK a, new : /\ Serve(m, a) /\ Create(m.id[1], new)
                    /\ a.kind = "payload" =>
                         a.value \in ResultsOf(m.id[1]) /\ new = AcceptedIn(a.value)
  <2>1. CASE \E rs \in ResultsOf(m.id[1]) :
               /\ Create(m.id[1], AcceptedIn(rs))
               /\ visible' = visible \cup ({rs[k].guid : k \in DOMAIN rs} \ {NoGuid})
               /\ Serve(m, Reply("payload", rs))
    <3>1. PICK rs \in ResultsOf(m.id[1]) :
               Create(m.id[1], AcceptedIn(rs)) /\ Serve(m, Reply("payload", rs))
      BY <2>1
    <3>2. Reply("payload", rs).value = rs
      BY DEF Reply
    <3> QED BY <3>1, <3>2
  <2>2. CASE \E new \in {{}, {1}},
               answer \in {Reply("empty", <<>>)}
                 \cup Troubles(<<[retCode |-> RetCodeOK, guid |-> NoGuid]>>) :
               /\ Create(m.id[1], new)
               /\ Serve(m, answer)
               /\ UNCHANGED visible
    <3>1. PICK new \in {{}, {1}},
               answer \in {Reply("empty", <<>>)}
                 \cup Troubles(<<[retCode |-> RetCodeOK, guid |-> NoGuid]>>) :
               Create(m.id[1], new) /\ Serve(m, answer)
      BY <2>2
    <3>2. answer.kind # "payload"
      BY DEF Reply, Troubles
    <3> QED BY <3>1, <3>2
  <2> QED BY <2>1, <2>2 DEF ServeSend
<1>2. UNCHANGED runVars /\ m.request.op \in SendOps
  BY DEF ServeSend
<1>3. /\ UNCHANGED <<phase, count, result, posted>> /\ served \subseteq served'
      /\ \A s \in served' : s \in served \/ (s.id = m.id /\ s.response = a)
  BY <1>1, ServeAdds
<1>4. m \in posted /\ m.id[1] \in Callers /\ m \in SendsOf(m.id[1])
  BY <1>2 DEF IInv, WireInv, SoapTypeOK, SendsOf
<1>5. /\ \A s \in Shipments : shipment[s] # Absent => shipment'[s] # Absent
      /\ \A s \in Shipments : s[1] # m.id[1] => shipment'[s] = shipment[s]
      /\ \A s \in Shipments : s[1] = m.id[1] /\ s[2] \in new => shipment'[s] # Absent
  BY <1>1 DEF Create, Absent, StatusPendingSend
<1>6. \A k \in posted : k.id = m.id => k = m
  BY <1>4 DEF IInv, WireInv, Identified
<1>7. SendAnswers'
  <2> SUFFICES ASSUME NEW r \in Callers, NEW k \in SendsOf(r), NEW s \in served',
                      s.id = k.id, s.response.kind = "payload"
               PROVE  /\ s.response.value \in ResultsOf(r)
                      /\ \A i \in AcceptedIn(s.response.value) : shipment'[<<r, i>>] # Absent
    BY <1>3 DEF SendAnswers, SendsOf
  <2>1. ASSUME NEW i \in AcceptedIn(s.response.value), s.response.value \in ResultsOf(r)
        PROVE  <<r, i>> \in Shipments
    <3>1. PICK n \in 1 .. MaxResults : DOMAIN s.response.value = 1 .. n
      BY <2>1 DEF ResultsOf
    <3>2. i \in 1 .. MaxResults
      BY <3>1, LgtsendAssumption DEF AcceptedIn
    <3> QED BY <3>2 DEF Shipments
  <2>2. CASE s \in served
    <3>1. /\ s.response.value \in ResultsOf(r)
          /\ \A i \in AcceptedIn(s.response.value) : shipment[<<r, i>>] # Absent
      BY <2>2 DEF Truth, SendAnswers
    <3> QED BY <1>5, <2>1, <3>1
  <2>3. CASE s.id = m.id /\ s.response = a
    <3>1. r = m.id[1]
      BY <1>6, <2>3 DEF SendsOf
    <3> QED BY <1>1, <1>5, <2>1, <2>3, <3>1
  <2> QED BY <1>3, <2>2, <2>3
<1>8. QueryAnswers'
  <2> SUFFICES ASSUME NEW k \in posted, NEW s \in served', s.id = k.id,
                      k.request.op = StatusOp
               PROVE  /\ s.response.kind = "payload" =>
                           /\ s.response.value # {}
                           /\ k.request.refs = {} =>
                                \A state \in s.response.value : state.guid \in k.request.guids
                      /\ s.response.kind \in {"empty", "absent"} =>
                           \A r \in knew[k.id[1]] :
                             exit[r] = "silent" /\ opts[r].externalID \in k.request.refs =>
                               Created(r)' = {}
    BY <1>2, <1>3 DEF QueryAnswers, runVars
  <2>1. s \in served
    BY <1>2, <1>3, <1>6, NoStatusOp
  <2>2. ASSUME NEW r \in knew[k.id[1]], exit[r] = "silent"
        PROVE  Created(r)' = Created(r)
    <3>1. r \in Callers
      BY <2>2 DEF IInv, TypeOK, WireInv, SoapTypeOK
    <3>2. verdict[r] \in Decided
      BY <2>2, <3>1 DEF Truth, Said, Decided
    <3>3. r # m.id[1]
      BY <1>4, <3>1, <3>2, SilentIsServed
    <3>4. \A i \in 1 .. MaxResults : shipment'[<<r, i>>] = shipment[<<r, i>>]
      BY <1>5, <3>1, <3>3 DEF Shipments
    <3> QED BY <3>4 DEF Created
  <2> QED BY <2>1, <2>2 DEF Truth, QueryAnswers
<1> QED BY <1>2, <1>3, <1>5, <1>7, <1>8, PortalTruth

LEMMA ServeStatusTruth ==
  ASSUME IInv, Truth, NEW m \in outbound, ServeStatus(m)
  PROVE  Truth'
<1> DEFINE states == {[guid |-> s, status |-> shipment[s]] : s \in Matching(m.request)}
<1>1. PICK a : /\ Serve(m, a)
               /\ \/ a.kind = "payload" /\ a.value = states /\ Matching(m.request) # {}
                  \/ a.kind = "empty" /\ Matching(m.request) = {}
                  \/ a.kind \in {"fault", "malformed", "undecodable"}
  <2>1. CASE Matching(m.request) # {} /\ Serve(m, Reply("payload", states))
    <3>1. Reply("payload", states).kind = "payload" /\ Reply("payload", states).value = states
      BY DEF Reply
    <3> HIDE DEF states
    <3> QED BY <2>1, <3>1
  <2>2. CASE Matching(m.request) = {} /\ Serve(m, Reply("empty", {}))
    <3>1. Reply("empty", {}).kind = "empty"
      BY DEF Reply
    <3> QED BY <2>2, <3>1
  <2>3. CASE \E answer \in Troubles({}) : Serve(m, answer)
    <3>1. PICK answer \in Troubles({}) : Serve(m, answer)
      BY <2>3
    <3>2. answer.kind \in {"fault", "malformed", "undecodable"}
      BY DEF Troubles, Reply
    <3> QED BY <3>1, <3>2
  <2> QED BY <2>1, <2>2, <2>3 DEF ServeStatus
<1>2. UNCHANGED <<runVars, portalVars>> /\ m.request.op \notin SendOps
  BY NoStatusOp DEF ServeStatus
<1>3. /\ UNCHANGED <<phase, count, result, posted>> /\ served \subseteq served'
      /\ \A s \in served' : s \in served \/ (s.id = m.id /\ s.response = a)
  BY <1>1, ServeAdds
<1>4. m \in posted /\ \A k \in posted : k.id = m.id => k = m
  BY DEF IInv, WireInv, SoapTypeOK, Identified
<1>5. \A s \in states : s.guid \in Matching(m.request)
  OBVIOUS
<1>6. states # {} <=> Matching(m.request) # {}
  OBVIOUS
<1> HIDE DEF states
<1>7. SendAnswers'
  <2> SUFFICES ASSUME NEW r \in Callers, NEW k \in SendsOf(r), NEW s \in served',
                      s.id = k.id, s.response.kind = "payload"
               PROVE  /\ s.response.value \in ResultsOf(r)
                      /\ \A i \in AcceptedIn(s.response.value) : shipment[<<r, i>>] # Absent
    BY <1>2, <1>3 DEF SendAnswers, SendsOf, portalVars
  <2>1. s \in served
    BY <1>2, <1>3, <1>4 DEF SendsOf
  <2> QED BY <2>1 DEF Truth, SendAnswers
<1>8. QueryAnswers'
  <2> SUFFICES ASSUME NEW k \in posted, NEW s \in served', s.id = k.id,
                      k.request.op = StatusOp
               PROVE  /\ s.response.kind = "payload" =>
                           /\ s.response.value # {}
                           /\ k.request.refs = {} =>
                                \A state \in s.response.value : state.guid \in k.request.guids
                      /\ s.response.kind \in {"empty", "absent"} =>
                           \A r \in knew[k.id[1]] :
                             exit[r] = "silent" /\ opts[r].externalID \in k.request.refs =>
                               Created(r) = {}
    BY <1>2, <1>3 DEF QueryAnswers, Created, runVars, portalVars
  <2>1. CASE s \in served
    BY <2>1 DEF Truth, QueryAnswers
  <2>2. CASE s.id = m.id /\ s.response = a
    <3>1. k = m
      BY <1>4, <2>2
    <3>2. ASSUME a.kind = "payload"
          PROVE  /\ a.value # {}
                 /\ m.request.refs = {} => \A state \in a.value : state.guid \in m.request.guids
      <4>1. a.value = states /\ Matching(m.request) # {}
        BY <1>1, <3>2
      <4>2. m.request.refs = {} => \A x \in Matching(m.request) : x \in m.request.guids
        BY DEF Matching
      <4> QED BY <1>5, <1>6, <4>1, <4>2
    <3>3. ASSUME a.kind \in {"empty", "absent"}, NEW r \in knew[m.id[1]],
                 opts[r].externalID \in m.request.refs
          PROVE  Created(r) = {}
      <4>1. Matching(m.request) = {}
        BY <1>1, <3>3
      <4>2. r \in Callers
        BY <1>4 DEF IInv, TypeOK, WireInv, SoapTypeOK
      <4>3. ASSUME NEW i \in 1 .. MaxResults, shipment[<<r, i>>] # Absent
            PROVE  FALSE
        <5>1. <<r, i>> \in Shipments /\ <<r, i>>[1] = r
          BY <4>2 DEF Shipments
        <5> QED BY <3>3, <4>1, <4>3, <5>1 DEF Matching
      <4> QED BY <4>3 DEF Created
    <3> QED BY <2>2, <3>1, <3>2, <3>3
  <2> QED BY <1>3, <2>1, <2>2
<1>9. shipment' = shipment
  BY <1>2 DEF portalVars
<1> QED BY <1>2, <1>3, <1>7, <1>8, <1>9, PortalTruth

(* A step in which nothing is served and no shipment comes into being.          *)
LEMMA QuietTruth ==
  ASSUME IInv, Truth, UNCHANGED <<soapVars, runVars>>,
         \A s \in Shipments : shipment'[s] = Absent <=> shipment[s] = Absent
  PROVE  Truth'
<1>1. UNCHANGED <<phase, count, result, posted, served>>
  BY DEF soapVars, callVars
<1>2. SendAnswers'
  <2> SUFFICES ASSUME NEW r \in Callers, NEW k \in SendsOf(r), NEW s \in served,
                      s.id = k.id, s.response.kind = "payload"
               PROVE  /\ s.response.value \in ResultsOf(r)
                      /\ \A i \in AcceptedIn(s.response.value) : shipment'[<<r, i>>] # Absent
    BY <1>1 DEF SendAnswers, SendsOf
  <2>1. /\ s.response.value \in ResultsOf(r)
        /\ \A i \in AcceptedIn(s.response.value) : shipment[<<r, i>>] # Absent
    BY DEF Truth, SendAnswers
  <2>2. ASSUME NEW i \in AcceptedIn(s.response.value) PROVE <<r, i>> \in Shipments
    <3>1. PICK n \in 1 .. MaxResults : DOMAIN s.response.value = 1 .. n
      BY <2>1 DEF ResultsOf
    <3>2. i \in 1 .. MaxResults
      BY <3>1, LgtsendAssumption DEF AcceptedIn
    <3> QED BY <3>2 DEF Shipments
  <2> QED BY <2>1, <2>2
<1>3. QueryAnswers'
  <2> SUFFICES ASSUME NEW k \in posted, NEW s \in served, s.id = k.id,
                      k.request.op = StatusOp, s.response.kind \in {"empty", "absent"},
                      NEW r \in knew[k.id[1]], exit[r] = "silent",
                      opts[r].externalID \in k.request.refs
               PROVE  Created(r)' = {}
    BY <1>1 DEF Truth, QueryAnswers, runVars
  <2>1. Created(r) = {}
    BY DEF Truth, QueryAnswers
  <2>2. r \in Callers
    BY DEF IInv, TypeOK, WireInv, SoapTypeOK
  <2>3. \A i \in 1 .. MaxResults : shipment'[<<r, i>>] = Absent <=> shipment[<<r, i>>] = Absent
    BY <2>2 DEF Shipments
  <2> QED BY <2>1, <2>3 DEF Created
<1> QED BY <1>1, <1>2, <1>3, PortalTruth

LEMMA PortalMovesTruth ==
  ASSUME IInv, Truth, NEW s \in Shipments, Move(s) \/ AssignGuid(s)
  PROVE  Truth'
<1>1. UNCHANGED <<soapVars, runVars>>
  BY DEF Move, AssignGuid
<1>2. CASE Move(s)
  <2>1. PICK move \in Moves : shipment[s] = move[1] /\ shipment' = [shipment EXCEPT ![s] = move[2]]
    BY <1>2 DEF Move
  <2>2. move[1] # Absent /\ move[2] # Absent
    BY LgtsendAssumption DEF Absent, Statuses, StatusPendingSend, StatusSending,
       StatusInProgress, StatusFinished, StatusSendError, StatusPendingCertificates,
       StatusPendingPostalCert, StatusPendingAuthorization, StatusAuthorizationsRejected
  <2>3. \A x \in Shipments : shipment'[x] = Absent <=> shipment[x] = Absent
    BY <2>1, <2>2 DEF IInv, TypeOK
  <2> QED BY <1>1, <2>3, QuietTruth
<1>3. CASE AssignGuid(s)
  BY <1>1, <1>3, QuietTruth DEF AssignGuid
<1> QED BY <1>2, <1>3

LEMMA NextTruth == IInv /\ Truth /\ [Next]_vars => Truth'
<1> SUFFICES ASSUME IInv, Truth, [Next]_vars PROVE Truth'
  OBVIOUS
<1>1. ASSUME NEW r \in Callers, Step(r) PROVE Truth'
  BY <1>1, StartTruth, PrepareTruth, DispatchTruth, ReportTruth, PollTruth, QueryTruth,
     ShowStatusTruth DEF Step
<1>2. ASSUME NEW r \in Callers, CallEnds(r) \/ Elapse(r) \/ Expire(r) \/ Kill(r) PROVE Truth'
  BY <1>2, CallEndsTruth, AsideTruth
<1>3. ASSUME NEW m \in outbound, ServeSend(m) \/ ServeStatus(m) PROVE Truth'
  BY <1>3, ServeSendTruth, ServeStatusTruth
<1>4. ASSUME NEW s \in Shipments, Move(s) \/ AssignGuid(s) PROVE Truth'
  BY <1>4, PortalMovesTruth
<1>5. CASE UNCHANGED vars
  <2>1. UNCHANGED <<soapVars, runVars>> /\ shipment' = shipment
    BY <1>5 DEF vars, portalVars
  <2> QED BY <2>1, QuietTruth
<1> QED BY <1>1, <1>2, <1>3, <1>4, <1>5 DEF Next

(* What the runs said stays true in every behaviour.                            *)
THEOREM TruthInvariance == Spec => []Truth
<1>1. Init => IInv /\ Truth
  BY InitIInv, InitTruth
<1>2. (IInv /\ Truth) /\ [Next]_vars => (IInv /\ Truth)'
  BY NextIInv, NextTruth
<1> QED BY <1>1, <1>2, PTL DEF Spec

(* An acceptance is one of at least one shipment.                               *)
LEMMA AcceptedExists ==
  ASSUME IInv, Truth, NEW r \in Callers, verdict[r] = "accepted"
  PROVE  Created(r) # {}
<1>1. PICK s \in SendServed(r) : decisionOf(s.response) = "accepted"
  <2>1. Said(r)
    BY DEF Truth
  <2> QED BY <2>1 DEF Said, Decided
<1>2. PICK m \in SendsOf(r) : m.id = s.id /\ s \in served
  BY DEF SendServed
<1>3. s.response.kind \in Kinds
  BY <1>2 DEF IInv, WireInv, SoapTypeOK
<1> DEFINE answer == decodeResponse(s.response, <<>>)
<1>4. /\ answer.err = "nil" /\ answer.value # <<>>
      /\ \A k \in DOMAIN answer.value : ~Err(answer.value[k])
  BY <1>1 DEF decisionOf
<1>5. s.response.kind = "payload" /\ answer.value = s.response.value
  BY <1>3, <1>4, NilAnswer
<1>6. /\ answer.value \in ResultsOf(r)
      /\ \A k \in AcceptedIn(answer.value) : shipment[<<r, k>>] # Absent
  BY <1>2, <1>5 DEF Truth, SendAnswers
<1> HIDE DEF answer
<1>7. PICK n \in 1 .. MaxResults : DOMAIN answer.value = 1 .. n
  BY <1>6 DEF ResultsOf
<1>8. 1 \in AcceptedIn(answer.value) /\ 1 \in 1 .. MaxResults
  BY <1>4, <1>7, LgtsendAssumption DEF AcceptedIn
<1> QED BY <1>6, <1>8 DEF Created

(* What a run tells of its shipment, in its words or with exit status 0, is so, *)
(* and after a verdict that names a decision nothing of it is still on its way. *)
THEOREM TellsTheTruth == Spec => []VerdictIsTrue
<1>1. IInv /\ Truth => VerdictIsTrue
  <2> SUFFICES ASSUME IInv, Truth, NEW r \in Callers
               PROVE  /\ \/ verdict[r] = "accepted"
                         \/ exit[r] \in exitZero /\ "send" \in opts[r].given
                            /\ opts[r].status = NoRef
                         => Created(r) # {}
                      /\ verdict[r] \in {"accepted", "refused", "silent"} =>
                           \A m \in outbound : m \notin SendsOf(r)
    BY DEF VerdictIsTrue
  <2>1. ASSUME exit[r] \in exitZero, "send" \in opts[r].given, opts[r].status = NoRef
        PROVE  verdict[r] = "accepted"
    <3>1. Said(r)
      BY DEF Truth
    <3> QED BY <2>1, <3>1 DEF Said, exitZero, sends
  <2> QED BY <2>1, AcceptedExists, SilentIsServed DEF Decided
<1> QED BY <1>1, Invariance, TruthInvariance, PTL

(* The advice to check whether the shipment exists before sending again is      *)
(* sound: when a later -status finds nothing, nothing was or will be made.      *)
THEOREM AdvisesWell == Spec => []AdviceIsSound
<1>1. IInv /\ Truth => AdviceIsSound
  <2> SUFFICES ASSUME IInv, Truth, NEW r \in Callers, NEW q \in Callers,
                      exit[r] = "silent", exit[q] = "nomatch", r \in knew[q],
                      opts[r].externalID = opts[q].status
               PROVE  Created(r) = {} /\ SendsOf(r) \cap outbound = {}
    BY DEF AdviceIsSound
  <2>1. Said(r) /\ Said(q)
    BY DEF Truth
  <2>2. verdict[r] \in Decided
    BY <2>1 DEF Said, Decided
  <2>3. SendsOf(r) \cap outbound = {}
    BY <2>2, SilentIsServed
  <2>4. PICK m \in posted, s \in served :
           /\ m.id[1] = q /\ s.id = m.id
           /\ m.request = statusQuery({opts[q].status}, {opts[q].status})
           /\ s.response.kind \in {"empty", "absent"}
    BY <2>1 DEF Said
  <2>5. m.request.op = StatusOp /\ opts[r].externalID \in m.request.refs
    BY <2>4 DEF statusQuery
  <2>6. Created(r) = {}
    BY <2>4, <2>5 DEF Truth, QueryAnswers
  <2> QED BY <2>3, <2>6
<1> QED BY <1>1, Invariance, TruthInvariance, PTL

(* A run polls its own shipment, which the portal accepted, and prints the      *)
(* states of no other.                                                          *)
THEOREM PollsOnlyItsOwn == Spec => []PollsItsOwn
<1>1. IInv /\ Truth => PollsItsOwn
  BY DEF IInv, Running, Control, Truth, Said, PollsItsOwn
<1> QED BY <1>1, Invariance, TruthInvariance, PTL
-------------------------------------------------------------------------------
(* The command implements Submission.  Stage is the refinement mapping of one   *)
(* run: dispatching a request that can be built submits, the portal's answer to *)
(* a send decides, reporting tells, and every other step stutters.              *)
Stage(r) ==
  IF SendsOf(r) = {} THEN "unsent"
  ELSE IF SendServed(r) = {} THEN "sent"
  ELSE decisionOf((CHOOSE s \in SendServed(r) : TRUE).response)

LEMMA StageIs == stage = [r \in Callers |-> Stage(r)]
  BY DEF stage, Stage

LEMMA StageIsNext == stage' = [r \in Callers |-> Stage(r)']
  BY DEF stage, Stage

LEMMA StageKept ==
  ASSUME NEW r, SendsOf(r)' = SendsOf(r), SendServed(r)' = SendServed(r)
  PROVE  Stage(r)' = Stage(r)
  BY DEF Stage

LEMMA Stutters ==
  ASSUME \A r \in Callers : SendsOf(r)' = SendsOf(r) /\ SendServed(r)' = SendServed(r),
         verdict' = verdict
  PROVE  UNCHANGED Sub!vars
<1>1. ASSUME NEW r \in Callers PROVE Stage(r)' = Stage(r)
  BY StageKept
<1>2. stage' = stage
  BY <1>1, StageIs, StageIsNext
<1> QED BY <1>2 DEF Sub!vars

(* One run changes its stage.                                                   *)
LEMMA StageMoves ==
  ASSUME NEW r \in Callers,
         \A q \in Callers : q # r => SendsOf(q)' = SendsOf(q) /\ SendServed(q)' = SendServed(q)
  PROVE  stage' = [stage EXCEPT ![r] = Stage(r)']
<1>1. ASSUME NEW q \in Callers, q # r PROVE Stage(q)' = Stage(q)
  BY <1>1, StageKept
<1> QED BY <1>1, StageIs, StageIsNext

(* The portal's decision on a run is unique.                                    *)
LEMMA DecidedOnce ==
  ASSUME IInv, NEW r \in Callers, NEW s \in SendServed(r)
  PROVE  stage[r] = decisionOf(s.response)
<1>1. \A t \in SendServed(r) : t = s
  <2>1. \A t \in SendServed(r) : t \in served /\ t.id = <<r, 1>>
    BY DEF SendServed, IInv, Running, Sends
  <2> QED BY <2>1 DEF IInv, WireInv, HandledOnce
<1>2. (CHOOSE t \in SendServed(r) : TRUE) = s
  BY <1>1
<1>3. SendsOf(r) # {}
  BY DEF SendServed
<1> QED BY <1>2, <1>3, StageIs DEF Stage

LEMMA DispatchSubmits ==
  ASSUME IInv, Truth, NEW r \in Callers, Dispatch(r)
  PROVE  Sub!Submit(r) \/ UNCHANGED Sub!vars
<1>1. /\ verdict' = verdict /\ pc[r] = "dispatch"
      /\ Request(r, dispatch(opts[r]), <<>>) /\ opts' = opts
  BY DEF Dispatch
<1>2. count[r] = 0 /\ SendsOf(r) = {} /\ verdict[r] = "none"
  BY <1>1, NoCallNoPost DEF IInv, Running, Control, Truth, Said
<1>3. dispatch(opts[r]) \in Requests /\ dispatch(opts[r]).op \in SendOps
  BY DispatchType DEF IInv, TypeOK
<1>4. CASE ~buildable(opts[r])
  <2>1. posted' = posted /\ served' = served
    BY <1>1, <1>4 DEF Request, Refuse
  <2> QED BY <1>1, <2>1, Stutters DEF SendsOf, SendServed
<1>5. CASE buildable(opts[r])
  <2>1. /\ served' = served
        /\ \A q \in Callers : q # r => SendsOf(q)' = SendsOf(q)
        /\ \A m \in posted' : m \in posted \/ m.id = <<r, count[r] + 1>>
    BY <1>1, <1>3, RequestEffect
  <2>2. \A q \in Callers : q # r => SendServed(q)' = SendServed(q)
    BY <2>1 DEF SendServed
  <2>3. \E m \in posted' : m.id[1] = r /\ m.request.op \in SendOps
    <3> DEFINE message == [id |-> <<r, count[r] + 1>>, request |-> dispatch(opts[r])]
    <3>1. message \in posted'
      BY <1>1, <1>5 DEF Request, Call
    <3>2. message.id[1] = r /\ message.request = dispatch(opts[r])
      OBVIOUS
    <3> HIDE DEF message
    <3> QED BY <1>3, <3>1, <3>2
  <2>4. SendsOf(r)' # {}
    BY <2>3 DEF SendsOf
  <2>5. SendServed(r)' = {}
    <3>1. \A m \in SendsOf(r)', s \in served : s.id # m.id
      BY <1>2, <2>1 DEF IInv, WireInv, SoapTypeOK, Identified, SendsOf
    <3> QED BY <2>1, <3>1 DEF SendServed
  <2>6. stage' = [stage EXCEPT ![r] = "sent"]
    BY <2>1, <2>2, <2>4, <2>5, StageMoves DEF Stage
  <2>7. stage[r] = "unsent"
    BY <1>2, StageIs DEF Stage
  <2> QED BY <1>1, <1>2, <2>6, <2>7 DEF Sub!Submit
<1> QED BY <1>4, <1>5

LEMMA ServeSendDecides ==
  ASSUME IInv, NEW m \in outbound, ServeSend(m)
  PROVE  Sub!Decide(m.id[1])
<1> DEFINE r == m.id[1]
<1>1. PICK a : Serve(m, a)
  BY DEF ServeSend
<1>2. r \in Callers /\ m \in SendsOf(r) /\ m \in posted /\ verdict' = verdict
  BY DEF IInv, WireInv, SoapTypeOK, SendsOf, ServeSend, runVars
<1> DEFINE reply == [id |-> m.id, response |-> a]
<1>3. posted' = posted /\ served' = served \cup {reply}
  BY <1>1 DEF Serve
<1>4. reply.id = m.id /\ reply.response = a
  OBVIOUS
<1> HIDE DEF reply, r
<1>5. \A k \in posted : k.id = m.id => k = m
  BY <1>2 DEF IInv, WireInv, Identified
<1>6. \A q \in Callers : SendsOf(q)' = SendsOf(q)
  BY <1>3 DEF SendsOf
<1>7. ASSUME NEW q \in Callers, q # r PROVE SendServed(q)' = SendServed(q)
  <2>1. \A k \in SendsOf(q) : k.id # reply.id
    BY <1>4, <1>5, <1>7 DEF SendsOf, r
  <2> QED BY <1>3, <1>6, <2>1 DEF SendServed
<1>8. SendServed(r) = {}
  <2>1. \A k \in SendsOf(r) : k.id = m.id
    BY <1>2 DEF IInv, Running, Sends
  <2> QED BY <2>1 DEF SendServed, IInv, WireInv, HandledOnce
<1>9. SendServed(r)' = {reply}
  BY <1>2, <1>3, <1>4, <1>6, <1>8 DEF SendServed
<1>10. Stage(r)' = decisionOf(a)
  <2>1. (CHOOSE s \in {reply} : TRUE) = reply
    OBVIOUS
  <2> QED BY <1>2, <1>4, <1>6, <1>9, <2>1 DEF Stage
<1>11. stage' = [stage EXCEPT ![r] = decisionOf(a)]
  BY <1>2, <1>6, <1>7, <1>10, StageMoves
<1>12. stage[r] = "sent"
  BY <1>2, <1>8, StageIs DEF Stage
<1>13. decisionOf(a) \in Sub!Decisions
  BY DEF decisionOf, Sub!Decisions
<1> QED BY <1>2, <1>11, <1>12, <1>13 DEF Sub!Decide, r

LEMMA ReportTells ==
  ASSUME IInv, Truth, NEW r \in Callers, Report(r)
  PROVE  Sub!Tell(r)
<1>1. /\ UNCHANGED soapVars /\ pc[r] = "sent" /\ phase[r] = "returned"
      /\ verdict' = [verdict EXCEPT ![r] = outcomeOf(Answer(r))]
  BY DEF Report, Returned
<1>2. verdict[r] = "none"
  BY <1>1 DEF Truth, Said
<1>3. stage' = stage
  <2>1. \A q \in Callers : SendsOf(q)' = SendsOf(q) /\ SendServed(q)' = SendServed(q)
    BY <1>1 DEF soapVars, SendsOf, SendServed
  <2> QED BY <2>1, StageKept, StageIs, StageIsNext
<1>4. outcomeOf(Answer(r)) \in {"unknown", "silent", "refused", "accepted"}
  BY DEF outcomeOf
<1>5. outcomeOf(Answer(r)) # "unknown" => outcomeOf(Answer(r)) = stage[r]
  BY <1>1, ReportedIsDecided, DecidedOnce
<1> QED BY <1>1, <1>2, <1>3, <1>4, <1>5 DEF Sub!Tell

(* Queries and their answers are no concern of Submission's.                    *)
LEMMA QueryStutters ==
  ASSUME IInv, NEW r \in Callers, PollTick(r) \/ AskStatus(r)
  PROVE  UNCHANGED Sub!vars
<1>1. verdict' = verdict
  BY DEF PollTick, AskStatus
<1>2. PICK request : Request(r, request, {}) /\ request.op = StatusOp
  <2>1. statusQuery({guid[r]}, {}).op = StatusOp
    BY DEF statusQuery
  <2>2. statusQuery({opts[r].status}, {opts[r].status}).op = StatusOp
    BY DEF statusQuery
  <2> QED BY <2>1, <2>2 DEF PollTick, AskStatus
<1>3. /\ served' = served /\ posted \subseteq posted'
      /\ \A m \in posted' : m \in posted \/ m.request = request
  BY <1>2, RequestTruth
<1>4. \A q \in Callers : SendsOf(q)' = SendsOf(q)
  BY <1>2, <1>3, NoStatusOp DEF SendsOf
<1>5. \A q \in Callers : SendServed(q)' = SendServed(q)
  BY <1>3, <1>4 DEF SendServed
<1> QED BY <1>1, <1>4, <1>5, Stutters

LEMMA ServeStatusStutters ==
  ASSUME IInv, NEW m \in outbound, ServeStatus(m)
  PROVE  UNCHANGED Sub!vars
<1>1. PICK a : Serve(m, a)
  BY DEF ServeStatus
<1>2. m \in posted /\ m.request.op \notin SendOps /\ verdict' = verdict
  BY NoStatusOp DEF IInv, WireInv, SoapTypeOK, ServeStatus, runVars
<1>3. /\ posted' = posted /\ served \subseteq served'
      /\ \A s \in served' : s \in served \/ s.id = m.id
  BY <1>1, ServeAdds
<1>4. \A q \in Callers : SendsOf(q)' = SendsOf(q)
  BY <1>3 DEF SendsOf
<1>5. \A q \in Callers : \A k \in SendsOf(q) : k.id # m.id
  BY <1>2 DEF IInv, WireInv, Identified, SendsOf
<1>6. \A q \in Callers : SendServed(q)' = SendServed(q)
  BY <1>3, <1>4, <1>5 DEF SendServed
<1> QED BY <1>2, <1>4, <1>6, Stutters

LEMMA NextImplements == IInv /\ Truth /\ [Next]_vars => [Sub!Next]_Sub!vars
<1> SUFFICES ASSUME IInv, Truth, [Next]_vars PROVE Sub!Next \/ UNCHANGED Sub!vars
  OBVIOUS
<1>1. ASSUME UNCHANGED <<soapVars, verdict>> PROVE UNCHANGED Sub!vars
  <2>1. \A q \in Callers : SendsOf(q)' = SendsOf(q) /\ SendServed(q)' = SendServed(q)
    BY <1>1 DEF soapVars, SendsOf, SendServed
  <2> QED BY <1>1, <2>1, Stutters
<1>2. ASSUME NEW r \in Callers, Step(r) PROVE Sub!Next \/ UNCHANGED Sub!vars
  <2>1. CASE Dispatch(r)
    BY <2>1, DispatchSubmits DEF Sub!Next
  <2>2. CASE Report(r)
    BY <2>2, ReportTells DEF Sub!Next
  <2>3. CASE PollTick(r) \/ AskStatus(r)
    BY <2>3, QueryStutters
  <2>4. CASE \/ Start(r) \/ Prepare(r) \/ PollLoop(r) \/ PollCancelled(r)
             \/ PollReport(r) \/ ShowStatus(r)
    BY <1>1, <2>4 DEF Start, Prepare, PollLoop, PollCancelled, PollReport, ShowStatus
  <2> QED BY <1>2, <2>1, <2>2, <2>3, <2>4 DEF Step
<1>3. ASSUME NEW r \in Callers, CallEnds(r) PROVE UNCHANGED Sub!vars
  <2>1. posted' = posted /\ served' = served /\ verdict' = verdict
    BY <1>3 DEF CallEnds, Return, Fail, runVars
  <2>2. \A q \in Callers : SendsOf(q)' = SendsOf(q) /\ SendServed(q)' = SendServed(q)
    BY <2>1 DEF SendsOf, SendServed
  <2> QED BY <2>1, <2>2, Stutters
<1>4. ASSUME NEW r \in Callers, Elapse(r) \/ Expire(r) \/ Kill(r) PROVE UNCHANGED Sub!vars
  BY <1>1, <1>4 DEF Elapse, Expire, Kill
<1>5. ASSUME NEW m \in outbound, ServeSend(m) PROVE Sub!Next
  <2>1. m.id[1] \in Callers
    BY <1>5 DEF IInv, WireInv, SoapTypeOK
  <2> QED BY <1>5, <2>1, ServeSendDecides DEF Sub!Next
<1>6. ASSUME NEW m \in outbound, ServeStatus(m) PROVE UNCHANGED Sub!vars
  BY <1>6, ServeStatusStutters
<1>7. ASSUME NEW s \in Shipments, Move(s) \/ AssignGuid(s) PROVE UNCHANGED Sub!vars
  BY <1>1, <1>7 DEF Move, AssignGuid, runVars
<1>8. CASE UNCHANGED vars
  BY <1>1, <1>8 DEF vars, runVars
<1> QED BY <1>2, <1>3, <1>4, <1>5, <1>6, <1>7, <1>8 DEF Next

(* The command, its runs and the portal together, implements Submission: a run  *)
(* submits at most once, is decided on at most once, and tells that decision or *)
(* that it heard of none.                                                       *)
THEOREM ImplementsSubmission == Spec => SubmissionSpec
<1>1. Init => Sub!Init
  <2> SUFFICES ASSUME Init PROVE Sub!Init
    OBVIOUS
  <2>1. \A r \in Callers : SendsOf(r) = {}
    BY DEF Init, SoapInit, SendsOf
  <2>2. stage = [r \in Callers |-> "unsent"]
    BY <2>1, StageIs DEF Stage
  <2> QED BY <2>2 DEF Init, Sub!Init
<1> QED BY <1>1, NextImplements, Invariance, TruthInvariance, PTL
        DEF Spec, SubmissionSpec, Sub!Spec
-------------------------------------------------------------------------------
(* Below Submission, the calls of all runs implement RemoteCall.                *)
LEMMA NextCalls == IInv /\ [Next]_vars => [RC!Next]_RC!vars
<1> SUFFICES ASSUME IInv, [Next]_vars PROVE [RC!Next]_RC!vars
  OBVIOUS
<1>0. WireInv
  BY DEF IInv
<1>1. ASSUME NEW r \in Callers, NEW request, NEW zero, Request(r, request, zero)
      PROVE  [RC!Next]_RC!vars
  BY <1>0, <1>1, CallRefines, RefuseRefines DEF Request
<1>2. ASSUME NEW r \in Callers, Step(r) PROVE [RC!Next]_RC!vars
  <2>1. CASE Dispatch(r)
    BY <1>1, <2>1 DEF Dispatch
  <2>2. CASE PollTick(r)
    BY <1>1, <2>2 DEF PollTick
  <2>3. CASE AskStatus(r)
    BY <1>1, <2>3 DEF AskStatus
  <2>4. CASE UNCHANGED soapVars
    BY <2>4, StutterRefines
  <2> QED BY <1>2, <2>1, <2>2, <2>3, <2>4
       DEF Step, Start, Prepare, Report, PollLoop, PollCancelled, PollReport, ShowStatus
<1>3. ASSUME NEW r \in Callers, CallEnds(r) PROVE [RC!Next]_RC!vars
  BY <1>0, <1>3, ReturnRefines, FailRefines DEF CallEnds
<1>4. ASSUME NEW r \in Callers, Elapse(r) \/ Expire(r) \/ Kill(r) PROVE [RC!Next]_RC!vars
  <2>1. UNCHANGED soapVars
    BY <1>4 DEF Elapse, Expire, Kill
  <2> QED BY <2>1, StutterRefines
<1>5. ASSUME NEW m \in outbound, ServeSend(m) \/ ServeStatus(m) PROVE [RC!Next]_RC!vars
  <2>1. PICK a : Serve(m, a)
    BY <1>5 DEF ServeSend, ServeStatus
  <2> QED BY <1>0, <2>1, ServeRefines
<1>6. ASSUME NEW s \in Shipments, Move(s) \/ AssignGuid(s) PROVE [RC!Next]_RC!vars
  <2>1. UNCHANGED soapVars
    BY <1>6 DEF Move, AssignGuid
  <2> QED BY <2>1, StutterRefines
<1>7. CASE UNCHANGED vars
  <2>1. UNCHANGED soapVars
    BY <1>7 DEF vars
  <2> QED BY <2>1, StutterRefines
<1> QED BY <1>2, <1>3, <1>4, <1>5, <1>6, <1>7 DEF Next

(* The command's calls, a send and its queries, are each executed at most once, *)
(* and before they succeed (client.go:123), although runs are killed and        *)
(* contexts expire while the portal still executes them.                        *)
THEOREM CallsImplementRemoteCall == Spec => RemoteCallSpec
<1>1. Init => RC!Init
  BY InitRefines DEF Init
<1>2. IInv /\ [Next]_vars => [RC!Next]_RC!vars
  BY NextCalls
<1> QED BY <1>1, <1>2, Invariance, PTL DEF Spec, RC!Spec, RemoteCallSpec
===============================================================================
