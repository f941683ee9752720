--------------------------- MODULE SoapClientProofs ---------------------------
(* What every step of the client and of the wire preserves, for any requests    *)
(* and any answers.  The proofs about the systems built on the client rest on   *)
(* these lemmas.                                                                *)
EXTENDS SoapClient, TLAPS

WireInv == SoapTypeOK /\ Identified /\ HandledOnce /\ OwnAnswer

(* The error of a decoded response is one of call's errors, and none at all     *)
(* only when the portal said 200 and nothing else was wrong.                    *)
LEMMA DecodeErrors ==
  ASSUME NEW a, NEW out, a.kind \in Kinds
  PROVE  /\ decodeResponse(a, out).err \in Errors
         /\ decodeResponse(a, out).err = "nil" =>
              /\ a.status = 200
              /\ a.kind \in {"payload", "empty", "absent"}
              /\ a.kind = "payload" => decodeResponse(a, out).value = a.value
  BY DEF decodeResponse, parses, Kinds, Errors

LEMMA InitWire == SoapInit => WireInv
  BY DEF SoapInit, WireInv, SoapTypeOK, Identified, HandledOnce, OwnAnswer, Phases, Errors

(* A caller's step that posts nothing keeps all that is said of the wire.       *)
LEMMA BeginWire ==
  ASSUME WireInv, NEW c \in Callers, NEW where \in {"flight", "returned"}, NEW answer,
         answer.err \in {"none", "request"}, Begin(c, where, answer)
  PROVE  /\ phase' \in [Callers -> Phases]
         /\ count' \in [Callers -> Nat]
         /\ DOMAIN result' = Callers
         /\ \A d \in Callers : result'[d].err \in Errors
         /\ count' = [count EXCEPT ![c] = count[c] + 1]
         /\ \A d \in Callers : d # c => phase'[d] = phase[d] /\ result'[d] = result[d]
         /\ result'[c].err # "nil"
  BY DEF WireInv, SoapTypeOK, Begin, Phases, Errors

(* What a caller was answered stays so when the caller does not move and the    *)
(* record of what was handled only grows.                                       *)
LEMMA OwnAnswerKept ==
  ASSUME WireInv, served \subseteq served', NEW d \in Callers,
         phase'[d] = phase[d], result'[d] = result[d], count'[d] = count[d]
  PROVE  (phase'[d] = "returned" /\ result'[d].err = "nil") =>
           \E s \in served' :
             /\ s.id = Id(d)'
             /\ s.response.status = 200
             /\ s.response.kind \in {"payload", "empty", "absent"}
             /\ s.response.kind = "payload" => result'[d].value = s.response.value
<1> SUFFICES ASSUME phase'[d] = "returned", result'[d].err = "nil"
             PROVE  \E s \in served' :
                      /\ s.id = Id(d)'
                      /\ s.response.status = 200
                      /\ s.response.kind \in {"payload", "empty", "absent"}
                      /\ s.response.kind = "payload" => result'[d].value = s.response.value
  OBVIOUS
<1>1. PICK s \in served :
        /\ s.id = Id(d)
        /\ s.response.status = 200
        /\ s.response.kind \in {"payload", "empty", "absent"}
        /\ s.response.kind = "payload" => result[d].value = s.response.value
  BY DEF WireInv, OwnAnswer
<1>2. s \in served' /\ s.id = Id(d)'
  BY <1>1 DEF Id
<1> QED BY <1>1, <1>2

LEMMA CallWire ==
  ASSUME WireInv, NEW c \in Callers, NEW o, NEW zero, Call(c, o, zero)
  PROVE  WireInv'
<1> DEFINE answer == [err |-> "none", value |-> zero]
           message == [id |-> <<c, count[c] + 1>>, request |-> o]
<1>1. /\ Begin(c, "flight", answer)
      /\ outbound' = outbound \cup {message}
      /\ posted' = posted \cup {message}
      /\ inbound' = inbound /\ served' = served
  BY DEF Call
<1>2. answer.err = "none"
  OBVIOUS
<1> HIDE DEF answer
<1>3. /\ phase' \in [Callers -> Phases]
      /\ count' \in [Callers -> Nat]
      /\ DOMAIN result' = Callers
      /\ \A d \in Callers : result'[d].err \in Errors
      /\ count' = [count EXCEPT ![c] = count[c] + 1]
      /\ \A d \in Callers : d # c => phase'[d] = phase[d] /\ result'[d] = result[d]
      /\ result'[c].err # "nil"
  BY <1>1, <1>2, BeginWire
<1>4. \A m \in posted : m.id # message.id
  BY DEF WireInv, SoapTypeOK
<1>5. message.id \in Callers \X Nat /\ message.id[1] = c /\ message.id[2] = count[c] + 1
  BY DEF WireInv, SoapTypeOK
<1>6. message.id = <<c, count[c] + 1>>
  OBVIOUS
<1> HIDE DEF message
<1>7. SoapTypeOK'
  <2>1. \A m \in posted' : m.id[2] \in 1 .. count'[m.id[1]]
    BY <1>1, <1>3, <1>5 DEF WireInv, SoapTypeOK
  <2> QED BY <1>1, <1>3, <1>5, <2>1 DEF WireInv, SoapTypeOK
<1>8. Identified'
  BY <1>1, <1>4 DEF WireInv, Identified
<1>9. HandledOnce'
  BY <1>1, <1>4 DEF WireInv, Identified, HandledOnce
<1>10. OwnAnswer'
  <2>1. \A d \in Callers : d # c => count'[d] = count[d]
    BY <1>3 DEF WireInv, SoapTypeOK
  <2>2. served \subseteq served'
    BY <1>1
  <2> QED BY <1>3, <2>1, <2>2, OwnAnswerKept DEF OwnAnswer
<1> QED BY <1>7, <1>8, <1>9, <1>10 DEF WireInv

LEMMA RefuseWire ==
  ASSUME WireInv, NEW c \in Callers, NEW zero, Refuse(c, zero)
  PROVE  WireInv'
<1> DEFINE answer == [err |-> "request", value |-> zero]
<1>1. Begin(c, "returned", answer) /\ UNCHANGED <<outbound, inbound, posted, served>>
  BY DEF Refuse
<1>2. answer.err = "request"
  OBVIOUS
<1> HIDE DEF answer
<1>3. /\ phase' \in [Callers -> Phases]
      /\ count' \in [Callers -> Nat]
      /\ DOMAIN result' = Callers
      /\ \A d \in Callers : result'[d].err \in Errors
      /\ count' = [count EXCEPT ![c] = count[c] + 1]
      /\ \A d \in Callers : d # c => phase'[d] = phase[d] /\ result'[d] = result[d]
      /\ result'[c].err # "nil"
  BY <1>1, <1>2, BeginWire
<1>4. SoapTypeOK'
  <2>1. \A m \in posted' : m.id[2] \in 1 .. count'[m.id[1]]
    BY <1>1, <1>3 DEF WireInv, SoapTypeOK
  <2> QED BY <1>1, <1>3, <2>1 DEF WireInv, SoapTypeOK
<1>5. Identified' /\ HandledOnce'
  BY <1>1 DEF WireInv, Identified, HandledOnce
<1>6. OwnAnswer'
  <2>1. \A d \in Callers : d # c => count'[d] = count[d]
    BY <1>3 DEF WireInv, SoapTypeOK
  <2>2. served \subseteq served'
    BY <1>1
  <2> QED BY <1>3, <2>1, <2>2, OwnAnswerKept DEF OwnAnswer
<1> QED BY <1>4, <1>5, <1>6 DEF WireInv

LEMMA ReturnWire ==
  ASSUME WireInv, NEW c \in Callers, Return(c)
  PROVE  WireInv'
<1>1. PICK m \in inbound :
        /\ m.id = Id(c)
        /\ Finish(c, decodeResponse(m.response, result[c].value))
        /\ inbound' = inbound \ {m}
        /\ UNCHANGED <<outbound, posted, served>>
  BY DEF Return
<1> DEFINE answer == decodeResponse(m.response, result[c].value)
<1>2. m \in served /\ m.response.kind \in Kinds
  BY DEF WireInv, SoapTypeOK
<1>3. /\ answer.err \in Errors
      /\ answer.err = "nil" =>
           /\ m.response.status = 200
           /\ m.response.kind \in {"payload", "empty", "absent"}
           /\ m.response.kind = "payload" => answer.value = m.response.value
  BY <1>2, DecodeErrors
<1> HIDE DEF answer
<1>4. /\ phase' = [phase EXCEPT ![c] = "returned"]
      /\ result' = [result EXCEPT ![c] = answer]
      /\ count' = count
  BY <1>1 DEF Finish, answer
<1>5. SoapTypeOK'
  BY <1>1, <1>3, <1>4 DEF WireInv, SoapTypeOK, Phases
<1>6. Identified' /\ HandledOnce'
  BY <1>1 DEF WireInv, Identified, HandledOnce
<1>7. OwnAnswer'
  <2>1. \A d \in Callers : d # c =>
          phase'[d] = phase[d] /\ result'[d] = result[d] /\ count'[d] = count[d]
    BY <1>4 DEF WireInv, SoapTypeOK
  <2>2. served \subseteq served' /\ m \in served'
    BY <1>1, <1>2
  <2>3. result'[c] = answer /\ m.id = Id(c)'
    BY <1>1, <1>4 DEF WireInv, SoapTypeOK, Id
  <2> QED BY <1>3, <2>1, <2>2, <2>3, OwnAnswerKept DEF OwnAnswer
<1> QED BY <1>5, <1>6, <1>7 DEF WireInv

LEMMA FailWire ==
  ASSUME WireInv, NEW c \in Callers, Fail(c)
  PROVE  WireInv'
<1>1. /\ phase' = [phase EXCEPT ![c] = "returned"]
      /\ result' = [result EXCEPT ![c] = [err |-> "transport", value |-> result[c].value]]
      /\ UNCHANGED <<count, outbound, inbound, posted, served>>
  BY DEF Fail, Finish
<1>2. SoapTypeOK'
  BY <1>1 DEF WireInv, SoapTypeOK, Phases, Errors
<1>3. Identified' /\ HandledOnce'
  BY <1>1 DEF WireInv, Identified, HandledOnce
<1>4. OwnAnswer'
  <2>1. \A d \in Callers : d # c =>
          phase'[d] = phase[d] /\ result'[d] = result[d] /\ count'[d] = count[d]
    BY <1>1 DEF WireInv, SoapTypeOK
  <2>2. result'[c].err # "nil" /\ served \subseteq served'
    BY <1>1 DEF WireInv, SoapTypeOK
  <2> QED BY <2>1, <2>2, OwnAnswerKept DEF OwnAnswer
<1> QED BY <1>2, <1>3, <1>4 DEF WireInv

LEMMA ServeWire ==
  ASSUME WireInv, NEW m, NEW a, a.kind \in Kinds, Serve(m, a)
  PROVE  WireInv'
<1> DEFINE reply == [id |-> m.id, response |-> a]
<1>1. /\ m \in outbound
      /\ outbound' = outbound \ {m}
      /\ inbound' = inbound \cup {reply}
      /\ served' = served \cup {reply}
      /\ UNCHANGED <<phase, count, result, posted>>
  BY DEF Serve, callVars
<1>2. m \in posted /\ m.id \in Callers \X Nat /\ reply.id = m.id /\ reply.response = a
  BY <1>1 DEF WireInv, SoapTypeOK
<1> HIDE DEF reply
<1>3. SoapTypeOK'
  BY <1>1, <1>2 DEF WireInv, SoapTypeOK
<1>4. Identified'
  BY <1>1, <1>2 DEF WireInv, Identified
<1>5. HandledOnce'
  <2>1. \A k \in outbound' : k.id # m.id
    BY <1>1 DEF WireInv, SoapTypeOK, Identified
  <2>2. \A s \in served : s.id # m.id
    BY <1>1 DEF WireInv, HandledOnce
  <2> QED BY <1>1, <1>2, <2>1, <2>2 DEF WireInv, HandledOnce
<1>6. OwnAnswer'
  BY <1>1, OwnAnswerKept DEF OwnAnswer
<1> QED BY <1>3, <1>4, <1>5, <1>6 DEF WireInv

LEMMA StutterWire == WireInv /\ UNCHANGED soapVars => WireInv'
<1> SUFFICES ASSUME WireInv, UNCHANGED soapVars PROVE WireInv'
  OBVIOUS
<1>1. UNCHANGED <<phase, count, result, outbound, inbound, posted, served>>
  BY DEF soapVars, callVars
<1>2. SoapTypeOK' /\ Identified' /\ HandledOnce'
  BY <1>1 DEF WireInv, SoapTypeOK, Identified, HandledOnce
<1>3. OwnAnswer'
  BY <1>1, OwnAnswerKept DEF OwnAnswer
<1> QED BY <1>2, <1>3 DEF WireInv
-------------------------------------------------------------------------------
(* The calls implement RemoteCall, step by step, whoever makes them: the        *)
(* systems built on the client take one of these lemmas for each of their steps *)
(* that calls, answers or serves, and StutterRefines for all others.            *)
LEMMA InitRefines == SoapInit => RC!Init
  BY DEF SoapInit, RC!Init, callState

(* How the abstract variables follow the concrete ones.                         *)
LEMMA StateOf ==
  ASSUME SoapTypeOK, NEW c \in Callers
  PROVE  /\ phase[c] = "idle" => callState[c] = "idle"
         /\ phase[c] = "flight" => callState[c] = "pending"
         /\ phase[c] = "returned" /\ result[c].err = "nil" => callState[c] = "ok"
         /\ phase[c] = "returned" /\ result[c].err # "nil" => callState[c] = "failed"
         /\ callState[c] = "pending" => phase[c] = "flight"
  BY DEF SoapTypeOK, Phases, callState

LEMMA StutterRefines == ASSUME UNCHANGED soapVars PROVE [RC!Next]_RC!vars
  BY DEF soapVars, callVars, RC!vars, callState

LEMMA BeginRefines ==
  ASSUME WireInv, NEW c \in Callers, NEW where \in {"flight", "returned"}, NEW answer,
         answer.err \in {"none", "request"}, where = "returned" => answer.err = "request",
         Begin(c, where, answer), served' = served
  PROVE  RC!Issue(c)
<1>1. callState[c] # "pending"
  BY StateOf DEF Begin, WireInv, SoapTypeOK, Phases
<1>2. callState' = [callState EXCEPT ![c] = IF where = "flight" THEN "pending" ELSE "failed"]
  BY DEF Begin, callState, WireInv, SoapTypeOK
<1>3. count' = [count EXCEPT ![c] = @ + 1]
  BY DEF Begin
<1> QED BY <1>1, <1>2, <1>3 DEF RC!Issue

LEMMA CallRefines ==
  ASSUME WireInv, NEW c \in Callers, NEW request, NEW zero, Call(c, request, zero)
  PROVE  [RC!Next]_RC!vars
<1>1. RC!Issue(c)
  BY BeginRefines DEF Call
<1> QED BY <1>1 DEF RC!Next

LEMMA RefuseRefines ==
  ASSUME WireInv, NEW c \in Callers, NEW zero, Refuse(c, zero)
  PROVE  [RC!Next]_RC!vars
<1>1. RC!Issue(c)
  BY BeginRefines DEF Refuse
<1> QED BY <1>1 DEF RC!Next

LEMMA ReturnRefines ==
  ASSUME WireInv, NEW c \in Callers, Return(c)
  PROVE  [RC!Next]_RC!vars
<1>1. /\ phase[c] = "flight" /\ phase'[c] = "returned"
      /\ count' = count /\ served' = served
      /\ \E m \in inbound : m.id = <<c, count[c]>>
  BY DEF Return, Finish, WireInv, SoapTypeOK, Id
<1>2. <<c, count[c]>> \in {s.id : s \in served}
  BY <1>1 DEF WireInv, SoapTypeOK
<1>3. callState[c] = "pending"
  BY <1>1, StateOf DEF WireInv
<1>4. callState' = [callState EXCEPT ![c] = IF result'[c].err = "nil" THEN "ok" ELSE "failed"]
  BY DEF Return, Finish, WireInv, SoapTypeOK, callState
<1>5. RC!Succeed(c) \/ RC!GiveUp(c)
  BY <1>1, <1>2, <1>3, <1>4 DEF RC!Succeed, RC!GiveUp
<1> QED BY <1>5 DEF RC!Next

LEMMA FailRefines ==
  ASSUME WireInv, NEW c \in Callers, Fail(c)
  PROVE  [RC!Next]_RC!vars
<1>1. phase[c] = "flight" /\ count' = count /\ served' = served
  BY DEF Fail, Finish
<1>2. callState[c] = "pending"
  BY <1>1, StateOf DEF WireInv
<1>3. callState' = [callState EXCEPT ![c] = "failed"]
  BY DEF Fail, Finish, WireInv, SoapTypeOK, callState
<1>4. RC!GiveUp(c)
  BY <1>1, <1>2, <1>3 DEF RC!GiveUp
<1> QED BY <1>4 DEF RC!Next

LEMMA ServeRefines ==
  ASSUME WireInv, NEW m \in outbound, NEW a, Serve(m, a)
  PROVE  [RC!Next]_RC!vars
<1>1. PICK c \in Callers, n \in Nat : m.id = <<c, n>> /\ n \in 1 .. count[c]
  <2>1. m \in posted /\ m.id \in Callers \X Nat
    BY DEF WireInv, SoapTypeOK
  <2> QED BY <2>1 DEF WireInv, SoapTypeOK
<1>2. <<c, n>> \notin {s.id : s \in served}
  BY <1>1 DEF WireInv, HandledOnce
<1>3. {s.id : s \in served'} = {s.id : s \in served} \cup {<<c, n>>}
  <2>1. served' = served \cup {[id |-> <<c, n>>, response |-> a]}
    BY <1>1 DEF Serve
  <2>2. [id |-> <<c, n>>, response |-> a].id = <<c, n>>
    OBVIOUS
  <2> QED BY <2>1, <2>2
<1>4. callState' = callState /\ count' = count
  BY DEF Serve, callVars, callState
<1>5. RC!Execute(c, n)
  BY <1>1, <1>2, <1>3, <1>4 DEF RC!Execute
<1> QED BY <1>1, <1>5 DEF RC!Next
===============================================================================
