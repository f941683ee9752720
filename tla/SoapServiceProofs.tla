-------------------------- MODULE SoapServiceProofs ---------------------------
(* Proofs about SoapService for any callers, operations and answers: a call is  *)
(* handled at most once and returns its own answer, and the SDK implements      *)
(* RemoteCall.                                                                  *)
EXTENDS SoapService, SoapClientProofs

(* The inductive invariant.                                                     *)
IInv == TypeOK /\ WireInv

LEMMA InitIInv == Init => IInv
<1>1. Init => WireInv
  BY InitWire DEF Init
<1>2. Init => TypeOK
  BY <1>1 DEF Init, SoapInit, TypeOK, WireInv
<1> QED BY <1>1, <1>2 DEF IInv

LEMMA NextIInv == IInv /\ [Next]_soapVars => IInv'
<1> SUFFICES ASSUME IInv, [Next]_soapVars PROVE IInv'
  OBVIOUS
<1> USE DEF IInv
<1>1. CASE UNCHANGED soapVars
  <2>1. WireInv'
    BY <1>1, StutterWire
  <2> QED BY <1>1, <2>1 DEF TypeOK, WireInv, soapVars
<1>2. ASSUME NEW c \in Callers, NEW o \in Operations, Call(c, o, Zero) PROVE IInv'
  <2>1. WireInv'
    BY <1>2, CallWire
  <2>2. <<c, count[c] + 1>> \in Callers \X Nat
    BY DEF TypeOK, SoapTypeOK
  <2> QED BY <1>2, <2>1, <2>2 DEF TypeOK, WireInv, Call
<1>3. ASSUME NEW c \in Callers, Refuse(c, Zero) PROVE IInv'
  <2>1. WireInv'
    BY <1>3, RefuseWire
  <2> QED BY <1>3, <2>1 DEF TypeOK, WireInv, Refuse
<1>4. ASSUME NEW c \in Callers, Return(c) PROVE IInv'
  <2>1. WireInv'
    BY <1>4, ReturnWire
  <2> QED BY <1>4, <2>1 DEF TypeOK, WireInv, Return
<1>5. ASSUME NEW c \in Callers, Fail(c) PROVE IInv'
  <2>1. WireInv'
    BY <1>5, FailWire
  <2> QED BY <1>5, <2>1 DEF TypeOK, WireInv, Fail
<1>6. ASSUME NEW m \in outbound, NEW a \in Answers, Serve(m, a) PROVE IInv'
  <2>1. WireInv'
    BY <1>6, ServeWire, SoapServiceAssumption
  <2>2. m.id \in Callers \X Nat
    BY DEF TypeOK, SoapTypeOK
  <2> QED BY <1>6, <2>1, <2>2 DEF TypeOK, WireInv, Serve
<1> QED BY <1>1, <1>2, <1>3, <1>4, <1>5, <1>6 DEF Next

(* The inductive invariant holds of every behaviour, so all its parts do.       *)
THEOREM Invariance == Spec => []IInv
<1>1. Init => IInv
  BY InitIInv
<1>2. IInv /\ [Next]_soapVars => IInv'
  BY NextIInv
<1> QED BY <1>1, <1>2, PTL DEF Spec

(* Types, and the wire only holds what was posted and handled.                  *)
THEOREM TypeCorrect == Spec => []TypeOK
<1>1. IInv => TypeOK BY DEF IInv, WireInv
<1> QED BY <1>1, Invariance, PTL

(* No request is handled twice, whatever the network does and callers retry.    *)
THEOREM AtMostOnce == Spec => []HandledOnce
<1>1. IInv => HandledOnce BY DEF IInv, WireInv
<1> QED BY <1>1, Invariance, PTL

(* A call without an error returns what the portal answered to its request.     *)
THEOREM ReturnsOwnAnswer == Spec => []OwnAnswer
<1>1. IInv => OwnAnswer BY DEF IInv, WireInv
<1> QED BY <1>1, Invariance, PTL

(* Where no result the portal serves is the zero value, a call that returns the *)
(* zero value without an error was answered without a result: no failure to     *)
(* read an answer is taken for one.                                             *)
THEOREM ZeroIsNoResult ==
  ASSUME \A a \in Answers : a.kind = "payload" => a.value # Zero
  PROVE  Spec => []ZeroMeansNoResult
<1>1. IInv => ZeroMeansNoResult
  <2> SUFFICES ASSUME IInv, NEW c \in Callers, phase[c] = "returned",
                      result[c].err = "nil", result[c].value = Zero
               PROVE  \E s \in served : s.id = Id(c) /\ s.response.kind \in {"empty", "absent"}
    BY DEF ZeroMeansNoResult
  <2>1. PICK s \in served :
          /\ s.id = Id(c) /\ s.response.kind \in {"payload", "empty", "absent"}
          /\ s.response.kind = "payload" => result[c].value = s.response.value
    BY DEF IInv, WireInv, OwnAnswer
  <2>2. s.response \in Answers
    BY DEF IInv, TypeOK
  <2> QED BY <2>1, <2>2
<1> QED BY <1>1, Invariance, PTL
-------------------------------------------------------------------------------
LEMMA StepRefines == IInv /\ [Next]_soapVars => [RC!Next]_RC!vars
<1> SUFFICES ASSUME IInv, [Next]_soapVars PROVE [RC!Next]_RC!vars
  OBVIOUS
<1>1. ASSUME NEW m \in outbound, NEW a \in Answers, Serve(m, a) PROVE [RC!Next]_RC!vars
  BY <1>1, ServeRefines DEF IInv
<1>2. ASSUME NEW c \in Callers, NEW o \in Operations, Call(c, o, Zero) PROVE [RC!Next]_RC!vars
  BY <1>2, CallRefines DEF IInv
<1>3. ASSUME NEW c \in Callers, Refuse(c, Zero) \/ Return(c) \/ Fail(c) PROVE [RC!Next]_RC!vars
  BY <1>3, RefuseRefines, ReturnRefines, FailRefines DEF IInv
<1> QED BY <1>1, <1>2, <1>3, StutterRefines DEF Next

(* Every behaviour of the SDK is one of RemoteCall: whatever the network does,  *)
(* a call is executed at most once, and before it succeeds.                     *)
THEOREM ImplementsRemoteCall == Spec => RemoteCallSpec
<1>1. Init => RC!Init
  BY InitRefines DEF Init
<1>2. IInv /\ [Next]_soapVars => [RC!Next]_RC!vars
  BY StepRefines
<1> QED BY <1>1, <1>2, Invariance, PTL DEF Spec, RC!Spec, RemoteCallSpec
===============================================================================
