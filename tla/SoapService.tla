----------------------------- MODULE SoapService ------------------------------
(* The SDK on its own: any callers making any calls through one Client, and a   *)
(* portal that may answer anything, late or never.                              *)
EXTENDS SoapClient

CONSTANTS Operations,   \* the requests callers make
          Zero,         \* the zero value of the out variable
          Answers       \* the responses the portal may give

ASSUME SoapServiceAssumption ==
  \A a \in Answers : /\ a.kind \in Kinds
                     /\ a.status \in Nat

Init == SoapInit

Next ==
  \/ \E c \in Callers :
       \/ \E o \in Operations : Call(c, o, Zero)
       \/ Refuse(c, Zero)
       \/ Return(c)
       \/ Fail(c)
  \/ \E m \in outbound, a \in Answers : Serve(m, a)

Spec == Init /\ [][Next]_soapVars
-------------------------------------------------------------------------------
TypeOK ==
  /\ SoapTypeOK
  /\ posted \subseteq [id : Callers \X Nat, request : Operations]
  /\ served \subseteq [id : Callers \X Nat, response : Answers]

(* A caller that gets no error and the zero value was told so by the portal:    *)
(* the answer held no result.  No failure to read one looks the same.           *)
ZeroMeansNoResult ==
  \A c \in Callers :
    /\ phase[c] = "returned"
    /\ result[c].err = "nil"
    /\ result[c].value = Zero
    => \E s \in served : s.id = Id(c) /\ s.response.kind \in {"empty", "absent"}
===============================================================================
