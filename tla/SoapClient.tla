------------------------------ MODULE SoapClient ------------------------------
(* Client.call and Client.decodeResponse (wsdatachannel/client.go): one HTTP    *)
(* POST per call, no retry, the answer decoded into the caller's variable.      *)
(*                                                                              *)
(* A caller is a goroutine or a process with one call at a time; callers share  *)
(* the endpoint.  A request is lost when nobody ever handles it, late when it   *)
(* is handled after its call gave up.  The modules that extend this one say     *)
(* which requests are made and how the portal answers them.                     *)
EXTENDS Naturals

CONSTANTS Callers,   \* the goroutines or processes that make calls
          MaxCalls   \* bound: the calls one caller makes

ASSUME SoapClientAssumption == MaxCalls \in Nat

VARIABLES
  phase,     \* caller -> "idle", "flight" or "returned"
  count,     \* caller -> the calls it began
  result,    \* caller -> [err, value]: the error and the out variable of its call
  outbound,  \* requests on their way to the portal: [id, request]
  inbound,   \* answers on their way back: [id, response]
  posted,    \* history: every request ever written to a connection
  served     \* history: every request the portal handled, with its answer

callVars == <<phase, count, result>>
soapVars == <<callVars, outbound, inbound, posted, served>>

Phases == {"idle", "flight", "returned"}

(* "none" while nothing was decided; the others name call's error returns.      *)
Errors == {"none", "nil", "request", "transport", "fault", "http", "parse", "decode"}

(* What a body can be: not an envelope; an envelope cut at maxResponseBytes;    *)
(* a fault; an empty Body; a wrapper without the result element; a result that  *)
(* does not fit the Go type (value: the part decoded so far); a result.         *)
Kinds == {"malformed", "oversized", "fault", "empty", "absent", "undecodable", "payload"}

Id(c) == <<c, count[c]>>

SoapInit ==
  /\ phase = [c \in Callers |-> "idle"]
  /\ count = [c \in Callers |-> 0]
  /\ result = [c \in Callers |-> [err |-> "none", value |-> "zero"]]
  /\ outbound = {}
  /\ inbound = {}
  /\ posted = {}
  /\ served = {}
-------------------------------------------------------------------------------
(* xml.Unmarshal of the capped bytes into soapEnvelope succeeds.                *)
parses(response) == response.kind \notin {"malformed", "oversized"}

(* Mutant: a result that does not decode is taken for no result.                *)
decodeResponse_SwallowsDecodeError(response, out) ==
  IF parses(response) /\ response.kind = "fault" THEN [err |-> "fault", value |-> out]
  ELSE IF response.status # 200 THEN [err |-> "http", value |-> out]
  ELSE IF ~parses(response) THEN [err |-> "parse", value |-> out]
  ELSE [err |-> "nil", value |-> IF response.kind = "payload" THEN response.value ELSE out]

(* The order of decodeResponse's returns: a fault before the HTTP status, the   *)
(* status before a parse error, an empty body or one without the result element *)
(* leaves the out variable as it was.                                           *)
decodeResponse(response, out) ==
  IF parses(response) /\ response.kind = "fault" THEN [err |-> "fault", value |-> out]
  ELSE IF response.status # 200 THEN [err |-> "http", value |-> out]
  ELSE IF ~parses(response) THEN [err |-> "parse", value |-> out]
  ELSE IF response.kind \in {"empty", "absent"} THEN [err |-> "nil", value |-> out]
  ELSE [err   |-> IF response.kind = "undecodable" THEN "decode" ELSE "nil",
        value |-> response.value]

Finish(c, answer) ==
  /\ phase' = [phase EXCEPT ![c] = "returned"]
  /\ result' = [result EXCEPT ![c] = answer]
  /\ UNCHANGED count

(* Mutant: a call is not told apart from the one before it.                     *)
Begin_ReusesNumber(c, where, answer) ==
  /\ phase[c] # "flight" /\ count[c] < MaxCalls
  /\ phase' = [phase EXCEPT ![c] = where]
  /\ result' = [result EXCEPT ![c] = answer]
  /\ UNCHANGED count

(* A new call starts with the zero value of the operation's out variable.       *)
Begin(c, where, answer) ==
  /\ phase[c] # "flight" /\ count[c] < MaxCalls
  /\ phase' = [phase EXCEPT ![c] = where]
  /\ result' = [result EXCEPT ![c] = answer]
  /\ count' = [count EXCEPT ![c] = @ + 1]

(* The request is built and written to a connection.                            *)
Call(c, request, zero) ==
  /\ Begin(c, "flight", [err |-> "none", value |-> zero])
  /\ LET message == [id |-> <<c, count[c] + 1>>, request |-> request]
     IN  /\ outbound' = outbound \cup {message}
         /\ posted' = posted \cup {message}
  /\ UNCHANGED <<inbound, served>>

(* buildRequest or http.NewRequestWithContext fails: nothing leaves.            *)
Refuse(c, zero) ==
  /\ Begin(c, "returned", [err |-> "request", value |-> zero])
  /\ UNCHANGED <<outbound, inbound, posted, served>>

(* Mutant: an answer is taken for this call's whichever call of the caller it   *)
(* belongs to.                                                                  *)
Return_AnyAnswer(c) ==
  /\ phase[c] = "flight"
  /\ \E m \in inbound :
       /\ m.id[1] = c
       /\ Finish(c, decodeResponse(m.response, result[c].value))
       /\ inbound' = inbound \ {m}
  /\ UNCHANGED <<outbound, posted, served>>

(* The answer is read to its end and decoded.                                   *)
Return(c) ==
  /\ phase[c] = "flight"
  /\ \E m \in inbound :
       /\ m.id = Id(c)
       /\ Finish(c, decodeResponse(m.response, result[c].value))
       /\ inbound' = inbound \ {m}
  /\ UNCHANGED <<outbound, posted, served>>

(* Mutant: call writes the request again before it gives up.                    *)
Fail_Resends(c) ==
  /\ phase[c] = "flight"
  /\ Finish(c, [err |-> "transport", value |-> result[c].value])
  /\ outbound' = outbound \cup {m \in posted : m.id = Id(c)}
  /\ UNCHANGED <<inbound, posted, served>>

(* Mutant: neither a deadline nor a broken connection ends a call.              *)
Fail_NoTimeout(c) == FALSE /\ UNCHANGED soapVars

(* Do or ReadAll fails: no connection, a broken one, the client's time-out or   *)
(* the context's deadline.  The request may be anywhere, handled or not.        *)
Fail(c) ==
  /\ phase[c] = "flight"
  /\ Finish(c, [err |-> "transport", value |-> result[c].value])
  /\ UNCHANGED <<outbound, inbound, posted, served>>

(* The portal handles a request and answers it.                                 *)
Serve(m, response) ==
  /\ m \in outbound
  /\ outbound' = outbound \ {m}
  /\ inbound' = inbound \cup {[id |-> m.id, response |-> response]}
  /\ served' = served \cup {[id |-> m.id, response |-> response]}
  /\ UNCHANGED <<callVars, posted>>
-------------------------------------------------------------------------------
SoapTypeOK ==
  /\ phase \in [Callers -> Phases]
  /\ count \in [Callers -> Nat]
  /\ DOMAIN result = Callers
  /\ \A c \in Callers : result[c].err \in Errors
  /\ outbound \subseteq posted
  /\ \A m \in posted : /\ m.id \in Callers \X Nat
                      /\ m.id[2] \in 1 .. count[m.id[1]]
  /\ inbound \subseteq served
  /\ \A s \in served : s.response.kind \in Kinds

(* Each request on a connection has an identity of its own, and only such       *)
(* requests are handled.                                                        *)
Identified ==
  /\ \A m, k \in posted : m.id = k.id => m = k
  /\ \A s \in served : \E m \in posted : m.id = s.id

(* The portal handles each call at most once: a handled request is no longer on *)
(* its way, and was answered with one answer.  call never writes a request a    *)
(* second time, also when it fails.                                             *)
HandledOnce ==
  /\ \A m \in outbound, s \in served : m.id # s.id
  /\ \A s, t \in served : s.id = t.id => s = t

(* A call that returns without an error was handled by the portal with HTTP     *)
(* 200, and returns what the portal answered to this very request, also when an *)
(* answer to an earlier call of the same caller is still on its way.            *)
OwnAnswer ==
  \A c \in Callers :
    (phase[c] = "returned" /\ result[c].err = "nil") =>
      \E s \in served :
        /\ s.id = Id(c)
        /\ s.response.status = 200
        /\ s.response.kind \in {"payload", "empty", "absent"}
        /\ s.response.kind = "payload" => result[c].value = s.response.value
-------------------------------------------------------------------------------
(* Whoever makes the calls, and whatever answers them, they implement           *)
(* RemoteCall.                                                                  *)
callState ==
  [c \in Callers |->
    IF phase[c] = "idle" THEN "idle"
    ELSE IF phase[c] = "flight" THEN "pending"
    ELSE IF result[c].err = "nil" THEN "ok" ELSE "failed"]

RC == INSTANCE RemoteCall WITH
        state    <- callState,
        count    <- count,
        executed <- {s.id : s \in served}

RemoteCallSpec == RC!Spec
===============================================================================
