---------------------------- MODULE MCSoapService -----------------------------
(* Two callers, two calls each.  One answer for each way decodeResponse can     *)
(* leave: a fault under HTTP 500, a status without one, a cut body, no result,  *)
(* a result that does not fit, a result.                                        *)
EXTENDS SoapService

CONSTANTS c1, c2, v1, zero

MCCallers == {c1, c2}
MCAnswers ==
  { [status |-> 500, kind |-> "fault",       value |-> zero],
    [status |-> 500, kind |-> "malformed",   value |-> zero],
    [status |-> 200, kind |-> "oversized",   value |-> zero],
    [status |-> 200, kind |-> "absent",      value |-> zero],
    [status |-> 200, kind |-> "undecodable", value |-> v1],
    [status |-> 200, kind |-> "payload",     value |-> v1] }
===============================================================================
