------------------------------- MODULE Lgtsend --------------------------------
(* The lgtsend command (cmd/lgtsend/main.go) in its two modes that deal with a  *)
(* shipment's life: submit one, then poll it, and -status.  Every caller of the *)
(* SOAP client is one run of the command, an operating-system process; runs     *)
(* share only the portal.  The portal (external) creates shipments, assigns     *)
(* their GUIDs later, moves them along and answers queries.                     *)
EXTENDS SoapClient, ShipmentStates, Sequences

CONSTANTS Options,      \* the options the runs may be started with, together
          MaxResults,   \* bound: results in one answer to a send
          Moves,        \* the status changes the portal makes, <<from, to>>
          Refs,         \* external ids
          NoRef         \* the empty string, where a reference may be absent

(* "url": the endpoint parses, so that http.NewRequestWithContext succeeds.     *)
Flags == {"endpoint", "url", "company", "type", "name", "id", "email", "mobile",
          "file", "send", "sync", "poll"}

OptionSet == [given : SUBSET Flags, file : {"unreadable", "empty", "full"},
              externalID : Refs \cup {NoRef}, status : Refs \cup {NoRef}]

ASSUME LgtsendAssumption ==
  /\ MaxResults \in Nat \ {0}
  /\ NoRef \notin Refs
  /\ \A move \in Moves : /\ move \in Statuses \X Statuses
                        /\ move[1] < move[2] /\ ~settled(move[1])
  /\ Options \subseteq [Callers -> OptionSet]

VARIABLES
  opts,       \* run -> options, as run() parsed them
  pc,         \* run -> where it is
  exit,       \* run -> how it ended
  preview,    \* run -> the request describe printed
  verdict,    \* run -> what it said of its shipment
  guid,       \* run -> the GUID it polls
  shown,      \* run -> the states its last status query printed
  elapsed,    \* runs whose -poll-for window is over
  expired,    \* runs whose context is past its deadline
  shipment,   \* the portal: shipment -> status, Absent before it exists
  visible,    \* the portal: the shipments whose GUID it hands out
  knew        \* history: run -> the runs that had ended when it started

runVars    == <<opts, pc, exit, preview, verdict, guid, shown, elapsed, expired, knew>>
portalVars == <<shipment, visible>>
vars       == <<soapVars, runVars, portalVars>>

(* The k-th result of run r's send creates shipment <<r, k>>; its GUID is the   *)
(* pair itself.                                                                 *)
Shipments == Callers \X (1 .. MaxResults)
Absent    == 0
NoGuid    == <<>>

SendOps   == {"shippingSendMultiReceiver", "shippingSynchronousSendMultiReceiver"}
StatusOp  == "shippingStatus"

NoRequest == [op |-> "none", guids |-> {}, refs |-> {}, document |-> FALSE]

Init ==
  /\ SoapInit
  /\ opts \in Options
  /\ pc = [r \in Callers |-> "idle"]
  /\ exit = [r \in Callers |-> "none"]
  /\ preview = [r \in Callers |-> NoRequest]
  /\ verdict = [r \in Callers |-> "none"]
  /\ guid = [r \in Callers |-> NoGuid]
  /\ shown = [r \in Callers |-> {}]
  /\ elapsed = {}
  /\ expired = {}
  /\ shipment = [s \in Shipments |-> Absent]
  /\ visible = {}
  /\ knew = [r \in Callers |-> {}]
-------------------------------------------------------------------------------
(* buildRequest's checks: company, type, name and id, an address, and the       *)
(* document when -file names one.                                               *)
complete(o) ==
  /\ {"company", "type", "name", "id"} \subseteq o.given
  /\ {"email", "mobile"} \cap o.given # {}
  /\ "file" \in o.given => o.file # "unreadable"

(* dispatch and multiRequest: the request the flags describe, without a document *)
(* when the file is empty.  Both the preview and the send are made of it.       *)
dispatch(o) ==
  [op       |-> IF "sync" \in o.given THEN "shippingSynchronousSendMultiReceiver"
                                      ELSE "shippingSendMultiReceiver",
   guids    |-> {},
   refs     |-> {o.externalID},
   document |-> "file" \in o.given /\ o.file = "full"]

(* Mutant: the preview is rendered by a path of its own, without -sync.         *)
captureEnvelope_Drifts(o) == dispatch([o EXCEPT !.given = @ \ {"sync"}])

(* captureEnvelope: the same dispatch through a transport that answers locally. *)
captureEnvelope(o) == dispatch(o)

buildable(o) == "url" \in o.given

statusQuery(guids, refs) == [op |-> StatusOp, guids |-> guids, refs |-> refs, document |-> FALSE]

(* The first result with a GUID, over all results in order.                     *)
firstGUID(results) ==
  LET with == {k \in DOMAIN results : results[k].guid # NoGuid}
  IN  IF with = {} THEN NoGuid
      ELSE results[CHOOSE k \in with : \A j \in with : k <= j].guid

(* Mutant: -send is not asked for.                                              *)
sends_Always(o) == TRUE

sends(o) == "send" \in o.given
-------------------------------------------------------------------------------
Active(r) == pc[r] \notin {"idle", "exited"}

Exit(r, how) ==
  /\ pc' = [pc EXCEPT ![r] = "exited"]
  /\ exit' = [exit EXCEPT ![r] = how]

Goto(r, where) ==
  /\ pc' = [pc EXCEPT ![r] = where]
  /\ UNCHANGED exit

Returned(r) == phase[r] = "returned"
Answer(r)   == result[r]

(* An operation of the client.                                                  *)
Request(r, request, zero) ==
  IF buildable(opts[r]) THEN Call(r, request, zero) ELSE Refuse(r, zero)

(* run: the endpoint is needed, and -status comes before a send.                *)
Start(r) ==
  /\ pc[r] = "idle"
  /\ IF "endpoint" \notin opts[r].given THEN Exit(r, "usage")
     ELSE Goto(r, IF opts[r].status # NoRef THEN "status" ELSE "send")
  /\ knew' = [knew EXCEPT ![r] = {q \in Callers : pc[q] = "exited"}]
  /\ UNCHANGED <<soapVars, portalVars, opts, preview, verdict, guid, shown, elapsed, expired>>

(* send, up to the dispatch: buildRequest, describe with its preview, and the   *)
(* early return without -send.                                                  *)
Prepare(r) ==
  /\ pc[r] = "send"
  /\ IF ~complete(opts[r]) THEN Exit(r, "usage") /\ UNCHANGED preview
     ELSE /\ preview' = [preview EXCEPT ![r] =
                IF buildable(opts[r]) THEN captureEnvelope(opts[r]) ELSE NoRequest]
          /\ IF sends(opts[r]) THEN Goto(r, "dispatch") ELSE Exit(r, "previewed")
  /\ UNCHANGED <<soapVars, portalVars, opts, verdict, guid, shown, elapsed, expired, knew>>

Dispatch(r) ==
  /\ pc[r] = "dispatch"
  /\ Goto(r, "sent")
  /\ Request(r, dispatch(opts[r]), <<>>)
  /\ UNCHANGED <<portalVars, opts, preview, verdict, guid, shown, elapsed, expired, knew>>

(* Mutant: no result and no error count as a success.                           *)
outcomeOf_EmptyIsSuccess(answer) ==
  IF answer.err # "nil" THEN "unknown"
  ELSE IF \E k \in DOMAIN answer.value : Err(answer.value[k]) THEN "refused"
  ELSE "accepted"

(* Mutant: an error is taken for an answer without results.                     *)
outcomeOf_ErrorIsSilence(answer) ==
  IF answer.err # "nil" \/ answer.value = <<>> THEN "silent"
  ELSE IF \E k \in DOMAIN answer.value : Err(answer.value[k]) THEN "refused"
  ELSE "accepted"

(* send's reading of dispatch's outcome: an error, no result at all, the first  *)
(* result that is an error, or success.                                         *)
outcomeOf(answer) ==
  IF answer.err # "nil" THEN "unknown"
  ELSE IF answer.value = <<>> THEN "silent"
  ELSE IF \E k \in DOMAIN answer.value : Err(answer.value[k]) THEN "refused"
  ELSE "accepted"

(* Mutant: a GUID is polled although a result was an error.                     *)
polled_Refused(r, answer) ==
  IF "poll" \in opts[r].given /\ outcomeOf(answer) \in {"accepted", "refused"}
    THEN firstGUID(answer.value) ELSE NoGuid

(* What is polled after a send: the first GUID, when every result is accepted   *)
(* and -poll-for asks for it.                                                   *)
polled(r, answer) ==
  IF "poll" \in opts[r].given /\ outcomeOf(answer) = "accepted"
    THEN firstGUID(answer.value) ELSE NoGuid

(* Mutant: a send that failed is sent again.                                    *)
Report_Retries(r) ==
  /\ pc[r] = "sent" /\ Returned(r)
  /\ verdict' = [verdict EXCEPT ![r] = outcomeOf(Answer(r))]
  /\ guid' = [guid EXCEPT ![r] = polled(r, Answer(r))]
  /\ IF outcomeOf(Answer(r)) = "unknown" THEN Goto(r, "dispatch")
                                         ELSE Exit(r, outcomeOf(Answer(r)))
  /\ UNCHANGED <<soapVars, portalVars, opts, preview, shown, elapsed, expired, knew>>

(* send, after the dispatch: the outcome is told; there is nothing to poll      *)
(* without a GUID.                                                              *)
Report(r) ==
  /\ pc[r] = "sent" /\ Returned(r)
  /\ verdict' = [verdict EXCEPT ![r] = outcomeOf(Answer(r))]
  /\ guid' = [guid EXCEPT ![r] = polled(r, Answer(r))]
  /\ IF polled(r, Answer(r)) # NoGuid THEN Goto(r, "poll")
                                     ELSE Exit(r, outcomeOf(Answer(r)))
  /\ UNCHANGED <<soapVars, portalVars, opts, preview, shown, elapsed, expired, knew>>

(* poll's loop condition, its wait for a tick or the context, and its query.    *)
PollLoop(r) ==
  /\ pc[r] = "poll"
  /\ IF r \in elapsed THEN Exit(r, "accepted") ELSE Goto(r, "wait")
  /\ UNCHANGED <<soapVars, portalVars, opts, preview, verdict, guid, shown, elapsed, expired, knew>>

PollCancelled(r) ==
  /\ pc[r] = "wait" /\ r \in expired
  /\ Exit(r, "cancelled")
  /\ UNCHANGED <<soapVars, portalVars, opts, preview, verdict, guid, shown, elapsed, expired, knew>>

PollTick(r) ==
  /\ pc[r] = "wait"
  /\ Goto(r, "polling")
  /\ Request(r, statusQuery({guid[r]}, {}), {})
  /\ UNCHANGED <<portalVars, opts, preview, verdict, guid, shown, elapsed, expired, knew>>

PollReport(r) ==
  /\ pc[r] = "polling" /\ Returned(r)
  /\ IF Answer(r).err # "nil" THEN Exit(r, "failed") /\ UNCHANGED shown
     ELSE Goto(r, "poll") /\ shown' = [shown EXCEPT ![r] = Answer(r).value]
  /\ UNCHANGED <<soapVars, portalVars, opts, preview, verdict, guid, elapsed, expired, knew>>

(* showStatus: one query by GUID and by external id at once.                    *)
AskStatus(r) ==
  /\ pc[r] = "status"
  /\ Goto(r, "asked")
  /\ Request(r, statusQuery({opts[r].status}, {opts[r].status}), {})
  /\ UNCHANGED <<portalVars, opts, preview, verdict, guid, shown, elapsed, expired, knew>>

(* Mutant: an error is reported as no match.                                    *)
ShowStatus_ErrorIsNoMatch(r) ==
  /\ pc[r] = "asked" /\ Returned(r)
  /\ IF Answer(r).err # "nil" \/ Answer(r).value = {}
       THEN Exit(r, "nomatch") /\ UNCHANGED shown
       ELSE Exit(r, "matched") /\ shown' = [shown EXCEPT ![r] = Answer(r).value]
  /\ UNCHANGED <<soapVars, portalVars, opts, preview, verdict, guid, elapsed, expired, knew>>

ShowStatus(r) ==
  /\ pc[r] = "asked" /\ Returned(r)
  /\ IF Answer(r).err # "nil" THEN Exit(r, "failed") /\ UNCHANGED shown
     ELSE /\ Exit(r, IF Answer(r).value = {} THEN "nomatch" ELSE "matched")
          /\ shown' = [shown EXCEPT ![r] = Answer(r).value]
  /\ UNCHANGED <<soapVars, portalVars, opts, preview, verdict, guid, elapsed, expired, knew>>

(* A call of a run that is still there comes back.                              *)
CallEnds(r) ==
  /\ Active(r)
  /\ Return(r) \/ Fail(r)
  /\ UNCHANGED <<runVars, portalVars>>

(* Time passes the end of the -poll-for window, or the context's deadline (which *)
(* otherwise shows only in the calls it fails).                                 *)
Elapse(r) ==
  /\ pc[r] \in {"poll", "wait", "polling"} /\ r \notin elapsed
  /\ elapsed' = elapsed \cup {r}
  /\ UNCHANGED <<soapVars, portalVars, opts, pc, exit, preview, verdict, guid, shown, expired, knew>>

Expire(r) ==
  /\ pc[r] \in {"poll", "wait", "polling"} /\ r \notin expired
  /\ expired' = expired \cup {r}
  /\ UNCHANGED <<soapVars, portalVars, opts, pc, exit, preview, verdict, guid, shown, elapsed, knew>>

(* The process is killed; what it wrote to the network stays there.             *)
Kill(r) ==
  /\ Active(r)
  /\ Exit(r, "killed")
  /\ UNCHANGED <<soapVars, portalVars, opts, preview, verdict, guid, shown, elapsed, expired, knew>>
-------------------------------------------------------------------------------
(* The portal (external), as the code above takes it to be.                     *)

Reply(kind, value) == [status |-> 200, kind |-> kind, value |-> value]

(* Answers the client cannot use: a fault, an error page, and a result that is  *)
(* broken after a part that reads as value.                                     *)
Troubles(value) ==
  {[status |-> 500, kind |-> "fault", value |-> value],
   [status |-> 503, kind |-> "malformed", value |-> value],
   Reply("undecodable", value)}

(* One result per shipment: a refusal, or an acceptance with or without GUID.   *)
ResultsOf(r) ==
  LET Result(k) == {[retCode |-> 140, guid |-> NoGuid], [retCode |-> RetCodeOK, guid |-> NoGuid],
                    [retCode |-> RetCodeOK, guid |-> <<r, k>>]}
  IN  {rs \in UNION {[1 .. n -> UNION {Result(k) : k \in 1 .. n}] : n \in 1 .. MaxResults} :
        \A k \in DOMAIN rs : rs[k] \in Result(k)}

AcceptedIn(rs) == {k \in DOMAIN rs : ~Err(rs[k])}

(* The shipments of run r whose numbers are in new come into being.             *)
Create(r, new) ==
  shipment' = [s \in Shipments |->
    IF s[1] = r /\ s[2] \in new THEN StatusPendingSend ELSE shipment[s]]

(* A send is answered with results that tell what was created, or with no       *)
(* result or an error after a shipment was created or not.                      *)
ServeSend(m) ==
  /\ m.request.op \in SendOps
  /\ \/ \E rs \in ResultsOf(m.id[1]) :
          /\ Create(m.id[1], AcceptedIn(rs))
          /\ visible' = visible \cup ({rs[k].guid : k \in DOMAIN rs} \ {NoGuid})
          /\ Serve(m, Reply("payload", rs))
     \/ \E new \in {{}, {1}},
           answer \in {Reply("empty", <<>>)}
             \cup Troubles(<<[retCode |-> RetCodeOK, guid |-> NoGuid]>>) :
          /\ Create(m.id[1], new)
          /\ Serve(m, answer)
          /\ UNCHANGED visible
  /\ UNCHANGED runVars

(* The shipments a query names, by GUID or by external id.                      *)
Matching(request) ==
  {s \in Shipments :
    /\ shipment[s] # Absent
    /\ \/ s \in request.guids /\ s \in visible
       \/ opts[s[1]].externalID \in request.refs}

(* A query is answered with the states of what it names, with an empty body     *)
(* when it names nothing, or with an error.                                     *)
ServeStatus(m) ==
  /\ m.request.op = StatusOp
  /\ \/ /\ Matching(m.request) # {}
        /\ Serve(m, Reply("payload",
             {[guid |-> s, status |-> shipment[s]] : s \in Matching(m.request)}))
     \/ /\ Matching(m.request) = {}
        /\ Serve(m, Reply("empty", {}))
     \/ \E answer \in Troubles({}) : Serve(m, answer)
  /\ UNCHANGED <<runVars, portalVars>>

(* A shipment moves on; a settled one stays.                                    *)
Move(s) ==
  /\ \E move \in Moves : /\ shipment[s] = move[1]
                        /\ shipment' = [shipment EXCEPT ![s] = move[2]]
  /\ UNCHANGED <<soapVars, runVars, visible>>

(* The GUID of a shipment becomes available.                                    *)
AssignGuid(s) ==
  /\ shipment[s] # Absent
  /\ visible' = visible \cup {s}
  /\ UNCHANGED <<soapVars, runVars, shipment>>
-------------------------------------------------------------------------------
Step(r) ==
  \/ Start(r) \/ Prepare(r) \/ Dispatch(r) \/ Report(r)
  \/ PollLoop(r) \/ PollCancelled(r) \/ PollTick(r) \/ PollReport(r)
  \/ AskStatus(r) \/ ShowStatus(r)

Next ==
  \/ \E r \in Callers : Step(r) \/ CallEnds(r) \/ Elapse(r) \/ Expire(r) \/ Kill(r)
  \/ \E m \in outbound : ServeSend(m) \/ ServeStatus(m)
  \/ \E s \in Shipments : Move(s) \/ AssignGuid(s)

(* A process that was started keeps running, time passes, and its calls end:    *)
(* each is made under the run's one context, which has a deadline (main.go:158). *)
Fairness ==
  \A r \in Callers :
    /\ WF_vars(Step(r) /\ pc[r] # "idle")
    /\ WF_vars(CallEnds(r))
    /\ WF_vars(Elapse(r))
    /\ WF_vars(Expire(r))

Spec == Init /\ [][Next]_vars

FairSpec == Spec /\ Fairness
-------------------------------------------------------------------------------
Verdicts == {"none", "unknown", "silent", "refused", "accepted"}

Exits == {"none", "usage", "previewed", "unknown", "silent", "refused", "accepted",
          "cancelled", "nomatch", "matched", "failed", "killed"}

(* os.Exit(1) follows every error run returns.                                  *)
exitZero == {"previewed", "accepted", "nomatch", "matched"}

Requests == [op : SendOps \cup {StatusOp}, guids : SUBSET (Shipments \cup Refs),
             refs : SUBSET (Refs \cup {NoRef}), document : BOOLEAN]

TypeOK ==
  /\ SoapTypeOK
  /\ opts \in [Callers -> OptionSet]
  /\ pc \in [Callers -> {"idle", "send", "dispatch", "sent", "poll", "wait", "polling",
                         "status", "asked", "exited"}]
  /\ exit \in [Callers -> Exits]
  /\ preview \in [Callers -> Requests \cup {NoRequest}]
  /\ verdict \in [Callers -> Verdicts]
  /\ guid \in [Callers -> Shipments \cup {NoGuid}]
  /\ elapsed \subseteq Callers
  /\ expired \subseteq Callers
  /\ shipment \in [Shipments -> Statuses \cup {Absent}]
  /\ visible \subseteq Shipments
  /\ knew \in [Callers -> SUBSET Callers]
  /\ \A m \in posted : m.request \in Requests

SendsOf(r) == {m \in posted : m.id[1] = r /\ m.request.op \in SendOps}

Created(r) == {k \in 1 .. MaxResults : shipment[<<r, k>>] # Absent}

(* Nothing leaves the machine without -send, or for a request that lacks what   *)
(* the send needs, and -status never sends: what is on the wire for such a run  *)
(* is at most a query.                                                          *)
NothingSentUnasked ==
  \A r \in Callers : SendsOf(r) # {} =>
    /\ {"send", "endpoint"} \subseteq opts[r].given
    /\ complete(opts[r])
    /\ opts[r].status = NoRef

(* What a run sends is the request it printed, down to the operation.           *)
PreviewIsWhatIsSent ==
  \A r \in Callers : \A m \in SendsOf(r) : m.request = preview[r]

(* A run submits its shipment at most once, whatever comes back or does not.    *)
SubmittedOnce ==
  \A r \in Callers : \A m, n \in SendsOf(r) : m = n

(* A run that tells of an acceptance, or that was asked to send and exits with  *)
(* status 0, has at least one shipment at the portal; and one that tells of a   *)
(* refusal or of silence is no longer being served: nothing of it is created    *)
(* after the operator read the verdict.                                         *)
VerdictIsTrue ==
  \A r \in Callers :
    /\ \/ verdict[r] = "accepted"
       \/ exit[r] \in exitZero /\ "send" \in opts[r].given /\ opts[r].status = NoRef
       => Created(r) # {}
    /\ verdict[r] \in {"accepted", "refused", "silent"} =>
         \A m \in outbound : m \notin SendsOf(r)

(* "check whether the shipment exists before sending again" (main.go:458) is    *)
(* sound advice: once a run gave it, a later -status run that finds nothing     *)
(* under the shipment's external id proves that nothing was, or will be, made.  *)
AdviceIsSound ==
  \A r, q \in Callers :
    /\ exit[r] = "silent"
    /\ exit[q] = "nomatch"
    /\ r \in knew[q]
    /\ opts[r].externalID = opts[q].status
    => Created(r) = {} /\ SendsOf(r) \cap outbound = {}

(* A run polls a shipment of its own, and only when all its results were good;  *)
(* what it prints are states of that shipment and of no other.                  *)
PollsItsOwn ==
  \A r \in Callers :
    pc[r] \in {"poll", "wait", "polling"} =>
      /\ verdict[r] = "accepted"
      /\ guid[r] \in Shipments
      /\ guid[r][1] = r
      /\ shipment[guid[r]] # Absent
      /\ \A state \in shown[r] : state.guid = guid[r]

(* The flag's own words (main.go:138): "keep polling the new shipment for this  *)
(* long after sending".  A run whose shipment was accepted, and none of whose   *)
(* queries failed, ends only after the window.                                  *)
PollForIsHonoured ==
  \A r \in Callers :
    (exit[r] \in {"accepted", "cancelled"} /\ "poll" \in opts[r].given) => r \in elapsed

(* Every run that is started ends.                                              *)
RunsEnd == \A r \in Callers : pc[r] # "idle" ~> pc[r] = "exited"
-------------------------------------------------------------------------------
(* The command implements Submission: what the portal decided is read off the   *)
(* answer it gave to the run's send.                                            *)
SendServed(r) == {s \in served : \E m \in SendsOf(r) : m.id = s.id}

decisionOf(response) ==
  LET answer == decodeResponse(response, <<>>)
  IN  IF answer.err # "nil" THEN "garbled"
      ELSE IF answer.value = <<>> THEN "silent"
      ELSE IF \E k \in DOMAIN answer.value : Err(answer.value[k]) THEN "refused"
      ELSE "accepted"

stage ==
  [r \in Callers |->
    IF SendsOf(r) = {} THEN "unsent"
    ELSE IF SendServed(r) = {} THEN "sent"
    ELSE decisionOf((CHOOSE s \in SendServed(r) : TRUE).response)]

Sub == INSTANCE Submission

SubmissionSpec == Sub!Spec
===============================================================================
