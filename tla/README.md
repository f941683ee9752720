# A verification development for logalsend-go

logalsend-go is a Go SDK for LogalSend (Logalty), a service for certified
electronic mail: a client of its SOAP service `WsDataChannel`, the XML canonicalizer
and signer its single sign-on needs, a reader of its identity certificates, and a
command, `lgtsend`, that drives them. This directory holds TLA+ models of it, the TLC
configurations that check them and TLAPS proofs about them. Every definition is
translated from the Go source; `PROJECT.json` gives the lines of each.

Contents: [the system](#the-system) · [what is hard](#what-is-hard-in-this-code) ·
[the modules](#the-modules) · [what is checked](#what-is-checked) ·
[fairness](#fairness) · [what is proved](#what-is-proved) ·
[disagreements found](#where-code-and-documentation-disagree) ·
[not modelled](#what-is-not-modelled-and-why) · [what is left](#what-is-left)

## The system

| part | source | state | operations | what makes it correct | modelled in |
|---|---|---|---|---|---|
| SOAP client | `wsdatachannel/client.go` | none of its own between calls: endpoint, credentials and `http.Client` are set once and shared by goroutines | `call` (one POST), `decodeResponse` | a call is executed at most once and returns its own answer; an error is never taken for an empty result | SoapClient, SoapService |
| operations | `wsdatachannel/operations.go`, `types.go` | none | sends (single, multi, synchronous), status, documents, cancellation, listings, SAML URL | each asks for what its arguments say and reads the result that belongs to it | Lgtsend, Retrieval (those with a caller) |
| states and codes | `wsdatachannel/states.go`, `enums.go` | none | `settled`, `Accepted`, `Err` | a refusal is not read as an acceptance | ShipmentStates |
| identity certificate | `wsdatachannel/identity.go` | the parsed certificate | `ParseIdentityCertificate`, `Passed`, `FailedChecks`, `VerifyHash` | every reading of the checks agrees with the document | IdentityCertificate, Retrieval |
| canonicalizer | `xmldsig/c14n.go` | a stack of namespace scopes, one per open element | `Canonicalize`, `IsSignature` | names keep their namespaces; the declarations are those Canonical XML requires; only signatures are excluded | Canonicalizer |
| signer, verifier | `xmldsig/sign.go`, `verify.go` | none | `Sign`, `Verify` | what was signed verifies; what was altered does not | EnvelopedSignature, SignIn |
| SAML, sign-in | `saml/*.go` | none | `validate`, `Generate`, `GenerateEncoded`, `SignInForm`, `SignInFormHTML` | a valid configuration gives an assertion that arrives, verified, with the attributes it names | SignIn |
| `lgtsend` | `cmd/lgtsend/main.go` | environment and flags, a run's progress, the files of `-download` | `loadDotEnv`; send with a preview, poll, `-status`, `-download`, `-attrs`, `-saml` | an option comes from where it should; nothing is sent unasked; what is sent was shown; what it says of a shipment is true; it ends | Configuration, Lgtsend, PollClock, Retrieval |
| Java oracle | `oracle/` | none | regenerates golden files with the vendor's SDK | (a test harness) | – |
| portal, file system, holders of documents | outside the repository | shipments, GUIDs, artefacts; files; documents | answer requests; keep files; pass documents on | external | with the parts that use them |

How they interact: a run of `lgtsend` is one operating-system process. It reads its
configuration, decides on one mode, and makes its calls one after the other, each through
`Client.call`. Runs share the portal and, with `-download`, a directory. A program that uses
the SDK may call one `Client` from many goroutines. All traffic is HTTP request and response:
there are no callbacks and no messages from the portal. `saml` hands a rendered assertion to
`xmldsig`, which canonicalizes it twice (document, then `SignedInfo`) and appends the signature;
`Verify` does the same over documents of the portal. A certificate fetched by `-attrs`
is parsed, judged and printed.

## What is hard in this code

`PROJECT.json` lists the hazards at their lines. In short:

* **No retry, and no way to know.** A send whose answer is lost may have created a
  shipment. The code answers with silence about retries (there is none anywhere) and with
  words ("check whether the shipment exists before sending again"). Whether these words are
  sound depends on the order of three things: the send's handling, its answer, and the query.
* **Failures that look alike.** A fault, an error page, a cut envelope, an empty body and
  a half-decodable result leave `decodeResponse` in a fixed order of checks.
* **Two executions of one dispatch.** The preview is rendered by the same code through
  another transport, before the operator says yes.
* **Time.** One context spans send and poll; the poll has a ticker, a window and that
  context's deadline, which come in any order, and a query may outlast any of them.
* **Files.** `os.WriteFile` truncates in place: kills, concurrent runs and later runs leave torn files.
* **Namespaces.** When to write `xmlns=""`, what a prefix stands for after its declaring
  element closed, and what an excluded signature takes with it.
* **Several signatures, several readers.** `Sign` and `Verify` each look for "the" signature
  among the children of the root, by different criteria, so that a value can be made over another
  one's `SignedInfo`; the two XML parsers that read an assertion normalize attribute values differently; the encodings of the sign-in run after the signing.
* **Three routes to one verdict.** `Passed`, `FailedChecks` and the command's own lines read the
  same checks, through quotes, repeated codes and several spellings of "yes".
* **Layers of configuration.** Flag, environment and file, the nearest of several files, and lines
  that are skipped or that end the reading.

## The modules

What each models, and its actions:

* **SoapClient** – `Client.call`, `decodeResponse` and the wire. `phase`, `count` and
  `result` are a caller's call in progress, its number and its outcome (`err`, and the out
  variable as far as it was decoded); `outbound` and `inbound` are requests and answers on their way.
  `Call`, `Refuse` (an envelope or an `http.Request` that cannot be built: nothing leaves),
  `Return` (answer read and decoded), `Fail` (transport error, time-out or context), `Serve` (the
  portal). A *lost* request is one that stays in `outbound` for ever, a *late* answer one whose call failed before.
  `posted` and `served` are history.
* **RemoteCall** – the abstract promise of a call: executed at most once, success only
  after execution, failure at any time, with the execution perhaps still to come.
  SoapClient maps to it (`RC`: `callState`; executed = the ids in `served`), whoever makes the calls.
* **SoapService** – any callers making any calls over SoapClient, with a portal that answers anything.
* **ShipmentStates** – status and return codes as the source numbers them, `settled`,
  `Accepted`, `Err`.
* **Lgtsend** – the command's life of a shipment over SoapClient: `Start` (run's checks and
  mode), `Prepare` (buildRequest, describe, captureEnvelope, the return without `-send`), `Dispatch`, `Report`
  (send's reading of the results and the choice of a GUID to poll), `PollLoop`,
  `PollCancelled`, `PollTick`, `PollReport`, `AskStatus`, `ShowStatus`, and `Kill`. The portal
  creates shipments in `ServeSend`, hands out GUIDs late (`AssignGuid`), moves shipments
  (`Move`) and answers queries (`ServeStatus`), with errors at any point.
* **Submission** – the abstract promise of a run: submitted at most once, decided at most
  once, and a verdict that names a decision only after that decision was made. Lgtsend refines it: `stage`
  is read off what the portal served, `verdict` is the command's.
* **PollClock** – the same `poll` in time, under a context of which the send before it has used
  up `spent`: the window, the ticker with its one-place channel, and the select that may take a
  tick or the expired context. `every = 0` panics in `NewTicker`, as `time.NewTicker` does.
* **Retrieval** – `-download`, `-attrs` and `-saml` over SoapClient. A download asks for one
  kind after the other (`Ask`, `Skip`), and writes in two steps (one empties the file, the next
  fills it), either of which may fail or be the last thing the run does; `-attrs` parses what it got and keeps
  what it printed in `told`. The portal publishes and replaces artefacts.
* **IdentityCertificate** – the parser and the readings of identity.go, as operators: quotes
  (`unquote`), the results by their code (the last one wins), checks, consents, artefacts, `Passed`,
  `FailedChecks`, `VerifyHash` with both conventions of a digest, and the command's `verdict`.
* **Canonicalizer** – the recursive `writeElement` as a walk with an explicit stack:
  `Begin` (the apex with `inheritedScope`), `Visit` (one turn of the loop over the children: an
  element opened or excluded, a text, a node dropped), `Close`. A frame holds what was declared on the element
  (`emit`), the scope for its children and the namespaces its attributes are sorted by.
* **EnvelopedSignature** – `Sign` and `Verify` as operators on documents, each error in its place.
  A document is its form, its content, the namespaces its root declares and its children called
  Signature, in order, which may belong to another namespace; digests and signature values are records of
  what went into them, `SignedInfo` together with the namespaces it inherits.
* **SignIn** – a signed document from its maker to its verifier: `Generate` (validate, attributes,
  escapes), `SignDocument`, `Encode`, `SignInForm` or `SignInFormHTML` and `Browse`, `Deliver`; documents that
  somebody holds are signed, by anyone, signed again, and altered before, between and after (`Alter`: something in a signature
  is damaged, replaced by a part of another one or taken out, or the content or the namespaces are changed; `altered` counts them).
  `signings` is the history of who signed what, with the value that came of it.
* **Configuration** – `findUp` over directories, `loadDotEnv` line by line into the environment,
  the flags with their defaults from it, and the choice of the mode.

The MC modules (`MCSoapService`, `MCLgtsend`, `MCRetrieval`, `MCCanonicalizer`, `MCSignIn`,
`MCConfiguration`) give the constants their values; PollClock is checked as it is. The proof modules
(`SoapClientProofs`, `SoapServiceProofs`, `LgtsendProofs`, `PollClockProofs`, `RetrievalProofs`,
`CanonicalizerProofs`, `SignInProofs`, `ConfigurationProofs`) extend the modules they are about.

Operators called `X_Something` beside an operator `X`, marked *Mutant*, are plausible bugs in
`X`. Nothing uses them; substituting one for `X` makes the property it is listed with fail.

## What is checked

| run | question | instance |
|---|---|---|
| `soap_service` | Is a call executed at most once, given its own answer, and told from an empty result? Does the client implement RemoteCall? | 2 callers with 2 calls each, one answer per exit of `decodeResponse` |
| `lgtsend` | Is anything sent unasked, other than shown, or twice? Is what a run says of its shipment true, and is "check before sending again" sound? Does it poll a shipment of its own, and end? Does the command implement Submission? | two runs, in one of five pairs: a sender beside a run that asks for the same external id, runs that are refused or preview only, a sender that polls; up to 2 results in an answer |
| `poll_clock` | How often, how densely, and how late does poll ask, does it keep its window after a prompt send, and does it end? | intervals 0 to 3, windows 1, 4 and 5, `-timeout` 0 and 2, sends of every length, 12 units of time |
| `retrieval` | Is what a run said it saved on disk and whole? Are all kinds asked for and files named right, is what is shown what was served, and is what `-attrs` prints what the certificate says? | two downloads into one directory, side by side or in turn, with kills, failing writes and artefacts that are replaced, or one run of `-attrs` or `-saml`; 2 kinds, 2 contents, every certificate with up to two results and two checks, or a question and two artefacts |
| `canonicalizer` | Do prefixes keep their meaning, are the declarations minimal, are attributes sorted by the right namespace, is everything but the signatures written once and in order? | trees of 4 nodes, 2 prefixes, every apex |
| `sign_in` | Does what verifies carry a value made by whom Verify reports, and the content it was made for, with either parser? Does everything signed once verify? Does an assertion arrive as configured, by either form? Does a second signature leave the first one good? | 6 keystores, about 60 configurations over ten kinds of text, 8 held documents, up to 2 signatures, up to 4 alterations of a held document and one of an assertion |
| `config` | Does every option come from its flag, else the environment, else the nearest file, and does the file override nothing? | up to 3 directories, files of up to 3 lines of eight kinds |
| `poll_for`, `no_artefacts`, `instructions`, `sign_again`, `sign_moved` | the five [disagreements](#where-code-and-documentation-disagree) | as above |

Why these bounds are enough to be interesting:

* *Two callers, two calls.* Every property of the wire relates at most two calls: of two
  callers, or a late answer and the next call of one caller. Proofs cover all numbers.
* *`MaxCalls`.* A send is one call; `poll` needs three (the send and two queries, so that a
  state is shown, replaced, and an error can follow). When the bound is reached a polling run waits in
  `wait` until its context expires; this is the only behaviour the bound adds or removes.
* *`MaxResults` 2* gives every mix of accepted and refused receivers, with GUIDs present,
  absent, or present only on the second result.
* *PollClock.* The intervals are shorter than, dividing and not dividing the windows, and longer
  than the smallest; `spent` takes every value the context allows, so contexts end before, with and
  after the window. `MaxTime` 12 exceeds the deadline of every context (at most 5 + 2), so a poll,
  however late it is scheduled, meets its end before the clock stops.
* *Retrieval.* Two kinds suffice for "one fails, the next is asked for", and two runs with
  two contents for runs that meet in a file and for a later one that tears what an earlier one saved. The runs, and the contents,
  are interchangeable, so TLC takes one of each symmetric pair of states. Two results make a code repeat with the same and with
  another value; two checks give every mix of blocking, passed and failed; the words of the artefacts have
  digests of the text, of the decoded bytes, of neither, none, and a text that is not base64.
* *Canonicalizer.* Four nodes make a chain of four, so that a reset sits two levels below the
  declaration it undoes, with the chain above the apex or below it, and siblings after
  a closed element. In the first family the first three elements carry any declarations of the default
  namespace (none, `xmlns=""`, a name) and of a prefix (none, two names); in the second, elements may
  be called Signature under either prefix, with the signature namespace declared on them or
  above, or another one in its place, and texts and comments follow.
* *SignIn.* Keystores that fit, that mix two keys, whose certificate is of another kind, and that lack
  something. Texts are classes: one per escape and per loss on the way. Held documents are unsigned, unreadable,
  signed by the portal (SHA-256), or carry an element merely called Signature, put there before or after the signing.
  Two signatures are the smallest number at which "the" signature is ambiguous. Four alterations are what it takes to move a value from
  the second signature to the first: the content before the second signing, the content after it, the value, the certificate. They put texts
  of `Edits` (the one that was there, and another) in the parts, any scope in the root, and in a signature a value or `SignedInfo` on
  record, a certificate of any key, or a new `SignedInfo` about the content as it is; what is only *damaged* (garbled, unknown
  or missing) is so by the first alteration, as two damages are no nearer to what was signed than one.
* *Configuration.* A variable that two lines set, one that cannot be set (a NUL) before another that can,
  quotes in one and two pairs, names no option has, unreadable files that stop the search, and nearer files that hide farther ones.

Deadlock checking is off in all configurations: runs end, documents are finished and the
portal may never answer; each of these is an ordinary end. That runs do not stop early is
what the liveness properties say.

Deep and easily missed among the properties: `AdviceIsSound` (needs the history `knew`: a
query that overlaps the send proves nothing, one started after the run ended does),
`SubmissionSpec`, `SavedIsWhole` (a file a run reported is whole unless a run that had not ended when it
started left it torn: one beside it, or a later one that was killed or failed between emptying and writing; earlier runs do no harm,
wherever they died), `NoBurst` and `AtMostOneLate`, `SignsIn` (which spans the
configuration, two escapes, the signature, two encodings and the receiving parser), and
`AcceptedIsSigned`, for which both halves of `Verify` and the choice of the signature matter. The last is weaker than
what the comment of `Verify` claims, and has to be: the difference is the run `sign_moved`.

## Fairness

* `Lgtsend`: a call in flight ends. Every call of the command is made under a context with a deadline
  (main.go:158). Which of `Return` and `Fail` ends it is open, and **nothing is assumed of the portal**: it may never serve a request.
* `SoapService`: none is assumed and no liveness is claimed. The SDK sets its five-minute time-out only when it is given no
  `http.Client` (client.go:66); with one that has no time-out, under a context without a deadline, a call may wait for ever.
* A process that was started keeps running until it ends or is killed (`WF(Step)`); whether a
  run is started at all is not assumed.
* Time passes: the window and the context's deadline arrive (`Elapse`, `Expire`, `Clock`).

Weak fairness is enough everywhere: each of these steps, once possible, stays possible until it is
taken or the run has moved on. `SoapService`, `Retrieval`, `SignIn`, `Configuration` and `Canonicalizer` are checked for safety
only, and state no fairness: their loops run over lists that do not change, and that every kind was asked for
when a download ends is the invariant `EveryKindAsked`.

## What is proved

For every value of the constants that satisfies the modules' assumptions, and without the fairness
conditions, which no safety property needs:

| theorem | states |
|---|---|
| `SoapServiceProofs!TypeCorrect`, `AtMostOnce`, `ReturnsOwnAnswer`, `ZeroIsNoResult` | `[]TypeOK`, `[]HandledOnce`, `[]OwnAnswer`, `[]ZeroMeansNoResult` |
| `SoapServiceProofs!ImplementsRemoteCall`, `LgtsendProofs!CallsImplementRemoteCall`, `RetrievalProofs!CallsImplementRemoteCall` | `Spec => RemoteCallSpec`, for the SDK alone, for sends and queries, and for retrievals |
| `LgtsendProofs!TypeCorrect`, `NeverSendsUnasked`, `SendsThePreview`, `SubmitsOnce` | `[]TypeOK`, `[]NothingSentUnasked`, `[]PreviewIsWhatIsSent`, `[]SubmittedOnce` |
| `LgtsendProofs!TellsTheTruth`, `AdvisesWell`, `PollsOnlyItsOwn` | `[]VerdictIsTrue`, `[]AdviceIsSound`, `[]PollsItsOwn` |
| `LgtsendProofs!ImplementsSubmission` | `Spec => SubmissionSpec` |
| `PollClockProofs!TypeCorrect`, `BoundedRate`, `Unhurried`, `OneLate`, `WindowKept` | `[]TypeOK`, `[]RateBounded`, `NoBurst`, `[]AtMostOneLate`, `[]PromptSendKeepsWindow` |
| `RetrievalProofs!TypeCorrect`, `SavedWhole`, `AsksForEveryKind`, `NothingElseServed` | `[]TypeOK`, `[]SavedIsWhole`, `[]EveryKindAsked`, `[]OnlyWhatWasServed` |
| `RetrievalProofs!VerdictDocumented`, `PrintedDocumented` | `[]VerdictIsDocumented`, `[]PrintedIsDocumented` |
| `CanonicalizerProofs!TypeCorrect`, `KeepsNamespaces`, `WritesMinimally`, `SortsByNamespace`, `DropsSignaturesOnly` | `[]TypeOK`, `[]ScopeIsFaithful`, `[]MinimalDeclarations`, `[]AttributeKeys`, `[]OnlySignaturesDropped` |
| `SignInProofs!TypeCorrect`, `FirstSignatureKept`, `VerifiedWasSigned` | `[]TypeOK`, `FirstSignatureStands`, `[]AcceptedIsSigned` |
| `SignInProofs!SignedDocumentsVerify`, `AssertionSignsIn` | `[]SignedVerifies`, `[]SignsIn` |
| `ConfigurationProofs!TypeCorrect`, `OptionsSourced`, `EnvironmentBeatsFile` | `[]TypeOK`, `[]OptionsAreSourced`, `EnvironmentStands` |

So every safety property of a passing run is a theorem. Three of them have a hypothesis beside the modules'
assumptions. `ZeroIsNoResult`: the portal serves no payload that equals the zero value of the result (a
portal that sends an explicit empty result cannot be told from one that sends none, by design of `encoding/xml`).
`SignedDocumentsVerify` and `AssertionSignsIn`: `None` and `Garbage`, which stand for what is missing and for
what cannot be decoded, are none of the records of the model (`Absent`); for model values this is so, but
TLC cannot evaluate it, as it ranges over all values.

The assumptions on constants that the proofs rest on, beside their types: of *documents* (`CanonicalizerAssumption`),
that nodes are numbered in document order (parents before their children, and between an element and its child only what is below the element) and that only elements have children; of *certificates* (`RetrievalAssumption`,
`PrintedAssumption`), that each is of the shape the XML gives it and that a print is not the absence of one; of *held
documents* (`HeldAssumption`), that the signature values in them are on record, with who made them and over what, and that a signature that is alone
is there as it was made, in the content it was made over. The last is where the model starts: how a document can stop being so
is what `SignDocument` and `Alter` say.

The arguments:

* **The wire.** `HandledOnce` and `OwnAnswer` are not inductive alone: a second answer to a
  request would be possible if two requests could share an identity, or if one could be
  written again after it was served. `WireInv` (`SoapClientProofs`) adds that every posted
  request has an identity of its own, numbered up to its caller's count (`Identified`), and is
  preserved by each of the five actions whatever requests and answers are made of. `Lgtsend`
  and `SoapService` both reuse these five lemmas. `ZeroMeansNoResult` follows from `OwnAnswer`: what a call
  returns is what it was answered, and of the kinds of answers without an error only two leave the zero value.
* **RemoteCall.** Step by step: `Call` and `Refuse` are `Issue`, `Return` is `Succeed` or
  `GiveUp` (by the error it decodes), `Fail` is `GiveUp`, `Serve` is `Execute`; that the last
  happens once per call is `HandledOnce`. Each is a lemma about the client's action (`CallRefines`, `ServeRefines`, ...), so
  the steps of `Lgtsend` and `Retrieval` that contain it refine RemoteCall too, and their others stutter.
* **The command.** `IInv` is `TypeOK`, `WireInv` and, for each run, what its program counter
  says of the wire: before `dispatch` it posted no send; after it, the run has at most the one
  request it previewed, for options that allow a send. A step that touches neither a run's counter
  nor its sends keeps this (`Local`), which leaves `Dispatch` as the only real case. The
  theorems assume only what `LgtsendAssumption` states.
* **What a run says.** `Truth` strengthens `VerdictIsTrue`, `AdviceIsSound` and `PollsItsOwn` into something steps
  preserve: every answer a run relies on was served, to the very question it asked, and *still holds*. The last
  is what makes it hard. An answer to a send tells what the portal created with it (`SendAnswers`); an
  answer to a query that found nothing would still find nothing of any run that had ended in silence before the
  query was made (`QueryAnswers`, `KnewEnded`), because a send of that run would have to be served later, and
  a run that ended in silence was served already (`SilentIsServed`).
* **Submission.** The refinement mapping of one run, `Stage`, looks at the wire and at what the run told:
  dispatching a request that can be built submits (`DispatchSubmits`), the portal's answer decides
  (`ServeSendDecides`), reporting tells (`ReportTells`), and every other step stutters. That a shipment is not decided
  twice is `HandledOnce`; that what is told is what was decided is `Truth`.
* **The clock.** The rate follows from the ticker: the queries made, with the tick that waits,
  are no more than the ticks fired, and those fired at multiples of the interval. `NoBurst` needs where the waiting tick
  came from: it fired after the last query started. `AtMostOneLate`: once a late query started,
  the loop's next look at the clock ends the poll.
* **Files.** `SavedIsWhole` speaks of files that are reported, so the invariant must follow a file while it is
  written: a run past the opening of its file finds it torn, unless another run has had it open beside it (`Beside`); and a file a run wrote
  is whole, or was torn by a run it did not know to have ended (`Rewritten`, `spoils`). A run that started after another one ended knows it,
  and a run that is idle has touched nothing (`Progress`), so the exception never covers the runs that ended before. `OthersProgress` and
  `QuietStep` do away with the steps of other runs and with those that touch no file.
* **What is served.** `Account` ties the run's counters to the wire: the n-th call of a download asked for the n-th
  kind (`Counted`), what a run has in hand was handed out for that kind (`Backed`), and so is what a file
  holds that is whole (`DiskBacked`); `EveryKindAsked` and `OnlyWhatWasServed` are read off it when the run ends.
* **What is printed.** As for the verdict below, a fact about the operators: an attribute or a test is the last the document
  has of its name (`AttributeHolds`, `TestHolds`), and `VerifyHash` accepts exactly a digest of the text,
  one pair of quotes off, or of the bytes it decodes to (`DigestVerifies`, `PrintedOf`). The reference `intact` says so of
  the document, not of the code's two attempts.
* **The verdict.** That a run's `verdict` is right is a fact about the operators, for every certificate:
  the last index at which a code occurs exists and is what the map keeps (`GreatestIndex`, `RawIsLast`), so each
  test holds exactly if the document's last word on it is yes (`TestHolds`); the three routes through the checks agree
  (`ChecksAgree`); `VerdictOf` puts them together, and `told` changes only by it.
* **The canonicalizer.** The stack is related to the document by *the nearest declaration*: what a
  prefix stands for on the i-th open element is the declaration on the deepest element, from it up to the
  apex, that declares it, or what the apex inherits. Pushing a frame either finds a declaration on the new element or
  keeps the parent's (`StandsForNext`), popping keeps all below (`StandsForKept`), and
  `emit`, `layered` and, for a prefix, `uriOf` agree with it (`Layering`, `OpenedShows`). That the frames are a path of the tree
  (`Nested`) is kept along (`NestedChild`, `NestedPrefix`).
* **What is left out.** `OnlySignaturesDropped` compares with a set defined without any order, `Subtree`, the least set that
  holds a node and the children of its members. Induction over trees is out of the provers' reach, so it is
  avoided twice. Everything written is in it, because the open elements are a path of parents and children
  from the apex (`Walked`, `Way`); everything in it is written, because of the nodes that are missing the least
  one has a parent that is not (parents are numbered first), which was closed with all its children visited
  (`Opens`, `DoneIsWritten`). Order, and with it that nothing is written twice, needs the numbering in document order and
  one more fact about the open elements (`Ordered`): what was visited precedes all that they have left, so the next node opened or written is
  behind everything in the output (`OutputGrows`, `StepOrdered`).
* **Signing again.** `Sign` appends (`SignPlaces`, `SignStep`); the least index of an XML signature is not moved by one
  behind it, and the elements the transform keeps are the same (`FirstStays`); so everything `Verify` looks at is unchanged
  (`VerifyStays`). Only that the signatures stay a sequence, under signing and under any alteration, is needed of
  the state (`EnvelopeOK`).
* **What verifies.** `AcceptedIsSigned` is about the first signature, in a content that matches; the invariant
  (`Honest`) is about every signature and no content: a value that is not garbled is one on record (`genuine`). Signing puts its value on
  record (`HonestSign`), and altering can only copy what is there (`GenuineStays`, `HonestAlter`). A record keeps what the digest says where the value is
  over its own `SignedInfo` (`Records`); so a value that `Verify` accepts was made with the reported certificate's key, over the very
  `SignedInfo` that stands with it, and the digest in that one is the content's (`VerifiedIsSigned`).
* **What was signed verifies.** A signature that is alone in an unaltered document was made, by `Sign` or by its maker, over the
  content that was rendered (`Sole`, `Made`), so `Verify` finds the digest and the value `Sign` computed (`MadeVerifies`).
  From there to `SignsIn`: the page is what was rendered, less the dropped runes (`Assertion`, `NothingDropped`), both parsers read
  what was escaped as it was configured (`ReadAsRendered`), and each place has its layers (`Wrapped`).
* **Configuration.** While lines are read, each variable either still has the value it started with or has that of the first
  line so far that names it (`InLines`), and the lines are those of the nearest file (`Finding`, `Reading`); a line that
  names a variable for the first time is the first of the whole file that does (`FirstsOf`), so at the end
  of the file, or where a value cannot be set, every variable is settled (`SettledIsSourced`), and the flags take it from there.

Only model-checked: liveness (`RunsEnd`, `PollEnds`), which needs fairness and is out of the
prover's reach; and the five violated properties, which their counterexamples show.

## Where code and documentation disagree

Each has a run that shows it, and an entry under `findings`.

1. **`poll_for`.** `-poll-for` is dropped without a word when no result of the send carries a
   GUID yet, which the README calls the normal case of an asynchronous send. And a send that took longer
   than `-timeout` (the context allows it) eats into the poll: the run ends with a context error before its
   window is over, although the shipment was accepted. `PromptSendKeepsWindow` shows that this needs such a send.
2. **`no_artefacts`.** `-download` says "the portal returned no artefacts" when no call
   reached the portal.
3. **`instructions`.** The canonicalizer drops processing instructions, and calls this the
   "omit comments" variant, which keeps them.
4. **`sign_again`.** `Sign`, given a document that is signed already, computes its value over
   the `SignedInfo` of the first signature (sign.go:84), so the signature it appends does not verify.
   The first one still does (`FirstSignatureStands`), and `Verify` looks at that one only.
5. **`sign_moved`.** The same line lets a value be made over a `SignedInfo` about another content: a document that was altered before it
   was signed again, and is altered back after, verifies with the second signer's value and certificate in the first signature, though
   the second signer never signed that content. The comment of `Verify` (verify.go:48) says that the digest and the signature together
   prove they did. Such a value is always made over another signature's `SignedInfo`; of all others `AcceptedIsSigned` shows the claim.

## What is not modelled, and why

* The bytes of requests (element order, `xsi:type`, base64) and of canonical text (escapes, entity references,
  `qualifiedName`): data no property tells apart. A body that was cut at
  `maxResponseBytes` is a kind of its own, its length is not kept.
* HTTP below `http.Client.Do`: redirects, connection reuse and the transport's own replays of
  requests on idle connections that broke. The client sets no `Idempotency-Key`, and without it a POST is not replayed once bytes
  were written; so one `Do` is one request, but for a portal that answers with a 307 or 308 redirect.
* A portal that sends an explicit empty result: `ZeroMeansNoResult` is checked and proved for payloads that differ from the
  zero value.
* In the canonicalizer: `xmlns:p=""`, which is not well-formed in Namespaces 1.0, and the
  `xml:` attributes an apex would import from its ancestors. The code does not import them, which matters
  for `SignedInfo` below a root with, say, `xml:lang`; the documents of this program have none, and
  EnvelopedSignature's scope stands for namespaces only.
* Cryptography: digests and signatures are records of their inputs, so no two documents share one.
  Several References or Transforms in one `SignedInfo`: `Verify` reads the first of each and passes over the
  others, where its comment (verify.go:53) announces an error; the model's `SignedInfo` has one of each.
* Of an assertion: identifiers, times, the validity window against the portal's clock, and its fixed
  layout. Of a certificate: scores, counts and dates, which become zero when malformed, and plain header fields.
* The keystore (PKCS#12 decoding by a library) and the Java oracle.
* `redactPassword`, `elideBase64`, `indentXML`, `describe`'s layout, `sanitize` for file names.
* Listing, cancellation and the single-receiver sends of the library: no caller in the program, and one call
  each, of which SoapService says what there is to say.

## What is left

The least covered code is the decoding of certificates (identity.go) and the wire types (types.go), of which the model keeps what
the verdict and the printed lines depend on. Of Retrieval there is no abstract specification yet, as Submission is one of the
send: a store in which a file is whole, or torn and known to be.
