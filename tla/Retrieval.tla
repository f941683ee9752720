------------------------------ MODULE Retrieval -------------------------------
(* The lgtsend modes that fetch something of a finished shipment                *)
(* (cmd/lgtsend/main.go): -download writes every artefact there is into a       *)
(* directory, -attrs shows an identity certificate, -saml prints a sign-in URL. *)
(* Each run is a process; runs may share the directory, and are about the same  *)
(* shipment.  The portal (external) adds artefacts as the shipment proceeds.    *)
EXTENDS SoapClient, Sequences, IdentityCertificate

CONSTANTS Modes,         \* the modes the runs may be started in, together
          downloadable,  \* the kinds of artefact -download asks for, in order
          Certificate,   \* the kind -attrs asks for
          Contents,      \* artefacts, as bytes; Ext tells their extension
          Ext,           \* content -> the extension extensionFor gives it
          Garbage,       \* a binary that is not base64
          NoBinary,      \* the empty string
          Documents      \* what an artefact may turn out to be when it is read
                         \* as a certificate; Missing: it is none

ArtefactKinds == {downloadable[i] : i \in DOMAIN downloadable} \cup {Certificate}

(* A file that is not there, and one that is cut short or mixed.                *)
Absent == "absent"
Torn   == "torn"

ASSUME RetrievalAssumption ==
  /\ Modes \subseteq [Callers -> {"download", "attrs", "saml", "samlNoID"}]
  /\ \A i, j \in DOMAIN downloadable : downloadable[i] = downloadable[j] => i = j
  /\ downloadable \in Seq(ArtefactKinds)
  /\ DOMAIN Ext = Contents /\ Absent \notin Contents /\ Torn \notin Contents
  /\ Missing \in Documents
  /\ \A doc \in Documents \ {Missing} :
       /\ doc.results \in Seq([code : Attribute, value : Attribute])
       /\ doc.checks \in Seq([code : Attribute, blocker : Attribute, result : Attribute])
       /\ doc.items \in Seq([id : Attribute, value : Attribute, mandatory : Attribute])
       /\ {doc.nfcSigned, doc.nfcDeclaration} \ {Missing} \subseteq Element
  /\ Garbage \notin Contents /\ NoBinary \notin Contents /\ Garbage # NoBinary

VARIABLES
  mode,      \* run -> the mode it was started in
  pc,        \* run -> where it is
  exit,      \* run -> how it ended
  item,      \* run -> the index in downloadable it is at
  data,      \* run -> the bytes it is about to write
  touched,   \* history: run -> the files it opened for writing
  saved,     \* run -> the files it said it wrote (found is their number)
  knew,      \* history: run -> the runs that had ended when it started
  certificate, \* history: run -> the document -attrs showed, or Missing
  told,      \* run -> what -attrs printed of it, or Missing
  disk,      \* file -> its content: a file is <<kind, extension>>
  artefact   \* the portal: kind -> content, NoBinary before there is one

shownVars == <<certificate, told>>
runVars   == <<mode, pc, exit, item, data, touched, saved, knew, shownVars>>
vars      == <<soapVars, runVars, disk, artefact>>

Files == ArtefactKinds \X {Ext[c] : c \in Contents}

Init ==
  /\ SoapInit
  /\ mode \in Modes
  /\ pc = [r \in Callers |-> "idle"]
  /\ exit = [r \in Callers |-> "none"]
  /\ item = [r \in Callers |-> 1]
  /\ data = [r \in Callers |-> NoBinary]
  /\ touched = [r \in Callers |-> {}]
  /\ saved = [r \in Callers |-> {}]
  /\ knew = [r \in Callers |-> {}]
  /\ certificate = [r \in Callers |-> Missing]
  /\ told = [r \in Callers |-> Missing]
  /\ disk = [f \in Files |-> Absent]
  /\ artefact = [k \in ArtefactKinds |-> NoBinary]
-------------------------------------------------------------------------------
Exit(r, how) ==
  /\ pc' = [pc EXCEPT ![r] = "exited"]
  /\ exit' = [exit EXCEPT ![r] = how]

Goto(r, where) ==
  /\ pc' = [pc EXCEPT ![r] = where]
  /\ UNCHANGED exit

Start(r) ==
  /\ pc[r] = "idle"
  /\ IF mode[r] = "samlNoID" THEN Exit(r, "usage") ELSE Goto(r, "ask")
  /\ knew' = [knew EXCEPT ![r] = {q \in Callers : pc[q] = "exited"}]
  /\ UNCHANGED <<soapVars, shownVars, mode, item, data, touched, saved, disk, artefact>>

(* What is asked for next: the kinds of downloadable one after the other, or    *)
(* the one thing the other modes are about.                                     *)
more(r) == mode[r] # "download" \/ item[r] <= Len(downloadable)

wanted(r) == IF mode[r] = "download" THEN downloadable[item[r]]
             ELSE IF mode[r] = "attrs" THEN Certificate ELSE "url"

Ask(r) ==
  /\ pc[r] = "ask" /\ more(r)
  /\ Goto(r, "asked")
  /\ Call(r, wanted(r), NoBinary)
  /\ UNCHANGED <<shownVars, mode, item, data, touched, saved, knew, disk, artefact>>

(* The answer holds an artefact: no error, a binary, base64.                    *)
usable(r) == result[r].err = "nil" /\ result[r].value \notin {NoBinary, Garbage}

(* Mutant: the name is made of the next kind.                                   *)
path_Next(i, bytes) ==
  <<downloadable[IF i = Len(downloadable) THEN 1 ELSE i + 1], Ext[bytes]>>

(* The file an artefact goes to, by its kind and what its bytes look like.      *)
path(i, bytes) == <<downloadable[i], Ext[bytes]>>

(* Mutant: download ends at the first artefact it does not get.                 *)
Skip_Breaks(r) ==
  /\ pc[r] = "asked" /\ phase[r] = "returned"
  /\ mode[r] = "download" /\ ~usable(r)
  /\ item' = [item EXCEPT ![r] = Len(downloadable) + 1]
  /\ Goto(r, "ask")
  /\ UNCHANGED <<soapVars, shownVars, mode, data, touched, saved, knew, disk, artefact>>

(* download: what cannot be had is passed over.                                 *)
Skip(r) ==
  /\ pc[r] = "asked" /\ phase[r] = "returned"
  /\ mode[r] = "download" /\ ~usable(r)
  /\ item' = [item EXCEPT ![r] = @ + 1]
  /\ Goto(r, "ask")
  /\ UNCHANGED <<soapVars, shownVars, mode, data, touched, saved, knew, disk, artefact>>

(* Mutant: a file that is already there is left alone, and counted.             *)
Open_KeepsExisting(r) ==
  /\ pc[r] = "asked" /\ phase[r] = "returned"
  /\ mode[r] = "download" /\ usable(r)
  /\ data' = [data EXCEPT ![r] = result[r].value]
  /\ LET file == path(item[r], result[r].value)
     IN  IF disk[file] # Absent
           THEN /\ saved' = [saved EXCEPT ![r] = @ \cup {file}]
                /\ item' = [item EXCEPT ![r] = @ + 1]
                /\ Goto(r, "ask")
                /\ UNCHANGED <<touched, disk>>
           ELSE /\ disk' = [disk EXCEPT ![file] = Torn]
                /\ touched' = [touched EXCEPT ![r] = @ \cup {file}]
                /\ Goto(r, "write")
                /\ UNCHANGED <<saved, item>>
  /\ UNCHANGED <<soapVars, shownVars, mode, knew, artefact>>

(* os.WriteFile opens the file, which empties it; or it cannot.                 *)
Open(r) ==
  /\ pc[r] = "asked" /\ phase[r] = "returned"
  /\ mode[r] = "download" /\ usable(r)
  /\ data' = [data EXCEPT ![r] = result[r].value]
  /\ LET file == path(item[r], result[r].value)
     IN  \/ /\ disk' = [disk EXCEPT ![file] = Torn]
            /\ touched' = [touched EXCEPT ![r] = @ \cup {file}]
            /\ Goto(r, "write")
         \/ /\ Exit(r, "writefailed")
            /\ UNCHANGED <<disk, touched>>
  /\ UNCHANGED <<soapVars, shownVars, mode, item, saved, knew, artefact>>

(* It writes the bytes.  If another run wrote the file since, what remains is   *)
(* the longer of the two, its beginning overwritten.                            *)
Write(r) ==
  /\ pc[r] = "write"
  /\ LET file == path(item[r], data[r])
     IN  /\ \E left \in {data[r]} \cup (IF disk[file] \in {Torn, data[r]} THEN {} ELSE {Torn}) :
              disk' = [disk EXCEPT ![file] = left]
         /\ saved' = [saved EXCEPT ![r] = @ \cup {file}]
  /\ item' = [item EXCEPT ![r] = @ + 1]
  /\ Goto(r, "ask")
  /\ UNCHANGED <<soapVars, shownVars, mode, data, touched, knew, artefact>>

WriteFails(r) ==
  /\ pc[r] = "write"
  /\ Exit(r, "writefailed")
  /\ UNCHANGED <<soapVars, shownVars, mode, item, data, touched, saved, knew, disk, artefact>>

(* The end of download: "the portal returned no artefacts for this shipment",   *)
(* or success.                                                                  *)
Finished(r) ==
  /\ pc[r] = "ask" /\ ~more(r)
  /\ Exit(r, IF saved[r] = {} THEN "noartefacts" ELSE "saved")
  /\ UNCHANGED <<soapVars, shownVars, mode, item, data, touched, saved, knew, disk, artefact>>

(* Mutant: an answer without a URL is printed as one.                           *)
showSamlURL_Empty(r) ==
  /\ pc[r] = "asked" /\ phase[r] = "returned"
  /\ mode[r] = "saml"
  /\ Exit(r, IF result[r].err = "nil" THEN "shown" ELSE "failed")
  /\ data' = [data EXCEPT ![r] = result[r].value]
  /\ UNCHANGED <<soapVars, shownVars, mode, item, touched, saved, knew, disk, artefact>>

(* showSamlURL: the URL is printed, or an error is.                             *)
showSamlURL(r) ==
  /\ pc[r] = "asked" /\ phase[r] = "returned"
  /\ mode[r] = "saml"
  /\ Exit(r, IF usable(r) THEN "shown" ELSE "failed")
  /\ data' = [data EXCEPT ![r] = result[r].value]
  /\ UNCHANGED <<soapVars, shownVars, mode, item, touched, saved, knew, disk, artefact>>

(* What is printed of a certificate: the verdict, the attributes, the tests,    *)
(* the answers given, and of each artefact "hash verificado" or not.            *)
printed(cert) ==
  [verdict    |-> verdict(cert),
   attributes |-> cert.Attributes,
   tests      |-> cert.Verification,
   consents   |-> [i \in DOMAIN cert.Consents |-> [ID |-> cert.Consents[i].ID, Given |-> cert.Consents[i].Given]],
   artifacts  |-> {[Kind |-> a.Kind, verified |-> VerifyHash(a)] : a \in cert.Artifacts}]

(* What is printed of a document is told apart from nothing printed.            *)
ASSUME PrintedAssumption ==
  \A doc \in Documents \ {Missing} : printed(ParseIdentityCertificate(doc)) # Missing

(* showAttributes: the certificate is parsed and printed, or an error is.       *)
showAttributes(r) ==
  /\ pc[r] = "asked" /\ phase[r] = "returned"
  /\ mode[r] = "attrs"
  /\ data' = [data EXCEPT ![r] = result[r].value]
  /\ \E doc \in Documents :
       IF usable(r) /\ unmarshals(doc)
         THEN /\ certificate' = [certificate EXCEPT ![r] = doc]
              /\ told' = [told EXCEPT ![r] = printed(ParseIdentityCertificate(doc))]
              /\ Exit(r, "shown")
         ELSE Exit(r, "failed") /\ UNCHANGED shownVars
  /\ UNCHANGED <<soapVars, mode, item, touched, saved, knew, disk, artefact>>

Active(r) == pc[r] \notin {"idle", "exited"}

CallEnds(r) ==
  /\ Active(r)
  /\ Return(r) \/ Fail(r)
  /\ UNCHANGED <<runVars, disk, artefact>>

Kill(r) ==
  /\ Active(r)
  /\ Exit(r, "killed")
  /\ UNCHANGED <<soapVars, shownVars, mode, item, data, touched, saved, knew, disk, artefact>>
-------------------------------------------------------------------------------
(* The portal (external).  It hands out what there is of a kind, sends an empty *)
(* body when there is nothing, or fails.  A URL is some content too, and is     *)
(* never decoded.                                                               *)
offers(request) ==
  IF request = "url" THEN Contents \cup {NoBinary} ELSE {artefact[request]}

ServeRequest(m) ==
  /\ \/ \E c \in offers(m.request) :
          Serve(m, [status |-> 200, kind |-> IF c = NoBinary THEN "empty" ELSE "payload", value |-> c])
     \/ /\ m.request # "url"
        /\ Serve(m, [status |-> 200, kind |-> "payload", value |-> Garbage])
     \/ Serve(m, [status |-> 500, kind |-> "fault", value |-> NoBinary])
  /\ UNCHANGED <<runVars, disk, artefact>>

(* An artefact appears, or a later version of it (an evidence pack grows).      *)
Publish(k) ==
  /\ \E c \in Contents \ {artefact[k]} : artefact' = [artefact EXCEPT ![k] = c]
  /\ UNCHANGED <<soapVars, runVars, disk>>
-------------------------------------------------------------------------------
Step(r) ==
  \/ Ask(r) \/ Skip(r) \/ Open(r) \/ Write(r) \/ WriteFails(r) \/ Finished(r)
  \/ showSamlURL(r) \/ showAttributes(r)

Next ==
  \/ \E r \in Callers : Start(r) \/ Step(r) \/ CallEnds(r) \/ Kill(r)
  \/ \E m \in outbound : ServeRequest(m)
  \/ \E k \in ArtefactKinds : Publish(k)

Spec == Init /\ [][Next]_vars
-------------------------------------------------------------------------------
Exits == {"none", "usage", "writefailed", "noartefacts", "saved", "shown", "failed", "killed"}

TypeOK ==
  /\ SoapTypeOK
  /\ mode \in Modes
  /\ pc \in [Callers -> {"idle", "ask", "asked", "write", "exited"}]
  /\ exit \in [Callers -> Exits]
  /\ item \in [Callers -> 1 .. Len(downloadable) + 1]
  /\ data \in [Callers -> Contents \cup {Garbage, NoBinary}]
  /\ touched \in [Callers -> SUBSET Files]
  /\ \A r \in Callers : saved[r] \subseteq touched[r]
  /\ knew \in [Callers -> SUBSET Callers]
  /\ \A r \in Callers :
       certificate[r] \in Documents /\ (certificate[r] = Missing <=> told[r] = Missing)
  /\ disk \in [Files -> Contents \cup {Absent, Torn}]
  /\ artefact \in [ArtefactKinds -> Contents \cup {NoBinary}]

whole(f) == disk[f] \in Contents

(* Runs neither of which had ended when the other started.                      *)
overlap(p, q) == p # q /\ p \notin knew[q] /\ q \notin knew[p]

(* A run may leave a file torn in two ways: it opened it and has not written it *)
(* (it is about to, failed, or was killed in between, main.go:301), or it wrote *)
(* it while another run had it open too.                                        *)
spoils(q, f) ==
  /\ f \in touched[q]
  /\ \/ f \notin saved[q]
     \/ \E p \in Callers : overlap(p, q) /\ f \in touched[p]

(* What a run said it wrote stays on disk, whole, unless a run that had not     *)
(* ended when it started tore the file: one beside it, or a later one, which    *)
(* empties what is there before it writes.  Nothing before the run counts: a    *)
(* file torn by a run that was killed is repaired by running it again.          *)
SavedIsWhole ==
  \A r \in Callers : \A f \in saved[r] :
    whole(f) \/ \E q \in Callers \ knew[r] : spoils(q, f)

(* A whole file holds what the portal handed out for that very kind, to a       *)
(* request for it, so no artefact is saved under the name of another; and what  *)
(* is shown of a certificate, or as a URL, was handed out to that run, so that  *)
(* an empty answer is not shown as a certificate without attributes.            *)
OnlyWhatWasServed ==
  /\ \A f \in Files : whole(f) =>
       \E m \in posted, s \in served :
         /\ m.id = s.id /\ m.request = f[1]
         /\ s.response.value = disk[f]
  /\ \A r \in Callers : exit[r] = "shown" =>
       \E s \in served : s.id[1] = r /\ s.response.value = data[r] /\ data[r] \in Contents

(* A download that runs to its end asked for every kind, once: one that cannot  *)
(* be had keeps no other from being fetched (the continues of download).        *)
EveryKindAsked ==
  \A r \in Callers : exit[r] \in {"saved", "noartefacts"} =>
    \A i \in DOMAIN downloadable :
      {m.id : m \in {n \in posted : n.id[1] = r /\ n.request = downloadable[i]}} = {<<r, i>>}

(* Reference: what the document itself says.  Up to two pairs of quotes around  *)
(* an answer are no matter, and of a repeated code its last value counts.       *)
yes(value, quotes) == value.quotes <= quotes /\ value.word \in {"1", "true", "yes", "ok"}

named(value, word) == value.word = word /\ value.quotes <= 1

lastOf(doc, i) ==
  \A j \in DOMAIN doc.results : j > i => ~named(doc.results[j].code, doc.results[i].code.word)

holds(doc, test) ==
  \E i \in DOMAIN doc.results :
    named(doc.results[i].code, test) /\ lastOf(doc, i) /\ yes(doc.results[i].value, 2)

broken(doc) ==
  {i \in DOMAIN doc.checks : yes(doc.checks[i].blocker, 1) /\ ~named(doc.checks[i].result, "ok")}

(* "SUPERADA" is printed exactly of a document whose final global result is     *)
(* yes and that has no broken blocking check; the codes printed otherwise are   *)
(* those of the broken checks, and "resultado global negativo" is the truth     *)
(* (three routes through the checks that must agree: identity.go:268, 282 and   *)
(* main.go:243).                                                                *)
VerdictIsDocumented ==
  \A r \in Callers : told[r] # Missing =>
    LET doc == certificate[r] said == told[r].verdict.said
    IN  /\ said = "passed" <=> holds(doc, GlobalResult) /\ broken(doc) = {}
        /\ told[r].verdict.codes # {} <=> said = "failed"
        /\ said = "failed" =>
             told[r].verdict.codes = {unquote(doc.checks[i].code) : i \in broken(doc)}
        /\ said = "global negative" => ~holds(doc, GlobalResult)

answered(consent, question) ==
  consent.ID.word = question.id.word /\ (consent.Given <=> yes(question.value, 2))

intact(element) ==
  LET text == element.base64
  IN  /\ element.hash.quotes <= 1
      /\ \/ element.hash.word = <<"text", text.word, IF text.quotes = 0 THEN 0 ELSE text.quotes - 1>>
         \/ /\ text.quotes <= 1 /\ Decoded[text.word] # Missing
            /\ element.hash.word = <<"bytes", Decoded[text.word], 0>>

(* Every test and attribute printed is what the document last says of it, every *)
(* consent has the answer that stands beside its question, and "hash            *)
(* verificado" is printed of the artefacts that declare a digest of their text, *)
(* one pair of quotes off, or of the bytes it decodes to, and of no other       *)
(* (identity.go:237).                                                           *)
PrintedIsDocumented ==
  \A r \in Callers : told[r] # Missing =>
    LET doc == certificate[r]
    IN  /\ \A t \in Tests : told[r].tests[t] <=> holds(doc, t)
        /\ \A c \in AttributeCodes :
             \/ told[r].attributes[c] = plain(Empty)
             \/ \E i \in DOMAIN doc.results :
                  /\ named(doc.results[i].code, c) /\ lastOf(doc, i)
                  /\ told[r].attributes[c].word = doc.results[i].value.word
        /\ DOMAIN told[r].consents = DOMAIN doc.items
        /\ \A i \in DOMAIN doc.items : answered(told[r].consents[i], doc.items[i])
        /\ \A a \in told[r].artifacts :
             a.verified <=> intact(IF a.Kind = "nfc-signed-result" THEN doc.nfcSigned
                                   ELSE doc.nfcDeclaration)

(* "the portal returned no artefacts for this shipment" (main.go:308): the      *)
(* portal answered the run's requests, none of them with an artefact.           *)
NoArtefactsIsTrue ==
  \A r \in Callers : exit[r] = "noartefacts" =>
    \A m \in posted : m.id[1] = r =>
      \E s \in served : s.id = m.id /\ s.response.value \notin Contents
===============================================================================
