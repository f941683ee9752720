------------------------- MODULE IdentityCertificate --------------------------
(* The XML certificate of an identity-validation shipment as the client reads   *)
(* it (wsdatachannel/identity.go), and the verdict lgtsend prints of it.        *)
(*                                                                              *)
(* An attribute of the document is a word in a number of pairs of single        *)
(* quotes; words that differ in their case are one word.  A document is         *)
(*   results       a sequence of [code, value]                                  *)
(*   checks        a sequence of [code, blocker, result]                        *)
(*   forms, items  sequences of [step] and of [id, value, mandatory]            *)
(*   nfcSigned, nfcDeclaration   an [extension, hash, base64], or Missing       *)
(*   dated         whether its result_date is a time                            *)
EXTENDS Integers, Sequences

CONSTANTS AttributeCodes, \* the result codes that become attributes
          Tests,          \* the result codes that become test results
          Missing,        \* an element the document does not have
          Decoded         \* base64 text -> its bytes, or Missing if it is none

GlobalResult == "TEST_GLOBAL_RESULT"
Empty        == ""

ASSUME CertificateAssumption == GlobalResult \in Tests

Attribute == [word : STRING, quotes : Nat]

(* An NFC artefact of the document; digests are defined below.                  *)
Element ==
  [extension : Attribute, base64 : Attribute,
   hash : [word : {"none", "text", "bytes", "other"} \X (STRING \cup {Decoded[t] : t \in DOMAIN Decoded}) \X Nat,
           quotes : Nat]]

(* One pair of quotes is taken off a value that has any.                        *)
unquote(value) == [value EXCEPT !.quotes = IF @ = 0 THEN 0 ELSE @ - 1]

plain(word) == [word |-> word, quotes |-> 0]

(* Every spelling of "yes" the certificate uses; anything else is "no".         *)
isTrue(value) ==
  /\ unquote(value).quotes = 0
  /\ value.word \in {"1", "true", "yes", "ok"}

(* cert.Raw: the results by their code.  Of a code that occurs twice the last   *)
(* one is kept, as each overwrites the one before it in the map.                *)
occurrences(results, code) == {i \in DOMAIN results : unquote(results[i].code) = plain(code)}

(* Mutant: the first one is kept.                                               *)
raw_First(results, code) ==
  IF occurrences(results, code) = {} THEN plain(Empty)
  ELSE LET first == CHOOSE i \in occurrences(results, code) :
                      \A j \in occurrences(results, code) : i <= j
       IN  unquote(results[first].value)

raw(results, code) ==
  IF occurrences(results, code) = {} THEN plain(Empty)
  ELSE LET last == CHOOSE i \in occurrences(results, code) :
                     \A j \in occurrences(results, code) : j <= i
       IN  unquote(results[last].value)

identityAttributesFrom(results) == [code \in AttributeCodes |-> raw(results, code)]

identityVerificationFrom(results) == [code \in Tests |-> isTrue(raw(results, code))]

IdentityCheckOf(check) ==
  [Code |-> unquote(check.code), Result |-> unquote(check.result),
   Blocking |-> isTrue(check.blocker)]

(* Mutant: an answer is taken out of one pair of quotes only.                   *)
ConsentOf_StillQuoted(item, forms) ==
  [ID |-> unquote(item.id), Given |-> isTrue(item.value),
   Mandatory |-> isTrue(item.mandatory),
   Step |-> IF forms = <<>> THEN plain(Empty) ELSE unquote(forms[1].step)]

(* The questions and their form are siblings: all are put down to the first.    *)
ConsentOf(item, forms) ==
  [ID |-> unquote(item.id), Given |-> isTrue(unquote(item.value)),
   Mandatory |-> isTrue(unquote(item.mandatory)),
   Step |-> IF forms = <<>> THEN plain(Empty) ELSE unquote(forms[1].step)]

ArtifactOf(kind, a) ==
  [Kind |-> kind, Extension |-> unquote(a.extension),
   Hash |-> unquote(a.hash), Base64 |-> unquote(a.base64)]

(* What xml.Unmarshal cannot read is an error: no XML at all, or a result_date  *)
(* that is no time.                                                             *)
unmarshals(doc) == doc # Missing /\ doc.dated

ParseIdentityCertificate(doc) ==
  [Attributes   |-> identityAttributesFrom(doc.results),
   Verification |-> identityVerificationFrom(doc.results),
   Checks    |-> [i \in DOMAIN doc.checks |-> IdentityCheckOf(doc.checks[i])],
   Consents  |-> [i \in DOMAIN doc.items |-> ConsentOf(doc.items[i], doc.forms)],
   Artifacts |->
     (IF doc.nfcSigned = Missing THEN {} ELSE {ArtifactOf("nfc-signed-result", doc.nfcSigned)})
       \cup (IF doc.nfcDeclaration = Missing THEN {}
             ELSE {ArtifactOf("nfc-attributes-declaration", doc.nfcDeclaration)})]
-------------------------------------------------------------------------------
checkPassed(check) == check.Result = plain("ok")

FailedChecks(cert) ==
  {cert.Checks[i] : i \in {j \in DOMAIN cert.Checks :
                             cert.Checks[j].Blocking /\ ~checkPassed(cert.Checks[j])}}

(* Mutant: the portal's own verdict is enough.                                  *)
Passed_IgnoresChecks(cert) == cert.Verification[GlobalResult]

Passed(cert) ==
  /\ cert.Verification[GlobalResult]
  /\ \A i \in DOMAIN cert.Checks : cert.Checks[i].Blocking => checkPassed(cert.Checks[i])

(* lgtsend: "SUPERADA", "NO SUPERADA" and the codes of the checks that failed,  *)
(* or "NO SUPERADA (resultado global negativo)".                                *)
verdict(cert) ==
  LET codes == {check.Code : check \in FailedChecks(cert)}
  IN  IF Passed(cert) THEN [said |-> "passed", codes |-> {}]
      ELSE IF codes = {} THEN [said |-> "global negative", codes |-> {}]
      ELSE [said |-> "failed", codes |-> codes]

(* SHA-256, of a text (which may still be in quotes) or of bytes: no two of     *)
(* them have the same digest.  A hash is a digest in place of a word.           *)
digest(of, value) == <<of, value.word, value.quotes>>

NoHash == digest("none", plain(Empty))

Decode(artifact) ==
  IF artifact.Base64.quotes = 0 THEN Decoded[artifact.Base64.word] ELSE Missing

declares(artifact, what) == artifact.Hash = plain(what)

overText(artifact) == declares(artifact, digest("text", artifact.Base64))

overBytes(artifact) ==
  /\ Decode(artifact) # Missing
  /\ declares(artifact, digest("bytes", plain(Decode(artifact))))

(* Mutant: an artefact that declares no digest is in order.                     *)
VerifyHash_NoneIsFine(artifact) ==
  declares(artifact, NoHash) \/ overText(artifact) \/ overBytes(artifact)

(* Either convention will do: a digest of the base64 text, which is compared    *)
(* before the text is decoded, or one of the bytes.                             *)
VerifyHash(artifact) ==
  ~declares(artifact, NoHash) /\ (overText(artifact) \/ overBytes(artifact))
===============================================================================
