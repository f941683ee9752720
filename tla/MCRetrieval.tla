------------------------------ MODULE MCRetrieval ------------------------------
(* Runs of lgtsend that fetch what there is of one shipment.                    *)
EXTENDS Retrieval, SequencesExt

CONSTANTS a, b, signed, certificates, pdf1, pdf2

MCOneCaller == {a}
MCAnyMode   == {[r \in MCOneCaller |-> m] : m \in {"download", "attrs", "saml", "samlNoID"}}
MCBoth      == <<signed, certificates>>
MCContents  == {pdf1, pdf2}

(* Two downloads into one directory; or one run that shows something, and one   *)
(* that goes no further than its flags.                                         *)
MCCallers == {a, b}
Quiet     == [r \in MCCallers |-> "samlNoID"]
MCModes   ==
  {[r \in MCCallers |-> "download"]}
    \cup {[Quiet EXCEPT ![r] = m] : r \in MCCallers, m \in {"attrs", "saml", "samlNoID"}}

(* Runs take the same steps and artefacts of one extension differ in nothing    *)
(* but their name; no property names either.                                    *)
Symmetry == Permutations(MCCallers) \cup Permutations(MCContents)

MCExt       == pdf1 :> "pdf" @@ pdf2 :> "pdf"

MCNoDocuments == {Missing}

(* Certificates, small enough to have them all: up to two results of a code     *)
(* that may repeat, up to two checks, one question, and an artefact.            *)
quoted(word, n) == [word |-> word, quotes |-> n]

MCAttributeCodes == {"NAME"}
MCTests          == {"TEST_GLOBAL_RESULT"}
MCDecoded        == "text1" :> "bytes1" @@ "text2" :> "bytes2" @@ "text3" :> Missing

Results ==
  [code : {quoted("TEST_GLOBAL_RESULT", 1)}, value : {quoted("1", 0), quoted("1", 3), quoted("0", 1)}]
    \cup {[code |-> quoted("NAME", 0), value |-> quoted("true", 1)]}
Checks ==
  [code : {quoted("face", 1), quoted("chip", 0)}, blocker : {quoted("1", 1), quoted("0", 0)},
   result : {quoted("ok", 1), quoted("ko", 0)}]
Items == [id : {quoted("nfc_data", 1)}, value : {quoted("true", 2), quoted("false", 1)},
          mandatory : {quoted("true", 0)}]
Hashes ==
  {NoHash, <<"text", "text1", 0>>, <<"text", "text1", 1>>, <<"text", "text3", 0>>,
   <<"bytes", "bytes1", 0>>, <<"other", "", 0>>}
Artifacts ==
  {Missing} \cup [extension : {quoted("xml", 0)}, hash : {quoted(h, 1) : h \in Hashes},
                  base64 : {quoted("text1", 1), quoted("text1", 2), quoted("text2", 0), quoted("text3", 0)}]

Verdicts ==
  [results : BoundedSeq(Results, 2), checks : BoundedSeq(Checks, 2), forms : {<<>>}, items : {<<>>},
   nfcSigned : {Missing}, nfcDeclaration : {Missing}, dated : {TRUE}]
Attachments ==
  [results : {<<>>}, checks : {<<>>}, forms : {<<[step |-> quoted("nfc", 1)]>>},
   items : BoundedSeq(Items, 1),
   nfcSigned : Artifacts,
   nfcDeclaration : {Missing} \cup {x \in Artifacts \ {Missing} : x.base64.word = "text1"},
   dated : BOOLEAN]

MCDocuments == Verdicts \cup Attachments \cup {Missing}
===============================================================================
