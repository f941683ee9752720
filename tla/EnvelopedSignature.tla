-------------------------- MODULE EnvelopedSignature ---------------------------
(* EnvelopedSigner.Sign and Verify (xmldsig/sign.go, verify.go) as operators on *)
(* documents.  A document is [form, body, scope, signatures]: whether it can be *)
(* read, its content without signatures, the namespaces its root declares, and  *)
(* the root's children whose local name is Signature, in order.  Digests are    *)
(* records of what was digested, and signature values of what was signed.       *)
EXTENDS Naturals, Sequences

CONSTANTS Keys,     \* RSA key pairs; a certificate is the key it is about
          NotRSA,   \* a certificate about another kind of key
          Garbage,  \* text that is not base64, or not a certificate
          None      \* nil, or an element that is missing

ASSUME SignatureAssumption ==
  /\ NotRSA \notin Keys /\ Garbage \notin Keys /\ None \notin Keys
  /\ NotRSA # Garbage /\ NotRSA # None /\ Garbage # None

(* The algorithms Verify knows, with the hash each uses; and the transform.     *)
signatureHash == [rsa_sha1 |-> "sha1", rsa_sha256 |-> "sha256"]
digestHash    == [sha1 |-> "sha1", sha256 |-> "sha256"]
unknown       == "another algorithm"

(* What the transform leaves in: an element that is merely called Signature.    *)
kept(signatures) == {signatures[i] : i \in {j \in DOMAIN signatures : ~signatures[j].dsig}}

(* Canonicalize(root, IsSignature), hashed: all signatures are left out.        *)
digestOf(hash, doc) ==
  [hash |-> hash, body |-> doc.body, scope |-> doc.scope, kept |-> kept(doc.signatures)]

(* Canonicalize(signedInfo, nil), hashed and signed with key: SignedInfo takes  *)
(* in the namespaces in scope where it stands.                                  *)
sealed(key, hash, info, doc) ==
  [key |-> key, hash |-> hash, info |-> info, scope |-> doc.scope]

(* Mutant: SignedInfo is canonicalized on its own.                              *)
signatureOver_Detached(key, info, doc) ==
  [key |-> key, hash |-> "sha1", info |-> info, scope |-> None]

(* What Sign puts in SignatureValue.                                            *)
signatureOver(key, info, doc) == sealed(key, "sha1", info, doc)

(* signatureBlock.                                                              *)
signedInfo(method, hash, digest) ==
  [c14n |-> TRUE, method |-> method,
   reference |-> [uri |-> "", transform |-> "enveloped", method |-> hash, digest |-> digest]]

block(info, value, certificate) ==
  [dsig |-> TRUE, info |-> info, value |-> value, certificate |-> certificate]

Error(err, doc) == [err |-> err, doc |-> doc]

(* Mutant: the signature takes the place of those that are there.               *)
placed_Instead(signatures, new) == <<new>>

(* Immediately before the root's closing tag.                                   *)
placed(signatures, new) == Append(signatures, new)

(* Sign.  The SignedInfo that gets signed is that of the first child of the     *)
(* draft's root that is called Signature, in whatever namespace.                *)
Sign(doc, signer) ==
  LET info  == signedInfo("rsa_sha1", "sha1", digestOf("sha1", doc))
      draft == placed(doc.signatures, block(info, None, None))
      value == signatureOver(signer.key, Head(draft).info, doc)
  IN  IF signer.key = None THEN Error("no private key", doc)
      ELSE IF signer.certificate = None THEN Error("no certificate", doc)
      ELSE IF doc.form \in {"unparsable", "rootless"} THEN Error(doc.form, doc)
      ELSE IF doc.form = "unclosed" THEN Error("does not end with the closing tag", doc)
      ELSE IF Head(draft).info = None THEN Error("no SignedInfo", doc)
      ELSE [err |-> "nil",
            doc |-> [doc EXCEPT !.signatures = placed(@, block(info, value, signer.certificate))]]

(* Mutant: the signature is checked, the content is not.                        *)
referenceError_Unchecked(reference, doc) ==
  IF reference = None THEN "no Reference" ELSE "nil"

(* The reference of a SignedInfo, against the document it is in.                *)
referenceError(reference, doc) ==
  IF reference = None THEN "no Reference"
  ELSE IF reference.uri # "" THEN "not the whole document"
  ELSE IF reference.transform # "enveloped" THEN "transform"
  ELSE IF reference.method \notin DOMAIN digestHash THEN "digest method"
  ELSE IF reference.digest = Garbage THEN "DigestValue"
  ELSE IF reference.digest # digestOf(digestHash[reference.method], doc) THEN "altered"
  ELSE "nil"

(* Mutant: the content is checked, the signature is not.                        *)
valueError_Unchecked(signature, doc) ==
  IF signature.certificate \in {None, Garbage} THEN "X509Certificate" ELSE "nil"

(* KeyInfo and SignatureValue: signerCertificate, and the RSA verification.     *)
valueError(signature, doc) ==
  LET hash == signatureHash[signature.info.method]
  IN  IF signature.certificate \in {None, Garbage} THEN "X509Certificate"
      ELSE IF signature.certificate = NotRSA THEN "not RSA"
      ELSE IF signature.value = Garbage THEN "SignatureValue"
      ELSE IF signature.value # sealed(signature.certificate, hash, signature.info, doc)
        THEN "does not verify"
      ELSE "nil"

signatureError(signature, doc) ==
  LET info == signature.info
  IN  IF info = None THEN "no SignedInfo"
      ELSE IF ~info.c14n THEN "canonicalization"
      ELSE IF info.method \notin DOMAIN signatureHash THEN "signature method"
      ELSE IF referenceError(info.reference, doc) # "nil" THEN referenceError(info.reference, doc)
      ELSE valueError(signature, doc)

(* findSignature: the first child of the root that is an XML signature.         *)
findSignature(doc) ==
  LET found == {i \in DOMAIN doc.signatures : doc.signatures[i].dsig}
  IN  IF found = {} THEN None
      ELSE doc.signatures[CHOOSE i \in found : \A j \in found : i <= j]

(* Verify, and the certificate it reports.                                      *)
Verify(doc) ==
  IF doc.form \in {"unparsable", "rootless"} THEN doc.form
  ELSE IF findSignature(doc) = None THEN "no signature"
  ELSE signatureError(findSignature(doc), doc)

reported(doc) == findSignature(doc).certificate
===============================================================================
