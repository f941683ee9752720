----------------------------- MODULE SignInProofs -----------------------------
(* What TLAPS proves of Sign and Verify, for any documents, keys and            *)
(* configurations: a signature that verifies survives the next one.             *)
EXTENDS SignIn, WellFoundedInduction, SequenceTheorems, TLAPS

LEMMA LeastIndex ==
  ASSUME NEW S, S \subseteq Nat, S # {}
  PROVE  \E k \in S : \A j \in S : k <= j
<1>1. PICK k \in S : \A j \in S : ~ (<<j, k>> \in OpToRel(<, Nat))
  BY NatLessThanWellFounded, WFMin
<1>2. \A j \in S : ~ (j < k)
  BY <1>1 DEF OpToRel
<1> QED BY <1>2

LEMMA Appended ==
  ASSUME NEW s, isSequence(s), NEW b
  PROVE  /\ Len(s) \in Nat /\ DOMAIN s = 1 .. Len(s)
         /\ Len(Append(s, b)) = Len(s) + 1 /\ DOMAIN Append(s, b) = 1 .. Len(s) + 1
         /\ \A i \in 1 .. Len(s) : Append(s, b)[i] = s[i]
         /\ Append(s, b)[Len(s) + 1] = b
         /\ isSequence(Append(s, b))
<1> DEFINE S == {s[i] : i \in DOMAIN s}
           t == Append(s, b)
<1>1. s \in Seq(S)
  BY DEF isSequence
<1> HIDE DEF S
<1>2. /\ Len(s) \in Nat /\ DOMAIN s = 1 .. Len(s)
      /\ Len(t) = Len(s) + 1 /\ DOMAIN t = 1 .. Len(s) + 1
      /\ \A i \in 1 .. Len(s) : t[i] = s[i]
      /\ t[Len(s) + 1] = b
      /\ t \in Seq(S \cup {b})
  BY <1>1
<1> HIDE DEF t
<1>3. t \in Seq({t[i] : i \in DOMAIN t})
  BY <1>2
<1> QED BY <1>2, <1>3 DEF t, isSequence

(* The first XML signature is not moved by another one behind it, and what the  *)
(* transform leaves in is the same.                                             *)
LEMMA FirstStays ==
  ASSUME NEW doc, isSequence(doc.signatures), NEW b, b.dsig = TRUE,
         NEW more, more.signatures = Append(doc.signatures, b),
         findSignature(doc) # None
  PROVE  findSignature(more) = findSignature(doc) /\ kept(more.signatures) = kept(doc.signatures)
<1> DEFINE s == doc.signatures
           t == more.signatures
           n == Len(s)
           found(u) == {i \in DOMAIN u : u[i].dsig}
           least(u) == CHOOSE i \in found(u) : \A j \in found(u) : i <= j
<1>1. /\ n \in Nat /\ DOMAIN s = 1 .. n /\ DOMAIN t = 1 .. n + 1
      /\ (\A i \in 1 .. n : t[i] = s[i]) /\ t[n + 1] = b
  BY Appended
<1> HIDE DEF s, t, n
<1>2. found(t) = found(s) \cup {n + 1} /\ found(s) \subseteq 1 .. n
  BY <1>1
<1>3. found(s) # {}
  BY DEF findSignature, s
<1> HIDE DEF found
<1>4. PICK k \in found(s) : \A j \in found(s) : k <= j
  BY <1>1, <1>2, <1>3, LeastIndex
<1>5. least(s) = k
  BY <1>1, <1>2, <1>4
<1>6. least(t) = k
  BY <1>1, <1>2, <1>4
<1>7. findSignature(more) = t[least(t)] /\ findSignature(doc) = s[least(s)]
  BY <1>2, <1>3 DEF findSignature, s, t, found
<1>8. kept(t) = kept(s)
  BY <1>1 DEF kept
<1> QED BY <1>1, <1>2, <1>4, <1>5, <1>6, <1>7, <1>8 DEF s, t

(* Verify and the certificate it reports depend on the first XML signature, the *)
(* content and what the transform leaves in, so one more signature behind it    *)
(* changes neither.                                                             *)
LEMMA VerifyStays ==
  ASSUME NEW doc, isSequence(doc.signatures), NEW b, b.dsig = TRUE,
         NEW more, more.signatures = Append(doc.signatures, b),
         more.form = doc.form, more.body = doc.body, more.scope = doc.scope,
         Verify(doc) = "nil"
  PROVE  Verify(more) = "nil" /\ reported(more) = reported(doc)
<1>1. findSignature(doc) # None
  BY DEF Verify
<1>2. findSignature(more) = findSignature(doc) /\ kept(more.signatures) = kept(doc.signatures)
  BY <1>1, FirstStays
<1>3. \A hash : digestOf(hash, more) = digestOf(hash, doc)
  BY <1>2 DEF digestOf
<1>4. \A key, hash, info : sealed(key, hash, info, more) = sealed(key, hash, info, doc)
  BY DEF sealed
<1>5. \A s : signatureError(s, more) = signatureError(s, doc)
  <2>1. \A r : referenceError(r, more) = referenceError(r, doc)
    BY <1>3 DEF referenceError
  <2>2. \A s : valueError(s, more) = valueError(s, doc)
    BY <1>4 DEF valueError
  <2> QED BY <2>1, <2>2 DEF signatureError
<1>6. Verify(more) = Verify(doc)
  BY <1>2, <1>5 DEF Verify
<1> QED BY <1>2, <1>6 DEF reported
-------------------------------------------------------------------------------
(* What Sign puts at the end.                                                   *)
LEMMA SignPlaces ==
  ASSUME NEW doc, NEW keystore, Sign(doc, keystore).err = "nil",
         doc = [form |-> doc.form, body |-> doc.body, scope |-> doc.scope, signatures |-> doc.signatures]
  PROVE  LET info == signedInfo("rsa_sha1", "sha1", digestOf("sha1", doc))
             first == Head(Append(doc.signatures, block(info, None, None))).info
         IN  /\ Sign(doc, keystore).doc.signatures
                  = Append(doc.signatures, block(info, sealed(keystore.key, "sha1", first, doc), keystore.certificate))
             /\ keystore.key # None /\ keystore.certificate # None
             /\ doc.form \notin {"unparsable", "rootless", "unclosed"}
<1> DEFINE info  == signedInfo("rsa_sha1", "sha1", digestOf("sha1", doc))
           value == signatureOver(keystore.key, Head(placed(doc.signatures, block(info, None, None))).info, doc)
           b     == block(info, value, keystore.certificate)
           signed == [err |-> "nil", doc |-> [doc EXCEPT !.signatures = placed(@, b)]]
<1>1. /\ Sign(doc, keystore) = signed
      /\ keystore.key # None /\ keystore.certificate # None
      /\ doc.form \notin {"unparsable", "rootless", "unclosed"}
  <2> HIDE DEF info, value
  <2>1. Error("no private key", doc).err # "nil" /\ Error("no certificate", doc).err # "nil"
        /\ Error("does not end with the closing tag", doc).err # "nil" /\ Error("no SignedInfo", doc).err # "nil"
    BY DEF Error
  <2>2. doc.form \in {"unparsable", "rootless"} => Error(doc.form, doc).err # "nil"
    BY DEF Error
  <2> QED BY <2>1, <2>2 DEF Sign, info, value
<1>2. signed.doc.signatures = Append(doc.signatures, b)
  <2> HIDE DEF b
  <2> QED BY DEF placed
<1> QED BY <1>1, <1>2 DEF signatureOver, placed

(* The envelope stays one, whoever alters it.                                   *)
EnvelopeOK ==
  /\ envelope = [form |-> envelope.form, scope |-> envelope.scope, signatures |-> envelope.signatures]
  /\ isSequence(envelope.signatures)

(* The signature SignDocument appends: over the SignedInfo of the first child   *)
(* called Signature, its own where there was none.                              *)
Now      == digestOf("sha1", seen("Go"))
NewInfo  == signedInfo("rsa_sha1", "sha1", Now)
First    == Head(Append(envelope.signatures, block(NewInfo, None, None))).info
NewBlock(signer) == block(NewInfo, sealed(signer.key, "sha1", First, seen("Go")), signer.certificate)

(* A step of SignDocument appends it and records it, or leaves all as it was.   *)
LEMMA SignStep ==
  ASSUME EnvelopeOK, NEW signer, SignDocument(signer)
  PROVE  /\ page' = page
         /\ \/ envelope' = envelope /\ signings' = signings /\ at' = "refused"
            \/ /\ envelope' = [envelope EXCEPT !.signatures = Append(@, NewBlock(signer))]
               /\ signings' = signings \cup {signing(signer)}
               /\ signing(signer) = [key |-> signer.key, content |-> contentOf(seen("Go")),
                                     value |-> NewBlock(signer).value, own |-> First = NewInfo]
               /\ at' = "holder"
               /\ signer.key # None
               /\ seen("Go").form \notin {"unparsable", "rootless", "unclosed"}
<1> DEFINE signed == Sign(seen("Go"), signer)
<1>0. page' = page
  BY DEF SignDocument
<1>1. CASE signed.err = "nil"
  <2>1. seen("Go") = [form |-> seen("Go").form, body |-> seen("Go").body,
                      scope |-> seen("Go").scope, signatures |-> seen("Go").signatures]
        /\ seen("Go").signatures = envelope.signatures
    BY DEF seen
  <2>2. /\ signed.doc.signatures = Append(envelope.signatures, NewBlock(signer))
        /\ signer.key # None /\ seen("Go").form \notin {"unparsable", "rootless", "unclosed"}
    BY <1>1, <2>1, SignPlaces DEF NewBlock, First, NewInfo, Now
  <2>3. /\ envelope' = [envelope EXCEPT !.signatures = signed.doc.signatures] /\ at' = "holder"
        /\ signings' = signings \cup {signing(signer)}
    BY <1>1 DEF SignDocument
  <2>4. signing(signer) = [key |-> signer.key, content |-> contentOf(seen("Go")),
                           value |-> NewBlock(signer).value, own |-> First = NewInfo]
    <3> DEFINE t == signed.doc.signatures
               new == t[Len(t)]
    <3>1. signing(signer) = [key |-> signer.key, content |-> contentOf(seen("Go")),
                             value |-> new.value, own |-> new.value.info = new.info]
      BY DEF signing
    <3>2. new = NewBlock(signer)
      <4> DEFINE b == NewBlock(signer)
      <4>1. t = Append(envelope.signatures, b)
        BY <2>2
      <4> HIDE DEF t, b
      <4> QED BY <4>1, Appended DEF EnvelopeOK, b
    <3>3. NewBlock(signer).value.info = First /\ NewBlock(signer).info = NewInfo
      BY DEF NewBlock, block, sealed
    <3> HIDE DEF new, t
    <3> QED BY <3>1, <3>2, <3>3
  <2> HIDE DEF signed
  <2>5. envelope' = [envelope EXCEPT !.signatures = Append(@, NewBlock(signer))]
    BY <2>2, <2>3
  <2> QED BY <1>0, <2>2, <2>3, <2>4, <2>5
<1>2. CASE signed.err # "nil"
  BY <1>0, <1>2 DEF SignDocument
<1> QED BY <1>1, <1>2

LEMMA NewIsSignature == \A signer : NewBlock(signer).dsig = TRUE
  BY DEF NewBlock, block

LEMMA FirstStands ==
  ASSUME EnvelopeOK, NEW signer, SignDocument(signer), Verify(seen("Go")) = "nil"
  PROVE  (Verify(seen("Go")) = "nil")' /\ reported(seen("Go"))' = reported(seen("Go"))
<1>1. CASE envelope' = envelope
  BY <1>1, SignStep DEF seen, readBy, partAs
<1>2. CASE page' = page /\ envelope' = [envelope EXCEPT !.signatures = Append(@, NewBlock(signer))]
  <2>1. PICK b : b.dsig = TRUE /\ envelope' = [envelope EXCEPT !.signatures = Append(@, b)]
    BY <1>2, NewIsSignature
  <2>2. /\ envelope'.form = envelope.form /\ envelope'.scope = envelope.scope
        /\ envelope'.signatures = Append(envelope.signatures, b)
    BY <2>1 DEF EnvelopeOK
  <2>3. readBy("Go")' = readBy("Go")
    BY <1>2 DEF readBy, partAs
  <2>4. /\ seen("Go").signatures = envelope.signatures
        /\ seen("Go")'.form = seen("Go").form /\ seen("Go")'.body = seen("Go").body
        /\ seen("Go")'.scope = seen("Go").scope
        /\ seen("Go")'.signatures = Append(seen("Go").signatures, b)
    BY <1>2, <2>2, <2>3 DEF seen
  <2>5. isSequence(seen("Go").signatures)
    BY <2>4 DEF EnvelopeOK
  <2>6. Verify(seen("Go")') = "nil" /\ reported(seen("Go")') = reported(seen("Go"))
    BY <2>1, <2>4, <2>5, VerifyStays
  <2> QED BY <2>6
<1> QED BY <1>1, <1>2, SignStep
-------------------------------------------------------------------------------
LEMMA Replaced ==
  ASSUME NEW s, isSequence(s), NEW i \in DOMAIN s, NEW b
  PROVE  isSequence([s EXCEPT ![i] = b])
<1> DEFINE S == {s[j] : j \in DOMAIN s}
           t == [s EXCEPT ![i] = b]
<1>1. s \in Seq(S)
  BY DEF isSequence
<1> HIDE DEF S
<1>2. t \in Seq(S \cup {b})
  BY <1>1
<1> HIDE DEF t
<1>3. t \in Seq({t[j] : j \in DOMAIN t})
  BY <1>2
<1> QED BY <1>3 DEF t, isSequence

LEMMA Removed ==
  ASSUME NEW s, isSequence(s), NEW i \in DOMAIN s
  PROVE  isSequence(SubSeq(s, 1, i - 1) \o SubSeq(s, i + 1, Len(s)))
<1> DEFINE S == {s[j] : j \in DOMAIN s}
           before == SubSeq(s, 1, i - 1)
           behind == SubSeq(s, i + 1, Len(s))
           t == before \o behind
<1>1. s \in Seq(S)
  BY DEF isSequence
<1> HIDE DEF S
<1>2. before \in Seq(S)
  BY <1>1
<1>3. behind \in Seq(S)
  BY <1>1
<1> HIDE DEF before, behind
<1>4. t \in Seq(S)
  BY <1>2, <1>3
<1> HIDE DEF t
<1>5. t \in Seq({t[j] : j \in DOMAIN t})
  BY <1>4
<1> QED BY <1>5 DEF t, before, behind, isSequence

LEMMA EnvelopeInit == Init => EnvelopeOK
<1> SUFFICES ASSUME Init PROVE EnvelopeOK
  OBVIOUS
<1>1. CASE config \in Configs /\ envelope = [form |-> "closed", scope |-> "saml", signatures |-> <<>>]
  <2>1. isSequence(<<>>)
    BY DEF isSequence
  <2> QED BY <1>1, <2>1 DEF EnvelopeOK
<1>2. CASE \E held \in Held :
             envelope = [form |-> held.form, scope |-> held.scope, signatures |-> held.signatures]
  <2>1. PICK held \in Held :
          envelope = [form |-> held.form, scope |-> held.scope, signatures |-> held.signatures]
    BY <1>2
  <2>2. isSequence(held.signatures)
    BY HeldAssumption
  <2>3. envelope.form = held.form /\ envelope.scope = held.scope /\ envelope.signatures = held.signatures
    BY <2>1
  <2> QED BY <2>1, <2>2, <2>3 DEF EnvelopeOK
<1> QED BY <1>1, <1>2 DEF Init

LEMMA EnvelopeNext ==
  ASSUME EnvelopeOK, [Next]_vars
  PROVE  EnvelopeOK'
<1>1. ASSUME NEW t, isSequence(t), envelope' = [envelope EXCEPT !.signatures = t]
      PROVE  EnvelopeOK'
  BY <1>1 DEF EnvelopeOK
<1>2. CASE UNCHANGED envelope
  BY <1>2 DEF EnvelopeOK
<1>3. CASE \E signer \in Signers : SignDocument(signer)
  <2> PICK signer \in Signers : SignDocument(signer)
    BY <1>3
  <2>1. CASE envelope' = [envelope EXCEPT !.signatures = Append(@, NewBlock(signer))]
    <3>1. PICK b : envelope' = [envelope EXCEPT !.signatures = Append(@, b)]
      BY <2>1
    <3>2. isSequence(Append(envelope.signatures, b))
      BY Appended DEF EnvelopeOK
    <3> QED BY <1>1, <3>1, <3>2
  <2> QED BY <1>2, <1>3, <2>1, SignStep
<1>4. CASE AlterSignature
  <2>1. PICK i \in DOMAIN envelope.signatures :
          \/ \E s \in changed(envelope.signatures[i]) :
               envelope' = [envelope EXCEPT !.signatures[i] = s]
          \/ envelope' = [envelope EXCEPT !.signatures =
                            SubSeq(@, 1, i - 1) \o SubSeq(@, i + 1, Len(@))]
    BY <1>4 DEF AlterSignature
  <2>2. ASSUME NEW s, envelope' = [envelope EXCEPT !.signatures[i] = s]
        PROVE  EnvelopeOK'
    <3>1. isSequence([envelope.signatures EXCEPT ![i] = s])
      BY Replaced DEF EnvelopeOK
    <3>2. envelope' = [envelope EXCEPT !.signatures = [envelope.signatures EXCEPT ![i] = s]]
      BY <2>2
    <3> QED BY <1>1, <3>1, <3>2
  <2>3. isSequence(SubSeq(envelope.signatures, 1, i - 1)
                     \o SubSeq(envelope.signatures, i + 1, Len(envelope.signatures)))
    BY Removed DEF EnvelopeOK
  <2> QED BY <1>1, <2>1, <2>2, <2>3
<1>5. CASE AlterContent
  <2>1. ASSUME NEW scope \in Scopes, envelope' = [envelope EXCEPT !.scope = scope]
        PROVE  EnvelopeOK'
    BY <2>1 DEF EnvelopeOK
  <2> QED BY <1>2, <1>5, <2>1 DEF AlterContent
<1> QED BY <1>2, <1>3, <1>4, <1>5
     DEF Next, vars, Generate, Encode, SignInForm, SignInFormHTML, Browse, Deliver, Alter

(* Signing again takes nothing away, whatever documents, configurations and     *)
(* keystores there are (sign.go:84, verify.go:71): a document that verifies     *)
(* still verifies after one more signature, and as the first one's.             *)
THEOREM FirstSignatureKept == Spec => FirstSignatureStands
<1>1. Init => EnvelopeOK
  BY EnvelopeInit
<1>2. EnvelopeOK /\ [Next]_vars => EnvelopeOK'
  BY EnvelopeNext
<1>3. EnvelopeOK /\ [Next]_vars
        => [(\E signer \in Signers : SignDocument(signer)) /\ Verify(seen("Go")) = "nil"
              => (Verify(seen("Go")) = "nil")' /\ reported(seen("Go"))' = reported(seen("Go"))]_vars
  BY FirstStands
<1> QED BY <1>1, <1>2, <1>3, PTL DEF Spec, FirstSignatureStands
-------------------------------------------------------------------------------
(* What Alter does to the signatures: one is replaced, or taken out.            *)
LEMMA AlterStep ==
  ASSUME EnvelopeOK, AlterSignature
  PROVE  /\ page' = page /\ envelope'.form = envelope.form /\ envelope'.scope = envelope.scope
         /\ \/ \E i \in DOMAIN envelope.signatures : \E s \in changed(envelope.signatures[i]) :
                 envelope'.signatures = [envelope.signatures EXCEPT ![i] = s]
            \/ \E i \in DOMAIN envelope.signatures :
                 envelope'.signatures = SubSeq(envelope.signatures, 1, i - 1)
                                          \o SubSeq(envelope.signatures, i + 1, Len(envelope.signatures))
<1>0. page' = page
  BY DEF AlterSignature
<1>1. ASSUME NEW t, envelope' = [envelope EXCEPT !.signatures = t]
      PROVE  /\ envelope'.form = envelope.form /\ envelope'.scope = envelope.scope
             /\ envelope'.signatures = t
  BY <1>1 DEF EnvelopeOK
<1>2. PICK i \in DOMAIN envelope.signatures :
        \/ \E s \in changed(envelope.signatures[i]) :
             envelope' = [envelope EXCEPT !.signatures[i] = s]
        \/ envelope' = [envelope EXCEPT !.signatures =
                          SubSeq(@, 1, i - 1) \o SubSeq(@, i + 1, Len(@))]
  BY DEF AlterSignature
<1>3. CASE \E s \in changed(envelope.signatures[i]) : envelope' = [envelope EXCEPT !.signatures[i] = s]
  <2>1. PICK s \in changed(envelope.signatures[i]) : envelope' = [envelope EXCEPT !.signatures[i] = s]
    BY <1>3
  <2>2. envelope' = [envelope EXCEPT !.signatures = [envelope.signatures EXCEPT ![i] = s]]
    BY <2>1
  <2> QED BY <1>0, <1>1, <2>1, <2>2
<1>4. CASE envelope' = [envelope EXCEPT !.signatures = SubSeq(@, 1, i - 1) \o SubSeq(@, i + 1, Len(@))]
  BY <1>0, <1>1, <1>4
<1> QED BY <1>2, <1>3, <1>4

(* Every signature that is left was there.                                      *)
LEMMA Remaining ==
  ASSUME NEW s, isSequence(s), NEW i \in DOMAIN s
  PROVE  LET t == SubSeq(s, 1, i - 1) \o SubSeq(s, i + 1, Len(s))
         IN  /\ Len(t) \in Nat /\ Len(t) < Len(s) /\ DOMAIN t = 1 .. Len(t)
             /\ \A j \in DOMAIN t : \E k \in DOMAIN s : t[j] = s[k]
<1> DEFINE S == {s[j] : j \in DOMAIN s}
           n == Len(s)
           before == SubSeq(s, 1, i - 1)
           behind == SubSeq(s, i + 1, n)
           t == before \o behind
<1>1. s \in Seq(S) /\ n \in Nat /\ i \in 1 .. n
  BY DEF isSequence
<1> HIDE DEF S
<1>2. before \in Seq(S) /\ Len(before) = i - 1
  BY <1>1
<1>3. behind \in Seq(S) /\ Len(behind) = n - i
  BY <1>1
<1> HIDE DEF before, behind
<1>4. t \in Seq(S) /\ Len(t) = n - 1
  BY <1>1, <1>2, <1>3
<1> HIDE DEF t
<1>5. \A j \in DOMAIN t : t[j] \in S
  BY <1>4
<1>6. Len(t) \in Nat /\ Len(t) < n /\ DOMAIN t = 1 .. Len(t)
  BY <1>1, <1>4
<1>7. \A j \in DOMAIN t : \E k \in DOMAIN s : t[j] = s[k]
  BY <1>5 DEF S
<1> QED BY <1>6, <1>7 DEF t, before, behind

LEMMA Pair ==
  ASSUME NEW a, NEW b
  PROVE  Append(<<a>>, b) = <<a, b>>
<1> DEFINE s == <<a>>
           u == <<a, b>>
           S == {a, b}
<1>0. s \in Seq(S) /\ Len(s) = 1 /\ s[1] = a /\ b \in S
  OBVIOUS
<1>2. u \in Seq(S) /\ Len(u) = 2 /\ u[1] = a /\ u[2] = b
  OBVIOUS
<1> HIDE DEF s, u, S
<1>1. Append(s, b) \in Seq(S) /\ Len(Append(s, b)) = 2 /\ Append(s, b)[1] = a /\ Append(s, b)[2] = b
  <2>1. Append(s, b) \in Seq(S) /\ Len(Append(s, b)) = Len(s) + 1
    BY ONLY <1>0, AppendProperties
  <2>2. Append(s, b)[1] = a
    BY ONLY <1>0, AppendProperties
  <2>3. Append(s, b)[Len(s) + 1] = b
    BY ONLY <1>0, AppendProperties
  <2> QED BY <1>0, <2>1, <2>2, <2>3
<1>3. \A i \in 1 .. Len(u) : Append(s, b)[i] = u[i]
  BY <1>1, <1>2
<1>4. Append(s, b) = u
  BY <1>1, <1>2, <1>3, SeqEqual
<1> QED BY <1>4 DEF s, u

(* Where the document is, and what it is wrapped in: nothing is ever garbled.   *)
Wrapped ==
  /\ at \in {"config", "refused", "rendered", "holder", "encoded", "browser", "posted", "portal"}
  /\ layers = IF at = "encoded" THEN <<"percent">>
              ELSE IF at = "browser" THEN <<"percent", "html">>
              ELSE IF at = "posted" THEN <<"percent", "form">> ELSE <<>>

LEMMA WrappedStays ==
  ASSUME Wrapped, [Next]_vars
  PROVE  Wrapped'
<1>1. CASE SignInForm
  <2>1. layers = <<"percent">> /\ layers' = Append(layers, "form") /\ at' = "posted"
    BY <1>1 DEF SignInForm, Wrapped
  <2>2. Append(<<"percent">>, "form") = <<"percent", "form">>
    BY Pair
  <2>3. layers' = <<"percent", "form">>
    BY <2>1, <2>2
  <2> QED BY <2>1, <2>3 DEF Wrapped
<1>2. CASE SignInFormHTML
  <2>1. layers = <<"percent">> /\ layers' = Append(layers, "html") /\ at' = "browser"
    BY <1>2 DEF SignInFormHTML, Wrapped
  <2>2. Append(<<"percent">>, "html") = <<"percent", "html">>
    BY Pair
  <2>3. layers' = <<"percent", "html">>
    BY <2>1, <2>2
  <2> QED BY <2>1, <2>3 DEF Wrapped
<1>3. CASE Browse
  <2>1. layers = <<"percent", "html">> /\ layers' = [layers EXCEPT ![Len(layers)] = "form"] /\ at' = "posted"
    BY <1>3 DEF Browse, Wrapped
  <2>2. layers' = <<"percent", "form">>
    BY <2>1
  <2> QED BY <2>1, <2>2 DEF Wrapped
<1>4. CASE Deliver
  BY <1>4 DEF Deliver, Wrapped
<1>5. CASE Generate \/ (\E signer \in Signers : SignDocument(signer)) \/ Encode \/ Alter \/ UNCHANGED vars
  BY <1>5 DEF Generate, SignDocument, Encode, Alter, vars, Wrapped
<1> QED BY <1>1, <1>2, <1>3, <1>4, <1>5 DEF Next

(* The page.                                                                    *)
PageOK ==
  /\ DOMAIN page \subseteq Parts
  /\ \A part \in DOMAIN page : page[part] \in [text : Texts, escaped : BOOLEAN]

LEMMA Escaped ==
  ASSUME NEW t \in Texts
  PROVE  /\ escapeText(t) \in [text : Texts, escaped : BOOLEAN]
         /\ escapeAttr(t) \in [text : Texts, escaped : BOOLEAN]
  BY DEF escapeText, escapeAttr

LEMMA RenderedIs ==
  ASSUME NEW c \in ConfigSet
  PROVE  /\ DOMAIN renderAssertion(c) = {"Issuer", "Recipient", "Audience"} \cup attributesOf(c)
         /\ attributesOf(c) \subseteq Attributes
         /\ renderAssertion(c)["Recipient"] = escapeAttr(c.ClientURL)
         /\ renderAssertion(c)["Issuer"] = escapeText(c.ClientURL)
         /\ renderAssertion(c)["Audience"] = escapeText(c.ClientURL)
         /\ \A name \in attributesOf(c) : renderAssertion(c)[name] = escapeText(c[name]) /\ c[name] \in Texts
<1>1. attributesOf(c) \subseteq Attributes
  BY DEF attributesOf, Attributes
<1>2. \A name \in attributesOf(c) : c[name] \in Texts
  BY DEF attributesOf, ConfigSet, Texts
<1> QED BY <1>1, <1>2 DEF renderAssertion, Attributes

LEMMA PageStays ==
  ASSUME PageOK, EnvelopeOK, config \in Configs \cup {None}, at = "config" => config # None, [Next]_vars
  PROVE  PageOK'
<1>1. CASE Generate
  <2>1. CASE page' = renderAssertion(config)
    <3>1. config \in ConfigSet
      BY <1>1, SignInAssumption DEF Generate
    <3>2. config.ClientURL \in Texts
      BY <3>1 DEF ConfigSet
    <3>3. /\ DOMAIN page' = {"Issuer", "Recipient", "Audience"} \cup attributesOf(config)
          /\ attributesOf(config) \subseteq Attributes
      BY <2>1, <3>1, RenderedIs
    <3>4. ASSUME NEW part \in {"Issuer", "Recipient", "Audience"}
          PROVE  renderAssertion(config)[part] \in [text : Texts, escaped : BOOLEAN]
      BY <3>1, <3>2, RenderedIs, Escaped
    <3>5. ASSUME NEW part \in attributesOf(config)
          PROVE  renderAssertion(config)[part] \in [text : Texts, escaped : BOOLEAN]
      <4>1. renderAssertion(config)[part] = escapeText(config[part])
        BY <3>1, RenderedIs
      <4>2. config[part] \in Texts
        BY <3>1, RenderedIs
      <4> QED BY <4>1, <4>2, Escaped
    <3> QED BY <2>1, <3>3, <3>4, <3>5 DEF PageOK, Parts
  <2> QED BY <1>1, <2>1 DEF Generate, PageOK
<1>2. CASE Encode
  <2>1. ASSUME NEW part \in DOMAIN page
        PROVE  [page[part] EXCEPT !.text = dropped(@)] \in [text : Texts, escaped : BOOLEAN]
    BY <2>1 DEF PageOK, dropped, Texts
  <2> QED BY <1>2, <2>1 DEF Encode, PageOK
<1>3. CASE AlterContent
  <2>1. ASSUME NEW part \in DOMAIN page, NEW text \in Edits, page' = [page EXCEPT ![part] = escapeText(text)]
        PROVE  PageOK'
    <3>1. escapeText(text) \in [text : Texts, escaped : BOOLEAN]
      BY Escaped, SignInAssumption
    <3> QED BY <2>1, <3>1 DEF PageOK
  <2> QED BY <1>3, <2>1 DEF AlterContent, PageOK
<1>4. CASE UNCHANGED page
  BY <1>4 DEF PageOK
<1> QED BY <1>1, <1>2, <1>3, <1>4, SignStep, AlterStep
     DEF Next, vars, SignInForm, SignInFormHTML, Browse, Deliver, Alter

Bounded ==
  /\ config \in Configs \cup {None} /\ altered \in Nat
  /\ at = "config" => config # None
  /\ envelope.form \in Forms /\ envelope.scope \in Scopes
  /\ Len(envelope.signatures) <= MaxSigned

LEMMA BoundedStays ==
  ASSUME EnvelopeOK, Bounded, [Next]_vars
  PROVE  Bounded'
<1>1. UNCHANGED config /\ altered' \in Nat /\ (at' = "config" => at = "config")
  BY DEF Bounded, Next, vars, Generate, SignDocument, Encode, SignInForm, SignInFormHTML,
         Browse, Deliver, Alter
<1>2. CASE UNCHANGED envelope
  BY <1>1, <1>2 DEF Bounded
<1>3. CASE \E signer \in Signers : SignDocument(signer)
  <2> PICK signer \in Signers : SignDocument(signer)
    BY <1>3
  <2>1. CASE envelope' = [envelope EXCEPT !.signatures = Append(@, NewBlock(signer))]
    <3>1. PICK b : envelope' = [envelope EXCEPT !.signatures = Append(@, b)]
      BY <2>1
    <3>2. /\ envelope'.form = envelope.form /\ envelope'.scope = envelope.scope
          /\ envelope'.signatures = Append(envelope.signatures, b)
      BY <3>1 DEF EnvelopeOK
    <3>3. Len(envelope'.signatures) = Len(envelope.signatures) + 1 /\ Len(envelope.signatures) \in Nat
      BY <3>2, Appended DEF EnvelopeOK
    <3>4. Len(envelope.signatures) < MaxSigned
      BY DEF SignDocument
    <3> QED BY <1>1, <3>2, <3>3, <3>4, SignInAssumption DEF Bounded
  <2> QED BY <1>2, <1>3, <2>1, SignStep
<1>4. CASE AlterSignature
  <2>1. envelope'.form = envelope.form /\ envelope'.scope = envelope.scope
    BY <1>4, AlterStep
  <2>2. ASSUME NEW i \in DOMAIN envelope.signatures, NEW s,
               envelope'.signatures = [envelope.signatures EXCEPT ![i] = s]
        PROVE  Len(envelope'.signatures) = Len(envelope.signatures)
    <3>1. envelope.signatures \in Seq({envelope.signatures[j] : j \in DOMAIN envelope.signatures})
      BY DEF EnvelopeOK, isSequence
    <3> QED BY <2>2, <3>1
  <2>3. ASSUME NEW i \in DOMAIN envelope.signatures,
               envelope'.signatures = SubSeq(envelope.signatures, 1, i - 1)
                                        \o SubSeq(envelope.signatures, i + 1, Len(envelope.signatures))
        PROVE  Len(envelope'.signatures) <= MaxSigned
    <3>1. /\ Len(envelope'.signatures) \in Nat
          /\ Len(envelope'.signatures) < Len(envelope.signatures)
      BY <2>3, Remaining DEF EnvelopeOK
    <3>2. Len(envelope.signatures) \in Nat
      BY Appended DEF EnvelopeOK
    <3> QED BY <3>1, <3>2, SignInAssumption DEF Bounded
  <2>4. Len(envelope'.signatures) <= MaxSigned
    BY <1>4, <2>2, <2>3, AlterStep DEF Bounded
  <2> QED BY <1>1, <2>1, <2>4 DEF Bounded
<1>5. CASE AlterContent
  <2>1. ASSUME NEW scope \in Scopes, envelope' = [envelope EXCEPT !.scope = scope]
        PROVE  Bounded'
    BY <1>1, <2>1 DEF Bounded, EnvelopeOK
  <2> QED BY <1>2, <1>5, <2>1 DEF AlterContent
<1> QED BY <1>2, <1>3, <1>4, <1>5
     DEF Next, vars, Generate, Encode, SignInForm, SignInFormHTML, Browse, Deliver, Alter

Records == \A done \in signings : recorded(done)

LEMMA RecordsStay ==
  ASSUME EnvelopeOK, Records, [Next]_vars
  PROVE  Records'
<1>1. CASE UNCHANGED signings
  BY <1>1 DEF Records
<1>2. ASSUME NEW signer \in Signers, SignDocument(signer)
      PROVE  Records'
  <2>1. CASE signings' = signings
    BY <2>1 DEF Records
  <2>2. CASE /\ signings' = signings \cup {signing(signer)}
             /\ signing(signer) = [key |-> signer.key, content |-> contentOf(seen("Go")),
                                   value |-> NewBlock(signer).value, own |-> First = NewInfo]
             /\ signer.key # None
    <3> DEFINE done == signing(signer)
    <3>1. NewBlock(signer).value.key = signer.key /\ NewBlock(signer).value.info = First
      BY DEF NewBlock, block, sealed
    <3>2. /\ done.key = signer.key /\ done.content = contentOf(seen("Go"))
          /\ done.value = NewBlock(signer).value /\ done.own = (First = NewInfo)
      BY <2>2
    <3>3. digested(NewInfo.reference.digest) = contentOf(seen("Go"))
      BY DEF NewInfo, Now, signedInfo, digestOf, digested, contentOf
    <3>4. signer.key \in Keys
      BY <1>2, <2>2, SignInAssumption
    <3> HIDE DEF done
    <3>5. recorded(done)
      BY <3>1, <3>2, <3>3, <3>4 DEF recorded
    <3> QED BY <2>2, <3>5 DEF Records, done
  <2> QED BY <1>2, <2>1, <2>2, SignStep
<1>3. CASE Generate \/ Encode \/ SignInForm \/ SignInFormHTML \/ Browse \/ Deliver \/ Alter \/ UNCHANGED vars
  BY <1>1, <1>3 DEF Generate, Encode, SignInForm, SignInFormHTML, Browse, Deliver, Alter, vars
<1> QED BY <1>2, <1>3 DEF Next

LEMMA RecordsInit == Init => Records
<1> SUFFICES ASSUME Init PROVE Records
  OBVIOUS
<1>1. CASE signings = {}
  BY <1>1 DEF Records
<1>2. CASE \E held \in Held : signings = held.signings
  BY <1>2, HeldAssumption DEF Records
<1> QED BY <1>1, <1>2 DEF Init

Typed == EnvelopeOK /\ Bounded /\ PageOK /\ Wrapped /\ Records

LEMMA TypedInit == Init => Typed
<1> SUFFICES ASSUME Init PROVE Typed
  OBVIOUS
<1>1. Wrapped /\ altered \in Nat
  BY DEF Init, Wrapped
<1>2. CASE /\ config \in Configs /\ page = [part \in {} |-> None]
           /\ envelope = [form |-> "closed", scope |-> "saml", signatures |-> <<>>]
  <2>1. Len(envelope.signatures) <= MaxSigned
    BY <1>2, SignInAssumption
  <2> QED BY <1>1, <1>2, <2>1, EnvelopeInit, RecordsInit, SignInAssumption DEF Typed, Bounded, PageOK, Forms, Scopes
<1>3. CASE /\ config = None /\ at = "holder"
           /\ \E held \in Held :
                /\ page = held.page
                /\ envelope = [form |-> held.form, scope |-> held.scope, signatures |-> held.signatures]
  <2>1. PICK held \in Held :
          /\ page = held.page
          /\ envelope = [form |-> held.form, scope |-> held.scope, signatures |-> held.signatures]
    BY <1>3
  <2>2. /\ held.form \in Forms /\ held.scope \in Scopes /\ DOMAIN held.page \subseteq Parts
        /\ \A part \in DOMAIN held.page : held.page[part] \in [text : Texts, escaped : BOOLEAN]
        /\ Len(held.signatures) <= MaxSigned
    BY HeldAssumption
  <2> QED BY <1>1, <1>3, <2>1, <2>2, EnvelopeInit, RecordsInit DEF Typed, Bounded, PageOK
<1> QED BY <1>2, <1>3 DEF Init

LEMMA TypedNext == Typed /\ [Next]_vars => Typed'
  BY EnvelopeNext, BoundedStays, PageStays, WrappedStays, RecordsStay DEF Typed, Bounded

(* The variables keep their types, for any configurations, keystores and        *)
(* documents that are held, and the document is wrapped in encodings exactly    *)
(* while it is on its way (urlencode.go, signin.go).                            *)
THEOREM TypeCorrect == Spec => []TypeOK
<1>1. Typed => TypeOK
  BY DEF Typed, Bounded, PageOK, Wrapped, Records, TypeOK
<1> QED BY TypedInit, TypedNext, <1>1, PTL DEF Spec
-------------------------------------------------------------------------------
(* Every signature value is one that is on record: whatever is put where, only  *)
(* the holder of a key makes a value with it.                                   *)
Honest == \A i \in DOMAIN envelope.signatures : genuine(envelope.signatures[i], signings)

(* So it stays when one thing in a signature is changed.                        *)
LEMMA GenuineStays ==
  ASSUME NEW s, genuine(s, signings), NEW t \in changed(s)
  PROVE  genuine(t, signings)
<1>1. s = [dsig |-> s.dsig, info |-> s.info, value |-> s.value, certificate |-> s.certificate]
  BY DEF genuine
<1>2. ASSUME NEW v, t = [s EXCEPT !.value = v], v = Garbage \/ \E done \in signings : v = done.value
      PROVE  genuine(t, signings)
  <2>1. t = [dsig |-> s.dsig, info |-> s.info, value |-> v, certificate |-> s.certificate]
    BY <1>1, <1>2
  <2>2. t.dsig = s.dsig /\ t.info = s.info /\ t.value = v /\ t.certificate = s.certificate
    BY <2>1
  <2> QED BY <1>2, <2>1, <2>2 DEF genuine
<1>3. ASSUME NEW c, t = [s EXCEPT !.certificate = c]
      PROVE  genuine(t, signings)
  <2>1. t = [dsig |-> s.dsig, info |-> s.info, value |-> s.value, certificate |-> c]
    BY <1>1, <1>3
  <2>2. t.dsig = s.dsig /\ t.info = s.info /\ t.value = s.value /\ t.certificate = c
    BY <2>1
  <2> QED BY <2>1, <2>2 DEF genuine
<1>4. ASSUME NEW i, t = [s EXCEPT !.info = i]
      PROVE  genuine(t, signings)
  <2>1. t = [dsig |-> s.dsig, info |-> i, value |-> s.value, certificate |-> s.certificate]
    BY <1>1, <1>4
  <2>2. t.dsig = s.dsig /\ t.info = i /\ t.value = s.value /\ t.certificate = s.certificate
    BY <2>1
  <2> QED BY <2>1, <2>2 DEF genuine
<1>5. CASE t \in damaged(s)
  <2>1. \/ t = [s EXCEPT !.value = Garbage]
        \/ \E c : t = [s EXCEPT !.certificate = c]
        \/ \E i : t = [s EXCEPT !.info = i]
    <3>1. CASE t \in {[s EXCEPT !.value = Garbage]}
      BY <3>1
    <3>2. CASE t \in {[s EXCEPT !.certificate = c] : c \in {NotRSA, Garbage, None}}
      BY <3>2
    <3>3. CASE s.info # None /\ t \in {[s EXCEPT !.info = i] : i \in damagedInfo(s.info)}
      BY <3>3
    <3> QED BY <1>5, <3>1, <3>2, <3>3 DEF damaged
  <2> QED BY <1>2, <1>3, <1>4, <2>1
<1>6. CASE t \in reworked(s)
  <2>1. \/ \E done \in signings : t = [s EXCEPT !.value = done.value]
        \/ \E c : t = [s EXCEPT !.certificate = c]
        \/ \E i : t = [s EXCEPT !.info = i]
    <3>1. CASE t \in {[s EXCEPT !.value = done.value] : done \in signings}
      BY <3>1
    <3>2. CASE t \in {[s EXCEPT !.certificate = c] : c \in Keys}
      BY <3>2
    <3>3. CASE t \in {[s EXCEPT !.info = done.value.info] : done \in signings}
      BY <3>3
    <3>4. CASE t \in {[s EXCEPT !.info = signedInfo("rsa_sha1", "sha1", digestOf("sha1", seen("Go")))]}
      BY <3>4
    <3> QED BY <1>6, <3>1, <3>2, <3>3, <3>4 DEF reworked
  <2> QED BY <1>2, <1>3, <1>4, <2>1
<1> QED BY <1>5, <1>6 DEF changed

LEMMA HonestSign ==
  ASSUME Honest, EnvelopeOK, NEW signer, SignDocument(signer)
  PROVE  Honest'
<1> DEFINE s == envelope.signatures
           b == NewBlock(signer)
           t == Append(s, b)
           n == Len(s)
<1>1. CASE envelope' = envelope /\ signings' = signings
  BY <1>1 DEF Honest
<1>2. CASE /\ envelope' = [envelope EXCEPT !.signatures = t]
           /\ signings' = signings \cup {signing(signer)}
           /\ signing(signer) = [key |-> signer.key, content |-> contentOf(seen("Go")),
                                 value |-> b.value, own |-> First = NewInfo]
  <2>1. /\ n \in Nat /\ DOMAIN s = 1 .. n /\ DOMAIN t = 1 .. n + 1
        /\ (\A i \in 1 .. n : t[i] = s[i]) /\ t[n + 1] = b
    <3> HIDE DEF b
    <3> QED BY Appended DEF EnvelopeOK
  <2>2. envelope'.signatures = t
    BY <1>2 DEF EnvelopeOK
  <2>3. genuine(b, signings')
    <3>1. b = [dsig |-> b.dsig, info |-> b.info, value |-> b.value, certificate |-> b.certificate]
      BY DEF NewBlock, block
    <3> HIDE DEF b
    <3>2. signing(signer).value = b.value /\ signing(signer) \in signings'
      BY <1>2
    <3> QED BY <3>1, <3>2 DEF genuine
  <2>4. \A x : genuine(x, signings) => genuine(x, signings')
    BY <1>2 DEF genuine
  <2>5. \A i \in 1 .. n : genuine(s[i], signings)
    BY <2>1 DEF Honest
  <2> HIDE DEF s, t, b, n
  <2>6. \A i \in DOMAIN t : genuine(t[i], signings')
    BY <2>1, <2>3, <2>4, <2>5
  <2> QED BY <2>2, <2>6 DEF Honest
<1> QED BY <1>1, <1>2, SignStep

LEMMA HonestAlter ==
  ASSUME Honest, EnvelopeOK, Alter
  PROVE  Honest'
<1> DEFINE s == envelope.signatures
<1>1. signings' = signings
  BY DEF Alter
<1>2. CASE envelope'.signatures = s
  BY <1>1, <1>2 DEF Honest
<1>3. ASSUME NEW i \in DOMAIN s, NEW x \in changed(s[i]), envelope'.signatures = [s EXCEPT ![i] = x]
      PROVE  Honest'
  <2>1. genuine(x, signings)
    BY GenuineStays DEF Honest
  <2>2. \A j \in DOMAIN s : genuine(s[j], signings)
    BY DEF Honest
  <2> HIDE DEF s
  <2>3. \A j \in DOMAIN [s EXCEPT ![i] = x] : genuine([s EXCEPT ![i] = x][j], signings)
    BY <2>1, <2>2
  <2> QED BY <1>1, <1>3, <2>3 DEF Honest
<1>4. ASSUME NEW i \in DOMAIN s, envelope'.signatures = SubSeq(s, 1, i - 1) \o SubSeq(s, i + 1, Len(s))
      PROVE  Honest'
  <2> DEFINE t == SubSeq(s, 1, i - 1) \o SubSeq(s, i + 1, Len(s))
  <2>1. isSequence(s) /\ \A j \in DOMAIN s : genuine(s[j], signings)
    BY DEF EnvelopeOK, Honest
  <2> HIDE DEF s
  <2>2. \A j \in DOMAIN t : \E k \in DOMAIN s : t[j] = s[k]
    BY <2>1, Remaining
  <2>3. envelope'.signatures = t
    BY <1>4
  <2> HIDE DEF t
  <2> QED BY <1>1, <2>1, <2>2, <2>3 DEF Honest
<1>5. CASE AlterContent
  <2>1. envelope'.signatures = s
    BY <1>5 DEF AlterContent, EnvelopeOK
  <2> QED BY <1>2, <2>1
<1>6. CASE AlterSignature
  BY <1>3, <1>4, <1>6, AlterStep
<1> QED BY <1>5, <1>6 DEF Alter

LEMMA HonestNext ==
  ASSUME Honest, EnvelopeOK, [Next]_vars
  PROVE  Honest'
<1>1. CASE UNCHANGED <<envelope, signings>>
  BY <1>1 DEF Honest
<1>2. CASE Generate \/ Encode \/ SignInForm \/ SignInFormHTML \/ Browse \/ Deliver \/ UNCHANGED vars
  BY <1>1, <1>2 DEF Generate, Encode, SignInForm, SignInFormHTML, Browse, Deliver, vars
<1> QED BY <1>2, HonestSign, HonestAlter DEF Next

LEMMA HonestInit == Init => Honest
<1> SUFFICES ASSUME Init PROVE Honest
  OBVIOUS
<1>1. CASE envelope = [form |-> "closed", scope |-> "saml", signatures |-> <<>>]
  BY <1>1 DEF Honest
<1>2. CASE \E held \in Held :
             /\ envelope = [form |-> held.form, scope |-> held.scope, signatures |-> held.signatures]
             /\ signings = held.signings
  <2>1. PICK held \in Held :
          /\ envelope = [form |-> held.form, scope |-> held.scope, signatures |-> held.signatures]
          /\ signings = held.signings
    BY <1>2
  <2>2. \A i \in DOMAIN held.signatures : genuine(held.signatures[i], held.signings)
    BY HeldAssumption
  <2>3. envelope.signatures = held.signatures
    BY <2>1
  <2> QED BY <2>1, <2>2, <2>3 DEF Honest
<1> QED BY <1>1, <1>2 DEF Init

(* A reader that finds the document verified finds a value on record, whose     *)
(* SignedInfo is about the content read.                                        *)
LEMMA VerifiedIsSigned ==
  ASSUME Honest, Typed, NEW reader, Verify(seen(reader)) = "nil"
  PROVE  \E done \in signings :
           /\ done.key = reported(seen(reader)) /\ done.value = findSignature(seen(reader)).value
           /\ done.own => done.content = contentOf(seen(reader))
<1> DEFINE doc == seen(reader)
           s == envelope.signatures
           found == {i \in DOMAIN s : s[i].dsig}
           sig == findSignature(doc)
<1>1. doc.signatures = s
  BY DEF seen
<1> HIDE DEF doc
<1>2. sig # None /\ signatureError(sig, doc) = "nil"
  BY DEF Verify, doc
<1>3. PICK k \in found : sig = s[k]
  <2>1. found # {} /\ sig = s[CHOOSE i \in found : \A j \in found : i <= j]
    BY <1>1, <1>2 DEF findSignature
  <2>2. found \subseteq Nat
    BY Appended DEF Typed, EnvelopeOK
  <2>3. \E i \in found : \A j \in found : i <= j
    <3> HIDE DEF found
    <3> QED BY <2>1, <2>2, LeastIndex
  <2> HIDE DEF found, sig, s
  <2> QED BY <2>1, <2>3
<1>4. sig.dsig /\ genuine(sig, signings)
  BY <1>3 DEF Honest
<1> HIDE DEF sig
<1>5. /\ sig.info # None
      /\ referenceError(sig.info.reference, doc) = "nil"
      /\ valueError(sig, doc) = "nil"
  BY <1>2 DEF signatureError
<1>6. sig.info.reference.digest = digestOf(digestHash[sig.info.reference.method], doc)
  BY <1>5 DEF referenceError
<1>7. /\ sig.value # Garbage
      /\ sig.value = sealed(sig.certificate, signatureHash[sig.info.method], sig.info, doc)
  BY <1>5 DEF valueError
<1>8. sig.value.info = sig.info /\ sig.value.key = sig.certificate
  BY <1>7 DEF sealed
<1>9. PICK done \in signings : done.value = sig.value
  BY <1>4, <1>7 DEF genuine
<1>10. recorded(done)
  BY DEF Typed, Records
<1>11. digested(sig.info.reference.digest) = contentOf(doc)
  BY <1>6 DEF digestOf, digested, contentOf
<1>12. done.key = sig.certificate /\ (done.own => done.content = contentOf(doc))
  BY <1>8, <1>9, <1>10, <1>11 DEF recorded
<1> QED BY <1>9, <1>12 DEF reported, sig, doc

(* However often a document is signed and altered, by whomever, with whatever   *)
(* keys, documents and parsers, and wherever parts of signatures are put: the   *)
(* value that verifies was made by the holder of the certificate's key, and     *)
(* the content is what they signed, but where Sign put the value over another   *)
(* SignedInfo than its own (verify.go:48, sign.go:84).                          *)
THEOREM VerifiedWasSigned == Spec => []AcceptedIsSigned
<1>1. Init => Typed /\ Honest
  BY TypedInit, HonestInit
<1>2. Typed /\ Honest /\ [Next]_vars => (Typed /\ Honest)'
  BY TypedNext, HonestNext DEF Typed
<1>3. Typed /\ Honest => AcceptedIsSigned
  BY VerifiedIsSigned DEF AcceptedIsSigned
<1> QED BY <1>1, <1>2, <1>3, PTL DEF Spec
-------------------------------------------------------------------------------
(* None and Garbage are none of the things that can be there, or be read.       *)
Absent ==
  /\ \A info, value, certificate : block(info, value, certificate) # None
  /\ \A method, hash, digest :
       signedInfo(method, hash, digest) # None /\ signedInfo(method, hash, digest).reference # None
  /\ \A hash, doc : digestOf(hash, doc) # Garbage
  /\ \A key, hash, info, doc : sealed(key, hash, info, doc) # Garbage

(* A signature that a key's holder made over a content, whatever certificate    *)
(* stands beside it.                                                            *)
Made(s, key, content) ==
  \E method \in DOMAIN signatureHash, hash \in DOMAIN digestHash :
    LET info == signedInfo(method, hash, digestOf(digestHash[hash], content))
    IN  s = block(info, sealed(key, signatureHash[method], info, content), s.certificate)

(* It verifies where it is the only one, in that content, with that key's       *)
(* certificate: what Verify digests and unseals is what Sign digested and       *)
(* sealed.                                                                      *)
LEMMA MadeVerifies ==
  ASSUME Absent, NEW doc, doc.form = "closed",
         DOMAIN doc.signatures = {1}, NEW s, doc.signatures[1] = s,
         NEW content, content.body = doc.body, content.scope = doc.scope, content.signatures = <<>>,
         s.certificate \in Keys, Made(s, s.certificate, content)
  PROVE  Verify(doc) = "nil" /\ reported(doc) = s.certificate
<1>1. PICK method \in DOMAIN signatureHash, hash \in DOMAIN digestHash :
        LET info == signedInfo(method, hash, digestOf(digestHash[hash], content))
        IN  s = block(info, sealed(s.certificate, signatureHash[method], info, content), s.certificate)
  BY DEF Made
<1> DEFINE digest == digestOf(digestHash[hash], content)
           info == signedInfo(method, hash, digest)
           value == sealed(s.certificate, signatureHash[method], info, content)
<1>2. s = block(info, value, s.certificate)
  BY <1>1
<1>3. s.dsig = TRUE /\ s.info = info /\ s.value = value /\ s # None
  <2> HIDE DEF info, value
  <2> QED BY <1>2 DEF block, Absent
<1>4. findSignature(doc) = s
  BY <1>3 DEF findSignature
<1>5. kept(doc.signatures) = {} /\ kept(content.signatures) = {}
  BY <1>3 DEF kept
<1>6. \A h : digestOf(h, doc) = digestOf(h, content)
  BY <1>5 DEF digestOf
<1>7. \A k, h, i : sealed(k, h, i, doc) = sealed(k, h, i, content)
  BY DEF sealed
<1>8. /\ info # None /\ info.reference # None /\ info.c14n = TRUE /\ info.method = method
      /\ info.reference.uri = "" /\ info.reference.transform = "enveloped"
      /\ info.reference.method = hash /\ info.reference.digest = digest
  <2> HIDE DEF digest
  <2> QED BY DEF signedInfo, Absent
<1>9. digest # Garbage /\ value # Garbage
  <2> HIDE DEF info
  <2> QED BY DEF Absent
<1>10. digest = digestOf(digestHash[hash], doc) /\ value = sealed(s.certificate, signatureHash[method], info, doc)
  <2> HIDE DEF info
  <2> QED BY <1>6, <1>7
<1> HIDE DEF digest, info, value
<1>11. referenceError(info.reference, doc) = "nil"
  BY <1>8, <1>9, <1>10 DEF referenceError
<1>12. valueError(s, doc) = "nil"
  BY <1>3, <1>8, <1>9, <1>10, SignatureAssumption DEF valueError
<1>13. signatureError(s, doc) = "nil"
  BY <1>3, <1>8, <1>11, <1>12 DEF signatureError
<1> QED BY <1>3, <1>4, <1>13 DEF Verify, reported

(* What was rendered, and what was signed of it.                                *)
Rendered == IF config = None THEN page ELSE renderAssertion(config)

Content == [body |-> asRead("Go", Rendered), scope |-> envelope.scope, signatures |-> <<>>]

(* While nobody altered the document: it is what was rendered, less the runes   *)
(* urlEncode dropped once it is encoded; and a signature that is alone was made *)
(* over what was rendered, with the key that is on record.                      *)
Assertion ==
  altered = 0 /\ config # None =>
    /\ at \in {"rendered", "holder"} => page = renderAssertion(config)
    /\ at \in {"encoded", "browser", "posted", "portal"} =>
         page = [part \in DOMAIN renderAssertion(config) |->
                  [renderAssertion(config)[part] EXCEPT !.text = dropped(@)]]

Keyed(s, signed, content) ==
  \E key \in Keys :
    Made(s, key, content) /\ ((\E done \in signed : done.key = s.certificate) => key = s.certificate)

Sole ==
  altered = 0 =>
    /\ Len(envelope.signatures) = 0 => signings = {}
    /\ Len(envelope.signatures) = 1 /\ signings # {} =>
         /\ envelope.form = "closed"
         /\ \A part \in DOMAIN Rendered : Content.body[part] # "malformed"
         /\ Keyed(envelope.signatures[1], signings, Content)

LEMMA AssertionNext ==
  ASSUME Typed, Assertion, [Next]_vars
  PROVE  Assertion'
<1>1. CASE UNCHANGED <<page, config, altered>> /\ (at' = at \/ at' = "refused"
              \/ ({at, at'} \subseteq {"rendered", "holder"})
              \/ ({at, at'} \subseteq {"encoded", "browser", "posted", "portal"}))
  BY <1>1 DEF Assertion
<1>2. CASE Generate
  BY <1>2 DEF Generate, Assertion
<1>3. CASE Encode
  BY <1>3 DEF Encode, Assertion
<1>4. CASE Alter
  BY <1>4 DEF Alter, Assertion, Typed, Bounded
<1>5. CASE Deliver
  BY <1>1, <1>5 DEF Deliver, Typed, Wrapped
<1>6. CASE \E signer \in Signers : SignDocument(signer)
  BY <1>1, <1>6 DEF SignDocument
<1>7. CASE SignInForm \/ SignInFormHTML \/ Browse \/ UNCHANGED vars
  BY <1>1, <1>7 DEF SignInForm, SignInFormHTML, Browse, vars
<1> QED BY <1>2, <1>3, <1>4, <1>5, <1>6, <1>7 DEF Next

LEMMA SoleSign ==
  ASSUME Typed, Assertion, Sole, NEW signer \in Signers, SignDocument(signer)
  PROVE  Sole'
<1> DEFINE s == envelope.signatures
           t == Append(s, NewBlock(signer))
           n == Len(s)
<1>0. UNCHANGED <<config, altered, page>>
  BY DEF SignDocument
<1>1. CASE envelope' = envelope /\ signings' = signings
  BY <1>0, <1>1 DEF Sole, Rendered, Content, asRead, partAs
<1>2. CASE /\ envelope' = [envelope EXCEPT !.signatures = t]
           /\ signings' = signings \cup {signing(signer)}
           /\ signing(signer) = [key |-> signer.key, content |-> contentOf(seen("Go")),
                                 value |-> NewBlock(signer).value, own |-> First = NewInfo]
           /\ signer.key # None
           /\ seen("Go").form \notin {"unparsable", "rootless", "unclosed"}
  <2>1. SUFFICES ASSUME altered = 0
                 PROVE  Sole'
    BY <1>0 DEF Sole
  <2>2. n \in Nat /\ Len(t) = n + 1 /\ (n = 0 => t[1] = NewBlock(signer) /\ s = <<>>)
    <3>1. s \in Seq({s[j] : j \in DOMAIN s})
      BY DEF Typed, EnvelopeOK, isSequence
    <3>2. n = 0 => s = <<>>
      <4> DEFINE S == {s[j] : j \in DOMAIN s}
      <4> HIDE DEF s, S
      <4> QED BY <3>1 DEF S
    <3> QED BY <3>2, Appended DEF Typed, EnvelopeOK
  <2>3. envelope'.signatures = t /\ envelope'.form = envelope.form /\ envelope'.scope = envelope.scope
    BY <1>2 DEF Typed, EnvelopeOK
  <2>4. CASE n # 0
    BY <2>2, <2>3, <2>4 DEF Sole
  <2>5. CASE n = 0
    <3>1. Rendered = page /\ at \in {"rendered", "holder"}
      BY <2>1 DEF Rendered, Assertion, SignDocument
    <3>2. Content' = Content /\ Rendered' = Rendered
      BY <1>0, <2>3 DEF Content, Rendered, asRead, partAs
    <3>3. seen("Go").body = Content.body /\ seen("Go").scope = Content.scope
          /\ seen("Go").signatures = <<>> /\ Content.signatures = <<>>
      BY <2>2, <2>5, <3>1 DEF seen, readBy, Content
    <3>4. Now = digestOf("sha1", Content)
      BY <3>3 DEF Now, digestOf
    <3>5. First = NewInfo
      <4>1. Append(s, block(NewInfo, None, None))[1] = block(NewInfo, None, None)
        BY <2>5, Appended DEF Typed, EnvelopeOK
      <4> QED BY <4>1 DEF First, block
    <3>6. NewBlock(signer) = block(NewInfo, sealed(signer.key, "sha1", NewInfo, Content), signer.certificate)
      BY <3>3, <3>5 DEF NewBlock, sealed
    <3>7. Made(NewBlock(signer), signer.key, Content)
      <4>1. NewBlock(signer).certificate = signer.certificate
        BY <3>6 DEF block
      <4>2. "rsa_sha1" \in DOMAIN signatureHash /\ signatureHash["rsa_sha1"] = "sha1"
            /\ "sha1" \in DOMAIN digestHash /\ digestHash["sha1"] = "sha1"
        BY DEF signatureHash, digestHash
      <4>3. NewInfo = signedInfo("rsa_sha1", "sha1", digestOf(digestHash["sha1"], Content))
        BY <3>4, <4>2 DEF NewInfo
      <4> QED BY <3>6, <4>1, <4>2, <4>3 DEF Made
    <3>8. signer.key \in Keys
      BY <1>2, SignInAssumption
    <3>9. signings' = {signing(signer)} /\ signing(signer).key = signer.key
      BY <1>2, <2>1, <2>5 DEF Sole
    <3>10. Keyed(NewBlock(signer), signings', Content)
      BY <3>7, <3>8, <3>9 DEF Keyed
    <3>11. /\ envelope.form = "closed"
           /\ \A part \in DOMAIN Rendered : Content.body[part] # "malformed"
      BY <1>2, <3>1 DEF seen, readBy, Content, asRead, Typed, Bounded, Forms
    <3>12. Keyed(envelope'.signatures[1], signings', Content')
      BY <2>2, <2>3, <2>5, <3>2, <3>10
    <3>13. /\ envelope'.form = "closed"
           /\ \A part \in DOMAIN Rendered' : Content'.body[part] # "malformed"
      BY <2>3, <3>2, <3>11
    <3>14. Len(envelope'.signatures) # 0
      BY <2>2, <2>3
    <3> HIDE DEF s, t, n
    <3> QED BY <3>12, <3>13, <3>14 DEF Sole
  <2> QED BY <2>4, <2>5
<1> QED BY <1>1, <1>2, SignStep DEF Typed

LEMMA SoleNext ==
  ASSUME Typed, Assertion, Sole, [Next]_vars
  PROVE  Sole'
<1>1. CASE UNCHANGED <<config, page, envelope, altered, signings>>
  BY <1>1 DEF Sole, Rendered, Content, asRead, partAs
<1>2. CASE UNCHANGED <<config, envelope, altered, signings>> /\ config # None
  BY <1>2 DEF Sole, Rendered, Content, asRead, partAs
<1>3. CASE Generate
  BY <1>2, <1>3 DEF Generate, Typed, Bounded
<1>4. CASE Encode
  BY <1>2, <1>4 DEF Encode
<1>5. CASE Alter
  BY <1>5 DEF Alter, Sole, Typed, Bounded
<1>6. CASE SignInForm \/ SignInFormHTML \/ Browse \/ Deliver \/ UNCHANGED vars
  BY <1>1, <1>6 DEF SignInForm, SignInFormHTML, Browse, Deliver, vars
<1> QED BY <1>3, <1>4, <1>5, <1>6, SoleSign DEF Next

LEMMA SoleInit == Init => Assertion /\ Sole
<1> SUFFICES ASSUME Init PROVE Assertion /\ Sole
  OBVIOUS
<1>1. CASE /\ at = "config" /\ signings = {}
           /\ envelope = [form |-> "closed", scope |-> "saml", signatures |-> <<>>]
  BY <1>1 DEF Assertion, Sole
<1>2. CASE /\ config = None
           /\ \E held \in Held :
                /\ page = held.page
                /\ envelope = [form |-> held.form, scope |-> held.scope, signatures |-> held.signatures]
                /\ signings = held.signings
  <2>1. PICK held \in Held :
          /\ page = held.page
          /\ envelope = [form |-> held.form, scope |-> held.scope, signatures |-> held.signatures]
          /\ signings = held.signings
    BY <1>2
  <2>2. /\ envelope.signatures = held.signatures /\ envelope.form = held.form /\ envelope.scope = held.scope
        /\ Rendered = held.page
        /\ Content = [body |-> asRead("Go", held.page), scope |-> held.scope, signatures |-> <<>>]
    BY <1>2, <2>1 DEF Rendered, Content
  <2>3. isSequence(held.signatures) /\ (held.signatures = <<>> => held.signings = {})
    BY HeldAssumption
  <2>4. Len(held.signatures) = 0 => signings = {}
    <3> DEFINE t == held.signatures
               S == {t[j] : j \in DOMAIN t}
    <3>1. t \in Seq(S)
      BY <2>3 DEF isSequence
    <3> HIDE DEF S, t
    <3>2. Len(t) = 0 => t = <<>>
      BY <3>1
    <3> QED BY <2>1, <2>3, <3>2 DEF t
  <2>5. ASSUME Len(held.signatures) = 1, held.signings # {}
        PROVE  /\ held.form = "closed"
               /\ \A part \in DOMAIN asRead("Go", held.page) : asRead("Go", held.page)[part] # "malformed"
               /\ \E key \in Keys, method \in DOMAIN signatureHash, hash \in DOMAIN digestHash :
                    held.signatures[1] = signedAs(key, method, hash, Content)
    BY <2>2, <2>5, HeldAssumption
  <2>6. ASSUME Len(held.signatures) = 1, held.signings # {}
        PROVE  Keyed(held.signatures[1], signings, Content)
    <3>1. PICK key \in Keys, method \in DOMAIN signatureHash, hash \in DOMAIN digestHash :
            held.signatures[1] = signedAs(key, method, hash, Content)
      BY <2>5, <2>6
    <3> DEFINE info == signedInfo(method, hash, digestOf(digestHash[hash], Content))
               value == sealed(key, signatureHash[method], info, Content)
               first == held.signatures[1]
    <3>2. first = block(info, value, key)
      BY <3>1 DEF signedAs
    <3>3. first.certificate = key
      <4> HIDE DEF info, value
      <4> QED BY <3>2 DEF block
    <3>4. Made(first, key, Content)
      BY <3>2, <3>3 DEF Made
    <3> QED BY <3>3, <3>4 DEF Keyed
  <2> QED BY <1>2, <2>1, <2>2, <2>4, <2>5, <2>6 DEF Assertion, Sole, asRead
<1> QED BY <1>1, <1>2 DEF Init

LEMMA SoleVerifies ==
  ASSUME Absent, Typed, Assertion, Sole
  PROVE  SignedVerifies
<1> DEFINE s == envelope.signatures[1]
           doc == seen("Go")
<1>1. SUFFICES ASSUME lone, at = "holder", signedBy(s.certificate, contentOf(doc))
               PROVE  Verify(doc) = "nil" /\ reported(doc) = s.certificate
  BY DEF SignedVerifies
<1>2. Rendered = page
  BY <1>1 DEF lone, Rendered, Assertion
<1>3. /\ envelope.form = "closed"
      /\ \A part \in DOMAIN Rendered : Content.body[part] # "malformed"
      /\ Keyed(s, signings, Content)
  BY <1>1 DEF lone, Sole
<1>4. s.certificate \in Keys /\ Made(s, s.certificate, Content)
  <2>1. \E done \in signings : done.key = s.certificate
    BY <1>1 DEF signedBy
  <2> HIDE DEF s
  <2> QED BY <1>3, <2>1 DEF Keyed
<1>5. doc.form = "closed" /\ doc.signatures = envelope.signatures
      /\ doc.body = Content.body /\ doc.scope = Content.scope /\ Content.signatures = <<>>
  BY <1>2, <1>3 DEF seen, readBy, Content
<1>6. DOMAIN doc.signatures = {1} /\ doc.signatures[1] = s
  BY <1>1, <1>5, Appended DEF lone, Typed, EnvelopeOK
<1> HIDE DEF s, doc
<1> QED BY <1>4, <1>5, <1>6, MadeVerifies

(* A document signed once verifies as the certificate's whose key signed it,    *)
(* whatever configuration, keystore or held document it comes from              *)
(* (sign.go:47, verify.go:56): Sign and Verify digest the same content and      *)
(* canonicalize SignedInfo in the same place.                                   *)
THEOREM SignedDocumentsVerify ==
  ASSUME Absent
  PROVE  Spec => []SignedVerifies
<1>1. Init => Typed /\ Assertion /\ Sole
  BY TypedInit, SoleInit
<1>2. Typed /\ Assertion /\ Sole /\ [Next]_vars => (Typed /\ Assertion /\ Sole)'
  BY TypedNext, AssertionNext, SoleNext
<1>3. Typed /\ Assertion /\ Sole => SignedVerifies
  BY SoleVerifies
<1> QED BY <1>1, <1>2, <1>3, PTL DEF Spec
-------------------------------------------------------------------------------
(* Both parsers read in an assertion what was escaped, in elements and in the   *)
(* Recipient attribute.                                                         *)
LEMMA ReadAsRendered ==
  ASSUME NEW c \in ConfigSet, NEW part \in DOMAIN renderAssertion(c),
         partAs("Go", part, renderAssertion(c)[part]) # "malformed"
  PROVE  LET rendered == renderAssertion(c)[part]
         IN  /\ partAs("Java", part, rendered) = rendered.text
             /\ partAs("Go", part, rendered) = rendered.text
             /\ rendered.text = IF part \in {"Issuer", "Recipient", "Audience"} THEN c.ClientURL ELSE c[part]
<1> DEFINE rendered == renderAssertion(c)[part]
<1>1. part \in {"Issuer", "Recipient", "Audience"} \cup attributesOf(c)
      /\ attributesOf(c) \subseteq Attributes
  BY RenderedIs
<1>2. CASE part = "Recipient"
  <2>1. rendered = escapeAttr(c.ClientURL)
    BY <1>2, RenderedIs
  <2> HIDE DEF rendered
  <2>2. /\ rendered.text = c.ClientURL
        /\ rendered.escaped = (c.ClientURL \in {"markup", "quote", "linefeed", "return"})
    BY <2>1 DEF escapeAttr
  <2> QED BY <1>2, <2>2 DEF partAs, rendered
<1>3. CASE part # "Recipient"
  <2> DEFINE t == IF part \in {"Issuer", "Audience"} THEN c.ClientURL ELSE c[part]
  <2>1. rendered = escapeText(t)
    BY <1>1, <1>3, RenderedIs DEF Attributes
  <2> HIDE DEF rendered, t
  <2>2. rendered.text = t /\ rendered.escaped = (t \in {"markup", "return"})
    BY <2>1 DEF escapeText
  <2>3. partAs("Java", part, rendered) = t /\ partAs("Go", part, rendered) = t
    <3>1. partAs("Go", part, rendered) # "malformed"
      BY DEF rendered
    <3> QED BY <1>3, <2>2, <3>1 DEF partAs
  <2> QED BY <1>3, <2>2, <2>3 DEF rendered, t
<1> QED BY <1>2, <1>3

(* An assertion of which nothing was dropped is the one that was rendered.      *)
LEMMA NothingDropped ==
  ASSUME NEW c \in ConfigSet, NEW p,
         p = [part \in DOMAIN renderAssertion(c) |-> [renderAssertion(c)[part] EXCEPT !.text = dropped(@)]],
         \A part \in DOMAIN p : p[part].text # "dropped"
  PROVE  p = renderAssertion(c)
<1> DEFINE r == renderAssertion(c)
<1>1. r = [part \in DOMAIN r |-> r[part]]
  BY DEF renderAssertion
<1>2. \A part \in DOMAIN r : r[part] \in [text : Texts, escaped : BOOLEAN]
  <2>1. DOMAIN r = {"Issuer", "Recipient", "Audience"} \cup attributesOf(c)
    BY RenderedIs
  <2>2. c.ClientURL \in Texts
    BY DEF ConfigSet
  <2>3. ASSUME NEW part \in {"Issuer", "Recipient", "Audience"}
        PROVE  r[part] \in [text : Texts, escaped : BOOLEAN]
    BY <2>2, RenderedIs, Escaped
  <2>4. ASSUME NEW part \in attributesOf(c)
        PROVE  r[part] \in [text : Texts, escaped : BOOLEAN]
    <3>1. r[part] = escapeText(c[part]) /\ c[part] \in Texts
      BY RenderedIs
    <3> QED BY <3>1, Escaped
  <2> QED BY <2>1, <2>3, <2>4
<1> HIDE DEF r
<1>3. p = [part \in DOMAIN r |-> [r[part] EXCEPT !.text = dropped(@)]]
  BY DEF r
<1>4. ASSUME NEW part \in DOMAIN r
      PROVE  [r[part] EXCEPT !.text = dropped(@)] = r[part]
  <2>0. part \in DOMAIN p /\ p[part] = [r[part] EXCEPT !.text = dropped(@)]
    BY <1>3, Zenon
  <2>1. [r[part] EXCEPT !.text = dropped(@)].text # "dropped"
    BY <2>0, Zenon
  <2> QED BY <1>2, <2>1 DEF dropped
<1>5. p = r
  BY <1>1, <1>3, <1>4, Zenon
<1> QED BY <1>5 DEF r

LEMMA SoleSignsIn ==
  ASSUME Absent, Typed, Assertion, Sole
  PROVE  SignsIn
<1> DEFINE s == envelope.signatures[1]
           doc == seen("Java")
           r == renderAssertion(config)
           body == readBy("Java")
<1>1. SUFFICES ASSUME at \in {"portal", "garbled"}, config # None, lone, s.certificate \in Keys,
                      \E done \in signings : done.key = s.certificate,
                      \A part \in DOMAIN page : page[part].text # "dropped"
               PROVE  /\ at = "portal"
                      /\ Verify(doc) = "nil"
                      /\ \A part \in {"Issuer", "Recipient", "Audience"} : body[part] = config.ClientURL
                      /\ \A name \in Attributes : name \in DOMAIN body <=> set(config, name)
                      /\ \A name \in DOMAIN body \cap Attributes : body[name] = config[name]
  BY DEF SignsIn
<1>2. at = "portal"
  BY <1>1 DEF Typed, Wrapped
<1>3. config \in ConfigSet
  BY <1>1, SignInAssumption DEF Typed, Bounded
<1>4. Rendered = r /\ page = r
  BY <1>1, <1>2, <1>3, NothingDropped DEF Rendered, Assertion, lone
<1>5. /\ envelope.form = "closed"
      /\ \A part \in DOMAIN r : Content.body[part] # "malformed"
      /\ Keyed(s, signings, Content)
  BY <1>1, <1>4 DEF lone, Sole
<1>6. Content.body = [part \in DOMAIN r |-> partAs("Go", part, r[part])]
  BY <1>4 DEF Content, asRead
<1>7. body = [part \in DOMAIN r |-> partAs("Java", part, r[part])]
  BY <1>4 DEF readBy, asRead
<1>8. ASSUME NEW part \in DOMAIN r
      PROVE  /\ partAs("Java", part, r[part]) = partAs("Go", part, r[part])
             /\ body[part] = IF part \in {"Issuer", "Recipient", "Audience"} THEN config.ClientURL
                             ELSE config[part]
  <2>1. partAs("Go", part, r[part]) # "malformed"
    BY <1>5, <1>6
  <2> QED BY <1>3, <1>7, <2>1, ReadAsRendered
<1>9. body = Content.body
  BY <1>6, <1>7, <1>8, Zenon
<1>10. Verify(doc) = "nil"
  <2>1. s.certificate \in Keys /\ Made(s, s.certificate, Content)
    <3> HIDE DEF s
    <3> QED BY <1>1, <1>5 DEF Keyed
  <2>2. DOMAIN body = DOMAIN page
    BY DEF readBy, asRead
  <2>3. doc.form = "closed" /\ doc.signatures = envelope.signatures
        /\ doc.body = Content.body /\ doc.scope = Content.scope /\ Content.signatures = <<>>
    BY <1>4, <1>5, <1>9, <2>2 DEF seen, Content
  <2>4. DOMAIN doc.signatures = {1} /\ doc.signatures[1] = s
    BY <1>1, <2>3, Appended DEF lone, Typed, EnvelopeOK
  <2> HIDE DEF s, doc
  <2> QED BY <2>1, <2>3, <2>4, MadeVerifies
<1>11. DOMAIN body = {"Issuer", "Recipient", "Audience"} \cup attributesOf(config)
       /\ attributesOf(config) \subseteq Attributes
  BY <1>3, <1>7, RenderedIs
<1>12. \A name \in Attributes : name \in attributesOf(config) <=> set(config, name)
  BY <1>3, SignInAssumption DEF attributesOf, set, Attributes, ConfigSet
<1> QED
  <2> HIDE DEF body, doc, s
  <2>1. \A part \in {"Issuer", "Recipient", "Audience"} : body[part] = config.ClientURL
    BY <1>8, <1>7, <1>11
  <2>2. \A name \in Attributes : name \in DOMAIN body <=> set(config, name)
    BY <1>11, <1>12 DEF Attributes
  <2>3. \A name \in DOMAIN body \cap Attributes : body[name] = config[name]
    BY <1>8, <1>7 DEF Attributes, body
  <2> QED BY <1>2, <1>10, <2>1, <2>2, <2>3

(* An assertion that its maker signed, and that nobody altered, signs the user  *)
(* in by either route, and reads as it was configured (assertion.go:39,         *)
(* signin.go:43), for every configuration and keystore.                         *)
THEOREM AssertionSignsIn ==
  ASSUME Absent
  PROVE  Spec => []SignsIn
<1>1. Init => Typed /\ Assertion /\ Sole
  BY TypedInit, SoleInit
<1>2. Typed /\ Assertion /\ Sole /\ [Next]_vars => (Typed /\ Assertion /\ Sole)'
  BY TypedNext, AssertionNext, SoleNext
<1>3. Typed /\ Assertion /\ Sole => SignsIn
  BY SoleSignsIn
<1> QED BY <1>1, <1>2, <1>3, PTL DEF Spec
===============================================================================
