-------------------------------- MODULE SignIn ---------------------------------
(* A signed document from the one who makes it to the one who verifies it.  An  *)
(* assertion of package saml is rendered from a Config, signed (generator.go),  *)
(* URL-encoded and posted to the portal, by a program or through the user's     *)
(* browser (signin.go); certificates of the portal are held likewise.  On the   *)
(* way a document may be signed again, and altered again and again.             *)
(*                                                                              *)
(* A text is what sets it apart for the encodings: "return" holds a carriage    *)
(* return, "markup" one of & < >, "wide" a rune above U+00FF, and so on.        *)
EXTENDS EnvelopedSignature, FiniteSets

CONSTANTS Configs,     \* what callers configure
          Signers,     \* keystores, as [key, certificate]
          Held,        \* documents somebody holds, in pages and signatures
          Edits,       \* texts that an alteration may put in a document
          MaxSigned,   \* bound: children of the root called Signature
          MaxDamaged,  \* bound: alterations up to one that damages something,
          MaxAltered,  \*        of a document that is held,
          MaxAlteredAssertion  \* and of an assertion

Texts == {"empty", "blank", "plain", "zero", "latin", "wide", "dropped", "return",
          "linefeed", "space", "quote", "markup", "control", "malformed"}

ConfigSet == [ClientURL : Texts, Login : Texts, FullName : Texts,
              Group : {None, "zero", "plain"}, Companies : {None, "empty", "plain"},
              Validate : BOOLEAN]

(* FullName stands for all optional strings, Group for the optional scalars and *)
(* Companies for the optional lists.                                            *)
Attributes == {"Login", "FullName", "Group", "Companies"}
Parts      == {"Issuer", "Recipient", "Audience"} \cup Attributes

Forms      == {"closed", "unclosed", "unparsable", "rootless"}
Scopes     == {"saml", "plain", "other"}

ASSUME SignInAssumption ==
  /\ Configs \subseteq ConfigSet /\ None \notin Configs /\ None \notin Texts
  /\ Signers \subseteq [key : Keys \cup {None}, certificate : Keys \cup {NotRSA, None}]
  /\ Edits \subseteq Texts
  /\ {MaxSigned, MaxDamaged, MaxAltered, MaxAlteredAssertion} \subseteq Nat

VARIABLES
  config,      \* the Config, None when the document is not an assertion
  page,        \* the document without signatures: part -> [text, escaped]
  envelope,    \* its form, scope and signatures
  layers,      \* the encodings it is wrapped in
  at,          \* where it is
  altered,     \* how often somebody altered it
  signings     \* history: [key, content, value, own] of each signing

vars == <<config, page, envelope, layers, at, altered, signings>>

(* What a reader finds in a part.  Both Go and Java make line feeds of literal  *)
(* carriage returns; attribute values are normalized further by Java only.      *)
partAs(reader, part, rendered) ==
  LET text == rendered.text
      attribute == part = "Recipient"
  IN  IF text = "control" \/ (text = "markup" /\ ~rendered.escaped)
         \/ (text = "quote" /\ attribute /\ ~rendered.escaped) THEN "malformed"
      ELSE IF rendered.escaped \/ text \notin {"return", "linefeed"} THEN text
      ELSE IF attribute /\ reader = "Java" THEN "space" ELSE "linefeed"

asRead(reader, parts) == [part \in DOMAIN parts |-> partAs(reader, part, parts[part])]

readBy(reader) == asRead(reader, page)

seen(reader) ==
  LET body == readBy(reader)
  IN  [form |-> IF \E part \in DOMAIN page : body[part] = "malformed" THEN "unparsable"
                ELSE envelope.form,
       body |-> body, scope |-> envelope.scope, signatures |-> envelope.signatures]

isSequence(s) == s \in Seq({s[i] : i \in DOMAIN s})

(* What a signature is about, in a document and by a digest.                    *)
contentOf(doc) == [body |-> doc.body, scope |-> doc.scope, kept |-> kept(doc.signatures)]

digested(digest) == [body |-> digest.body, scope |-> digest.scope, kept |-> digest.kept]

(* What is on record of a signing: the key, the content, and the value that     *)
(* came of it; "own" tells that this is over a SignedInfo about that content.   *)
recorded(done) ==
  /\ done.key \in Keys /\ done.own \in BOOLEAN
  /\ done.value.key = done.key
  /\ done.own => digested(done.value.info.reference.digest) = done.content

(* No signature value is of nobody's making.                                    *)
genuine(s, signed) ==
  /\ s = [dsig |-> s.dsig, info |-> s.info, value |-> s.value, certificate |-> s.certificate]
  /\ s.dsig => s.value = Garbage \/ \E done \in signed : done.value = s.value

(* A document as it left the one who signed it, with algorithms Verify knows.   *)
signedAs(key, method, hash, content) ==
  LET info == signedInfo(method, hash, digestOf(digestHash[hash], content))
  IN  block(info, sealed(key, signatureHash[method], info, content), key)

(* What somebody holds is of the types below, its signature values are those    *)
(* on record, and a signature that is alone is there as it was made.            *)
ASSUME HeldAssumption ==
  \A held \in Held :
    /\ held.form \in Forms /\ held.scope \in Scopes
    /\ DOMAIN held.page \subseteq Parts
    /\ \A part \in DOMAIN held.page : held.page[part] \in [text : Texts, escaped : BOOLEAN]
    /\ isSequence(held.signatures) /\ Len(held.signatures) <= MaxSigned
    /\ \A i \in DOMAIN held.signatures : genuine(held.signatures[i], held.signings)
    /\ \A done \in held.signings : recorded(done)
    /\ held.signatures = <<>> => held.signings = {}
    /\ Len(held.signatures) = 1 /\ held.signings # {} =>
         LET body == asRead("Go", held.page)
         IN  /\ held.form = "closed" /\ \A part \in DOMAIN body : body[part] # "malformed"
             /\ \E key \in Keys, method \in DOMAIN signatureHash, hash \in DOMAIN digestHash :
                  held.signatures[1] =
                    signedAs(key, method, hash, [body |-> body, scope |-> held.scope, signatures |-> <<>>])

Init ==
  /\ layers = <<>> /\ altered = 0
  /\ \/ /\ config \in Configs
        /\ at = "config"
        /\ page = [part \in {} |-> None]
        /\ envelope = [form |-> "closed", scope |-> "saml", signatures |-> <<>>]
        /\ signings = {}
     \/ /\ config = None
        /\ at = "holder"
        /\ \E held \in Held :
             /\ page = held.page
             /\ envelope = [form |-> held.form, scope |-> held.scope, signatures |-> held.signatures]
             /\ signings = held.signings
-------------------------------------------------------------------------------
(* Config.validate.                                                             *)
given(text) == text \notin {"empty", "blank"}

valid(c) ==
  /\ given(c.Login) /\ given(c.ClientURL)
  /\ c.Validate => given(c.FullName) /\ c.Group # None /\ c.Companies \notin {None, "empty"}

(* Mutant: what is unset is sent nevertheless.                                  *)
attributesOf_All(c) == Attributes

(* attributesOf: strings unless empty, the rest unless nil.                     *)
attributesOf(c) ==
  {"Login"} \cup {name \in {"FullName"} : c[name] # "empty"}
            \cup {name \in {"Group", "Companies"} : c[name] # None}

escapeText(text) == [text |-> text, escaped |-> text \in {"markup", "return"}]

(* Mutant: white space in an attribute is left as it is.                        *)
escapeAttr_LikeText(text) == escapeText(text)

escapeAttr(text) ==
  [text |-> text, escaped |-> text \in {"markup", "quote", "linefeed", "return"}]

(* renderAssertion.                                                             *)
renderAssertion(c) ==
  [part \in {"Issuer", "Recipient", "Audience"} \cup attributesOf(c) |->
    IF part = "Recipient" THEN escapeAttr(c.ClientURL)
    ELSE IF part \in {"Issuer", "Audience"} THEN escapeText(c.ClientURL)
    ELSE escapeText(c[part])]

(* What goes on record of a signing.                                            *)
signing(signer) ==
  LET signatures == Sign(seen("Go"), signer).doc.signatures
      new == signatures[Len(signatures)]
  IN  [key |-> signer.key, content |-> contentOf(seen("Go")),
       value |-> new.value, own |-> new.value.info = new.info]

(* Generate, up to the signature: a configuration is refused, or rendered.      *)
Generate ==
  /\ at = "config"
  /\ IF valid(config)
       THEN /\ page' = renderAssertion(config)
            /\ at' = "rendered"
       ELSE /\ at' = "refused"
            /\ UNCHANGED page
  /\ UNCHANGED <<config, envelope, layers, altered, signings>>

(* Sign: of what Generate rendered, or of a document by whoever holds it.       *)
SignDocument(signer) ==
  /\ at \in {"rendered", "holder"}
  /\ Len(envelope.signatures) < MaxSigned
  /\ LET signed == Sign(seen("Go"), signer)
     IN  IF signed.err = "nil"
           THEN /\ envelope' = [envelope EXCEPT !.signatures = signed.doc.signatures]
                /\ signings' = signings \cup {signing(signer)}
                /\ at' = "holder"
           ELSE /\ at' = "refused"
                /\ UNCHANGED <<envelope, signings>>
  /\ UNCHANGED <<config, page, layers, altered>>

(* What urlEncode makes of a text: runes above U+00FF are lost, all others come *)
(* back when the portal decodes latin-1.                                        *)
dropped(text) == IF text = "wide" THEN "dropped" ELSE text

(* urlEncode, the last step of GenerateEncoded, on what Generate returned.       *)
Encode ==
  /\ at = "holder" /\ config # None
  /\ altered = 0 /\ Len(envelope.signatures) = 1
  /\ page' = [part \in DOMAIN page |-> [page[part] EXCEPT !.text = dropped(@)]]
  /\ layers' = <<"percent">>
  /\ at' = "encoded"
  /\ UNCHANGED <<config, envelope, altered, signings>>

(* SignInForm: the body of a POST, encoded once more.                           *)
SignInForm ==
  /\ at = "encoded"
  /\ layers' = Append(layers, "form")
  /\ at' = "posted"
  /\ UNCHANGED <<config, page, envelope, altered, signings>>

(* SignInFormHTML: the value of an input of a form.                             *)
SignInFormHTML ==
  /\ at = "encoded"
  /\ layers' = Append(layers, "html")
  /\ at' = "browser"
  /\ UNCHANGED <<config, page, envelope, altered, signings>>

(* The browser (external) reads the page and posts the form.                    *)
Browse ==
  /\ at = "browser"
  /\ layers' = [layers EXCEPT ![Len(layers)] = "form"]
  /\ at' = "posted"
  /\ UNCHANGED <<config, page, envelope, altered, signings>>

(* The portal (external) unwraps the form's encoding and the percent encoding.  *)
Deliver ==
  /\ at = "posted"
  /\ at' = IF layers = <<"percent", "form">> THEN "portal" ELSE "garbled"
  /\ layers' = <<>>
  /\ UNCHANGED <<config, page, envelope, altered, signings>>
-------------------------------------------------------------------------------
(* Whoever holds a document, or passes it on (external), may alter it.  One     *)
(* thing in a signature is damaged: it is missing, garbled, or unknown.         *)
damagedReference(reference) ==
  {[reference EXCEPT !.uri = "#id"], [reference EXCEPT !.transform = unknown],
   [reference EXCEPT !.method = unknown], [reference EXCEPT !.digest = Garbage]}

damagedInfo(info) ==
  {None, [info EXCEPT !.c14n = FALSE], [info EXCEPT !.method = unknown],
   [info EXCEPT !.method = "rsa_sha256"], [info EXCEPT !.reference = None]}
  \cup (IF info.reference = None THEN {}
        ELSE {[info EXCEPT !.reference = r] : r \in damagedReference(info.reference)})

damaged(s) ==
  {[s EXCEPT !.value = Garbage]}
  \cup {[s EXCEPT !.certificate = c] : c \in {NotRSA, Garbage, None}}
  \cup (IF s.info = None THEN {} ELSE {[s EXCEPT !.info = i] : i \in damagedInfo(s.info)})

(* Or it gets a value that somebody made, another certificate, or a SignedInfo: *)
(* one under such a value, or one about the content as it is now.               *)
reworked(s) ==
  {[s EXCEPT !.value = done.value] : done \in signings}
  \cup {[s EXCEPT !.certificate = c] : c \in Keys}
  \cup {[s EXCEPT !.info = done.value.info] : done \in signings}
  \cup {[s EXCEPT !.info = signedInfo("rsa_sha1", "sha1", digestOf("sha1", seen("Go")))]}

changed(s) == reworked(s) \cup (IF altered < MaxDamaged THEN damaged(s) ELSE {})

(* Or a signature is taken out.                                                 *)
AlterSignature ==
  /\ \E i \in DOMAIN envelope.signatures :
       \/ \E s \in changed(envelope.signatures[i]) :
            envelope' = [envelope EXCEPT !.signatures[i] = s]
       \/ envelope' = [envelope EXCEPT !.signatures =
                         SubSeq(@, 1, i - 1) \o SubSeq(@, i + 1, Len(@))]
  /\ UNCHANGED page

AlterContent ==
  \/ /\ \E part \in DOMAIN page, text \in Edits : page' = [page EXCEPT ![part] = escapeText(text)]
     /\ UNCHANGED envelope
  \/ /\ \E scope \in Scopes : envelope' = [envelope EXCEPT !.scope = scope]
     /\ UNCHANGED page

Alter ==
  /\ at \in {"holder", "posted"}
  /\ altered < IF config = None THEN MaxAltered ELSE MaxAlteredAssertion
  /\ altered' = altered + 1
  /\ AlterSignature \/ AlterContent
  /\ UNCHANGED <<config, layers, at, signings>>
-------------------------------------------------------------------------------
Next ==
  \/ Generate \/ (\E signer \in Signers : SignDocument(signer)) \/ Encode
  \/ SignInForm \/ SignInFormHTML \/ Browse \/ Deliver \/ Alter

Spec == Init /\ [][Next]_vars
-------------------------------------------------------------------------------
(* The types; a document is wrapped in encodings exactly while it is on its     *)
(* way; and what is on record of a signing names a key and the value it made,   *)
(* which is about the content that was signed where it is over an own           *)
(* SignedInfo.                                                                  *)
TypeOK ==
  /\ config \in Configs \cup {None}
  /\ DOMAIN page \subseteq Parts
  /\ \A part \in DOMAIN page : page[part] \in [text : Texts, escaped : BOOLEAN]
  /\ envelope.form \in Forms /\ envelope.scope \in Scopes
  /\ Len(envelope.signatures) <= MaxSigned
  /\ at \in {"config", "refused", "rendered", "holder", "encoded", "browser", "posted",
             "portal", "garbled"}
  /\ at \in {"encoded", "browser", "posted"} <=> layers # <<>>
  /\ altered \in Nat
  /\ \A done \in signings : recorded(done)

(* Whoever reads the document, with either parser, and finds it verified finds  *)
(* a value that the holder of the reported certificate's key made, and, if that *)
(* was made over the SignedInfo of what they signed, the content they signed;   *)
(* however often the document was signed and altered, with parts of any         *)
(* signature put in any other (both halves of Verify, verify.go:108 and 131).   *)
(* An assertion of which urlEncode dropped a rune is not one that verifies,     *)
(* with less in it.                                                             *)
AcceptedIsSigned ==
  \A reader \in {"Go", "Java"} :
    LET doc == seen(reader)
    IN  Verify(doc) = "nil" =>
          \E done \in signings :
            /\ done.key = reported(doc) /\ done.value = findSignature(doc).value
            /\ done.own => done.content = contentOf(doc)

signedBy(key, content) == \E done \in signings : done.key = key /\ done.content = content

(* verify.go:48: "The reference digest proves the document's content is the     *)
(* content that was signed; the signature proves SignedInfo ... came from the   *)
(* certificate's holder": that holder signed that content.                      *)
ContentIsSigned ==
  Verify(seen("Go")) = "nil" => signedBy(reported(seen("Go")), contentOf(seen("Go")))

lone == Len(envelope.signatures) = 1 /\ altered = 0 /\ signings # {}

(* A document signed once with a key and its certificate verifies, as that      *)
(* certificate's: Sign and Verify agree on the digest, on the SignedInfo in its *)
(* place, and on the algorithms.                                                *)
SignedVerifies ==
  lone /\ at = "holder" =>
    LET s == envelope.signatures[1]
    IN  signedBy(s.certificate, contentOf(seen("Go")))
          => Verify(seen("Go")) = "nil" /\ reported(seen("Go")) = s.certificate

set(c, name) == c[name] # None /\ (name = "FullName" => c[name] # "empty")

(* What signs a user in: an assertion signed by its maker and not altered       *)
(* reaches the portal, by either route, verifies there, and reads as it was     *)
(* configured, in what was set and in what was not, as long as no rune is lost  *)
(* (escapeText, escapeAttr, urlEncode, SignInForm, SignInFormHTML together).    *)
SignsIn ==
  at \in {"portal", "garbled"} /\ config # None /\ lone
    /\ envelope.signatures[1].certificate \in Keys
    /\ (\E done \in signings : done.key = envelope.signatures[1].certificate)
    /\ (\A part \in DOMAIN page : page[part].text # "dropped")
  => /\ at = "portal"
     /\ Verify(seen("Java")) = "nil"
     /\ LET body == readBy("Java")
        IN  /\ \A part \in {"Issuer", "Recipient", "Audience"} : body[part] = config.ClientURL
            /\ \A name \in Attributes : name \in DOMAIN body <=> set(config, name)
            /\ \A name \in DOMAIN body \cap Attributes : body[name] = config[name]

(* Signing again takes nothing away: a document that verifies still verifies    *)
(* after a second signature, and as the first one's.                            *)
FirstSignatureStands ==
  [][(\E signer \in Signers : SignDocument(signer)) /\ Verify(seen("Go")) = "nil"
      => (Verify(seen("Go")) = "nil")' /\ reported(seen("Go"))' = reported(seen("Go"))]_vars

(* sign.go:42: "Sign appends an enveloped signature to the document in doc ...   *)
(* and returns the signed document": the one it appended verifies.              *)
AppendedVerifies ==
  [][LET signatures == envelope'.signatures
         new == signatures[Len(signatures)]
     IN  \A signer \in Signers :
           SignDocument(signer) /\ at' = "holder" /\ signer.certificate = signer.key
           => signatureError(new, seen("Go")) = "nil"]_vars
===============================================================================
