------------------------------- MODULE MCSignIn -------------------------------
(* Configurations that differ from a plain one in a few fields, keystores that  *)
(* fit together and that do not, and documents that are signed already or       *)
(* cannot be.                                                                   *)
EXTENDS SignIn

CONSTANTS own, other, portal

MCKeys == {own, other, portal}

Matching  == [key |-> own, certificate |-> own]
MCSigners ==
  {Matching, [key |-> other, certificate |-> other], [key |-> other, certificate |-> own],
   [key |-> own, certificate |-> NotRSA], [key |-> own, certificate |-> None],
   [key |-> None, certificate |-> own]}

Base == [ClientURL |-> "plain", Login |-> "plain", FullName |-> "empty", Group |-> None,
         Companies |-> None, Validate |-> FALSE]
Full == [Base EXCEPT !.FullName = "plain", !.Group = "zero", !.Companies = "plain"]

MCEdits == {"plain", "latin"}

Inputs == {"empty", "blank", "plain", "latin", "wide", "return", "linefeed", "quote",
           "markup", "control"}

MCConfigs ==
  {[Base EXCEPT !.ClientURL = t] : t \in Inputs}
    \cup {[Full EXCEPT !.Login = t, !.FullName = u] : t \in Inputs, u \in {"empty", "latin", "return"}}
    \cup {[Full EXCEPT !.Validate = v, !.FullName = t, !.Group = g, !.Companies = c] :
            v \in BOOLEAN, t \in {"empty", "plain"}, g \in {None, "zero"}, c \in {None, "empty", "plain"}}

Page == [part \in {"Login"} |-> [text |-> "plain", escaped |-> FALSE]]
Body == [part \in {"Login"} |-> "plain"]

Bare == [form |-> "closed", scope |-> "plain", page |-> Page, signatures |-> <<>>, signings |-> {}]

(* An element that is called Signature, in another namespace.                   *)
Stamp == [block(None, None, None) EXCEPT !.dsig = FALSE]

(* A certificate as the portal signs them, with SHA-256 throughout, after the   *)
(* children called Signature that were there.                                   *)
Certificate(before) ==
  LET content == [body |-> Body, scope |-> "plain", signatures |-> before]
  IN  [Bare EXCEPT
        !.signatures = Append(before, signedAs(portal, "rsa_sha256", "sha256", content)),
        !.signings = {[key |-> portal, content |-> contentOf(content), own |-> TRUE,
                       value |-> signedAs(portal, "rsa_sha256", "sha256", content).value]}]

(* The last one was given its stamp after it was signed.                        *)
MCHeld ==
  {[Bare EXCEPT !.form = f] : f \in {"closed", "unclosed", "unparsable", "rootless"}}
    \cup {Certificate(<<>>), Certificate(<<Stamp>>), [Bare EXCEPT !.signatures = <<Stamp>>],
          [Certificate(<<>>) EXCEPT !.signatures = <<Stamp>> \o @]}
===============================================================================
