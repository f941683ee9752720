------------------------------ MODULE MCLgtsend -------------------------------
(* Two runs of lgtsend, started with one of the pairs of options below.         *)
EXTENDS Lgtsend, TLC

CONSTANTS a, b, x, none

Given == {"endpoint", "url", "company", "type", "name", "id", "email"}

Sender(flags) == [given |-> Given \cup flags, file |-> "full", externalID |-> x, status |-> none]
Without(flag) == [Sender({"send"}) EXCEPT !.given = @ \ {flag}]
Asker == [given |-> {"endpoint", "url"}, file |-> "full", externalID |-> none, status |-> x]

MCCallers == {a, b}

Pair(first, second) == a :> first @@ b :> second

(* A run that sends, and one that asks for the same external id, at any time.   *)
MCAdvice == {Pair(Sender({"send"}), Asker)}

(* Runs that send by either operation, and runs that may not: without the flag, *)
(* asked for a status, or with a request that lacks something.                  *)
MCRefusals ==
  {Pair(Sender({"send", "sync", "file"}), [Sender({"sync", "file"}) EXCEPT !.file = "empty"]),
   Pair(Without("email"), Without("url")),
   Pair([Sender({"send"}) EXCEPT !.status = x], [Sender({"send", "file"}) EXCEPT !.file = "unreadable"])}

(* A run that sends and polls, beside one that ends at once.                    *)
MCPolls == {Pair(Sender({"send", "poll"}), Without("endpoint"))}

MCOptions == MCAdvice \cup MCRefusals \cup MCPolls
MCMoves   == {<<1, 5>>}
===============================================================================
