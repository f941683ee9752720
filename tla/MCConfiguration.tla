---------------------------- MODULE MCConfiguration ----------------------------
(* Two variables, directories with up to two .env files of up to three lines.   *)
EXTENDS Configuration, SequencesExt

CONSTANTS endpoint, user, other, x, y

MCKeys       == {endpoint, user, other}
MCOptionKeys == {endpoint, user}
MCWords      == {x, y, Nul, Empty}

pair(key, word, quotes) ==
  [kind |-> "pair", key |-> key, value |-> [word |-> word, quotes |-> quotes]]

Noise == [kind |-> "comment", key |-> endpoint, value |-> plain(y)]

Written ==
  {pair(endpoint, x, 1), pair(endpoint, y, 2), pair(endpoint, Nul, 0), pair(user, x, 0),
   pair(other, Nul, 0), pair(user, Empty, 1), pair(Empty, y, 0), Noise}

Near == BoundedSeq(Written, 3)
Far  == {NoFile, Unreadable, <<pair(endpoint, y, 0), pair(user, y, 0)>>}

MCTrees ==
  {<<f>> : f \in Near} \cup {<<NoFile, f, g>> : f \in {NoFile, Unreadable, <<Noise>>}, g \in Far}
    \cup {<<f, g>> : f \in {<<>>, Unreadable, <<pair(user, x, 1)>>}, g \in Far} \cup {<<>>}

MCEnvironments ==
  {[k \in MCKeys |-> IF k = user THEN u ELSE IF k = other THEN Unset ELSE e] :
     u \in {Unset, plain(Empty), plain(y)}, e \in {Unset, plain(Empty), [word |-> y, quotes |-> 1]}}

MCCommandLines ==
  {[given |-> [k \in MCOptionKeys |-> IF k = user THEN Unset ELSE e], asked |-> m] :
     e \in {Unset, plain(y)}, m \in {{}, {"status", "attrs"}, {"saml", "download"}, {"attrs"}, {"download"}}}
===============================================================================
