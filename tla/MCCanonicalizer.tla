---------------------------- MODULE MCCanonicalizer ----------------------------
(* Documents for Canonicalizer.                                                 *)
EXTENDS Canonicalizer

CONSTANTS P, U, V

MCNodes    == 1 .. 4
MCPrefixes == {Default, P}
MCUris     == {U, V, DSig}

(* Trees whose nodes are numbered in document order: the parent of a node is    *)
(* the node before it or one of that node's ancestors.                          *)
Trees ==
  {parent \in [MCNodes -> 0 .. 3] :
    /\ parent[1] = 0
    /\ \A n \in 2 .. 4 : parent[n] \in {n - 1, parent[n - 1],
         IF parent[n - 1] = 0 THEN 0 ELSE parent[parent[n - 1]]} \ {0}}

Elements == [n \in MCNodes |-> "element"]
Plain    == [n \in MCNodes |-> FALSE]

Declares(default, p) == [q \in MCPrefixes |-> IF q = Default THEN default ELSE p]

(* Elements only: the first three with any declarations of a default namespace  *)
(* and one prefix, the last with none or a reset.                               *)
NamespaceDocuments ==
  {[parent |-> parent, kind |-> Elements, decl |-> decl, tag |-> Plain,
    space |-> [n \in MCNodes |-> Default]] :
   parent \in Trees,
   decl \in {[n \in MCNodes |-> IF n = 4 THEN leaf ELSE inner[n]] :
               inner \in [1 .. 3 -> {Declares(d, p) : d \in {None, Empty, U}, p \in {None, U, V}}],
               leaf \in {Declares(None, None), Declares(Empty, None)}}}

(* Elements that may be named Signature, under either prefix, where the         *)
(* namespace of signatures may be declared, and texts.                          *)
SignedDocuments ==
  {[parent |-> parent, kind |-> [Elements EXCEPT ![4] = k4], decl |-> decl, tag |-> tag,
    space |-> [n \in MCNodes |-> space]] :
   parent \in Trees,
   k4 \in {"element", "text", "comment"},
   decl \in {[n \in MCNodes |-> IF n = 4 THEN Declares(None, None) ELSE inner[n]] :
               inner \in [1 .. 3 -> {Declares(None, None), Declares(DSig, None), Declares(U, DSig)}]},
   tag \in {[n \in MCNodes |-> n \in signed] : signed \in {{}, {2}, {3}, {2, 3}, {1, 3}}},
   space \in MCPrefixes}

MCDocuments == NamespaceDocuments \cup SignedDocuments

(* One element with a processing instruction in it.                             *)
InstructedDocuments ==
  {[parent |-> [n \in MCNodes |-> n - 1], kind |-> [Elements EXCEPT ![4] = k], decl |-> decl,
    tag |-> Plain, space |-> [n \in MCNodes |-> Default]] :
   k \in Kinds, decl \in [MCNodes -> {Declares(None, None), Declares(U, None)}]}
===============================================================================
