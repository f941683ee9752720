----------------------------- MODULE Canonicalizer -----------------------------
(* xmldsig.Canonicalize (xmldsig/c14n.go): the walk over an element and what is *)
(* below it, and which namespace declarations it writes on the way.  A document *)
(* is a tree of numbered nodes; the recursion of writeElement is the stack      *)
(* frames, one frame per element that is open.  Text, escapes and the letters   *)
(* of names are abstracted.                                                     *)
EXTENDS Integers, Sequences, FiniteSets

CONSTANTS Nodes,      \* the nodes of a document, numbered in document order
          Prefixes,   \* namespace prefixes
          Default,    \* the one of unprefixed names
          Uris,       \* namespace names
          DSig,       \* the one of XML signatures
          Empty,      \* the empty name: what xmlns="" declares
          None,       \* no declaration
          Documents   \* the documents walked over

(* What xmlns attributes declare.  Only the default namespace can be undeclared. *)
Declarations ==
  {d \in [Prefixes -> Uris \cup {Empty, None}] :
    \A p \in Prefixes : d[p] = Empty => p = Default}

Kinds == {"element", "text", "comment", "pi"}

(* "tag": whether the local name is Signature; "space": the prefix of the name. *)
DocumentSet ==
  [parent : [Nodes -> Nodes \cup {0}], kind : [Nodes -> Kinds],
   decl : [Nodes -> Declarations], tag : [Nodes -> BOOLEAN], space : [Nodes -> Prefixes]]

(* Document order: what stands between an element and its child is below it.   *)
ASSUME CanonicalizerAssumption ==
  /\ Nodes \subseteq Nat \ {0}
  /\ Default \in Prefixes
  /\ DSig \in Uris
  /\ Empty \notin Uris /\ None \notin Uris /\ Empty # None
  /\ Documents \subseteq DocumentSet
  /\ \A d \in Documents : \A n \in Nodes :
       /\ d.parent[n] < n /\ (d.parent[n] = 0 \/ d.kind[d.parent[n]] = "element")
       /\ \A m \in Nodes : d.parent[n] < m /\ m < n => d.parent[n] <= d.parent[m]

VARIABLES
  doc,        \* the document
  apex,       \* the element given to Canonicalize
  enveloped,  \* whether exclude is IsSignature, and not nil
  above,      \* the ancestors of the apex, the root first
  frames,     \* the open elements: what each wrote, and what is in scope for it
  visited,    \* the nodes that were looked at
  written,    \* the nodes that were written, in order
  pc

input == <<doc, apex, enveloped, above>>
vars  == <<input, frames, visited, written, pc>>

children(n) == {c \in Nodes : doc.parent[c] = n}

greatest(S) == CHOOSE m \in S : \A k \in S : k <= m

least(S) == CHOOSE m \in S : \A k \in S : m <= k

(* The nearest declaration of each prefix along a chain of elements.            *)
nearest(d, chain) ==
  [p \in Prefixes |->
    LET at == {i \in DOMAIN chain : d.decl[chain[i]][p] # None}
    IN  IF at = {} THEN None ELSE d.decl[chain[greatest(at)]][p]]

(* A name without a namespace is in the empty one.                              *)
named(uri) == IF uri = None THEN Empty ELSE uri

(* Every chain from a root down to an element's parent.                         *)
chainTo(d, chain, n) ==
  /\ \A i \in DOMAIN chain : d.kind[chain[i]] = "element"
  /\ \A i \in DOMAIN chain :
       d.parent[chain[i]] = IF i = 1 THEN 0 ELSE chain[i - 1]
  /\ d.parent[n] = IF chain = <<>> THEN 0 ELSE chain[Len(chain)]

nothing == [p \in Prefixes |-> None]

Init ==
  /\ doc \in Documents
  /\ enveloped \in BOOLEAN
  /\ apex \in {n \in Nodes : doc.kind[n] = "element"}
  /\ above \in UNION {[1 .. k -> Nodes] : k \in 0 .. Cardinality(Nodes) - 1}
  /\ chainTo(doc, above, apex)
  /\ frames = <<>> /\ visited = {} /\ written = <<>> /\ pc = "start"
-------------------------------------------------------------------------------
(* inheritedScope: the declarations on the apex's ancestors, nearest first.     *)
inheritedScope == nearest(doc, above)

(* The declarations seen on an element: its own over those it inherits.         *)
visible(n, inherited) ==
  [p \in Prefixes |-> IF doc.decl[n][p] # None THEN doc.decl[n][p] ELSE inherited[p]]

(* Mutant: what an ancestor wrote is written again.                             *)
emit_Everything(seen, rendered) ==
  [p \in Prefixes |-> IF seen[p] = Empty /\ rendered[p] \in {None, Empty} THEN None ELSE seen[p]]

(* Mutant: a prefix an element does not declare is reset, like the default.     *)
emit_ResetsMissing(seen, rendered) ==
  [p \in Prefixes |-> IF seen[p] = None /\ rendered[p] # None THEN Empty
                      ELSE IF seen[p] = rendered[p] THEN None ELSE seen[p]]

(* The declarations written on an element: those that differ from what the      *)
(* nearest open element shows, and a reset only of what was set.                *)
emit(seen, rendered) ==
  [p \in Prefixes |->
    IF \/ seen[p] = rendered[p]
       \/ seen[p] = Empty /\ rendered[p] \in {None, Empty}
      THEN None
      ELSE seen[p]]

(* nsScope: the scope of an element is its own declarations, over its parent's. *)
layered(rendered, own) ==
  [p \in Prefixes |-> IF own[p] # None THEN own[p] ELSE rendered[p]]

(* Mutant: an attribute without a prefix is in the default namespace.           *)
uriOf_Defaulted(scope, seen, p) == IF scope[p] # None THEN scope[p] ELSE named(seen[p])

(* Mutant: prefixes are looked up on the element alone.                         *)
uriOf_OwnOnly(scope, seen, p) == IF p = Default THEN Empty ELSE named(seen[p])

(* The namespace an attribute with prefix p is sorted by: none without a prefix. *)
uriOf(scope, seen, p) ==
  IF p = Default THEN Empty ELSE IF scope[p] # None THEN scope[p] ELSE named(seen[p])

(* The frame writeElement works in.                                             *)
opened(n, inherited, rendered) ==
  LET seen  == visible(n, inherited)
      scope == layered(rendered, emit(seen, rendered))
  IN  [node  |-> n,
       emit  |-> emit(seen, rendered),
       scope |-> scope,
       keys  |-> [p \in Prefixes |-> uriOf(scope, seen, p)]]

path == above \o [i \in DOMAIN frames |-> frames[i].node]

top == frames[Len(frames)]

unvisited == children(top.node) \ visited

namespaceOf(n) == named(nearest(doc, Append(path, n))[doc.space[n]])

(* IsSignature, of an element that is a child of the one on top.                *)
IsSignature(n) == doc.tag[n] /\ namespaceOf(n) = DSig

excluded(n) == enveloped /\ IsSignature(n)

(* Canonicalize: the apex re-declares what it inherits; nothing is above it.    *)
Begin ==
  /\ pc = "start"
  /\ pc' = "walk"
  /\ frames' = <<opened(apex, inheritedScope, nothing)>>
  /\ written' = <<apex>>
  /\ UNCHANGED <<input, visited>>

(* Mutant: a child's declarations stay in force for its siblings.               *)
Open_SharesScope(n) ==
  LET new == opened(n, nothing, top.scope)
  IN  /\ doc.kind[n] = "element" /\ ~excluded(n)
      /\ frames' = Append([frames EXCEPT ![Len(frames)].scope = new.scope], new)
      /\ written' = Append(written, n)

Open(n) ==
  /\ doc.kind[n] = "element" /\ ~excluded(n)
  /\ frames' = Append(frames, opened(n, nothing, top.scope))
  /\ written' = Append(written, n)

Text(n) ==
  /\ doc.kind[n] = "text"
  /\ written' = Append(written, n)
  /\ UNCHANGED frames

(* An excluded element is passed over with all below it; comments and           *)
(* processing instructions are dropped.                                         *)
Pass(n) ==
  /\ doc.kind[n] \in {"comment", "pi"} \/ (doc.kind[n] = "element" /\ excluded(n))
  /\ UNCHANGED <<frames, written>>

(* Mutant: the loop over the children ends at an excluded one.                  *)
Visit_Breaks ==
  /\ pc = "walk" /\ unvisited # {}
  /\ LET n == least(unvisited)
     IN  /\ Open(n) \/ Text(n) \/ Pass(n)
         /\ visited' = visited \cup (IF doc.kind[n] = "element" /\ excluded(n)
                                       THEN children(top.node) ELSE {n})
  /\ UNCHANGED <<input, pc>>

(* One turn of the loop over an element's children.                             *)
Visit ==
  /\ pc = "walk" /\ unvisited # {}
  /\ LET n == least(unvisited)
     IN  /\ Open(n) \/ Text(n) \/ Pass(n)
         /\ visited' = visited \cup {n}
  /\ UNCHANGED <<input, pc>>

(* The end tag.                                                                 *)
Close ==
  /\ pc = "walk" /\ unvisited = {}
  /\ frames' = SubSeq(frames, 1, Len(frames) - 1)
  /\ pc' = IF Len(frames) = 1 THEN "done" ELSE "walk"
  /\ UNCHANGED <<input, visited, written>>

Next == Begin \/ Visit \/ Close

Spec == Init /\ [][Next]_vars
-------------------------------------------------------------------------------
Frame == [node : Nodes, emit : Declarations, scope : Declarations,
          keys : [Prefixes -> Uris \cup {Empty}]]

(* The open elements are a path of the tree, from the apex down.                *)
Nested ==
  \A i \in DOMAIN frames :
    IF i = 1 THEN frames[i].node = apex ELSE doc.parent[frames[i].node] = frames[i - 1].node

(* The types; what is written on an element is namespace-well-formed, and the   *)
(* open elements are a path of the tree.                                        *)
TypeOK ==
  /\ doc \in DocumentSet /\ apex \in Nodes /\ enveloped \in BOOLEAN
  /\ above \in Seq(Nodes)
  /\ frames \in Seq(Frame)
  /\ visited \subseteq Nodes /\ written \in Seq(Nodes)
  /\ pc \in {"start", "walk", "done"}
  /\ pc = "walk" <=> frames # <<>>
  /\ Nested

(* The reference: the namespace prefix p stands for on the i-th of the elements  *)
(* fs, by the declaration nearest to it in document d, or what fs[1] inherits.   *)
standsFor(d, fs, inherited, i, p) ==
  LET on == {k \in 1 .. i : d.decl[fs[k].node][p] # None}
  IN  named(IF on = {} THEN inherited[p] ELSE d.decl[fs[greatest(on)].node][p])

inScope(i, p) == standsFor(doc, frames, inheritedScope, i, p)

(* A reader of the output resolves every prefix, on every element, to what it   *)
(* stands for in the document, though declarations were left out, moved to the  *)
(* apex and reset on the way (writeElement's rendered and emit).                *)
ScopeIsFaithful ==
  \A i \in DOMAIN frames : \A p \in Prefixes :
    named(frames[i].scope[p]) = inScope(i, p)

(* Canonical XML's rule for the namespace axis: a declaration is written exactly *)
(* where the namespace differs from that of the parent in the output, which the *)
(* apex does not have.                                                          *)
MinimalDeclarations ==
  \A i \in DOMAIN frames : \A p \in Prefixes :
    LET parent == IF i = 1 THEN Empty ELSE inScope(i - 1, p)
    IN  frames[i].emit[p] = IF inScope(i, p) = parent THEN None ELSE inScope(i, p)

(* Attributes are sorted by the namespace they are in: what their prefix stands *)
(* for, wherever it was declared, and no namespace without a prefix, whatever   *)
(* the default one is (the uri of sortedAttr).                                  *)
AttributeKeys ==
  \A i \in DOMAIN frames : \A p \in Prefixes :
    frames[i].keys[p] = IF p = Default THEN Empty ELSE inScope(i, p)

(* The nodes below n, n with them: what is in every set that has n in it and    *)
(* the children of its own nodes.                                               *)
Subtree(n) ==
  {m \in Nodes : \A S \in SUBSET Nodes :
     n \in S /\ (\A c \in Nodes : doc.parent[c] \in S => c \in S) => m \in S}

(* The namespace of n's name in the document, found by going up from it.        *)
ownNamespace(n) ==
  LET on == {m \in Nodes : n \in Subtree(m) /\ doc.decl[m][doc.space[n]] # None}
  IN  IF on = {} THEN Empty ELSE doc.decl[greatest(on)][doc.space[n]]

signatures ==
  {n \in Nodes : doc.kind[n] = "element" /\ doc.tag[n] /\ ownNamespace(n) = DSig}

kept(kinds) ==
  {n \in Subtree(apex) : doc.kind[n] \in kinds}
    \ (IF enveloped THEN UNION {Subtree(s) : s \in (signatures \cap Subtree(apex)) \ {apex}} ELSE {})

output == {written[i] : i \in DOMAIN written}

(* The enveloped-signature transform takes out the signatures below the apex    *)
(* and what is in them, and nothing else: every other element and text is       *)
(* written once, in document order, those after a signature too.                *)
OnlySignaturesDropped ==
  pc = "done" =>
    /\ output = kept({"element", "text"})
    /\ \A i, j \in DOMAIN written : i < j => written[i] < written[j]

(* c14n.go:9 and 10: "Comments and processing instructions are dropped, which   *)
(* matches the REC-xml-c14n-20010315 'omit comments' variant".  That variant    *)
(* leaves out comments only.                                                    *)
MatchesOmitComments == pc = "done" => output = kept({"element", "text", "pi"})
===============================================================================
