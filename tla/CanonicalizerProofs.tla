-------------------------- MODULE CanonicalizerProofs --------------------------
(* What TLAPS proves of Canonicalizer, for documents of any size and depth and  *)
(* any set of prefixes: the walk never confuses a namespace.                    *)
EXTENDS Canonicalizer, TLAPS, WellFoundedInduction, NaturalsInduction, SequenceTheorems

Values == Uris \cup {Empty, None}

LEMMA LeastOfNat ==
  ASSUME NEW S \in SUBSET Nat, S # {}
  PROVE  least(S) \in S /\ \A k \in S : least(S) <= k
<1>1. PICK m \in S : \A k \in S : ~ (<<k, m>> \in OpToRel(<, Nat))
  BY NatLessThanWellFounded, WFMin
<1>2. \A k \in S : ~ (k < m)
  BY <1>1 DEF OpToRel
<1>3. \A k \in S : m <= k
  BY <1>2
<1> QED BY <1>3 DEF least

LEMMA GreatestOfRange ==
  ASSUME NEW n \in Nat, NEW S \in SUBSET (1 .. n), S # {}
  PROVE  greatest(S) \in S /\ \A k \in S : k <= greatest(S)
<1> DEFINE T == {n - k : k \in S}
<1>1. T \in SUBSET Nat /\ T # {}
  <2>1. \A k \in S : k \in 1 .. n /\ n - k \in Nat
    OBVIOUS
  <2> QED BY <2>1
<1>2. least(T) \in T /\ \A t \in T : least(T) <= t
  BY <1>1, LeastOfNat
<1>3. PICK m \in S : least(T) = n - m
  BY <1>2
<1>4. ASSUME NEW k \in S PROVE k <= m
  <2>1. k \in Int /\ m \in Int /\ n - k \in T
    OBVIOUS
  <2>2. n - m <= n - k
    BY <1>2, <1>3, <2>1
  <2> QED BY <2>1, <2>2
<1> QED BY <1>4 DEF greatest
LEMMA FrontTypes ==
  ASSUME NEW S, NEW s \in Seq(S), s # <<>>
  PROVE  /\ SubSeq(s, 1, Len(s) - 1) \in Seq(S)
         /\ SubSeq(s, 1, Len(s) - 1) = <<>> <=> Len(s) = 1
<1> DEFINE n == Len(s) - 1
           t == SubSeq(s, 1, n)
<1>1. n \in Nat /\ Len(s) = n + 1 /\ \A i \in 1 .. n : s[i] \in S
  OBVIOUS
<1> HIDE DEF n
<1>2. n \in Int /\ 1 \in Int
  BY <1>1
<1>3. /\ t \in Seq(S)
      /\ Len(t) = IF 1 <= n THEN n - 1 + 1 ELSE 0
  BY ONLY <1>1, <1>2, SubSeqProperties
<1> HIDE DEF t
<1>4. Len(t) = n
  BY <1>1, <1>3
<1>5. t = <<>> <=> Len(t) = 0
  BY <1>3
<1> QED BY <1>1, <1>3, <1>4, <1>5 DEF t, n
-------------------------------------------------------------------------------
(* The reference, one element at a time.                                        *)
LEMMA StandsForFirst ==
  ASSUME NEW d, NEW fs, NEW inherited, NEW p
  PROVE  standsFor(d, fs, inherited, 1, p) =
           named(IF d.decl[fs[1].node][p] # None THEN d.decl[fs[1].node][p] ELSE inherited[p])
<1> DEFINE on == {k \in 1 .. 1 : d.decl[fs[k].node][p] # None}
<1>1. CASE d.decl[fs[1].node][p] # None
  <2>1. on = {1}
    BY <1>1
  <2>2. greatest({1}) = 1
    BY GreatestOfRange
  <2> QED BY <1>1, <2>1, <2>2 DEF standsFor
<1>2. CASE d.decl[fs[1].node][p] = None
  <2>1. on = {}
    BY <1>2
  <2> QED BY <1>2, <2>1 DEF standsFor
<1> QED BY <1>1, <1>2

LEMMA StandsForNext ==
  ASSUME NEW d, NEW fs, NEW inherited, NEW p, NEW i \in Nat
  PROVE  standsFor(d, fs, inherited, i + 1, p) =
           IF d.decl[fs[i + 1].node][p] # None THEN named(d.decl[fs[i + 1].node][p])
                                              ELSE standsFor(d, fs, inherited, i, p)
<1> DEFINE on(j) == {k \in 1 .. j : d.decl[fs[k].node][p] # None}
<1>1. CASE d.decl[fs[i + 1].node][p] # None
  <2>1. i + 1 \in on(i + 1) /\ on(i + 1) \in SUBSET (1 .. i + 1)
    BY <1>1
  <2>2. greatest(on(i + 1)) = i + 1
    <3>0. i + 1 \in Nat
      OBVIOUS
    <3> HIDE DEF on
    <3>1. greatest(on(i + 1)) \in on(i + 1) /\ i + 1 <= greatest(on(i + 1))
      BY <2>1, <3>0, GreatestOfRange
    <3>2. greatest(on(i + 1)) \in 1 .. i + 1
      BY <2>1, <3>1
    <3> QED BY <3>1, <3>2
  <2> QED BY <1>1, <2>1, <2>2 DEF standsFor
<1>2. CASE d.decl[fs[i + 1].node][p] = None
  <2>1. on(i + 1) = on(i)
    BY <1>2
  <2> QED BY <1>2, <2>1 DEF standsFor
<1> QED BY <1>1, <1>2

LEMMA StandsForKept ==
  ASSUME NEW d, NEW fs, NEW gs, NEW inherited, NEW p, NEW i \in Nat,
         \A k \in 1 .. i : fs[k] = gs[k]
  PROVE  standsFor(d, fs, inherited, i, p) = standsFor(d, gs, inherited, i, p)
<1> DEFINE on(hs) == {k \in 1 .. i : d.decl[hs[k].node][p] # None}
<1>1. on(fs) = on(gs)
  OBVIOUS
<1>2. CASE on(fs) = {}
  BY <1>1, <1>2 DEF standsFor
<1>3. CASE on(fs) # {}
  <2>1. greatest(on(fs)) \in 1 .. i
    BY <1>3, GreatestOfRange
  <2> QED BY <1>1, <1>3, <2>1 DEF standsFor
<1> QED BY <1>2, <1>3
-------------------------------------------------------------------------------
(* One element: what it shows is what it declares, or else what is shown above  *)
(* it; it writes what changed; and attributes go by what it shows.              *)
LEMMA Layering ==
  ASSUME NEW seen \in [Prefixes -> Values], NEW rendered \in [Prefixes -> Values],
         NEW p \in Prefixes
  PROVE  LET own   == emit(seen, rendered)
             scope == layered(rendered, own)
         IN  /\ named(scope[p]) = IF seen[p] # None THEN seen[p] ELSE named(rendered[p])
             /\ own[p] = IF named(scope[p]) = named(rendered[p]) THEN None ELSE named(scope[p])
             /\ uriOf(scope, seen, p) = IF p = Default THEN Empty ELSE named(scope[p])
BY CanonicalizerAssumption DEF emit, layered, uriOf, named, Values

LEMMA OpenedTypes ==
  ASSUME doc \in DocumentSet, NEW n \in Nodes,
         NEW inherited \in Declarations, NEW rendered \in Declarations
  PROVE  opened(n, inherited, rendered) \in Frame
<1> DEFINE seen  == visible(n, inherited)
           own   == emit(seen, rendered)
           scope == layered(rendered, own)
           keys  == [p \in Prefixes |-> uriOf(scope, seen, p)]
<1>0. doc.decl[n] \in Declarations
  BY DEF DocumentSet
<1>1. seen \in Declarations
  BY <1>0 DEF visible, Declarations
<1>2. own \in Declarations
  BY <1>1, CanonicalizerAssumption DEF emit, Declarations
<1>3. scope \in Declarations
  BY <1>2 DEF layered, Declarations
<1>4. keys \in [Prefixes -> Uris \cup {Empty}]
  BY <1>1, <1>3 DEF uriOf, named, Declarations
<1> HIDE DEF seen, own, scope, keys
<1>5. [node |-> n, emit |-> own, scope |-> scope, keys |-> keys] \in Frame
  BY <1>2, <1>3, <1>4 DEF Frame
<1> QED BY <1>5 DEF opened, seen, own, scope, keys

LEMMA OpenedShows ==
  ASSUME doc \in DocumentSet, NEW n \in Nodes, NEW p \in Prefixes,
         NEW inherited \in Declarations, NEW rendered \in Declarations
  PROVE  LET f == opened(n, inherited, rendered)
         IN  /\ f.node = n
             /\ named(f.scope[p]) = IF doc.decl[n][p] # None THEN named(doc.decl[n][p])
                                    ELSE IF inherited[p] # None THEN named(inherited[p])
                                    ELSE named(rendered[p])
             /\ f.emit[p] = IF named(f.scope[p]) = named(rendered[p]) THEN None
                                                                    ELSE named(f.scope[p])
             /\ f.keys[p] = IF p = Default THEN Empty ELSE named(f.scope[p])
<1> DEFINE seen  == visible(n, inherited)
           own   == emit(seen, rendered)
           scope == layered(rendered, own)
<1>1. doc.decl[n] \in Declarations
  BY DEF DocumentSet
<1>2. /\ seen \in [Prefixes -> Values]
      /\ rendered \in [Prefixes -> Values]
      /\ seen[p] = IF doc.decl[n][p] # None THEN doc.decl[n][p] ELSE inherited[p]
  BY <1>1 DEF visible, Declarations, Values
<1>3. /\ named(scope[p]) = IF seen[p] # None THEN seen[p] ELSE named(rendered[p])
      /\ own[p] = IF named(scope[p]) = named(rendered[p]) THEN None ELSE named(scope[p])
      /\ uriOf(scope, seen, p) = IF p = Default THEN Empty ELSE named(scope[p])
  BY <1>2, Layering
<1> HIDE DEF seen, own, scope
<1>4. named(scope[p]) = IF doc.decl[n][p] # None THEN named(doc.decl[n][p])
                        ELSE IF inherited[p] # None THEN named(inherited[p])
                        ELSE named(rendered[p])
  BY <1>2, <1>3 DEF named
<1>5. opened(n, inherited, rendered) =
        [node |-> n, emit |-> own, scope |-> scope,
         keys |-> [q \in Prefixes |-> uriOf(scope, seen, q)]]
  BY DEF opened, seen, own, scope
<1> QED BY <1>3, <1>4, <1>5

LEMMA NothingShows == nothing \in Declarations /\ \A p \in Prefixes : named(nothing[p]) = Empty
BY CanonicalizerAssumption DEF nothing, Declarations, named

LEMMA NearestTypes ==
  ASSUME doc \in DocumentSet, above \in Seq(Nodes)
  PROVE  inheritedScope \in Declarations
<1> SUFFICES ASSUME NEW p \in Prefixes
             PROVE  /\ inheritedScope[p] \in Values
                    /\ inheritedScope[p] = Empty => p = Default
  BY DEF inheritedScope, nearest, Declarations, Values
<1> DEFINE at == {i \in DOMAIN above : doc.decl[above[i]][p] # None}
<1>1. inheritedScope[p] = IF at = {} THEN None ELSE doc.decl[above[greatest(at)]][p]
  BY DEF inheritedScope, nearest
<1>2. CASE at = {}
  BY <1>1, <1>2, CanonicalizerAssumption DEF Values
<1>3. CASE at # {}
  <2>1. at \in SUBSET (1 .. Len(above)) /\ Len(above) \in Nat
    OBVIOUS
  <2>2. greatest(at) \in at
    BY <1>3, <2>1, GreatestOfRange
  <2>3. above[greatest(at)] \in Nodes
    BY <2>2
  <2>4. doc.decl[above[greatest(at)]] \in Declarations
    BY <2>3 DEF DocumentSet
  <2> QED BY <1>1, <1>3, <2>4 DEF Declarations, Values
<1> QED BY <1>2, <1>3
-------------------------------------------------------------------------------
Inv == TypeOK /\ ScopeIsFaithful /\ MinimalDeclarations /\ AttributeKeys

(* The same, of any stack fs.                                                   *)
Faithful(fs) ==
  \A i \in DOMAIN fs : \A p \in Prefixes :
    LET uri    == standsFor(doc, fs, inheritedScope, i, p)
        parent == IF i = 1 THEN Empty ELSE standsFor(doc, fs, inheritedScope, i - 1, p)
    IN  /\ named(fs[i].scope[p]) = uri
        /\ fs[i].emit[p] = IF uri = parent THEN None ELSE uri
        /\ fs[i].keys[p] = IF p = Default THEN Empty ELSE uri

LEMMA FaithfulInv ==
  (ScopeIsFaithful /\ MinimalDeclarations /\ AttributeKeys) <=> Faithful(frames)
BY DEF ScopeIsFaithful, MinimalDeclarations, AttributeKeys, Faithful, inScope

LEMMA FaithfulApex ==
  ASSUME TypeOK, apex \in Nodes
  PROVE  Faithful(<<opened(apex, inheritedScope, nothing)>>)
<1> DEFINE f == opened(apex, inheritedScope, nothing)
<1> SUFFICES ASSUME NEW p \in Prefixes
             PROVE  LET uri == standsFor(doc, <<f>>, inheritedScope, 1, p)
                    IN  /\ named(f.scope[p]) = uri
                        /\ f.emit[p] = IF uri = Empty THEN None ELSE uri
                        /\ f.keys[p] = IF p = Default THEN Empty ELSE uri
  BY DEF Faithful
<1>1. doc \in DocumentSet /\ inheritedScope \in Declarations
  BY NearestTypes DEF TypeOK
<1>2. /\ f.node = apex
      /\ named(f.scope[p]) = IF doc.decl[apex][p] # None THEN named(doc.decl[apex][p])
                             ELSE IF inheritedScope[p] # None THEN named(inheritedScope[p])
                             ELSE named(nothing[p])
      /\ f.emit[p] = IF named(f.scope[p]) = named(nothing[p]) THEN None
                                                              ELSE named(f.scope[p])
      /\ f.keys[p] = IF p = Default THEN Empty ELSE named(f.scope[p])
  BY <1>1, NothingShows, OpenedShows
<1>3. named(nothing[p]) = Empty
  BY NothingShows
<1> HIDE DEF f
<1>4. <<f>>[1] = f
  OBVIOUS
<1>5. standsFor(doc, <<f>>, inheritedScope, 1, p) =
        named(IF doc.decl[apex][p] # None THEN doc.decl[apex][p] ELSE inheritedScope[p])
  BY <1>2, <1>4, StandsForFirst
<1>6. named(f.scope[p]) = standsFor(doc, <<f>>, inheritedScope, 1, p)
  BY <1>2, <1>3, <1>5 DEF named
<1> QED BY <1>2, <1>3, <1>6

LEMMA FaithfulChild ==
  ASSUME TypeOK, Faithful(frames), frames # <<>>, NEW n \in Nodes
  PROVE  Faithful(Append(frames, opened(n, nothing, top.scope)))
<1> DEFINE f  == opened(n, nothing, top.scope)
           gs == Append(frames, f)
           k  == Len(frames)
<1>1. /\ doc \in DocumentSet /\ k \in Nat \ {0} /\ k \in DOMAIN frames
      /\ top = frames[k] /\ top.scope \in Declarations
  <2>1. doc \in DocumentSet /\ frames \in Seq(Frame)
    BY DEF TypeOK
  <2>2. k \in Nat \ {0} /\ k \in DOMAIN frames
    BY <2>1
  <2>3. top = frames[k] /\ top \in Frame
    BY <2>1, <2>2 DEF top
  <2> QED BY <2>1, <2>2, <2>3 DEF Frame
<1>2. /\ f.node = n
      /\ \A p \in Prefixes :
           /\ named(f.scope[p]) = IF doc.decl[n][p] # None THEN named(doc.decl[n][p])
                                  ELSE IF nothing[p] # None THEN named(nothing[p])
                                  ELSE named(top.scope[p])
           /\ f.emit[p] = IF named(f.scope[p]) = named(top.scope[p]) THEN None
                                                                   ELSE named(f.scope[p])
           /\ f.keys[p] = IF p = Default THEN Empty ELSE named(f.scope[p])
  <2>1. f.node = n
    BY DEF opened
  <2>2. nothing \in Declarations
    BY NothingShows
  <2> QED BY <1>1, <2>1, <2>2, OpenedShows
<1> HIDE DEF f
<1>3. /\ DOMAIN gs = 1 .. k + 1 /\ gs[k + 1] = f
      /\ \A i \in 1 .. k : gs[i] = frames[i]
  BY DEF TypeOK
<1> HIDE DEF gs
<1>4. \A i \in 1 .. k : \A p \in Prefixes :
        standsFor(doc, gs, inheritedScope, i, p) = standsFor(doc, frames, inheritedScope, i, p)
  BY <1>3, StandsForKept
<1> SUFFICES ASSUME NEW i \in 1 .. k + 1, NEW p \in Prefixes
             PROVE  LET uri    == standsFor(doc, gs, inheritedScope, i, p)
                        parent == IF i = 1 THEN Empty
                                  ELSE standsFor(doc, gs, inheritedScope, i - 1, p)
                    IN  /\ named(gs[i].scope[p]) = uri
                        /\ gs[i].emit[p] = IF uri = parent THEN None ELSE uri
                        /\ gs[i].keys[p] = IF p = Default THEN Empty ELSE uri
  <2>1. Faithful(gs)
    BY <1>3 DEF Faithful
  <2> QED BY <2>1 DEF gs, f
<1>5. CASE i \in 1 .. k
  <2>1. i \in DOMAIN frames /\ gs[i] = frames[i]
    BY <1>3, <1>5 DEF TypeOK
  <2>2. CASE i = 1
    BY <1>4, <1>5, <2>1, <2>2 DEF Faithful
  <2>3. CASE i # 1
    <3>1. i - 1 \in 1 .. k
      BY <1>5, <2>3
    <3> QED BY <1>4, <1>5, <2>1, <2>3, <3>1 DEF Faithful
  <2> QED BY <2>2, <2>3
<1>6. CASE i = k + 1
  <2>1. standsFor(doc, gs, inheritedScope, k, p) = named(top.scope[p])
    BY <1>1, <1>4 DEF Faithful
  <2>2. standsFor(doc, gs, inheritedScope, k + 1, p) =
          IF doc.decl[n][p] # None THEN named(doc.decl[n][p])
                                   ELSE standsFor(doc, gs, inheritedScope, k, p)
    <3>1. k \in Nat /\ gs[k + 1].node = n
      BY <1>1, <1>2, <1>3
    <3> HIDE DEF k
    <3>2. standsFor(doc, gs, inheritedScope, k + 1, p) =
            IF doc.decl[gs[k + 1].node][p] # None THEN named(doc.decl[gs[k + 1].node][p])
                                                  ELSE standsFor(doc, gs, inheritedScope, k, p)
      BY <3>1, StandsForNext
    <3> QED BY <3>1, <3>2
  <2>3. named(f.scope[p]) = standsFor(doc, gs, inheritedScope, k + 1, p)
    BY <1>2, <2>1, <2>2 DEF nothing
  <2>4. i # 1 /\ i - 1 = k /\ gs[i] = f
    BY <1>1, <1>3, <1>6
  <2> QED BY <1>2, <1>6, <2>1, <2>3, <2>4
<1> QED BY <1>5, <1>6

LEMMA FaithfulPrefix ==
  ASSUME TypeOK, Faithful(frames), frames # <<>>
  PROVE  Faithful(SubSeq(frames, 1, Len(frames) - 1))
<1> DEFINE k  == Len(frames) - 1
           gs == SubSeq(frames, 1, k)
<1>1. /\ k \in Nat /\ DOMAIN frames = 1 .. k + 1
      /\ DOMAIN gs = 1 .. k /\ \A i \in 1 .. k : gs[i] = frames[i]
  BY DEF TypeOK
<1> HIDE DEF gs, k
<1>2. \A i \in 1 .. k : \A p \in Prefixes :
        standsFor(doc, gs, inheritedScope, i, p) = standsFor(doc, frames, inheritedScope, i, p)
  BY <1>1, StandsForKept
<1>3. \A i \in 1 .. k : i = 1 \/ i - 1 \in 1 .. k
  BY <1>1
<1>4. Faithful(gs)
  BY <1>1, <1>2, <1>3 DEF Faithful
<1> QED BY <1>4 DEF gs, k
-------------------------------------------------------------------------------
LEMMA NestedChild ==
  ASSUME TypeOK, frames # <<>>, NEW f, doc.parent[f.node] = top.node
  PROVE  \A i \in DOMAIN Append(frames, f) :
           IF i = 1 THEN Append(frames, f)[i].node = apex
           ELSE doc.parent[Append(frames, f)[i].node] = Append(frames, f)[i - 1].node
<1> DEFINE k == Len(frames)
           gs == Append(frames, f)
<1>1. /\ k \in Nat \ {0} /\ DOMAIN frames = 1 .. k /\ DOMAIN gs = 1 .. k + 1
      /\ gs[k + 1] = f /\ \A i \in 1 .. k : gs[i] = frames[i]
  BY DEF TypeOK
<1>2. top = frames[k]
  BY DEF top
<1> HIDE DEF gs, k
<1>3. ASSUME NEW i \in 1 .. k
      PROVE  IF i = 1 THEN gs[i].node = apex ELSE doc.parent[gs[i].node] = gs[i - 1].node
  <2>1. i = 1 \/ i - 1 \in 1 .. k
    BY <1>1
  <2> QED BY <1>1, <2>1 DEF TypeOK, Nested
<1>4. k + 1 # 1 /\ (k + 1) - 1 = k /\ gs[k] = top
  BY <1>1, <1>2
<1>5. \A i \in 1 .. k + 1 : i \in 1 .. k \/ i = k + 1
  BY <1>1
<1> QED BY <1>1, <1>3, <1>4, <1>5 DEF gs

LEMMA NestedPrefix ==
  ASSUME TypeOK, frames # <<>>, Close
  PROVE  Nested'
<1> DEFINE k == Len(frames) - 1
<1>1. /\ k \in Nat /\ DOMAIN frames = 1 .. k + 1
      /\ DOMAIN frames' = 1 .. k /\ \A i \in 1 .. k : frames'[i] = frames[i]
      /\ doc' = doc /\ apex' = apex
  BY DEF TypeOK, Close, input
<1> HIDE DEF k
<1>2. \A i \in 1 .. k : i = 1 \/ i - 1 \in 1 .. k
  BY <1>1
<1>3. 1 .. k \subseteq DOMAIN frames
  BY <1>1
<1> QED BY <1>1, <1>2, <1>3 DEF TypeOK, Nested

LEMMA InitInv == Init => Inv
<1> SUFFICES ASSUME Init PROVE Inv
  OBVIOUS
<1>1. above \in Seq(Nodes)
  BY DEF Init
<1>2. TypeOK
  BY <1>1, CanonicalizerAssumption DEF Init, TypeOK, Nested
<1>3. Faithful(frames)
  BY DEF Init, Faithful
<1> QED BY <1>2, <1>3, FaithfulInv DEF Inv

(* The stack after a step: the apex alone, one more, one less, or as it was.    *)
LEMMA StepInv ==
  ASSUME Inv, [Next]_vars
  PROVE  Inv'
<1>0. TypeOK /\ Faithful(frames)
  BY FaithfulInv DEF Inv
<1>1. UNCHANGED input
  BY DEF Next, Begin, Visit, Close, vars
<1>2. inheritedScope' = inheritedScope /\ doc' = doc
  BY <1>1 DEF input, inheritedScope
<1>3. CASE Begin
  <2>1. Faithful(frames')
    BY <1>0, <1>3, FaithfulApex DEF Begin, TypeOK
  <2>2. frames' \in Seq(Frame) /\ frames' # <<>>
    BY <1>0, <1>3, NearestTypes, NothingShows, OpenedTypes DEF Begin, TypeOK
  <2>3. Nested'
    BY <1>1, <1>3 DEF Begin, Nested, opened, input
  <2>4. TypeOK'
    BY <1>0, <1>1, <1>3, <2>2, <2>3 DEF Begin, TypeOK, input
  <2> QED BY <1>2, <2>1, <2>4 DEF Inv, Faithful, ScopeIsFaithful, MinimalDeclarations, AttributeKeys, inScope
<1>4. CASE Visit
  <2>1. least(unvisited) \in Nodes
    <3>1. unvisited \in SUBSET Nat /\ unvisited # {} /\ unvisited \subseteq Nodes
      BY <1>4, CanonicalizerAssumption DEF Visit, unvisited, children
    <3> QED BY <3>1, LeastOfNat
  <2> DEFINE n == least(unvisited)
  <2>2. frames # <<>> /\ pc = "walk"
    BY <1>0, <1>4 DEF Visit, TypeOK
  <2>3. /\ frames' = Append(frames, opened(n, nothing, top.scope)) \/ frames' = frames
        /\ written' = Append(written, n) \/ written' = written
    BY <1>4 DEF Visit, Open, Text, Pass
  <2> HIDE DEF n
  <2>4. Faithful(frames')
    BY <1>0, <2>1, <2>2, <2>3, FaithfulChild DEF n
  <2>5. frames' \in Seq(Frame) /\ frames' # <<>>
    <3>1. top.scope \in Declarations
      <4>1. frames \in Seq(Frame)
        BY <1>0 DEF TypeOK
      <4>2. top \in Frame
        BY <2>2, <4>1 DEF top
      <4> QED BY <4>2 DEF Frame
    <3>2. opened(n, nothing, top.scope) \in Frame
      BY <1>0, <2>1, <3>1, NothingShows, OpenedTypes DEF TypeOK, n
    <3>3. frames \in Seq(Frame)
      BY <1>0 DEF TypeOK
    <3>4. PICK f \in Frame : f = opened(n, nothing, top.scope)
      BY <3>2
    <3>5. Append(frames, f) \in Seq(Frame) /\ Append(frames, f) # <<>>
      BY ONLY <3>3, <3>4, AppendProperties
    <3> QED BY <2>2, <2>3, <3>3, <3>4, <3>5
  <2>6. visited' \subseteq Nodes /\ written' \in Seq(Nodes)
    <3>1. visited' = visited \cup {n}
      BY <1>4 DEF Visit, n
    <3>2. n \in Nodes /\ written \in Seq(Nodes) /\ visited \subseteq Nodes
      BY <1>0, <2>1 DEF TypeOK, n
    <3> QED BY <2>3, <3>1, <3>2
  <2>7. Nested'
    <3>1. doc.parent[n] = top.node
      <4>1. unvisited \in SUBSET Nat /\ unvisited # {}
        BY <1>4, CanonicalizerAssumption DEF Visit, unvisited, children
      <4>2. n \in unvisited
        BY <4>1, LeastOfNat DEF n
      <4> QED BY <4>2 DEF unvisited, children
    <3>2. PICK f : f = opened(n, nothing, top.scope)
      OBVIOUS
    <3>3. f.node = n
      BY <3>2 DEF opened
    <3>4. CASE frames' = Append(frames, f)
      BY <1>0, <1>1, <2>2, <3>1, <3>3, <3>4, NestedChild DEF Nested, input
    <3>5. CASE frames' = frames
      BY <1>0, <1>1, <3>5 DEF TypeOK, Nested, input
    <3> QED BY <2>3, <3>2, <3>4, <3>5
  <2>8. TypeOK'
    BY <1>0, <1>1, <1>4, <2>2, <2>5, <2>6, <2>7 DEF Visit, TypeOK, input
  <2> QED BY <1>2, <2>4, <2>8 DEF Inv, Faithful, ScopeIsFaithful, MinimalDeclarations, AttributeKeys, inScope
<1>5. CASE Close
  <2>1. frames # <<>>
    BY <1>0, <1>5 DEF Close, TypeOK
  <2>2. Faithful(frames')
    BY <1>0, <1>5, <2>1, FaithfulPrefix DEF Close
  <2>3. frames' \in Seq(Frame) /\ (frames' = <<>> <=> Len(frames) = 1)
    <3>1. frames \in Seq(Frame)
      BY <1>0 DEF TypeOK
    <3> QED BY <1>5, <2>1, <3>1, FrontTypes DEF Close
  <2>4. TypeOK'
    BY <1>0, <1>1, <1>5, <2>1, <2>3, NestedPrefix DEF Close, TypeOK, input
  <2> QED BY <1>2, <2>2, <2>4 DEF Inv, Faithful, ScopeIsFaithful, MinimalDeclarations, AttributeKeys, inScope
<1>6. CASE UNCHANGED vars
  BY <1>2, <1>6 DEF Inv, TypeOK, Nested, ScopeIsFaithful, MinimalDeclarations, AttributeKeys, inScope, vars, input
<1> QED BY <1>3, <1>4, <1>5, <1>6 DEF Next

THEOREM Invariance == Spec => []Inv
BY InitInv, StepInv, PTL DEF Spec

(* The stack of open elements and what they wrote keep their types, whatever    *)
(* the document; what is written is namespace-well-formed.                      *)
THEOREM TypeCorrect == Spec => []TypeOK
BY Invariance, PTL DEF Inv

(* Canonicalization changes no name: every prefix stands, on every element of   *)
(* the output, for the namespace it stands for in the document.                 *)
THEOREM KeepsNamespaces == Spec => []ScopeIsFaithful
BY Invariance, PTL DEF Inv

(* The namespace axis is the one Canonical XML defines.                         *)
THEOREM WritesMinimally == Spec => []MinimalDeclarations
BY Invariance, PTL DEF Inv

(* Attributes are sorted by the namespaces they are in; those without a prefix  *)
(* are in none.                                                                 *)
THEOREM SortsByNamespace == Spec => []AttributeKeys
BY Invariance, PTL DEF Inv
-------------------------------------------------------------------------------
(* Trees: a node is below its ancestors, found by going up.                     *)
Tree == doc \in Documents /\ apex \in Nodes

LEMMA TreeTypes ==
  ASSUME Tree, NEW n \in Nodes
  PROVE  /\ doc \in DocumentSet /\ n \in Nat \ {0} /\ 0 \notin Nodes
         /\ doc.parent[n] \in Nodes \cup {0} /\ doc.parent[n] < n
         /\ doc.parent[n] \in Nodes => doc.kind[doc.parent[n]] = "element"
         /\ doc.decl[n] \in Declarations /\ doc.kind[n] \in Kinds /\ doc.space[n] \in Prefixes
BY CanonicalizerAssumption DEF Tree, DocumentSet

LEMMA SubtreeHas ==
  ASSUME NEW n \in Nodes
  PROVE  /\ n \in Subtree(n) /\ Subtree(n) \subseteq Nodes
         /\ \A c \in Nodes : doc.parent[c] \in Subtree(n) => c \in Subtree(n)
BY DEF Subtree

(* A set of the nodes with n and the children of its nodes has all below n.     *)
LEMMA SubtreeLeast ==
  ASSUME NEW n \in Nodes, NEW S \in SUBSET Nodes, n \in S,
         \A c \in Nodes : doc.parent[c] \in S => c \in S
  PROVE  Subtree(n) \subseteq S
BY DEF Subtree

LEMMA SubtreeUp ==
  ASSUME NEW n \in Nodes, NEW m \in Nodes
  PROVE  m \in Subtree(n) <=> m = n \/ doc.parent[m] \in Subtree(n)
<1>1. ASSUME m \in Subtree(n), m # n, doc.parent[m] \notin Subtree(n) PROVE FALSE
  <2> DEFINE S == Subtree(n) \ {m}
  <2>1. /\ S \in SUBSET Nodes /\ n \in S
        /\ \A c \in Nodes : doc.parent[c] \in S => c \in S
    BY <1>1, SubtreeHas
  <2>2. m \notin S
    OBVIOUS
  <2> HIDE DEF S
  <2> QED BY <1>1, <2>1, <2>2, SubtreeLeast
<1> QED BY <1>1, SubtreeHas

LEMMA SubtreeDown ==
  ASSUME Tree, NEW n \in Nodes, NEW m \in Subtree(n)
  PROVE  n <= m
<1> DEFINE S == {k \in Nodes : n <= k}
<1>1. S \in SUBSET Nodes /\ n \in S
  BY TreeTypes
<1>2. ASSUME NEW c \in Nodes, doc.parent[c] \in S PROVE c \in S
  BY <1>2, TreeTypes
<1> QED BY <1>1, <1>2, SubtreeLeast

(* A way down from a root: the ancestors of its i-th node are those before it.  *)
Way(q) == q \in Seq(Nodes) /\ \A i \in DOMAIN q : doc.parent[q[i]] = IF i = 1 THEN 0 ELSE q[i - 1]

LEMMA WayAncestors ==
  ASSUME Tree, NEW q, Way(q), NEW m \in Nodes, NEW i \in DOMAIN q
  PROVE  q[i] \in Subtree(m) <=> \E j \in 1 .. i : m = q[j]
<1> DEFINE Right(k) == q[k] \in Subtree(m) <=> \E j \in 1 .. k : m = q[j]
           wrong == {k \in DOMAIN q : ~Right(k)}
<1>1. /\ DOMAIN q = 1 .. Len(q) /\ Len(q) \in Nat
      /\ \A k \in DOMAIN q : q[k] \in Nodes /\ doc.parent[q[k]] = IF k = 1 THEN 0 ELSE q[k - 1]
  BY DEF Way
<1>2. ASSUME wrong # {} PROVE FALSE
  <2>1. wrong \in SUBSET Nat
    BY <1>1
  <2> DEFINE k == least(wrong)
  <2>2. k \in wrong /\ \A j \in wrong : k <= j
    BY <1>2, <2>1, LeastOfNat
  <2>3. k \in DOMAIN q /\ ~Right(k) /\ k \in Nat \ {0}
    BY <1>1, <2>2
  <2> HIDE DEF k, wrong
  <2>4. q[k] \in Subtree(m) <=> q[k] = m \/ doc.parent[q[k]] \in Subtree(m)
    BY <1>1, <2>3, SubtreeUp
  <2>5. CASE k = 1
    <3>1. doc.parent[q[k]] \notin Subtree(m)
      BY <1>1, <2>3, <2>5, SubtreeHas, TreeTypes
    <3> QED BY <2>3, <2>4, <2>5, <3>1
  <2>6. CASE k # 1
    <3>1. k - 1 \in DOMAIN q /\ ~(k <= k - 1)
      BY <1>1, <2>3, <2>6
    <3>2. Right(k - 1)
      BY <2>2, <3>1 DEF wrong
    <3>3. doc.parent[q[k]] = q[k - 1]
      BY <1>1, <2>3, <2>6
    <3>4. (\E j \in 1 .. k : m = q[j]) <=> m = q[k] \/ \E j \in 1 .. k - 1 : m = q[j]
      BY <2>3
    <3> QED BY <2>3, <2>4, <3>2, <3>3, <3>4
  <2> QED BY <2>5, <2>6
<1> QED BY <1>2

LEMMA WayDown ==
  ASSUME Tree, NEW q, Way(q), NEW i \in DOMAIN q, NEW j \in 1 .. i
  PROVE  j \in DOMAIN q /\ q[j] <= q[i]
<1>1. j \in DOMAIN q /\ q[j] \in Nodes /\ q[i] \in Nodes
  BY DEF Way
<1>2. q[i] \in Subtree(q[j])
  BY <1>1, WayAncestors
<1> QED BY <1>1, <1>2, SubtreeDown

(* The nearest declaration along the way is that of the last ancestor with one. *)
LEMMA WayNamespace ==
  ASSUME Tree, NEW q, Way(q), q # <<>>, NEW n \in Nodes, q[Len(q)] = n
  PROVE  named(nearest(doc, q)[doc.space[n]]) = ownNamespace(n)
<1> DEFINE p == doc.space[n]
           at == {i \in DOMAIN q : doc.decl[q[i]][p] # None}
           on == {m \in Nodes : n \in Subtree(m) /\ doc.decl[m][p] # None}
<1>1. /\ DOMAIN q = 1 .. Len(q) /\ Len(q) \in DOMAIN q /\ Len(q) \in Nat /\ p \in Prefixes
      /\ \A i \in DOMAIN q : q[i] \in Nodes /\ q[i] \in Nat
  BY TreeTypes DEF Way
<1>2. on = {q[i] : i \in at}
  <2>1. ASSUME NEW m \in Nodes PROVE n \in Subtree(m) <=> \E i \in DOMAIN q : m = q[i]
    BY <1>1, WayAncestors
  <2> QED BY <1>1, <2>1
<1>3. nearest(doc, q)[p] = IF at = {} THEN None ELSE doc.decl[q[greatest(at)]][p]
  BY <1>1 DEF nearest
<1>4. ownNamespace(n) = IF on = {} THEN Empty ELSE doc.decl[greatest(on)][p]
  BY DEF ownNamespace
<1>5. CASE at = {}
  BY <1>2, <1>3, <1>4, <1>5 DEF named
<1>6. CASE at # {}
  <2> DEFINE g == greatest(at)
  <2>1. g \in at /\ \A i \in at : i <= g
    BY <1>1, <1>6, GreatestOfRange
  <2> HIDE DEF g
  <2>2. q[g] \in on /\ \A m \in on : m <= q[g]
    <3>1. ASSUME NEW i \in at PROVE q[i] <= q[g]
      BY <1>1, <2>1, WayDown
    <3> QED BY <1>2, <2>1, <3>1
  <2>3. on \subseteq Nat
    BY <1>1, <1>2
  <2> HIDE DEF on, at
  <2>4. greatest(on) = q[g]
    <3>1. greatest(on) \in on /\ \A m \in on : m <= greatest(on)
      <4>1. \E m \in on : \A k \in on : k <= m
        BY <2>2
      <4> QED BY <4>1 DEF greatest
    <3>2. greatest(on) <= q[g] /\ q[g] <= greatest(on) /\ greatest(on) \in Nat /\ q[g] \in Nat
      BY <2>2, <2>3, <3>1
    <3> QED BY <3>2
  <2>5. doc.decl[q[g]][p] # None
    BY <2>1 DEF at
  <2> QED BY <1>3, <1>4, <1>6, <2>2, <2>4, <2>5 DEF named, g
<1> QED BY <1>5, <1>6
-------------------------------------------------------------------------------
Kept == kept({"element", "text"})

(* The open elements are written, and are elements.                             *)
Opens ==
  \A i \in DOMAIN frames : frames[i].node \in output /\ doc.kind[frames[i].node] = "element"

(* What was written is to be kept; what was visited is written, or has no       *)
(* place in the output; and of an element that was closed all was visited.      *)
Walked ==
  /\ Tree /\ chainTo(doc, above, apex) /\ doc.kind[apex] = "element"
  /\ IF pc = "start" THEN visited = {} ELSE apex \in output
  /\ output \subseteq Kept
  /\ \A n \in visited : \/ n \in output \/ doc.kind[n] \in {"comment", "pi"}
                        \/ enveloped /\ n \in signatures
  /\ \A n \in output : doc.kind[n] = "element" =>
       (\E i \in DOMAIN frames : frames[i].node = n) \/ children(n) \subseteq visited

(* What was visited comes, in document order, before what an open element has   *)
(* still to look at; and so what was written is written in that order.          *)
Ordered ==
  /\ \A i, j \in DOMAIN frames : i < j => frames[i].node < frames[j].node
  /\ \A i, j \in DOMAIN written : i < j => written[i] < written[j]
  /\ output \subseteq visited \cup {apex}
  /\ \A i \in DOMAIN frames : \A c \in children(frames[i].node) \ visited :
       \A m \in visited \cup {apex} : m < c

LEMMA InitWalked == Init => Walked /\ Opens /\ Ordered
BY DEF Init, Walked, Opens, Tree, Ordered, output

LEMMA OutputGrows ==
  ASSUME written \in Seq(Nodes), NEW n \in Nodes, written' = Append(written, n)
  PROVE  output' = output \cup {n}
<1>1. /\ DOMAIN written' = 1 .. Len(written) + 1 /\ DOMAIN written = 1 .. Len(written)
      /\ written'[Len(written) + 1] = n /\ Len(written) \in Nat
      /\ \A i \in 1 .. Len(written) : written'[i] = written[i]
  OBVIOUS
<1>2. \A i \in 1 .. Len(written) + 1 : i \in 1 .. Len(written) \/ i = Len(written) + 1
  BY <1>1
<1>3. 1 .. Len(written) \subseteq 1 .. Len(written) + 1 /\ Len(written) + 1 \in 1 .. Len(written) + 1
  BY <1>1
<1> QED BY <1>1, <1>2, <1>3 DEF output

LEMMA ApexKept ==
  ASSUME Tree, doc.kind[apex] = "element"
  PROVE  apex \in Kept
<1>1. apex \in Subtree(apex)
  BY SubtreeHas DEF Tree
<1>2. ASSUME NEW s \in Subtree(apex) \ {apex} PROVE apex \notin Subtree(s)
  <2>1. s \in Nodes /\ apex \in Nodes /\ apex <= s
    BY SubtreeHas, SubtreeDown DEF Tree
  <2>2. apex \in Subtree(s) => s <= apex
    BY <2>1, SubtreeDown
  <2> QED BY <2>1, <2>2, TreeTypes
<1> QED BY <1>1, <1>2 DEF Kept, kept

(* What is below an element that is kept is kept, but for comments, processing  *)
(* instructions and what the transform excludes.                                *)
LEMMA ChildKept ==
  ASSUME Tree, NEW n \in Nodes, doc.parent[n] \in Kept, doc.kind[n] \in {"element", "text"},
         ~(enveloped /\ n \in signatures)
  PROVE  n \in Kept
<1>1. doc.parent[n] \in Subtree(apex) /\ n \in Subtree(apex)
  BY SubtreeHas DEF Kept, kept, Tree
<1>2. ASSUME enveloped, NEW s \in (signatures \cap Subtree(apex)) \ {apex} PROVE n \notin Subtree(s)
  <2>1. s \in Nodes /\ n # s
    BY <1>2 DEF signatures
  <2>2. doc.parent[n] \notin Subtree(s)
    BY <1>2 DEF Kept, kept
  <2> QED BY <2>1, <2>2, SubtreeUp
<1> QED BY <1>1, <1>2 DEF Kept, kept

(* The path to a child of the open element is the way down to it.               *)
LEMMA PathIsWay ==
  ASSUME TypeOK, Walked, Opens, frames # <<>>, NEW n \in children(top.node)
  PROVE  Way(Append(path, n)) /\ Append(path, n)[Len(Append(path, n))] = n
<1> DEFINE fs == [i \in DOMAIN frames |-> frames[i].node]
           a == Len(above)
           k == Len(frames)
           q == Append(path, n)
<1>1. /\ above \in Seq(Nodes) /\ a \in Nat /\ k \in Nat \ {0} /\ n \in Nodes
      /\ DOMAIN frames = 1 .. k /\ \A i \in 1 .. k : frames[i] \in Frame
  BY DEF TypeOK, children
<1>2. fs \in Seq(Nodes) /\ Len(fs) = k /\ \A i \in 1 .. k : fs[i] = frames[i].node
  BY <1>1 DEF Frame
<1> HIDE DEF fs
<1>3. path = above \o fs
  BY DEF path, fs
<1>4. /\ path \in Seq(Nodes) /\ Len(path) = a + k
      /\ \A i \in 1 .. a + k : path[i] = IF i <= a THEN above[i] ELSE fs[i - a]
  <2>1. /\ above \o fs \in Seq(Nodes) /\ Len(above \o fs) = Len(above) + Len(fs)
        /\ \A i \in 1 .. Len(above) + Len(fs) :
             (above \o fs)[i] = IF i <= Len(above) THEN above[i] ELSE fs[i - Len(above)]
    BY ONLY <1>1, <1>2, ConcatProperties
  <2> QED BY <1>2, <1>3, <2>1
<1>5. /\ q \in Seq(Nodes) /\ Len(q) = a + k + 1 /\ q[a + k + 1] = n
      /\ DOMAIN q = 1 .. a + k + 1
      /\ \A i \in 1 .. a + k : q[i] = IF i <= a THEN above[i] ELSE fs[i - a]
  BY <1>1, <1>4
<1> HIDE DEF q, k
<1>6. doc.parent[n] = fs[k]
  BY <1>1, <1>2 DEF children, top, k
<1>7. ASSUME NEW i \in 1 .. a
      PROVE  doc.parent[above[i]] = IF i = 1 THEN 0 ELSE above[i - 1]
  BY <1>1 DEF Walked, chainTo
<1>8. doc.parent[apex] = IF a = 0 THEN 0 ELSE above[a]
  BY <1>1 DEF Walked, chainTo
<1>9. ASSUME NEW i \in 1 .. k
      PROVE  IF i = 1 THEN fs[i] = apex ELSE doc.parent[fs[i]] = fs[i - 1]
  <2>1. i # 1 => i - 1 \in 1 .. k
    BY <1>1
  <2> QED BY <1>1, <1>2, <2>1 DEF TypeOK, Nested
<1> HIDE DEF a
<1>10. ASSUME NEW i \in 1 .. a + k + 1
       PROVE  doc.parent[q[i]] = IF i = 1 THEN 0 ELSE q[i - 1]
  <2>1. CASE i <= a
    <3>1. i \in 1 .. a /\ i \in 1 .. a + k /\ (i # 1 => i - 1 \in 1 .. a + k /\ i - 1 <= a)
      BY <1>1, <2>1
    <3> QED BY <1>5, <1>7, <3>1
  <2>2. CASE i = a + 1
    <3>1. i \in 1 .. a + k /\ ~(i <= a) /\ i - a = 1 /\ 1 \in 1 .. k
      BY <1>1, <2>2
    <3>2. q[i] = apex
      BY <1>5, <1>9, <3>1
    <3>3. i # 1 => i - 1 = a /\ a \in 1 .. a + k /\ a <= a
      BY <1>1, <2>2
    <3>4. i = 1 <=> a = 0
      BY <1>1, <2>2
    <3> QED BY <1>5, <1>8, <3>2, <3>3, <3>4
  <2>3. CASE a + 1 < i /\ i <= a + k
    <3>1. /\ i \in 1 .. a + k /\ ~(i <= a) /\ i - a \in 1 .. k /\ i - a # 1 /\ i # 1
          /\ i - 1 \in 1 .. a + k /\ ~(i - 1 <= a) /\ (i - 1) - a = (i - a) - 1
      BY <1>1, <2>3
    <3>2. doc.parent[fs[i - a]] = fs[(i - a) - 1]
      BY <1>9, <3>1
    <3> QED BY <1>5, <3>1, <3>2
  <2>4. CASE i = a + k + 1
    <3>1. i # 1 /\ i - 1 = a + k /\ a + k \in 1 .. a + k /\ ~(a + k <= a) /\ (a + k) - a = k
      BY <1>1, <2>4
    <3> QED BY <1>5, <1>6, <2>4, <3>1
  <2> QED BY <1>1, <2>1, <2>2, <2>3, <2>4
<1> QED BY <1>5, <1>10 DEF Way, q

(* What the walk excludes are the signatures.                                   *)
LEMMA ExcludedAreSignatures ==
  ASSUME TypeOK, Walked, Opens, frames # <<>>, NEW n \in children(top.node), doc.kind[n] = "element"
  PROVE  excluded(n) <=> enveloped /\ n \in signatures
<1>1. n \in Nodes
  BY DEF children
<1>2. namespaceOf(n) = ownNamespace(n)
  <2> DEFINE q == Append(path, n)
  <2>1. Way(q) /\ q[Len(q)] = n
    BY PathIsWay
  <2>2. q # <<>>
    BY <2>1 DEF Way
  <2> HIDE DEF q
  <2>3. named(nearest(doc, q)[doc.space[n]]) = ownNamespace(n)
    BY <1>1, <2>1, <2>2, WayNamespace DEF Walked
  <2> QED BY <2>3 DEF namespaceOf, q
<1> QED BY <1>1, <1>2 DEF excluded, IsSignature, signatures

LEMMA StepWalked ==
  ASSUME TypeOK, Walked, Opens, [Next]_vars
  PROVE  Walked' /\ Opens'
<1>1. UNCHANGED <<doc, apex, enveloped, above>>
  BY DEF Next, Begin, Visit, Close, vars, input
<1>2. Tree' /\ chainTo(doc, above, apex)' /\ (doc.kind[apex] = "element")'
  BY <1>1 DEF Walked, Tree, chainTo
<1>3. \A n : Subtree(n)' = Subtree(n) /\ children(n)' = children(n)
  BY <1>1 DEF Subtree, children
<1>4. \A n : ownNamespace(n)' = ownNamespace(n)
  BY <1>1, <1>3 DEF ownNamespace
<1>5. signatures' = signatures
  BY <1>1, <1>4 DEF signatures
<1>6. Kept' = Kept
  BY <1>1, <1>3, <1>5 DEF Kept, kept
<1>7. CASE Begin
  <2> DEFINE f == opened(apex, inheritedScope, nothing)
  <2>1. frames' = <<f>> /\ f.node = apex /\ output' = {apex} /\ visited' = visited
    BY <1>7 DEF Begin, opened, output
  <2> HIDE DEF f
  <2>2. DOMAIN frames' = {1} /\ frames'[1] = f
    BY <2>1
  <2>3. apex \in Kept
    BY ApexKept DEF Walked
  <2>4. visited = {}
    BY <1>7 DEF Begin, Walked
  <2>5. Opens'
    BY <1>1, <1>2, <2>1, <2>2 DEF Opens
  <2> QED BY <1>1, <1>2, <1>3, <1>5, <1>6, <2>1, <2>2, <2>3, <2>4, <2>5 DEF Walked
<1>8. CASE UNCHANGED vars
  BY <1>1, <1>2, <1>3, <1>5, <1>6, <1>8 DEF Walked, Opens, vars, output
<1>9. CASE Visit
  <2> DEFINE n == least(unvisited)
  <2>1. frames # <<>> /\ unvisited # {} /\ pc = "walk"
    BY <1>9 DEF Visit, TypeOK
  <2>2. n \in unvisited
    BY <2>1, LeastOfNat, CanonicalizerAssumption DEF unvisited, children
  <2>3. n \in children(top.node) /\ n \in Nodes /\ doc.parent[n] = top.node
    BY <2>2 DEF unvisited, children
  <2>4. visited' = visited \cup {n} /\ pc' = pc /\ (Open(n) \/ Text(n) \/ Pass(n))
    BY <1>9 DEF Visit
  <2> HIDE DEF n
  <2>5. top = frames[Len(frames)] /\ Len(frames) \in DOMAIN frames /\ Len(frames) \in Nat \ {0}
    BY <2>1 DEF top, TypeOK
  <2>6. doc.parent[n] \in Kept
    BY <2>3, <2>5 DEF Opens, Walked
  <2>7. CASE Pass(n)
    <3>1. UNCHANGED <<frames, output>>
      BY <2>7 DEF Pass, output
    <3>2. doc.kind[n] \in {"comment", "pi"} \/ (enveloped /\ n \in signatures)
      BY <2>1, <2>3, <2>7, ExcludedAreSignatures DEF Pass
    <3> QED BY <1>1, <1>2, <1>3, <1>5, <1>6, <2>1, <2>4, <3>1, <3>2 DEF Walked, Opens
  <2>8. CASE Text(n)
    <3>1. frames' = frames /\ output' = output \cup {n} /\ doc.kind[n] = "text"
      BY <2>3, <2>8, OutputGrows DEF Text, TypeOK
    <3>2. n \in Kept
      BY <2>3, <2>6, <3>1, ChildKept DEF Walked, signatures
    <3> QED BY <1>1, <1>2, <1>3, <1>5, <1>6, <2>1, <2>4, <3>1, <3>2 DEF Walked, Opens
  <2>9. CASE Open(n)
    <3>1. PICK f : /\ frames' = Append(frames, f) /\ f.node = n
                   /\ output' = output \cup {n} /\ doc.kind[n] = "element" /\ ~excluded(n)
      <4>1. frames' = Append(frames, opened(n, nothing, top.scope)) /\ opened(n, nothing, top.scope).node = n
        BY <2>9 DEF Open, opened
      <4> QED BY <2>3, <2>9, <4>1, OutputGrows DEF Open, TypeOK
    <3>2. n \in Kept
      BY <2>1, <2>3, <2>6, <3>1, ChildKept, ExcludedAreSignatures DEF Walked
    <3>3. /\ DOMAIN frames' = 1 .. Len(frames) + 1 /\ DOMAIN frames = 1 .. Len(frames)
          /\ frames'[Len(frames) + 1] = f
          /\ \A i \in DOMAIN frames : frames'[i] = frames[i]
      BY <3>1 DEF TypeOK
    <3>4. Opens'
      <4>1. \A i \in DOMAIN frames' : i \in DOMAIN frames \/ frames'[i] = f
        BY <2>5, <3>3
      <4> QED BY <1>1, <3>1, <3>3, <4>1 DEF Opens
    <3>5. \A m \in output' : doc.kind[m] = "element" =>
            (\E i \in DOMAIN frames' : frames'[i].node = m) \/ children(m) \subseteq visited'
      <4>1. Len(frames) + 1 \in DOMAIN frames' /\ DOMAIN frames \subseteq DOMAIN frames'
        BY <2>5, <3>3
      <4> QED BY <2>4, <3>1, <3>3, <4>1 DEF Walked
    <3> QED BY <1>1, <1>2, <1>3, <1>5, <1>6, <2>1, <2>4, <3>1, <3>2, <3>4, <3>5 DEF Walked
  <2> QED BY <2>4, <2>7, <2>8, <2>9
<1>10. CASE Close
  <2> DEFINE k == Len(frames) - 1
  <2>1. frames # <<>> /\ unvisited = {} /\ frames' = SubSeq(frames, 1, k)
        /\ UNCHANGED <<visited, output>> /\ pc # "start" /\ pc' # "start"
    BY <1>10 DEF Close, TypeOK, output
  <2>2. /\ k \in Nat /\ DOMAIN frames = 1 .. k + 1 /\ DOMAIN frames' = 1 .. k
        /\ \A i \in 1 .. k : frames'[i] = frames[i]
        /\ top = frames[k + 1]
    BY <2>1 DEF TypeOK, top
  <2> HIDE DEF k
  <2>3. Opens'
    <3>1. 1 .. k \subseteq DOMAIN frames
      BY <2>2
    <3> QED BY <1>1, <2>1, <2>2, <3>1 DEF Opens
  <2>4. children(top.node) \subseteq visited
    BY <2>1 DEF unvisited
  <2>5. \A m \in output : doc.kind[m] = "element" =>
          (\E i \in DOMAIN frames' : frames'[i].node = m) \/ children(m) \subseteq visited
    <3>1. \A i \in DOMAIN frames : i \in 1 .. k \/ i = k + 1
      BY <2>2
    <3> QED BY <2>2, <2>4, <3>1 DEF Walked
  <2> QED BY <1>1, <1>2, <1>3, <1>5, <1>6, <2>1, <2>3, <2>5 DEF Walked
<1> QED BY <1>7, <1>8, <1>9, <1>10 DEF Next

(* Nothing that is to be kept is missing at the end: its parent, which has a    *)
(* smaller number, was written and all its children were visited.               *)
LEMMA DoneIsWritten ==
  ASSUME TypeOK, Walked, pc = "done"
  PROVE  output = Kept
<1> DEFINE missing == Kept \ output
<1>1. Tree /\ apex \in output /\ frames = <<>> /\ output \subseteq Kept
  BY DEF Walked, TypeOK
<1>2. Kept \subseteq Subtree(apex) /\ apex \in Nodes /\ Subtree(apex) \subseteq Nodes
  BY <1>1, SubtreeHas DEF Kept, kept, Tree
<1>3. ASSUME missing # {} PROVE FALSE
  <2> DEFINE n == least(missing)
  <2>1. missing \in SUBSET Nat
    BY <1>2, CanonicalizerAssumption
  <2>2. n \in missing /\ \A m \in missing : n <= m
    BY <1>3, <2>1, LeastOfNat
  <2> HIDE DEF n
  <2>3. /\ n \in Kept /\ n \notin output /\ n # apex /\ n \in Nodes /\ n \in Subtree(apex)
        /\ doc.kind[n] \in {"element", "text"}
    BY <1>1, <1>2, <2>2 DEF Kept, kept
  <2>4. doc.parent[n] \in Subtree(apex) /\ doc.parent[n] \in Nodes
    BY <1>2, <2>3, SubtreeUp
  <2>5. doc.kind[doc.parent[n]] = "element" /\ doc.parent[n] < n /\ n \in Nat /\ doc.parent[n] \in Nat
    BY <1>1, <2>3, <2>4, TreeTypes
  <2>6. doc.parent[n] \in Kept
    <3>1. ASSUME enveloped, NEW s \in (signatures \cap Subtree(apex)) \ {apex}
          PROVE  doc.parent[n] \notin Subtree(s)
      <4>1. n \notin Subtree(s) /\ s \in Nodes
        BY <2>3, <3>1 DEF Kept, kept, signatures
      <4> QED BY <2>3, <4>1, SubtreeHas
    <3> QED BY <2>4, <2>5, <3>1 DEF Kept, kept
  <2>7. doc.parent[n] \in output
    <3>1. ~(n <= doc.parent[n])
      BY <2>5
    <3> QED BY <2>2, <2>6, <3>1
  <2>8. n \in visited
    BY <1>1, <2>3, <2>5, <2>7 DEF Walked, children
  <2>9. enveloped /\ n \in signatures
    BY <2>3, <2>8 DEF Walked
  <2>10. n \in Subtree(n)
    BY <2>3, SubtreeHas
  <2> QED BY <2>3, <2>9, <2>10 DEF Kept, kept
<1> QED BY <1>1, <1>3

LEMMA StepOrdered ==
  ASSUME TypeOK, Walked, Opens, Ordered, [Next]_vars
  PROVE  Ordered'
<1>1. doc' = doc /\ apex' = apex /\ Tree
  BY DEF Next, Begin, Visit, Close, vars, input, Walked
<1>2. \A n : children(n)' = children(n)
  BY <1>1 DEF children
<1>3. apex \in Nodes /\ \A m \in Nodes : m \in Nat
  BY <1>1, TreeTypes DEF Tree
<1>4. CASE Begin
  <2>1. PICK f : frames' = <<f>> /\ f.node = apex
    BY <1>4 DEF Begin, opened
  <2>2. written' = <<apex>> /\ output' = {apex} /\ visited' = {}
    BY <1>4 DEF Begin, output, Walked
  <2>3. DOMAIN frames' = {1} /\ frames'[1] = f /\ DOMAIN written' = {1}
    BY <2>1, <2>2
  <2>4. \A c \in children(apex) : apex < c
    BY <1>1, TreeTypes DEF children
  <2> QED BY <1>1, <1>2, <2>1, <2>2, <2>3, <2>4 DEF Ordered
<1>5. CASE Visit
  <2> DEFINE n == least(unvisited)
             k == Len(frames)
             seen == visited \cup {apex}
  <2>1. /\ frames # <<>> /\ unvisited # {} /\ visited' = visited \cup {n}
        /\ Open(n) \/ Text(n) \/ Pass(n)
    BY <1>5 DEF Visit, TypeOK
  <2>2. n \in unvisited /\ \A c \in unvisited : n <= c
    BY <2>1, LeastOfNat, CanonicalizerAssumption DEF unvisited, children
  <2>3. /\ k \in Nat \ {0} /\ DOMAIN frames = 1 .. k /\ k \in DOMAIN frames /\ top = frames[k]
        /\ \A i \in DOMAIN frames : frames[i].node \in Nodes
    <3>1. frames \in Seq(Frame)
      BY DEF TypeOK
    <3>2. k \in Nat \ {0} /\ DOMAIN frames = 1 .. k /\ \A i \in DOMAIN frames : frames[i] \in Frame
      BY <2>1, <3>1
    <3> QED BY <3>2 DEF top, Frame
  <2> HIDE DEF n, k
  <2>4. /\ n \in Nodes /\ n \notin visited /\ doc.parent[n] = top.node
        /\ n \in children(top.node) \ visited
    BY <2>2 DEF unvisited, children
  <2>5. seen \subseteq Nodes
    BY <1>3 DEF TypeOK
  <2>6. \A m \in seen : m < n
    BY <2>3, <2>4 DEF Ordered
  <2>7. \A i \in DOMAIN frames : frames[i].node \in seen
    BY DEF Opens, Ordered
  <2> HIDE DEF seen
  (* What an element further out has still to look at comes after n.            *)
  <2>8. ASSUME NEW i \in DOMAIN frames, NEW c \in children(frames[i].node) \ (visited \cup {n})
        PROVE  n < c
    <3>1. c \in Nodes /\ c # n /\ doc.parent[c] = frames[i].node
      BY DEF children
    <3>2. CASE i = k
      <4>1. c \in unvisited
        BY <2>3, <3>2 DEF unvisited
      <4> QED BY <1>3, <2>2, <2>4, <3>1, <4>1
    <3>3. CASE i # k
      <4>1. i < k
        BY <2>3, <3>3
      <4>2. frames[i].node < top.node
        BY <2>3, <4>1 DEF Ordered
      <4>3. top.node < c
        BY <2>3, <2>7 DEF Ordered, seen
      <4>4. c < n => top.node <= frames[i].node
        <5>1. doc \in Documents
          BY <1>1 DEF Tree
        <5> QED BY <2>4, <3>1, <4>3, <5>1, CanonicalizerAssumption
      <4>5. top.node \in Nat /\ frames[i].node \in Nat /\ c \in Nat /\ n \in Nat
        BY <1>3, <2>3, <2>4, <3>1
      <4> QED BY <3>1, <4>2, <4>4, <4>5
    <3> QED BY <3>2, <3>3
  <2>9. \A i \in DOMAIN frames : \A c \in children(frames[i].node) \ (visited \cup {n}) :
          \A m \in seen \cup {n} : m < c
    BY <2>8 DEF Ordered, seen
  <2>10. /\ \A i, j \in DOMAIN frames' : i < j => frames'[i].node < frames'[j].node
         /\ \A i \in DOMAIN frames' : \A c \in children(frames'[i].node) \ (visited \cup {n}) :
              \A m \in seen \cup {n} : m < c
    <3>1. CASE frames' = frames
      BY <2>9, <3>1 DEF Ordered
    <3>2. ASSUME NEW f, frames' = Append(frames, f), f.node = n
          PROVE  /\ \A i, j \in DOMAIN frames' : i < j => frames'[i].node < frames'[j].node
                 /\ \A i \in DOMAIN frames' : \A c \in children(frames'[i].node) \ (visited \cup {n}) :
                      \A m \in seen \cup {n} : m < c
      <4>1. /\ DOMAIN frames' = 1 .. k + 1 /\ frames'[k + 1] = f
            /\ \A i \in 1 .. k : frames'[i] = frames[i]
        BY <2>3, <3>2 DEF TypeOK, k
      <4>2. \A i \in 1 .. k + 1 : i \in 1 .. k \/ i = k + 1
        BY <2>3
      <4>3. \A i, j \in DOMAIN frames' : i < j => frames'[i].node < frames'[j].node
        <5>1. \A i \in 1 .. k : frames[i].node < n
          BY <2>3, <2>6, <2>7
        <5> QED BY <2>3, <3>2, <4>1, <4>2, <5>1 DEF Ordered
      <4>4. \A c \in children(n) : \A m \in seen \cup {n} : m < c
        <5>1. \A c \in children(n) : c \in Nodes /\ n < c
          BY <1>1, TreeTypes DEF children
        <5> QED BY <1>3, <2>4, <2>5, <2>6, <5>1
      <4> QED BY <2>3, <2>9, <3>2, <4>1, <4>2, <4>3, <4>4
    <3>3. frames' = frames \/ \E f : frames' = Append(frames, f) /\ f.node = n
      BY <2>1 DEF Open, Text, Pass, opened
    <3> QED BY <3>1, <3>2, <3>3
  <2>11. /\ output' \subseteq seen \cup {n}
         /\ \A i, j \in DOMAIN written' : i < j => written'[i] < written'[j]
    <3>1. CASE written' = written
      BY <3>1 DEF Ordered, output, seen
    <3>2. CASE written' = Append(written, n)
      <4>1. output' = output \cup {n}
        BY <2>4, <3>2, OutputGrows DEF TypeOK
      <4>2. PICK l \in Nat : l = Len(written) /\ DOMAIN written = 1 .. l
        BY DEF TypeOK
      <4>3. /\ DOMAIN written' = 1 .. l + 1 /\ written'[l + 1] = n
            /\ \A i \in 1 .. l : written'[i] = written[i]
        BY <2>4, <3>2, <4>2 DEF TypeOK
      <4>4. \A i \in 1 .. l : written[i] < n
        BY <2>6, <4>2 DEF Ordered, output, seen
      <4>5. \A i, j \in 1 .. l + 1 : i < j => i \in 1 .. l /\ (j \in 1 .. l \/ j = l + 1)
        BY <4>2
      <4>6. \A i, j \in DOMAIN written' : i < j => written'[i] < written'[j]
        BY <4>2, <4>3, <4>4, <4>5 DEF Ordered
      <4> QED BY <4>1, <4>6 DEF Ordered, seen
    <3> QED BY <2>1, <3>1, <3>2 DEF Open, Text, Pass
  <2> QED BY <1>1, <1>2, <2>1, <2>10, <2>11 DEF Ordered, seen
<1>6. CASE Close
  <2> DEFINE k == Len(frames) - 1
  <2>1. /\ k \in Nat /\ DOMAIN frames = 1 .. k + 1 /\ DOMAIN frames' = 1 .. k
        /\ \A i \in 1 .. k : frames'[i] = frames[i]
        /\ UNCHANGED <<visited, written>>
    BY <1>6 DEF Close, TypeOK
  <2> HIDE DEF k
  <2>2. 1 .. k \subseteq DOMAIN frames
    BY <2>1
  <2> QED BY <1>1, <1>2, <2>1, <2>2 DEF Ordered, output
<1>7. CASE UNCHANGED vars
  BY <1>1, <1>2, <1>7 DEF Ordered, output, vars
<1> QED BY <1>4, <1>5, <1>6, <1>7 DEF Next

(* The transform takes out the signatures below the apex, and canonicalization  *)
(* nothing but comments and processing instructions: every other element and    *)
(* text is written once, in document order, in documents of any size.           *)
THEOREM DropsSignaturesOnly == Spec => []OnlySignaturesDropped
<1>1. Init => Inv /\ Walked /\ Opens /\ Ordered
  BY InitInv, InitWalked
<1>2. Inv /\ Walked /\ Opens /\ Ordered /\ [Next]_vars => Inv' /\ Walked' /\ Opens' /\ Ordered'
  BY StepInv, StepWalked, StepOrdered DEF Inv
<1>3. Inv /\ Walked /\ Opens /\ Ordered => OnlySignaturesDropped
  BY DoneIsWritten DEF Inv, OnlySignaturesDropped, Kept, Ordered
<1> QED BY <1>1, <1>2, <1>3, PTL DEF Spec
===============================================================================
