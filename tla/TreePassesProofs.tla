------------------------- MODULE TreePassesProofs -------------------------
(***************************************************************************)
(* For every program: what the passes that go over the context tree,       *)
(* LoopTraverse and CampCache, make of it.                                 *)
(*                                                                         *)
(* LoopTraverse: the depth of loops computed from the functions' bodies is *)
(* the greatest number of loops on a path of the tree.  The loops on the   *)
(* way to a node, and the deepest nest below it, are together no more at a *)
(* child than at its parent, and at one child as many; at the root they    *)
(* are the depth of main.  That the recursion has a value at all rests on  *)
(* the sizes of the regions' trees.                                        *)
(*                                                                         *)
(* CampCache: every context that direct calls reach from main is copied    *)
(* once, by a call in the copy of its own caller.  The contexts that a     *)
(* context calls are one for each call in its function; so, for each       *)
(* function called, as many contexts are left to be copied as calls are    *)
(* left to be searched for, the search never fails, and when a copy is     *)
(* made none of them is left.                                              *)
(***************************************************************************)
EXTENDS TreePasses, ContextTreeBuilderProofs, FiniteSetTheorems,
        WellFoundedInduction

\* A set of numbers has a least one.
LEMMA LeastOf ==
  ASSUME NEW T, T \subseteq Nat, T # {}
  PROVE  \E m \in T : \A n \in T : m <= n
<1>1. PICK m \in T : \A n \in T : ~ (<<n, m>> \in OpToRel(<, Nat))
  BY NatLessThanWellFounded, WFMin
<1>2. ASSUME NEW n \in T
      PROVE  m <= n
  <2>1. n \in Nat /\ m \in Nat
    OBVIOUS
  <2>2. ~ (n < m)
    BY <1>1, <2>1 DEF OpToRel
  <2> QED
    BY <2>1, <2>2
<1> QED
  BY <1>2

-----------------------------------------------------------------------------
(***************************************************************************)
(* The nodes made for a region, and one round of the recursion.            *)
(***************************************************************************)
Size(r) == NodesBefore(r, Len(prog.body[r]))

IsIn(r) == IF r \in Loops THEN 1 ELSE 0

Below(f, r) ==
  {IF Into(e) \in prog.recursive THEN 0 ELSE f[Into(e)] : e \in EdgesOf(prog, r)}

Round(f, r) == Max({0} \cup Below(f, r)) + IsIn(r)

DepthOf == CHOOSE f : f = [r \in Regions |-> Round(f, r)]

LEMMA DepthOfIsComputed ==
  getLoopDepth(prog) = [r \in Regions \ prog.recursive |-> DepthOf[r]]
BY DEF getLoopDepth, DepthOf, Round, Below, IsIn

LEMMA SizeFacts ==
  ASSUME TreeInv, NEW r \in Regions
  PROVE  /\ Size(r) \in Nat
         /\ \A e \in EdgesOf(prog, r) :
              /\ Into(e) \in Regions
              /\ Into(e) \notin prog.recursive => Size(Into(e)) < Size(r)
<1>1. /\ Len(prog.body[r]) \in Nat /\ DOMAIN prog.body[r] = 1 .. Len(prog.body[r])
      /\ prog \in Programs
  BY BodyFacts DEF TreeInv
<1>2. Size(r) \in Nat
  BY <1>1, OffsetFacts DEF Size
<1>3. ASSUME NEW e \in EdgesOf(prog, r)
      PROVE  /\ Into(e) \in Regions
             /\ Into(e) \notin prog.recursive => Size(Into(e)) < Size(r)
  <2>1. PICK i \in 1 .. Len(prog.body[r]) : e = prog.body[r][i]
    BY <1>1 DEF EdgesOf
  <2>2. Into(e) \in Regions
    BY <1>1, <2>1, BodyFacts, EdgeFacts
  <2>3. ASSUME Into(e) \notin prog.recursive
        PROVE  Size(Into(e)) < Size(r)
    <3>1. Width(prog, e) = Size(Into(e))
      BY <2>3 DEF Width, Size, NodesBefore
    <3>2. Size(Into(e)) \in Nat
      BY <1>1, <2>2, BodyFacts, OffsetFacts DEF Size
    <3>3. /\ NodesBefore(r, i) = NodesBefore(r, i - 1) + Width(prog, prog.body[r][i])
          /\ i - 1 \in 0 .. Len(prog.body[r]) /\ i \in 0 .. Len(prog.body[r])
          /\ Len(prog.body[r]) \in 0 .. Len(prog.body[r])
      BY <1>1, OffsetFacts
    <3>4. /\ NodesBefore(r, i - 1) \in Nat \ {0} /\ NodesBefore(r, i) \in Nat
          /\ NodesBefore(r, i) <= Size(r)
      BY <1>1, <3>3, OffsetFacts DEF Size
    <3> QED
      BY <1>2, <2>1, <3>1, <3>2, <3>3, <3>4
  <2> QED
    BY <2>2, <2>3
<1> QED
  BY <1>2, <1>3

-----------------------------------------------------------------------------
(***************************************************************************)
(* The recursion ends: a solution for the regions of a size gives one for  *)
(* the next size, and any two agree.                                       *)
(***************************************************************************)
Upto(n)      == {r \in Regions : Size(r) <= n}
Solves(f, n) == f = [r \in Upto(n) |-> Round(f, r)]

LEMMA RoundIsLocal ==
  ASSUME TreeInv, NEW r \in Regions, NEW f, NEW g,
         \A q \in Regions : Size(q) < Size(r) => f[q] = g[q]
  PROVE  Round(f, r) = Round(g, r)
<1>1. \A e \in EdgesOf(prog, r) :
        (IF Into(e) \in prog.recursive THEN 0 ELSE f[Into(e)])
          = (IF Into(e) \in prog.recursive THEN 0 ELSE g[Into(e)])
  BY SizeFacts
<1>2. Below(f, r) = Below(g, r)
  BY <1>1 DEF Below
<1> QED
  BY <1>2 DEF Round

LEMMA SolutionsAgree ==
  ASSUME TreeInv, NEW m \in Nat, NEW n \in Nat, NEW f, NEW g, Solves(f, m), Solves(g, n),
         NEW r \in Regions, Size(r) <= m, Size(r) <= n
  PROVE  f[r] = g[r]
<1> DEFINE Apart == {q \in Regions : Size(q) <= m /\ Size(q) <= n /\ f[q] # g[q]}
<1>1. SUFFICES ASSUME r \in Apart PROVE FALSE
  OBVIOUS
<1>2. {Size(q) : q \in Apart} \subseteq Nat /\ {Size(q) : q \in Apart} # {}
  BY <1>1, SizeFacts
<1>3. PICK q \in Apart : \A p \in Apart : Size(q) <= Size(p)
  <2>1. PICK k \in {Size(q) : q \in Apart} : \A j \in {Size(q) : q \in Apart} : k <= j
    BY <1>2, LeastOf
  <2> QED
    BY <2>1
<1>4. \A p \in Regions : Size(p) < Size(q) => f[p] = g[p]
  <2> SUFFICES ASSUME NEW p \in Regions, Size(p) < Size(q), f[p] # g[p] PROVE FALSE
    OBVIOUS
  <2>1. Size(p) \in Nat /\ Size(q) \in Nat
    BY SizeFacts
  <2>2. p \in Apart
    BY <2>1
  <2> QED
    BY <1>3, <2>1, <2>2
<1>5. Round(f, q) = Round(g, q)
  BY <1>4, RoundIsLocal
<1>6. f[q] = Round(f, q) /\ g[q] = Round(g, q)
  BY Zenon DEF Solves, Upto
<1> QED
  BY <1>5, <1>6

LEMMA SolutionNext ==
  ASSUME TreeInv, NEW n \in Nat, NEW f, n > 0 => Solves(f, n - 1)
  PROVE  \E g : Solves(g, n)
<1> DEFINE g == [r \in Upto(n) |-> Round(f, r)]
<1>1. ASSUME NEW r \in Upto(n)
      PROVE  Round(g, r) = Round(f, r)
  <2>1. r \in Regions /\ Size(r) <= n /\ Size(r) \in Nat
    BY SizeFacts DEF Upto
  <2>2. ASSUME NEW q \in Regions, Size(q) < Size(r)
        PROVE  g[q] = f[q]
    <3>1. Size(q) \in Nat /\ n > 0 /\ Size(q) <= n /\ Size(q) <= n - 1
      BY <2>1, <2>2, SizeFacts
    <3>2. q \in Upto(n) /\ q \in Upto(n - 1)
      BY <3>1 DEF Upto
    <3>3. g[q] = Round(f, q)
      BY <3>2
    <3>4. f[q] = Round(f, q)
      BY <3>1, <3>2, Zenon DEF Solves
    <3> QED
      BY <3>3, <3>4
  <2> HIDE DEF g
  <2> QED
    BY <2>1, <2>2, RoundIsLocal
<1>2. g = [r \in Upto(n) |-> Round(f, r)]
  OBVIOUS
<1> HIDE DEF g
<1>3. g = [r \in Upto(n) |-> Round(g, r)]
  BY <1>1, <1>2
<1> QED
  BY <1>3 DEF Solves

LEMMA SolutionsExist ==
  ASSUME TreeInv, NEW n \in Nat
  PROVE  \E f : Solves(f, n)
<1> DEFINE None == {m \in Nat : ~ \E f : Solves(f, m)}
<1>1. SUFFICES ASSUME n \in None PROVE FALSE
  OBVIOUS
<1>2. PICK m \in None : \A k \in None : m <= k
  BY <1>1, LeastOf
<1>3. CASE m = 0
  BY <1>3, SolutionNext
<1>4. CASE m > 0
  <2>1. m - 1 \in Nat /\ m - 1 \notin None
    BY <1>2, <1>4
  <2>2. PICK f : Solves(f, m - 1)
    BY <2>1
  <2> QED
    BY <2>2, SolutionNext
<1> QED
  BY <1>3, <1>4

LEMMA DepthStep ==
  ASSUME TreeInv, NEW r \in Regions
  PROVE  DepthOf[r] = Round(DepthOf, r)
<1> DEFINE sol(n) == CHOOSE f : Solves(f, n)
           F == [q \in Regions |-> sol(Size(q))[q]]
<1>1. ASSUME NEW n \in Nat PROVE Solves(sol(n), n)
  BY SolutionsExist
<1> HIDE DEF sol
<1>2. ASSUME NEW q \in Regions
      PROVE  F[q] = Round(F, q)
  <2>1. Size(q) \in Nat /\ q \in Upto(Size(q))
    BY SizeFacts DEF Upto
  <2>2. ASSUME NEW p \in Regions, Size(p) < Size(q)
        PROVE  F[p] = sol(Size(q))[p]
    <3>1. Size(p) \in Nat /\ Size(p) <= Size(p) /\ Size(p) <= Size(q)
      BY <2>1, <2>2, SizeFacts
    <3>2. sol(Size(p))[p] = sol(Size(q))[p]
      BY <1>1, <2>1, <3>1, SolutionsAgree
    <3> QED
      BY <3>2
  <2>3. sol(Size(q))[q] = Round(sol(Size(q)), q)
    BY <1>1, <2>1, Zenon DEF Solves
  <2>4. F[q] = sol(Size(q))[q]
    OBVIOUS
  <2> HIDE DEF F
  <2>5. Round(F, q) = Round(sol(Size(q)), q)
    BY <2>2, RoundIsLocal
  <2> QED
    BY <2>3, <2>4, <2>5
<1>3. F = [q \in Regions |-> F[q]]
  OBVIOUS
<1> HIDE DEF F
<1>4. F = [q \in Regions |-> Round(F, q)]
  BY <1>2, <1>3
<1>5. DepthOf = [q \in Regions |-> Round(DepthOf, q)]
  BY <1>4, Zenon DEF DepthOf
<1> QED
  BY <1>5, Zenon

-----------------------------------------------------------------------------
(***************************************************************************)
(* Greatest elements, and the depths as numbers.                           *)
(***************************************************************************)
LEMMA MaxFacts ==
  ASSUME NEW T, T \subseteq Nat, IsFiniteSet(T), T # {}
  PROVE  /\ Max(T) \in T /\ Max(T) \in Nat
         /\ \A x \in T : x <= Max(T)
<1> DEFINE HasMax(S) == \E x \in S : \A y \in S : x >= y
           Bad == {S \in SUBSET T : S # {} /\ ~ HasMax(S)}
<1>1. \A S \in SUBSET T : IsFiniteSet(S) /\ Cardinality(S) \in Nat
  BY FS_Subset, FS_CardinalityType
<1>2. ASSUME NEW S \in Bad
      PROVE  \E R \in Bad : Cardinality(R) < Cardinality(S)
  <2>1. PICK x \in S : TRUE
    OBVIOUS
  <2>2. PICK R : R = S \ {x}
    OBVIOUS
  <2>3. R \in SUBSET T /\ Cardinality(R) = Cardinality(S) - 1
    BY <1>1, <2>1, <2>2, FS_RemoveElement
  <2>4. Cardinality(R) < Cardinality(S)
    BY <1>1, <2>3
  <2>5. ~ HasMax(R) /\ R # {}
    <3>1. R # {}
      <4>1. R = {} => S = {x} /\ x >= x
        BY <2>1, <2>2
      <4> QED
        BY <2>1, <4>1
    <3>2. ASSUME NEW y \in R, \A z \in R : y >= z
          PROVE  HasMax(S)
      <4>1. x \in Nat /\ y \in Nat /\ y \in S
        BY <2>1, <2>2
      <4>2. \A z \in S : z = x \/ y >= z
        BY <2>2, <3>2
      <4>3. CASE y >= x
        BY <4>1, <4>2, <4>3
      <4>4. CASE ~ (y >= x)
        <5>1. ASSUME NEW z \in S PROVE x >= z
          <6>1. z \in Nat
            OBVIOUS
          <6> QED
            BY <4>1, <4>2, <4>4, <6>1
        <5> QED
          BY <2>1, <5>1
      <4> QED
        BY <4>3, <4>4
    <3> QED
      BY <3>1, <3>2
  <2> QED
    BY <2>3, <2>4, <2>5
<1>3. HasMax(T)
  <2> SUFFICES ASSUME T \in Bad PROVE FALSE
    OBVIOUS
  <2> DEFINE Cards == {Cardinality(S) : S \in Bad}
  <2>1. Cards \subseteq Nat /\ Cards # {}
    BY <1>1
  <2>2. PICK k \in Cards : \A j \in Cards : k <= j
    BY <2>1, LeastOf
  <2>3. PICK S \in Bad : k = Cardinality(S)
    BY <2>2
  <2>4. PICK R \in Bad : Cardinality(R) < Cardinality(S)
    BY <1>2
  <2> QED
    BY <1>1, <2>2, <2>3, <2>4
<1>4. PICK x \in T : \A y \in T : x >= y
  BY <1>3
<1>5. Max(T) \in T /\ \A y \in T : Max(T) >= y
  BY <1>4, Zenon DEF Max
<1> QED
  BY <1>5

LEMMA ImageIsFinite ==
  ASSUME NEW S, IsFiniteSet(S), NEW f, DOMAIN f = S
  PROVE  IsFiniteSet({f[x] : x \in S})
<1>1. PICK T : T = {f[x] : x \in S}
  OBVIOUS
<1>2. PICK g : g = [x \in S |-> f[x]]
  OBVIOUS
<1>3. g \in [S -> T] /\ \A y \in T : \E x \in S : g[x] = y
  BY <1>1, <1>2
<1>4. g \in Surjection(S, T)
  BY <1>3 DEF Surjection
<1> QED
  BY <1>1, <1>4, FS_Surjection

LEMMA BelowIsFinite ==
  ASSUME TreeInv, NEW r \in Regions, NEW f,
         \A e \in EdgesOf(prog, r) : Into(e) \notin prog.recursive => f[Into(e)] \in Nat
  PROVE  LET T == {0} \cup Below(f, r)
         IN  T \subseteq Nat /\ IsFiniteSet(T) /\ T # {}
<1>1. IsFiniteSet(EdgesOf(prog, r))
  <2>1. Len(prog.body[r]) \in Nat /\ DOMAIN prog.body[r] = 1 .. Len(prog.body[r])
    BY BodyFacts DEF TreeInv
  <2>2. IsFiniteSet(DOMAIN prog.body[r])
    BY <2>1, FS_Interval
  <2>3. EdgesOf(prog, r) = {prog.body[r][i] : i \in DOMAIN prog.body[r]}
    BY Zenon DEF EdgesOf
  <2> QED
    BY <2>2, <2>3, ImageIsFinite
<1>2. IsFiniteSet(Below(f, r))
  <2>1. PICK g : g = [e \in EdgesOf(prog, r) |->
                        IF Into(e) \in prog.recursive THEN 0 ELSE f[Into(e)]]
    OBVIOUS
  <2>2. DOMAIN g = EdgesOf(prog, r) /\ Below(f, r) = {g[e] : e \in EdgesOf(prog, r)}
    BY <2>1 DEF Below
  <2> QED
    BY <1>1, <2>2, ImageIsFinite
<1>3. Below(f, r) \subseteq Nat
  BY DEF Below
<1>4. IsFiniteSet({0} \cup Below(f, r))
  BY <1>2, FS_Singleton, FS_Union
<1> QED
  BY <1>3, <1>4

LEMMA DepthIsNumber ==
  ASSUME TreeInv, NEW r \in Regions
  PROVE  DepthOf[r] \in Nat
<1> DEFINE Bad == {q \in Regions : DepthOf[q] \notin Nat}
<1>1. SUFFICES ASSUME r \in Bad PROVE FALSE
  OBVIOUS
<1>2. {Size(q) : q \in Bad} \subseteq Nat /\ {Size(q) : q \in Bad} # {}
  BY <1>1, SizeFacts
<1>3. PICK q \in Bad : \A p \in Bad : Size(q) <= Size(p)
  <2>1. PICK k \in {Size(q) : q \in Bad} : \A j \in {Size(q) : q \in Bad} : k <= j
    BY <1>2, LeastOf
  <2> QED
    BY <2>1
<1>4. ASSUME NEW e \in EdgesOf(prog, q), Into(e) \notin prog.recursive
      PROVE  DepthOf[Into(e)] \in Nat
  <2>1. Into(e) \in Regions /\ Size(Into(e)) < Size(q)
    BY <1>4, SizeFacts
  <2>2. Size(Into(e)) \in Nat /\ Size(q) \in Nat
    BY <2>1, SizeFacts
  <2>3. Into(e) \notin Bad
    BY <1>3, <2>1, <2>2
  <2> QED
    BY <2>1, <2>3
<1>5. Max({0} \cup Below(DepthOf, q)) \in Nat
  <2>1. PICK T : T = {0} \cup Below(DepthOf, q)
    OBVIOUS
  <2>2. T \subseteq Nat /\ IsFiniteSet(T) /\ T # {}
    BY <1>4, <2>1, BelowIsFinite
  <2> QED
    BY <2>1, <2>2, MaxFacts
<1>6. Round(DepthOf, q) \in Nat
  BY <1>5 DEF Round, IsIn
<1> QED
  BY <1>6, DepthStep

-----------------------------------------------------------------------------
(***************************************************************************)
(* The loops on the way to a node, in terms of its parent.                 *)
(***************************************************************************)
LoopsAt(f, u) ==
  IF u = 0 THEN 0 ELSE f[cxtTree[u].parent] + IsIn(cxtTree[u].into)

LEMMA CountsExist ==
  ASSUME TreeInv, NEW n \in Nodes
  PROVE  \E f : f = [u \in 0 .. n |-> LoopsAt(f, u)]
<1> DEFINE Counts(f, m) == f = [u \in 0 .. m |-> LoopsAt(f, u)]
           None == {m \in Nodes : ~ \E f : Counts(f, m)}
<1>0. Nodes \subseteq Nat /\ assignerUcID \in Nat \ {0} /\ Nodes = 0 .. assignerUcID - 1
  BY DEF Nodes, TreeInv
<1>1. SUFFICES ASSUME n \in None PROVE FALSE
  OBVIOUS
<1>2. PICK m \in None : \A k \in None : m <= k
  BY <1>0, <1>1, LeastOf
<1>3. m \in Nat
  BY <1>0
<1>4. PICK f : m > 0 => Counts(f, m - 1)
  <2>1. CASE m = 0
    BY <2>1
  <2>2. CASE m > 0
    <3>1. m - 1 \in Nodes /\ m - 1 \notin None
      BY <1>0, <1>2, <1>3, <2>2
    <3> QED
      BY <3>1
  <2> QED
    BY <1>3, <2>1, <2>2
<1> DEFINE g == [u \in 0 .. m |-> LoopsAt(f, u)]
<1>5. ASSUME NEW u \in 0 .. m
      PROVE  LoopsAt(g, u) = LoopsAt(f, u)
  <2>1. CASE u = 0
    BY <2>1 DEF LoopsAt
  <2>2. CASE u # 0
    <3>1. PICK p : p = cxtTree[u].parent
      OBVIOUS
    <3>2. u \in Nodes \ {0}
      BY <1>0, <1>3, <2>2
    <3>3. p \in Nat /\ p < u
      BY <3>1, <3>2, NodeOrigin
    <3>4. p \in 0 .. m /\ p \in 0 .. m - 1 /\ m > 0
      BY <1>3, <3>3
    <3>5. g[p] = LoopsAt(f, p)
      BY <3>4
    <3>6. f[p] = LoopsAt(f, p)
      BY <1>4, <3>4, Zenon
    <3>7. g[p] = f[p]
      BY <3>5, <3>6
    <3> HIDE DEF g
    <3> QED
      BY <3>1, <3>7 DEF LoopsAt
  <2> QED
    BY <2>1, <2>2
<1>6. g = [u \in 0 .. m |-> LoopsAt(f, u)]
  OBVIOUS
<1> HIDE DEF g
<1>7. g = [u \in 0 .. m |-> LoopsAt(g, u)]
  BY <1>5, <1>6
<1> QED
  BY <1>2, <1>7

LEMMA LoopsStep ==
  ASSUME TreeInv, NEW u \in Nodes
  PROVE  LoopsTo[u] = LoopsAt(LoopsTo, u)
<1>1. /\ assignerUcID - 1 \in Nodes /\ Nodes = 0 .. assignerUcID - 1
  BY DEF Nodes, TreeInv
<1>2. \E f : f = [v \in Nodes |-> LoopsAt(f, v)]
  BY <1>1, CountsExist
<1>3. LoopsTo = CHOOSE f : f = [v \in Nodes |-> LoopsAt(f, v)]
  BY Zenon DEF LoopsTo, LoopsAt, IsIn
<1>4. LoopsTo = [v \in Nodes |-> LoopsAt(LoopsTo, v)]
  BY <1>2, <1>3, Zenon
<1> QED
  BY <1>4, Zenon

LEMMA LoopsAreCounted ==
  ASSUME TreeInv, NEW u \in Nodes
  PROVE  LoopsTo[u] \in Nat
<1> DEFINE Bad == {v \in Nodes : LoopsTo[v] \notin Nat}
<1>0. Nodes \subseteq Nat
  BY DEF Nodes, TreeInv
<1>1. SUFFICES ASSUME u \in Bad PROVE FALSE
  OBVIOUS
<1>2. PICK v \in Bad : \A w \in Bad : v <= w
  BY <1>0, <1>1, LeastOf
<1>3. LoopsTo[v] = LoopsAt(LoopsTo, v)
  BY LoopsStep
<1>4. CASE v = 0
  BY <1>3, <1>4 DEF LoopsAt
<1>5. CASE v # 0
  <2>1. PICK p : p = cxtTree[v].parent
    OBVIOUS
  <2>2. p \in Nodes /\ p \in Nat /\ p < v /\ v \in Nat
    BY <1>5, <2>1, NodeOrigin
  <2>3. LoopsTo[p] \in Nat
    BY <1>2, <2>2
  <2> QED
    BY <1>2, <1>3, <1>5, <2>1, <2>3 DEF LoopsAt, IsIn
<1> QED
  BY <1>4, <1>5

-----------------------------------------------------------------------------
(***************************************************************************)
(* The loops on the way to a node and the deepest nest below it: no more   *)
(* at a child than at its parent, and at one of the children as many.      *)
(***************************************************************************)
Deepest(u) == IF cxtTree[u].recursive THEN 0 ELSE DepthOf[cxtTree[u].into]
Through(u) == LoopsTo[u] + Deepest(u) - IsIn(cxtTree[u].into)
Inner(u)   == Deepest(u) - IsIn(cxtTree[u].into)

LEMMA InnerFacts ==
  ASSUME TreeInv, NEW u \in Nodes
  PROVE  /\ LoopsTo[u] \in Nat /\ Inner(u) \in Nat /\ Through(u) = LoopsTo[u] + Inner(u)
         /\ ~ cxtTree[u].recursive =>
              LET T == {0} \cup Below(DepthOf, cxtTree[u].into)
              IN  /\ Inner(u) \in T
                  /\ \A x \in T : x \in Nat /\ x <= Inner(u)
<1>1. LoopsTo[u] \in Nat
  BY LoopsAreCounted
<1>2. PICK r : r = cxtTree[u].into
  OBVIOUS
<1>3. r \in Regions
  BY <1>2, NodeFacts
<1>4. DepthOf[r] \in Nat /\ DepthOf[r] = Round(DepthOf, r) /\ IsIn(r) \in {0, 1}
  BY <1>3, DepthIsNumber, DepthStep DEF IsIn
<1>5. CASE cxtTree[u].recursive
  <2>1. r \in prog.recursive
    <3>1. u # 0
      BY <1>5 DEF TreeInv, RootIsMain
    <3> QED
      BY <1>2, <1>5, <3>1 DEF TreeInv, NodesRight, NodeRight
  <2>2. prog.recursive \subseteq Functions
    BY ProgramsAssumption DEF TreeInv, Program
  <2>3. IsIn(r) = 0
    BY <2>1, <2>2, NamesAssumption DEF IsIn
  <2>4. Deepest(u) = 0
    BY <1>5 DEF Deepest
  <2> QED
    BY <1>1, <1>2, <1>5, <2>3, <2>4 DEF Inner, Through
<1>6. CASE ~ cxtTree[u].recursive
  <2>1. PICK T : T = {0} \cup Below(DepthOf, r)
    OBVIOUS
  <2>2. T \subseteq Nat /\ IsFiniteSet(T) /\ T # {}
    <3>1. \A e \in EdgesOf(prog, r) : DepthOf[Into(e)] \in Nat
      BY <1>3, SizeFacts, DepthIsNumber
    <3> QED
      BY <1>3, <2>1, <3>1, BelowIsFinite
  <2>3. Max(T) \in T /\ Max(T) \in Nat /\ \A x \in T : x <= Max(T)
    BY <2>2, MaxFacts
  <2>4. DepthOf[r] = Max(T) + IsIn(r)
    BY <1>4, <2>1 DEF Round
  <2>5. Deepest(u) = DepthOf[r]
    BY <1>2, <1>6 DEF Deepest
  <2>6. Inner(u) = Max(T)
    BY <1>2, <1>4, <2>3, <2>4, <2>5 DEF Inner
  <2>7. Through(u) = LoopsTo[u] + Inner(u)
    BY <1>1, <1>2, <1>4, <2>5 DEF Through, Inner
  <2> QED
    BY <1>1, <1>2, <2>1, <2>2, <2>3, <2>6, <2>7
<1> QED
  BY <1>5, <1>6

LEMMA ThroughChild ==
  ASSUME TreeInv, NEW c \in Nodes \ {0}, NEW u, u = cxtTree[c].parent
  PROVE  /\ u \in Nodes /\ ~ cxtTree[u].recursive /\ u \in Nat /\ c \in Nat /\ u < c
         /\ Through(c) = LoopsTo[u] + Deepest(c)
         /\ Deepest(c) \in Below(DepthOf, cxtTree[u].into)
         /\ Through(c) <= Through(u)
<1>1. u \in Nodes /\ ~ cxtTree[u].recursive /\ u \in Nat /\ c \in Nat /\ u < c
  BY NodeOrigin
<1>2. EdgeOf(c) \in EdgesOf(prog, cxtTree[u].into) /\ Into(EdgeOf(c)) = cxtTree[c].into
  <2>1. /\ DOMAIN prog.body[cxtTree[u].into] = 1 .. Len(prog.body[cxtTree[u].into])
        /\ \E i \in 1 .. Len(prog.body[cxtTree[u].into]) :
             EdgeOf(c) = prog.body[cxtTree[u].into][i]
    BY NodeOrigin
  <2> QED
    BY <2>1 DEF EdgesOf, EdgeOf, Into
<1>3. cxtTree[c].recursive <=> cxtTree[c].into \in prog.recursive
  BY DEF TreeInv, NodesRight, NodeRight
<1>4. Deepest(c) \in Below(DepthOf, cxtTree[u].into)
  BY <1>2, <1>3 DEF Below, Deepest
<1>5. LoopsTo[c] = LoopsTo[u] + IsIn(cxtTree[c].into)
  BY LoopsStep DEF LoopsAt
<1>6. LoopsTo[u] \in Nat /\ IsIn(cxtTree[c].into) \in {0, 1}
  BY <1>1, LoopsAreCounted DEF IsIn
<1>7. /\ Deepest(c) \in Nat /\ Deepest(c) <= Inner(u) /\ Inner(u) \in Nat
      /\ Through(u) = LoopsTo[u] + Inner(u)
  BY <1>1, <1>4, InnerFacts
<1>8. Through(c) = LoopsTo[u] + Deepest(c)
  BY <1>5, <1>6, <1>7 DEF Through
<1> QED
  BY <1>1, <1>4, <1>6, <1>7, <1>8

LEMMA NoneDeeper ==
  ASSUME TreeInv, NEW u \in Nodes
  PROVE  Through(u) <= Through(0)
<1> DEFINE Bad == {v \in Nodes : ~ (Through(v) <= Through(0))}
<1>0. Nodes \subseteq Nat /\ 0 \in Nodes
  BY DEF Nodes, TreeInv
<1>1. SUFFICES ASSUME u \in Bad PROVE FALSE
  OBVIOUS
<1>2. PICK v \in Bad : \A w \in Bad : v <= w
  BY <1>0, <1>1, LeastOf
<1>3. \A w \in Nodes : Through(w) \in Nat
  BY InnerFacts
<1>4. v # 0
  BY <1>0, <1>2, <1>3
<1>5. PICK p : p = cxtTree[v].parent
  OBVIOUS
<1>6. p \in Nodes /\ p \in Nat /\ v \in Nat /\ p < v /\ Through(v) <= Through(p)
  BY <1>4, <1>5, ThroughChild
<1>7. Through(p) <= Through(0)
  BY <1>2, <1>6
<1> QED
  BY <1>0, <1>2, <1>3, <1>6, <1>7

\* The last of the nodes with the most loops through them has none below.
LEMMA OneAsDeep ==
  ASSUME TreeInv, StatusRight, Built
  PROVE  \E u \in Nodes : LoopsTo[u] = Through(0)
<1> DEFINE Best == {u \in Nodes : Through(u) = Through(0)}
<1>1. 0 \in Best /\ Best \subseteq Nat /\ IsFiniteSet(Best)
  <2>1. IsFiniteSet(Nodes) /\ Nodes \subseteq Nat /\ 0 \in Nodes
    BY FS_Interval DEF Nodes, TreeInv
  <2> QED
    BY <2>1, FS_Subset
<1>2. PICK u : u = Max(Best)
  OBVIOUS
<1>3. u \in Nodes /\ Through(u) = Through(0) /\ \A v \in Best : v <= u
  <2>1. u \in Best /\ \A v \in Best : v <= u
    BY <1>1, <1>2, MaxFacts
  <2> QED
    BY <2>1
<1>4. LoopsTo[u] \in Nat /\ Inner(u) \in Nat /\ Through(u) = LoopsTo[u] + Inner(u)
  BY <1>3, InnerFacts
<1>5. ASSUME Inner(u) # 0
      PROVE  FALSE
  <2>1. ~ cxtTree[u].recursive
    <3>1. cxtTree[u].recursive => Deepest(u) = 0
      BY DEF Deepest
    <3>2. IsIn(cxtTree[u].into) \in {0, 1}
      BY DEF IsIn
    <3> QED
      BY <1>4, <1>5, <3>1, <3>2 DEF Inner
  <2>2. Inner(u) \in Below(DepthOf, cxtTree[u].into)
    BY <1>3, <1>5, <2>1, InnerFacts
  <2>3. PICK e \in EdgesOf(prog, cxtTree[u].into) :
          Inner(u) = IF Into(e) \in prog.recursive THEN 0 ELSE DepthOf[Into(e)]
    BY <2>2 DEF Below
  <2>4. {EdgeOf(c) : c \in Children(u)} = EdgesOf(prog, cxtTree[u].into)
    BY <1>3, <2>1, ChildrenFollow
  <2>5. PICK c \in Children(u) : EdgeOf(c) = e
    BY <2>3, <2>4
  <2>6. c \in Nodes \ {0} /\ cxtTree[c].parent = u
    BY DEF Children
  <2>7. Into(e) = cxtTree[c].into
    BY <2>5 DEF EdgeOf, Into
  <2>8. cxtTree[c].recursive <=> cxtTree[c].into \in prog.recursive
    BY <2>6 DEF TreeInv, NodesRight, NodeRight
  <2>9. Deepest(c) = Inner(u)
    BY <2>3, <2>7, <2>8 DEF Deepest
  <2>10. c \in Nat /\ u \in Nat /\ u < c /\ Through(c) = LoopsTo[u] + Deepest(c)
    BY <2>6, ThroughChild
  <2>11. c \in Best
    BY <1>3, <1>4, <2>6, <2>9, <2>10
  <2> QED
    BY <1>3, <2>10, <2>11
<1> QED
  BY <1>3, <1>4, <1>5

LEMMA DepthFollows == BuilderInv => DepthIsOfTree
<1> SUFFICES ASSUME TreeInv, StatusRight, status = "done"
             PROVE  /\ maxDepthOf(prog)[Main] = Max({LoopsTo[u] : u \in Nodes})
                    /\ maxDepthOf(prog)[Main] <= getMaxLoopDepth(prog)
  BY DEF BuilderInv, DepthIsOfTree
<1>1. Main \in Functions \ prog.recursive /\ Main \in Regions
  BY ProgramsAssumption, NamesAssumption DEF TreeInv, MainIsRoot, Regions
<1>2. \A r \in Functions \ prog.recursive : maxDepthOf(prog)[r] = DepthOf[r]
  BY DepthOfIsComputed DEF maxDepthOf, Regions
<1>3. \A r \in Functions : DepthOf[r] \in Nat
  BY DepthIsNumber DEF Regions
<1>4. 0 \in Nodes
  BY DEF Nodes, TreeInv
<1>5. Through(0) = DepthOf[Main]
  <2>1. LoopsTo[0] = 0
    BY <1>4, LoopsStep DEF LoopsAt
  <2>2. cxtTree[0].into = Main /\ ~ cxtTree[0].recursive
    BY DEF TreeInv, RootIsMain
  <2>3. IsIn(Main) = 0
    BY NamesAssumption DEF IsIn
  <2>4. DepthOf[Main] \in Nat
    BY <1>1, <1>3
  <2> QED
    BY <2>1, <2>2, <2>3, <2>4 DEF Through, Deepest
<1>6. DepthOf[Main] = Max({LoopsTo[u] : u \in Nodes})
  <2>1. PICK T : T = {LoopsTo[u] : u \in Nodes}
    OBVIOUS
  <2>2. PICK d : d = DepthOf[Main]
    OBVIOUS
  <2>3. d \in T
    <3>1. Built
      BY DEF Built, Stopped
    <3> QED
      BY <1>5, <2>1, <2>2, <3>1, OneAsDeep
  <2>4. \A x \in T : x \in Nat /\ x <= d
    <3> SUFFICES ASSUME NEW u \in Nodes PROVE LoopsTo[u] \in Nat /\ LoopsTo[u] <= d
      BY <2>1
    <3>1. LoopsTo[u] \in Nat /\ Inner(u) \in Nat /\ Through(u) = LoopsTo[u] + Inner(u)
      BY InnerFacts
    <3>2. Through(u) <= d
      BY <1>5, <2>2, NoneDeeper
    <3>3. d \in Nat
      BY <1>1, <1>3, <2>2
    <3> QED
      BY <3>1, <3>2, <3>3
  <2>5. \E x \in T : \A y \in T : x >= y
    BY <2>3, <2>4
  <2>6. Max(T) \in T /\ \A y \in T : Max(T) >= y
    BY <2>5, Zenon DEF Max
  <2>7. Max(T) = d
    BY <2>3, <2>4, <2>6
  <2> QED
    BY <2>1, <2>2, <2>7
<1>7. DepthOf[Main] <= getMaxLoopDepth(prog)
  <2>1. PICK T : T = {maxDepthOf(prog)[f] : f \in Functions \ prog.recursive}
    OBVIOUS
  <2>2. IsFiniteSet(Functions \ prog.recursive)
    BY FunctionsAssumption, FS_Subset
  <2>3. PICK g : g = [f \in Functions \ prog.recursive |-> maxDepthOf(prog)[f]]
    OBVIOUS
  <2>4. DOMAIN g = Functions \ prog.recursive /\ T = {g[f] : f \in Functions \ prog.recursive}
    BY <2>1, <2>3
  <2>5. IsFiniteSet(T)
    BY <2>2, <2>4, ImageIsFinite
  <2>6. T \subseteq Nat /\ DepthOf[Main] \in T
    BY <1>1, <1>2, <1>3, <2>1
  <2>7. DepthOf[Main] <= Max(T)
    BY <2>5, <2>6, MaxFacts
  <2>8. getMaxLoopDepth(prog) = Max(T)
    BY <2>1, Zenon DEF getMaxLoopDepth
  <2> QED
    BY <2>7, <2>8
<1> QED
  BY <1>1, <1>2, <1>6, <1>7

(***************************************************************************)
(* DepthIsOfTree, for every program: the depth that LoopTraverse finds     *)
(* for main is the number of loops on the deepest path of the finished     *)
(* tree, and no more than the maximum it prints.                           *)
(***************************************************************************)
THEOREM DepthIsAlwaysOfTree == BuilderSpec => []DepthIsOfTree
BY DepthFollows, BuilderInvariant, PTL

-----------------------------------------------------------------------------
(***************************************************************************)
(* A function on 0 .. n that has given values at some nodes, and at the    *)
(* others the value at the parent, exists; it has no values but the given. *)
(***************************************************************************)
FollowsParent(f, n, par, ends, value) ==
  f = [u \in 0 .. n |-> IF u \in ends THEN value[u] ELSE f[par[u]]]

LEMMA ParentRecursion ==
  ASSUME NEW n \in Nat, NEW par, NEW ends, NEW value,
         \A u \in (0 .. n) \ ends : par[u] \in 0 .. n /\ par[u] < u
  PROVE  \E f : FollowsParent(f, n, par, ends, value)
<1> DEFINE Solved(m) == \E f : FollowsParent(f, m, par, ends, value)
           None == {m \in 0 .. n : ~ Solved(m)}
<1>1. SUFFICES ASSUME n \in None PROVE FALSE
  OBVIOUS
<1> None \subseteq Nat /\ None # {}
  BY <1>1
<1> HIDE DEF Solved
<1>2. PICK m \in None : \A k \in None : m <= k
  <2> HIDE DEF None
  <2> QED
    BY LeastOf
<1>3. m \in 0 .. n /\ ~ Solved(m)
  OBVIOUS
<1>4. PICK g : m > 0 => FollowsParent(g, m - 1, par, ends, value)
  <2>1. CASE m > 0
    <3>1. m - 1 \in 0 .. n /\ m - 1 \notin None
      BY <1>2, <1>3, <2>1
    <3> QED
      BY <3>1 DEF Solved
  <2>2. CASE ~ (m > 0)
    BY <2>2
  <2> QED
    BY <2>1, <2>2
<1> DEFINE F == [u \in 0 .. m |-> IF u \in ends THEN value[u] ELSE g[par[u]]]
<1>5. ASSUME NEW u \in 0 .. m, u \notin ends
      PROVE  F[par[u]] = g[par[u]]
  <2>1. par[u] \in 0 .. n /\ par[u] < u /\ u \in 0 .. n
    BY <1>3, <1>5
  <2>2. m > 0 /\ par[u] \in 0 .. m /\ par[u] \in 0 .. m - 1
    BY <1>3, <2>1
  <2>3. PICK w : w = par[u]
    OBVIOUS
  <2>4. g = [v \in 0 .. m - 1 |-> IF v \in ends THEN value[v] ELSE g[par[v]]]
    BY <1>4, <2>2 DEF FollowsParent
  <2>5. g[w] = IF w \in ends THEN value[w] ELSE g[par[w]]
    BY <2>2, <2>3, <2>4, Zenon
  <2>6. F[w] = IF w \in ends THEN value[w] ELSE g[par[w]]
    BY <2>2, <2>3
  <2> HIDE DEF F
  <2> QED
    BY <2>3, <2>5, <2>6
<1>6. F = [u \in 0 .. m |-> IF u \in ends THEN value[u] ELSE g[par[u]]]
  OBVIOUS
<1> HIDE DEF F
<1>7. F = [u \in 0 .. m |-> IF u \in ends THEN value[u] ELSE F[par[u]]]
  BY <1>5, <1>6
<1>8. Solved(m)
  BY <1>7 DEF FollowsParent, Solved
<1> QED
  BY <1>3, <1>8

LEMMA FollowedValues ==
  ASSUME NEW n \in Nat, NEW par, NEW ends, NEW value, NEW f,
         \A u \in (0 .. n) \ ends : par[u] \in 0 .. n /\ par[u] < u,
         FollowsParent(f, n, par, ends, value), NEW u \in 0 .. n
  PROVE  \E e \in ends : e \in 0 .. n /\ f[u] = value[e]
<1> DEFINE Bad == {x \in 0 .. n : ~ \E e \in ends : e \in 0 .. n /\ f[x] = value[e]}
<1>1. SUFFICES ASSUME u \in Bad PROVE FALSE
  OBVIOUS
<1>2. PICK x \in Bad : \A y \in Bad : x <= y
  <2>1. Bad \subseteq Nat /\ Bad # {}
    BY <1>1
  <2> HIDE DEF Bad
  <2> QED
    BY <2>1, LeastOf
<1>3. x \in 0 .. n /\ ~ \E e \in ends : e \in 0 .. n /\ f[x] = value[e]
  OBVIOUS
<1>4. f[x] = IF x \in ends THEN value[x] ELSE f[par[x]]
  BY <1>3, Zenon DEF FollowsParent
<1>5. x \notin ends
  BY <1>3, <1>4
<1>6. par[x] \in 0 .. n /\ par[x] < x /\ f[x] = f[par[x]]
  BY <1>3, <1>4, <1>5
<1>7. par[x] \notin Bad
  BY <1>2, <1>3, <1>6
<1> QED
  BY <1>3, <1>6, <1>7

-----------------------------------------------------------------------------
(***************************************************************************)
(* The finished tree.                                                      *)
(***************************************************************************)
Finished == BuilderInv /\ status = "done" /\ assignerUcID <= LocMod

LEMMA NodeIs ==
  ASSUME Finished, NEW u \in Nodes
  PROVE  /\ u \in Nat /\ cxtTree[u].into \in Regions
         /\ IsCallSite(u) => cxtTree[u].into \in Functions
         /\ ~ IsCallSite(u) => /\ u # 0 /\ cxtTree[u].into \in Loops
                               /\ cxtTree[u].place = cxtTree[u].into
                               /\ ~ cxtTree[u].recursive
         /\ u # 0 => /\ u - cxtTree[u].locID = cxtTree[u].parent
                     /\ cxtTree[u].parent \in Nodes /\ cxtTree[u].parent \in Nat
                     /\ cxtTree[u].parent < u
                     /\ ~ cxtTree[cxtTree[u].parent].recursive
                     /\ EdgeOf(u) \in EdgesOf(prog, cxtTree[cxtTree[u].parent].into)
                     /\ EdgeOf(u) \in Edges
                     /\ cxtTree[u].place \in Places
                     /\ IsCallSite(u) => cxtTree[u].place \in Sites
                     /\ cxtTree[u].recursive <=> cxtTree[u].into \in prog.recursive
<1> USE DEF Finished, BuilderInv
<1>1. /\ u \in Nat /\ cxtTree[u].into \in Regions /\ cxtTree[u] \in Node
  BY NodeFacts
<1>2. CASE u = 0
  BY <1>1, <1>2, NamesAssumption DEF TreeInv, RootIsMain, IsCallSite, Places
<1>3. CASE u # 0
  <2>1. PICK p : p = cxtTree[u].parent
    OBVIOUS
  <2>2. PICK r : r = cxtTree[p].into
    OBVIOUS
  <2>3. /\ p \in Nodes /\ p \in Nat /\ p < u /\ ~ cxtTree[p].recursive /\ r \in Regions
        /\ DOMAIN prog.body[r] = 1 .. Len(prog.body[r])
        /\ \E i \in 1 .. Len(prog.body[r]) : EdgeOf(u) = prog.body[r][i]
    <3>1. TreeInv /\ u \in Nodes \ {0}
      BY <1>3
    <3> HIDE DEF Finished, BuilderInv
    <3> QED
      BY <2>1, <2>2, <3>1, NodeOrigin
  <2>4. PICK i \in 1 .. Len(prog.body[r]) : EdgeOf(u) = prog.body[r][i]
    BY <2>3
  <2>5. EdgeOf(u) \in Edges /\ EdgeOf(u) \in EdgesOf(prog, r)
    BY <2>3, <2>4, BodyFacts DEF TreeInv, EdgesOf
  <2>6. PICK e \in Edges : e = EdgeOf(u)
    BY <2>5
  <2>7. Place(e) = cxtTree[u].place /\ Into(e) = cxtTree[u].into
    BY <2>6 DEF EdgeOf, Place, Into
  <2>8. cxtTree[u].recursive <=> cxtTree[u].into \in prog.recursive
    BY <1>3 DEF TreeInv, NodesRight, NodeRight
  <2>9. u - cxtTree[u].locID = p
    BY <2>1, ParentFollows DEF ParentByArithmetic
  <2>10. prog \in Program
    BY ProgramsAssumption DEF TreeInv
  <2>11. prog.recursive \subseteq Functions
    BY <2>10 DEF Program
  <2>12. /\ IsLoop(e) => Into(e) \in Loops /\ Place(e) = Into(e)
         /\ ~ IsLoop(e) => Place(e) \in Sites /\ Into(e) \in Functions
         /\ Place(e) \in Places
    BY <2>6, EdgeFacts
  <2>13. IsCallSite(u) <=> ~ IsLoop(e)
    BY <2>7, <2>12, NamesAssumption DEF IsCallSite, IsLoop
  <2> QED
    BY <1>1, <1>3, <2>1, <2>2, <2>3, <2>5, <2>7, <2>8, <2>9, <2>11, <2>12, <2>13, NamesAssumption
<1> QED
  BY <1>2, <1>3

LEMMA RootIs ==
  ASSUME Finished
  PROVE  /\ 0 \in Nodes /\ cxtTree[0].into = Main /\ cxtTree[0].locID = 0
         /\ IsCallSite(0) /\ ~ cxtTree[0].recursive
BY NamesAssumption DEF Finished, BuilderInv, TreeInv, RootIsMain, IsCallSite, Nodes, Places

(***************************************************************************)
(* The nearest call around a node, with the node itself.                   *)
(***************************************************************************)
UpIn(tree, nodes) ==
  CHOOSE f : f = [v \in nodes |-> IF tree[v].place \notin Loops THEN v
                                  ELSE f[v - tree[v].locID]]
Up == UpIn(cxtTree, Nodes)

LEMMA ParentUCIDIsUp ==
  \A u : getParentUCID(u) = Up[u - cxtTree[u].locID]
BY Zenon DEF getParentUCID, Up, UpIn, IsCallSite

LEMMA UpStep ==
  ASSUME Finished, NEW v \in Nodes
  PROVE  Up[v] = IF IsCallSite(v) THEN v ELSE Up[cxtTree[v].parent]
<1> DEFINE n == assignerUcID - 1
           par == [w \in Nodes |-> w - cxtTree[w].locID]
           ends == {w \in Nodes : IsCallSite(w)}
           value == [w \in Nodes |-> w]
<1>1. n \in Nat /\ Nodes = 0 .. n
  BY DEF Finished, BuilderInv, TreeInv, Nodes
<1>2. ASSUME NEW w \in (0 .. n) \ ends PROVE par[w] \in 0 .. n /\ par[w] < w
  BY <1>1, <1>2, NodeIs
<1>3. PICK f : FollowsParent(f, n, par, ends, value)
  <2> HIDE DEF n, par, ends, value
  <2> QED
    BY <1>1, <1>2, ParentRecursion
<1>4. f = [w \in Nodes |-> IF w \in ends THEN value[w] ELSE f[par[w]]]
  BY <1>1, <1>3 DEF FollowsParent
<1>5. f = [w \in Nodes |-> IF cxtTree[w].place \notin Loops THEN w ELSE f[w - cxtTree[w].locID]]
  BY <1>4 DEF IsCallSite
<1>6. Up = [w \in Nodes |-> IF cxtTree[w].place \notin Loops THEN w ELSE Up[w - cxtTree[w].locID]]
  BY <1>5, Zenon DEF Up, UpIn
<1>7. Up[v] = IF cxtTree[v].place \notin Loops THEN v ELSE Up[v - cxtTree[v].locID]
  BY <1>6, Zenon
<1> QED
  BY <1>7, NodeIs DEF IsCallSite

LEMMA UpFacts ==
  ASSUME Finished, NEW v \in Nodes
  PROVE  Up[v] \in Nodes /\ Up[v] <= v /\ IsCallSite(Up[v])
<1> DEFINE Bad == {x \in Nodes : ~ (Up[x] \in Nodes /\ Up[x] <= x /\ IsCallSite(Up[x]))}
<1>1. SUFFICES ASSUME v \in Bad PROVE FALSE
  OBVIOUS
<1>2. Bad \subseteq Nat
  BY NodeIs
<1>3. PICK x \in Bad : \A y \in Bad : x <= y
  BY <1>1, <1>2, LeastOf
<1>4. /\ x \in Nodes /\ x \in Nat
      /\ ~ (Up[x] \in Nodes /\ Up[x] <= x /\ IsCallSite(Up[x]))
  BY <1>2
<1>5. CASE IsCallSite(x)
  BY <1>4, <1>5, UpStep
<1>6. CASE ~ IsCallSite(x)
  <2>1. PICK p : p = cxtTree[x].parent
    OBVIOUS
  <2>2. p \in Nodes /\ p \in Nat /\ p < x /\ Up[x] = Up[p]
    BY <1>4, <1>6, <2>1, NodeIs, UpStep
  <2>3. p \notin Bad
    BY <1>3, <1>4, <2>2
  <2>4. Up[p] \in Nodes /\ Up[p] <= p /\ IsCallSite(Up[p])
    BY <2>2, <2>3
  <2>5. Up[p] \in Nat
    BY <2>4, NodeIs
  <2> QED
    BY <1>4, <2>2, <2>4, <2>5
<1> QED
  BY <1>5, <1>6

\* The nodes for the regions of a context's function.
LEMMA RegionOfNode ==
  ASSUME Finished, NEW v \in Nodes
  PROVE  cxtTree[v].into \in RegionsIn(prog, cxtTree[Up[v]].into)
<1> DEFINE Bad == {x \in Nodes : cxtTree[x].into \notin RegionsIn(prog, cxtTree[Up[x]].into)}
<1>1. SUFFICES ASSUME v \in Bad PROVE FALSE
  OBVIOUS
<1>2. Bad \subseteq Nat
  BY NodeIs
<1>3. PICK x \in Bad : \A y \in Bad : x <= y
  <2> HIDE DEF Bad
  <2> QED
    BY <1>1, <1>2, LeastOf
<1>4. x \in Nodes /\ x \in Nat /\ cxtTree[x].into \notin RegionsIn(prog, cxtTree[Up[x]].into)
  BY <1>2
<1>5. PICK t : t = cxtTree[x].into
  OBVIOUS
<1>6. t \in Regions
  BY <1>4, <1>5, NodeIs
<1>7. CASE IsCallSite(x)
  BY <1>4, <1>5, <1>6, <1>7, UpStep DEF RegionsIn
<1>8. CASE ~ IsCallSite(x)
  <2>1. PICK p : p = cxtTree[x].parent
    OBVIOUS
  <2>2. p \in Nodes /\ p \in Nat /\ p < x /\ Up[x] = Up[p]
    BY <1>4, <1>8, <2>1, NodeIs, UpStep
  <2>3. PICK r : r = cxtTree[p].into
    OBVIOUS
  <2>4. PICK f : f = cxtTree[Up[p]].into
    OBVIOUS
  <2>5. p \notin Bad
    BY <1>3, <1>4, <2>2
  <2>6. r \in RegionsIn(prog, f)
    BY <2>2, <2>3, <2>4, <2>5
  <2>7. PICK e : e = EdgeOf(x)
    OBVIOUS
  <2>8. e \in EdgesOf(prog, r) /\ IsLoop(e) /\ Into(e) = t
    BY <1>4, <1>5, <1>8, <2>1, <2>3, <2>7, NodeIs DEF EdgeOf, IsLoop, Into
  <2>9. t \in RegionsIn(prog, f)
    BY <1>6, <2>6, <2>8 DEF RegionsIn
  <2> QED
    BY <1>4, <1>5, <2>2, <2>4, <2>9
<1> QED
  BY <1>7, <1>8

\* A node that is not recursive has a child for every edge of its region.
LEMMA ChildFor ==
  ASSUME Finished, NEW v \in Nodes, ~ cxtTree[v].recursive,
         NEW e \in EdgesOf(prog, cxtTree[v].into)
  PROVE  /\ \E c \in Nodes \ {0} : cxtTree[c].parent = v /\ EdgeOf(c) = e
         /\ \A c, d \in Nodes \ {0} :
              cxtTree[c].parent = v /\ cxtTree[d].parent = v /\ EdgeOf(c) = EdgeOf(d) => c = d
<1>1. /\ {EdgeOf(c) : c \in Children(v)} = EdgesOf(prog, cxtTree[v].into)
      /\ \A c, d \in Children(v) : EdgeOf(c) = EdgeOf(d) => c = d
  <2>1. Built
    BY DEF Finished, Built, Stopped
  <2> QED
    BY <2>1, ChildrenFollow DEF Finished, BuilderInv
<1> QED
  BY <1>1 DEF Children

LEMMA NodeOfRegion ==
  ASSUME Finished, NEW u \in Nodes, IsCallSite(u), ~ cxtTree[u].recursive,
         NEW r \in RegionsIn(prog, cxtTree[u].into)
  PROVE  \E v \in Nodes : Up[v] = u /\ cxtTree[v].into = r /\ ~ cxtTree[v].recursive
<1>1. PICK f : f = cxtTree[u].into
  OBVIOUS
<1> DEFINE S == {q \in Regions : \E v \in Nodes : /\ Up[v] = u /\ cxtTree[v].into = q
                                                   /\ ~ cxtTree[v].recursive}
<1>2. f \in S
  BY <1>1, UpStep, NodeIs
<1>3. ASSUME NEW q \in S, NEW e \in EdgesOf(prog, q), IsLoop(e)
      PROVE  Into(e) \in S
  <2>1. PICK v \in Nodes : Up[v] = u /\ cxtTree[v].into = q /\ ~ cxtTree[v].recursive
    OBVIOUS
  <2>2. PICK c \in Nodes \ {0} : cxtTree[c].parent = v /\ EdgeOf(c) = e
    BY <1>3, <2>1, ChildFor
  <2>3. Into(e) \in Loops /\ cxtTree[c].into = Into(e) /\ cxtTree[c].place = Place(e)
    BY <1>3, <2>2 DEF EdgeOf, IsLoop, Into, Place
  <2>4. Into(e) \in Regions /\ ~ IsCallSite(c)
    BY <2>3, NodeIs, NamesAssumption DEF Regions
  <2>5. Up[c] = u /\ ~ cxtTree[c].recursive
    BY <2>1, <2>2, <2>4, UpStep, NodeIs
  <2> QED
    BY <2>3, <2>4, <2>5
<1>4. S \in SUBSET Regions
  OBVIOUS
<1>5. r \in S
  <2> HIDE DEF S
  <2> QED
    BY <1>1, <1>2, <1>3, <1>4 DEF RegionsIn
<1> QED
  BY <1>5

LEMMA OneRegionOfEdge ==
  ASSUME Finished, NEW r \in Regions, NEW q \in Regions,
         NEW d \in EdgesOf(prog, r), NEW e \in EdgesOf(prog, q), Place(d) = Place(e)
  PROVE  r = q
<1>1. prog \in Programs
  BY DEF Finished, BuilderInv, TreeInv
<1>2. OnePlaceEach(prog)
  BY <1>1, ProgramsAssumption
<1> QED
  BY <1>2 DEF OnePlaceEach, EdgesOf

LEMMA OneNodeForRegion ==
  ASSUME Finished, NEW v \in Nodes, NEW w \in Nodes,
         Up[v] = Up[w], cxtTree[v].into = cxtTree[w].into
  PROVE  v = w
<1> DEFINE Bad == {x \in Nodes : \E y \in Nodes : /\ Up[x] = Up[y]
                                                   /\ cxtTree[x].into = cxtTree[y].into /\ x # y}
<1>1. SUFFICES ASSUME v \in Bad PROVE FALSE
  OBVIOUS
<1>2. Bad \subseteq Nat
  BY NodeIs
<1>3. PICK x \in Bad : \A y \in Bad : x <= y
  <2> HIDE DEF Bad
  <2> QED
    BY <1>1, <1>2, LeastOf
<1>4. PICK y \in Nodes : Up[x] = Up[y] /\ cxtTree[x].into = cxtTree[y].into /\ x # y
  OBVIOUS
<1>5. x \in Nodes /\ x \in Nat /\ y \in Nat
  BY <1>2, NodeIs
<1>6. IsCallSite(x) <=> IsCallSite(y)
  BY <1>4, <1>5, NodeIs, NamesAssumption
<1>7. CASE IsCallSite(x)
  BY <1>4, <1>5, <1>6, <1>7, UpStep
<1>8. CASE ~ IsCallSite(x)
  <2>1. PICK p, q : p = cxtTree[x].parent /\ q = cxtTree[y].parent
    OBVIOUS
  <2>2. /\ p \in Nodes /\ p \in Nat /\ p < x /\ Up[x] = Up[p] /\ ~ cxtTree[p].recursive
        /\ EdgeOf(x) \in EdgesOf(prog, cxtTree[p].into)
        /\ q \in Nodes /\ Up[y] = Up[q]
        /\ EdgeOf(y) \in EdgesOf(prog, cxtTree[q].into)
        /\ x # 0 /\ y # 0
    BY <1>4, <1>5, <1>6, <1>8, <2>1, NodeIs, UpStep
  <2>3. EdgeOf(x) = EdgeOf(y)
    BY <1>4, <1>5, <1>6, <1>8, NodeIs DEF EdgeOf
  <2>4. cxtTree[p].into = cxtTree[q].into
    BY <2>2, <2>3, NodeIs, OneRegionOfEdge
  <2>5. p \notin Bad
    BY <1>3, <1>5, <2>2
  <2>6. p = q
    BY <1>4, <2>2, <2>4, <2>5
  <2>7. PICK e : e = EdgeOf(x)
    OBVIOUS
  <2>8. e \in EdgesOf(prog, cxtTree[p].into) /\ x \in Nodes \ {0} /\ y \in Nodes \ {0}
    BY <1>5, <2>2, <2>7
  <2>9. \A c, d \in Nodes \ {0} :
          cxtTree[c].parent = p /\ cxtTree[d].parent = p /\ EdgeOf(c) = EdgeOf(d) => c = d
    BY <2>2, <2>8, ChildFor
  <2>10. x = y
    BY <2>1, <2>3, <2>6, <2>8, <2>9
  <2> QED
    BY <1>4, <2>10
<1> QED
  BY <1>7, <1>8

-----------------------------------------------------------------------------
(***************************************************************************)
(* The contexts that a context calls, and the calls in its function.       *)
(***************************************************************************)
LEMMA CallerIs ==
  ASSUME Finished, NEW v \in Nodes \ {0}
  PROVE  /\ getParentUCID(v) \in Nodes /\ getParentUCID(v) \in Nat
         /\ getParentUCID(v) < v /\ IsCallSite(getParentUCID(v))
         /\ getParentUCID(v) = Up[cxtTree[v].parent]
<1>1. PICK p : p = cxtTree[v].parent
  OBVIOUS
<1>2. p \in Nodes /\ p \in Nat /\ p < v /\ v - cxtTree[v].locID = p /\ v \in Nat
  BY <1>1, NodeIs
<1>3. getParentUCID(v) = Up[p]
  BY <1>2, ParentUCIDIsUp
<1>4. Up[p] \in Nodes /\ Up[p] <= p /\ IsCallSite(Up[p])
  BY <1>2, UpFacts
<1>5. Up[p] \in Nat
  BY <1>4, NodeIs
<1> QED
  BY <1>1, <1>2, <1>3, <1>4, <1>5

Kids(u) == {v \in Nodes \ {0} : IsCallSite(v) /\ getParentUCID(v) = u}

LEMMA KidSite ==
  ASSUME Finished, NEW u, NEW v \in Kids(u)
  PROVE  cxtTree[v].place \in CallSitesIn(prog, cxtTree[u].into)
<1>1. PICK p : p = cxtTree[v].parent
  OBVIOUS
<1>2. /\ v \in Nodes \ {0} /\ IsCallSite(v) /\ p \in Nodes /\ Up[p] = u
      /\ cxtTree[v].place \in Sites /\ EdgeOf(v) \in EdgesOf(prog, cxtTree[p].into)
  BY <1>1, CallerIs, NodeIs DEF Kids
<1>3. cxtTree[p].into \in RegionsIn(prog, cxtTree[u].into)
  BY <1>2, RegionOfNode
<1>4. Place(EdgeOf(v)) = cxtTree[v].place
  BY DEF Place, EdgeOf
<1> QED
  BY <1>2, <1>3, <1>4 DEF CallSitesIn

LEMMA KidOfSite ==
  ASSUME Finished, NEW u \in Nodes, IsCallSite(u), ~ cxtTree[u].recursive,
         NEW s \in CallSitesIn(prog, cxtTree[u].into)
  PROVE  \E v \in Kids(u) : cxtTree[v].place = s
<1>1. s \in Sites
  BY DEF CallSitesIn
<1>2. PICK r \in RegionsIn(prog, cxtTree[u].into) : \E e \in EdgesOf(prog, r) : Place(e) = s
  BY DEF CallSitesIn
<1>3. PICK e \in EdgesOf(prog, r) : Place(e) = s
  BY <1>2
<1>4. PICK x \in Nodes : Up[x] = u /\ cxtTree[x].into = r /\ ~ cxtTree[x].recursive
  BY NodeOfRegion
<1>5. PICK c \in Nodes \ {0} : cxtTree[c].parent = x /\ EdgeOf(c) = e
  BY <1>4, ChildFor
<1>6. cxtTree[c].place = s
  BY <1>3, <1>5 DEF EdgeOf, Place
<1>7. IsCallSite(c)
  BY <1>1, <1>6, NamesAssumption DEF IsCallSite
<1>8. c \in Kids(u)
  BY <1>4, <1>5, <1>7, CallerIs DEF Kids
<1> QED
  BY <1>6, <1>8

LEMMA OneKid ==
  ASSUME Finished, NEW u, NEW v \in Kids(u), NEW w \in Kids(u), EdgeOf(v) = EdgeOf(w)
  PROVE  v = w
<1>1. PICK p, q : p = cxtTree[v].parent /\ q = cxtTree[w].parent
  OBVIOUS
<1>2. /\ v \in Nodes \ {0} /\ p \in Nodes /\ Up[p] = u /\ ~ cxtTree[p].recursive
      /\ EdgeOf(v) \in EdgesOf(prog, cxtTree[p].into) /\ cxtTree[p].into \in Regions
  BY <1>1, CallerIs, NodeIs DEF Kids
<1>3. /\ w \in Nodes \ {0} /\ q \in Nodes /\ Up[q] = u
      /\ EdgeOf(w) \in EdgesOf(prog, cxtTree[q].into) /\ cxtTree[q].into \in Regions
  BY <1>1, CallerIs, NodeIs DEF Kids
<1>4. cxtTree[p].into = cxtTree[q].into
  BY <1>2, <1>3, OneRegionOfEdge
<1>5. p = q
  BY <1>2, <1>3, <1>4, OneNodeForRegion
<1>6. PICK e : e = EdgeOf(v)
  OBVIOUS
<1>7. e \in EdgesOf(prog, cxtTree[p].into)
  BY <1>2, <1>6
<1>8. \A c, d \in Nodes \ {0} :
        cxtTree[c].parent = p /\ cxtTree[d].parent = p /\ EdgeOf(c) = EdgeOf(d) => c = d
  BY <1>2, <1>7, ChildFor
<1> QED
  BY <1>1, <1>2, <1>3, <1>5, <1>8

\* A direct call has one candidate, the function its node is for.
LEMMA DirectCallee ==
  ASSUME Finished, NEW v \in Nodes \ {0}, IsCallSite(v), Direct(cxtTree[v].place)
  PROVE  /\ cxtTree[v].into = Callee(cxtTree[v].place)
         /\ Candidates(prog, cxtTree[v].place) # {}
<1>1. PICK s, f : s = cxtTree[v].place /\ f = cxtTree[v].into
  OBVIOUS
<1>2. PICK p : p = cxtTree[v].parent
  OBVIOUS
<1>3. PICK r : r = cxtTree[p].into
  OBVIOUS
<1>4. f \in Functions /\ p \in Nodes /\ EdgeOf(v) \in EdgesOf(prog, r)
  BY <1>1, <1>2, <1>3, NodeIs
<1>5. r \in Regions
  BY <1>3, <1>4, NodeIs
<1>6. f \in Candidates(prog, s)
  BY <1>1, <1>4, <1>5 DEF Candidates, EdgeOf
<1>7. ~ MultiTarget(prog, s)
  BY <1>1 DEF Direct
<1>8. \A g \in Candidates(prog, s) : g = f
  BY <1>6, <1>7 DEF MultiTarget
<1>9. Callee(s) \in Candidates(prog, s)
  BY <1>6 DEF Callee
<1> QED
  BY <1>1, <1>6, <1>8, <1>9

DirectKids(u, g)  == {v \in Kids(u) : Direct(cxtTree[v].place) /\ cxtTree[v].into = g}
DirectSites(S, g) == {s \in S : IsDirectCall(s) /\ Callee(s) = g}

NoInvokes == \A s \in Sites : ~ IsInvoke(s)

LEMMA OneDirectKid ==
  ASSUME Finished, NEW u, NEW v \in Kids(u), NEW w \in Kids(u),
         Direct(cxtTree[v].place), cxtTree[v].place = cxtTree[w].place
  PROVE  v = w
<1>1. v \in Nodes \ {0} /\ w \in Nodes \ {0} /\ IsCallSite(v) /\ IsCallSite(w)
  BY DEF Kids
<1>2. cxtTree[v].into = Callee(cxtTree[v].place) /\ cxtTree[w].into = Callee(cxtTree[w].place)
  BY <1>1, DirectCallee
<1>3. EdgeOf(v) = EdgeOf(w)
  BY <1>2 DEF EdgeOf
<1> QED
  BY <1>3, OneKid

LEMMA KidsFinite ==
  ASSUME Finished, NEW u, NEW g
  PROVE  IsFiniteSet(DirectKids(u, g))
<1>1. Nodes = 0 .. assignerUcID - 1 /\ assignerUcID - 1 \in Int /\ 0 \in Int
  BY DEF Nodes, Finished, BuilderInv, TreeInv
<1>2. IsFiniteSet(Nodes)
  BY <1>1, FS_Interval
<1>3. DirectKids(u, g) \in SUBSET Nodes
  BY DEF DirectKids, Kids
<1> QED
  BY <1>2, <1>3, FS_Subset

(***************************************************************************)
(* A context calls as many contexts of a function directly as its own      *)
(* function has direct calls of it.                                        *)
(***************************************************************************)
LEMMA KidsAreSites ==
  ASSUME Finished, NoInvokes, NEW u \in Nodes, IsCallSite(u), ~ cxtTree[u].recursive, NEW g
  PROVE  LET S == DirectSites(CallSitesIn(prog, cxtTree[u].into), g)
         IN  IsFiniteSet(S) /\ Cardinality(S) = Cardinality(DirectKids(u, g))
<1> DEFINE K == DirectKids(u, g)
           S == DirectSites(CallSitesIn(prog, cxtTree[u].into), g)
           at == [v \in K |-> cxtTree[v].place]
<1>1. ASSUME NEW v \in K
      PROVE  at[v] \in S
  <2>1. v \in Kids(u) /\ v \in Nodes \ {0} /\ IsCallSite(v) /\ Direct(cxtTree[v].place)
        /\ cxtTree[v].into = g
    BY DEF DirectKids, Kids
  <2>2. PICK s : s = cxtTree[v].place
    OBVIOUS
  <2>3. s \in CallSitesIn(prog, cxtTree[u].into) /\ s \in Sites
    BY <2>1, <2>2, KidSite DEF CallSitesIn
  <2>4. Callee(s) = g /\ Candidates(prog, s) # {}
    BY <2>1, <2>2, DirectCallee
  <2>5. IsDirectCall(s)
    BY <2>1, <2>2, <2>3, <2>4 DEF NoInvokes, IsDirectCall
  <2>6. s \in S
    BY <2>3, <2>4, <2>5 DEF DirectSites
  <2> QED
    BY <2>2, <2>6
<1>2. ASSUME NEW v \in K, NEW w \in K, at[v] = at[w]
      PROVE  v = w
  <2>1. cxtTree[v].place = cxtTree[w].place
    BY <1>2
  <2> QED
    BY <2>1, OneDirectKid DEF DirectKids
<1>3. ASSUME NEW s \in S
      PROVE  \E v \in K : at[v] = s
  <2>1. s \in CallSitesIn(prog, cxtTree[u].into) /\ Direct(s) /\ Callee(s) = g
    BY DEF DirectSites, IsDirectCall
  <2>2. PICK v \in Kids(u) : cxtTree[v].place = s
    BY <2>1, KidOfSite
  <2>3. cxtTree[v].into = g
    BY <2>1, <2>2, DirectCallee DEF Kids
  <2>4. v \in K
    BY <2>1, <2>2, <2>3 DEF DirectKids
  <2> QED
    BY <2>2, <2>4
<1>4. at \in [K -> S]
  BY <1>1
<1> HIDE DEF K, S, at
<1>5. at \in Bijection(K, S)
  BY <1>2, <1>3, <1>4 DEF Bijection, Injection, Surjection, IsInjective
<1>6. ExistsBijection(K, S)
  BY <1>5 DEF ExistsBijection
<1>7. IsFiniteSet(K)
  BY KidsFinite DEF K
<1>8. IsFiniteSet(S) /\ Cardinality(S) = Cardinality(K)
  BY <1>6, <1>7, FS_Bijection
<1> QED
  BY <1>8 DEF K, S

-----------------------------------------------------------------------------
(***************************************************************************)
(* Which contexts are copied.                                              *)
(***************************************************************************)
PathIn(nodes, up, copied) ==
  CHOOSE f : f = [u \in nodes |-> u = 0 \/ (u \in copied /\ f[up[u]])]

Callers     == [u \in Nodes |-> getParentUCID(u)]
CopiedNodes == {u \in Nodes : Copied(u)}

LEMMA CopiedPathIs == CopiedPath = PathIn(Nodes, Callers, CopiedNodes)
<1>1. ASSUME NEW f
      PROVE  [u \in Nodes |-> u = 0 \/ (u \in CopiedNodes /\ f[Callers[u]])]
               = [u \in Nodes |-> u = 0 \/ (Copied(u) /\ f[getParentUCID(u)])]
  BY DEF Callers, CopiedNodes
<1> QED
  BY <1>1, Zenon DEF CopiedPath, PathIn

LEMMA CopiedPathStep ==
  ASSUME Finished
  PROVE  /\ CopiedPath[0]
         /\ \A u \in Nodes \ {0} :
              CopiedPath[u] <=> Copied(u) /\ CopiedPath[getParentUCID(u)]
<1> DEFINE n == assignerUcID - 1
           ends == {w \in Nodes : w = 0 \/ ~ Copied(w)}
           value == [w \in Nodes |-> w = 0]
<1>1. n \in Nat /\ Nodes = 0 .. n
  BY DEF Finished, BuilderInv, TreeInv, Nodes
<1>2. ASSUME NEW w \in (0 .. n) \ ends PROVE Callers[w] \in 0 .. n /\ Callers[w] < w
  BY <1>1, <1>2, CallerIs DEF Callers
<1>3. PICK f : FollowsParent(f, n, Callers, ends, value)
  <2> HIDE DEF n, ends, value
  <2> QED
    BY <1>1, <1>2, ParentRecursion
<1>4. f = [w \in Nodes |-> IF w \in ends THEN value[w] ELSE f[Callers[w]]]
  BY <1>1, <1>3 DEF FollowsParent
<1>5. ASSUME NEW w \in Nodes PROVE f[w] \in BOOLEAN
  <2>1. \E e \in ends : e \in 0 .. n /\ f[w] = value[e]
    <3> HIDE DEF n, ends, value
    <3> QED
      BY <1>1, <1>2, <1>3, FollowedValues
  <2> QED
    BY <1>1, <2>1
<1>6. ASSUME NEW w \in Nodes
      PROVE  f[w] = (w = 0 \/ (Copied(w) /\ f[getParentUCID(w)]))
  <2>1. f[w] = IF w \in ends THEN value[w] ELSE f[Callers[w]]
    BY <1>4, Zenon
  <2>2. CASE w \in ends
    BY <2>1, <2>2
  <2>3. CASE w \notin ends
    <3>1. f[w] = f[getParentUCID(w)] /\ Copied(w) /\ w # 0
      BY <2>1, <2>3 DEF Callers
    <3>2. f[w] \in BOOLEAN
      BY <1>5
    <3> HIDE DEF n, ends, value
    <3> QED
      BY <3>1, <3>2
  <2> QED
    BY <2>2, <2>3
<1>7. f = [w \in Nodes |-> f[w]]
  BY <1>4
<1>8. f = [w \in Nodes |-> w = 0 \/ (Copied(w) /\ f[getParentUCID(w)])]
  BY <1>6, <1>7
<1>9. CopiedPath = [w \in Nodes |-> w = 0 \/ (Copied(w) /\ CopiedPath[getParentUCID(w)])]
  BY <1>8, Zenon DEF CopiedPath
<1>10. \A w \in Nodes : CopiedPath[w] = (w = 0 \/ (Copied(w) /\ CopiedPath[getParentUCID(w)]))
  BY <1>9, Zenon
<1> QED
  BY <1>10, RootIs

-----------------------------------------------------------------------------
(***************************************************************************)
(* The invariant of CampCache.  The copies being made are those of the     *)
(* contexts on one path from main; every call that a copy is still         *)
(* searched for has a context of the same function left for it.            *)
(***************************************************************************)
Frame == [node : Nat, site : Sites, todo : Seq(Sites)]

Items(q)        == {q[i] : i \in DOMAIN q}
ToDo(fr, k)     == Items(fr[k].todo)
CallerOf(fr, k) == IF k = 1 THEN 0 ELSE fr[k - 1].node
OnStack(fr, u)  == \E k \in DOMAIN fr : fr[k].node = u

FrameRight(fr, dn, k) ==
  LET u == fr[k].node
  IN  /\ u \in Nodes \ {0} /\ Copied(u) /\ CopiedPath[u] /\ u \notin dn
      /\ getParentUCID(u) = CallerOf(fr, k)
      /\ Callee(fr[k].site) = cxtTree[u].into
      /\ k = 1 => fr[k].site = cxtTree[u].place
      /\ k > 1 => fr[k].site \notin ToDo(fr, k - 1)
      /\ fr[k].todo \in Seq(Sites)
      /\ ToDo(fr, k) \subseteq CallSitesIn(prog, cxtTree[u].into)
      /\ \A i, j \in DOMAIN fr[k].todo : fr[k].todo[i] = fr[k].todo[j] => i = j

FramesRight(fr, dn) ==
  /\ fr \in Seq(Frame)
  /\ \A k \in DOMAIN fr : FrameRight(fr, dn, k)
  /\ \A i, j \in DOMAIN fr : i < j => fr[i].node < fr[j].node

\* The contexts that the calls still to come can be copied for.
Left(fr, dn, k, g) ==
  {v \in DirectKids(fr[k].node, g) : v \notin dn /\ ~ (k < Len(fr) /\ fr[k + 1].node = v)}

EnoughLeft(fr, dn) ==
  \A k \in DOMAIN fr : \A g \in Functions :
    Cardinality(Left(fr, dn, k, g)) = Cardinality(DirectSites(ToDo(fr, k), g))

\* All contexts before the next one are done, with the contexts around them
\* and those that they call directly, and copied if they are to be.
DoneRight(it, fr, dn, cp) ==
  /\ \A v \in Nodes \ {0} : IsCallSite(v) /\ v < it => v \in dn \/ (fr # <<>> /\ fr[1].node = v)
  /\ \A v \in dn :
       /\ v \in Nodes \ {0} /\ IsCallSite(v)
       /\ getParentUCID(v) \in dn \cup {0} \/ OnStack(fr, getParentUCID(v))
       /\ CopiedPath[v] => /\ \A g : DirectKids(v, g) \subseteq dn
                           /\ \E c \in cp : c.node = v

CopyRight(fr, dn, c) ==
  /\ c.node \in dn /\ CopiedPath[c.node]
  /\ c.callee = cxtTree[c.node].into /\ c.caller = getParentUCID(c.node)
  /\ c.caller = 0 => c.site = cxtTree[c.node].place
  /\ c.caller = 0 \/ c.caller \in dn
     \/ \E k \in DOMAIN fr : /\ fr[k].node = c.caller /\ c.site \notin ToDo(fr, k)
                             /\ k < Len(fr) => fr[k + 1].site # c.site

CopiesRight(fr, dn, cp) ==
  /\ \A c \in cp : CopyRight(fr, dn, c)
  /\ \A c, d \in cp :
       c.node = d.node \/ <<c.caller, c.site>> = <<d.caller, d.site>> => c = d

CacheRight(it, fr, dn, cp) ==
  /\ it \in Nat
  /\ fr # <<>> => fr[1].node < it
  /\ FramesRight(fr, dn) /\ EnoughLeft(fr, dn)
  /\ DoneRight(it, fr, dn, cp) /\ CopiesRight(fr, dn, cp)

-----------------------------------------------------------------------------
(***************************************************************************)
(* The stack of frames.                                                    *)
(***************************************************************************)
LEMMA TailFacts ==
  ASSUME NEW q \in Seq(Sites), q # <<>>, \A i, j \in DOMAIN q : q[i] = q[j] => i = j
  PROVE  /\ Head(q) \in Items(q) /\ Head(q) \in Sites /\ Tail(q) \in Seq(Sites)
         /\ Items(Tail(q)) = Items(q) \ {Head(q)}
         /\ \A i, j \in DOMAIN Tail(q) : Tail(q)[i] = Tail(q)[j] => i = j
<1>1. PICK n : n = Len(q)
  OBVIOUS
<1>2. n \in Nat /\ n > 0 /\ DOMAIN q = 1 .. n /\ Head(q) = q[1]
  BY <1>1
<1>3. PICK t : t = Tail(q)
  OBVIOUS
<1>4. /\ t \in Seq(Sites) /\ Len(t) = n - 1 /\ DOMAIN t = 1 .. n - 1
      /\ \A i \in 1 .. n - 1 : t[i] = q[i + 1]
  BY <1>1, <1>2, <1>3
<1>5. \A i, j \in DOMAIN t : t[i] = t[j] => i = j
  <2> SUFFICES ASSUME NEW i \in 1 .. n - 1, NEW j \in 1 .. n - 1, t[i] = t[j] PROVE i = j
    BY <1>4
  <2>1. q[i + 1] = q[j + 1] /\ i + 1 \in 1 .. n /\ j + 1 \in 1 .. n
    BY <1>2, <1>4
  <2>2. i + 1 = j + 1
    BY <1>2, <2>1
  <2> QED
    BY <2>2
<1>6. ASSUME NEW x \in Items(t)
      PROVE  x \in Items(q) /\ x # Head(q)
  <2>1. PICK i \in 1 .. n - 1 : x = t[i]
    BY <1>4 DEF Items
  <2>2. x = q[i + 1] /\ i + 1 \in 1 .. n /\ i + 1 # 1 /\ 1 \in 1 .. n
    BY <1>2, <1>4, <2>1
  <2> QED
    BY <1>2, <2>2 DEF Items
<1>7. ASSUME NEW x \in Items(q), x # Head(q)
      PROVE  x \in Items(t)
  <2>1. PICK i \in 1 .. n : x = q[i]
    BY <1>2 DEF Items
  <2>2. i # 1 /\ i - 1 \in 1 .. n - 1 /\ (i - 1) + 1 = i
    BY <1>2, <1>7, <2>1
  <2>3. t[i - 1] = x
    BY <1>4, <2>1, <2>2
  <2> QED
    BY <1>4, <2>2, <2>3 DEF Items
<1>8. Head(q) \in Items(q) /\ Head(q) \in Sites
  BY <1>2 DEF Items
<1>9. Items(t) = Items(q) \ {Head(q)}
  BY <1>6, <1>7
<1> QED
  BY <1>3, <1>4, <1>5, <1>8, <1>9

\* The frames once the innermost has gone past its next call.
Advanced(fr) == [fr EXCEPT ![Len(fr)].todo = Tail(fr[Len(fr)].todo)]

LEMMA AdvancedIs ==
  ASSUME NEW fr \in Seq(Frame), fr # <<>>, fr[Len(fr)].todo # <<>>
  PROVE  /\ Len(fr) \in Nat \ {0} /\ DOMAIN fr = 1 .. Len(fr)
         /\ Advanced(fr) \in Seq(Frame) /\ Len(Advanced(fr)) = Len(fr)
         /\ DOMAIN Advanced(fr) = 1 .. Len(fr)
         /\ \A k \in 1 .. Len(fr) :
              /\ Advanced(fr)[k].node = fr[k].node /\ Advanced(fr)[k].site = fr[k].site
              /\ k # Len(fr) => Advanced(fr)[k].todo = fr[k].todo
         /\ Advanced(fr)[Len(fr)].todo = Tail(fr[Len(fr)].todo)
<1>1. Len(fr) \in Nat \ {0} /\ DOMAIN fr = 1 .. Len(fr) /\ Len(fr) \in 1 .. Len(fr)
  OBVIOUS
<1>2. PICK x : x = [fr[Len(fr)] EXCEPT !.todo = Tail(fr[Len(fr)].todo)]
  OBVIOUS
<1>3. fr[Len(fr)] \in Frame
  BY <1>1
<1> /\ fr[Len(fr)].todo \in Seq(Sites) /\ fr[Len(fr)].node \in Nat
    /\ fr[Len(fr)].site \in Sites
  BY <1>3 DEF Frame
<1> Tail(fr[Len(fr)].todo) \in Seq(Sites)
  OBVIOUS
<1>4. /\ x \in Frame /\ x.node = fr[Len(fr)].node /\ x.site = fr[Len(fr)].site
      /\ x.todo = Tail(fr[Len(fr)].todo)
  BY <1>2, <1>3 DEF Frame
<1>5. PICK rest : rest = Advanced(fr)
  OBVIOUS
<1>6. rest = [fr EXCEPT ![Len(fr)] = x]
  BY <1>2, <1>5 DEF Advanced
<1>7. rest \in [1 .. Len(fr) -> Frame]
  BY <1>1, <1>4, <1>6
<1>8. rest \in Seq(Frame) /\ Len(rest) = Len(fr)
  BY <1>1, <1>7, SeqDef
<1>9. /\ DOMAIN rest = 1 .. Len(fr) /\ rest[Len(fr)] = x
      /\ \A k \in 1 .. Len(fr) : k # Len(fr) => rest[k] = fr[k]
  BY <1>1, <1>6
<1> QED
  BY <1>1, <1>4, <1>5, <1>8, <1>9

LEMMA AdvancedRight ==
  ASSUME NEW fr, NEW dn, FramesRight(fr, dn), fr # <<>>, fr[Len(fr)].todo # <<>>
  PROVE  /\ FramesRight(Advanced(fr), dn)
         /\ Head(fr[Len(fr)].todo) \in ToDo(fr, Len(fr)) /\ Head(fr[Len(fr)].todo) \in Sites
         /\ ToDo(Advanced(fr), Len(fr)) = ToDo(fr, Len(fr)) \ {Head(fr[Len(fr)].todo)}
         /\ \A k \in 1 .. Len(fr) : k # Len(fr) => ToDo(Advanced(fr), k) = ToDo(fr, k)
         /\ \A k, g : k \in 1 .. Len(fr) => Left(Advanced(fr), dn, k, g) = Left(fr, dn, k, g)
         /\ \A u : OnStack(Advanced(fr), u) <=> OnStack(fr, u)
<1>0. PICK n, rest : n = Len(fr) /\ rest = Advanced(fr)
  OBVIOUS
<1>1. fr \in Seq(Frame)
  BY DEF FramesRight
<1>2. /\ n \in Nat \ {0} /\ DOMAIN fr = 1 .. n
      /\ rest \in Seq(Frame) /\ Len(rest) = n /\ DOMAIN rest = 1 .. n
      /\ \A k \in 1 .. n : /\ rest[k].node = fr[k].node /\ rest[k].site = fr[k].site
                           /\ k # n => rest[k].todo = fr[k].todo
      /\ rest[n].todo = Tail(fr[n].todo)
  BY <1>0, <1>1, AdvancedIs
<1> n \in 1 .. n
  BY <1>2
<1>3. \A k \in 1 .. n : FrameRight(fr, dn, k)
  BY <1>2 DEF FramesRight
<1>4. PICK q : q = fr[n].todo
  OBVIOUS
<1>5. q \in Seq(Sites) /\ q # <<>> /\ \A i, j \in DOMAIN q : q[i] = q[j] => i = j
  BY <1>0, <1>2, <1>3, <1>4 DEF FrameRight
<1>6. /\ Head(q) \in ToDo(fr, n) /\ Head(q) \in Sites /\ Tail(q) \in Seq(Sites)
      /\ ToDo(rest, n) = ToDo(fr, n) \ {Head(q)}
      /\ \A i, j \in DOMAIN Tail(q) : Tail(q)[i] = Tail(q)[j] => i = j
  <2>1. ToDo(fr, n) = Items(q) /\ ToDo(rest, n) = Items(Tail(q))
    BY <1>2, <1>4 DEF ToDo
  <2> QED
    BY <1>5, <2>1, TailFacts
<1>7. \A k \in 1 .. n : k # n => ToDo(rest, k) = ToDo(fr, k)
  BY <1>2 DEF ToDo
<1>8. \A k, g : k \in 1 .. n => Left(rest, dn, k, g) = Left(fr, dn, k, g)
  <2> SUFFICES ASSUME NEW k \in 1 .. n, NEW g PROVE Left(rest, dn, k, g) = Left(fr, dn, k, g)
    OBVIOUS
  <2>1. rest[k].node = fr[k].node /\ (k < Len(rest) <=> k < Len(fr))
    BY <1>2
  <2>2. k < Len(fr) => k + 1 \in 1 .. n
    BY <1>2
  <2>3. k < Len(fr) => rest[k + 1].node = fr[k + 1].node
    BY <1>2, <2>2
  <2> QED
    BY <2>1, <2>3 DEF Left
<1>9. \A u : OnStack(rest, u) <=> OnStack(fr, u)
  BY <1>2 DEF OnStack
<1>10. ASSUME NEW k \in 1 .. n PROVE FrameRight(rest, dn, k)
  <2>1. PICK u : u = fr[k].node
    OBVIOUS
  <2>2. /\ u \in Nodes \ {0} /\ Copied(u) /\ CopiedPath[u] /\ u \notin dn
        /\ getParentUCID(u) = CallerOf(fr, k)
        /\ Callee(fr[k].site) = cxtTree[u].into
        /\ k = 1 => fr[k].site = cxtTree[u].place
        /\ k > 1 => fr[k].site \notin ToDo(fr, k - 1)
        /\ fr[k].todo \in Seq(Sites)
        /\ ToDo(fr, k) \subseteq CallSitesIn(prog, cxtTree[u].into)
        /\ \A i, j \in DOMAIN fr[k].todo : fr[k].todo[i] = fr[k].todo[j] => i = j
    BY <1>3, <2>1 DEF FrameRight
  <2>3. k > 1 => k - 1 \in 1 .. n /\ k - 1 # n
    BY <1>2
  <2>4. CallerOf(rest, k) = CallerOf(fr, k)
    <3>1. CASE k = 1
      BY <3>1 DEF CallerOf
    <3>2. CASE k # 1
      BY <1>2, <2>3, <3>2 DEF CallerOf
    <3> QED
      BY <3>1, <3>2
  <2>5. k > 1 => rest[k].site \notin ToDo(rest, k - 1)
    BY <1>2, <1>7, <2>2, <2>3
  <2>6. ToDo(rest, k) \subseteq CallSitesIn(prog, cxtTree[u].into)
    BY <1>6, <1>7, <2>2
  <2>7. /\ rest[k].todo \in Seq(Sites)
        /\ \A i, j \in DOMAIN rest[k].todo : rest[k].todo[i] = rest[k].todo[j] => i = j
    <3>1. CASE k = n
      <4>1. rest[k].todo = Tail(q)
        BY <1>2, <1>4, <3>1
      <4> QED
        BY <1>6, <4>1, Zenon
    <3>2. CASE k # n
      <4>1. rest[k].todo = fr[k].todo
        BY <1>2, <3>2
      <4> QED
        BY <2>2, <4>1, Zenon
    <3> QED
      BY <3>1, <3>2
  <2>8. rest[k].node = u /\ rest[k].site = fr[k].site
    BY <1>2, <2>1
  <2> QED
    BY <2>2, <2>4, <2>5, <2>6, <2>7, <2>8 DEF FrameRight
<1>11. \A i, j \in 1 .. n : i < j => rest[i].node < rest[j].node
  BY <1>2 DEF FramesRight
<1>12. FramesRight(rest, dn)
  BY <1>2, <1>10, <1>11 DEF FramesRight
<1> QED
  BY <1>0, <1>4, <1>6, <1>7, <1>8, <1>9, <1>12

\* A copy stays right when the caller's frame goes past a call.
LEMMA AdvancedCopy ==
  ASSUME NEW fr, NEW dn, FramesRight(fr, dn), fr # <<>>, fr[Len(fr)].todo # <<>>,
         NEW c, CopyRight(fr, dn, c)
  PROVE  CopyRight(Advanced(fr), dn, c)
<1>1. PICK n, rest : n = Len(fr) /\ rest = Advanced(fr)
  OBVIOUS
<1>2. /\ n \in Nat \ {0} /\ DOMAIN fr = 1 .. n /\ DOMAIN rest = 1 .. n /\ Len(rest) = n
      /\ \A k \in 1 .. n : rest[k].node = fr[k].node /\ rest[k].site = fr[k].site
  <2>1. fr \in Seq(Frame)
    BY DEF FramesRight
  <2> QED
    BY <1>1, <2>1, AdvancedIs
<1>3. \A k \in 1 .. n : ToDo(rest, k) \subseteq ToDo(fr, k)
  <2>1. /\ ToDo(rest, n) = ToDo(fr, n) \ {Head(fr[n].todo)}
        /\ \A k \in 1 .. n : k # n => ToDo(rest, k) = ToDo(fr, k)
    BY <1>1, AdvancedRight
  <2> QED
    BY <2>1
<1>4. CASE c.caller = 0 \/ c.caller \in dn
  BY <1>1, <1>4 DEF CopyRight
<1>5. CASE ~ (c.caller = 0 \/ c.caller \in dn)
  <2>1. PICK k \in 1 .. n : /\ fr[k].node = c.caller /\ c.site \notin ToDo(fr, k)
                            /\ k < n => fr[k + 1].site # c.site
    BY <1>1, <1>2, <1>5 DEF CopyRight
  <2>2. rest[k].node = c.caller /\ c.site \notin ToDo(rest, k)
    BY <1>2, <1>3, <2>1
  <2>3. k < n => k + 1 \in 1 .. n
    BY <1>2
  <2>4. k < n => rest[k + 1].site # c.site
    BY <1>2, <2>1, <2>3
  <2> QED
    BY <1>1, <1>2, <2>2, <2>4 DEF CopyRight
<1> QED
  BY <1>4, <1>5

LEMMA OneLess ==
  ASSUME NEW A, NEW B, IsFiniteSet(A), IsFiniteSet(B), Cardinality(A) = Cardinality(B),
         NEW a \in A, NEW b \in B
  PROVE  Cardinality(A \ {a}) = Cardinality(B \ {b})
BY FS_RemoveElement

LEMMA LeftFinite ==
  ASSUME Finished, NoInvokes, NEW fr, NEW dn, FramesRight(fr, dn), NEW k \in DOMAIN fr, NEW g
  PROVE  /\ IsFiniteSet(Left(fr, dn, k, g))
         /\ IsFiniteSet(DirectSites(ToDo(fr, k), g))
<1>1. Left(fr, dn, k, g) \in SUBSET DirectKids(fr[k].node, g)
  BY DEF Left
<1>2. IsFiniteSet(DirectKids(fr[k].node, g))
  BY KidsFinite
<1>3. PICK u : u = fr[k].node
  OBVIOUS
<1>4. /\ u \in Nodes /\ IsCallSite(u) /\ ~ cxtTree[u].recursive
      /\ ToDo(fr, k) \subseteq CallSitesIn(prog, cxtTree[u].into)
  BY <1>3 DEF FramesRight, FrameRight, Copied
<1>5. IsFiniteSet(DirectSites(CallSitesIn(prog, cxtTree[u].into), g))
  BY <1>4, KidsAreSites
<1>6. DirectSites(ToDo(fr, k), g) \in SUBSET DirectSites(CallSitesIn(prog, cxtTree[u].into), g)
  BY <1>4 DEF DirectSites
<1> QED
  BY <1>1, <1>2, <1>5, <1>6, FS_Subset

(***************************************************************************)
(* The innermost frame has a context left for its next call, and when that *)
(* one is taken still one for each call after it.                          *)
(***************************************************************************)
LEMMA ContextForCall ==
  ASSUME Finished, NoInvokes, NEW fr, NEW dn, FramesRight(fr, dn), EnoughLeft(fr, dn), fr # <<>>,
         NEW s \in ToDo(fr, Len(fr)), IsDirectCall(s)
  PROVE  Left(fr, dn, Len(fr), Callee(s)) # {}
<1>1. PICK n, g : n = Len(fr) /\ g = Callee(s)
  OBVIOUS
<1>2. n \in DOMAIN fr
  BY <1>1 DEF FramesRight
<1>3. g \in Functions
  BY <1>1 DEF IsDirectCall, Callee, Candidates
<1>4. Cardinality(Left(fr, dn, n, g)) = Cardinality(DirectSites(ToDo(fr, n), g))
  BY <1>2, <1>3 DEF EnoughLeft
<1>5. s \in DirectSites(ToDo(fr, n), g)
  BY <1>1 DEF DirectSites
<1>6. IsFiniteSet(Left(fr, dn, n, g)) /\ IsFiniteSet(DirectSites(ToDo(fr, n), g))
  BY <1>2, LeftFinite
<1>7. Cardinality(DirectSites(ToDo(fr, n), g)) # 0
  BY <1>5, <1>6, FS_EmptySet
<1>8. Left(fr, dn, n, g) # {}
  BY <1>4, <1>6, <1>7, FS_EmptySet
<1> QED
  BY <1>1, <1>8

LEMMA EnoughAfterCall ==
  ASSUME Finished, NoInvokes, NEW fr, NEW dn, FramesRight(fr, dn), EnoughLeft(fr, dn), fr # <<>>,
         NEW s \in ToDo(fr, Len(fr)), IsDirectCall(s),
         NEW v \in Left(fr, dn, Len(fr), Callee(s)), NEW g \in Functions
  PROVE  /\ Cardinality(Left(fr, dn, Len(fr), g) \ {v})
              = Cardinality(DirectSites(ToDo(fr, Len(fr)) \ {s}, g))
         /\ \A k \in DOMAIN fr : k # Len(fr) => v \notin Left(fr, dn, k, g)
<1>1. PICK n : n = Len(fr)
  OBVIOUS
<1>2. n \in DOMAIN fr /\ n \in Nat /\ DOMAIN fr = 1 .. n
  BY <1>1 DEF FramesRight
<1>3. PICK A, B : A = Left(fr, dn, n, g) /\ B = DirectSites(ToDo(fr, n), g)
  OBVIOUS
<1>4. IsFiniteSet(A) /\ IsFiniteSet(B) /\ Cardinality(A) = Cardinality(B)
  BY <1>2, <1>3, LeftFinite DEF EnoughLeft
<1>5. DirectSites(ToDo(fr, n) \ {s}, g) = B \ {s}
  BY <1>3 DEF DirectSites
<1>6. v \in Left(fr, dn, n, Callee(s))
  BY <1>1
<1>7. Cardinality(A \ {v}) = Cardinality(B \ {s})
  <2>1. CASE g = Callee(s)
    <3>1. v \in A /\ s \in B
      BY <1>1, <1>3, <1>6, <2>1 DEF DirectSites
    <3> QED
      BY <1>4, <3>1, OneLess
  <2>2. CASE g # Callee(s)
    <3>1. v \notin A /\ s \notin B
      BY <1>3, <1>6, <2>2 DEF DirectSites, Left, DirectKids
    <3>2. A \ {v} = A /\ B \ {s} = B
      BY <3>1
    <3> QED
      BY <1>4, <3>2
  <2> QED
    BY <2>1, <2>2
<1>8. ASSUME NEW k \in DOMAIN fr, k # n PROVE v \notin Left(fr, dn, k, g)
  <2>1. fr[k].node # fr[n].node
    <3>1. k < n /\ fr[k].node \in Nat /\ fr[n].node \in Nat
      BY <1>2, <1>8, NodeIs DEF FramesRight, FrameRight
    <3>2. fr[k].node < fr[n].node
      BY <1>2, <3>1 DEF FramesRight
    <3> QED
      BY <3>1, <3>2
  <2>2. getParentUCID(v) = fr[n].node
    BY <1>6 DEF Left, DirectKids, Kids
  <2> QED
    BY <2>1, <2>2 DEF Left, DirectKids, Kids
<1> QED
  BY <1>1, <1>3, <1>5, <1>7, <1>8

(***************************************************************************)
(* A frame is pushed for a context that is to be copied: none of the       *)
(* contexts it calls is done yet.                                          *)
(***************************************************************************)
LEMMA PushRight ==
  ASSUME Finished, NoInvokes, order \in Orders(prog),
         NEW it, NEW fr, NEW dn, NEW cp, NEW dfr,
         FramesRight(fr, dn), DoneRight(it, dfr, dn, cp),
         \A u : OnStack(dfr, u) => OnStack(fr, u),
         NEW x \in Frame, x.node \in Nodes \ {0}, Copied(x.node), x.node \notin dn,
         getParentUCID(x.node) = IF fr = <<>> THEN 0 ELSE fr[Len(fr)].node,
         Callee(x.site) = cxtTree[x.node].into,
         fr = <<>> => x.site = cxtTree[x.node].place,
         fr # <<>> => x.site \notin ToDo(fr, Len(fr)),
         x.todo = order[cxtTree[x.node].into]
  PROVE  /\ FramesRight(Append(fr, x), dn)
         /\ \A g \in Functions : Cardinality(Left(Append(fr, x), dn, Len(fr) + 1, g))
              = Cardinality(DirectSites(ToDo(Append(fr, x), Len(fr) + 1), g))
<1>1. PICK n, gr, v : n = Len(fr) /\ gr = Append(fr, x) /\ v = x.node
  OBVIOUS
<1>2. /\ n \in Nat /\ DOMAIN fr = 1 .. n /\ gr \in Seq(Frame) /\ Len(gr) = n + 1
      /\ DOMAIN gr = 1 .. n + 1 /\ gr[n + 1] = x /\ (fr = <<>> <=> n = 0)
      /\ \A k \in 1 .. n : gr[k] = fr[k]
  BY <1>1 DEF FramesRight
<1>3. v \in Nodes \ {0} /\ Copied(v) /\ v \notin dn /\ v \in Nat
  BY <1>1, NodeIs
<1>4. ASSUME NEW k \in 1 .. n
      PROVE  /\ fr[k].node < v /\ FrameRight(fr, dn, k) /\ fr[k].node \in Nat
             /\ CopiedPath[fr[k].node] /\ fr[n].node \in Nat /\ CopiedPath[fr[n].node]
  <2>1. /\ \A j \in 1 .. n : FrameRight(fr, dn, j) /\ fr[j].node \in Nat /\ CopiedPath[fr[j].node]
        /\ \A i, j \in 1 .. n : i < j => fr[i].node < fr[j].node
    BY <1>2, NodeIs DEF FramesRight, FrameRight
  <2>2. n \in 1 .. n /\ fr # <<>>
    BY <1>2
  <2>3. getParentUCID(v) = fr[n].node
    BY <1>1, <2>2
  <2>4. fr[n].node < v
    BY <1>3, <2>3, CallerIs
  <2>5. k < n => fr[k].node < fr[n].node
    BY <2>1, <2>2
  <2> QED
    BY <1>2, <1>3, <2>1, <2>2, <2>4, <2>5
<1>5. CopiedPath[v]
  <2>1. CASE n = 0
    BY <1>1, <1>2, <1>3, <2>1, CopiedPathStep
  <2>2. CASE n # 0
    <3>1. n \in 1 .. n /\ fr # <<>>
      BY <1>2, <2>2
    <3> QED
      BY <1>1, <1>3, <1>4, <3>1, CopiedPathStep
  <2> QED
    BY <2>1, <2>2
<1>6. PICK f : f = cxtTree[v].into
  OBVIOUS
<1>7. f \in Functions /\ IsCallSite(v) /\ ~ cxtTree[v].recursive
  BY <1>3, <1>6, NodeIs DEF Copied
<1>8. PICK q : q = order[f]
  OBVIOUS
<1>9. /\ q \in Seq(Sites) /\ Items(q) = CallSitesIn(prog, f)
      /\ \A i, j \in DOMAIN q : q[i] = q[j] => i = j
  <2>1. prog \in Programs
    BY DEF Finished, BuilderInv, TreeInv
  <2> QED
    BY <1>7, <1>8, <2>1, OrdersAssumption DEF Items
<1>10. x.todo = q
  BY <1>1, <1>6, <1>8
<1>11. ToDo(gr, n + 1) = CallSitesIn(prog, f)
  BY <1>2, <1>9, <1>10 DEF ToDo
<1>12. FrameRight(gr, dn, n + 1)
  <2>1. getParentUCID(v) = CallerOf(gr, n + 1)
    <3>1. CASE n = 0
      BY <1>1, <1>2, <3>1 DEF CallerOf
    <3>2. CASE n # 0
      <4>1. n \in 1 .. n /\ fr # <<>> /\ (n + 1) - 1 = n /\ n + 1 # 1
        BY <1>2, <3>2
      <4> QED
        BY <1>1, <1>2, <4>1 DEF CallerOf
    <3> QED
      BY <3>1, <3>2
  <2>2. n + 1 = 1 => gr[n + 1].site = cxtTree[v].place
    BY <1>1, <1>2
  <2>3. n + 1 > 1 => gr[n + 1].site \notin ToDo(gr, (n + 1) - 1)
    <3>1. SUFFICES ASSUME n + 1 > 1 PROVE x.site \notin ToDo(gr, n)
      BY <1>2
    <3>2. n \in 1 .. n /\ fr # <<>>
      BY <1>2, <3>1
    <3>3. ToDo(gr, n) = ToDo(fr, n)
      BY <1>2, <3>2 DEF ToDo
    <3> QED
      BY <1>1, <3>2, <3>3
  <2>4. /\ gr[n + 1].todo \in Seq(Sites)
        /\ \A i, j \in DOMAIN gr[n + 1].todo :
             gr[n + 1].todo[i] = gr[n + 1].todo[j] => i = j
    <3>1. gr[n + 1].todo = q
      BY <1>2, <1>10
    <3> QED
      BY <1>9, <3>1, Zenon
  <2>5. gr[n + 1].node = v /\ Callee(gr[n + 1].site) = cxtTree[v].into
    BY <1>1, <1>2
  <2>6. ToDo(gr, n + 1) \subseteq CallSitesIn(prog, cxtTree[v].into)
    BY <1>6, <1>11
  <2> QED
    BY <1>3, <1>5, <2>1, <2>2, <2>3, <2>4, <2>5, <2>6 DEF FrameRight
<1>13. ASSUME NEW k \in 1 .. n PROVE FrameRight(gr, dn, k)
  <2>1. FrameRight(fr, dn, k) /\ gr[k] = fr[k]
    BY <1>2, <1>4
  <2>2. k > 1 => k - 1 \in 1 .. n
    BY <1>2
  <2>3. k > 1 => gr[k - 1] = fr[k - 1]
    BY <1>2, <2>2
  <2>4. CallerOf(gr, k) = CallerOf(fr, k)
    <3>1. k # 1 => k > 1
      BY <1>2
    <3> QED
      BY <2>3, <3>1 DEF CallerOf
  <2>5. ToDo(gr, k) = ToDo(fr, k) /\ (k > 1 => ToDo(gr, k - 1) = ToDo(fr, k - 1))
    BY <2>1, <2>3 DEF ToDo
  <2> QED
    BY <2>1, <2>4, <2>5 DEF FrameRight
<1>14. ASSUME NEW i \in 1 .. n + 1, NEW j \in 1 .. n + 1, i < j
       PROVE  gr[i].node < gr[j].node
  <2>1. CASE j = n + 1
    <3>1. i \in 1 .. n /\ gr[j].node = v
      BY <1>1, <1>2, <1>14, <2>1
    <3> QED
      BY <1>2, <1>4, <3>1
  <2>2. CASE j # n + 1
    <3>1. i \in 1 .. n /\ j \in 1 .. n
      BY <1>2, <1>14, <2>2
    <3> QED
      BY <1>2, <1>14, <3>1 DEF FramesRight
  <2> QED
    BY <2>1, <2>2
<1>15. FramesRight(gr, dn)
  <2>1. \A k \in 1 .. n + 1 : k = n + 1 \/ k \in 1 .. n
    BY <1>2
  <2> QED
    BY <1>2, <1>12, <1>13, <1>14, <2>1 DEF FramesRight
<1>16. ASSUME NEW g \in Functions
       PROVE  Cardinality(Left(gr, dn, n + 1, g)) = Cardinality(DirectSites(ToDo(gr, n + 1), g))
  <2>1. ASSUME NEW w \in DirectKids(v, g) PROVE w \notin dn
    <3>1. w \in Nodes \ {0} /\ getParentUCID(w) = v
      BY DEF DirectKids, Kids
    <3>2. w \in dn => v \in dn \cup {0} \/ OnStack(dfr, v)
      BY <3>1 DEF DoneRight
    <3>3. ~ OnStack(fr, v)
      <4>1. \A k \in 1 .. n : fr[k].node # v
        BY <1>3, <1>4
      <4> QED
        BY <1>2, <4>1 DEF OnStack
    <3> QED
      BY <1>3, <3>2, <3>3
  <2>2. ~ (n + 1 < Len(gr)) /\ gr[n + 1].node = v
    BY <1>1, <1>2
  <2>3. Left(gr, dn, n + 1, g) = DirectKids(v, g)
    BY <2>1, <2>2 DEF Left
  <2>4. Cardinality(DirectSites(CallSitesIn(prog, f), g)) = Cardinality(DirectKids(v, g))
    BY <1>3, <1>6, <1>7, KidsAreSites
  <2> QED
    BY <1>11, <2>3, <2>4
<1> QED
  BY <1>1, <1>15, <1>16

-----------------------------------------------------------------------------
(***************************************************************************)
(* The steps keep the invariant.                                           *)
(***************************************************************************)
\* Of calls that are not searched for nothing is counted.
LEMMA CallSkipped ==
  ASSUME Finished, NoInvokes, NEW it, NEW fr, NEW dn, NEW cp, CacheRight(it, fr, dn, cp),
         fr # <<>>, fr[Len(fr)].todo # <<>>, ~ IsDirectCall(Head(fr[Len(fr)].todo))
  PROVE  CacheRight(it, Advanced(fr), dn, cp)
<1>1. PICK n, rest : n = Len(fr) /\ rest = Advanced(fr)
  OBVIOUS
<1>2. FramesRight(fr, dn) /\ fr \in Seq(Frame)
  BY DEF CacheRight, FramesRight
<1>3. /\ n \in Nat \ {0} /\ DOMAIN fr = 1 .. n /\ DOMAIN rest = 1 .. n /\ Len(rest) = n
      /\ rest[1].node = fr[1].node /\ rest # <<>>
  <2>1. 1 \in 1 .. Len(fr)
    BY <1>2
  <2> QED
    BY <1>1, <1>2, <2>1, AdvancedIs
<1>4. /\ FramesRight(rest, dn)
      /\ ToDo(rest, n) = ToDo(fr, n) \ {Head(fr[n].todo)}
      /\ \A k \in 1 .. n : k # n => ToDo(rest, k) = ToDo(fr, k)
      /\ \A k, g : k \in 1 .. n => Left(rest, dn, k, g) = Left(fr, dn, k, g)
      /\ \A u : OnStack(rest, u) <=> OnStack(fr, u)
  BY <1>1, <1>2, AdvancedRight
<1>5. ASSUME NEW k \in 1 .. n, NEW g \in Functions
      PROVE  Cardinality(Left(rest, dn, k, g)) = Cardinality(DirectSites(ToDo(rest, k), g))
  <2>1. Cardinality(Left(fr, dn, k, g)) = Cardinality(DirectSites(ToDo(fr, k), g))
    BY <1>3 DEF CacheRight, EnoughLeft
  <2>2. DirectSites(ToDo(rest, k), g) = DirectSites(ToDo(fr, k), g)
    <3>1. CASE k = n
      BY <1>1, <1>4, <3>1 DEF DirectSites
    <3>2. CASE k # n
      BY <1>4, <3>2
    <3> QED
      BY <3>1, <3>2
  <2> QED
    BY <1>4, <2>1, <2>2
<1>6. EnoughLeft(rest, dn)
  BY <1>3, <1>5 DEF EnoughLeft
<1>7. DoneRight(it, rest, dn, cp)
  BY <1>3, <1>4 DEF CacheRight, DoneRight
<1>8. CopiesRight(rest, dn, cp)
  BY <1>1, <1>2, AdvancedCopy DEF CacheRight, CopiesRight
<1> QED
  BY <1>1, <1>3, <1>4, <1>6, <1>7, <1>8 DEF CacheRight

\* A recursive context is done without a copy.
LEMMA CallOfLeaf ==
  ASSUME Finished, NoInvokes, NEW it, NEW fr, NEW dn, NEW cp, CacheRight(it, fr, dn, cp),
         fr # <<>>, fr[Len(fr)].todo # <<>>, IsDirectCall(Head(fr[Len(fr)].todo)),
         NEW v \in Left(fr, dn, Len(fr), Callee(Head(fr[Len(fr)].todo))), cxtTree[v].recursive
  PROVE  CacheRight(it, Advanced(fr), dn \cup {v}, cp)
<1>1. PICK n, rest, s : n = Len(fr) /\ rest = Advanced(fr) /\ s = Head(fr[Len(fr)].todo)
  OBVIOUS
<1> DEFINE dn2 == dn \cup {v}
<1>2. FramesRight(fr, dn) /\ fr \in Seq(Frame) /\ EnoughLeft(fr, dn)
  BY DEF CacheRight, FramesRight
<1>3. /\ n \in Nat \ {0} /\ DOMAIN fr = 1 .. n /\ DOMAIN rest = 1 .. n /\ Len(rest) = n
      /\ rest[1].node = fr[1].node /\ rest # <<>> /\ n \in 1 .. n
      /\ \A k \in 1 .. n : rest[k].node = fr[k].node
  <2>1. 1 \in 1 .. Len(fr)
    BY <1>2
  <2> QED
    BY <1>1, <1>2, <2>1, AdvancedIs
<1>4. /\ FramesRight(rest, dn)
      /\ s \in ToDo(fr, n) /\ ToDo(rest, n) = ToDo(fr, n) \ {s}
      /\ \A k \in 1 .. n : k # n => ToDo(rest, k) = ToDo(fr, k)
      /\ \A k, g : k \in 1 .. n => Left(rest, dn, k, g) = Left(fr, dn, k, g)
      /\ \A u : OnStack(rest, u) <=> OnStack(fr, u)
  <2>1. /\ FramesRight(Advanced(fr), dn)
        /\ Head(fr[Len(fr)].todo) \in ToDo(fr, Len(fr)) /\ Head(fr[Len(fr)].todo) \in Sites
        /\ ToDo(Advanced(fr), Len(fr)) = ToDo(fr, Len(fr)) \ {Head(fr[Len(fr)].todo)}
        /\ \A k \in 1 .. Len(fr) : k # Len(fr) => ToDo(Advanced(fr), k) = ToDo(fr, k)
        /\ \A k, g : k \in 1 .. Len(fr) => Left(Advanced(fr), dn, k, g) = Left(fr, dn, k, g)
        /\ \A u : OnStack(Advanced(fr), u) <=> OnStack(fr, u)
    BY <1>2, AdvancedRight
  <2> QED
    BY <1>1, <2>1
<1>5. /\ v \in Nodes \ {0} /\ IsCallSite(v) /\ getParentUCID(v) = fr[n].node /\ v \notin dn
      /\ ~ Copied(v) /\ ~ CopiedPath[v]
  <2>1. v \in Nodes \ {0} /\ IsCallSite(v) /\ getParentUCID(v) = fr[n].node /\ v \notin dn
    BY <1>1 DEF Left, DirectKids, Kids
  <2> QED
    BY <2>1, CopiedPathStep DEF Copied
<1>6. ASSUME NEW k \in 1 .. n PROVE rest[k].node # v
  BY <1>3, <1>4, <1>5 DEF FramesRight, FrameRight
<1>7. FramesRight(rest, dn2)
  BY <1>3, <1>4, <1>6 DEF FramesRight, FrameRight
<1>8. ASSUME NEW k \in 1 .. n, NEW g \in Functions
      PROVE  Cardinality(Left(rest, dn2, k, g)) = Cardinality(DirectSites(ToDo(rest, k), g))
  <2>1. Left(rest, dn2, k, g) = Left(rest, dn, k, g) \ {v}
    BY DEF Left
  <2>2. Left(rest, dn, k, g) = Left(fr, dn, k, g)
    BY <1>4
  <2>3. /\ Cardinality(Left(fr, dn, n, g) \ {v}) = Cardinality(DirectSites(ToDo(fr, n) \ {s}, g))
        /\ k # n => v \notin Left(fr, dn, k, g)
    <3>1. s \in ToDo(fr, Len(fr)) /\ v \in Left(fr, dn, Len(fr), Callee(s)) /\ IsDirectCall(s)
      BY <1>1, <1>4
    <3>2. /\ Cardinality(Left(fr, dn, Len(fr), g) \ {v})
               = Cardinality(DirectSites(ToDo(fr, Len(fr)) \ {s}, g))
          /\ \A j \in DOMAIN fr : j # Len(fr) => v \notin Left(fr, dn, j, g)
      BY <1>2, <3>1, EnoughAfterCall
    <3> QED
      BY <1>1, <1>3, <3>2
  <2>4. CASE k = n
    BY <1>4, <2>1, <2>2, <2>3, <2>4
  <2>5. CASE k # n
    <3>1. Left(rest, dn2, k, g) = Left(fr, dn, k, g)
      BY <2>1, <2>2, <2>3, <2>5
    <3>2. Cardinality(Left(fr, dn, k, g)) = Cardinality(DirectSites(ToDo(fr, k), g))
      BY <1>2, <1>3 DEF EnoughLeft
    <3> QED
      BY <1>4, <2>5, <3>1, <3>2
  <2> QED
    BY <2>4, <2>5
<1>9. EnoughLeft(rest, dn2)
  BY <1>3, <1>8 DEF EnoughLeft
<1>10. DoneRight(it, rest, dn2, cp)
  <2>1. DoneRight(it, fr, dn, cp)
    BY DEF CacheRight
  <2>2. \A w \in Nodes \ {0} :
          IsCallSite(w) /\ w < it => w \in dn2 \/ (rest # <<>> /\ rest[1].node = w)
    BY <1>3, <2>1 DEF DoneRight
  <2>3. ASSUME NEW w \in dn2
        PROVE  /\ w \in Nodes \ {0} /\ IsCallSite(w)
               /\ getParentUCID(w) \in dn2 \cup {0} \/ OnStack(rest, getParentUCID(w))
               /\ CopiedPath[w] => /\ \A g : DirectKids(w, g) \subseteq dn2
                                   /\ \E c \in cp : c.node = w
    <3>1. CASE w = v
      <4>1. OnStack(rest, getParentUCID(v))
        BY <1>3, <1>5 DEF OnStack
      <4> QED
        BY <1>5, <3>1, <4>1
    <3>2. CASE w \in dn
      BY <1>4, <2>1, <3>2 DEF DoneRight
    <3> QED
      BY <3>1, <3>2
  <2> HIDE DEF dn2
  <2> QED
    BY <2>2, <2>3 DEF DoneRight
<1>11. CopiesRight(rest, dn2, cp)
  <2>1. \A c \in cp : CopyRight(rest, dn, c)
    BY <1>1, <1>2, AdvancedCopy DEF CacheRight, CopiesRight
  <2>2. \A c \in cp : CopyRight(rest, dn2, c)
    BY <2>1 DEF CopyRight
  <2> QED
    BY <2>2 DEF CacheRight, CopiesRight
<1> QED
  BY <1>1, <1>3, <1>7, <1>9, <1>10, <1>11 DEF CacheRight

\* A frame for a context that is called where the innermost frame is.
LEMMA CallCopied ==
  ASSUME Finished, NoInvokes, order \in Orders(prog),
         NEW it, NEW fr, NEW dn, NEW cp, CacheRight(it, fr, dn, cp),
         fr # <<>>, fr[Len(fr)].todo # <<>>, IsDirectCall(Head(fr[Len(fr)].todo)),
         NEW v \in Left(fr, dn, Len(fr), Callee(Head(fr[Len(fr)].todo))),
         ~ cxtTree[v].recursive,
         NEW x, x = [node |-> v, site |-> Head(fr[Len(fr)].todo),
                     todo |-> order[Callee(Head(fr[Len(fr)].todo))]]
  PROVE  CacheRight(it, Append(Advanced(fr), x), dn, cp)
<1>1. PICK n, rest, s : n = Len(fr) /\ rest = Advanced(fr) /\ s = Head(fr[Len(fr)].todo)
  OBVIOUS
<1>2. FramesRight(fr, dn) /\ fr \in Seq(Frame) /\ EnoughLeft(fr, dn)
  BY DEF CacheRight, FramesRight
<1>3. /\ n \in Nat \ {0} /\ DOMAIN fr = 1 .. n /\ DOMAIN rest = 1 .. n /\ Len(rest) = n
      /\ rest # <<>> /\ n \in 1 .. n /\ 1 \in 1 .. n /\ rest \in Seq(Frame)
      /\ \A k \in 1 .. n : rest[k].node = fr[k].node
  BY <1>1, <1>2, AdvancedIs
<1>4. /\ FramesRight(rest, dn)
      /\ s \in ToDo(fr, n) /\ s \in Sites /\ ToDo(rest, n) = ToDo(fr, n) \ {s}
      /\ \A k \in 1 .. n : k # n => ToDo(rest, k) = ToDo(fr, k)
      /\ \A k, g : k \in 1 .. n => Left(rest, dn, k, g) = Left(fr, dn, k, g)
      /\ \A u : OnStack(rest, u) <=> OnStack(fr, u)
  <2>1. /\ FramesRight(Advanced(fr), dn)
        /\ Head(fr[Len(fr)].todo) \in ToDo(fr, Len(fr)) /\ Head(fr[Len(fr)].todo) \in Sites
        /\ ToDo(Advanced(fr), Len(fr)) = ToDo(fr, Len(fr)) \ {Head(fr[Len(fr)].todo)}
        /\ \A k \in 1 .. Len(fr) : k # Len(fr) => ToDo(Advanced(fr), k) = ToDo(fr, k)
        /\ \A k, g : k \in 1 .. Len(fr) => Left(Advanced(fr), dn, k, g) = Left(fr, dn, k, g)
        /\ \A u : OnStack(Advanced(fr), u) <=> OnStack(fr, u)
    BY <1>2, AdvancedRight
  <2> QED
    BY <1>1, <2>1
<1>5. /\ v \in Nodes \ {0} /\ IsCallSite(v) /\ getParentUCID(v) = fr[n].node /\ v \notin dn
      /\ cxtTree[v].into = Callee(s) /\ Direct(cxtTree[v].place) /\ v \in Nat
      /\ Copied(v)
  <2>1. /\ v \in Nodes \ {0} /\ IsCallSite(v) /\ getParentUCID(v) = fr[n].node /\ v \notin dn
        /\ cxtTree[v].into = Callee(s) /\ Direct(cxtTree[v].place)
    BY <1>1 DEF Left, DirectKids, Kids
  <2> QED
    BY <2>1, NodeIs DEF Copied
<1>6. x \in Frame /\ x.node = v /\ x.site = s /\ x.todo = order[cxtTree[v].into]
  <2>1. cxtTree[v].into \in Functions /\ prog \in Programs
    BY <1>5, NodeIs DEF Finished, BuilderInv, TreeInv
  <2>2. order[cxtTree[v].into] \in Seq(Sites)
    BY <2>1, OrdersAssumption
  <2> QED
    BY <1>1, <1>4, <1>5, <2>2 DEF Frame
<1>7. DoneRight(it, fr, dn, cp) /\ CopiesRight(fr, dn, cp)
  BY DEF CacheRight
<1>8. PICK gr : gr = Append(rest, x)
  OBVIOUS
<1>9. /\ FramesRight(gr, dn)
      /\ \A g \in Functions :
           Cardinality(Left(gr, dn, n + 1, g)) = Cardinality(DirectSites(ToDo(gr, n + 1), g))
  <2>1. getParentUCID(x.node) = IF rest = <<>> THEN 0 ELSE rest[Len(rest)].node
    BY <1>3, <1>5, <1>6
  <2>2. x.site \notin ToDo(rest, Len(rest))
    BY <1>3, <1>4, <1>6
  <2> QED
    <3>1. /\ x.node \in Nodes \ {0} /\ Copied(x.node) /\ x.node \notin dn
          /\ Callee(x.site) = cxtTree[x.node].into /\ x.todo = order[cxtTree[x.node].into]
      BY <1>5, <1>6
    <3>2. \A u : OnStack(fr, u) => OnStack(rest, u)
      BY <1>4
    <3>3. /\ FramesRight(Append(rest, x), dn)
          /\ \A g \in Functions : Cardinality(Left(Append(rest, x), dn, Len(rest) + 1, g))
               = Cardinality(DirectSites(ToDo(Append(rest, x), Len(rest) + 1), g))
      BY <1>3, <1>4, <1>6, <1>7, <2>1, <2>2, <3>1, <3>2, PushRight
    <3> QED
      BY <1>3, <1>8, <3>3
<1>10. /\ Len(gr) = n + 1 /\ DOMAIN gr = 1 .. n + 1 /\ gr[n + 1] = x /\ gr # <<>>
       /\ \A k \in 1 .. n : gr[k] = rest[k]
  BY <1>3, <1>6, <1>8
<1>11. ASSUME NEW k \in 1 .. n, NEW g \in Functions
       PROVE  Cardinality(Left(gr, dn, k, g)) = Cardinality(DirectSites(ToDo(gr, k), g))
  <2>1. ToDo(gr, k) = ToDo(rest, k) /\ gr[k].node = rest[k].node
    BY <1>10 DEF ToDo
  <2>2. Left(rest, dn, k, g) = Left(fr, dn, k, g)
    BY <1>4
  <2>3. Cardinality(Left(fr, dn, n, g) \ {v}) = Cardinality(DirectSites(ToDo(fr, n) \ {s}, g))
    <3>1. s \in ToDo(fr, Len(fr)) /\ v \in Left(fr, dn, Len(fr), Callee(s)) /\ IsDirectCall(s)
      BY <1>1, <1>4
    <3>2. /\ Cardinality(Left(fr, dn, Len(fr), g) \ {v})
               = Cardinality(DirectSites(ToDo(fr, Len(fr)) \ {s}, g))
          /\ \A j \in DOMAIN fr : j # Len(fr) => v \notin Left(fr, dn, j, g)
      BY <1>2, <3>1, EnoughAfterCall
    <3> QED
      BY <1>1, <1>3, <3>2
  <2>4. CASE k = n
    <3>1. k < Len(gr) /\ gr[k + 1].node = v /\ ~ (k < Len(rest))
      BY <1>3, <1>6, <1>10, <2>4
    <3>2. Left(gr, dn, k, g) = Left(rest, dn, k, g) \ {v}
      BY <2>1, <3>1 DEF Left
    <3> QED
      BY <1>4, <2>1, <2>2, <2>3, <2>4, <3>2
  <2>5. CASE k # n
    <3>1. k < Len(gr) /\ k < Len(rest) /\ k + 1 \in 1 .. n
      BY <1>3, <1>10, <2>5
    <3>2. gr[k + 1] = rest[k + 1]
      BY <1>10, <3>1
    <3>3. Left(gr, dn, k, g) = Left(rest, dn, k, g)
      BY <2>1, <3>1, <3>2 DEF Left
    <3>4. Cardinality(Left(fr, dn, k, g)) = Cardinality(DirectSites(ToDo(fr, k), g))
      BY <1>2, <1>3 DEF EnoughLeft
    <3> QED
      BY <1>4, <2>1, <2>2, <2>5, <3>3, <3>4
  <2> QED
    BY <2>4, <2>5
<1>12. EnoughLeft(gr, dn)
  <2>1. \A k \in 1 .. n + 1 : k = n + 1 \/ k \in 1 .. n
    BY <1>3
  <2> QED
    BY <1>9, <1>10, <1>11, <2>1 DEF EnoughLeft
<1>13. \A u : OnStack(fr, u) => OnStack(gr, u)
  <2>1. \A k \in 1 .. n : k \in 1 .. n + 1 /\ gr[k].node = fr[k].node
    BY <1>3, <1>10
  <2> QED
    BY <1>3, <1>10, <2>1 DEF OnStack
<1>14. gr[1].node = fr[1].node
  BY <1>3, <1>10
<1>15. DoneRight(it, gr, dn, cp)
  BY <1>7, <1>10, <1>13, <1>14 DEF DoneRight
<1>16. CopiesRight(gr, dn, cp)
  <2>1. ASSUME NEW c \in cp PROVE CopyRight(gr, dn, c)
    <3>1. CopyRight(rest, dn, c) /\ CopyRight(fr, dn, c)
      BY <1>1, <1>2, <1>7, AdvancedCopy DEF CopiesRight
    <3>2. CASE c.caller = 0 \/ c.caller \in dn
      BY <3>1, <3>2 DEF CopyRight
    <3>3. CASE ~ (c.caller = 0 \/ c.caller \in dn)
      <4>1. PICK k \in 1 .. n : /\ fr[k].node = c.caller /\ c.site \notin ToDo(fr, k)
                                /\ k < n => fr[k + 1].site # c.site
        BY <1>1, <1>3, <3>1, <3>3 DEF CopyRight
      <4>2. k \in 1 .. n + 1 /\ gr[k].node = c.caller
        BY <1>3, <1>10, <4>1
      <4>3. c.site \notin ToDo(gr, k)
        <5>1. ToDo(gr, k) = ToDo(rest, k)
          BY <1>10 DEF ToDo
        <5>2. ToDo(rest, k) \subseteq ToDo(fr, k)
          BY <1>4
        <5> QED
          BY <4>1, <5>1, <5>2
      <4>4. k < n + 1 => gr[k + 1].site # c.site
        <5>1. CASE k = n
          BY <1>4, <1>6, <1>10, <4>1, <5>1
        <5>2. CASE k # n
          <6>1. k < n /\ k + 1 \in 1 .. n
            BY <1>3, <5>2
          <6>2. gr[k + 1].site = fr[k + 1].site
            BY <1>1, <1>2, <1>10, <6>1, AdvancedIs
          <6> QED
            BY <4>1, <6>1, <6>2
        <5> QED
          BY <5>1, <5>2
      <4> QED
        BY <1>10, <3>1, <4>2, <4>3, <4>4 DEF CopyRight
    <3> QED
      BY <3>2, <3>3
  <2> QED
    BY <1>7, <2>1 DEF CopiesRight
<1>17. it \in Nat /\ gr[1].node < it
  BY <1>14 DEF CacheRight
<1> QED
  BY <1>1, <1>8, <1>9, <1>12, <1>15, <1>16, <1>17 DEF CacheRight

\* The innermost frame has no calls left: its context is copied.
LEMMA FrameReplaced ==
  ASSUME Finished, NoInvokes, NEW it, NEW fr, NEW dn, NEW cp, CacheRight(it, fr, dn, cp),
         fr # <<>>, fr[Len(fr)].todo = <<>>,
         NEW new, new = [node   |-> fr[Len(fr)].node, callee |-> Callee(fr[Len(fr)].site),
                         caller |-> CallerOf(fr, Len(fr)), site |-> fr[Len(fr)].site]
  PROVE  CacheRight(it, SubSeq(fr, 1, Len(fr) - 1), dn \cup {fr[Len(fr)].node}, cp \cup {new})
<1>1. PICK n, gr, u : n = Len(fr) /\ gr = SubSeq(fr, 1, Len(fr) - 1) /\ u = fr[Len(fr)].node
  OBVIOUS
<1> DEFINE dn2 == dn \cup {u}
           cp2 == cp \cup {new}
<1>2. /\ FramesRight(fr, dn) /\ fr \in Seq(Frame) /\ EnoughLeft(fr, dn)
      /\ DoneRight(it, fr, dn, cp) /\ CopiesRight(fr, dn, cp)
  BY DEF CacheRight, FramesRight
<1>3. /\ n \in Nat \ {0} /\ DOMAIN fr = 1 .. n /\ n \in 1 .. n /\ 1 \in 1 .. n
      /\ n - 1 \in 0 .. n /\ n - 1 \in Nat
  BY <1>1, <1>2
<1>4. /\ gr \in Seq(Frame) /\ Len(gr) = n - 1 /\ DOMAIN gr = 1 .. n - 1
      /\ \A k \in 1 .. n - 1 : gr[k] = fr[k] /\ k \in 1 .. n /\ k # n
  BY <1>1, <1>2, <1>3
<1>5. FrameRight(fr, dn, n)
  BY <1>2, <1>3 DEF FramesRight
<1>6. /\ u \in Nodes \ {0} /\ Copied(u) /\ CopiedPath[u] /\ u \notin dn
      /\ IsCallSite(u) /\ Direct(cxtTree[u].place)
      /\ getParentUCID(u) = CallerOf(fr, n)
      /\ Callee(fr[n].site) = cxtTree[u].into
      /\ n = 1 => fr[n].site = cxtTree[u].place
      /\ n > 1 => fr[n].site \notin ToDo(fr, n - 1)
  BY <1>1, <1>5 DEF FrameRight, Copied
<1>7. /\ new.node = u /\ new.callee = cxtTree[u].into /\ new.caller = getParentUCID(u)
      /\ new.site = fr[n].site
  BY <1>1, <1>6
<1>8. \A k \in 1 .. n - 1 : fr[k].node < u /\ fr[k].node # u /\ fr[k].node \in Nodes \ {0}
  <2> SUFFICES ASSUME NEW k \in 1 .. n - 1
               PROVE  fr[k].node < u /\ fr[k].node # u /\ fr[k].node \in Nodes \ {0}
    OBVIOUS
  <2>1. k < n /\ k \in 1 .. n
    BY <1>3
  <2>2. fr[k].node < u /\ fr[k].node \in Nodes \ {0}
    BY <1>1, <1>2, <1>3, <2>1 DEF FramesRight, FrameRight
  <2>3. fr[k].node \in Nat /\ u \in Nat
    BY <1>6, <2>2, NodeIs
  <2> QED
    BY <2>2, <2>3
<1>9. n > 1 => /\ n - 1 \in 1 .. n - 1 /\ getParentUCID(u) = fr[n - 1].node
               /\ getParentUCID(u) # 0
  BY <1>3, <1>6, <1>8 DEF CallerOf
<1>10. n = 1 => getParentUCID(u) = 0
  BY <1>6 DEF CallerOf
<1>11. FramesRight(gr, dn2)
  <2>1. ASSUME NEW k \in 1 .. n - 1 PROVE FrameRight(gr, dn2, k)
    <3>1. FrameRight(fr, dn, k) /\ gr[k] = fr[k] /\ gr[k].node # u
      BY <1>2, <1>3, <1>4, <1>8 DEF FramesRight
    <3>2. k > 1 => gr[k - 1] = fr[k - 1]
      BY <1>3, <1>4
    <3>3. CallerOf(gr, k) = CallerOf(fr, k)
      <4>1. k # 1 => k > 1
        BY <1>3
      <4> QED
        BY <3>2, <4>1 DEF CallerOf
    <3>4. ToDo(gr, k) = ToDo(fr, k) /\ (k > 1 => ToDo(gr, k - 1) = ToDo(fr, k - 1))
      BY <3>1, <3>2 DEF ToDo
    <3> QED
      BY <3>1, <3>3, <3>4 DEF FrameRight
  <2>2. \A i, j \in 1 .. n - 1 : i < j => gr[i].node < gr[j].node
    BY <1>2, <1>3, <1>4 DEF FramesRight
  <2> HIDE DEF dn2
  <2> QED
    BY <1>4, <2>1, <2>2 DEF FramesRight
<1>12. EnoughLeft(gr, dn2)
  <2>1. ASSUME NEW k \in 1 .. n - 1, NEW g \in Functions
        PROVE  Cardinality(Left(gr, dn2, k, g)) = Cardinality(DirectSites(ToDo(gr, k), g))
    <3>1. ToDo(gr, k) = ToDo(fr, k) /\ gr[k] = fr[k]
      BY <1>4 DEF ToDo
    <3>2. Cardinality(Left(fr, dn, k, g)) = Cardinality(DirectSites(ToDo(fr, k), g))
      BY <1>2, <1>3, <1>4 DEF EnoughLeft
    <3>3. Left(gr, dn2, k, g) = Left(fr, dn, k, g)
      <4>1. CASE k = n - 1
        <5>1. k < Len(fr) /\ fr[k + 1].node = u /\ ~ (k < Len(gr))
          BY <1>1, <1>3, <1>4, <4>1
        <5> QED
          BY <3>1, <5>1 DEF Left
      <4>2. CASE k # n - 1
        <5>1. k < Len(fr) /\ k < Len(gr) /\ k + 1 \in 1 .. n - 1 /\ n > 1
          BY <1>1, <1>3, <1>4, <4>2
        <5>2. gr[k + 1] = fr[k + 1]
          BY <1>4, <5>1
        <5>3. fr[k].node # fr[n - 1].node
          <6>1. fr[k].node < fr[n - 1].node /\ n - 1 \in 1 .. n - 1
            BY <1>2, <1>3, <1>4, <4>2, <5>1 DEF FramesRight
          <6>2. fr[k].node \in Nat /\ fr[n - 1].node \in Nat
            BY <1>8, <6>1, NodeIs
          <6> QED
            BY <6>1, <6>2
        <5>4. u \notin DirectKids(fr[k].node, g)
          BY <1>9, <5>1, <5>3 DEF DirectKids, Kids
        <5> QED
          BY <3>1, <5>1, <5>2, <5>4 DEF Left
      <4> QED
        BY <4>1, <4>2
    <3> QED
      BY <3>1, <3>2, <3>3
  <2> HIDE DEF dn2
  <2> QED
    BY <1>4, <2>1 DEF EnoughLeft
\* Nothing is left of the contexts that u calls.
<1>13. \A g : DirectKids(u, g) \subseteq dn
  <2> SUFFICES ASSUME NEW g PROVE DirectKids(u, g) \subseteq dn
    OBVIOUS
  <2>1. CASE g \in Functions
    <3>1. ToDo(fr, n) = {}
      BY <1>1 DEF ToDo, Items
    <3>2. DirectSites(ToDo(fr, n), g) = {}
      BY <3>1 DEF DirectSites
    <3>3. Cardinality(Left(fr, dn, n, g)) = 0
      BY <1>2, <1>3, <2>1, <3>2, FS_EmptySet DEF EnoughLeft
    <3>4. Left(fr, dn, n, g) = {}
      BY <1>2, <1>3, <3>3, LeftFinite, FS_EmptySet
    <3>5. ~ (n < Len(fr))
      BY <1>1, <1>3
    <3> QED
      BY <1>1, <3>4, <3>5 DEF Left
  <2>2. CASE g \notin Functions
    BY <2>2, NodeIs DEF DirectKids, Kids
  <2> QED
    BY <2>1, <2>2
<1>14. \A w : OnStack(fr, w) => OnStack(gr, w) \/ w = u
  <2> SUFFICES ASSUME NEW w, NEW k \in 1 .. n, fr[k].node = w PROVE OnStack(gr, w) \/ w = u
    BY <1>3 DEF OnStack
  <2>1. CASE k = n
    BY <1>1, <2>1
  <2>2. CASE k # n
    <3>1. k \in 1 .. n - 1
      BY <1>3, <2>2
    <3> QED
      BY <1>4, <3>1 DEF OnStack
  <2> QED
    BY <2>1, <2>2
<1>15. DoneRight(it, gr, dn2, cp2)
  <2>1. ASSUME NEW w \in Nodes \ {0}, IsCallSite(w), w < it
        PROVE  w \in dn2 \/ (gr # <<>> /\ gr[1].node = w)
    <3>1. w \in dn \/ fr[1].node = w
      BY <1>2, <2>1 DEF DoneRight
    <3>2. CASE n = 1
      BY <1>1, <3>1, <3>2
    <3>3. CASE n # 1
      <4>1. 1 \in 1 .. n - 1
        BY <1>3, <3>3
      <4> QED
        BY <1>4, <3>1, <4>1
    <3> QED
      BY <3>2, <3>3
  <2>2. ASSUME NEW w \in dn2
        PROVE  /\ w \in Nodes \ {0} /\ IsCallSite(w)
               /\ getParentUCID(w) \in dn2 \cup {0} \/ OnStack(gr, getParentUCID(w))
               /\ CopiedPath[w] => /\ \A g : DirectKids(w, g) \subseteq dn2
                                   /\ \E c \in cp2 : c.node = w
    <3>1. CASE w = u
      <4>1. getParentUCID(u) = 0 \/ OnStack(gr, getParentUCID(u))
        <5>1. n = 1 \/ n > 1
          BY <1>3
        <5>2. n > 1 => gr[n - 1] = fr[n - 1]
          BY <1>4, <1>9
        <5> QED
          BY <1>4, <1>9, <1>10, <5>1, <5>2 DEF OnStack
      <4> QED
        BY <1>6, <1>7, <1>13, <3>1, <4>1
    <3>2. CASE w \in dn
      <4>1. /\ w \in Nodes \ {0} /\ IsCallSite(w)
            /\ getParentUCID(w) \in dn \cup {0} \/ OnStack(fr, getParentUCID(w))
            /\ CopiedPath[w] => /\ \A g : DirectKids(w, g) \subseteq dn
                                /\ \E c \in cp : c.node = w
        BY <1>2, <3>2 DEF DoneRight
      <4>2. getParentUCID(w) \in dn2 \cup {0} \/ OnStack(gr, getParentUCID(w))
        BY <1>14, <4>1
      <4> QED
        BY <4>1, <4>2
    <3> QED
      BY <3>1, <3>2
  <2> HIDE DEF dn2, cp2
  <2> QED
    BY <2>1, <2>2 DEF DoneRight
<1>16. CopyRight(gr, dn2, new)
  <2>1. new.caller = 0 => new.site = cxtTree[u].place
    <3>1. n = 1 \/ n > 1
      BY <1>3
    <3> QED
      BY <1>6, <1>7, <1>9, <3>1
  <2>2. new.caller = 0 \/ \E k \in DOMAIN gr :
          /\ gr[k].node = new.caller /\ new.site \notin ToDo(gr, k)
          /\ k < Len(gr) => gr[k + 1].site # new.site
    <3>1. CASE n = 1
      BY <1>7, <1>10, <3>1
    <3>2. CASE n > 1
      <4>1. n - 1 \in 1 .. n - 1 /\ gr[n - 1] = fr[n - 1] /\ ~ (n - 1 < Len(gr))
        BY <1>4, <1>9, <3>2
      <4>2. ToDo(gr, n - 1) = ToDo(fr, n - 1)
        BY <4>1 DEF ToDo
      <4>3. gr[n - 1].node = new.caller /\ new.site \notin ToDo(gr, n - 1)
        BY <1>6, <1>7, <1>9, <3>2, <4>1, <4>2
      <4> QED
        BY <1>4, <4>1, <4>3
    <3> QED
      BY <1>3, <3>1, <3>2
  <2> QED
    BY <1>6, <1>7, <2>1, <2>2 DEF CopyRight
<1>17. ASSUME NEW c \in cp PROVE CopyRight(gr, dn2, c)
  <2>1. CopyRight(fr, dn, c)
    BY <1>2 DEF CopiesRight
  <2>2. CASE c.caller = 0 \/ c.caller \in dn2
    BY <2>1, <2>2 DEF CopyRight
  <2>3. CASE ~ (c.caller = 0 \/ c.caller \in dn2)
    <3>1. PICK k \in 1 .. n : /\ fr[k].node = c.caller /\ c.site \notin ToDo(fr, k)
                              /\ k < n => fr[k + 1].site # c.site
      BY <1>1, <1>3, <2>1, <2>3 DEF CopyRight
    <3>2. k # n
      BY <1>1, <2>3, <3>1
    <3>3. k \in 1 .. n - 1
      BY <1>3, <3>2
    <3>4. gr[k] = fr[k] /\ ToDo(gr, k) = ToDo(fr, k)
      BY <1>4, <3>3 DEF ToDo
    <3>5. k < Len(gr) => gr[k + 1].site # c.site
      <4>1. SUFFICES ASSUME k < Len(gr) PROVE gr[k + 1].site # c.site
        OBVIOUS
      <4>2. k + 1 \in 1 .. n - 1 /\ k < n
        BY <1>3, <1>4, <3>3, <4>1
      <4> QED
        BY <1>4, <3>1, <4>2
    <3> QED
      BY <1>4, <2>1, <3>1, <3>3, <3>4, <3>5 DEF CopyRight
  <2> QED
    BY <2>2, <2>3
\* No other copy has the node or the call of the new one.
<1>18. ASSUME NEW d \in cp, new.node = d.node \/ <<new.caller, new.site>> = <<d.caller, d.site>>
       PROVE  FALSE
  <2>1. CopyRight(fr, dn, d)
    BY <1>2 DEF CopiesRight
  <2>2. d.node \in dn /\ d.node # u
    BY <1>6, <2>1 DEF CopyRight
  <2>3. d.caller = getParentUCID(u) /\ d.site = fr[n].site
    BY <1>7, <1>18, <2>2
  <2>4. CASE n = 1
    <3>1. d.site = cxtTree[d.node].place /\ getParentUCID(d.node) = 0
      BY <1>10, <2>1, <2>3, <2>4 DEF CopyRight
    <3>2. d.node \in Nodes \ {0} /\ IsCallSite(d.node)
      BY <1>2, <2>2 DEF DoneRight
    <3>3. u \in Kids(0) /\ d.node \in Kids(0)
      BY <1>6, <1>10, <2>4, <3>1, <3>2 DEF Kids
    <3>4. cxtTree[u].place = cxtTree[d.node].place
      BY <1>6, <2>3, <2>4, <3>1
    <3> QED
      BY <1>6, <2>2, <3>3, <3>4, OneDirectKid
  <2>5. CASE n > 1
    <3>1. d.caller = fr[n - 1].node /\ d.caller # 0 /\ n - 1 \in 1 .. n - 1
      BY <1>9, <2>3, <2>5
    <3>2. d.caller \notin dn
      BY <1>2, <1>3, <1>4, <3>1 DEF FramesRight, FrameRight
    <3>3. PICK k \in 1 .. n : /\ fr[k].node = d.caller
                              /\ k < n => fr[k + 1].site # d.site
      BY <1>1, <1>3, <2>1, <3>1, <3>2 DEF CopyRight
    <3>4. k = n - 1
      <4>1. fr[k].node = fr[n - 1].node
        BY <3>1, <3>3
      <4>2. fr[k].node \in Nat /\ fr[n - 1].node \in Nat /\ n - 1 \in 1 .. n
        BY <1>2, <1>3, <1>4, <3>1, NodeIs DEF FramesRight, FrameRight
      <4>3. ~ (k < n - 1) /\ ~ (n - 1 < k)
        BY <1>2, <1>3, <4>1, <4>2 DEF FramesRight
      <4> QED
        BY <1>3, <4>3
    <3>5. k < n /\ k + 1 = n
      BY <1>3, <3>4
    <3> QED
      BY <2>3, <3>3, <3>5
  <2> QED
    BY <1>3, <2>4, <2>5
<1>19. CopiesRight(gr, dn2, cp2)
  <2>1. \A c \in cp2 : CopyRight(gr, dn2, c)
    BY <1>16, <1>17
  <2>2. \A c, d \in cp2 :
          c.node = d.node \/ <<c.caller, c.site>> = <<d.caller, d.site>> => c = d
    <3> SUFFICES ASSUME NEW c \in cp2, NEW d \in cp2,
                        c.node = d.node \/ <<c.caller, c.site>> = <<d.caller, d.site>>
                 PROVE  c = d
      OBVIOUS
    <3>1. CASE c \in cp /\ d \in cp
      BY <1>2, <3>1 DEF CopiesRight
    <3>2. CASE c = new /\ d \in cp
      BY <1>18, <3>2
    <3>3. CASE c \in cp /\ d = new
      <4>1. new.node = c.node \/ <<new.caller, new.site>> = <<c.caller, c.site>>
        BY <3>3
      <4> QED
        BY <1>18, <3>3, <4>1
    <3>4. CASE c = new /\ d = new
      BY <3>4
    <3> QED
      BY <3>1, <3>2, <3>3, <3>4
  <2> HIDE DEF dn2, cp2
  <2> QED
    BY <2>1, <2>2 DEF CopiesRight
<1>20. it \in Nat /\ (gr # <<>> => gr[1].node < it)
  <2>1. it \in Nat /\ fr[1].node < it
    BY DEF CacheRight
  <2>2. gr # <<>> => 1 \in 1 .. n - 1
    BY <1>3, <1>4
  <2> QED
    BY <1>4, <2>1, <2>2
<1> HIDE DEF dn2, cp2
<1>21. CacheRight(it, gr, dn2, cp2)
  BY <1>11, <1>12, <1>15, <1>19, <1>20 DEF CacheRight
<1> QED
  BY <1>1, <1>21 DEF dn2, cp2

\* Without frames the invariant is about the next node and what is done.
LEMMA NoFrames ==
  ASSUME NEW it, NEW dn, NEW cp
  PROVE  CacheRight(it, <<>>, dn, cp) <=>
           /\ it \in Nat
           /\ \A v \in Nodes \ {0} : IsCallSite(v) /\ v < it => v \in dn
           /\ \A v \in dn :
                /\ v \in Nodes \ {0} /\ IsCallSite(v) /\ getParentUCID(v) \in dn \cup {0}
                /\ CopiedPath[v] => /\ \A g : DirectKids(v, g) \subseteq dn
                                    /\ \E c \in cp : c.node = v
           /\ CopiesRight(<<>>, dn, cp)
<1>1. <<>> \in Seq(Frame) /\ DOMAIN <<>> = {}
  OBVIOUS
<1>2. FramesRight(<<>>, dn) /\ EnoughLeft(<<>>, dn)
  BY <1>1 DEF FramesRight, EnoughLeft
<1>3. \A u : ~ OnStack(<<>>, u)
  BY <1>1 DEF OnStack
<1> QED
  BY <1>2, <1>3 DEF CacheRight, DoneRight

\* The main loop passes a node that is done, or no call.
LEMMA NodeSkipped ==
  ASSUME Finished, NEW it \in Nodes, NEW dn, NEW cp, CacheRight(it, <<>>, dn, cp),
         it = 0 \/ ~ IsCallSite(it) \/ it \in dn
  PROVE  CacheRight(it + 1, <<>>, dn, cp)
<1>1. ASSUME NEW v \in Nodes \ {0}, IsCallSite(v), v < it + 1
      PROVE  v \in dn
  <2>1. v \in Nat /\ it \in Nat
    BY NodeIs
  <2>2. v < it \/ v = it
    BY <1>1, <2>1
  <2> QED
    BY <1>1, <2>2, NoFrames
<1>2. it + 1 \in Nat
  BY NodeIs
<1> QED
  BY <1>1, <1>2, NoFrames

\* It marks a context done that gets no copy.
LEMMA NodeDone ==
  ASSUME Finished, NEW it \in Nodes, NEW dn, NEW cp, CacheRight(it, <<>>, dn, cp),
         it # 0, IsCallSite(it), ~ CopiedPath[it], getParentUCID(it) \in dn \cup {0}
  PROVE  CacheRight(it + 1, <<>>, dn \cup {it}, cp)
<1> DEFINE dn2 == dn \cup {it}
<1>1. ASSUME NEW v \in Nodes \ {0}, IsCallSite(v), v < it + 1
      PROVE  v \in dn2
  <2>1. v \in Nat /\ it \in Nat
    BY NodeIs
  <2>2. v < it \/ v = it
    BY <1>1, <2>1
  <2> QED
    BY <1>1, <2>2, NoFrames
<1>2. it + 1 \in Nat
  BY NodeIs
<1>3. ASSUME NEW v \in dn2
      PROVE  /\ v \in Nodes \ {0} /\ IsCallSite(v) /\ getParentUCID(v) \in dn2 \cup {0}
             /\ CopiedPath[v] => /\ \A g : DirectKids(v, g) \subseteq dn2
                                 /\ \E c \in cp : c.node = v
  <2>1. CASE v = it
    BY <2>1
  <2>2. CASE v \in dn
    <3>1. /\ v \in Nodes \ {0} /\ IsCallSite(v) /\ getParentUCID(v) \in dn \cup {0}
          /\ CopiedPath[v] => /\ \A g : DirectKids(v, g) \subseteq dn
                              /\ \E c \in cp : c.node = v
      BY <2>2, NoFrames
    <3> QED
      BY <3>1
  <2> QED
    BY <2>1, <2>2
<1>4. CopiesRight(<<>>, dn2, cp)
  <2>1. CopiesRight(<<>>, dn, cp)
    BY NoFrames
  <2>2. ASSUME NEW c \in cp PROVE CopyRight(<<>>, dn2, c)
    <3>1. CopyRight(<<>>, dn, c)
      BY <2>1 DEF CopiesRight
    <3> QED
      BY <3>1 DEF CopyRight
  <2> HIDE DEF dn2
  <2> QED
    BY <2>1, <2>2 DEF CopiesRight
<1> HIDE DEF dn2
<1>5. CacheRight(it + 1, <<>>, dn2, cp)
  BY <1>1, <1>2, <1>3, <1>4, NoFrames
<1> QED
  BY <1>5 DEF dn2

\* It begins the copy of a context that main calls.
LEMMA NodeCopied ==
  ASSUME Finished, NoInvokes, order \in Orders(prog),
         NEW it \in Nodes, NEW dn, NEW cp, CacheRight(it, <<>>, dn, cp),
         it # 0, Copied(it), it \notin dn, getParentUCID(it) = 0,
         NEW x, x = [node |-> it, site |-> cxtTree[it].place,
                     todo |-> order[Callee(cxtTree[it].place)]]
  PROVE  CacheRight(it + 1, <<x>>, dn, cp)
<1>1. /\ it \in Nat /\ it + 1 \in Nat /\ it < it + 1 /\ IsCallSite(it) /\ ~ cxtTree[it].recursive
      /\ cxtTree[it].place \in Sites /\ cxtTree[it].into \in Functions
      /\ Direct(cxtTree[it].place)
  BY NodeIs DEF Copied
<1>2. Callee(cxtTree[it].place) = cxtTree[it].into
  BY <1>1, DirectCallee
<1>3. order[cxtTree[it].into] \in Seq(Sites)
  BY <1>1, OrdersAssumption DEF Finished, BuilderInv, TreeInv
<1>4. /\ x \in Frame /\ x.node = it /\ x.site = cxtTree[it].place
      /\ x.todo = order[cxtTree[it].into]
  BY <1>1, <1>2, <1>3 DEF Frame
<1>5. FramesRight(<<>>, dn) /\ DoneRight(it, <<>>, dn, cp) /\ CopiesRight(<<>>, dn, cp)
  BY DEF CacheRight
<1>6. PICK fr, gr : fr = <<>> /\ gr = Append(fr, x)
  OBVIOUS
<1>7. /\ gr = <<x>> /\ Len(gr) = 1 /\ DOMAIN gr = {1} /\ gr[1] = x /\ gr # <<>> /\ Len(fr) = 0
  BY <1>6
<1>8. /\ FramesRight(gr, dn)
      /\ \A g \in Functions :
           Cardinality(Left(gr, dn, 1, g)) = Cardinality(DirectSites(ToDo(gr, 1), g))
  <2>1. FramesRight(fr, dn) /\ DoneRight(it, fr, dn, cp)
    BY <1>5, <1>6
  <2>2. /\ getParentUCID(x.node) = IF fr = <<>> THEN 0 ELSE fr[Len(fr)].node
        /\ fr = <<>> => x.site = cxtTree[x.node].place
        /\ fr # <<>> => x.site \notin ToDo(fr, Len(fr))
    BY <1>4, <1>6
  <2>3. /\ x.node \in Nodes \ {0} /\ Copied(x.node) /\ x.node \notin dn
        /\ Callee(x.site) = cxtTree[x.node].into /\ x.todo = order[cxtTree[x.node].into]
    BY <1>2, <1>4
  <2>4. \A u : OnStack(fr, u) => OnStack(fr, u)
    OBVIOUS
  <2>5. /\ FramesRight(Append(fr, x), dn)
        /\ \A g \in Functions : Cardinality(Left(Append(fr, x), dn, Len(fr) + 1, g))
             = Cardinality(DirectSites(ToDo(Append(fr, x), Len(fr) + 1), g))
    BY <1>4, <2>1, <2>2, <2>3, <2>4, PushRight
  <2> QED
    BY <1>6, <1>7, <2>5
<1>9. EnoughLeft(gr, dn)
  BY <1>7, <1>8 DEF EnoughLeft
<1>10. DoneRight(it + 1, gr, dn, cp)
  <2>1. ASSUME NEW v \in Nodes \ {0}, IsCallSite(v), v < it + 1
        PROVE  v \in dn \/ gr[1].node = v
    <3>1. v \in Nat
      BY NodeIs
    <3>2. v < it \/ v = it
      BY <1>1, <2>1, <3>1
    <3> QED
      BY <1>4, <1>7, <2>1, <3>2, NoFrames
  <2>2. \A v \in dn :
          /\ v \in Nodes \ {0} /\ IsCallSite(v) /\ getParentUCID(v) \in dn \cup {0}
          /\ CopiedPath[v] => /\ \A g : DirectKids(v, g) \subseteq dn
                              /\ \E c \in cp : c.node = v
    BY NoFrames
  <2> QED
    BY <1>7, <2>1, <2>2 DEF DoneRight
<1>11. CopiesRight(gr, dn, cp)
  <2>1. ASSUME NEW c \in cp PROVE CopyRight(gr, dn, c)
    <3>1. CopyRight(<<>>, dn, c) /\ DOMAIN <<>> = {}
      BY <1>5 DEF CopiesRight
    <3> QED
      BY <3>1 DEF CopyRight
  <2> QED
    BY <1>5, <2>1 DEF CopiesRight
<1>12. gr[1].node < it + 1
  BY <1>1, <1>4, <1>7
<1>13. CacheRight(it + 1, gr, dn, cp)
  BY <1>1, <1>8, <1>9, <1>10, <1>11, <1>12 DEF CacheRight
<1> QED
  BY <1>7, <1>13

CacheState == ~ asserted /\ CacheRight(Iterator, frames, done, copies)
NextRight  == ~ asserted' /\ CacheRight(Iterator', frames', done', copies')

LEMMA VisitNodeKeeps ==
  ASSUME Finished, NoInvokes, order \in Orders(prog), CacheState, VisitNode
  PROVE  NextRight
<1>1. PICK it : it = Iterator
  OBVIOUS
<1>2. /\ it \in Nodes /\ frames = <<>> /\ ~ asserted /\ CacheRight(it, <<>>, done, copies)
      /\ Iterator' = it + 1 /\ copies' = copies
  BY <1>1 DEF VisitNode, CacheState
<1>3. CASE it = 0 \/ ~ IsCallSite(it) \/ it \in done
  <2>1. frames' = <<>> /\ done' = done /\ asserted' = asserted
    BY <1>1, <1>2, <1>3 DEF VisitNode
  <2>2. CacheRight(it + 1, <<>>, done, copies)
    BY <1>2, <1>3, NodeSkipped
  <2> QED
    BY <1>2, <2>1, <2>2 DEF NextRight
<1>4. CASE it # 0 /\ IsCallSite(it) /\ it \notin done
  <2>1. CASE getParentUCID(it) \in done
    <3>1. frames' = <<>> /\ done' = done \cup {it} /\ asserted' = asserted
      BY <1>1, <1>2, <1>4, <2>1 DEF VisitNode
    <3>2. ~ CopiedPath[it]
      <4>1. SUFFICES ASSUME CopiedPath[it] PROVE FALSE
        OBVIOUS
      <4>2. PICK p : p = getParentUCID(it)
        OBVIOUS
      <4>3. Copied(it) /\ CopiedPath[p] /\ p \in done
        BY <1>2, <1>4, <2>1, <4>1, <4>2, CopiedPathStep
      <4>4. \A g : DirectKids(p, g) \subseteq done
        BY <1>2, <4>3, NoFrames
      <4>5. it \in DirectKids(p, cxtTree[it].into)
        BY <1>2, <1>4, <4>2, <4>3 DEF DirectKids, Kids, Copied
      <4> QED
        BY <1>4, <4>4, <4>5
    <3>3. CacheRight(it + 1, <<>>, done \cup {it}, copies)
      BY <1>2, <1>4, <2>1, <3>2, NodeDone
    <3> QED
      BY <1>2, <3>1, <3>3 DEF NextRight
  <2>2. CASE getParentUCID(it) \notin done
    <3>1. getParentUCID(it) = 0
      <4>1. PICK p : p = getParentUCID(it)
        OBVIOUS
      <4>2. p \in Nodes /\ p < it /\ IsCallSite(p)
        BY <1>2, <1>4, <4>1, CallerIs
      <4>3. p # 0 => p \in done
        BY <1>2, <4>2, NoFrames
      <4> QED
        BY <2>2, <4>1, <4>3
    <3>2. PICK s : s = cxtTree[it].place
      OBVIOUS
    <3>3. s \in Sites /\ ~ IsInvoke(s)
      BY <1>2, <1>4, <3>2, NodeIs DEF NoInvokes
    <3>4. Duplicate(it, s, <<>>)
      BY <1>1, <1>2, <1>4, <2>2, <3>2 DEF VisitNode
    <3>5. asserted' = asserted
      BY <3>3, <3>4 DEF Duplicate
    <3>6. CASE Direct(s) /\ ~ cxtTree[it].recursive
      <4>1. Copied(it)
        BY <1>4, <3>2, <3>6 DEF Copied
      <4>2. PICK x : x = [node |-> it, site |-> s, todo |-> order[Callee(s)]]
        OBVIOUS
      <4>3. frames' = Append(<<>>, x) /\ done' = done
        BY <3>3, <3>4, <3>6, <4>2 DEF Duplicate
      <4>4. frames' = <<x>>
        BY <4>3
      <4>5. CacheRight(it + 1, <<x>>, done, copies)
        BY <1>2, <1>4, <3>1, <3>2, <4>1, <4>2, NodeCopied
      <4> QED
        BY <1>2, <3>5, <4>3, <4>4, <4>5 DEF NextRight
    <3>7. CASE ~ (Direct(s) /\ ~ cxtTree[it].recursive)
      <4>1. ~ CopiedPath[it]
        BY <1>2, <1>4, <3>2, <3>7, CopiedPathStep DEF Copied
      <4>2. frames' = <<>> /\ done' = done \cup {it}
        BY <3>3, <3>4, <3>7 DEF Duplicate
      <4>3. CacheRight(it + 1, <<>>, done \cup {it}, copies)
        BY <1>2, <1>4, <3>1, <4>1, NodeDone
      <4> QED
        BY <1>2, <3>5, <4>2, <4>3 DEF NextRight
    <3> QED
      BY <3>6, <3>7
  <2> QED
    BY <2>1, <2>2
<1> QED
  BY <1>3, <1>4

\* The nodes that the search finds for the next call are those left for it.
LEMMA SameIsLeft ==
  ASSUME Finished, NEW fr, NEW dn, FramesRight(fr, dn), fr # <<>>, dn = done, NEW s
  PROVE  Same(fr[Len(fr)].node, s) = Left(fr, dn, Len(fr), Callee(s))
<1>1. PICK n, u : n = Len(fr) /\ u = fr[Len(fr)].node
  OBVIOUS
<1>2. n \in DOMAIN fr /\ n \in Nat
  BY <1>1 DEF FramesRight
<1>3. u \in Nodes \ {0} /\ u \in Nat
  BY <1>1, <1>2, NodeIs DEF FramesRight, FrameRight
<1>4. ASSUME NEW v \in Same(u, s) PROVE v \in DirectKids(u, Callee(s)) /\ v \notin dn
  <2>1. v \in Nodes /\ v >= u /\ v \in Nat
    BY NodeIs DEF Same, Undone
  <2>2. v # 0
    BY <1>3, <2>1
  <2> QED
    BY <2>1, <2>2 DEF Same, Undone, DirectKids, Kids
<1>5. ASSUME NEW v \in DirectKids(u, Callee(s)), v \notin dn PROVE v \in Same(u, s)
  <2>1. v \in Nodes \ {0} /\ v \in Nat /\ getParentUCID(v) = u /\ u < v
    BY CallerIs, NodeIs DEF DirectKids, Kids
  <2>2. v >= u
    BY <1>3, <2>1
  <2> QED
    BY <1>5, <2>1, <2>2 DEF Same, Undone, DirectKids, Kids
<1>6. Left(fr, dn, n, Callee(s)) = {v \in DirectKids(u, Callee(s)) : v \notin dn}
  BY <1>1, <1>2 DEF Left
<1> QED
  BY <1>1, <1>4, <1>5, <1>6

LEMMA MinIsIn ==
  ASSUME NEW T, T \subseteq Nat, T # {}
  PROVE  Min(T) \in T
<1>1. \E m \in T : \A n \in T : m <= n
  BY LeastOf
<1> QED
  BY <1>1 DEF Min

LEMMA VisitCallKeeps ==
  ASSUME Finished, NoInvokes, order \in Orders(prog), CacheState, VisitCall
  PROVE  NextRight
<1>1. PICK it, fr, dn, cp : it = Iterator /\ fr = frames /\ dn = done /\ cp = copies
  OBVIOUS
<1>2. PICK s : s = Head(fr[Len(fr)].todo)
  OBVIOUS
<1>3. /\ ~ asserted /\ CacheRight(it, fr, dn, cp) /\ fr # <<>> /\ fr[Len(fr)].todo # <<>>
      /\ Iterator' = it /\ copies' = cp
  BY <1>1 DEF VisitCall, CacheState
<1>4. FramesRight(fr, dn) /\ EnoughLeft(fr, dn)
  BY <1>3 DEF CacheRight
<1>5. PICK n, u, same : n = Len(fr) /\ u = fr[n].node /\ same = Same(u, s)
  OBVIOUS
<1>6. n \in DOMAIN fr /\ n \in Nat
  BY <1>4, <1>5, <1>3 DEF FramesRight
<1>7. s \in ToDo(fr, n) /\ s \in Sites
  BY <1>2, <1>3, <1>4, <1>5, AdvancedRight
<1>8. CASE ~ IsDirectCall(s)
  <2>1. frames' = Advanced(fr) /\ done' = dn /\ asserted' = asserted
    BY <1>1, <1>2, <1>8 DEF VisitCall, Advanced
  <2>2. CacheRight(it, Advanced(fr), dn, cp)
    BY <1>2, <1>3, <1>8, CallSkipped
  <2> QED
    BY <1>3, <2>1, <2>2 DEF NextRight
<1>9. CASE IsDirectCall(s)
  <2>1. same = Left(fr, dn, n, Callee(s))
    BY <1>1, <1>3, <1>4, <1>5, SameIsLeft
  <2>2. same # {}
    BY <1>3, <1>4, <1>5, <1>7, <1>9, <2>1, ContextForCall
  <2>3. PICK v : v = Min(same)
    OBVIOUS
  <2>4. v \in same
    <3>1. same \subseteq Nat
      BY <1>5, NodeIs DEF Same, Undone
    <3> QED
      BY <2>2, <2>3, <3>1, MinIsIn
  <2>5. ~ \E w \in Undone(u) : w <= v /\ IsInvoke(cxtTree[w].place)
    <3>1. SUFFICES ASSUME NEW w \in Undone(u) PROVE ~ IsInvoke(cxtTree[w].place)
      OBVIOUS
    <3>2. u \in Nodes \ {0} /\ u \in Nat
      BY <1>4, <1>5, <1>6, NodeIs DEF FramesRight, FrameRight
    <3>3. w \in Nodes /\ w \in Nat /\ w >= u /\ IsCallSite(w)
      BY NodeIs DEF Undone
    <3>4. w # 0
      BY <3>2, <3>3
    <3>5. cxtTree[w].place \in Sites
      BY <3>3, <3>4, NodeIs
    <3> QED
      BY <3>5 DEF NoInvokes
  <2>6. Duplicate(v, s, Advanced(fr))
    <3>1. Duplicate(Min(same), s, Advanced(fr))
      BY <1>1, <1>2, <1>5, <1>9, <2>2, <2>3, <2>5 DEF VisitCall, Advanced
    <3> QED
      BY <2>3, <3>1
  <2>7. ~ IsInvoke(s) /\ Direct(s)
    BY <1>9 DEF IsDirectCall
  <2>8. asserted' = asserted
    BY <2>6, <2>7 DEF Duplicate
  <2>9. v \in Left(fr, dn, Len(fr), Callee(Head(fr[Len(fr)].todo)))
    BY <1>2, <1>5, <2>1, <2>4
  <2>10. IsDirectCall(Head(fr[Len(fr)].todo))
    BY <1>2, <1>9
  <2>11. CASE cxtTree[v].recursive
    <3>1. frames' = Advanced(fr) /\ done' = dn \cup {v}
      BY <1>1, <2>6, <2>7, <2>11 DEF Duplicate
    <3>2. CacheRight(it, Advanced(fr), dn \cup {v}, cp)
      BY <1>3, <2>9, <2>10, <2>11, CallOfLeaf
    <3> QED
      BY <1>3, <2>8, <3>1, <3>2 DEF NextRight
  <2>12. CASE ~ cxtTree[v].recursive
    <3>1. PICK x : x = [node |-> v, site |-> s, todo |-> order[Callee(s)]]
      OBVIOUS
    <3>2. frames' = Append(Advanced(fr), x) /\ done' = dn
      BY <1>1, <2>6, <2>7, <2>12, <3>1 DEF Duplicate
    <3>3. x = [node |-> v, site |-> Head(fr[Len(fr)].todo),
               todo |-> order[Callee(Head(fr[Len(fr)].todo))]]
      BY <1>2, <3>1
    <3>4. CacheRight(it, Append(Advanced(fr), x), dn, cp)
      BY <1>3, <2>9, <2>10, <2>12, <3>3, CallCopied
    <3> QED
      BY <1>3, <2>8, <3>2, <3>4 DEF NextRight
  <2> QED
    BY <2>11, <2>12
<1> QED
  BY <1>8, <1>9

LEMMA ReplaceCallKeeps ==
  ASSUME Finished, NoInvokes, CacheState, ReplaceCall
  PROVE  NextRight
<1>1. PICK it, fr, dn, cp : it = Iterator /\ fr = frames /\ dn = done /\ cp = copies
  OBVIOUS
<1>2. /\ ~ asserted /\ CacheRight(it, fr, dn, cp) /\ fr # <<>> /\ fr[Len(fr)].todo = <<>>
      /\ Iterator' = it /\ asserted' = asserted
  BY <1>1 DEF ReplaceCall, CacheState
<1>3. PICK new : new = [node   |-> fr[Len(fr)].node, callee |-> Callee(fr[Len(fr)].site),
                        caller |-> CallerOf(fr, Len(fr)), site |-> fr[Len(fr)].site]
  OBVIOUS
<1>4. /\ frames' = SubSeq(fr, 1, Len(fr) - 1) /\ done' = dn \cup {fr[Len(fr)].node}
      /\ copies' = cp \cup {new}
  BY <1>1, <1>3 DEF ReplaceCall, CallerOf
<1>5. CacheRight(it, SubSeq(fr, 1, Len(fr) - 1), dn \cup {fr[Len(fr)].node}, cp \cup {new})
  BY <1>2, <1>3, FrameReplaced
<1> QED
  BY <1>2, <1>4, <1>5 DEF NextRight

-----------------------------------------------------------------------------
(***************************************************************************)
(* The tree does not change any more, and with it what the invariant says. *)
(***************************************************************************)
LEMMA TreeSame ==
  ASSUME UNCHANGED builderVars
  PROVE  /\ cxtTree' = cxtTree /\ prog' = prog /\ Nodes' = Nodes
         /\ \A u : IsCallSite(u)' <=> IsCallSite(u)
         /\ \A s : /\ Direct(s)' <=> Direct(s)
                   /\ IsDirectCall(s)' <=> IsDirectCall(s)
                   /\ Callee(s)' = Callee(s)
         /\ \A u : Copied(u)' <=> Copied(u)
         /\ \A u : getParentUCID(u)' = getParentUCID(u)
         /\ CopiedPath' = CopiedPath
<1>1. cxtTree' = cxtTree /\ prog' = prog /\ assignerUcID' = assignerUcID
  BY DEF builderVars
<1>2. Nodes' = Nodes
  BY <1>1 DEF Nodes
<1>3. \A u : IsCallSite(u)' <=> IsCallSite(u)
  BY <1>1 DEF IsCallSite
<1>4. \A s : /\ Direct(s)' <=> Direct(s)
             /\ IsDirectCall(s)' <=> IsDirectCall(s)
             /\ Callee(s)' = Callee(s)
  BY <1>1 DEF Direct, IsDirectCall, IsInvoke, Callee
<1>5. \A u : Copied(u)' <=> Copied(u)
  BY <1>1 DEF Copied, IsCallSite, Direct
<1>6. \A u : getParentUCID(u)' = getParentUCID(u)
  <2>1. (\A u : getParentUCID(u) = Up[u - cxtTree[u].locID])'
    BY ParentUCIDIsUp, PTL
  <2>2. Up' = Up
    BY <1>1, <1>2 DEF Up
  <2> QED
    BY <1>1, <2>1, <2>2, ParentUCIDIsUp
<1>7. CopiedPath' = CopiedPath
  <2>1. Callers' = Callers
    BY <1>2, <1>6 DEF Callers
  <2>2. CopiedNodes' = CopiedNodes
    BY <1>2, <1>5 DEF CopiedNodes
  <2>3. (CopiedPath = PathIn(Nodes, Callers, CopiedNodes))'
    BY CopiedPathIs, PTL
  <2> QED
    BY <1>2, <2>1, <2>2, <2>3, CopiedPathIs
<1> QED
  BY <1>1, <1>2, <1>3, <1>4, <1>5, <1>6, <1>7

LEMMA KidsSame ==
  ASSUME UNCHANGED builderVars
  PROVE  /\ \A u : Kids(u)' = Kids(u)
         /\ \A u, g : DirectKids(u, g)' = DirectKids(u, g)
         /\ \A S, g : DirectSites(S, g)' = DirectSites(S, g)
<1>1. \A u : Kids(u)' = Kids(u)
  BY TreeSame DEF Kids
<1>2. \A u, g : DirectKids(u, g)' = DirectKids(u, g)
  BY <1>1, TreeSame DEF DirectKids
<1>3. \A S, g : DirectSites(S, g)' = DirectSites(S, g)
  BY TreeSame DEF DirectSites
<1> QED
  BY <1>1, <1>2, <1>3

LEMMA RightSame ==
  ASSUME UNCHANGED builderVars, NEW it, NEW fr, NEW dn, NEW cp, CacheRight(it, fr, dn, cp)
  PROVE  CacheRight(it, fr, dn, cp)'
<1>1. FramesRight(fr, dn)'
  <2>1. \A k : FrameRight(fr, dn, k) => FrameRight(fr, dn, k)'
    BY TreeSame DEF FrameRight
  <2> QED
    BY <2>1 DEF CacheRight, FramesRight
<1>2. EnoughLeft(fr, dn)'
  <2>1. \A k, g : Left(fr, dn, k, g)' = Left(fr, dn, k, g)
    BY KidsSame DEF Left
  <2> QED
    BY <2>1, KidsSame DEF CacheRight, EnoughLeft
<1>3. DoneRight(it, fr, dn, cp)'
  BY TreeSame, KidsSame DEF CacheRight, DoneRight
<1>4. CopiesRight(fr, dn, cp)'
  <2>1. \A c : CopyRight(fr, dn, c) => CopyRight(fr, dn, c)'
    BY TreeSame DEF CopyRight
  <2> QED
    BY <2>1 DEF CacheRight, CopiesRight
<1> QED
  BY <1>1, <1>2, <1>3, <1>4 DEF CacheRight

LEMMA StartRight == BuilderInv => CacheRight(0, <<>>, {}, {})
<1> SUFFICES ASSUME BuilderInv PROVE CacheRight(0, <<>>, {}, {})
  OBVIOUS
<1>1. \A v \in Nodes : v \in Nat /\ ~ (v < 0)
  BY DEF BuilderInv, TreeInv, Nodes
<1>2. CopiesRight(<<>>, {}, {})
  BY DEF CopiesRight
<1> QED
  BY <1>1, <1>2, NoFrames

(***************************************************************************)
(* Nothing is done before the tree is; after that, the invariant above.    *)
(***************************************************************************)
CacheInv ==
  /\ BuilderInv /\ order \in Orders(prog)
  /\ status # "done" =>
       Iterator = 0 /\ frames = <<>> /\ done = {} /\ copies = {} /\ ~ asserted
  /\ Finished /\ NoInvokes => CacheState

LEMMA CacheInitRight == CacheInit => CacheInv
<1> SUFFICES ASSUME CacheInit PROVE CacheInv
  OBVIOUS
<1>1. BuilderInv
  BY InitEstablishes DEF CacheInit
<1>2. status # "done"
  BY DEF CacheInit, Init
<1> QED
  BY <1>1, <1>2 DEF CacheInit, CacheInv, Finished

LEMMA BuilderSame ==
  ASSUME BuilderInv, UNCHANGED builderVars
  PROVE  BuilderInv'
<1>1. UNCHANGED <<prog, status, cxtTree, assignerUcID, path, visited,
                  locIdOf_callSite, locIdOf_indCall, locIdOf_loop>>
  BY DEF builderVars
<1>2. StatusRight' /\ (Stopped => Stopped')
  BY <1>1 DEF BuilderInv, StatusRight, Stopped, Built, OwnLoopIds, Pending, Body, cur
<1> QED
  BY <1>1, <1>2, StatusKeeps DEF BuilderInv

LEMMA StateKept ==
  ASSUME UNCHANGED builderVars, NextRight
  PROVE  CacheState'
<1>1. PICK it, fr, dn, cp : it = Iterator' /\ fr = frames' /\ dn = done' /\ cp = copies'
  OBVIOUS
<1>2. CacheRight(it, fr, dn, cp)'
  BY <1>1, RightSame DEF NextRight
<1>3. CacheRight(Iterator, frames, done, copies)'
  BY <1>1, <1>2
<1> QED
  BY <1>3 DEF CacheState, NextRight

LEMMA CacheStepKeeps ==
  ASSUME CacheInv, UNCHANGED builderVars, UNCHANGED order,
         CacheStep \/ UNCHANGED cacheVars
  PROVE  CacheInv'
<1>1. /\ prog' = prog /\ status' = status /\ assignerUcID' = assignerUcID
      /\ order' = order
  BY DEF builderVars
<1>2. BuilderInv' /\ (order \in Orders(prog))'
  BY <1>1, BuilderSame DEF CacheInv
<1>3. status' # "done" =>
        Iterator' = 0 /\ frames' = <<>> /\ done' = {} /\ copies' = {} /\ ~ asserted'
  <2>1. SUFFICES ASSUME status # "done"
                 PROVE  UNCHANGED cacheVars
    BY <1>1 DEF CacheInv, cacheVars
  <2>2. frames = <<>>
    BY <2>1 DEF CacheInv
  <2> QED
    BY <2>1, <2>2 DEF CacheStep, VisitNode, VisitCall, ReplaceCall
<1>4. (Finished /\ NoInvokes)' => CacheState'
  <2>1. SUFFICES ASSUME (Finished /\ NoInvokes)' PROVE NextRight
    BY StateKept
  <2>2. Finished /\ NoInvokes
    BY <1>1, <2>1 DEF Finished, NoInvokes, IsInvoke, CacheInv
  <2>3. CacheState /\ order \in Orders(prog)
    BY <2>2 DEF CacheInv
  <2>4. CASE VisitNode
    BY <2>2, <2>3, <2>4, VisitNodeKeeps
  <2>5. CASE VisitCall
    BY <2>2, <2>3, <2>5, VisitCallKeeps
  <2>6. CASE ReplaceCall
    BY <2>2, <2>3, <2>6, ReplaceCallKeeps
  <2>7. CASE UNCHANGED cacheVars
    BY <2>3, <2>7 DEF cacheVars, NextRight, CacheState
  <2> QED
    BY <2>4, <2>5, <2>6, <2>7 DEF CacheStep
<1> QED
  BY <1>2, <1>3, <1>4 DEF CacheInv

LEMMA TreeStepKeeps ==
  ASSUME CacheInv, BuildStep, UNCHANGED cacheVars
  PROVE  CacheInv'
<1>1. /\ prog' = prog /\ status = "building" /\ order' = order
      /\ Iterator' = Iterator /\ frames' = frames /\ done' = done /\ copies' = copies
      /\ asserted' = asserted
  BY DEF BuildStep, MakeNodeOfCallSite, MakeNodeOfLoop, ReturnToParent, FinishTree, cacheVars
<1>2. BuilderInv' /\ (order \in Orders(prog))'
  BY <1>1, BuildStepKeeps DEF CacheInv
<1>3. Iterator' = 0 /\ frames' = <<>> /\ done' = {} /\ copies' = {} /\ ~ asserted'
  BY <1>1 DEF CacheInv
<1>4. CacheRight(0, <<>>, {}, {})'
  <2>1. (BuilderInv => CacheRight(0, <<>>, {}, {}))'
    BY StartRight, PTL
  <2> QED
    BY <1>2, <2>1
<1>5. CacheRight(Iterator, frames, done, copies)'
  BY <1>3, <1>4
<1> QED
  BY <1>2, <1>3, <1>5 DEF CacheInv, CacheState

LEMMA CopiedOnce == CacheInv => (assignerUcID <= LocMod => OneCopyPerContext)
<1> SUFFICES ASSUME CacheInv, assignerUcID <= LocMod, NoInvokes
             PROVE  /\ ~ asserted
                    /\ CacheDone =>
                         /\ {c.node : c \in copies} = {u \in Nodes \ {0} : CopiedPath[u]}
                         /\ \A c \in copies : /\ c.callee = cxtTree[c.node].into
                                              /\ c.caller = getParentUCID(c.node)
                         /\ \A c, d \in copies :
                              c.node = d.node \/ <<c.caller, c.site>> = <<d.caller, d.site>>
                                => c = d
  BY DEF OneCopyPerContext, NoInvokes
<1>1. CASE status # "done"
  BY <1>1 DEF CacheInv, CacheDone
<1>2. CASE status = "done"
  <2>1. Finished /\ CacheState
    BY <1>2 DEF CacheInv, Finished
  <2>2. ~ asserted
    BY <2>1 DEF CacheState
  <2>3. SUFFICES ASSUME CacheDone
        PROVE  /\ {c.node : c \in copies} = {u \in Nodes \ {0} : CopiedPath[u]}
               /\ \A c \in copies : /\ c.callee = cxtTree[c.node].into
                                    /\ c.caller = getParentUCID(c.node)
               /\ \A c, d \in copies :
                    c.node = d.node \/ <<c.caller, c.site>> = <<d.caller, d.site>> => c = d
    BY <2>2
  <2>4. CacheRight(Iterator, <<>>, done, copies) /\ Iterator \notin Nodes /\ Iterator \in Nat
    BY <2>1, <2>3 DEF CacheDone, CacheState, CacheRight
  <2>5. CopiesRight(<<>>, done, copies)
    BY <2>4 DEF CacheRight
  <2>6. ASSUME NEW c \in copies
        PROVE  c.node \in Nodes \ {0} /\ CopiedPath[c.node]
    <3>1. c.node \in done /\ CopiedPath[c.node]
      BY <2>5 DEF CopiesRight, CopyRight
    <3> QED
      BY <2>4, <3>1, NoFrames
  <2>7. ASSUME NEW u \in Nodes \ {0}, CopiedPath[u]
        PROVE  \E c \in copies : c.node = u
    <3>1. IsCallSite(u)
      BY <2>1, <2>7, CopiedPathStep DEF Copied
    <3>2. u < Iterator
      BY <2>1, <2>4 DEF Nodes, Finished, BuilderInv, TreeInv
    <3>3. u \in done
      BY <2>4, <3>1, <3>2, NoFrames
    <3> QED
      BY <2>4, <2>7, <3>3, NoFrames
  <2>8. {c.node : c \in copies} = {u \in Nodes \ {0} : CopiedPath[u]}
    BY <2>6, <2>7
  <2> QED
    BY <2>5, <2>8 DEF CopiesRight, CopyRight
<1> QED
  BY <1>1, <1>2

(***************************************************************************)
(* CampCache, for every program with at most 2^16 contexts: without        *)
(* invokes every context that direct calls reach from main is copied once, *)
(* from its own caller's copy, and the assertions hold.                    *)
(***************************************************************************)
THEOREM OneCopyForEachContext == CacheSpec => [](assignerUcID <= LocMod => OneCopyPerContext)
<1>1. CacheInit => CacheInv
  BY CacheInitRight
<1>2. CacheInv /\ [CacheNext]_<<builderVars, cacheVars>> => CacheInv'
  <2> SUFFICES ASSUME CacheInv, [CacheNext]_<<builderVars, cacheVars>> PROVE CacheInv'
    OBVIOUS
  <2>1. CASE BuildStep /\ UNCHANGED cacheVars
    BY <2>1, TreeStepKeeps
  <2>2. CASE CacheStep
    <3>1. UNCHANGED builderVars /\ UNCHANGED order
      BY <2>2 DEF CacheStep, VisitNode, VisitCall, ReplaceCall
    <3> QED
      BY <2>2, <3>1, CacheStepKeeps
  <2>3. CASE UNCHANGED <<builderVars, cacheVars>>
    <3>1. UNCHANGED builderVars /\ UNCHANGED cacheVars
      BY <2>3
    <3>2. UNCHANGED order
      BY <3>1 DEF cacheVars
    <3> QED
      BY <3>1, <3>2, CacheStepKeeps
  <2> QED
    BY <2>1, <2>2, <2>3 DEF CacheNext
<1>3. CacheInv => (assignerUcID <= LocMod => OneCopyPerContext)
  BY CopiedOnce
<1> QED
  BY <1>1, <1>2, <1>3, PTL DEF CacheSpec
=============================================================================
