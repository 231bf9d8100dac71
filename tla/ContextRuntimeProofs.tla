------------------------ MODULE ContextRuntimeProofs ------------------------
(***************************************************************************)
(* For every program: currentCtx is the node of the context tree the       *)
(* program is in, and it moves as ContextSpec promises, if                 *)
(*   - the candidates of a call site are all recursive or none is,         *)
(*   - where exceptions are thrown, every call is an invoke with a landing *)
(*     pad of its own,                                                     *)
(*   - the tree has fewer nodes than there are local ids, and              *)
(*   - calls and loops are not nested 2^16 deep.                           *)
(*                                                                         *)
(* The argument: an active call or loop entered in a context that was not  *)
(* disabled is a child of that context in the tree, whose local id is the  *)
(* constant of the hooks (TableInv), so that what the begin hook adds is   *)
(* the distance to the child, and the end hook takes it back.              *)
(***************************************************************************)
EXTENDS ContextRuntime, ContextTreeBuilderProofs, FiniteSetTheorems, WellFoundedInduction

UniformSites(p) ==
  \A s \in Sites : \A f, g \in Candidates(p, s) : f \in p.recursive <=> g \in p.recursive

OwnPads(p) ==
  p.throws # {} =>
    \A s \in Sites : p.pad[s] # NoPad /\ \A t \in Sites \ {s} : p.pad[t] # p.pad[s]

WellHooked ==
  /\ \A p \in Programs : /\ UniformSites(p) /\ OwnPads(p)
                         /\ Offset[p][Main][Len(p.body[Main])] < LocMod
  /\ LocMod <= CtxMod
  /\ MaxDepth < DisMod

\* The calls whose hooks disable context changes.
Muted == {e \in Edges : Instrumented(e) /\ Disabling(e)}

Frame == [edge : Edges, node : Nat, depth : Nat, iters : Nat]

\* An entry of the stack, over the node and the depth of the entry below.
FrameRight(fr, node, depth) ==
  /\ fr.depth = IF fr.edge \in Muted THEN depth + 1 ELSE depth
  /\ fr.node \in Nodes
  /\ IF depth > 0
     THEN fr.node = node
     ELSE fr.node # 0 /\ cxtTree[fr.node].parent = node /\ EdgeOf(fr.node) = fr.edge
  /\ fr.depth > 0 <=> cxtTree[fr.node].recursive

NodeAt(s, i)  == IF i = 0 THEN 0 ELSE s[i].node
DepthAt(s, i) == IF i = 0 THEN 0 ELSE s[i].depth

StackRight(s) ==
  /\ s \in Seq(Frame)
  /\ \A i \in 1 .. Len(s) :
       FrameRight(s[i], NodeAt(s, i - 1), DepthAt(s, i - 1)) /\ s[i].depth <= i

ContextInv ==
  /\ BuilderInv
  /\ StackRight(stack) /\ Len(stack) <= MaxDepth
  /\ status # "running" => stack = <<>>
  /\ unwinding => ~ InLoop /\ prog.throws # {}
  /\ currentCtx = Here /\ disableCxtChange = Depth

\* The tree is finished and stays as it is.
Compiled == BuilderInv /\ Built

-----------------------------------------------------------------------------
(***************************************************************************)
(* The finished tree and the hooks made from it.                           *)
(***************************************************************************)
\* No id of the finished tree needs more than a local id has bits.
LEMMA IdsFit ==
  ASSUME WellHooked, Compiled
  PROVE  assignerUcID \in Nat /\ assignerUcID < LocMod
<1>1. TreeInv /\ Len(path) = 1 /\ ~ Pending
  BY Zenon DEF Compiled, BuilderInv, StatusRight
<1>2. cur = 0 /\ cxtTree[0].into = Main /\ 0 \in Nodes
  BY <1>1, CurFacts DEF TreeInv, PathRight, RootIsMain, cur
<1>3. /\ Body(0) = prog.body[Main] /\ visited[0] \in 0 .. Len(Body(0))
      /\ Len(Body(0)) \in Nat
  BY <1>1, <1>2, NodeFacts
<1>4. visited[0] = Len(prog.body[Main])
  BY <1>1, <1>2, <1>3 DEF Pending
<1>5. assignerUcID = Offset[prog][Main][Len(prog.body[Main])]
  <2>1. /\ Main \in Regions /\ prog \in Programs
        /\ Len(prog.body[Main]) \in 0 .. Len(prog.body[Main])
    BY <1>1, <1>3, NamesAssumption DEF TreeInv, Regions
  <2>2. NodesBefore(Main, Len(prog.body[Main])) \in Nat
    BY <2>1, OffsetFacts
  <2> QED
    BY <1>1, <1>2, <1>4, <2>2 DEF TreeInv, NextUcID, NodesBefore
<1>6. prog \in Programs /\ assignerUcID \in Nat
  BY <1>1 DEF TreeInv
<1>7. Offset[prog][Main][Len(prog.body[Main])] < LocMod
  BY <1>6 DEF WellHooked
<1> QED
  BY <1>5, <1>6, <1>7

\* The edge of a node is an edge of its parent's region.
LEMMA EdgeOfChild ==
  ASSUME TreeInv, NEW c \in Nodes \ {0}
  PROVE  /\ EdgeOf(c) \in Edges
         /\ Place(EdgeOf(c)) = cxtTree[c].place /\ Into(EdgeOf(c)) = cxtTree[c].into
         /\ ~ IsLoop(EdgeOf(c)) =>
              Into(EdgeOf(c)) \in Candidates(prog, Place(EdgeOf(c)))
<1>1. PICK p : p = cxtTree[c].parent
  OBVIOUS
<1>2. PICK r : r = cxtTree[p].into
  OBVIOUS
<1>3. /\ r \in Regions /\ DOMAIN prog.body[r] = 1 .. Len(prog.body[r])
      /\ \E i \in 1 .. Len(prog.body[r]) : EdgeOf(c) = prog.body[r][i]
  BY <1>1, <1>2, NodeOrigin
<1>4. PICK i \in 1 .. Len(prog.body[r]) : EdgeOf(c) = prog.body[r][i]
  BY <1>3
<1>5. EdgeOf(c) \in Edges /\ EdgeOf(c) \in EdgesOf(prog, r)
  BY <1>3, <1>4, BodyFacts DEF TreeInv, EdgesOf
<1>6. Place(EdgeOf(c)) = cxtTree[c].place /\ Into(EdgeOf(c)) = cxtTree[c].into
  BY DEF EdgeOf, Place, Into
<1>7. ASSUME ~ IsLoop(EdgeOf(c))
      PROVE  Into(EdgeOf(c)) \in Candidates(prog, Place(EdgeOf(c)))
  <2>1. /\ Into(EdgeOf(c)) \in Functions
        /\ EdgeOf(c) = <<Place(EdgeOf(c)), Into(EdgeOf(c))>>
    BY <1>5, <1>7, EdgeFacts
  <2> QED
    BY <1>3, <1>5, <2>1, Zenon DEF Candidates
<1> QED
  BY <1>5, <1>6, <1>7

\* What the hooks of a node's edge add is the way from the parent to the node.
LEMMA HookOfChild ==
  ASSUME WellHooked, Compiled, NEW c \in Nodes \ {0}, NEW p, p = cxtTree[c].parent
  PROVE  /\ Instrumented(EdgeOf(c)) /\ LocalIdOf(EdgeOf(c)) = c - p
         /\ p \in Nat /\ c \in Nat /\ p < c /\ c < CtxMod /\ p < CtxMod /\ CtxMod \in Nat
<1>1. TreeInv /\ TablesRight
  BY DEF Compiled, BuilderInv
<1>2. /\ c \in Nat /\ p \in Nat /\ p < c
      /\ cxtTree[c].locID = (c - p) % LocMod
  BY <1>1, NodeOrigin
<1>3. c < LocMod - 1 /\ LocMod \in Nat
  BY <1>2, IdsFit, LocModAssumption DEF Nodes
<1>4. c - p \in Nat /\ c - p < LocMod
  BY <1>2, <1>3
<1>5. (c - p) % LocMod = c - p
  BY <1>3, <1>4
<1>6. LocOf(EdgeOf(c)) = c - p
  BY <1>1, <1>2, <1>5 DEF TablesRight, Compiled, Built
<1>7. LocOf(EdgeOf(c)) # Unset /\ LocOf(EdgeOf(c)) # IndirectMark
  BY <1>2, <1>3, <1>4, <1>6 DEF Unset, IndirectMark
<1>8. Instrumented(EdgeOf(c))
  BY <1>7, Zenon DEF Instrumented
<1>9. LocalIdOf(EdgeOf(c)) = c - p
  BY <1>6, <1>7 DEF LocalIdOf
<1>10. c < CtxMod /\ p < CtxMod /\ CtxMod \in Nat
  BY <1>2, <1>3, WidthAssumption DEF WellHooked
<1> QED
  BY <1>2, <1>8, <1>9, <1>10

LEMMA RecursiveNode ==
  ASSUME TreeInv, NEW c \in Nodes \ {0}
  PROVE  cxtTree[c].recursive <=> cxtTree[c].into \in prog.recursive
BY Zenon DEF TreeInv, NodesRight, NodeRight

\* Every nonempty set of nodes has a first one.
LEMMA FirstNode ==
  ASSUME NEW T, T \subseteq Nat, T # {}
  PROVE  \E m \in T : \A n \in T : m <= n
<1>1. PICK m \in T : \A n \in T : ~ (<<n, m>> \in OpToRel(<, Nat))
  BY NatLessThanWellFounded, WFMin
<1>2. ASSUME NEW n \in T
      PROVE  m <= n
  <2>1. n \in Nat /\ m \in Nat
    OBVIOUS
  <2>2. ~ (n < m)
    BY <1>1, <2>1 DEF OpToRel
  <2> QED
    BY <2>1, <2>2
<1> QED
  BY <1>2

(***************************************************************************)
(* The pass looks at the first node of a call site only; as its candidates *)
(* are uniform, that decides right for all of them.                        *)
(***************************************************************************)
LEMMA MutedAreRecursive ==
  ASSUME WellHooked, Compiled, NEW c \in Nodes \ {0}
  PROVE  EdgeOf(c) \in Muted <=> cxtTree[c].recursive
<1>1. TreeInv /\ prog \in Programs
  BY DEF Compiled, BuilderInv, TreeInv
<1>2. EdgeOf(c) \in Edges /\ Instrumented(EdgeOf(c))
  BY <1>1, EdgeOfChild, HookOfChild
<1>3. CASE IsLoop(EdgeOf(c))
  <2>1. cxtTree[c].into \in Loops
    BY <1>1, <1>3, EdgeOfChild DEF IsLoop
  <2>2. prog.recursive \subseteq Functions
    BY <1>1, ProgramsAssumption DEF Program
  <2>3. ~ cxtTree[c].recursive
    BY <1>1, <2>1, <2>2, RecursiveNode, NamesAssumption
  <2> QED
    BY <1>3, <2>3 DEF Muted, Disabling
<1>4. CASE ~ IsLoop(EdgeOf(c))
  <2> DEFINE s == Place(EdgeOf(c))
             T == {u \in Nodes : cxtTree[u].place = s}
  <2>1. s \in Sites /\ s # Main /\ s \notin Loops
    BY <1>2, <1>4, EdgeFacts, NamesAssumption
  <2>2. c \in T /\ T \subseteq Nat
    BY <1>1, EdgeOfChild DEF Nodes
  <2>3. ASSUME NEW u \in T
        PROVE  cxtTree[u].recursive <=> cxtTree[c].recursive
    <3>1. u \in Nodes \ {0} /\ cxtTree[u].place = s
      BY <1>1, <2>1 DEF TreeInv, RootIsMain
    <3>2. /\ EdgeOf(u) \in Edges /\ Place(EdgeOf(u)) = s
          /\ Into(EdgeOf(u)) = cxtTree[u].into
      BY <1>1, <3>1, EdgeOfChild
    <3>3. ~ IsLoop(EdgeOf(u))
      BY <2>1, <3>2, EdgeFacts
    <3>4. cxtTree[u].into \in Candidates(prog, s) /\ cxtTree[c].into \in Candidates(prog, s)
      BY <1>1, <1>4, <3>1, <3>2, <3>3, EdgeOfChild
    <3>5. cxtTree[u].into \in prog.recursive <=> cxtTree[c].into \in prog.recursive
      BY <1>1, <2>1, <3>4 DEF WellHooked, UniformSites
    <3> QED
      BY <1>1, <3>1, <3>5, RecursiveNode
  <2>4. ASSUME Disabling(EdgeOf(c)) PROVE cxtTree[c].recursive
    BY <2>3, <2>4 DEF Disabling
  <2>5. ASSUME cxtTree[c].recursive PROVE Disabling(EdgeOf(c))
    <3>1. PICK m \in T : \A n \in T : m <= n
      BY <2>2, FirstNode
    <3>2. \A w \in 0 .. m - 1 : cxtTree[w].place # s
      BY <1>1, <2>2, <3>1 DEF TreeInv, Nodes
    <3> QED
      BY <1>4, <2>3, <2>5, <3>1, <3>2 DEF Disabling
  <2> QED
    BY <1>2, <2>4, <2>5 DEF Muted
<1> QED
  BY <1>3, <1>4

-----------------------------------------------------------------------------
(***************************************************************************)
(* The stack.                                                              *)
(***************************************************************************)
LEMMA StackFacts ==
  ASSUME NEW s, StackRight(s)
  PROVE  /\ Len(s) \in Nat /\ (s # <<>> => Len(s) \in 1 .. Len(s))
         /\ s = <<>> <=> Len(s) = 0
         /\ \A i \in 1 .. Len(s) :
              /\ s[i] \in Frame /\ s[i].edge \in Edges
              /\ s[i].node \in Nodes /\ s[i].depth \in 0 .. i
              /\ NodeAt(s, i) = s[i].node /\ DepthAt(s, i) = s[i].depth
         /\ \A i \in 0 .. Len(s) : DepthAt(s, i) \in 0 .. i
<1>1. s \in Seq(Frame) /\ Len(s) \in Nat
  BY LenProperties DEF StackRight
<1>2. s = <<>> <=> Len(s) = 0
  BY <1>1, EmptySeq
<1>3. ASSUME NEW i \in 1 .. Len(s)
      PROVE  /\ s[i] \in Frame /\ s[i].edge \in Edges
             /\ s[i].node \in Nodes /\ s[i].depth \in 0 .. i
             /\ NodeAt(s, i) = s[i].node /\ DepthAt(s, i) = s[i].depth
  <2>1. s[i] \in Frame
    BY <1>1, ElementOfSeq
  <2>2. s[i].node \in Nodes /\ s[i].depth <= i
    BY DEF StackRight, FrameRight
  <2> QED
    BY <2>1, <2>2 DEF Frame, NodeAt, DepthAt
<1>4. ASSUME NEW i \in 0 .. Len(s)
      PROVE  DepthAt(s, i) \in 0 .. i
  BY <1>1, <1>3 DEF DepthAt
<1> QED
  BY <1>1, <1>2, <1>3, <1>4

LEMMA EmptyStack == StackRight(<<>>)
BY EmptySeq DEF StackRight

LEMMA PushRight ==
  ASSUME NEW s, StackRight(s), NEW fr \in Frame,
         FrameRight(fr, NodeAt(s, Len(s)), DepthAt(s, Len(s)))
  PROVE  StackRight(Append(s, fr)) /\ Len(Append(s, fr)) = Len(s) + 1
         /\ Append(s, fr)[Len(s) + 1] = fr
<1> DEFINE t == Append(s, fr)
<1>1. /\ s \in Seq(Frame) /\ Len(s) \in Nat /\ t \in Seq(Frame) /\ Len(t) = Len(s) + 1
      /\ \A i \in 1 .. Len(s) : t[i] = s[i]
      /\ t[Len(s) + 1] = fr
  BY LenProperties, AppendProperties DEF StackRight
<1>2. ASSUME NEW i \in 1 .. Len(t)
      PROVE  FrameRight(t[i], NodeAt(t, i - 1), DepthAt(t, i - 1)) /\ t[i].depth <= i
  <2>1. NodeAt(t, i - 1) = NodeAt(s, i - 1) /\ DepthAt(t, i - 1) = DepthAt(s, i - 1)
    BY <1>1 DEF NodeAt, DepthAt
  <2>2. CASE i \in 1 .. Len(s)
    <3>1. t[i] = s[i]
      BY <1>1, <2>2
    <3>2. FrameRight(s[i], NodeAt(s, i - 1), DepthAt(s, i - 1)) /\ s[i].depth <= i
      BY <2>2 DEF StackRight
    <3> QED
      BY <2>1, <3>1, <3>2
  <2>3. CASE i = Len(s) + 1
    <3>1. t[i] = fr /\ i - 1 = Len(s) /\ DepthAt(s, Len(s)) \in 0 .. Len(s)
      BY <1>1, <2>3, StackFacts
    <3>2. fr.depth <= i
      BY <1>1, <2>3, <3>1 DEF FrameRight
    <3> QED
      BY <2>1, <3>1, <3>2
  <2> QED
    BY <1>1, <2>2, <2>3
<1> QED
  BY <1>1, <1>2 DEF StackRight

LEMMA PopRight ==
  ASSUME NEW s, StackRight(s), s # <<>>, NEW t, t = SubSeq(s, 1, Len(s) - 1)
  PROVE  /\ StackRight(t) /\ Len(t) = Len(s) - 1
         /\ \A i \in 1 .. Len(t) : t[i] = s[i]
<1>1. s \in Seq(Frame) /\ Len(s) \in Nat \ {0}
  BY EmptySeq DEF StackRight
<1>2. \A i \in 1 .. Len(s) - 1 : s[i] \in Frame
  BY <1>1, ElementOfSeq
<1>3. /\ t \in Seq(Frame) /\ Len(t) = Len(s) - 1
      /\ \A i \in 1 .. Len(t) : t[i] = s[i]
  <2>1. PICK n \in Nat : n = Len(s) - 1
    BY <1>1
  <2>2. 1 \in Int /\ n \in Int /\ t = SubSeq(s, 1, n) /\ \A i \in 1 .. n : s[i] \in Frame
    BY <1>2, <2>1
  <2>3. /\ SubSeq(s, 1, n) \in Seq(Frame)
        /\ Len(SubSeq(s, 1, n)) = IF 1 <= n THEN n - 1 + 1 ELSE 0
        /\ \A i \in 1 .. n - 1 + 1 : SubSeq(s, 1, n)[i] = s[1 + i - 1]
    BY <2>2, SubSeqProperties
  <2>4. Len(t) = n
    BY <2>1, <2>2, <2>3
  <2>5. \A i \in 1 .. n : t[i] = s[i]
    BY <2>1, <2>2, <2>3
  <2> QED
    BY <2>1, <2>2, <2>3, <2>4, <2>5
<1>4. ASSUME NEW i \in 1 .. Len(t)
      PROVE  FrameRight(t[i], NodeAt(t, i - 1), DepthAt(t, i - 1)) /\ t[i].depth <= i
  <2>1. /\ i \in 1 .. Len(s) /\ t[i] = s[i]
        /\ NodeAt(t, i - 1) = NodeAt(s, i - 1) /\ DepthAt(t, i - 1) = DepthAt(s, i - 1)
    BY <1>1, <1>3 DEF NodeAt, DepthAt
  <2> QED
    BY <2>1 DEF StackRight
<1> QED
  BY <1>3, <1>4 DEF StackRight

\* Counting an iteration changes nothing else.
Counted(s) == [s EXCEPT ![Len(s)].iters = @ + 1]

LEMMA CountRight ==
  ASSUME NEW s, StackRight(s), s # <<>>, NEW t, t = Counted(s)
  PROVE  /\ StackRight(t) /\ Len(t) = Len(s)
         /\ \A i \in 1 .. Len(t) :
              t[i].edge = s[i].edge /\ t[i].node = s[i].node /\ t[i].depth = s[i].depth
<1>1. s \in Seq(Frame) /\ Len(s) \in Nat \ {0}
  BY EmptySeq DEF StackRight
<1> DEFINE fr == [s[Len(s)] EXCEPT !.iters = @ + 1]
<1>2. s[Len(s)] \in Frame /\ Len(s) \in 1 .. Len(s)
  BY <1>1, ElementOfSeq
<1>3. /\ fr \in Frame /\ fr.edge = s[Len(s)].edge /\ fr.node = s[Len(s)].node
      /\ fr.depth = s[Len(s)].depth
  BY <1>2 DEF Frame
<1>4. t = [s EXCEPT ![Len(s)] = fr]
  BY <1>1, <1>2 DEF Counted
<1> HIDE DEF fr
<1>5. /\ t \in Seq(Frame) /\ Len(t) = Len(s)
      /\ \A i \in 1 .. Len(t) : t[i] = IF i = Len(s) THEN fr ELSE s[i]
  BY <1>1, <1>2, <1>3, <1>4, ExceptSeq
<1>6. \A i \in 1 .. Len(t) :
        t[i].edge = s[i].edge /\ t[i].node = s[i].node /\ t[i].depth = s[i].depth
  BY <1>3, <1>5
<1>7. ASSUME NEW i \in 1 .. Len(t)
      PROVE  FrameRight(t[i], NodeAt(t, i - 1), DepthAt(t, i - 1)) /\ t[i].depth <= i
  <2>1. NodeAt(t, i - 1) = NodeAt(s, i - 1) /\ DepthAt(t, i - 1) = DepthAt(s, i - 1)
    BY <1>1, <1>5, <1>6 DEF NodeAt, DepthAt
  <2>2. FrameRight(s[i], NodeAt(s, i - 1), DepthAt(s, i - 1)) /\ s[i].depth <= i
    BY <1>5 DEF StackRight
  <2> QED
    BY <1>6, <2>1, <2>2 DEF FrameRight
<1> QED
  BY <1>5, <1>6, <1>7 DEF StackRight

(***************************************************************************)
(* While the tree and the tables stay, a stack that is right is right in   *)
(* the next state too.                                                     *)
(***************************************************************************)
LEMMA StackKept ==
  ASSUME StackRight(stack'),
         UNCHANGED <<prog, cxtTree, assignerUcID,
                     locIdOf_callSite, locIdOf_indCall, locIdOf_loop>>
  PROVE  StackRight(stack)'
<1>1. Nodes' = Nodes
  BY DEF Nodes
<1>2. Muted' = Muted
  BY DEF Muted, Instrumented, Disabling, LocOf, cntxID, MultiTarget, Candidates, Nodes
<1>3. /\ stack' \in Seq(Frame)
      /\ \A i \in 1 .. Len(stack') :
           /\ FrameRight(stack'[i], NodeAt(stack', i - 1), DepthAt(stack', i - 1))
           /\ stack'[i].depth <= i
  BY DEF StackRight
<1> QED
  BY <1>1, <1>2, <1>3 DEF StackRight, FrameRight, NodeAt, DepthAt, EdgeOf

-----------------------------------------------------------------------------
(***************************************************************************)
(* The running program.                                                    *)
(***************************************************************************)
Running == ContextInv /\ status = "running"

LEMMA RunningFacts ==
  ASSUME WellHooked, Running
  PROVE  /\ Compiled /\ TreeInv /\ StackRight(stack) /\ prog \in Programs
         /\ Len(stack) \in Nat
         /\ Here = NodeAt(stack, Len(stack)) /\ Depth = DepthAt(stack, Len(stack))
         /\ Here \in Nodes /\ Depth \in 0 .. Len(stack) /\ Depth < DisMod
         /\ Depth > 0 <=> cxtTree[Here].recursive
         /\ Depth = 0 => cxtTree[Here].into = Region
         /\ 0 \in Nodes /\ DOMAIN cxtTree = Nodes /\ DisMod \in Nat
<1>1. Compiled /\ TreeInv /\ StackRight(stack) /\ prog \in Programs
  <2>1. status = "running" => Built
    BY DEF Built, Stopped
  <2> QED
    BY <2>1, Zenon DEF Running, ContextInv, Compiled, BuilderInv, TreeInv
<1>2. /\ Len(stack) \in Nat /\ Here = NodeAt(stack, Len(stack))
      /\ Depth = DepthAt(stack, Len(stack)) /\ Depth \in 0 .. Len(stack)
  BY <1>1, StackFacts DEF Here, Depth, Top, NodeAt, DepthAt
<1>3. Depth < DisMod /\ DisMod \in Nat
  BY <1>2, WidthAssumption DEF WellHooked, Running, ContextInv
<1>4. 0 \in Nodes /\ cxtTree[0].recursive = FALSE /\ cxtTree[0].into = Main
      /\ DOMAIN cxtTree = Nodes
  BY <1>1 DEF TreeInv, RootIsMain, Nodes
<1>5. CASE stack = <<>>
  BY <1>1, <1>2, <1>3, <1>4, <1>5 DEF Here, Depth, Region
<1>6. CASE stack # <<>>
  <2>1. Len(stack) \in 1 .. Len(stack)
    BY <1>1, <1>6, StackFacts
  <2>2. FrameRight(Top, NodeAt(stack, Len(stack) - 1), DepthAt(stack, Len(stack) - 1))
    BY <1>1, <2>1 DEF StackRight, Top
  <2>3. Here = Top.node /\ Depth = Top.depth /\ Region = Into(Top.edge)
    BY <1>6 DEF Here, Depth, Region
  <2>4. DepthAt(stack, Len(stack) - 1) \in 0 .. Len(stack) - 1
    BY <1>1, <2>1, StackFacts
  <2>5. ASSUME Depth = 0
        PROVE  cxtTree[Here].into = Region
    <3>1. DepthAt(stack, Len(stack) - 1) = 0
      BY <2>2, <2>3, <2>4, <2>5 DEF FrameRight
    <3>2. EdgeOf(Here) = Top.edge
      BY <2>2, <2>3, <3>1 DEF FrameRight
    <3> QED
      BY <2>3, <3>2 DEF EdgeOf, Into
  <2> QED
    BY <1>1, <1>2, <1>3, <1>4, <2>2, <2>3, <2>5 DEF FrameRight
<1> QED
  BY <1>5, <1>6

\* Following an edge out of a context that is not disabled leads to its child.
LEMMA ChildIsThere ==
  ASSUME WellHooked, Running, Depth = 0, NEW e \in EdgesOf(prog, Region)
  PROVE  /\ NodeAfter(e) \in Nodes \ {0} /\ cxtTree[NodeAfter(e)].parent = Here
         /\ EdgeOf(NodeAfter(e)) = e
<1>1. ~ cxtTree[Here].recursive /\ Here \in Nodes /\ cxtTree[Here].into = Region /\ TreeInv
  BY RunningFacts
<1>2. StatusRight /\ Built
  BY Zenon, RunningFacts DEF Compiled, BuilderInv
<1>3. {EdgeOf(c) : c \in Children(Here)} = EdgesOf(prog, Region)
  BY <1>1, <1>2, ChildrenFollow
<1>4. \E c \in Children(Here) : EdgeOf(c) = e
  BY <1>3
<1>5. NodeAfter(e) = CHOOSE c \in Children(Here) : EdgeOf(c) = e
  BY <1>1 DEF NodeAfter
<1>6. NodeAfter(e) \in Children(Here) /\ EdgeOf(NodeAfter(e)) = e
  BY <1>4, <1>5
<1> QED
  BY <1>6 DEF Children

\* An entry for the edge followed.
Entry(e) ==
  [edge |-> e, node |-> NodeAfter(e), depth |-> IF e \in Muted THEN Depth + 1 ELSE Depth,
   iters |-> 0]

LEMMA EntryRight ==
  ASSUME WellHooked, Running, NEW e \in Edges, e \in EdgesOf(prog, Region)
  PROVE  /\ Entry(e) \in Frame /\ FrameRight(Entry(e), Here, Depth)
         /\ Depth > 0 => NodeAfter(e) = Here
<1>1. Depth \in Nat /\ Here \in Nodes /\ (Depth > 0 <=> cxtTree[Here].recursive)
  BY RunningFacts
<1>2. /\ Entry(e).edge = e /\ Entry(e).node = NodeAfter(e) /\ Entry(e).iters = 0
      /\ Entry(e).depth = IF e \in Muted THEN Depth + 1 ELSE Depth
  BY DEF Entry
<1>3. ASSUME NodeAfter(e) \in Nodes
      PROVE  Entry(e) \in Frame
  <2>1. NodeAfter(e) \in Nat
    BY <1>3 DEF Nodes
  <2> QED
    BY <1>1, <2>1 DEF Entry, Frame
<1>4. CASE Depth > 0
  <2>1. NodeAfter(e) = Here
    BY <1>1, <1>4 DEF NodeAfter
  <2> QED
    BY <1>1, <1>2, <1>3, <1>4, <2>1 DEF FrameRight
<1>5. CASE Depth = 0
  <2>1. /\ NodeAfter(e) \in Nodes \ {0} /\ cxtTree[NodeAfter(e)].parent = Here
        /\ EdgeOf(NodeAfter(e)) = e
    BY <1>5, ChildIsThere
  <2>2. e \in Muted <=> cxtTree[NodeAfter(e)].recursive
    BY <2>1, MutedAreRecursive, RunningFacts
  <2>3. FrameRight(Entry(e), Here, Depth)
    BY <1>2, <1>5, <2>1, <2>2 DEF FrameRight
  <2> QED
    BY <1>3, <1>5, <2>1, <2>3
<1> QED
  BY <1>1, <1>4, <1>5

(***************************************************************************)
(* What ContextSpec allows in one step.                                    *)
(***************************************************************************)
SpecStep == Abstract!SpecNext \/ UNCHANGED Abstract!specVars

\* The begin hooks move the context to the new entry.
LEMMA BeginMoves ==
  ASSUME WellHooked, Running, NEW e \in Edges, e \in EdgesOf(prog, Region),
         IF Instrumented(e) THEN BeginContext(e) ELSE UNCHANGED currentCtx,
         disableCxtChange' = Entry(e).depth,
         UNCHANGED <<cxtTree, status>>
  PROVE  currentCtx' = Entry(e).node /\ SpecStep
<1>1. /\ currentCtx = Here /\ disableCxtChange = Depth
      /\ Entry(e).node = NodeAfter(e) /\ Depth \in Nat
      /\ Entry(e).depth = IF e \in Muted THEN Depth + 1 ELSE Depth
      /\ FrameRight(Entry(e), Here, Depth) /\ DOMAIN cxtTree = Nodes
      /\ Entry(e).edge = e
  BY EntryRight, RunningFacts DEF Running, ContextInv, Entry
<1>2. CASE Depth > 0
  <2>1. NodeAfter(e) = Here
    BY <1>2, EntryRight
  <2>2. currentCtx' = currentCtx
    BY <1>1, <1>2 DEF BeginContext
  <2>3. Abstract!GoDeeper \/ UNCHANGED Abstract!specVars
    BY <1>1, <1>2, <2>2 DEF Abstract!GoDeeper, Abstract!specVars, Running
  <2> QED
    BY <1>1, <2>1, <2>2, <2>3 DEF SpecStep, Abstract!SpecNext
<1>3. CASE Depth = 0
  <2>1. PICK c : c = NodeAfter(e)
    OBVIOUS
  <2>2. c \in Nodes \ {0} /\ cxtTree[c].parent = Here /\ EdgeOf(c) = e
    BY <1>3, <2>1, ChildIsThere
  <2>3. /\ Instrumented(e) /\ LocalIdOf(e) = c - Here
        /\ Here \in Nat /\ c \in Nat /\ c < CtxMod /\ CtxMod \in Nat
    BY <2>2, HookOfChild, RunningFacts
  <2>4. currentCtx' = (Here + (c - Here)) % CtxMod
    BY <1>1, <1>3, <2>3 DEF BeginContext
  <2>5. currentCtx' = c
    BY <2>3, <2>4
  <2>6. disableCxtChange' = IF cxtTree[c].recursive THEN 1 ELSE 0
    BY <1>1, <1>3, <2>1 DEF FrameRight
  <2>7. Abstract!Enter
    BY <1>1, <1>3, <2>2, <2>5, <2>6 DEF Abstract!Enter, Running
  <2> QED
    BY <1>1, <2>1, <2>5, <2>7 DEF SpecStep, Abstract!SpecNext
<1> QED
  BY <1>1, <1>2, <1>3

\* What the innermost entry is over the one below.
Below      == NodeAt(stack, Len(stack) - 1)
DepthBelow == DepthAt(stack, Len(stack) - 1)

LEMMA TopFacts ==
  ASSUME WellHooked, Running, stack # <<>>
  PROVE  /\ Top \in Frame /\ Top.edge \in Edges /\ FrameRight(Top, Below, DepthBelow)
         /\ currentCtx = Top.node /\ disableCxtChange = Top.depth
         /\ Top.node \in Nodes /\ Top.depth \in Nat /\ Top.depth < DisMod
         /\ DepthBelow \in Nat /\ DisMod \in Nat
         /\ DepthBelow = 0 =>
              /\ Top.node \in Nodes \ {0} /\ cxtTree[Top.node].parent = Below
              /\ EdgeOf(Top.node) = Top.edge
              /\ Instrumented(Top.edge) /\ LocalIdOf(Top.edge) = Top.node - Below
              /\ Below \in Nat /\ Top.node \in Nat /\ Below < CtxMod /\ CtxMod \in Nat
<1>1. StackRight(stack) /\ Compiled
  BY RunningFacts
<1>2. Len(stack) \in 1 .. Len(stack)
  BY <1>1, StackFacts
<1>3. FrameRight(Top, Below, DepthBelow) /\ Top \in Frame /\ Top.edge \in Edges
  BY <1>1, <1>2, StackFacts DEF StackRight, Top, Below, DepthBelow
<1>4. Here = Top.node /\ Depth = Top.depth
  BY DEF Here, Depth
<1>5. /\ currentCtx = Top.node /\ disableCxtChange = Top.depth
      /\ Top.node \in Nodes /\ Top.depth \in Nat /\ Top.depth < DisMod /\ DisMod \in Nat
  BY <1>4, RunningFacts DEF Running, ContextInv
<1>6. DepthBelow \in Nat
  BY <1>1, <1>2, StackFacts DEF DepthBelow
<1>7. ASSUME DepthBelow = 0
      PROVE  /\ Top.node \in Nodes \ {0} /\ cxtTree[Top.node].parent = Below
             /\ EdgeOf(Top.node) = Top.edge
  BY <1>3, <1>5, <1>7 DEF FrameRight
<1>8. ASSUME DepthBelow = 0
      PROVE  /\ Instrumented(Top.edge) /\ LocalIdOf(Top.edge) = Top.node - Below
             /\ Below \in Nat /\ Top.node \in Nat /\ Below < CtxMod /\ CtxMod \in Nat
  <2>1. /\ Instrumented(EdgeOf(Top.node)) /\ LocalIdOf(EdgeOf(Top.node)) = Top.node - Below
        /\ Below \in Nat /\ Top.node \in Nat /\ Below < CtxMod /\ CtxMod \in Nat
    BY <1>1, <1>7, <1>8, HookOfChild
  <2> QED
    BY <1>7, <1>8, <2>1
<1> QED
  BY <1>3, <1>5, <1>6, <1>7, <1>8

\* Going back to the entry below is a step of ContextSpec.
LEMMA BackMoves ==
  ASSUME WellHooked, Running, stack # <<>>,
         currentCtx' = Below, disableCxtChange' = DepthBelow,
         UNCHANGED <<cxtTree, status>>
  PROVE  SpecStep
<1>1. CASE DepthBelow > 0
  <2>1. Top.node = Below /\ (Top.depth = DepthBelow + 1 \/ Top.depth = DepthBelow)
    BY <1>1, TopFacts DEF FrameRight
  <2>2. Abstract!ComeBack \/ UNCHANGED Abstract!specVars
    BY <1>1, <2>1, TopFacts DEF Abstract!ComeBack, Abstract!specVars, Running
  <2> QED
    BY <2>2 DEF SpecStep, Abstract!SpecNext
<1>2. CASE DepthBelow = 0
  <2>1. /\ Top.depth = 1 \/ Top.depth = 0
        /\ Top.depth > 0 <=> cxtTree[Top.node].recursive
    BY <1>2, TopFacts DEF FrameRight
  <2>2. Abstract!Leave
    BY <1>2, <2>1, TopFacts DEF Abstract!Leave, Running
  <2> QED
    BY <2>2 DEF SpecStep, Abstract!SpecNext
<1> QED
  BY <1>1, <1>2, TopFacts

LEMMA BackByDistance ==
  ASSUME NEW n \in Nat, NEW b \in Nat, NEW m \in Nat, b < m
  PROVE  (n - (n - b)) % m = b
<1>1. n - (n - b) = b
  OBVIOUS
<1>2. b % m = b
  OBVIOUS
<1> QED
  BY <1>1, <1>2

\* What the end hooks of a call leave is what its begin hooks found.
LEMMA EndOfCall ==
  ASSUME WellHooked, Running, stack # <<>>, ~ InLoop,
         SetContext(CallSiteEnd(ctxVars, Top.edge))
  PROVE  currentCtx' = Below /\ disableCxtChange' = DepthBelow
<1> DEFINE e   == Top.edge
           dis == IF Disabling(e) THEN (disableCxtChange - 1) % DisMod
                  ELSE disableCxtChange
           ctx == IF dis = 0 THEN (currentCtx - LocalIdOf(e)) % CtxMod ELSE currentCtx
<1>1. CallSiteEnd(ctxVars, e) = IF Instrumented(e) THEN <<ctx, dis>>
                                ELSE <<currentCtx, disableCxtChange>>
  BY DEF CallSiteEnd, ctxVars
<1>2. /\ currentCtx' = IF Instrumented(e) THEN ctx ELSE currentCtx
      /\ disableCxtChange' = IF Instrumented(e) THEN dis ELSE disableCxtChange
  BY <1>1 DEF SetContext
<1>3. /\ Top.depth = IF e \in Muted THEN DepthBelow + 1 ELSE DepthBelow
      /\ e \in Muted <=> Instrumented(e) /\ Disabling(e)
  BY TopFacts DEF FrameRight, Muted
<1>4. CASE Instrumented(e)
  <2>1. dis = DepthBelow
    BY <1>3, <1>4, TopFacts
  <2>2. ctx = Below
    <3>1. CASE DepthBelow = 0
      <4>1. ctx = (Top.node - (Top.node - Below)) % CtxMod
        BY <2>1, <3>1, TopFacts
      <4>2. Below \in Nat /\ Below < CtxMod /\ CtxMod \in Nat /\ Top.node \in Nat
        BY <3>1, TopFacts
      <4> HIDE DEF ctx
      <4> QED
        BY <4>1, <4>2, BackByDistance
    <3>2. CASE DepthBelow > 0
      <4>1. Top.node = Below
        BY <3>2, TopFacts DEF FrameRight
      <4> QED
        BY <2>1, <3>2, <4>1, TopFacts
    <3> QED
      BY <3>1, <3>2, TopFacts
  <2> QED
    BY <1>2, <1>4, <2>1, <2>2
<1>5. CASE ~ Instrumented(e)
  <2>1. DepthBelow > 0
    BY <1>5, TopFacts
  <2>2. Top.node = Below /\ Top.depth = DepthBelow
    BY <1>3, <1>5, <2>1, TopFacts DEF FrameRight
  <2> QED
    BY <1>2, <1>5, <2>2, TopFacts
<1> QED
  BY <1>4, <1>5

\* The same of a loop.
LEMMA EndOfLoop ==
  ASSUME WellHooked, Running, InLoop, LoopEnd
  PROVE  currentCtx' = Below /\ disableCxtChange' = DepthBelow
<1>1. /\ currentCtx' = IF disableCxtChange = 0
                       THEN (currentCtx - LocalIdOf(Top.edge)) % CtxMod ELSE currentCtx
      /\ disableCxtChange' = disableCxtChange
  BY DEF LoopEnd
<1>2. stack # <<>> /\ Top.edge \notin Muted
  BY DEF InLoop, Muted, Disabling
<1>3. Top.depth = DepthBelow
  BY <1>2, TopFacts DEF FrameRight
<1>4. CASE DepthBelow = 0
  <2>1. currentCtx' = (Top.node - (Top.node - Below)) % CtxMod
    BY <1>1, <1>2, <1>3, <1>4, TopFacts
  <2>2. Below \in Nat /\ Below < CtxMod /\ CtxMod \in Nat /\ Top.node \in Nat
    BY <1>2, <1>4, TopFacts
  <2>3. currentCtx' = Below
    BY <2>1, <2>2, BackByDistance
  <2> QED
    BY <1>1, <1>2, <1>3, <2>3, TopFacts
<1>5. CASE DepthBelow > 0
  <2>1. Top.node = Below
    BY <1>2, <1>5, TopFacts DEF FrameRight
  <2> QED
    BY <1>1, <1>2, <1>3, <1>5, <2>1, TopFacts
<1> QED
  BY <1>2, <1>4, <1>5, TopFacts

-----------------------------------------------------------------------------
(***************************************************************************)
(* Every step keeps the invariant and is a step of ContextSpec.            *)
(***************************************************************************)
LEMMA BuilderKept == BuilderInv /\ UNCHANGED builderVars => BuilderInv'
<1> SUFFICES ASSUME BuilderInv, UNCHANGED builderVars PROVE BuilderInv'
  OBVIOUS
<1>1. UNCHANGED <<prog, status, cxtTree, assignerUcID, path, visited,
                  locIdOf_callSite, locIdOf_indCall, locIdOf_loop>>
  BY DEF builderVars
<1>2. StatusRight' /\ (Stopped => Stopped')
  BY <1>1 DEF BuilderInv, StatusRight, Stopped, Built, OwnLoopIds, Pending, Body, cur
<1> QED
  BY <1>1, <1>2, StatusKeeps DEF BuilderInv

\* Nothing but the stack, the context and the unwinding has changed.
LEMMA StepKeeps ==
  ASSUME WellHooked, Running, UNCHANGED builderVars,
         StackRight(stack'), Len(stack') <= MaxDepth,
         unwinding' => ~ InLoop' /\ prog.throws # {},
         currentCtx' = Here', disableCxtChange' = Depth'
  PROVE  ContextInv'
<1>1. UNCHANGED <<prog, status, cxtTree, assignerUcID,
                  locIdOf_callSite, locIdOf_indCall, locIdOf_loop>>
  BY DEF builderVars
<1>2. BuilderInv'
  BY BuilderKept DEF Running, ContextInv
<1>3. StackRight(stack)'
  BY <1>1, StackKept
<1>4. status' = "running"
  BY <1>1 DEF Running
<1> QED
  BY <1>1, <1>2, <1>3, <1>4 DEF ContextInv

LEMMA PushKeeps ==
  ASSUME WellHooked, Running, NEW e \in Edges, CanFollow(e),
         IF Instrumented(e) THEN BeginContext(e) ELSE UNCHANGED currentCtx,
         disableCxtChange' = Entry(e).depth, stack' = Append(stack, Entry(e)),
         UNCHANGED <<builderVars, unwinding>>
  PROVE  ContextInv' /\ SpecStep
<1>1. /\ e \in EdgesOf(prog, Region) /\ Len(stack) < MaxDepth /\ ~ unwinding
      /\ UNCHANGED builderVars /\ UNCHANGED <<cxtTree, status>> /\ ~ unwinding'
  BY DEF CanFollow, builderVars
<1>2. currentCtx' = Entry(e).node /\ SpecStep
  BY <1>1, BeginMoves
<1>3. /\ Entry(e) \in Frame /\ StackRight(stack) /\ Len(stack) \in Nat
      /\ FrameRight(Entry(e), NodeAt(stack, Len(stack)), DepthAt(stack, Len(stack)))
  BY <1>1, EntryRight, RunningFacts
<1>4. /\ StackRight(stack') /\ Len(stack') = Len(stack) + 1
      /\ stack'[Len(stack) + 1] = Entry(e)
  BY <1>3, PushRight
<1>5. stack' # <<>>
  BY <1>3, <1>4, StackFacts
<1>6. Here' = Entry(e).node /\ Depth' = Entry(e).depth
  BY <1>4, <1>5 DEF Here, Depth, Top
<1>7. Len(stack') <= MaxDepth
  BY <1>1, <1>3, <1>4, WidthAssumption
<1>8. ContextInv'
  BY <1>1, <1>2, <1>4, <1>6, <1>7, StepKeeps
<1> QED
  BY <1>2, <1>8

LEMMA PopKeeps ==
  ASSUME WellHooked, Running, stack # <<>>, Pop,
         currentCtx' = Below, disableCxtChange' = DepthBelow,
         UNCHANGED builderVars, unwinding' => ~ InLoop' /\ prog.throws # {}
  PROVE  ContextInv' /\ SpecStep
<1>1. StackRight(stack) /\ Len(stack) \in Nat /\ Len(stack) \in 1 .. Len(stack)
  BY RunningFacts, StackFacts
<1>2. /\ StackRight(stack') /\ Len(stack') = Len(stack) - 1
      /\ \A i \in 1 .. Len(stack') : stack'[i] = stack[i]
  BY <1>1, PopRight DEF Pop
<1>3. stack' = <<>> <=> Len(stack') = 0
  BY <1>2, StackFacts
<1>4. Here' = Below /\ Depth' = DepthBelow
  BY <1>1, <1>2, <1>3 DEF Here, Depth, Top, Below, DepthBelow, NodeAt, DepthAt
<1>5. Len(stack') <= MaxDepth
  BY <1>1, <1>2, WidthAssumption DEF Running, ContextInv
<1>6. UNCHANGED <<cxtTree, status>>
  BY DEF builderVars
<1>7. ContextInv'
  BY <1>2, <1>4, <1>5, StepKeeps
<1> QED
  BY <1>6, <1>7, BackMoves

\* The entry of a call that begins.
LEMMA CallSiteBeginEnters ==
  ASSUME WellHooked, Running, NEW e \in Edges, CallSiteBegin(e)
  PROVE  disableCxtChange' = Entry(e).depth /\ stack' = Append(stack, Entry(e))
<1>1. /\ CanFollow(e) /\ UNCHANGED <<builderVars, unwinding>>
      /\ IF Instrumented(e) THEN BeginContext(e) ELSE UNCHANGED currentCtx
  BY DEF CallSiteBegin
<1>2. e \in Muted <=> Instrumented(e) /\ Disabling(e)
  BY DEF Muted
<1>3. /\ disableCxtChange = Depth /\ Depth \in Nat /\ Depth < DisMod /\ DisMod \in Nat
      /\ Depth + 1 < DisMod
  <2>1. Depth <= Len(stack) /\ Len(stack) < MaxDepth /\ MaxDepth < DisMod
    BY <1>1, RunningFacts DEF CanFollow, WellHooked
  <2> QED
    BY <2>1, RunningFacts, WidthAssumption DEF Running, ContextInv
<1>4. (Depth + 1) % DisMod = Depth + 1
  BY <1>3
<1>5. disableCxtChange' = Entry(e).depth /\ stack' = Append(stack, Entry(e))
  <2>1. CASE e \in Muted
    <3>1. disableCxtChange' = (Depth + 1) % DisMod /\ Push(e, 1)
      BY <1>2, <1>3, <2>1 DEF CallSiteBegin
    <3> QED
      BY <1>4, <2>1, <3>1 DEF Push, Entry
  <2>2. CASE e \notin Muted
    <3>1. disableCxtChange' = Depth /\ Push(e, 0)
      BY <1>2, <1>3, <2>2 DEF CallSiteBegin
    <3> QED
      BY <1>3, <2>2, <3>1 DEF Push, Entry
  <2> QED
    BY <2>1, <2>2
<1> QED
  BY <1>5

LEMMA CallSiteBeginKeeps ==
  ASSUME WellHooked, Running, NEW e \in Edges, CallSiteBegin(e)
  PROVE  ContextInv' /\ SpecStep
<1>1. /\ CanFollow(e) /\ UNCHANGED <<builderVars, unwinding>>
      /\ IF Instrumented(e) THEN BeginContext(e) ELSE UNCHANGED currentCtx
  BY DEF CallSiteBegin
<1> QED
  BY <1>1, CallSiteBeginEnters, PushKeeps

\* The entry of a loop that begins.
LEMMA LoopBeginEnters ==
  ASSUME WellHooked, Running, NEW e \in Edges, LoopBegin(e)
  PROVE  /\ disableCxtChange' = Entry(e).depth /\ stack' = Append(stack, Entry(e))
         /\ Entry(e).depth = Depth
<1>1. IsLoop(e) /\ Push(e, 0) /\ disableCxtChange' = disableCxtChange
  BY DEF LoopBegin
<1>2. e \notin Muted
  BY <1>1 DEF Muted, Disabling
<1>3. disableCxtChange = Depth /\ Depth \in Nat
  BY RunningFacts DEF Running, ContextInv
<1> QED
  BY <1>1, <1>2, <1>3 DEF Push, Entry

LEMMA LoopBeginKeeps ==
  ASSUME WellHooked, Running, NEW e \in Edges, LoopBegin(e)
  PROVE  ContextInv' /\ SpecStep
<1>1. CanFollow(e) /\ IsLoop(e) /\ UNCHANGED <<builderVars, unwinding>> /\ BeginContext(e)
  BY DEF LoopBegin
<1>2. Instrumented(e)
  BY <1>1 DEF Instrumented
<1> QED
  BY <1>1, <1>2, LoopBeginEnters, PushKeeps

LEMMA ReturnFromCallKeeps ==
  ASSUME WellHooked, Running, Return
  PROVE  ContextInv' /\ SpecStep
<1>1. /\ stack # <<>> /\ ~ InLoop /\ SetContext(CallSiteEnd(ctxVars, Top.edge))
      /\ Pop /\ UNCHANGED builderVars /\ ~ unwinding'
  BY DEF Return
<1>2. currentCtx' = Below /\ disableCxtChange' = DepthBelow
  BY <1>1, EndOfCall
<1> QED
  BY <1>1, <1>2, PopKeeps

LEMMA LoopEndKeeps ==
  ASSUME WellHooked, Running, LoopEnd
  PROVE  ContextInv' /\ SpecStep
<1>1. stack # <<>> /\ InLoop /\ Pop /\ UNCHANGED builderVars /\ ~ unwinding'
  BY DEF LoopEnd, InLoop
<1>2. currentCtx' = Below /\ disableCxtChange' = DepthBelow
  BY <1>1, EndOfLoop
<1> QED
  BY <1>1, <1>2, PopKeeps

LEMMA LoopNextKeeps ==
  ASSUME WellHooked, Running, LoopNext
  PROVE  ContextInv' /\ SpecStep
<1>1. /\ stack # <<>> /\ ~ unwinding' /\ UNCHANGED builderVars
      /\ UNCHANGED <<currentCtx, disableCxtChange, cxtTree, status>>
      /\ stack' = Counted(stack)
  BY DEF LoopNext, InLoop, ctxVars, builderVars, Counted
<1>2. StackRight(stack) /\ Len(stack) \in Nat /\ Len(stack) \in 1 .. Len(stack)
  BY <1>1, RunningFacts, StackFacts
<1>3. /\ StackRight(stack') /\ Len(stack') = Len(stack)
      /\ \A i \in 1 .. Len(stack') :
           /\ stack'[i].edge = stack[i].edge /\ stack'[i].node = stack[i].node
           /\ stack'[i].depth = stack[i].depth
  BY <1>1, <1>2, CountRight
<1>4. stack' # <<>>
  BY <1>2, <1>3, StackFacts
<1>5. Here' = Here /\ Depth' = Depth
  BY <1>1, <1>2, <1>3, <1>4 DEF Here, Depth, Top
<1>6. /\ Len(stack') <= MaxDepth
      /\ currentCtx' = Here' /\ disableCxtChange' = Depth'
  BY <1>1, <1>3, <1>5 DEF Running, ContextInv
<1>7. ContextInv'
  BY <1>1, <1>3, <1>6, StepKeeps
<1> QED
  BY <1>1, <1>7 DEF SpecStep, Abstract!specVars

LEMMA ThrowKeeps ==
  ASSUME WellHooked, Running, Throw
  PROVE  ContextInv' /\ SpecStep
<1>1. /\ ~ InLoop /\ prog.throws # {} /\ UNCHANGED builderVars
      /\ UNCHANGED <<currentCtx, disableCxtChange, cxtTree, status, stack>>
  BY DEF Throw, ctxVars, builderVars
<1>2. Here' = Here /\ Depth' = Depth /\ InLoop' = InLoop
  BY <1>1 DEF Here, Depth, Top, InLoop
<1>3. StackRight(stack') /\ Len(stack') <= MaxDepth
  BY <1>1, Zenon DEF Running, ContextInv
<1>4. currentCtx' = Here' /\ disableCxtChange' = Depth'
  BY <1>1, <1>2 DEF Running, ContextInv
<1>5. ContextInv'
  BY <1>1, <1>2, <1>3, <1>4, StepKeeps
<1> QED
  BY <1>1, <1>5 DEF SpecStep, Abstract!specVars

\* An exception is in flight only where every call has a pad of its own.
LEMMA PadOfItsOwn ==
  ASSUME WellHooked, ContextInv, unwinding, stack # <<>>
  PROVE  /\ Running /\ ~ InLoop
         /\ PadOfTop # NoPad /\ \A s \in Sites : ~ SharesPad(s)
<1>1. Running /\ ~ InLoop /\ prog.throws # {}
  BY DEF ContextInv, Running
<1>2. Top.edge \in Edges /\ prog \in Programs
  BY <1>1, TopFacts, RunningFacts
<1>3. Place(Top.edge) \in Sites
  BY <1>1, <1>2, EdgeFacts DEF InLoop
<1>4. OwnPads(prog)
  BY <1>2 DEF WellHooked
<1>5. /\ prog.pad[Place(Top.edge)] # NoPad
      /\ \A t \in Sites \ {Place(Top.edge)} : prog.pad[t] # prog.pad[Place(Top.edge)]
  BY <1>1, <1>3, <1>4 DEF OwnPads
<1> QED
  BY <1>1, <1>3, <1>5 DEF PadOfTop, SharesPad

LEMMA UnwindToPadKeeps ==
  ASSUME WellHooked, ContextInv, UnwindToPad
  PROVE  ContextInv' /\ SpecStep
<1>1. /\ unwinding /\ stack # <<>> /\ SetContext(CallSiteEnd(ctxVars, Top.edge))
      /\ LeavePad /\ Pop /\ UNCHANGED builderVars
  BY DEF UnwindToPad, LeavePad
<1>2. Running /\ ~ InLoop /\ prog.throws # {}
  BY <1>1, PadOfItsOwn DEF ContextInv
<1>3. currentCtx' = Below /\ disableCxtChange' = DepthBelow
  BY <1>1, <1>2, EndOfCall
<1>4. StackRight(stack) /\ Len(stack) \in 1 .. Len(stack) /\ Len(stack) \in Nat
  BY <1>1, <1>2, RunningFacts, StackFacts
<1>5. /\ StackRight(stack') /\ Len(stack') = Len(stack) - 1
      /\ \A i \in 1 .. Len(stack') : stack'[i] = stack[i]
  BY <1>1, <1>4, PopRight DEF Pop
<1>6. stack' # <<>> => stack'[Len(stack')] = stack[Len(stack) - 1] /\ Len(stack) > 1
  <2>1. stack' = <<>> <=> Len(stack') = 0
    BY <1>5, StackFacts
  <2> QED
    BY <1>4, <1>5, <2>1
<1>7. unwinding' => ~ InLoop'
  BY <1>1, <1>6 DEF LeavePad, InLoop, Top, IsLoop, Into
<1> QED
  BY <1>1, <1>2, <1>3, <1>7, PopKeeps

-----------------------------------------------------------------------------
(***************************************************************************)
(* Before and after the run.                                               *)
(***************************************************************************)
LEMMA RootFacts == stack = <<>> => Here = 0 /\ Depth = 0 /\ ~ InLoop
BY DEF Here, Depth, InLoop

LEMMA CompilerKeeps ==
  ASSUME ContextInv, CompilerStep
  PROVE  ContextInv' /\ SpecStep
<1>1. /\ BuildStep /\ status = "building"
      /\ UNCHANGED <<currentCtx, disableCxtChange, stack, unwinding>>
  BY DEF CompilerStep, ctxVars, BuildStep, MakeNodeOfCallSite, MakeNodeOfLoop,
         ReturnToParent, FinishTree
<1>2. status' # "running" /\ prog' = prog
  BY <1>1 DEF BuildStep, MakeNodeOfCallSite, MakeNodeOfLoop, ReturnToParent, FinishTree,
              Asserted
<1>3. BuilderInv'
  BY <1>1, BuildStepKeeps DEF ContextInv
<1>4. /\ stack = <<>> /\ stack' = <<>> /\ Len(stack) <= MaxDepth
      /\ (unwinding => ~ InLoop /\ prog.throws # {})
      /\ currentCtx = Here /\ disableCxtChange = Depth
  BY <1>1 DEF ContextInv
<1>5. /\ Here = 0 /\ Depth = 0 /\ ~ InLoop
      /\ Here' = 0 /\ Depth' = 0 /\ ~ InLoop'
  BY <1>4 DEF Here, Depth, InLoop
<1>6. StackRight(stack)'
  BY <1>4, EmptySeq DEF StackRight
<1>7. ContextInv'
  BY <1>1, <1>2, <1>3, <1>4, <1>5, <1>6 DEF ContextInv
<1>8. Abstract!Compile
  BY <1>1, <1>2, <1>4, <1>5 DEF Abstract!Compile, Abstract!AtRoot
<1> QED
  BY <1>7, <1>8 DEF SpecStep, Abstract!SpecNext

LEMMA StatusMoves ==
  ASSUME ContextInv, Built, stack = <<>>,
         status' \in {"running", "terminated", "exited"},
         currentCtx' = 0, disableCxtChange' = 0,
         UNCHANGED <<prog, cxtTree, assignerUcID, path, visited, locIdOf_callSite,
                     locIdOf_indCall, locIdOf_loop, stack, unwinding>>
  PROVE  ContextInv'
<1>1. StatusRight' /\ ~ Stopped
  BY DEF ContextInv, BuilderInv, StatusRight, Stopped, Built, Pending, Body, cur
<1>2. BuilderInv'
  BY <1>1, StatusKeeps DEF ContextInv, BuilderInv
<1>3. Here' = 0 /\ Depth' = 0 /\ ~ InLoop'
  BY DEF Here, Depth, InLoop
<1>4. StackRight(stack)'
  BY EmptySeq DEF StackRight
<1>5. Len(stack') <= MaxDepth /\ stack' = <<>> /\ (unwinding' => prog'.throws # {})
  BY DEF ContextInv
<1> QED
  BY <1>2, <1>3, <1>4, <1>5 DEF ContextInv

LEMMA InitializeKeeps ==
  ASSUME ContextInv, Initialize
  PROVE  ContextInv' /\ SpecStep
<1>1. /\ status = "done" /\ status' = "running" /\ currentCtx' = 0 /\ disableCxtChange' = 0
      /\ UNCHANGED <<prog, cxtTree, assignerUcID, path, visited, locIdOf_callSite,
                     locIdOf_indCall, locIdOf_loop, stack, unwinding>>
  BY DEF Initialize
<1>2. stack = <<>> /\ currentCtx = 0 /\ disableCxtChange = 0
  BY <1>1 DEF ContextInv, Here, Depth
<1>3. Built
  BY <1>1 DEF Built, Stopped
<1>4. ContextInv'
  BY <1>1, <1>2, <1>3, StatusMoves
<1>5. Abstract!Start
  BY <1>1, <1>2 DEF Abstract!Start, Abstract!AtRoot
<1> QED
  BY <1>4, <1>5 DEF SpecStep, Abstract!SpecNext

LEMMA ExitKeeps ==
  ASSUME ContextInv, Exit
  PROVE  ContextInv' /\ SpecStep
<1>1. /\ status = "running" /\ stack = <<>> /\ status' \in {"terminated", "exited"}
      /\ UNCHANGED <<prog, cxtTree, assignerUcID, path, visited, locIdOf_callSite,
                     locIdOf_indCall, locIdOf_loop, stack, unwinding>>
      /\ UNCHANGED <<currentCtx, disableCxtChange>>
  BY DEF Exit, ctxVars
<1>2. currentCtx = 0 /\ disableCxtChange = 0
  BY <1>1 DEF ContextInv, Here, Depth
<1>3. Built
  BY <1>1 DEF Built, Stopped
<1>4. ContextInv'
  BY <1>1, <1>2, <1>3, StatusMoves
<1>5. Abstract!Stop
  BY <1>1, <1>2 DEF Abstract!Stop, Abstract!AtRoot
<1> QED
  BY <1>4, <1>5 DEF SpecStep, Abstract!SpecNext

-----------------------------------------------------------------------------
LEMMA NextKeeps ==
  ASSUME WellHooked, ContextInv, Next
  PROVE  ContextInv' /\ SpecStep
<1>1. CASE CompilerStep
  BY <1>1, CompilerKeeps
<1>2. CASE Initialize
  BY <1>2, InitializeKeeps
<1>3. CASE \E e \in Edges : CallSiteBegin(e) \/ LoopBegin(e)
  <2>1. PICK e \in Edges : CallSiteBegin(e) \/ LoopBegin(e)
    BY <1>3
  <2>2. Running
    BY <2>1 DEF CallSiteBegin, LoopBegin, CanFollow, Running
  <2> QED
    BY <2>1, <2>2, CallSiteBeginKeeps, LoopBeginKeeps
<1>4. CASE Return
  BY <1>4, ReturnFromCallKeeps DEF Return, Running
<1>5. CASE LoopNext
  BY <1>5, LoopNextKeeps DEF LoopNext, Running
<1>6. CASE LoopEnd
  BY <1>6, LoopEndKeeps DEF LoopEnd, Running
<1>7. CASE Throw
  BY <1>7, ThrowKeeps DEF Throw, Running
<1>8. CASE UnwindCall
  BY <1>8, PadOfItsOwn DEF UnwindCall
<1>9. CASE UnwindToPad
  BY <1>9, UnwindToPadKeeps
<1>10. CASE UnwindToSharedPad
  BY <1>10, PadOfItsOwn DEF UnwindToSharedPad
<1>11. CASE Exit
  BY <1>11, ExitKeeps
<1> QED
  BY <1>1, <1>2, <1>3, <1>4, <1>5, <1>6, <1>7, <1>8, <1>9, <1>10, <1>11 DEF Next

LEMMA StutterKeeps ==
  ASSUME ContextInv, UNCHANGED vars
  PROVE  ContextInv' /\ SpecStep
<1>1. /\ UNCHANGED builderVars
      /\ UNCHANGED <<currentCtx, disableCxtChange, stack, unwinding>>
  BY DEF vars, ctxVars
<1>2. UNCHANGED <<prog, status, cxtTree, assignerUcID,
                  locIdOf_callSite, locIdOf_indCall, locIdOf_loop>>
  BY <1>1 DEF builderVars
<1>3. BuilderInv'
  BY <1>1, BuilderKept DEF ContextInv
<1>4. StackRight(stack')
  BY <1>1, Zenon DEF ContextInv
<1>5. StackRight(stack)'
  BY <1>2, <1>4, StackKept
<1>6. Here' = Here /\ Depth' = Depth /\ InLoop' = InLoop
  BY <1>1 DEF Here, Depth, Top, InLoop
<1>7. ContextInv'
  BY <1>1, <1>2, <1>3, <1>5, <1>6 DEF ContextInv
<1> QED
  BY <1>1, <1>2, <1>7 DEF SpecStep, Abstract!specVars

LEMMA RuntimeInitEstablishes == RuntimeInit => ContextInv /\ Abstract!SpecInit
<1> SUFFICES ASSUME RuntimeInit PROVE ContextInv /\ Abstract!SpecInit
  OBVIOUS
<1>1. /\ Init /\ status = "building" /\ currentCtx = 0 /\ disableCxtChange = 0
      /\ stack = <<>> /\ ~ unwinding
  BY DEF RuntimeInit, Init
<1>2. BuilderInv
  BY <1>1, InitEstablishes
<1>3. StackRight(stack) /\ Here = 0 /\ Depth = 0
  BY <1>1, EmptyStack, RootFacts
<1>4. Len(stack) <= MaxDepth
  BY <1>1, WidthAssumption
<1> QED
  BY <1>1, <1>2, <1>3, <1>4 DEF ContextInv, Abstract!SpecInit, Abstract!AtRoot

(***************************************************************************)
(* The inductive invariant of the running program.                         *)
(***************************************************************************)
THEOREM ContextInvariant ==
  ASSUME WellHooked
  PROVE  Spec => []ContextInv
<1>1. ContextInv /\ [Next]_vars => ContextInv'
  BY NextKeeps, StutterKeeps
<1> QED
  BY <1>1, RuntimeInitEstablishes, PTL DEF Spec

(***************************************************************************)
(* Whatever the program calls, repeats, returns from or catches: the stack *)
(* is a path of the tree, currentCtx is its innermost node, and context    *)
(* changes are disabled exactly below a recursive call.                    *)
(***************************************************************************)
THEOREM ContextIsAlwaysHere ==
  ASSUME WellHooked
  PROVE  Spec => []ContextIsHere
<1>1. ASSUME ContextInv, status = "running"
      PROVE  NodesFollowStack
  <2>1. StackRight(stack)
    BY <1>1 DEF ContextInv
  <2>2. ASSUME NEW i \in 1 .. Len(stack)
        PROVE  /\ NodeBefore(i) = NodeAt(stack, i - 1)
               /\ DepthBefore(i) = DepthAt(stack, i - 1)
               /\ DepthAt(stack, i - 1) \in Nat
               /\ FrameRight(stack[i], NodeAt(stack, i - 1), DepthAt(stack, i - 1))
    <3>1. i - 1 \in 0 .. Len(stack)
      BY <2>1, StackFacts
    <3> QED
      BY <2>1, <3>1, StackFacts DEF StackRight, NodeBefore, DepthBefore, NodeAt, DepthAt
  <2>3. ASSUME NEW i \in 1 .. Len(stack)
        PROVE  /\ stack[i].node \in Nodes
               /\ stack[i].depth >= DepthBefore(i)
               /\ IF DepthBefore(i) > 0
                  THEN stack[i].node = NodeBefore(i)
                  ELSE /\ stack[i].node # 0
                       /\ cxtTree[stack[i].node].parent = NodeBefore(i)
                       /\ EdgeOf(stack[i].node) = stack[i].edge
               /\ stack[i].depth > 0 <=> cxtTree[stack[i].node].recursive
    <3>1. PICK n, d : n = NodeAt(stack, i - 1) /\ d = DepthAt(stack, i - 1)
      OBVIOUS
    <3>2. d \in Nat /\ NodeBefore(i) = n /\ DepthBefore(i) = d /\ FrameRight(stack[i], n, d)
      BY <2>2, <3>1
    <3> QED
      BY <3>2 DEF FrameRight
  <2> QED
    BY <2>3 DEF NodesFollowStack
<1>2. ContextInv => ContextIsHere
  BY <1>1 DEF ContextInv, ContextIsHere
<1> QED
  BY <1>2, ContextInvariant, PTL

(***************************************************************************)
(* The context reported walks along the edges of the tree, one level at a  *)
(* time, and stays put below a recursive call.                             *)
(***************************************************************************)
THEOREM ContextWalksTheTree ==
  ASSUME WellHooked
  PROVE  Spec => WalksTheTree
<1>1. ContextInv /\ [Next]_vars => [Abstract!SpecNext]_(Abstract!specVars)
  BY NextKeeps, StutterKeeps DEF SpecStep
<1>2. RuntimeInit => Abstract!SpecInit
  BY RuntimeInitEstablishes
<1> QED
  BY <1>1, <1>2, ContextInvariant, PTL DEF Spec, WalksTheTree, Abstract!ContextSpec

-----------------------------------------------------------------------------
(***************************************************************************)
(* The iteration counters.  The slot of a loop is its rank among the loops *)
(* of the stack that have a counter.                                       *)
(***************************************************************************)
Rank(T, i) == Cardinality({j \in T : j < i})

LEMMA RankFacts ==
  ASSUME NEW T \in SUBSET Nat, IsFiniteSet(T)
  PROVE  /\ Cardinality(T) \in Nat
         /\ \A i \in Nat : Rank(T, i) \in Nat
         /\ \A i \in T : Rank(T, i) < Cardinality(T)
<1>1. Cardinality(T) \in Nat
  BY FS_CardinalityType
<1>2. ASSUME NEW i \in Nat
      PROVE  Rank(T, i) \in Nat /\ (i \in T => Rank(T, i) < Cardinality(T))
  <2> DEFINE B == {j \in T : j < i}
  <2>1. B \in SUBSET T
    OBVIOUS
  <2>2. /\ IsFiniteSet(B) /\ Cardinality(B) <= Cardinality(T)
        /\ Cardinality(T) = Cardinality(B) => T = B
    BY <2>1, FS_Subset
  <2>3. Cardinality(B) \in Nat
    BY <2>2, FS_CardinalityType
  <2>4. i \notin B
    OBVIOUS
  <2> HIDE DEF B
  <2>5. i \in T => Cardinality(B) < Cardinality(T)
    BY <1>1, <2>2, <2>3, <2>4
  <2> QED
    BY <2>3, <2>5 DEF Rank, B
<1> QED
  BY <1>1, <1>2

LEMMA RankBelow ==
  ASSUME NEW T \in SUBSET Nat, IsFiniteSet(T), NEW j \in Nat, NEW i \in T, i < j
  PROVE  Rank(T, i) < Rank(T, j)
<1> DEFINE B == {k \in T : k < j}
<1>1. B \in SUBSET T /\ B \in SUBSET Nat /\ i \in B
  OBVIOUS
<1>2. IsFiniteSet(B)
  BY <1>1, FS_Subset
<1>3. Rank(B, i) < Cardinality(B)
  BY <1>1, <1>2, RankFacts
<1>4. {k \in B : k < i} = {k \in T : k < i}
  <2>1. \A k \in T : k \in Nat /\ (k < i => k < j)
    OBVIOUS
  <2>2. \A k \in T : k < i => k \in B
    BY <2>1
  <2> QED
    BY <2>2
<1> QED
  BY <1>3, <1>4 DEF Rank

\* A new greatest element comes last, and the others keep their rank.
LEMMA RankOfLast ==
  ASSUME NEW T \in SUBSET Nat, IsFiniteSet(T), NEW m \in Nat, \A j \in T : j < m
  PROVE  /\ Cardinality(T \cup {m}) = Cardinality(T) + 1
         /\ Rank(T \cup {m}, m) = Cardinality(T)
         /\ \A i \in T : Rank(T \cup {m}, i) = Rank(T, i)
<1> DEFINE U == T \cup {m}
<1>1. m \notin T
  OBVIOUS
<1>2. Cardinality(U) = Cardinality(T) + 1
  BY <1>1, FS_AddElement
<1>3. {j \in U : j < m} = T
  <2>1. ~ (m < m)
    OBVIOUS
  <2> QED
    BY <2>1
<1>4. ASSUME NEW i \in T
      PROVE  {j \in U : j < i} = {j \in T : j < i}
  BY <1>1
<1> QED
  BY <1>2, <1>3, <1>4 DEF Rank

LEMMA LoopsAreFinite ==
  ASSUME StackRight(stack)
  PROVE  /\ VisibleLoops \in SUBSET Nat /\ IsFiniteSet(VisibleLoops)
         /\ \A i \in VisibleLoops : i \in 1 .. Len(stack)
<1>1. Len(stack) \in Nat /\ VisibleLoops \in SUBSET (1 .. Len(stack))
  BY StackFacts DEF VisibleLoops
<1>2. IsFiniteSet(1 .. Len(stack))
  BY <1>1, FS_Interval
<1>3. IsFiniteSet(VisibleLoops)
  BY <1>1, <1>2, FS_Subset
<1> QED
  BY <1>1, <1>3

LEMMA LoopsAfterPush ==
  ASSUME StackRight(stack), NEW fr \in Frame, stack' = Append(stack, fr)
  PROVE  /\ VisibleLoops' = IF IsLoop(fr.edge) /\ fr.depth = 0
                            THEN VisibleLoops \cup {Len(stack) + 1} ELSE VisibleLoops
         /\ \A i \in 1 .. Len(stack) : stack'[i] = stack[i]
         /\ stack'[Len(stack) + 1] = fr
<1>1. /\ Len(stack) \in Nat /\ Len(stack') = Len(stack) + 1
      /\ \A i \in 1 .. Len(stack) : stack'[i] = stack[i]
      /\ stack'[Len(stack) + 1] = fr
  BY LenProperties, AppendProperties DEF StackRight
<1> QED
  BY <1>1 DEF VisibleLoops, IsLoop, Into

LEMMA LoopsAfterPop ==
  ASSUME StackRight(stack), stack # <<>>, Pop
  PROVE  /\ VisibleLoops' = VisibleLoops \ {Len(stack)}
         /\ \A i \in VisibleLoops' : stack'[i] = stack[i]
<1>1. /\ Len(stack) \in Nat /\ Len(stack') = Len(stack) - 1
      /\ \A i \in 1 .. Len(stack') : stack'[i] = stack[i]
  BY StackFacts, PopRight DEF Pop
<1> QED
  BY <1>1 DEF VisibleLoops, IsLoop, Into

-----------------------------------------------------------------------------
(***************************************************************************)
(* What is said of the counters, over the set T of the loops that have     *)
(* one.                                                                    *)
(***************************************************************************)
IndexOf(n)    == IF n < STK_MAX_SIZE THEN n - 1 ELSE STK_MAX_SIZE - 1
OverflowOf(n) == IF n > STK_MAX_SIZE THEN n - STK_MAX_SIZE - 1 ELSE -1

SlotsRight(T, s, counters) ==
  /\ \A i \in T : Rank(T, i) < STK_MAX_SIZE - 1 =>
                    counters[Rank(T, i)] = s[i].iters % IterMod
  /\ \A k \in Cardinality(T) .. STK_MAX_SIZE - 1 : counters[k] = 0

CountersRight ==
  /\ globalIterStackIdx = IndexOf(Cardinality(VisibleLoops))
  /\ globalIterStackIdx_overflow = OverflowOf(Cardinality(VisibleLoops))
  /\ SlotsRight(VisibleLoops, stack, globalIterStack)

LEMMA CountersSaid == IterStackCountsLoops <=> (status = "running" => CountersRight)
<1>1. \A i \in VisibleLoops : Slot(i) = Rank(VisibleLoops, i)
  BY DEF Slot, Rank
<1> QED
  BY <1>1 DEF IterStackCountsLoops, CountersRight, SlotsRight, IndexOf, OverflowOf

\* The counters with the context they follow.
CountersInv ==
  /\ ContextInv
  /\ globalIterStack \in [0 .. STK_MAX_SIZE - 1 -> Int]
  /\ status = "running" => CountersRight

Counting ==
  /\ Running
  /\ globalIterStack \in [0 .. STK_MAX_SIZE - 1 -> Int]
  /\ CountersRight

CountersKept ==
  globalIterStack' \in [0 .. STK_MAX_SIZE - 1 -> Int] /\ CountersRight'

LEMMA CountingFacts ==
  ASSUME WellHooked, Counting
  PROVE  /\ StackRight(stack) /\ Len(stack) \in Nat
         /\ disableCxtChange = Depth /\ Depth \in Nat
         /\ VisibleLoops \in SUBSET Nat /\ IsFiniteSet(VisibleLoops)
         /\ \A i \in VisibleLoops : i \in 1 .. Len(stack)
         /\ Cardinality(VisibleLoops) \in Nat
         /\ STK_MAX_SIZE \in Nat \ {0} /\ IterMod \in Nat \ {0}
<1>1. StackRight(stack) /\ Len(stack) \in Nat /\ Depth \in Nat
  BY RunningFacts DEF Counting
<1>2. disableCxtChange = Depth
  BY DEF Counting, Running, ContextInv
<1> QED
  BY <1>1, <1>2, LoopsAreFinite, RankFacts, WidthAssumption

\* A step that neither enters nor leaves a loop with a counter.
LEMMA SameLoops ==
  ASSUME Counting, VisibleLoops' = VisibleLoops, UNCHANGED iterVars,
         \A i \in VisibleLoops : stack'[i].iters = stack[i].iters
  PROVE  CountersKept
<1>1. SlotsRight(VisibleLoops, stack', globalIterStack)
  BY DEF Counting, CountersRight, SlotsRight
<1>2. UNCHANGED <<globalIterStack, globalIterStackIdx, globalIterStackIdx_overflow>>
  BY DEF iterVars
<1>3. /\ globalIterStack' \in [0 .. STK_MAX_SIZE - 1 -> Int]
      /\ globalIterStackIdx' = IndexOf(Cardinality(VisibleLoops))
      /\ globalIterStackIdx_overflow' = OverflowOf(Cardinality(VisibleLoops))
  BY <1>2 DEF Counting, CountersRight
<1>4. SlotsRight(VisibleLoops, stack, globalIterStack)'
  BY <1>1, <1>2 DEF SlotsRight, Rank
<1>5. CountersRight'
  BY <1>3, <1>4 DEF CountersRight, IndexOf, OverflowOf
<1> QED
  BY <1>3, <1>5 DEF CountersKept
-----------------------------------------------------------------------------
(***************************************************************************)
(* A loop with a counter is entered, repeated and left.                    *)
(***************************************************************************)
LEMMA PushedCounter ==
  ASSUME WellHooked, Counting, PushCounter, NEW m \in Nat,
         \A i \in VisibleLoops : i < m /\ stack'[i] = stack[i],
         VisibleLoops' = VisibleLoops \cup {m}, stack'[m].iters = 0
  PROVE  CountersKept
<1>0. PICK T, U, n : T = VisibleLoops /\ U = VisibleLoops' /\ n = Cardinality(T)
  OBVIOUS
<1>1. /\ T \in SUBSET Nat /\ IsFiniteSet(T) /\ n \in Nat
      /\ STK_MAX_SIZE \in Nat \ {0} /\ IterMod \in Nat \ {0}
  BY <1>0, CountingFacts
<1>2. /\ U = T \cup {m} /\ \A j \in T : j < m
      /\ Cardinality(U) = n + 1 /\ Rank(U, m) = n
      /\ \A i \in T : Rank(U, i) = Rank(T, i)
  <2>1. /\ T \in SUBSET Nat /\ IsFiniteSet(T) /\ U = T \cup {m} /\ m \in Nat
        /\ \A j \in T : j < m
    BY <1>0, <1>1
  <2>2. /\ Cardinality(T \cup {m}) = Cardinality(T) + 1
        /\ Rank(T \cup {m}, m) = Cardinality(T)
        /\ \A i \in T : Rank(T \cup {m}, i) = Rank(T, i)
    BY <2>1, RankOfLast
  <2> QED
    BY <1>0, <2>1, <2>2, Zenon
<1>3. \A i \in T : Rank(T, i) \in Nat /\ Rank(T, i) < n
  BY <1>0, <1>1, RankFacts
<1>4. /\ globalIterStack \in [0 .. STK_MAX_SIZE - 1 -> Int]
      /\ globalIterStackIdx = IndexOf(n) /\ globalIterStackIdx_overflow = OverflowOf(n)
      /\ SlotsRight(T, stack, globalIterStack)
  BY <1>0 DEF Counting, CountersRight
<1>5. 0 % IterMod = 0
  BY <1>1
<1>6. \A i \in U : i = m \/ (i \in T /\ stack'[i] = stack[i])
  BY <1>0, <1>2
<1>7. CASE n < STK_MAX_SIZE
  <2>1. /\ globalIterStackIdx' = n /\ n \in 0 .. STK_MAX_SIZE - 1
        /\ globalIterStack' = [globalIterStack EXCEPT ![n] = 0]
        /\ globalIterStackIdx_overflow' = -1
    BY <1>1, <1>4, <1>7 DEF PushCounter, IndexOf, OverflowOf
  <2>2. /\ globalIterStack' \in [0 .. STK_MAX_SIZE - 1 -> Int]
        /\ \A k \in 0 .. STK_MAX_SIZE - 1 :
             globalIterStack'[k] = IF k = n THEN 0 ELSE globalIterStack[k]
    BY <1>4, <2>1
  <2>3. ASSUME NEW i \in U, Rank(U, i) < STK_MAX_SIZE - 1
        PROVE  globalIterStack'[Rank(U, i)] = stack'[i].iters % IterMod
    <3>1. CASE i = m
      BY <1>2, <1>5, <2>1, <2>2, <3>1
    <3>2. CASE i # m
      <4>1. i \in T /\ stack'[i] = stack[i] /\ Rank(U, i) = Rank(T, i)
        BY <1>2, <1>6, <3>2
      <4>2. Rank(T, i) \in 0 .. STK_MAX_SIZE - 1 /\ Rank(T, i) # n
        BY <1>1, <1>3, <1>7, <4>1
      <4> QED
        BY <1>4, <2>2, <2>3, <4>1, <4>2 DEF SlotsRight
    <3> QED
      BY <3>1, <3>2
  <2>4. ASSUME NEW k \in Cardinality(U) .. STK_MAX_SIZE - 1
        PROVE  globalIterStack'[k] = 0
    <3>1. k \in n .. STK_MAX_SIZE - 1 /\ k \in 0 .. STK_MAX_SIZE - 1
      BY <1>1, <1>2
    <3> QED
      BY <1>0, <1>4, <2>2, <3>1 DEF SlotsRight
  <2>5. SlotsRight(U, stack', globalIterStack')
    BY <2>3, <2>4 DEF SlotsRight
  <2>6. globalIterStackIdx' = IndexOf(n + 1) /\ globalIterStackIdx_overflow' = OverflowOf(n + 1)
    BY <1>1, <1>7, <2>1 DEF IndexOf, OverflowOf
  <2> QED
    BY <1>0, <1>2, <2>2, <2>5, <2>6
    DEF CountersKept, CountersRight, SlotsRight, Rank, IndexOf, OverflowOf
<1>8. CASE n >= STK_MAX_SIZE
  <2>1. /\ UNCHANGED <<globalIterStack, globalIterStackIdx>>
        /\ globalIterStackIdx_overflow' = OverflowOf(n) + 1
        /\ globalIterStackIdx = STK_MAX_SIZE - 1
    BY <1>1, <1>4, <1>8 DEF PushCounter, IndexOf
  <2>2. globalIterStackIdx' = IndexOf(n + 1) /\ globalIterStackIdx_overflow' = OverflowOf(n + 1)
    BY <1>1, <1>8, <2>1 DEF IndexOf, OverflowOf
  <2>3. ASSUME NEW i \in U, Rank(U, i) < STK_MAX_SIZE - 1
        PROVE  globalIterStack'[Rank(U, i)] = stack'[i].iters % IterMod
    <3>1. i # m
      BY <1>1, <1>2, <1>8, <2>3
    <3>2. i \in T /\ stack'[i] = stack[i] /\ Rank(U, i) = Rank(T, i)
      BY <1>2, <1>6, <3>1
    <3> QED
      BY <1>4, <2>1, <2>3, <3>2 DEF SlotsRight
  <2>4. \A k \in Cardinality(U) .. STK_MAX_SIZE - 1 : globalIterStack'[k] = 0
    BY <1>1, <1>2, <1>8
  <2>5. SlotsRight(U, stack', globalIterStack')
    BY <2>3, <2>4 DEF SlotsRight
  <2> QED
    BY <1>0, <1>2, <1>4, <2>1, <2>2, <2>5
    DEF CountersKept, CountersRight, SlotsRight, Rank, IndexOf, OverflowOf
<1> QED
  BY <1>1, <1>7, <1>8

\* The innermost loop is left; the loops around it keep their counters.
LEMMA PoppedCounter ==
  ASSUME WellHooked, Counting, PopCounter, NEW m \in VisibleLoops,
         \A i \in VisibleLoops \ {m} : i < m /\ stack'[i] = stack[i],
         VisibleLoops' = VisibleLoops \ {m}
  PROVE  CountersKept
<1>0. PICK T, U, n : U = VisibleLoops /\ T = VisibleLoops' /\ n = Cardinality(T)
  OBVIOUS
<1>1. /\ U \in SUBSET Nat /\ IsFiniteSet(U)
      /\ STK_MAX_SIZE \in Nat \ {0} /\ IterMod \in Nat \ {0}
  BY <1>0, CountingFacts
<1>2. T \in SUBSET Nat /\ IsFiniteSet(T) /\ U = T \cup {m} /\ m \in Nat /\ \A j \in T : j < m
  BY <1>0, <1>1, FS_RemoveElement
<1>3. n \in Nat /\ \A i \in T : Rank(T, i) \in Nat /\ Rank(T, i) < n
  BY <1>0, <1>2, RankFacts
<1>4. /\ Cardinality(U) = n + 1 /\ Rank(U, m) = n
      /\ \A i \in T : Rank(U, i) = Rank(T, i)
  <2>1. /\ Cardinality(T \cup {m}) = Cardinality(T) + 1
        /\ Rank(T \cup {m}, m) = Cardinality(T)
        /\ \A i \in T : Rank(T \cup {m}, i) = Rank(T, i)
    BY <1>2, RankOfLast
  <2> QED
    BY <1>0, <1>2, <2>1, Zenon
<1>5. /\ globalIterStack \in [0 .. STK_MAX_SIZE - 1 -> Int]
      /\ globalIterStackIdx = IndexOf(n + 1)
      /\ globalIterStackIdx_overflow = OverflowOf(n + 1)
      /\ SlotsRight(U, stack, globalIterStack)
  BY <1>0, <1>4 DEF Counting, CountersRight
<1>6. \A i \in T : i \in U /\ stack'[i] = stack[i]
  BY <1>0
<1>7. CASE n < STK_MAX_SIZE
  <2>1. globalIterStackIdx = n /\ n \in 0 .. STK_MAX_SIZE - 1 /\ ~ (OverflowOf(n + 1) > -1)
    BY <1>1, <1>3, <1>5, <1>7 DEF IndexOf, OverflowOf
  <2>2. /\ globalIterStackIdx' = n - 1
        /\ globalIterStack' = [globalIterStack EXCEPT ![n] = 0]
        /\ globalIterStackIdx_overflow' = OverflowOf(n + 1)
    BY <1>5, <2>1 DEF PopCounter
  <2>3. /\ globalIterStack' \in [0 .. STK_MAX_SIZE - 1 -> Int]
        /\ \A k \in 0 .. STK_MAX_SIZE - 1 :
             globalIterStack'[k] = IF k = n THEN 0 ELSE globalIterStack[k]
    BY <1>5, <2>1, <2>2
  <2>4. ASSUME NEW i \in T, Rank(T, i) < STK_MAX_SIZE - 1
        PROVE  globalIterStack'[Rank(T, i)] = stack'[i].iters % IterMod
    <3>1. i \in U /\ stack'[i] = stack[i] /\ Rank(U, i) = Rank(T, i)
      BY <1>4, <1>6
    <3>2. Rank(T, i) \in 0 .. STK_MAX_SIZE - 1 /\ Rank(T, i) # n
      BY <1>1, <1>3, <1>7
    <3> QED
      BY <1>5, <2>3, <2>4, <3>1, <3>2 DEF SlotsRight
  <2>5. ASSUME NEW k \in n .. STK_MAX_SIZE - 1
        PROVE  globalIterStack'[k] = 0
    <3>1. k \in 0 .. STK_MAX_SIZE - 1 /\ (k = n \/ k \in n + 1 .. STK_MAX_SIZE - 1)
      BY <1>1, <1>3
    <3> QED
      BY <1>4, <1>5, <2>3, <3>1 DEF SlotsRight
  <2>6. SlotsRight(T, stack', globalIterStack')
    BY <1>0, <2>4, <2>5 DEF SlotsRight
  <2>7. globalIterStackIdx' = IndexOf(n) /\ globalIterStackIdx_overflow' = OverflowOf(n)
    BY <1>1, <1>3, <1>7, <2>2 DEF IndexOf, OverflowOf
  <2> QED
    BY <1>0, <2>3, <2>6, <2>7
    DEF CountersKept, CountersRight, SlotsRight, Rank, IndexOf, OverflowOf
<1>8. CASE n >= STK_MAX_SIZE
  <2>1. OverflowOf(n + 1) > -1
    BY <1>1, <1>3, <1>8 DEF OverflowOf
  <2>2. /\ UNCHANGED <<globalIterStack, globalIterStackIdx>>
        /\ globalIterStackIdx_overflow' = OverflowOf(n + 1) - 1
    BY <1>5, <2>1 DEF PopCounter
  <2>3. globalIterStackIdx' = IndexOf(n) /\ globalIterStackIdx_overflow' = OverflowOf(n)
    BY <1>1, <1>3, <1>5, <1>8, <2>2 DEF IndexOf, OverflowOf
  <2>4. ASSUME NEW i \in T, Rank(T, i) < STK_MAX_SIZE - 1
        PROVE  globalIterStack'[Rank(T, i)] = stack'[i].iters % IterMod
    BY <1>4, <1>5, <1>6, <2>2, <2>4 DEF SlotsRight
  <2>5. ASSUME NEW k \in n .. STK_MAX_SIZE - 1
        PROVE  FALSE
    BY <1>1, <1>3, <1>8
  <2>6. SlotsRight(T, stack', globalIterStack')
    BY <1>0, <2>4, <2>5 DEF SlotsRight
  <2> QED
    BY <1>0, <1>5, <2>2, <2>3, <2>6
    DEF CountersKept, CountersRight, SlotsRight, Rank, IndexOf, OverflowOf
<1> QED
  BY <1>1, <1>3, <1>7, <1>8

LEMMA WrapOnce ==
  ASSUME NEW m \in Nat \ {0}, NEW b \in 0 .. m - 1, NEW q \in Int, NEW x, x = b + (m * q)
  PROVE  x % m = b
OBVIOUS

\* Counting modulo 2^7 is counting.
LEMMA CountModulo ==
  ASSUME NEW m \in Nat \ {0}, NEW c \in Nat
  PROVE  ((c % m) + 1) % m = (c + 1) % m
<1>1. PICK q, r : q = c \div m /\ r = c % m
  OBVIOUS
<1>2. q \in Int /\ r \in 0 .. m - 1 /\ c = (m * q) + r
  BY <1>1
<1>3. CASE r + 1 < m
  <2>1. c + 1 = (r + 1) + (m * q) /\ r + 1 \in 0 .. m - 1
    BY <1>2, <1>3
  <2>2. (c + 1) % m = r + 1 /\ (r + 1) % m = r + 1
    BY <1>2, <2>1, WrapOnce
  <2> QED
    BY <1>1, <2>2
<1>4. CASE r + 1 = m
  <2>1. PICK p \in Int : p = q + 1
    BY <1>2
  <2>2. c + 1 = 0 + (m * p) /\ 0 \in 0 .. m - 1
    BY <1>2, <1>4, <2>1
  <2>3. (c + 1) % m = 0
    BY <2>2, WrapOnce
  <2>4. (r + 1) % m = 0
    BY <1>4
  <2> QED
    BY <1>1, <2>3, <2>4
<1> QED
  BY <1>2, <1>3, <1>4

\* The innermost loop counts an iteration in its own slot, or in the last one.
LEMMA CountedLoop ==
  ASSUME WellHooked, Counting, NEW m \in VisibleLoops, stack[m].iters \in Nat,
         \A i \in VisibleLoops \ {m} : i < m /\ stack'[i].iters = stack[i].iters,
         stack'[m].iters = stack[m].iters + 1, VisibleLoops' = VisibleLoops,
         globalIterStack' = [globalIterStack EXCEPT ![globalIterStackIdx] = NextCount(@)],
         UNCHANGED <<globalIterStackIdx, globalIterStackIdx_overflow>>
  PROVE  CountersKept
<1>0. PICK T, B, n : T = VisibleLoops /\ B = T \ {m} /\ n = Cardinality(T)
  OBVIOUS
<1>1. /\ T \in SUBSET Nat /\ IsFiniteSet(T) /\ n \in Nat
      /\ STK_MAX_SIZE \in Nat \ {0} /\ IterMod \in Nat \ {0}
  BY <1>0, CountingFacts
<1>2. /\ B \in SUBSET Nat /\ IsFiniteSet(B) /\ T = B \cup {m} /\ m \in Nat
      /\ \A j \in B : j < m
  BY <1>0, <1>1, FS_RemoveElement
<1>3. Rank(T, m) = n - 1 /\ n - 1 \in Nat
  <2>1. Cardinality(B \cup {m}) = Cardinality(B) + 1 /\ Rank(B \cup {m}, m) = Cardinality(B)
    BY <1>2, RankOfLast
  <2>2. Cardinality(B) \in Nat
    BY <1>2, FS_CardinalityType
  <2>3. n = Cardinality(B) + 1 /\ Rank(T, m) = Cardinality(B)
    BY <1>0, <1>2, <2>1, Zenon
  <2> QED
    BY <2>2, <2>3
<1>4. \A i \in T : i = m \/ (Rank(T, i) \in Nat /\ Rank(T, i) < n - 1)
  <2>1. ASSUME NEW i \in T, i # m
        PROVE  Rank(T, i) \in Nat /\ Rank(T, i) < n - 1
    <3>1. i < m /\ i \in Nat
      BY <1>2, <2>1
    <3>2. Rank(T, i) < Rank(T, m)
      BY <1>1, <1>2, <3>1, RankBelow
    <3> QED
      BY <1>1, <1>3, <3>1, <3>2, RankFacts
  <2> QED
    BY <2>1
<1>5. /\ globalIterStack \in [0 .. STK_MAX_SIZE - 1 -> Int]
      /\ globalIterStackIdx = IndexOf(n) /\ globalIterStackIdx_overflow = OverflowOf(n)
      /\ SlotsRight(T, stack, globalIterStack)
  BY <1>0 DEF Counting, CountersRight
<1>6. PICK x : x = globalIterStackIdx
  OBVIOUS
<1>7. /\ x \in 0 .. STK_MAX_SIZE - 1 /\ (x = n - 1 \/ x = STK_MAX_SIZE - 1)
      /\ (n <= STK_MAX_SIZE => x = n - 1)
      /\ (x # n - 1 => n - 1 > STK_MAX_SIZE - 1)
  BY <1>1, <1>3, <1>5, <1>6 DEF IndexOf
<1>8. /\ globalIterStack' = [globalIterStack EXCEPT ![x] = NextCount(globalIterStack[x])]
      /\ NextCount(globalIterStack[x]) \in Int
      /\ globalIterStack' \in [0 .. STK_MAX_SIZE - 1 -> Int]
      /\ \A k \in 0 .. STK_MAX_SIZE - 1 :
           globalIterStack'[k] = IF k = x THEN NextCount(globalIterStack[x])
                                 ELSE globalIterStack[k]
  <2>1. globalIterStack[x] \in Int
    BY <1>5, <1>7
  <2>2. NextCount(globalIterStack[x]) \in Int
    BY <1>1, <2>1 DEF NextCount
  <2>3. globalIterStack' = [globalIterStack EXCEPT ![x] = NextCount(globalIterStack[x])]
    BY <1>6
  <2> QED
    BY <1>5, <1>7, <2>2, <2>3
<1>9. ASSUME NEW i \in T, Rank(T, i) < STK_MAX_SIZE - 1
      PROVE  globalIterStack'[Rank(T, i)] = stack'[i].iters % IterMod
  <2>1. globalIterStack[Rank(T, i)] = stack[i].iters % IterMod
    BY <1>5, <1>9 DEF SlotsRight
  <2>2. CASE i = m
    <3>1. x = Rank(T, i) /\ x \in 0 .. STK_MAX_SIZE - 1
      BY <1>1, <1>3, <1>7, <1>9, <2>2
    <3>2. globalIterStack'[x] = ((stack[m].iters % IterMod) + 1) % IterMod
      BY <1>8, <2>1, <2>2, <3>1 DEF NextCount
    <3>3. ((stack[m].iters % IterMod) + 1) % IterMod = (stack[m].iters + 1) % IterMod
      BY <1>1, CountModulo
    <3> QED
      BY <2>2, <3>1, <3>2, <3>3
  <2>3. CASE i # m
    <3>1. Rank(T, i) \in 0 .. STK_MAX_SIZE - 1 /\ Rank(T, i) # x
      BY <1>1, <1>3, <1>4, <1>7, <1>9, <2>3
    <3>2. stack'[i].iters = stack[i].iters
      BY <1>0, <2>3
    <3> QED
      BY <1>8, <2>1, <3>1, <3>2
  <2> QED
    BY <2>2, <2>3
<1>10. ASSUME NEW k \in n .. STK_MAX_SIZE - 1
       PROVE  globalIterStack'[k] = 0
  <2>1. k \in 0 .. STK_MAX_SIZE - 1 /\ k # x
    BY <1>1, <1>3, <1>7
  <2> QED
    BY <1>0, <1>5, <1>8, <2>1 DEF SlotsRight
<1>11. SlotsRight(T, stack', globalIterStack')
  BY <1>0, <1>9, <1>10 DEF SlotsRight
<1> QED
  BY <1>0, <1>5, <1>8, <1>11
  DEF CountersKept, CountersRight, SlotsRight, Rank, IndexOf, OverflowOf

-----------------------------------------------------------------------------
(***************************************************************************)
(* The steps of the running program.                                       *)
(***************************************************************************)
LEMMA LoopBeginCounts ==
  ASSUME WellHooked, Counting, NEW e \in Edges, LoopBegin(e)
  PROVE  CountersKept
<1>1. /\ IsLoop(e) /\ e \in EdgesOf(prog, Region)
      /\ IF disableCxtChange = 0 THEN PushCounter ELSE UNCHANGED iterVars
  BY DEF LoopBegin, CanFollow
<1>2. /\ Entry(e) \in Frame /\ Entry(e).edge = e /\ Entry(e).iters = 0
      /\ Entry(e).depth = Depth /\ stack' = Append(stack, Entry(e))
  <2>1. Running
    BY DEF Counting
  <2>2. Entry(e) \in Frame /\ Entry(e).depth = Depth /\ stack' = Append(stack, Entry(e))
    BY <1>1, <2>1, EntryRight, LoopBeginEnters
  <2> QED
    BY <2>2 DEF Entry
<1>3. /\ VisibleLoops' = IF Depth = 0 THEN VisibleLoops \cup {Len(stack) + 1}
                         ELSE VisibleLoops
      /\ \A i \in 1 .. Len(stack) : stack'[i] = stack[i]
      /\ stack'[Len(stack) + 1] = Entry(e)
  BY <1>1, <1>2, CountingFacts, LoopsAfterPush
<1>4. /\ Len(stack) + 1 \in Nat
      /\ \A i \in VisibleLoops : i < Len(stack) + 1 /\ stack'[i] = stack[i]
  BY <1>3, CountingFacts
<1>5. CASE Depth = 0
  <2>1. PushCounter /\ stack'[Len(stack) + 1].iters = 0
    BY <1>1, <1>2, <1>3, <1>5, CountingFacts
  <2>2. VisibleLoops' = VisibleLoops \cup {Len(stack) + 1}
    BY <1>3, <1>5
  <2> QED
    BY <1>4, <2>1, <2>2, PushedCounter
<1>6. CASE Depth # 0
  <2>1. VisibleLoops' = VisibleLoops /\ UNCHANGED iterVars
    BY <1>1, <1>3, <1>6, CountingFacts
  <2> QED
    BY <1>4, <2>1, SameLoops
<1> QED
  BY <1>5, <1>6

LEMMA CallSiteBeginCounts ==
  ASSUME WellHooked, Counting, NEW e \in Edges, CallSiteBegin(e)
  PROVE  CountersKept
<1>1. ~ IsLoop(e) /\ e \in EdgesOf(prog, Region) /\ UNCHANGED iterVars
  BY DEF CallSiteBegin, CanFollow
<1>2. Entry(e) \in Frame /\ Entry(e).edge = e /\ stack' = Append(stack, Entry(e))
  <2>1. Running
    BY DEF Counting
  <2>2. Entry(e) \in Frame /\ stack' = Append(stack, Entry(e))
    BY <1>1, <2>1, EntryRight, CallSiteBeginEnters
  <2> QED
    BY <2>2 DEF Entry
<1>3. VisibleLoops' = VisibleLoops /\ \A i \in 1 .. Len(stack) : stack'[i] = stack[i]
  BY <1>1, <1>2, CountingFacts, LoopsAfterPush
<1>4. \A i \in VisibleLoops : stack'[i].iters = stack[i].iters
  BY <1>3, CountingFacts
<1> QED
  BY <1>1, <1>3, <1>4, SameLoops

\* A call that ends has no counter.
LEMMA CallEndCounts ==
  ASSUME WellHooked, Counting, stack # <<>>, ~ InLoop, Pop, UNCHANGED iterVars
  PROVE  CountersKept
<1>1. Len(stack) \notin VisibleLoops
  BY DEF VisibleLoops, InLoop, Top
<1>2. /\ VisibleLoops' = VisibleLoops \ {Len(stack)}
      /\ \A i \in VisibleLoops' : stack'[i] = stack[i]
  BY CountingFacts, LoopsAfterPop
<1>3. VisibleLoops' = VisibleLoops
  BY <1>1, <1>2
<1>4. \A i \in VisibleLoops : stack'[i].iters = stack[i].iters
  BY <1>2, <1>3
<1> QED
  BY <1>3, <1>4, SameLoops

LEMMA LoopEndCounts ==
  ASSUME WellHooked, Counting, LoopEnd
  PROVE  CountersKept
<1>1. /\ stack # <<>> /\ IsLoop(Top.edge) /\ Pop
      /\ IF disableCxtChange = 0 THEN PopCounter ELSE UNCHANGED iterVars
  BY DEF LoopEnd, InLoop
<1>2. /\ VisibleLoops' = VisibleLoops \ {Len(stack)}
      /\ \A i \in VisibleLoops' : stack'[i] = stack[i]
  BY <1>1, CountingFacts, LoopsAfterPop
<1>3. /\ Len(stack) \in 1 .. Len(stack) /\ Depth = Top.depth
      /\ Top = stack[Len(stack)]
  BY <1>1, CountingFacts, StackFacts DEF Depth, Top
<1>4. CASE Depth = 0
  <2>1. Len(stack) \in VisibleLoops
    BY <1>1, <1>3, <1>4 DEF VisibleLoops
  <2>2. PopCounter
    BY <1>1, <1>4, CountingFacts
  <2>3. \A i \in VisibleLoops \ {Len(stack)} : i < Len(stack) /\ stack'[i] = stack[i]
    BY <1>2, CountingFacts
  <2> QED
    BY <1>2, <2>1, <2>2, <2>3, PoppedCounter
<1>5. CASE Depth # 0
  <2>1. Len(stack) \notin VisibleLoops /\ UNCHANGED iterVars
    BY <1>1, <1>3, <1>5, CountingFacts DEF VisibleLoops
  <2>2. VisibleLoops' = VisibleLoops
    BY <1>2, <2>1
  <2>3. \A i \in VisibleLoops : stack'[i].iters = stack[i].iters
    BY <1>2, <2>2
  <2> QED
    BY <2>1, <2>2, <2>3, SameLoops
<1> QED
  BY <1>4, <1>5

LEMMA LoopNextCounts ==
  ASSUME WellHooked, Counting, LoopNext
  PROVE  CountersKept
<1> DEFINE m == Len(stack)
<1>1. /\ stack # <<>> /\ IsLoop(Top.edge) /\ stack' = Counted(stack)
      /\ globalIterStack' =
           IF disableCxtChange # 0 THEN globalIterStack
           ELSE [globalIterStack EXCEPT ![globalIterStackIdx] = NextCount(@)]
      /\ UNCHANGED <<globalIterStackIdx, globalIterStackIdx_overflow>>
  BY DEF LoopNext, InLoop, Counted
<1>2. StackRight(stack) /\ m \in 1 .. m /\ m \in Nat /\ stack \in Seq(Frame)
  BY <1>1, CountingFacts, StackFacts DEF StackRight
<1>3. stack[m] \in Frame /\ Top = stack[m] /\ Depth = stack[m].depth
  BY <1>1, <1>2, StackFacts DEF Depth, Top
<1>4. stack[m].iters \in Nat
  BY <1>3 DEF Frame
<1>5. /\ Len(stack') = m
      /\ \A i \in 1 .. m : stack'[i].edge = stack[i].edge /\ stack'[i].depth = stack[i].depth
  BY <1>1, <1>2, CountRight
<1>6. /\ stack'[m].iters = stack[m].iters + 1
      /\ \A i \in 1 .. m : i # m => stack'[i] = stack[i]
  <2>1. PICK fr : fr = [stack[m] EXCEPT !.iters = @ + 1]
    OBVIOUS
  <2>2. fr \in Frame /\ fr.iters = stack[m].iters + 1
    BY <1>3, <1>4, <2>1 DEF Frame
  <2>3. stack' = [stack EXCEPT ![m] = fr]
    BY <1>1, <1>2, <2>1 DEF Counted
  <2>4. \A i \in 1 .. m : stack'[i] = IF i = m THEN fr ELSE stack[i]
    BY <1>2, <2>2, <2>3, ExceptSeq
  <2> QED
    BY <1>2, <2>2, <2>4
<1>7. VisibleLoops' = VisibleLoops
  BY <1>5 DEF VisibleLoops, IsLoop, Into
<1>8. \A i \in VisibleLoops \ {m} : i < m /\ stack'[i].iters = stack[i].iters
  BY <1>2, <1>6, CountingFacts
<1>9. CASE Depth = 0
  <2>1. m \in VisibleLoops
    BY <1>1, <1>2, <1>3, <1>9 DEF VisibleLoops
  <2>2. globalIterStack' = [globalIterStack EXCEPT ![globalIterStackIdx] = NextCount(@)]
    BY <1>1, <1>9, CountingFacts
  <2> HIDE DEF m
  <2> QED
    BY <1>1, <1>4, <1>6, <1>7, <1>8, <2>1, <2>2, CountedLoop
<1>10. CASE Depth # 0
  <2>1. m \notin VisibleLoops /\ UNCHANGED iterVars
    BY <1>1, <1>3, <1>10, CountingFacts DEF VisibleLoops, iterVars
  <2>2. \A i \in VisibleLoops : stack'[i].iters = stack[i].iters
    BY <1>8, <2>1
  <2> QED
    BY <1>7, <2>1, <2>2, SameLoops
<1> QED
  BY <1>9, <1>10

LEMMA CountersNext ==
  ASSUME WellHooked, CountersInv, Next
  PROVE  CountersInv'
<1>1. ContextInv /\ ContextInv'
  BY NextKeeps DEF CountersInv
<1>2. status = "running" => Counting
  BY <1>1 DEF CountersInv, Counting, Running
<1>3. CountersKept => CountersInv'
  BY <1>1 DEF CountersKept, CountersInv
<1>4. CASE CompilerStep
  <2>1. status' # "running" /\ globalIterStack' = globalIterStack
    BY <1>4 DEF CompilerStep, iterVars, BuildStep, MakeNodeOfCallSite, MakeNodeOfLoop,
                ReturnToParent, FinishTree, Asserted
  <2> QED
    BY <1>1, <2>1 DEF CountersInv
<1>5. CASE Initialize
  <2>1. /\ stack' = <<>> /\ globalIterStack' = [i \in 0 .. STK_MAX_SIZE - 1 |-> 0]
        /\ globalIterStackIdx' = -1 /\ globalIterStackIdx_overflow' = -1
    BY <1>1, <1>5 DEF Initialize, ContextInv
  <2>2. VisibleLoops' = {} /\ Cardinality({}) = 0
    BY <2>1, FS_EmptySet, EmptySeq DEF VisibleLoops
  <2>3. globalIterStack' \in [0 .. STK_MAX_SIZE - 1 -> Int]
    BY <2>1
  <2>4. SlotsRight({}, stack', globalIterStack')
    BY <2>1, <2>2 DEF SlotsRight
  <2>5. IndexOf(0) = -1 /\ OverflowOf(0) = -1
    BY WidthAssumption DEF IndexOf, OverflowOf
  <2> QED
    BY <1>3, <2>1, <2>2, <2>3, <2>4, <2>5
    DEF CountersKept, CountersRight, SlotsRight, Rank, IndexOf, OverflowOf
<1>6. CASE \E e \in Edges : CallSiteBegin(e) \/ LoopBegin(e)
  <2>1. PICK e \in Edges : CallSiteBegin(e) \/ LoopBegin(e)
    BY <1>6
  <2>2. Counting
    BY <1>2, <2>1 DEF CallSiteBegin, LoopBegin, CanFollow
  <2> QED
    BY <1>3, <2>1, <2>2, CallSiteBeginCounts, LoopBeginCounts
<1>7. CASE Return
  BY <1>2, <1>3, <1>7, CallEndCounts DEF Return
<1>8. CASE LoopNext
  BY <1>2, <1>3, <1>8, LoopNextCounts DEF LoopNext
<1>9. CASE LoopEnd
  BY <1>2, <1>3, <1>9, LoopEndCounts DEF LoopEnd
<1>10. CASE Throw
  <2>1. Counting /\ UNCHANGED iterVars /\ stack' = stack
    BY <1>2, <1>10 DEF Throw
  <2>2. VisibleLoops' = VisibleLoops
    BY <2>1 DEF VisibleLoops
  <2> QED
    BY <1>3, <2>1, <2>2, SameLoops
<1>11. CASE UnwindCall
  BY <1>1, <1>11, PadOfItsOwn DEF UnwindCall
<1>12. CASE UnwindToPad
  <2>1. Running /\ ~ InLoop
    BY <1>1, <1>12, PadOfItsOwn DEF UnwindToPad
  <2>2. Counting /\ stack # <<>> /\ Pop /\ UNCHANGED iterVars
    BY <1>2, <1>12, <2>1 DEF UnwindToPad, LeavePad, Running
  <2> QED
    BY <1>3, <2>1, <2>2, CallEndCounts
<1>13. CASE UnwindToSharedPad
  BY <1>1, <1>13, PadOfItsOwn DEF UnwindToSharedPad
<1>14. CASE Exit
  <2>1. status' # "running" /\ globalIterStack' = globalIterStack
    BY <1>14 DEF Exit, iterVars
  <2> QED
    BY <1>1, <2>1 DEF CountersInv
<1> QED
  BY <1>4, <1>5, <1>6, <1>7, <1>8, <1>9, <1>10, <1>11, <1>12, <1>13, <1>14 DEF Next

(***************************************************************************)
(* Every active loop outside a recursion counts its iterations in a slot   *)
(* of its own, as long as there is one, whatever loops and calls are       *)
(* entered and left in between, and the loops beyond the last slot are     *)
(* given back in the order they were taken.                                *)
(***************************************************************************)
THEOREM LoopsCountInTheirSlots ==
  ASSUME WellHooked
  PROVE  Spec => []IterStackCountsLoops
<1>1. CountersInv /\ [Next]_vars => CountersInv'
  <2>1. ASSUME CountersInv, UNCHANGED vars
        PROVE  CountersInv'
    <3>1. ContextInv'
      BY <2>1, StutterKeeps DEF CountersInv
    <3>2. /\ UNCHANGED <<status, stack>>
          /\ UNCHANGED <<globalIterStack, globalIterStackIdx, globalIterStackIdx_overflow>>
      BY <2>1 DEF vars, iterVars, builderVars
    <3> QED
      BY <2>1, <3>1, <3>2
      DEF CountersInv, CountersRight, SlotsRight, Rank, IndexOf, OverflowOf, VisibleLoops
  <2> QED
    BY <2>1, CountersNext
<1>2. RuntimeInit => CountersInv
  <2>1. RuntimeInit => status = "building"
                         /\ globalIterStack = [i \in 0 .. STK_MAX_SIZE - 1 |-> 0]
    BY DEF RuntimeInit, Init
  <2> QED
    BY <2>1, RuntimeInitEstablishes DEF CountersInv
<1>3. CountersInv => IterStackCountsLoops
  BY CountersSaid DEF CountersInv
<1> QED
  BY <1>1, <1>2, <1>3, PTL DEF Spec

-----------------------------------------------------------------------------
(***************************************************************************)
(* The path to a node.  PathFromRoot is defined by recursion; that there   *)
(* is such a function follows by taking the least number of nodes for      *)
(* which there is none.                                                    *)
(***************************************************************************)
\* The path of u, given those of the nodes before it.
PathThrough(f, u) == IF u = 0 THEN <<>> ELSE Append(f[cxtTree[u].parent], EdgeOf(u))

PathsOfFirst(n, f) ==
  f = [u \in {v \in Nodes : v < n} |-> PathThrough(f, u)]

LEMMA PathsExtend ==
  ASSUME TreeInv, NEW n \in Nat, NEW f, PathsOfFirst(n, f)
  PROVE  \E g : PathsOfFirst(n + 1, g)
<1> DEFINE D == {v \in Nodes : v < n}
           E == {v \in Nodes : v < n + 1}
           g == [u \in E |-> PathThrough(f, u)]
<1>1. \A u \in Nodes : u \in Nat
  BY DEF TreeInv, Nodes
<1>2. /\ \A u \in D : f[u] = PathThrough(f, u)
      /\ \A u \in D : u \in E
      /\ \A u \in E : u \in Nodes /\ u < n + 1
  BY <1>1 DEF PathsOfFirst
<1>3. ASSUME NEW u \in E
      PROVE  PathThrough(g, u) = PathThrough(f, u)
  <2>1. CASE u = 0
    BY <2>1 DEF PathThrough
  <2>2. CASE u # 0
    <3>1. PICK p : p = cxtTree[u].parent
      OBVIOUS
    <3>2. p \in Nodes /\ p < u /\ p \in Nat /\ u \in Nat /\ u < n + 1
      BY <1>1, <1>2, <2>2, <3>1, NodeOrigin
    <3>3. p \in D /\ p \in E
      BY <1>1, <1>2, <2>2, <3>2
    <3>4. g[p] = f[p]
      <4>1. g[p] = PathThrough(f, p)
        BY <3>3
      <4>2. f[p] = PathThrough(f, p)
        BY <1>2, <3>3
      <4> QED
        BY <4>1, <4>2, Zenon
    <3> HIDE DEF g
    <3> QED
      BY <2>2, <3>1, <3>4 DEF PathThrough
  <2> QED
    BY <2>1, <2>2
<1>4. g = [u \in E |-> PathThrough(g, u)]
  BY <1>3
<1> QED
  BY <1>4 DEF PathsOfFirst

LEMMA PathsExist == TreeInv => \A n \in Nat : \E f : PathsOfFirst(n, f)
<1> SUFFICES ASSUME TreeInv PROVE \A n \in Nat : \E f : PathsOfFirst(n, f)
  OBVIOUS
<1> DEFINE Without == {n \in Nat : ~ \E f : PathsOfFirst(n, f)}
<1>1. SUFFICES ASSUME Without # {} PROVE FALSE
  OBVIOUS
<1>2. PICK m \in Without : \A n \in Without : m <= n
  BY <1>1, FirstNode
<1>3. \E f : PathsOfFirst(0, f)
  <2>1. {v \in Nodes : v < 0} = {}
    BY DEF TreeInv, Nodes
  <2>2. [u \in {} |-> 0] = [u \in {} |-> PathThrough([v \in {} |-> 0], u)]
    OBVIOUS
  <2> QED
    BY <2>1, <2>2 DEF PathsOfFirst
<1>4. m # 0 /\ m \in Nat
  BY <1>3
<1>5. m - 1 \in Nat /\ m - 1 \notin Without
  BY <1>2, <1>4
<1>6. PICK f : PathsOfFirst(m - 1, f)
  BY <1>5
<1>7. \E g : PathsOfFirst((m - 1) + 1, g)
  BY <1>5, <1>6, PathsExtend
<1>8. (m - 1) + 1 = m
  BY <1>4
<1> QED
  BY <1>7, <1>8

LEMMA PathEquation ==
  ASSUME TreeInv, NEW u \in Nodes
  PROVE  PathFromRoot[u] = IF u = 0 THEN <<>>
                           ELSE Append(PathFromRoot[cxtTree[u].parent], EdgeOf(u))
<1>1. assignerUcID \in Nat /\ {v \in Nodes : v < assignerUcID} = Nodes
  BY DEF TreeInv, Nodes
<1>2. \E f : f = [v \in Nodes |-> PathThrough(f, v)]
  <2>1. PICK f : PathsOfFirst(assignerUcID, f)
    BY <1>1, PathsExist
  <2> QED
    BY <1>1, <2>1 DEF PathsOfFirst
<1>3. \E f : f = [v \in Nodes |-> IF v = 0 THEN <<>>
                                  ELSE Append(f[cxtTree[v].parent], EdgeOf(v))]
  BY <1>2 DEF PathThrough
<1>4. PathFromRoot = [v \in Nodes |-> IF v = 0 THEN <<>>
                        ELSE Append(PathFromRoot[cxtTree[v].parent], EdgeOf(v))]
  BY <1>3, Zenon DEF PathFromRoot
<1> QED
  BY <1>4

-----------------------------------------------------------------------------
(***************************************************************************)
(* The path of the innermost node is the part of the stack that is seen.   *)
(***************************************************************************)
EdgesTo(s, n) == [j \in 1 .. n |-> s[j].edge]

LEMMA EdgesAppended ==
  ASSUME NEW s, StackRight(s), NEW i \in 1 .. Len(s)
  PROVE  EdgesTo(s, i) = Append(EdgesTo(s, i - 1), s[i].edge)
<1>1. Len(s) \in Nat /\ \A j \in 1 .. Len(s) : s[j].edge \in Edges
  BY StackFacts
<1>2. PICK n \in Nat : n = i - 1
  BY <1>1
<1>3. EdgesTo(s, n) \in [1 .. n -> Edges] /\ EdgesTo(s, n + 1) \in [1 .. n + 1 -> Edges]
  BY <1>1, <1>2 DEF EdgesTo
<1>4. EdgesTo(s, n) \in Seq(Edges) /\ EdgesTo(s, n + 1) \in Seq(Edges)
  BY <1>2, <1>3, SeqDef
<1>5. Len(EdgesTo(s, n)) = n /\ Len(EdgesTo(s, n + 1)) = n + 1
  BY <1>2, <1>3
<1> DEFINE t == Append(EdgesTo(s, n), s[i].edge)
<1>6. /\ t \in Seq(Edges) /\ Len(t) = n + 1
      /\ \A j \in 1 .. n : t[j] = EdgesTo(s, n)[j]
      /\ t[n + 1] = s[i].edge
  <2>1. s[i].edge \in Edges
    BY <1>1
  <2> QED
    BY <1>4, <1>5, <2>1, AppendProperties
<1> HIDE DEF t
<1>7. ASSUME NEW j \in 1 .. n + 1
      PROVE  EdgesTo(s, n + 1)[j] = t[j]
  <2>1. EdgesTo(s, n + 1)[j] = s[j].edge
    BY DEF EdgesTo
  <2>2. CASE j = n + 1
    BY <1>2, <1>6, <2>1, <2>2
  <2>3. CASE j \in 1 .. n
    <3>1. EdgesTo(s, n)[j] = s[j].edge
      BY <2>3 DEF EdgesTo
    <3> QED
      BY <1>6, <2>1, <2>3, <3>1
  <2> QED
    BY <1>2, <2>2, <2>3
<1>8. EdgesTo(s, n + 1) = t
  BY <1>4, <1>5, <1>6, <1>7, SeqEqual
<1>9. n + 1 = i
  BY <1>1, <1>2
<1> QED
  BY <1>2, <1>8, <1>9 DEF t

\* Up to the first recursive call the nodes of the stack are the path to it.
LEMMA PathOfEntry ==
  ASSUME TreeInv, StackRight(stack)
  PROVE  \A n \in 0 .. Len(stack) :
           (\A i \in 1 .. n : DepthAt(stack, i - 1) = 0) =>
             PathFromRoot[NodeAt(stack, n)] = EdgesTo(stack, n)
<1> DEFINE P(n) == (\A i \in 1 .. n : DepthAt(stack, i - 1) = 0) =>
                     PathFromRoot[NodeAt(stack, n)] = EdgesTo(stack, n)
           Wrong == {n \in 0 .. Len(stack) : ~ P(n)}
<1>1. SUFFICES ASSUME Wrong # {} PROVE FALSE
  OBVIOUS
<1>2. PICK m \in Wrong : \A n \in Wrong : m <= n
  <2>1. Wrong \subseteq Nat
    OBVIOUS
  <2> QED
    BY <1>1, <2>1, FirstNode
<1>3. /\ Len(stack) \in Nat /\ m \in 0 .. Len(stack) /\ m \in Nat
      /\ \A i \in 1 .. m : DepthAt(stack, i - 1) = 0
      /\ PathFromRoot[NodeAt(stack, m)] # EdgesTo(stack, m)
  BY <1>2, StackFacts
<1>4. CASE m = 0
  <2>1. 0 \in Nodes
    BY DEF TreeInv, Nodes
  <2>2. PathFromRoot[NodeAt(stack, m)] = <<>>
    BY <1>4, <2>1, PathEquation DEF NodeAt
  <2>3. EdgesTo(stack, m) \in [1 .. 0 -> Edges]
    BY <1>4 DEF EdgesTo
  <2>4. EdgesTo(stack, m) \in Seq(Edges) /\ Len(EdgesTo(stack, m)) = 0
    BY <2>3, SeqDef
  <2>5. EdgesTo(stack, m) = <<>>
    BY <2>4, EmptySeq
  <2> QED
    BY <1>3, <2>2, <2>5
<1>5. CASE m # 0
  <2>1. PICK k \in Nat : k = m - 1
    BY <1>3, <1>5
  <2>2. k \in 0 .. Len(stack) /\ m \in 1 .. Len(stack) /\ k < m /\ k \notin Wrong
    BY <1>2, <1>3, <1>5, <2>1
  <2>3. \A i \in 1 .. k : DepthAt(stack, i - 1) = 0
    BY <1>3, <2>1
  <2>4. PathFromRoot[NodeAt(stack, k)] = EdgesTo(stack, k)
    BY <2>2, <2>3
  <2>5. /\ FrameRight(stack[m], NodeAt(stack, k), DepthAt(stack, k))
        /\ DepthAt(stack, k) = 0
    BY <1>3, <2>1, <2>2 DEF StackRight
  <2>6. /\ stack[m].node \in Nodes \ {0} /\ cxtTree[stack[m].node].parent = NodeAt(stack, k)
        /\ EdgeOf(stack[m].node) = stack[m].edge
    BY <2>5 DEF FrameRight
  <2>7. PathFromRoot[stack[m].node] = Append(PathFromRoot[NodeAt(stack, k)], stack[m].edge)
    BY <2>6, PathEquation
  <2>8. EdgesTo(stack, m) = Append(EdgesTo(stack, k), stack[m].edge)
    BY <2>1, <2>2, EdgesAppended
  <2>9. NodeAt(stack, m) = stack[m].node
    BY <1>5 DEF NodeAt
  <2> QED
    BY <1>3, <2>4, <2>7, <2>8, <2>9
<1> QED
  BY <1>4, <1>5

\* The first recursive call is where the depth leaves 0, and it stays so.
LEMMA DepthFollowsRecursion ==
  ASSUME WellHooked, Running, NEW i \in 1 .. Len(stack)
  PROVE  /\ DepthAt(stack, i - 1) = 0 => (stack[i].depth > 0 <=> i \in Recursions)
         /\ DepthAt(stack, i - 1) > 0 => /\ stack[i].depth > 0
                                         /\ stack[i].node = NodeAt(stack, i - 1)
<1>1. /\ StackRight(stack) /\ TreeInv /\ Len(stack) \in Nat
      /\ DepthAt(stack, i - 1) \in Nat
      /\ FrameRight(stack[i], NodeAt(stack, i - 1), DepthAt(stack, i - 1))
  <2>1. StackRight(stack) /\ TreeInv /\ Len(stack) \in Nat
    BY RunningFacts
  <2>2. i - 1 \in 0 .. Len(stack)
    BY <2>1
  <2> QED
    BY <2>1, <2>2, StackFacts DEF StackRight
<1>2. ASSUME DepthAt(stack, i - 1) = 0
      PROVE  stack[i].depth > 0 <=> i \in Recursions
  <2>1. /\ stack[i].node \in Nodes \ {0} /\ EdgeOf(stack[i].node) = stack[i].edge
        /\ stack[i].depth > 0 <=> cxtTree[stack[i].node].recursive
    BY <1>1, <1>2 DEF FrameRight
  <2>2. cxtTree[stack[i].node].recursive <=> Into(stack[i].edge) \in prog.recursive
    BY <1>1, <2>1, RecursiveNode, EdgeOfChild
  <2> QED
    BY <2>1, <2>2 DEF Recursions
<1>3. ASSUME DepthAt(stack, i - 1) > 0
      PROVE  stack[i].depth > 0 /\ stack[i].node = NodeAt(stack, i - 1)
  BY <1>1, <1>3 DEF FrameRight
<1> QED
  BY <1>2, <1>3

LEMMA DepthBeforeRecursion ==
  ASSUME WellHooked, Running, NEW n \in 0 .. Len(stack), \A i \in 1 .. n - 1 : i \notin Recursions
  PROVE  \A i \in 1 .. n : DepthAt(stack, i - 1) = 0
<1> DEFINE Wrong == {i \in 1 .. n : DepthAt(stack, i - 1) # 0}
<1>1. SUFFICES ASSUME Wrong # {} PROVE FALSE
  OBVIOUS
<1>2. PICK m \in Wrong : \A i \in Wrong : m <= i
  <2>1. Wrong \subseteq Nat
    OBVIOUS
  <2> QED
    BY <1>1, <2>1, FirstNode
<1>3. StackRight(stack) /\ Len(stack) \in Nat /\ m \in 1 .. n /\ DepthAt(stack, m - 1) # 0
  BY <1>2, RunningFacts
<1>4. m # 1
  BY <1>3 DEF DepthAt
<1>5. PICK k \in Nat : k = m - 1
  BY <1>3
<1>6. k \in 1 .. n - 1 /\ k \in 1 .. n /\ k \in 1 .. Len(stack) /\ k < m
  BY <1>3, <1>4, <1>5
<1>7. DepthAt(stack, k - 1) = 0 /\ k \notin Recursions
  BY <1>2, <1>6
<1>8. ~ (stack[k].depth > 0) /\ stack[k].depth \in Nat /\ DepthAt(stack, k) = stack[k].depth
  BY <1>3, <1>6, <1>7, DepthFollowsRecursion, StackFacts
<1> QED
  BY <1>3, <1>5, <1>8

\* Below the first recursive call the context stays where it is.
LEMMA NodeBelowRecursion ==
  ASSUME WellHooked, Running, NEW n \in 1 .. Len(stack), DepthAt(stack, n) > 0
  PROVE  Here = NodeAt(stack, n)
<1> DEFINE Wrong == {i \in n .. Len(stack) :
                       ~ (DepthAt(stack, i) > 0 /\ NodeAt(stack, i) = NodeAt(stack, n))}
<1>1. StackRight(stack) /\ Len(stack) \in Nat /\ Here = NodeAt(stack, Len(stack))
  BY RunningFacts
<1>2. CASE Wrong = {}
  <2>1. Len(stack) \in n .. Len(stack)
    BY <1>1
  <2> QED
    BY <1>1, <1>2, <2>1
<1>3. CASE Wrong # {}
  <2>1. PICK m \in Wrong : \A i \in Wrong : m <= i
    <3>1. Wrong \subseteq Nat
      BY <1>1
    <3> QED
      BY <1>3, <3>1, FirstNode
  <2>2. /\ m \in n .. Len(stack) /\ m # n
        /\ ~ (DepthAt(stack, m) > 0 /\ NodeAt(stack, m) = NodeAt(stack, n))
    BY <2>1
  <2>3. m - 1 \in n .. Len(stack) /\ m - 1 < m /\ m \in 1 .. Len(stack)
    BY <1>1, <2>2
  <2>4. DepthAt(stack, m - 1) > 0 /\ NodeAt(stack, m - 1) = NodeAt(stack, n)
    BY <1>1, <2>1, <2>2, <2>3
  <2>5. stack[m].depth > 0 /\ stack[m].node = NodeAt(stack, m - 1)
    BY <2>3, <2>4, DepthFollowsRecursion
  <2>6. DepthAt(stack, m) = stack[m].depth /\ NodeAt(stack, m) = stack[m].node
    BY <1>1, <2>3, StackFacts
  <2> QED
    BY <2>2, <2>4, <2>5, <2>6
<1> QED
  BY <1>2, <1>3

LEMMA HereIsVisiblePath ==
  ASSUME WellHooked, Running
  PROVE  Here \in Nodes /\ PathFromRoot[Here] = VisiblePath
<1>1. /\ StackRight(stack) /\ TreeInv /\ Len(stack) \in Nat /\ Here \in Nodes
      /\ Here = NodeAt(stack, Len(stack)) /\ Recursions \subseteq Nat
  BY RunningFacts DEF Recursions
<1>2. VisiblePath = EdgesTo(stack, VisibleLength)
  BY DEF VisiblePath, EdgesTo
<1>3. CASE Recursions = {}
  <2>1. VisibleLength = Len(stack) /\ Len(stack) \in 0 .. Len(stack)
    BY <1>1, <1>3 DEF VisibleLength
  <2>2. \A i \in 1 .. Len(stack) : DepthAt(stack, i - 1) = 0
    BY <1>3, <2>1, DepthBeforeRecursion
  <2> QED
    BY <1>1, <1>2, <2>1, <2>2, PathOfEntry
<1>4. CASE Recursions # {}
  <2>1. \E i \in Recursions : \A j \in Recursions : i <= j
    BY <1>1, <1>4, FirstNode
  <2>2. VisibleLength = CHOOSE i \in Recursions : \A j \in Recursions : i <= j
    BY <1>4 DEF VisibleLength
  <2>3. VisibleLength \in Recursions /\ \A j \in Recursions : VisibleLength <= j
    BY <2>1, <2>2
  <2>4. PICK n : n = VisibleLength
    OBVIOUS
  <2>5. n \in 1 .. Len(stack) /\ n \in 0 .. Len(stack) /\ \A i \in 1 .. n - 1 : i \notin Recursions
    BY <1>1, <2>3, <2>4 DEF Recursions
  <2>6. \A i \in 1 .. n : DepthAt(stack, i - 1) = 0
    BY <2>5, DepthBeforeRecursion
  <2>7. DepthAt(stack, n) > 0
    <3>1. DepthAt(stack, n - 1) = 0 /\ n \in Recursions
      BY <2>3, <2>4, <2>5, <2>6
    <3>2. stack[n].depth > 0
      BY <2>5, <3>1, DepthFollowsRecursion
    <3> QED
      BY <1>1, <2>5, <3>2, StackFacts
  <2>8. Here = NodeAt(stack, n)
    BY <2>5, <2>7, NodeBelowRecursion
  <2>9. PathFromRoot[NodeAt(stack, n)] = EdgesTo(stack, n)
    BY <1>1, <2>5, <2>6, PathOfEntry
  <2> QED
    BY <1>1, <1>2, <2>4, <2>8, <2>9
<1> QED
  BY <1>3, <1>4

(***************************************************************************)
(* The promise of the README of the repository: the context id tells the   *)
(* chain of calls and loops that the program is in.                        *)
(***************************************************************************)
THEOREM ContextTellsCallPath ==
  ASSUME WellHooked
  PROVE  Spec => []ContextNamesCallPath
<1>1. ContextInv => ContextNamesCallPath
  <2>1. ASSUME ContextInv, status = "running"
        PROVE  currentCtx \in Nodes /\ PathFromRoot[currentCtx] = VisiblePath
    <3>1. Running /\ currentCtx = Here
      BY <2>1 DEF Running, ContextInv
    <3> QED
      BY <3>1, HereIsVisiblePath
  <2> QED
    BY <2>1 DEF ContextNamesCallPath
<1> QED
  BY <1>1, ContextInvariant, PTL
=============================================================================
