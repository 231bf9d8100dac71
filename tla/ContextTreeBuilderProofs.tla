---------------------- MODULE ContextTreeBuilderProofs ----------------------
(***************************************************************************)
(* For every program whose marked functions cut all cycles of calls: a     *)
(* place has one local id, and the finished tree has a node for every way  *)
(* to go; the assertions of the builder never fail if the loops of the     *)
(* program have context ids of their own.                                  *)
(*                                                                         *)
(* The argument is that a node's ucID is its parent's plus the number of   *)
(* nodes made for the parent's region before it, Offset[prog][r][i], and   *)
(* this number depends on the place alone.                                 *)
(***************************************************************************)
EXTENDS ContextTreeBuilder, SequenceTheorems, TLAPS

NodesBefore(r, i) == Offset[prog][r][i]

\* The first ucID after the nodes of u's traversal, when it has ended.
EndOf(u) == u + NodesBefore(cxtTree[u].into, Len(Body(u)))

\* Node c was made for the i-th edge of its parent p's region.
MadeFor(c, p, i) ==
  /\ EdgeOf(c) = Body(p)[i]
  /\ c = p + NodesBefore(cxtTree[p].into, i - 1)

RootIsMain ==
  /\ cxtTree[0].place = Main /\ cxtTree[0].into = Main /\ cxtTree[0].parent = 0
  /\ cxtTree[0].locID = 0 /\ cxtTree[0].recursive = FALSE

\* A node in terms of its parent.
NodeRight(c) ==
  LET p == cxtTree[c].parent
  IN  /\ p \in 0 .. c - 1
      /\ ~ cxtTree[p].recursive
      /\ \E i \in 1 .. visited[p] : MadeFor(c, p, i)
      /\ cxtTree[c].locID = (c - p) % LocMod
      /\ cxtTree[c].recursive <=> cxtTree[c].into \in prog.recursive
NodesRight == \A c \in Nodes \ {0} : NodeRight(c)

OnPath(u) == \E i \in DOMAIN path : path[i] = u

\* How far the traversal of every node is, and the children it has made.
VisitedRight ==
  \A u \in Nodes :
    /\ visited[u] \in 0 .. Len(Body(u))
    /\ cxtTree[u].recursive => visited[u] = 0
    /\ ~ cxtTree[u].recursive /\ ~ OnPath(u) => visited[u] = Len(Body(u))
    /\ \A i \in 1 .. visited[u] : \E c \in Nodes \ {0} :
         cxtTree[c].parent = u /\ EdgeOf(c) = Body(u)[i]

\* The path leads from parents to the children being traversed, whose
\* traversals nest.
PathRight ==
  /\ path[1] = 0
  /\ \A i \in DOMAIN path : path[i] \in Nodes /\ ~ cxtTree[path[i]].recursive
  /\ \A i, j \in DOMAIN path :
       i < j => path[i] < path[j] /\ EndOf(path[j]) <= EndOf(path[i])
  /\ \A i \in DOMAIN path : i < Len(path) =>
       /\ visited[path[i]] > 0
       /\ cxtTree[path[i + 1]].parent = path[i]
       /\ MadeFor(path[i + 1], path[i], visited[path[i]])

NextUcID == assignerUcID = cur + NodesBefore(cxtTree[cur].into, visited[cur])

TreeInv ==
  /\ prog \in Programs
  /\ assignerUcID \in Nat \ {0}
  /\ cxtTree \in [Nodes -> Node]
  /\ visited \in [Nodes -> Nat]
  /\ path \in Seq(Nat) /\ path # <<>>
  /\ RootIsMain /\ NodesRight /\ VisitedRight /\ PathRight /\ NextUcID

\* The pass has ended, no assertion stopped it.
Built == status # "building" /\ ~ Stopped

\* Assertions fail only where loops share ids, and the pass ends only at the
\* root's end.
StatusRight ==
  /\ Stopped => ~ OwnLoopIds(prog)
  /\ Built => Len(path) = 1 /\ ~ Pending

\* The tables agree with the tree as long as no assertion has failed.
TablesRight ==
  ~ Stopped => \A u \in Nodes \ {0} : LocOf(EdgeOf(u)) = cxtTree[u].locID

\* The entry of edge e is of e alone.
OwnEntry(e) == ~ IsLoop(e) \/ OwnLoopIds(prog)

TableTypes ==
  /\ locIdOf_callSite \in [Sites -> 0 .. LocMod]
  /\ locIdOf_indCall \in [Sites \X Functions -> 0 .. LocMod]
  /\ locIdOf_loop \in [LoopIds(prog) -> 0 .. LocMod]

TableInv ==
  /\ TableTypes
  /\ \A r \in Regions : \A i \in DOMAIN prog.body[r] :
       OwnEntry(prog.body[r][i]) =>
         LocOf(prog.body[r][i]) \in {Unset, NodesBefore(r, i - 1) % LocMod}
  /\ \A c \in Nodes \ {0} : LocOf(EdgeOf(c)) # Unset

BuilderInv == TreeInv /\ TableInv /\ TablesRight /\ StatusRight

-----------------------------------------------------------------------------
(***************************************************************************)
(* Facts about programs.                                                   *)
(***************************************************************************)
LEMMA EdgeFacts ==
  ASSUME NEW e \in Edges
  PROVE  /\ Place(e) \in Places /\ Place(e) # Main /\ Into(e) \in Regions
         /\ e = <<Place(e), Into(e)>>
         /\ IsLoop(e) => Into(e) \in Loops /\ Place(e) = Into(e) /\ e = <<Into(e), Into(e)>>
         /\ ~ IsLoop(e) => e \in Sites \X Functions /\ Place(e) \in Sites
                           /\ Into(e) \in Functions
BY NamesAssumption DEF Edges, Place, Into, IsLoop, Places, Regions

LEMMA BodyFacts ==
  ASSUME prog \in Programs, NEW r \in Regions
  PROVE  /\ prog.body[r] \in Seq(Edges)
         /\ Len(prog.body[r]) \in Nat
         /\ DOMAIN prog.body[r] = 1 .. Len(prog.body[r])
         /\ \A i \in 1 .. Len(prog.body[r]) : prog.body[r][i] \in Edges
<1>1. prog.body[r] \in Seq(Edges)
  BY ProgramsAssumption DEF Program
<1> QED
  BY <1>1, LenProperties, ElementOfSeq

LEMMA OffsetFacts ==
  ASSUME prog \in Programs, NEW r \in Regions
  PROVE  /\ \A i \in 0 .. Len(prog.body[r]) : NodesBefore(r, i) \in Nat \ {0}
         /\ NodesBefore(r, 0) = 1
         /\ \A i \in 1 .. Len(prog.body[r]) :
              NodesBefore(r, i) = NodesBefore(r, i - 1) + Width(prog, prog.body[r][i])
         /\ \A i, j \in 0 .. Len(prog.body[r]) :
              i <= j => NodesBefore(r, i) <= NodesBefore(r, j)
<1>1. OffsetOf(prog)
  BY OffsetAssumption
<1>2. Len(prog.body[r]) \in Nat /\ DOMAIN prog.body[r] = 1 .. Len(prog.body[r])
  BY BodyFacts
<1>3. /\ \A i \in 0 .. Len(prog.body[r]) : NodesBefore(r, i) \in Nat
      /\ NodesBefore(r, 0) = 1
      /\ \A i, j \in 0 .. Len(prog.body[r]) :
           i <= j => NodesBefore(r, i) <= NodesBefore(r, j)
  BY <1>1 DEF OffsetOf, NodesBefore
<1>4. \A i \in 1 .. Len(prog.body[r]) :
        NodesBefore(r, i) = NodesBefore(r, i - 1) + Width(prog, prog.body[r][i])
  BY <1>1, <1>2 DEF OffsetOf, NodesBefore
<1>5. \A i \in 0 .. Len(prog.body[r]) : NodesBefore(r, i) # 0
  BY <1>2, <1>3
<1> QED
  BY <1>3, <1>4, <1>5

\* The place of an edge says which region it is in; the edge says where.
LEMMA PlaceFacts ==
  ASSUME prog \in Programs, NEW r \in Regions, NEW q \in Regions,
         NEW i \in 1 .. Len(prog.body[r]), NEW j \in 1 .. Len(prog.body[q])
  PROVE  /\ prog.body[r][i] = prog.body[q][j] => r = q /\ i = j
         /\ Place(prog.body[r][i]) = Place(prog.body[q][j]) => r = q
<1>1. OnePlaceEach(prog)
  BY ProgramsAssumption
<1>2. i \in DOMAIN prog.body[r] /\ j \in DOMAIN prog.body[q]
  BY BodyFacts
<1> QED
  BY <1>1, <1>2 DEF OnePlaceEach

-----------------------------------------------------------------------------
(***************************************************************************)
(* The node being traversed, and the edge it comes to next.                *)
(***************************************************************************)
LEMMA NodeFacts ==
  ASSUME TreeInv, NEW u \in Nodes
  PROVE  /\ cxtTree[u] \in Node /\ cxtTree[u].into \in Regions /\ u \in Nat
         /\ Body(u) = prog.body[cxtTree[u].into]
         /\ Len(Body(u)) \in Nat
         /\ visited[u] \in 0 .. Len(Body(u)) /\ visited[u] \in Nat
<1>1. cxtTree[u] \in Node /\ u \in Nat
  BY DEF TreeInv, Nodes
<1>2. cxtTree[u].into \in Regions
  BY <1>1 DEF Node
<1> QED
  BY <1>1, <1>2, BodyFacts DEF TreeInv, VisitedRight, Body

LEMMA EndFacts ==
  ASSUME TreeInv, NEW u \in Nodes
  PROVE  EndOf(u) \in Nat
<1>1. /\ cxtTree[u].into \in Regions /\ u \in Nat
      /\ Len(Body(u)) \in 0 .. Len(prog.body[cxtTree[u].into])
  BY NodeFacts
<1>2. NodesBefore(cxtTree[u].into, Len(Body(u))) \in Nat
  BY <1>1, OffsetFacts DEF TreeInv
<1> QED
  BY <1>1, <1>2 DEF EndOf

LEMMA CurFacts ==
  ASSUME TreeInv
  PROVE  /\ Len(path) \in Nat \ {0} /\ DOMAIN path = 1 .. Len(path)
         /\ \A i \in 1 .. Len(path) : path[i] \in Nodes /\ path[i] \in Nat
         /\ Len(path) \in DOMAIN path /\ cur \in Nodes /\ ~ cxtTree[cur].recursive
         /\ \A i \in 1 .. Len(path) : i < Len(path) => path[i] # cur /\ path[i] < cur
<1>1. Len(path) \in Nat \ {0} /\ DOMAIN path = 1 .. Len(path)
  BY EmptySeq, LenProperties DEF TreeInv
<1>2. \A i \in 1 .. Len(path) : path[i] \in Nodes /\ path[i] \in Nat
  BY <1>1 DEF TreeInv, PathRight, Nodes
<1>3. Len(path) \in DOMAIN path /\ cur \in Nodes /\ ~ cxtTree[cur].recursive
  BY <1>1, <1>2 DEF TreeInv, PathRight, cur
<1>4. ASSUME NEW i \in 1 .. Len(path), i < Len(path)
      PROVE  path[i] # cur /\ path[i] < cur
  <2>1. path[i] < cur
    BY <1>1, <1>3, <1>4 DEF TreeInv, PathRight, cur
  <2> QED
    BY <1>2, <1>3, <2>1 DEF Nodes
<1> QED
  BY <1>1, <1>2, <1>3, <1>4

\* The node the pass makes for the edge it comes to.
NewNode == NodeOf(NextEdge, cur)
CurRegion == cxtTree[cur].into

LEMMA NextFacts ==
  ASSUME TreeInv, Pending
  PROVE  /\ CurRegion \in Regions
         /\ visited[cur] \in Nat /\ visited[cur] + 1 \in 1 .. Len(prog.body[CurRegion])
         /\ NextEdge = prog.body[CurRegion][visited[cur] + 1]
         /\ NextEdge \in Edges
         /\ Width(prog, NextEdge) = NodesBefore(CurRegion, visited[cur] + 1)
                                    - NodesBefore(CurRegion, visited[cur])
         /\ Width(prog, NextEdge) \in Int
         /\ assignerUcID \in Nat \ {0} /\ cur \in 0 .. assignerUcID - 1
         /\ assignerUcID = cur + NodesBefore(CurRegion, visited[cur])
<1>1. /\ cur \in Nodes /\ CurRegion \in Regions /\ Body(cur) = prog.body[CurRegion]
      /\ visited[cur] \in Nat
  BY CurFacts, NodeFacts DEF CurRegion
<1>2. prog \in Programs
  BY DEF TreeInv
<1>3. Len(prog.body[CurRegion]) \in Nat
  BY <1>1, <1>2, BodyFacts
<1>4. visited[cur] + 1 \in 1 .. Len(prog.body[CurRegion])
  BY <1>1, <1>3 DEF Pending
<1>5. NextEdge = prog.body[CurRegion][visited[cur] + 1] /\ NextEdge \in Edges
  BY <1>1, <1>2, <1>4, BodyFacts DEF NextEdge
<1>6. NodesBefore(CurRegion, visited[cur] + 1)
        = NodesBefore(CurRegion, visited[cur]) + Width(prog, NextEdge)
  BY <1>1, <1>2, <1>4, <1>5, OffsetFacts
<1>7. /\ NodesBefore(CurRegion, visited[cur] + 1) \in Nat
      /\ NodesBefore(CurRegion, visited[cur]) \in Nat
  <2>1. visited[cur] \in 0 .. Len(prog.body[CurRegion])
    BY <1>1, <1>3, <1>4
  <2> QED
    BY <1>1, <1>2, <1>3, <1>4, <2>1, OffsetFacts
<1>8. Width(prog, NextEdge) \in Int
  <2>1. Into(NextEdge) \in Regions
    BY <1>5, EdgeFacts
  <2>2. Len(prog.body[Into(NextEdge)]) \in 0 .. Len(prog.body[Into(NextEdge)])
    BY <1>2, <2>1, BodyFacts
  <2>3. Offset[prog][Into(NextEdge)][Len(prog.body[Into(NextEdge)])] \in Nat
    BY <1>2, <2>1, <2>2, OffsetFacts DEF NodesBefore
  <2> QED
    BY <2>3 DEF Width
<1>9. /\ assignerUcID \in Nat \ {0} /\ cur \in 0 .. assignerUcID - 1
      /\ assignerUcID = cur + NodesBefore(CurRegion, visited[cur])
  BY <1>1 DEF TreeInv, NextUcID, CurRegion, Nodes
<1> QED
  BY <1>1, <1>4, <1>5, <1>6, <1>7, <1>8, <1>9

LEMMA NewNodeFacts ==
  ASSUME TreeInv, Pending
  PROVE  /\ NewNode \in Node
         /\ NewNode.place = Place(NextEdge) /\ NewNode.into = Into(NextEdge)
         /\ <<NewNode.place, NewNode.into>> = NextEdge
         /\ NewNode.parent = cur
         /\ NewNode.locID = (assignerUcID - cur) % LocMod
         /\ NewNode.recursive <=> Into(NextEdge) \in prog.recursive
<1>1. (assignerUcID - cur) % LocMod \in LocalID
  BY NextFacts, LocModAssumption DEF LocalID
<1>2. /\ Place(NextEdge) \in Places /\ Into(NextEdge) \in Regions
      /\ NextEdge = <<Place(NextEdge), Into(NextEdge)>>
  BY NextFacts, EdgeFacts
<1>3. cur \in Nat
  BY NextFacts
<1>4. NewNode = [place |-> Place(NextEdge), into |-> Into(NextEdge), parent |-> cur,
                 locID |-> (assignerUcID - cur) % LocMod,
                 recursive |-> Into(NextEdge) \in prog.recursive]
  BY Zenon DEF NewNode, NodeOf
<1>5. NewNode.recursive <=> Into(NextEdge) \in prog.recursive
  BY <1>4, Zenon
<1>7. /\ NewNode.place = Place(NextEdge) /\ NewNode.into = Into(NextEdge)
      /\ NewNode.parent = cur /\ NewNode.locID = (assignerUcID - cur) % LocMod
  BY <1>4, Zenon
<1>8. NewNode \in Node
  <2>1. /\ Place(NextEdge) \in Places \cup {Main} /\ Into(NextEdge) \in Regions /\ cur \in Nat
        /\ (assignerUcID - cur) % LocMod \in LocalID
        /\ (Into(NextEdge) \in prog.recursive) \in BOOLEAN
    BY <1>1, <1>2, <1>3
  <2> QED
    BY <1>4, <2>1, Zenon DEF Node
<1> QED
  BY <1>2, <1>5, <1>7, <1>8

\* The edge of a node is an edge of the program.
LEMMA EdgeOfNode ==
  ASSUME TreeInv, NEW c \in Nodes \ {0}
  PROVE  \E r \in Regions : \E i \in 1 .. Len(prog.body[r]) : EdgeOf(c) = prog.body[r][i]
<1>0. NodeRight(c)
  BY DEF TreeInv, NodesRight
<1>p. PICK p : p = cxtTree[c].parent
  OBVIOUS
<1>1. p \in Nodes
  BY <1>0, <1>p DEF NodeRight, TreeInv, Nodes
<1>2. PICK i \in 1 .. visited[p] : EdgeOf(c) = Body(p)[i]
  BY <1>0, <1>p DEF NodeRight, MadeFor
<1>3. /\ Body(p) = prog.body[cxtTree[p].into] /\ cxtTree[p].into \in Regions
      /\ i \in 1 .. Len(prog.body[cxtTree[p].into])
  BY <1>1, NodeFacts
<1> QED
  BY <1>2, <1>3

\* What Duplicated finds is the edge's place, if loops are told apart by their ids.
LEMMA SamePlace ==
  ASSUME TreeInv, Pending, OwnEntry(NextEdge), Duplicated(NextEdge)
  PROVE  \E i \in DOMAIN path : cxtTree[path[i]].place = Place(NextEdge)
<1>1. PICK e : e = NextEdge
  OBVIOUS
<1>2. e \in Edges
  BY <1>1, NextFacts
<1>3. PICK i \in DOMAIN path :
        IF IsLoop(e) THEN IsLoop(EdgeOf(path[i])) /\ cntxID(EdgeOf(path[i])) = cntxID(e)
                     ELSE Place(EdgeOf(path[i])) = Place(e)
  BY <1>1 DEF Duplicated
<1>4. path[i] \in Nodes /\ Place(EdgeOf(path[i])) = cxtTree[path[i]].place
      /\ Into(EdgeOf(path[i])) = cxtTree[path[i]].into
  BY CurFacts DEF EdgeOf, Place, Into
<1>5. CASE ~ IsLoop(e)
  BY <1>1, <1>3, <1>4, <1>5
<1>6. CASE IsLoop(e)
  <2>1. PICK l : l = cxtTree[path[i]].into
    OBVIOUS
  <2>2. /\ l \in Loops /\ prog.loopIdOf[l] = prog.loopIdOf[Into(e)] /\ Into(e) \in Loops
        /\ OwnLoopIds(prog) /\ Place(e) = Into(e)
    BY <1>1, <1>2, <1>3, <1>4, <1>6, <2>1, EdgeFacts DEF OwnEntry, cntxID, IsLoop
  <2>3. l = Into(e)
    BY <2>2 DEF OwnLoopIds
  <2>4. cxtTree[path[i]].place = l
    <3>1. path[i] # 0
      BY <2>1, <2>2, NamesAssumption DEF TreeInv, RootIsMain
    <3>2. EdgeOf(path[i]) \in Edges
      BY <1>4, <3>1, EdgeOfNode, BodyFacts DEF TreeInv
    <3>3. IsLoop(EdgeOf(path[i]))
      BY <1>3, <1>6
    <3> QED
      BY <1>4, <2>1, <3>2, <3>3, EdgeFacts
  <2> QED
    BY <1>1, <2>2, <2>3, <2>4
<1> QED
  BY <1>5, <1>6

(***************************************************************************)
(* "Duplication occurs" cannot: were the place on the path, its region     *)
(* would be the current one, and the traversal of the current node could   *)
(* not nest in that of an earlier node of the same region.                 *)
(***************************************************************************)
LEMMA NeverDuplicated == TreeInv /\ Pending /\ OwnEntry(NextEdge) => ~ Duplicated(NextEdge)
<1> SUFFICES ASSUME TreeInv, Pending, OwnEntry(NextEdge), Duplicated(NextEdge) PROVE FALSE
  OBVIOUS
<1>0. PICK i \in DOMAIN path : cxtTree[path[i]].place = Place(NextEdge)
  BY SamePlace
<1>1. i \in 1 .. Len(path) /\ Len(path) \in Nat \ {0} /\ DOMAIN path = 1 .. Len(path)
  BY CurFacts
<1>2. NextEdge \in Edges /\ Place(NextEdge) # Main
  BY NextFacts, EdgeFacts
<1>3. CASE i = 1
  BY <1>0, <1>2, <1>3 DEF TreeInv, PathRight, RootIsMain
<1>4. CASE i # 1
  <2> DEFINE p == path[i - 1]
             w == path[i]
             r == cxtTree[p].into
             j == visited[p]
  <2>1. i - 1 \in DOMAIN path /\ i - 1 < Len(path) /\ (i - 1) + 1 = i
    BY <1>1, <1>4
  <2>2. /\ p \in Nodes /\ p < cur /\ r \in Regions /\ Body(p) = prog.body[r]
        /\ j \in 0 .. Len(prog.body[r]) /\ j > 0
        /\ EdgeOf(w) = prog.body[r][j]
    <3>1. p \in Nodes /\ p < cur
      BY <1>1, <2>1, CurFacts
    <3>2. j > 0 /\ EdgeOf(w) = Body(p)[j]
      BY <2>1 DEF TreeInv, PathRight, MadeFor
    <3> QED
      BY <3>1, <3>2, NodeFacts
  <2>3. Place(prog.body[r][j]) = Place(NextEdge)
    <3>1. Place(EdgeOf(w)) = cxtTree[w].place
      BY DEF EdgeOf, Place
    <3> QED
      BY <1>0, <2>2, <3>1
  <2>4. r = CurRegion
    <3>1. j \in 1 .. Len(prog.body[r]) /\ r \in Regions /\ prog \in Programs
      BY <2>2 DEF TreeInv
    <3>2. /\ CurRegion \in Regions /\ visited[cur] + 1 \in 1 .. Len(prog.body[CurRegion])
          /\ NextEdge = prog.body[CurRegion][visited[cur] + 1]
      BY NextFacts
    <3> HIDE DEF r, j
    <3> QED
      BY <2>3, <3>1, <3>2, PlaceFacts
  <2>5. EndOf(cur) <= EndOf(p)
    <3>1. i - 1 \in DOMAIN path /\ Len(path) \in DOMAIN path /\ i - 1 < Len(path)
      BY <2>1, CurFacts
    <3> QED
      BY <3>1 DEF TreeInv, PathRight, cur
  <2>6. /\ Body(cur) = Body(p) /\ Len(Body(p)) \in Nat
        /\ NodesBefore(r, Len(Body(p))) \in Nat
    <3>1. Body(cur) = prog.body[CurRegion] /\ Len(Body(p)) \in 0 .. Len(Body(p))
      BY <2>2, CurFacts, NodeFacts DEF CurRegion
    <3> QED
      BY <2>2, <2>4, <3>1, NodeFacts, OffsetFacts DEF TreeInv
  <2>7. p \in Nat /\ cur \in Nat
    BY <2>2, CurFacts, NodeFacts
  <2> QED
    BY <2>2, <2>4, <2>5, <2>6, <2>7 DEF EndOf, CurRegion
<1> QED
  BY <1>3, <1>4

-----------------------------------------------------------------------------
(***************************************************************************)
(* Adding a node keeps the tree right.                                     *)
(***************************************************************************)
LEMMA AddNodeChanges ==
  ASSUME TreeInv, Pending, AddNode(NewNode), UNCHANGED prog,
         NEW a, a = assignerUcID, NEW x, x = cur
  PROVE  /\ assignerUcID' = a + 1 /\ Nodes' = Nodes \cup {a}
         /\ a \notin Nodes
         /\ cxtTree' \in [Nodes' -> Node] /\ visited' \in [Nodes' -> Nat]
         /\ cxtTree'[a] = NewNode /\ visited'[a] = 0
         /\ visited'[x] = visited[x] + 1
         /\ \A u \in Nodes : /\ cxtTree'[u] = cxtTree[u]
                             /\ u # x => visited'[u] = visited[u]
                             /\ EdgeOf(u)' = EdgeOf(u) /\ Body(u)' = Body(u)
                             /\ EndOf(u)' = EndOf(u)
         /\ \A r, i : NodesBefore(r, i)' = NodesBefore(r, i)
         /\ EdgeOf(a)' = NextEdge
         /\ Body(a)' = prog.body[Into(NextEdge)]
<1>1. /\ a \in Nat \ {0} /\ x \in Nodes /\ visited[x] \in Nat
      /\ visited \in [Nodes -> Nat] /\ cxtTree \in [Nodes -> Node]
      /\ Nodes = 0 .. a - 1
  BY NextFacts, CurFacts DEF TreeInv, Nodes
<1>2. assignerUcID' = a + 1
  BY DEF AddNode
<1>3. Nodes' = Nodes \cup {a} /\ a \notin Nodes /\ Nodes' = 0 .. a
  BY <1>1, <1>2 DEF Nodes
<1>4. cxtTree' = [u \in Nodes' |-> IF u = a THEN NewNode ELSE cxtTree[u]]
  BY <1>3 DEF AddNode
<1>5. visited' = [u \in Nodes' |-> IF u = a THEN 0
                                   ELSE IF u = x THEN visited[u] + 1 ELSE visited[u]]
  BY <1>3 DEF AddNode
<1>6. cxtTree' \in [Nodes' -> Node] /\ visited' \in [Nodes' -> Nat]
  BY <1>1, <1>3, <1>4, <1>5, NewNodeFacts
<1>7. /\ cxtTree'[a] = NewNode /\ visited'[a] = 0
      /\ visited'[x] = visited[x] + 1
      /\ \A u \in Nodes : /\ cxtTree'[u] = cxtTree[u]
                          /\ u # x => visited'[u] = visited[u]
  BY <1>1, <1>3, <1>4, <1>5
<1>8. \A r, i : NodesBefore(r, i)' = NodesBefore(r, i)
  BY DEF NodesBefore
<1>9. \A u \in Nodes : EdgeOf(u)' = EdgeOf(u) /\ Body(u)' = Body(u) /\ EndOf(u)' = EndOf(u)
  BY <1>7, <1>8 DEF EdgeOf, Body, EndOf
<1>10. EdgeOf(a)' = NextEdge /\ Body(a)' = prog.body[Into(NextEdge)]
  BY <1>7, NewNodeFacts DEF EdgeOf, Body
<1> QED
  BY <1>2, <1>3, <1>6, <1>7, <1>8, <1>9, <1>10

LEMMA AddNodeRight ==
  ASSUME TreeInv, Pending, AddNode(NewNode), UNCHANGED prog,
         NEW a, a = assignerUcID, NEW x, x = cur
  PROVE  (RootIsMain /\ NodesRight)'
<1>1. /\ a \in Nat \ {0} /\ x \in Nodes /\ 0 \in Nodes /\ Nodes = 0 .. a - 1
  BY NextFacts, CurFacts DEF TreeInv, Nodes
<1>2. RootIsMain'
  BY <1>1, AddNodeChanges DEF TreeInv, RootIsMain
<1>3. ASSUME NEW c \in Nodes \ {0}
      PROVE  NodeRight(c)'
  <2> DEFINE p == cxtTree[c].parent
  <2>1. p \in 0 .. c - 1 /\ p \in Nodes /\ c \in Nodes
    BY <1>1 DEF TreeInv, NodesRight, NodeRight
  <2>2. PICK i \in 1 .. visited[p] : MadeFor(c, p, i)
    BY DEF TreeInv, NodesRight, NodeRight
  <2>3. i \in 1 .. visited'[p]
    <3>1. visited[p] \in Nat /\ (visited'[p] = visited[p] \/ visited'[p] = visited[p] + 1)
      BY <2>1, AddNodeChanges, NodeFacts
    <3> QED
      BY <2>2, <3>1
  <2>4. MadeFor(c, p, i)'
    BY <2>1, <2>2, AddNodeChanges DEF MadeFor
  <2>5. cxtTree'[c] = cxtTree[c] /\ cxtTree'[p] = cxtTree[p]
    BY <2>1, AddNodeChanges
  <2> QED
    BY <2>1, <2>3, <2>4, <2>5 DEF TreeInv, NodesRight, NodeRight
<1>4. NodeRight(a)'
  <2>1. cxtTree'[a] = NewNode /\ cxtTree'[x] = cxtTree[x]
    BY <1>1, AddNodeChanges
  <2>2. /\ x \in 0 .. a - 1 /\ ~ cxtTree'[x].recursive
        /\ NewNode.parent = x /\ NewNode.locID = (a - x) % LocMod
        /\ NewNode.recursive <=> NewNode.into \in prog'.recursive
    BY <1>1, <2>1, CurFacts, NewNodeFacts
  <2>3. PICK k \in Nat : k = visited[x] + 1
    BY NextFacts
  <2>4. k \in 1 .. visited'[x]
    BY <2>3, NextFacts, AddNodeChanges
  <2>5. MadeFor(a, x, k)'
    <3>1. EdgeOf(a)' = Body(x)'[k]
      BY <1>1, <2>3, AddNodeChanges, NextFacts DEF Body, CurRegion
    <3>2. a = x + NodesBefore(cxtTree[x].into, k - 1)
      BY <2>3, NextFacts DEF CurRegion
    <3> QED
      BY <2>1, <3>1, <3>2, AddNodeChanges DEF MadeFor
  <2>6. cxtTree'[a].parent = x /\ cxtTree'[a].locID = (a - x) % LocMod
        /\ (cxtTree'[a].recursive <=> cxtTree'[a].into \in prog'.recursive)
    BY <2>1, <2>2
  <2> QED
    BY <2>2, <2>4, <2>5, <2>6 DEF NodeRight
<1> QED
  BY <1>2, <1>3, <1>4, AddNodeChanges DEF NodesRight

LEMMA AddNodePath ==
  ASSUME TreeInv, Pending, AddNode(NewNode),
         NEW a, a = assignerUcID
  PROVE  /\ path' \in Seq(Nat) /\ path' # <<>>
         /\ \A i \in 1 .. Len(path) : path'[i] = path[i]
         /\ NewNode.recursive => path' = path
         /\ ~ NewNode.recursive =>
              /\ Len(path') = Len(path) + 1 /\ DOMAIN path' = 1 .. Len(path) + 1
              /\ path'[Len(path) + 1] = a
<1>1. path \in Seq(Nat) /\ path # <<>> /\ a \in Nat
  BY DEF TreeInv
<1>2. CASE NewNode.recursive
  BY <1>1, <1>2 DEF AddNode
<1>3. CASE ~ NewNode.recursive
  <2>1. path' = Append(path, a)
    BY <1>3 DEF AddNode
  <2> QED
    BY <1>1, <1>3, <2>1, AppendProperties, LenProperties
<1> QED
  BY <1>2, <1>3

LEMMA AddNodeVisited ==
  ASSUME TreeInv, Pending, AddNode(NewNode), UNCHANGED prog
  PROVE  VisitedRight'
<1>1. PICK a, x : a = assignerUcID /\ x = cur
  OBVIOUS
<1>2. /\ x \in Nodes /\ ~ cxtTree[x].recursive /\ a \in Nat \ {0}
      /\ Len(path) \in Nat \ {0} /\ DOMAIN path = 1 .. Len(path) /\ path[Len(path)] = x
  BY <1>1, CurFacts DEF cur, TreeInv
<1>3. DOMAIN path \subseteq DOMAIN path'
  BY <1>1, <1>2, AddNodePath
<1>4. \A u : OnPath(u) => OnPath(u)'
  BY <1>1, <1>2, <1>3, AddNodePath DEF OnPath
<1>5. ASSUME NEW u \in Nodes
      PROVE  /\ visited'[u] \in 0 .. Len(Body(u)')
             /\ cxtTree'[u].recursive => visited'[u] = 0
             /\ ~ cxtTree'[u].recursive /\ ~ OnPath(u)' => visited'[u] = Len(Body(u)')
  <2>1. cxtTree'[u] = cxtTree[u] /\ Body(u)' = Body(u)
    BY <1>1, AddNodeChanges
  <2>2. CASE u = x
    <3>1. OnPath(x)
      BY <1>2 DEF OnPath
    <3>2. visited'[x] \in 0 .. Len(Body(x))
      <4>1. Body(x) = prog.body[CurRegion] /\ Len(prog.body[CurRegion]) \in Nat
        BY <1>1, <1>2, NodeFacts DEF CurRegion
      <4> QED
        BY <1>1, <4>1, AddNodeChanges, NextFacts
    <3> QED
      BY <1>2, <1>4, <2>1, <2>2, <3>1, <3>2
  <2>3. CASE u # x
    <3>1. visited'[u] = visited[u]
      BY <1>1, <2>3, AddNodeChanges
    <3> QED
      BY <1>4, <2>1, <3>1 DEF TreeInv, VisitedRight
  <2> QED
    BY <2>2, <2>3
<1>6. ASSUME NEW u \in Nodes, NEW i \in 1 .. visited'[u]
      PROVE  \E c \in Nodes' \ {0} : cxtTree'[c].parent = u /\ EdgeOf(c)' = Body(u)'[i]
  <2>1. CASE i \in 1 .. visited[u]
    <3>1. PICK c \in Nodes \ {0} : cxtTree[c].parent = u /\ EdgeOf(c) = Body(u)[i]
      BY <2>1 DEF TreeInv, VisitedRight
    <3>2. /\ c \in Nodes' \ {0} /\ cxtTree'[c] = cxtTree[c]
          /\ EdgeOf(c)' = EdgeOf(c) /\ Body(u)' = Body(u)
      BY <1>1, AddNodeChanges
    <3> QED
      BY <3>1, <3>2
  <2>2. CASE i \notin 1 .. visited[u]
    <3>1. u = x /\ i = visited[x] + 1
      <4>1. u = x
        BY <1>1, <2>2, AddNodeChanges
      <4>2. visited[x] \in Nat /\ visited'[x] = visited[x] + 1
        BY <1>1, <1>2, NodeFacts, AddNodeChanges
      <4> QED
        BY <2>2, <4>1, <4>2
    <3>2. a \in Nodes' \ {0} /\ cxtTree'[a].parent = x /\ EdgeOf(a)' = NextEdge
      BY <1>1, <1>2, AddNodeChanges, NewNodeFacts
    <3>3. Body(x)'[i] = NextEdge
      BY <1>1, <1>2, <3>1, AddNodeChanges DEF NextEdge
    <3> QED
      BY <3>1, <3>2, <3>3
  <2> QED
    BY <2>1, <2>2
<1>7. /\ visited'[a] = 0 /\ Len(Body(a)') \in Nat
      /\ ~ cxtTree'[a].recursive => OnPath(a)'
  <2>1. Body(a)' = prog.body[Into(NextEdge)] /\ visited'[a] = 0 /\ cxtTree'[a] = NewNode
    BY <1>1, AddNodeChanges
  <2>2. Len(prog.body[Into(NextEdge)]) \in Nat
    BY NextFacts, EdgeFacts, BodyFacts DEF TreeInv
  <2>3. ASSUME ~ NewNode.recursive PROVE OnPath(a)'
    <3>1. Len(path) + 1 \in DOMAIN path' /\ path'[Len(path) + 1] = a
      BY <1>1, <1>2, <2>3, AddNodePath
    <3> QED
      BY <3>1 DEF OnPath
  <2> QED
    BY <2>1, <2>2, <2>3
<1>8. Nodes' = Nodes \cup {a}
  BY <1>1, AddNodeChanges
<1> QED
  BY <1>5, <1>6, <1>7, <1>8 DEF VisitedRight

LEMMA WidthFacts ==
  ASSUME TreeInv, Pending
  PROVE  Width(prog, NextEdge) =
           IF NewNode.recursive THEN 1
           ELSE NodesBefore(Into(NextEdge), Len(prog.body[Into(NextEdge)]))
BY NewNodeFacts DEF Width, NodesBefore

LEMMA AddNodePathRight ==
  ASSUME TreeInv, Pending, AddNode(NewNode), UNCHANGED prog
  PROVE  (PathRight /\ NextUcID)'
<1>1. PICK a, x, n : a = assignerUcID /\ x = cur /\ n = Len(path)
  OBVIOUS
<1>2. PICK k : k = visited[x]
  OBVIOUS
<1>3. /\ x \in Nodes /\ ~ cxtTree[x].recursive /\ a \in Nat \ {0} /\ x < a /\ x \in Nat
      /\ n \in Nat \ {0} /\ DOMAIN path = 1 .. n /\ path[n] = x
      /\ \A i \in 1 .. n : path[i] \in Nodes /\ path[i] \in Nat
      /\ \A i \in 1 .. n : i < n => path[i] # x /\ path[i] < x
  <2>1. x \in Nodes /\ ~ cxtTree[x].recursive /\ n \in Nat \ {0} /\ DOMAIN path = 1 .. n
    BY <1>1, CurFacts
  <2>2. a \in Nat \ {0} /\ x < a /\ x \in Nat
    BY <1>1, NextFacts
  <2>3. path[n] = x
    BY <1>1 DEF cur
  <2>4. /\ \A i \in 1 .. n : path[i] \in Nodes /\ path[i] \in Nat
        /\ \A i \in 1 .. n : i < n => path[i] # x /\ path[i] < x
    BY <1>1, CurFacts
  <2> QED
    BY <2>1, <2>2, <2>3, <2>4
<1>4. \A i \in 1 .. n : path'[i] = path[i]
  BY <1>1, AddNodePath
<1>5. a = x + NodesBefore(CurRegion, k) /\ k \in Nat /\ k + 1 \in 1 .. Len(prog.body[CurRegion])
      /\ Width(prog, NextEdge) = NodesBefore(CurRegion, k + 1) - NodesBefore(CurRegion, k)
      /\ CurRegion = cxtTree[x].into /\ CurRegion \in Regions /\ visited'[x] = k + 1
  BY <1>1, <1>2, NextFacts, AddNodeChanges DEF CurRegion
<1>6. /\ path'[1] = 0
      /\ \A i \in 1 .. n : path'[i] \in Nodes' /\ ~ cxtTree'[path'[i]].recursive
  <2>1. path'[1] = 0 /\ 1 \in 1 .. n
    BY <1>3, <1>4 DEF TreeInv, PathRight
  <2>2. ASSUME NEW i \in 1 .. n
        PROVE  path'[i] \in Nodes' /\ ~ cxtTree'[path'[i]].recursive
    <3>1. PICK u : u = path[i]
      OBVIOUS
    <3>2. u \in Nodes /\ ~ cxtTree[u].recursive /\ path'[i] = u
      BY <1>3, <1>4, <3>1 DEF TreeInv, PathRight
    <3> QED
      BY <1>1, <3>2, AddNodeChanges
  <2> QED
    BY <2>1, <2>2
<1>7. ASSUME NEW i \in 1 .. n, NEW j \in 1 .. n, i < j
      PROVE  path'[i] < path'[j] /\ EndOf(path[j])' <= EndOf(path[i])'
  <2>1. PICK u, v : u = path[i] /\ v = path[j]
    OBVIOUS
  <2>2. u < v /\ EndOf(v) <= EndOf(u)
    BY <1>3, <1>7, <2>1 DEF TreeInv, PathRight
  <2>3. EndOf(v)' = EndOf(v) /\ EndOf(u)' = EndOf(u)
    BY <1>1, <1>3, <2>1, AddNodeChanges
  <2>4. u = path'[i] /\ v = path'[j]
    BY <1>4, <2>1
  <2> QED
    BY <2>2, <2>3, <2>4 DEF EndOf, Body
<1>8. ASSUME NEW i \in 1 .. n, i < n
      PROVE  /\ visited'[path'[i]] > 0
             /\ cxtTree'[path'[i + 1]].parent = path'[i]
             /\ MadeFor(path[i + 1], path[i], visited[path[i]])'
  <2>1. i + 1 \in 1 .. n
    BY <1>3, <1>8
  <2>2. PICK u, v, m : u = path[i] /\ v = path[i + 1] /\ m = visited[u]
    OBVIOUS
  <2>3. u \in Nodes /\ v \in Nodes /\ u # x
    BY <1>3, <1>8, <2>1, <2>2
  <2>4. m > 0 /\ cxtTree[v].parent = u /\ MadeFor(v, u, m)
    BY <1>1, <1>3, <1>8, <2>2 DEF TreeInv, PathRight
  <2>5. visited'[u] = m /\ cxtTree'[v] = cxtTree[v] /\ MadeFor(v, u, m)'
    BY <1>1, <2>2, <2>3, <2>4, AddNodeChanges DEF MadeFor
  <2>6. u = path'[i] /\ v = path'[i + 1]
    BY <1>4, <2>1, <2>2
  <2> QED
    BY <2>4, <2>5, <2>6 DEF MadeFor, EdgeOf, Body
<1>9. CASE NewNode.recursive
  <2>1. path' = path
    BY <1>9, AddNodePath
  <2>2. PathRight'
    BY <1>1, <1>3, <1>6, <1>7, <1>8, <2>1 DEF PathRight
  <2>3. NextUcID'
    <3>1. cur' = x /\ assignerUcID' = a + 1 /\ cxtTree'[x] = cxtTree[x]
      BY <1>1, <1>3, <2>1, AddNodeChanges DEF cur
    <3>2. NodesBefore(cxtTree[x].into, k + 1) = NodesBefore(cxtTree[x].into, k) + 1
      <4>1. k \in 0 .. Len(prog.body[CurRegion]) /\ k + 1 \in 0 .. Len(prog.body[CurRegion])
        <5>1. CurRegion \in Regions /\ k \in Nat /\ k + 1 \in 1 .. Len(prog.body[CurRegion])
          BY <1>5, NextFacts
        <5>2. Len(prog.body[CurRegion]) \in Nat
          BY <5>1, BodyFacts DEF TreeInv
        <5> QED
          BY <5>1, <5>2
      <4>2. NodesBefore(CurRegion, k) \in Nat /\ NodesBefore(CurRegion, k + 1) \in Nat
        BY <1>5, <4>1, OffsetFacts DEF TreeInv
      <4> QED
        BY <1>5, <1>9, <4>2, WidthFacts
    <3>3. a + 1 = x + NodesBefore(cxtTree[x].into, k + 1)
      <4>1. NodesBefore(cxtTree[x].into, k) \in Nat
        <5>1. k \in 0 .. Len(prog.body[CurRegion])
          BY <1>5, NextFacts, BodyFacts DEF TreeInv
        <5> QED
          BY <1>5, <5>1, OffsetFacts DEF TreeInv
      <4> QED
        BY <1>3, <1>5, <3>2, <4>1
    <3> QED
      BY <1>5, <3>1, <3>3 DEF NextUcID, NodesBefore
  <2> QED
    BY <2>2, <2>3
<1>10. CASE ~ NewNode.recursive
  <2>1. /\ Len(path') = n + 1 /\ DOMAIN path' = 1 .. n + 1 /\ path'[n + 1] = a
        /\ path'[n] = x /\ cur' = a
    BY <1>1, <1>3, <1>4, <1>10, AddNodePath DEF cur
  <2>2. /\ cxtTree'[a] = NewNode /\ visited'[a] = 0 /\ EdgeOf(a)' = NextEdge
        /\ a \in Nodes' /\ Body(a)' = prog.body[Into(NextEdge)]
        /\ cxtTree'[x] = cxtTree[x] /\ assignerUcID' = a + 1
    BY <1>1, <1>3, AddNodeChanges
  <2>3. /\ NewNode.parent = x /\ NewNode.into = Into(NextEdge)
        /\ Into(NextEdge) \in Regions
    BY <1>1, NewNodeFacts, NextFacts, EdgeFacts
  <2>4. MadeFor(a, x, k + 1)'
    <3>1. Body(x)'[k + 1] = NextEdge
      BY <1>1, <1>2, <1>3, AddNodeChanges DEF NextEdge
    <3>2. a = x + NodesBefore(cxtTree'[x].into, (k + 1) - 1)
      BY <1>5, <2>2
    <3> QED
      BY <2>2, <3>1, <3>2, AddNodeChanges DEF MadeFor, NodesBefore
  <2>5. EndOf(a)' <= EndOf(x)'
    <3> DEFINE len == Len(prog.body[CurRegion])
    <3>1. /\ len \in Nat /\ k \in 0 .. len /\ k + 1 \in 0 .. len /\ len \in 0 .. len
          /\ k + 1 <= len
      BY <1>5, BodyFacts DEF TreeInv
    <3>2. /\ NodesBefore(CurRegion, k) \in Nat /\ NodesBefore(CurRegion, k + 1) \in Nat
          /\ NodesBefore(CurRegion, len) \in Nat
          /\ NodesBefore(CurRegion, k + 1) <= NodesBefore(CurRegion, len)
      BY <1>5, <3>1, OffsetFacts DEF TreeInv
    <3>3. EndOf(a)' = a + Width(prog, NextEdge)
      BY <1>10, <2>2, <2>3, WidthFacts DEF EndOf, NodesBefore
    <3>4. EndOf(x)' = x + NodesBefore(CurRegion, len)
      BY <1>1, <1>3, <1>5, AddNodeChanges, NodeFacts DEF EndOf
    <3> HIDE DEF len
    <3> QED
      BY <1>3, <1>5, <3>2, <3>3, <3>4
  <2>6. ASSUME NEW i \in 1 .. n
        PROVE  path'[i] < a /\ EndOf(path[n + 1])' <= EndOf(path[i])'
    <3>1. PICK u : u = path[i]
      OBVIOUS
    <3>2. u \in Nodes /\ u \in Nat /\ u < a /\ path'[i] = u
      BY <1>1, <1>3, <1>4, <3>1, NextFacts DEF Nodes
    <3>3. EndOf(x)' <= EndOf(u)'
      <4>1. EndOf(x) <= EndOf(u)
        <5>1. CASE i = n
          BY <1>3, <3>1, <5>1, EndFacts
        <5>2. CASE i # n
          <6>1. i < n /\ i \in DOMAIN path /\ n \in DOMAIN path
            BY <1>3, <5>2
          <6> QED
            BY <1>3, <3>1, <6>1 DEF TreeInv, PathRight
        <5> QED
          BY <5>1, <5>2
      <4> QED
        BY <1>1, <1>3, <3>2, <4>1, AddNodeChanges
    <3>4. EndOf(a)' \in Int /\ EndOf(x)' \in Int /\ EndOf(u)' \in Int
      <4>1. EndOf(x)' = EndOf(x) /\ EndOf(u)' = EndOf(u)
        BY <1>1, <1>3, <3>2, AddNodeChanges
      <4>2. EndOf(a)' = a + Width(prog, NextEdge) /\ Width(prog, NextEdge) \in Int
        BY <1>10, <2>2, <2>3, WidthFacts, NextFacts DEF EndOf, NodesBefore
      <4> QED
        BY <1>3, <3>2, <4>1, <4>2, EndFacts
    <3>5. EndOf(a)' <= EndOf(u)'
      BY <2>5, <3>3, <3>4
    <3> QED
      BY <2>1, <3>2, <3>5 DEF EndOf, Body
  <2>7. PathRight'
    <3>1. ASSUME NEW i \in 1 .. n + 1
          PROVE  path'[i] \in Nodes' /\ ~ cxtTree'[path'[i]].recursive
      <4>1. CASE i = n + 1
        BY <1>10, <2>1, <2>2, <4>1
      <4>2. CASE i # n + 1
        <5>1. i \in 1 .. n
          BY <1>3, <4>2
        <5> QED
          BY <1>6, <5>1
      <4> QED
        BY <4>1, <4>2
    <3>2. ASSUME NEW i \in 1 .. n + 1, NEW j \in 1 .. n + 1, i < j
          PROVE  path'[i] < path'[j] /\ EndOf(path[j])' <= EndOf(path[i])'
      <4>1. i \in 1 .. n
        BY <1>3, <3>2
      <4>2. CASE j = n + 1
        BY <2>1, <2>6, <4>1, <4>2
      <4>3. CASE j # n + 1
        <5>1. j \in 1 .. n
          BY <1>3, <4>3
        <5> QED
          BY <1>7, <3>2, <4>1, <5>1 DEF EndOf, Body
      <4> QED
        BY <4>2, <4>3
    <3>3. ASSUME NEW i \in 1 .. n + 1, i < n + 1
          PROVE  /\ visited'[path'[i]] > 0
                 /\ cxtTree'[path'[i + 1]].parent = path'[i]
                 /\ MadeFor(path[i + 1], path[i], visited[path[i]])'
      <4>1. CASE i < n
        <5>1. i \in 1 .. n
          BY <1>3, <4>1
        <5> QED
          BY <1>8, <4>1, <5>1 DEF MadeFor, EdgeOf, Body
      <4>2. CASE i = n
        <5>1. visited'[x] = k + 1 /\ visited'[x] > 0 /\ cxtTree'[a].parent = x
          BY <1>5, <2>2, <2>3
        <5> QED
          BY <2>1, <2>4, <4>2, <5>1 DEF MadeFor, EdgeOf, Body
      <4> QED
        BY <1>3, <3>3, <4>1, <4>2
    <3> QED
      BY <1>3, <1>6, <2>1, <3>1, <3>2, <3>3 DEF PathRight
  <2>8. NextUcID'
    <3>1. NodesBefore(Into(NextEdge), 0) = 1
      BY <2>3, OffsetFacts DEF TreeInv
    <3> QED
      BY <2>1, <2>2, <2>3, <3>1 DEF NextUcID, NodesBefore
  <2> QED
    BY <2>7, <2>8
<1> QED
  BY <1>9, <1>10

-----------------------------------------------------------------------------
(***************************************************************************)
(* The tables of local ids.                                                *)
(***************************************************************************)
LEMMA NewLocalID ==
  ASSUME TreeInv, Pending
  PROVE  /\ NewNode.locID = NodesBefore(CurRegion, (visited[cur] + 1) - 1) % LocMod
         /\ NewNode.locID \in LocalID
<1>1. NodesBefore(CurRegion, visited[cur]) \in Nat /\ visited[cur] \in Nat /\ cur \in Nat
  <2>1. visited[cur] \in 0 .. Len(prog.body[CurRegion]) /\ CurRegion \in Regions
    BY CurFacts, NodeFacts DEF CurRegion
  <2> QED
    BY <2>1, OffsetFacts, NextFacts DEF TreeInv
<1>2. assignerUcID - cur = NodesBefore(CurRegion, visited[cur])
  BY <1>1, NextFacts
<1>3. NewNode.locID = NodesBefore(CurRegion, visited[cur]) % LocMod
  BY <1>2, NewNodeFacts
<1>4. NewNode.locID \in LocalID
  BY <1>1, <1>3, LocModAssumption DEF LocalID
<1>5. (visited[cur] + 1) - 1 = visited[cur]
  BY <1>1
<1> QED
  BY <1>3, <1>4, <1>5

\* Two edges of the program at one site with one candidate are the same edge.
LEMMA SingleTarget ==
  ASSUME TreeInv, NEW r \in Regions, NEW q \in Regions,
         NEW i \in 1 .. Len(prog.body[r]), NEW j \in 1 .. Len(prog.body[q]),
         ~ IsLoop(prog.body[r][i]), ~ IsLoop(prog.body[q][j]),
         Place(prog.body[r][i]) = Place(prog.body[q][j]),
         ~ MultiTarget(prog, Place(prog.body[r][i]))
  PROVE  prog.body[r][i] = prog.body[q][j]
<1> DEFINE d == prog.body[r][i]
           e == prog.body[q][j]
<1>1. /\ d \in Edges /\ e \in Edges /\ i \in DOMAIN prog.body[r] /\ j \in DOMAIN prog.body[q]
  BY BodyFacts DEF TreeInv
<1>2. d \in EdgesOf(prog, r) /\ e \in EdgesOf(prog, q)
  BY <1>1 DEF EdgesOf
<1>3. /\ d = <<Place(d), Into(d)>> /\ e = <<Place(d), Into(e)>>
      /\ Into(d) \in Functions /\ Into(e) \in Functions
  BY <1>1, EdgeFacts
<1>4. Into(d) \in Candidates(prog, Place(d)) /\ Into(e) \in Candidates(prog, Place(d))
  <2> HIDE DEF d, e
  <2> QED
    BY <1>2, <1>3 DEF Candidates
<1>5. Into(d) = Into(e)
  BY <1>4 DEF MultiTarget
<1> QED
  BY <1>3, <1>5

LEMMA Agreement ==
  ASSUME TreeInv, TableInv, Pending
  PROVE  /\ OwnEntry(NextEdge) => Asserted(NextEdge, NewNode.locID) = "building"
         /\ Asserted(NextEdge, NewNode.locID) = "building" =>
              LocOf(NextEdge) \in {Unset, NewNode.locID}
         /\ Asserted(NextEdge, NewNode.locID) \in
              {"building", "local id mismatch", "duplication"}
<1>1. ASSUME OwnEntry(NextEdge)
      PROVE  LocOf(NextEdge) \in {Unset, NewNode.locID}
  <2>1. /\ CurRegion \in Regions /\ visited[cur] + 1 \in DOMAIN prog.body[CurRegion]
        /\ NextEdge = prog.body[CurRegion][visited[cur] + 1]
    BY NextFacts, BodyFacts DEF TreeInv
  <2> QED
    BY <1>1, <2>1, NewLocalID DEF TableInv
<1>2. OwnEntry(NextEdge) => Agrees(NextEdge, NewNode.locID) /\ ~ Duplicated(NextEdge)
  BY <1>1, NeverDuplicated DEF Agrees, LocOf
<1>3. /\ OwnEntry(NextEdge) => Asserted(NextEdge, NewNode.locID) = "building"
      /\ Asserted(NextEdge, NewNode.locID) = "building" => Agrees(NextEdge, NewNode.locID)
      /\ Asserted(NextEdge, NewNode.locID) \in
           {"building", "local id mismatch", "duplication"}
  BY <1>2 DEF Asserted
<1>4. IsLoop(NextEdge) /\ Agrees(NextEdge, NewNode.locID) =>
        LocOf(NextEdge) \in {Unset, NewNode.locID}
  BY DEF Agrees, LocOf
<1> QED
  BY <1>1, <1>3, <1>4 DEF OwnEntry

\* Only the new edge's entry changes, and only if there was none: with it those of
\* loops with the same id.
LEMMA LocChange ==
  ASSUME TreeInv, TableInv, Pending, UNCHANGED prog,
         MakeNodeOfCallSite \/ MakeNodeOfLoop
  PROVE  /\ locIdOf_callSite' \in [Sites -> 0 .. LocMod]
         /\ locIdOf_indCall' \in [Sites \X Functions -> 0 .. LocMod]
         /\ locIdOf_loop' \in [LoopIds(prog) -> 0 .. LocMod]
         /\ \A e : e = NextEdge =>
              LocOf(e)' = IF LocOf(e) = Unset THEN NewNode.locID ELSE LocOf(e)
         /\ \A r \in Regions : \A i \in 1 .. Len(prog.body[r]) : \A d :
              d = prog.body[r][i] /\ d # NextEdge /\ (OwnEntry(d) \/ LocOf(d) # Unset)
              => LocOf(d)' = LocOf(d)
<1> DEFINE id == NewNode.locID
<1>1. PICK e : e = NextEdge
  OBVIOUS
<1>2. PICK q \in Regions : \E j \in 1 .. Len(prog.body[q]) : e = prog.body[q][j]
  BY <1>1, NextFacts
<1>3. e \in Edges
  BY <1>1, NextFacts
<1>4. /\ id \in 0 .. LocMod /\ IndirectMark \in 0 .. LocMod /\ LocMod \in Nat
  BY NewLocalID, LocModAssumption DEF LocalID, IndirectMark
<1>5. /\ locIdOf_callSite \in [Sites -> 0 .. LocMod]
      /\ locIdOf_indCall \in [Sites \X Functions -> 0 .. LocMod]
      /\ locIdOf_loop \in [LoopIds(prog) -> 0 .. LocMod]
  BY DEF TableInv, TableTypes
<1>6. \A s : MultiTarget(prog, s)' = MultiTarget(prog, s)
  BY DEF MultiTarget, Candidates
<1>7. ASSUME NEW r \in Regions, NEW i \in 1 .. Len(prog.body[r])
      PROVE  prog.body[r][i] \in Edges
  BY BodyFacts DEF TreeInv
<1>8. CASE MakeNodeOfLoop
  <2>0. PICK k : k = cntxID(e)
    OBVIOUS
  <2>1. /\ IsLoop(e) /\ Into(e) \in Loops
        /\ locIdOf_loop' = Insert(locIdOf_loop, k, id)
        /\ UNCHANGED <<locIdOf_callSite, locIdOf_indCall>>
    BY <1>1, <1>3, <1>8, <2>0, EdgeFacts DEF MakeNodeOfLoop, NewNode
  <2>2. /\ locIdOf_loop' \in [LoopIds(prog) -> 0 .. LocMod]
        /\ \A l \in LoopIds(prog) : l # k \/ locIdOf_loop[l] # Unset =>
             locIdOf_loop'[l] = locIdOf_loop[l]
        /\ locIdOf_loop'[k] = IF locIdOf_loop[k] = Unset THEN id ELSE locIdOf_loop[k]
    <3>1. k \in LoopIds(prog)
      BY <2>0, <2>1 DEF LoopIds, cntxID
    <3> HIDE DEF id
    <3> QED
      BY <1>4, <1>5, <2>1, <3>1 DEF Insert
  <2>3. ASSUME NEW r \in Regions, NEW i \in 1 .. Len(prog.body[r]),
               NEW d, d = prog.body[r][i], d # e, OwnEntry(d) \/ LocOf(d) # Unset
        PROVE  LocOf(d)' = LocOf(d)
    <3>1. d \in Edges
      BY <1>7, <2>3
    <3>2. IsLoop(d) => /\ Into(d) \in Loops /\ Into(d) # Into(e)
                       /\ cntxID(d) \in LoopIds(prog) /\ LocOf(d) = locIdOf_loop[cntxID(d)]
      BY <1>3, <2>1, <2>3, <3>1, EdgeFacts DEF LocOf, LoopIds, cntxID
    <3>3. IsLoop(d) /\ OwnEntry(d) => cntxID(d) # k
      BY <2>0, <2>1, <3>2 DEF OwnEntry, OwnLoopIds, cntxID
    <3>4. IsLoop(d) => locIdOf_loop'[cntxID(d)] = locIdOf_loop[cntxID(d)]
      BY <2>2, <2>3, <3>2, <3>3
    <3> QED
      BY <1>6, <2>1, <3>4 DEF LocOf, cntxID
  <2>4. LocOf(e)' = IF LocOf(e) = Unset THEN id ELSE LocOf(e)
    BY <2>0, <2>1, <2>2 DEF LocOf, cntxID
  <2> QED
    BY <1>1, <1>5, <2>1, <2>2, <2>3, <2>4
<1>9. CASE MakeNodeOfCallSite /\ MultiTarget(prog, Place(e))
  <2>1. /\ ~ IsLoop(e) /\ e \in Sites \X Functions /\ Place(e) \in Sites
        /\ locIdOf_callSite' = [locIdOf_callSite EXCEPT ![Place(e)] = IndirectMark]
        /\ locIdOf_indCall' = Insert(locIdOf_indCall, e, id)
        /\ UNCHANGED locIdOf_loop
    BY <1>1, <1>3, <1>9, EdgeFacts DEF MakeNodeOfCallSite, NewNode
  <2>2. /\ locIdOf_callSite' \in [Sites -> 0 .. LocMod]
        /\ \A s \in Sites : s # Place(e) => locIdOf_callSite'[s] = locIdOf_callSite[s]
    BY <1>4, <1>5, <2>1
  <2>3. /\ locIdOf_indCall' \in [Sites \X Functions -> 0 .. LocMod]
        /\ \A d \in Sites \X Functions : d # e => locIdOf_indCall'[d] = locIdOf_indCall[d]
        /\ locIdOf_indCall'[e] = IF locIdOf_indCall[e] = Unset THEN id ELSE locIdOf_indCall[e]
    <3> HIDE DEF id
    <3> QED
      BY <1>4, <1>5, <2>1 DEF Insert
  <2>4. ASSUME NEW r \in Regions, NEW i \in 1 .. Len(prog.body[r]),
               NEW d, d = prog.body[r][i], d # e
        PROVE  LocOf(d)' = LocOf(d)
    <3>1. d \in Edges
      BY <1>7, <2>4
    <3>2. ~ IsLoop(d) => d \in Sites \X Functions /\ Place(d) \in Sites
      BY <3>1, EdgeFacts
    <3> QED
      BY <1>6, <1>9, <2>1, <2>2, <2>3, <2>4, <3>2 DEF LocOf, cntxID
  <2>5. LocOf(e)' = IF LocOf(e) = Unset THEN id ELSE LocOf(e)
    BY <1>6, <1>9, <2>1, <2>3 DEF LocOf
  <2> QED
    BY <1>1, <1>5, <2>1, <2>2, <2>3, <2>4, <2>5
<1>10. CASE MakeNodeOfCallSite /\ ~ MultiTarget(prog, Place(e))
  <2>1. /\ ~ IsLoop(e) /\ Place(e) \in Sites
        /\ locIdOf_callSite' = Insert(locIdOf_callSite, Place(e), id)
        /\ UNCHANGED <<locIdOf_loop, locIdOf_indCall>>
    BY <1>1, <1>3, <1>10, EdgeFacts DEF MakeNodeOfCallSite, NewNode
  <2>2. /\ locIdOf_callSite' \in [Sites -> 0 .. LocMod]
        /\ \A s \in Sites : s # Place(e) => locIdOf_callSite'[s] = locIdOf_callSite[s]
        /\ locIdOf_callSite'[Place(e)] = IF locIdOf_callSite[Place(e)] = Unset THEN id
                                         ELSE locIdOf_callSite[Place(e)]
    <3> HIDE DEF id
    <3> QED
      BY <1>4, <1>5, <2>1 DEF Insert
  <2>3. ASSUME NEW r \in Regions, NEW i \in 1 .. Len(prog.body[r]),
               NEW d, d = prog.body[r][i], d # e
        PROVE  LocOf(d)' = LocOf(d)
    <3>1. d \in Edges
      BY <1>7, <2>3
    <3>2. ~ IsLoop(d) => Place(d) \in Sites
      BY <3>1, EdgeFacts
    <3>3. ~ IsLoop(d) => Place(d) # Place(e)
      BY <1>2, <1>10, <2>1, <2>3, SingleTarget
    <3> QED
      BY <1>6, <2>1, <2>2, <3>2, <3>3 DEF LocOf, cntxID
  <2>4. LocOf(e)' = IF LocOf(e) = Unset THEN id ELSE LocOf(e)
    BY <1>6, <1>10, <2>1, <2>2 DEF LocOf
  <2> QED
    BY <1>1, <1>5, <2>1, <2>2, <2>3, <2>4
<1> QED
  BY <1>8, <1>9, <1>10

LEMMA TableKept ==
  ASSUME TreeInv, TableInv, Pending, UNCHANGED prog, AddNode(NewNode),
         MakeNodeOfCallSite \/ MakeNodeOfLoop
  PROVE  TableInv'
<1>1. PICK e, a, x : e = NextEdge /\ a = assignerUcID /\ x = cur
  OBVIOUS
<1>2. PICK id : id = NewNode.locID
  OBVIOUS
<1>3. /\ LocOf(e)' = IF LocOf(e) = Unset THEN id ELSE LocOf(e)
      /\ id # Unset /\ LocOf(e)' # Unset
  BY <1>1, <1>2, LocChange, NewLocalID, LocModAssumption DEF Unset, LocalID
<1>4. ASSUME NEW r \in Regions, NEW i \in DOMAIN prog.body[r], OwnEntry(prog.body[r][i])
      PROVE  LocOf(prog.body[r][i])' \in {Unset, NodesBefore(r, i - 1)' % LocMod}
  <2>1. PICK d : d = prog.body[r][i]
    OBVIOUS
  <2>2. i \in 1 .. Len(prog.body[r]) /\ LocOf(d) \in {Unset, NodesBefore(r, i - 1) % LocMod}
    BY <1>4, <2>1, BodyFacts DEF TreeInv, TableInv
  <2>3. CASE d = e
    <3>1. r = CurRegion /\ i = visited[cur] + 1
      <4>1. /\ CurRegion \in Regions /\ visited[cur] + 1 \in 1 .. Len(prog.body[CurRegion])
            /\ e = prog.body[CurRegion][visited[cur] + 1] /\ prog \in Programs
        BY <1>1, NextFacts DEF TreeInv
      <4>2. PICK q, k : q = CurRegion /\ k = visited[cur] + 1
        OBVIOUS
      <4>3. /\ q \in Regions /\ k \in 1 .. Len(prog.body[q]) /\ prog.body[r][i] = prog.body[q][k]
        BY <2>1, <2>3, <4>1, <4>2
      <4>4. r = q /\ i = k
        BY <2>2, <4>1, <4>3, PlaceFacts
      <4> QED
        BY <4>2, <4>4
    <3>2. id = NodesBefore(r, i - 1) % LocMod
      BY <1>2, <3>1, NewLocalID
    <3> QED
      BY <1>3, <2>1, <2>2, <2>3, <3>2 DEF LocOf, NodesBefore
  <2>4. CASE d # e
    <3>1. LocOf(d)' = LocOf(d)
      BY <1>1, <1>4, <2>1, <2>2, <2>4, LocChange
    <3> QED
      BY <2>1, <2>2, <3>1 DEF LocOf, NodesBefore
  <2> QED
    BY <2>3, <2>4
<1>5. ASSUME NEW c \in Nodes' \ {0}
      PROVE  LocOf(EdgeOf(c))' # Unset
  <2>1. CASE c = a
    <3>1. EdgeOf(c)' = e
      BY <1>1, <2>1, AddNodeChanges
    <3> QED
      BY <1>3, <3>1 DEF LocOf
  <2>2. CASE c # a
    <3>1. c \in Nodes \ {0} /\ EdgeOf(c)' = EdgeOf(c)
      BY <1>1, <2>2, AddNodeChanges
    <3>2. PICK d : d = EdgeOf(c)
      OBVIOUS
    <3>3. LocOf(d)' # Unset
      <4>1. CASE d = e
        BY <1>3, <4>1
      <4>2. CASE d # e
        <5>1. LocOf(d) # Unset
          BY <3>1, <3>2 DEF TableInv
        <5>2. LocOf(d)' = LocOf(d)
          BY <1>1, <3>1, <3>2, <4>2, <5>1, EdgeOfNode, LocChange
        <5> QED
          BY <5>1, <5>2
      <4> QED
        BY <4>1, <4>2
    <3> QED
      BY <3>1, <3>2, <3>3 DEF LocOf
  <2> QED
    BY <2>1, <2>2
<1>6. \A d : OwnEntry(d)' <=> OwnEntry(d)
  BY DEF OwnEntry, OwnLoopIds
<1> QED
  BY <1>4, <1>5, <1>6, LocChange DEF TableInv, TableTypes, Unset, LoopIds

\* The new node has the local id of its edge's entry, or an assertion has failed.
LEMMA MatchKept ==
  ASSUME TreeInv, TableInv, TablesRight, Pending, UNCHANGED prog, AddNode(NewNode),
         MakeNodeOfCallSite \/ MakeNodeOfLoop
  PROVE  TablesRight'
<1>1. PICK e, a, x : e = NextEdge /\ a = assignerUcID /\ x = cur
  OBVIOUS
<1>2. PICK id : id = NewNode.locID
  OBVIOUS
<1>3. /\ LocOf(e)' = IF LocOf(e) = Unset THEN id ELSE LocOf(e)
  BY <1>1, <1>2, LocChange
<1>4. status = "building" /\ status' = Asserted(NextEdge, NewNode.locID)
  BY DEF MakeNodeOfCallSite, MakeNodeOfLoop, NewNode
<1>5. SUFFICES ASSUME status' = "building", NEW c \in Nodes' \ {0}
               PROVE  LocOf(EdgeOf(c))' = cxtTree'[c].locID
  BY <1>4, Agreement DEF TablesRight, Stopped
<1>6. LocOf(e)' = id
  BY <1>1, <1>2, <1>3, <1>4, <1>5, Agreement
<1>7. CASE c = a
  <2>1. EdgeOf(c)' = e /\ cxtTree'[c] = NewNode
    BY <1>1, <1>7, AddNodeChanges
  <2> QED
    BY <1>2, <1>6, <2>1 DEF LocOf
<1>8. CASE c # a
  <2>1. c \in Nodes \ {0} /\ EdgeOf(c)' = EdgeOf(c) /\ cxtTree'[c] = cxtTree[c]
    BY <1>1, <1>8, AddNodeChanges
  <2>2. PICK d : d = EdgeOf(c)
    OBVIOUS
  <2>3. LocOf(d) = cxtTree[c].locID /\ LocOf(d) # Unset
    BY <1>4, <2>1, <2>2 DEF TablesRight, TableInv, Stopped
  <2>4. LocOf(d)' = LocOf(d)
    <3>1. CASE d = e
      BY <1>3, <2>3, <3>1
    <3>2. CASE d # e
      BY <1>1, <2>1, <2>2, <2>3, <3>2, EdgeOfNode, LocChange
    <3> QED
      BY <3>1, <3>2
  <2> QED
    BY <2>1, <2>2, <2>3, <2>4 DEF LocOf
<1> QED
  BY <1>7, <1>8

-----------------------------------------------------------------------------
(***************************************************************************)
(* Every action keeps the invariant.                                       *)
(***************************************************************************)
LEMMA MakeNodeKeeps ==
  ASSUME BuilderInv, MakeNodeOfCallSite \/ MakeNodeOfLoop
  PROVE  BuilderInv'
<1>1. TreeInv /\ TableInv /\ TablesRight
  BY DEF BuilderInv
<1>2. /\ Pending /\ AddNode(NewNode) /\ UNCHANGED prog
      /\ status' = Asserted(NextEdge, NewNode.locID)
  BY DEF MakeNodeOfCallSite, MakeNodeOfLoop, NewNode
<1>3. /\ status' # "building" => ~ OwnEntry(NextEdge)
      /\ status' \in {"building", "local id mismatch", "duplication"}
  BY <1>1, <1>2, Agreement
<1>4. PICK a, x : a = assignerUcID /\ x = cur
  OBVIOUS
<1>5. /\ assignerUcID' \in Nat \ {0} /\ cxtTree' \in [Nodes' -> Node]
      /\ visited' \in [Nodes' -> Nat]
  BY <1>1, <1>2, <1>4, NextFacts, AddNodeChanges
<1>6. path' \in Seq(Nat) /\ path' # <<>>
  BY <1>1, <1>2, <1>4, AddNodePath
<1>7. (RootIsMain /\ NodesRight)'
  BY <1>1, <1>2, <1>4, AddNodeRight
<1>8. VisitedRight'
  BY <1>1, <1>2, AddNodeVisited
<1>9. (PathRight /\ NextUcID)'
  BY <1>1, <1>2, AddNodePathRight
<1>10. TreeInv'
  BY <1>1, <1>2, <1>5, <1>6, <1>7, <1>8, <1>9 DEF TreeInv
<1>11. TableInv'
  BY <1>1, <1>2, TableKept
<1>12. StatusRight'
  <2>1. ~ Built' /\ (Stopped' => ~ OwnEntry(NextEdge))
    BY <1>3 DEF Built, Stopped
  <2>2. Stopped' => ~ OwnLoopIds(prog)
    BY <2>1 DEF OwnEntry
  <2> QED
    BY <1>2, <2>1, <2>2 DEF StatusRight, OwnLoopIds
<1>13. TablesRight'
  BY <1>1, <1>2, MatchKept
<1> QED
  BY <1>10, <1>11, <1>12, <1>13 DEF BuilderInv

\* The traversal of the last node on the path has ended.
LEMMA ReturnKeeps ==
  ASSUME BuilderInv, ReturnToParent
  PROVE  BuilderInv'
<1>1. PICK n : n = Len(path)
  OBVIOUS
<1>2. PICK x, p : x = path[n] /\ p = path[n - 1]
  OBVIOUS
<1>3. PICK m : m = visited[p]
  OBVIOUS
<1>4. TreeInv /\ TableInv /\ TablesRight /\ x = cur
  BY <1>1, <1>2 DEF BuilderInv, cur
<1>5. /\ n \in Nat /\ n > 1 /\ ~ Pending /\ path' = SubSeq(path, 1, n - 1)
      /\ UNCHANGED <<prog, status, cxtTree, assignerUcID, visited,
                     locIdOf_callSite, locIdOf_indCall, locIdOf_loop>>
  BY <1>1, <1>4, CurFacts DEF ReturnToParent
<1>6. DOMAIN path = 1 .. n /\ \A i \in 1 .. n : path[i] \in Nodes /\ path[i] \in Nat
  BY <1>1, <1>4, CurFacts
<1>7. /\ path' \in Seq(Nat) /\ Len(path') = n - 1 /\ DOMAIN path' = 1 .. n - 1
      /\ path' # <<>> /\ \A i \in 1 .. n - 1 : path'[i] = path[i]
  <2>1. \A i \in 1 .. n - 1 : path[i] \in Nat
    BY <1>5, <1>6
  <2>2. /\ path' \in Seq(Nat) /\ Len(path') = (IF 1 <= n - 1 THEN (n - 1) - 1 + 1 ELSE 0)
        /\ \A i \in 1 .. (n - 1) - 1 + 1 : path'[i] = path[1 + i - 1]
    BY <1>5, <2>1, SubSeqProperties
  <2>3. Len(path') = n - 1 /\ \A i \in 1 .. n - 1 : path'[i] = path[i]
    BY <1>5, <2>2
  <2>4. DOMAIN path' = 1 .. n - 1
    BY <2>2, <2>3, LenProperties
  <2>5. path' # <<>>
    <3>1. Len(path') # 0
      BY <1>5, <2>3
    <3> QED
      BY <3>1
  <2> QED
    BY <2>2, <2>3, <2>4, <2>5
<1>8. Nodes' = Nodes
  BY <1>5 DEF Nodes
<1>9. /\ \A u : Body(u)' = Body(u) /\ EdgeOf(u)' = EdgeOf(u) /\ EndOf(u)' = EndOf(u)
      /\ \A u, v, i : MadeFor(u, v, i)' = MadeFor(u, v, i)
  BY <1>5 DEF Body, EdgeOf, EndOf, MadeFor, NodesBefore
<1>10. (RootIsMain /\ NodesRight)'
  BY <1>4, <1>5, <1>8, <1>9 DEF TreeInv, RootIsMain, NodesRight, NodeRight
<1>11. VisitedRight'
  <2>1. ASSUME NEW u \in Nodes, ~ cxtTree[u].recursive, ~ OnPath(u)'
        PROVE  visited[u] = Len(Body(u))
    <3>1. CASE u = x
      BY <1>4, <1>5, <3>1, NodeFacts DEF Pending
    <3>2. CASE u # x
      <4>1. ~ OnPath(u)
        <5>1. ASSUME NEW i \in 1 .. n PROVE path[i] # u
          <6>1. CASE i = n
            BY <1>2, <3>2, <6>1
          <6>2. CASE i # n
            <7>1. i \in 1 .. n - 1
              BY <1>5, <6>2
            <7> QED
              BY <1>7, <2>1, <7>1 DEF OnPath
          <6> QED
            BY <6>1, <6>2
        <5> QED
          BY <1>6, <5>1 DEF OnPath
      <4> QED
        BY <1>4, <2>1, <4>1 DEF TreeInv, VisitedRight
    <3> QED
      BY <3>1, <3>2
  <2>2. ASSUME NEW u \in Nodes
        PROVE  /\ visited[u] \in 0 .. Len(Body(u))
               /\ cxtTree[u].recursive => visited[u] = 0
               /\ \A i \in 1 .. visited[u] : \E c \in Nodes \ {0} :
                    cxtTree[c].parent = u /\ EdgeOf(c) = Body(u)[i]
    BY <1>4 DEF TreeInv, VisitedRight
  <2> QED
    BY <1>5, <1>8, <1>9, <2>1, <2>2 DEF VisitedRight
<1>12. PathRight'
  <2>1. \A i \in 1 .. n - 1 : i \in DOMAIN path /\ i + 1 \in DOMAIN path /\ i < Len(path)
    BY <1>1, <1>5, <1>6
  <2>2. path'[1] = 0
    BY <1>4, <1>5, <1>7 DEF TreeInv, PathRight
  <2>3. \A i \in 1 .. n - 1 : path[i] \in Nodes /\ ~ cxtTree[path[i]].recursive
    BY <1>4, <2>1 DEF TreeInv, PathRight
  <2>4. \A i, j \in 1 .. n - 1 :
          i < j => path[i] < path[j] /\ EndOf(path[j]) <= EndOf(path[i])
    BY <1>4, <2>1 DEF TreeInv, PathRight
  <2>5. ASSUME NEW i \in 1 .. n - 1, NEW j \in 1 .. n - 1, i < j
        PROVE  EndOf(path[j])' <= EndOf(path[i])'
    <3>1. PICK u, v : u = path[i] /\ v = path[j]
      OBVIOUS
    <3>2. EndOf(v)' <= EndOf(u)'
      BY <1>9, <2>4, <2>5, <3>1
    <3> QED
      BY <1>7, <3>1, <3>2 DEF EndOf, Body
  <2>6. ASSUME NEW i \in 1 .. n - 1, i < n - 1
        PROVE  /\ visited[path[i]] > 0
               /\ cxtTree[path[i + 1]].parent = path[i]
               /\ MadeFor(path[i + 1], path[i], visited[path[i]])'
    <3>1. PICK u, v, k : u = path[i] /\ v = path[i + 1] /\ k = visited[u]
      OBVIOUS
    <3>2. k > 0 /\ cxtTree[v].parent = u /\ MadeFor(v, u, k)
      BY <1>4, <2>1, <3>1 DEF TreeInv, PathRight
    <3>3. MadeFor(v, u, k)' /\ i + 1 \in 1 .. n - 1
      BY <1>5, <1>9, <2>6, <3>2
    <3> QED
      BY <1>5, <1>7, <3>1, <3>2, <3>3 DEF MadeFor, EdgeOf, Body
  <2>7. \A i \in 1 .. n - 1 : path'[i] \in Nodes' /\ ~ cxtTree'[path'[i]].recursive
    BY <1>5, <1>7, <1>8, <2>3
  <2>8. \A i, j \in 1 .. n - 1 : i < j => path'[i] < path'[j]
    BY <1>7, <2>4
  <2>9. ASSUME NEW i \in 1 .. n - 1, i < n - 1
        PROVE  /\ visited'[path'[i]] > 0 /\ cxtTree'[path'[i + 1]].parent = path'[i]
    <3>1. i + 1 \in 1 .. n - 1
      BY <1>5, <2>9
    <3> QED
      BY <1>5, <1>7, <2>6, <2>9, <3>1
  <2>10. /\ \A i \in DOMAIN path' : path'[i] \in Nodes' /\ ~ cxtTree'[path'[i]].recursive
         /\ \A i \in DOMAIN path' : i < Len(path') =>
              /\ visited'[path'[i]] > 0 /\ cxtTree'[path'[i + 1]].parent = path'[i]
              /\ MadeFor(path[i + 1], path[i], visited[path[i]])'
    BY <1>7, <2>6, <2>7, <2>9 DEF MadeFor, EdgeOf, Body
  <2>11. \A i, j \in DOMAIN path' :
           i < j => path'[i] < path'[j] /\ EndOf(path[j])' <= EndOf(path[i])'
    BY <1>7, <2>5, <2>8 DEF EndOf, Body
  <2> QED
    BY <2>2, <2>10, <2>11 DEF PathRight, MadeFor, EdgeOf, EndOf, Body
<1>13. NextUcID'
  <2> DEFINE r == cxtTree[p].into
  <2>1. /\ n - 1 \in 1 .. n - 1 /\ n - 1 \in DOMAIN path /\ n - 1 < Len(path)
        /\ (n - 1) + 1 = n
    BY <1>1, <1>5, <1>6
  <2>2. m > 0 /\ MadeFor(x, p, m) /\ cur' = p
    BY <1>2, <1>3, <1>4, <1>7, <2>1 DEF TreeInv, PathRight, cur
  <2>3. /\ p \in Nodes /\ r \in Regions /\ p \in Nat /\ Body(p) = prog.body[r]
        /\ m \in 1 .. Len(prog.body[r])
    BY <1>2, <1>3, <1>4, <1>6, <2>1, <2>2, NodeFacts
  <2>4. /\ x \in Nodes \ {0} /\ ~ cxtTree[x].recursive /\ x \in Nat
        /\ Body(x) = prog.body[cxtTree[x].into] /\ cxtTree[x].into \in Regions
        /\ visited[x] = Len(Body(x))
    <3>1. x \in Nodes /\ ~ cxtTree[x].recursive /\ p < x
      BY <1>1, <1>2, <1>4, <2>1, CurFacts
    <3>2. visited[x] = Len(Body(x)) /\ Body(x) = prog.body[cxtTree[x].into]
          /\ x \in Nat /\ cxtTree[x].into \in Regions
      BY <1>4, <1>5, <3>1, NodeFacts DEF Pending
    <3> QED
      BY <2>3, <3>1, <3>2
  <2>5. prog.body[r][m] = EdgeOf(x) /\ x = p + NodesBefore(r, m - 1)
    BY <2>2, <2>3 DEF MadeFor
  <2>6. Width(prog, EdgeOf(x)) = NodesBefore(cxtTree[x].into, Len(Body(x)))
    <3>1. cxtTree[x].into \notin prog.recursive
      BY <1>4, <2>4 DEF TreeInv, NodesRight, NodeRight
    <3>2. Into(EdgeOf(x)) = cxtTree[x].into
      BY DEF Into, EdgeOf
    <3> QED
      BY <2>4, <3>1, <3>2 DEF Width, NodesBefore
  <2>7. NodesBefore(r, m) = NodesBefore(r, m - 1) + NodesBefore(cxtTree[x].into, Len(Body(x)))
    BY <1>4, <2>3, <2>5, <2>6, OffsetFacts DEF TreeInv
  <2>8. assignerUcID = x + NodesBefore(cxtTree[x].into, Len(Body(x)))
    BY <1>4, <2>4 DEF TreeInv, NextUcID
  <2>9. NodesBefore(r, m - 1) \in Nat /\ NodesBefore(cxtTree[x].into, Len(Body(x))) \in Nat
    <3>1. m - 1 \in 0 .. Len(prog.body[r]) /\ Len(Body(x)) \in 0 .. Len(Body(x))
      BY <1>4, <2>3, <2>4, BodyFacts DEF TreeInv
    <3> QED
      BY <1>4, <2>3, <2>4, <3>1, OffsetFacts DEF TreeInv
  <2>10. assignerUcID = p + NodesBefore(r, m)
    <3> HIDE DEF r
    <3> QED
      BY <2>3, <2>4, <2>5, <2>7, <2>8, <2>9
  <2> QED
    BY <1>3, <1>5, <2>2, <2>10 DEF NextUcID, NodesBefore
<1>14. TableInv'
  <2>1. \A e : LocOf(e)' = LocOf(e) /\ (OwnEntry(e)' <=> OwnEntry(e))
    BY <1>5 DEF LocOf, MultiTarget, Candidates, cntxID, OwnEntry, OwnLoopIds
  <2>2. \A r, i : NodesBefore(r, i)' = NodesBefore(r, i)
    BY <1>5 DEF NodesBefore
  <2>3. ASSUME NEW c \in Nodes \ {0}
        PROVE  LocOf(EdgeOf(c))' # Unset
    <3>1. PICK e : e = EdgeOf(c)
      OBVIOUS
    <3>2. LocOf(e)' # Unset /\ EdgeOf(c)' = e
      BY <1>4, <1>9, <2>1, <3>1 DEF TableInv
    <3> QED
      BY <3>2 DEF LocOf
  <2>4. ASSUME NEW r \in Regions, NEW i \in DOMAIN prog.body[r], OwnEntry(prog.body[r][i])'
        PROVE  LocOf(prog.body[r][i])' \in {Unset, NodesBefore(r, i - 1)' % LocMod}
    <3>1. PICK e : e = prog.body[r][i]
      OBVIOUS
    <3>2. LocOf(e)' \in {Unset, NodesBefore(r, i - 1) % LocMod} /\ prog'.body[r][i] = e
      BY <1>4, <1>5, <2>1, <2>4, <3>1 DEF TableInv
    <3> QED
      BY <2>2, <3>2 DEF LocOf
  <2> QED
    BY <1>4, <1>5, <1>8, <2>3, <2>4 DEF TableInv, TableTypes, LoopIds, Unset
<1>15. TreeInv'
  BY <1>4, <1>5, <1>7, <1>8, <1>10, <1>11, <1>12, <1>13 DEF TreeInv
<1>16. StatusRight'
  BY <1>5 DEF StatusRight, ReturnToParent, Stopped, Built
<1>17. TablesRight'
  <2>1. ASSUME NEW c \in Nodes \ {0}, ~ Stopped
        PROVE  LocOf(EdgeOf(c))' = cxtTree'[c].locID
    <3>1. PICK e : e = EdgeOf(c)
      OBVIOUS
    <3>2. LocOf(e)' = LocOf(e) /\ EdgeOf(c)' = e
      BY <1>5, <1>9, <3>1 DEF LocOf, MultiTarget, Candidates, cntxID
    <3>3. LocOf(e) = cxtTree'[c].locID
      BY <1>4, <1>5, <2>1, <3>1 DEF TablesRight
    <3> QED
      BY <3>2, <3>3 DEF LocOf
  <2> QED
    BY <1>5, <1>8, <2>1 DEF TablesRight, Stopped
<1> QED
  BY <1>14, <1>15, <1>16, <1>17 DEF BuilderInv

\* Nothing of the tree or the traversal changes, only the status.
LEMMA StatusKeeps ==
  ASSUME TreeInv, TableInv, TablesRight, StatusRight', Stopped => Stopped',
         UNCHANGED <<prog, cxtTree, assignerUcID, path, visited,
                     locIdOf_callSite, locIdOf_indCall, locIdOf_loop>>
  PROVE  BuilderInv'
<1>1. UNCHANGED <<prog, cxtTree, assignerUcID, path, visited,
                  locIdOf_callSite, locIdOf_indCall, locIdOf_loop>>
  OBVIOUS
<1>2. Nodes' = Nodes /\ cur' = cur
  BY <1>1 DEF Nodes, cur
<1>3. /\ \A u : Body(u)' = Body(u) /\ EdgeOf(u)' = EdgeOf(u) /\ EndOf(u)' = EndOf(u)
      /\ \A u, v, i : MadeFor(u, v, i)' = MadeFor(u, v, i)
      /\ \A r, i : NodesBefore(r, i)' = NodesBefore(r, i)
      /\ \A u : OnPath(u)' = OnPath(u)
  BY <1>1 DEF Body, EdgeOf, EndOf, MadeFor, NodesBefore, OnPath
<1>4. \A e : LocOf(e)' = LocOf(e) /\ (OwnEntry(e)' <=> OwnEntry(e))
  BY <1>1 DEF LocOf, MultiTarget, Candidates, cntxID, OwnEntry, OwnLoopIds
<1>5. (RootIsMain /\ NodesRight)'
  BY <1>1, <1>2, <1>3 DEF TreeInv, RootIsMain, NodesRight, NodeRight
<1>6. VisitedRight'
  <2>1. ASSUME NEW u \in Nodes
        PROVE  /\ visited[u] \in 0 .. Len(Body(u))
               /\ cxtTree[u].recursive => visited[u] = 0
               /\ ~ cxtTree[u].recursive /\ ~ OnPath(u)' => visited[u] = Len(Body(u))
               /\ \A i \in 1 .. visited[u] : \E c \in Nodes \ {0} :
                    cxtTree[c].parent = u /\ EdgeOf(c) = Body(u)[i]
    BY <1>1 DEF TreeInv, VisitedRight, OnPath
  <2> QED
    BY <1>1, <1>2, <1>3, <2>1 DEF VisitedRight
<1>7. PathRight'
  BY <1>1, <1>2 DEF TreeInv, PathRight, EndOf, Body, MadeFor, EdgeOf, NodesBefore
<1>8. NextUcID'
  BY <1>1, <1>2 DEF TreeInv, NextUcID, NodesBefore
<1>9. TableInv'
  <2>1. ASSUME NEW c \in Nodes \ {0}
        PROVE  LocOf(EdgeOf(c))' # Unset
    <3>1. PICK e : e = EdgeOf(c)
      OBVIOUS
    <3>2. LocOf(e)' # Unset /\ EdgeOf(c)' = e
      BY <1>3, <1>4, <3>1 DEF TableInv
    <3> QED
      BY <3>2 DEF LocOf
  <2>2. ASSUME NEW r \in Regions, NEW i \in DOMAIN prog.body[r], OwnEntry(prog.body[r][i])'
        PROVE  LocOf(prog.body[r][i])' \in {Unset, NodesBefore(r, i - 1)' % LocMod}
    <3>1. PICK e : e = prog.body[r][i]
      OBVIOUS
    <3>2. LocOf(e)' \in {Unset, NodesBefore(r, i - 1) % LocMod} /\ prog'.body[r][i] = e
      BY <1>1, <1>4, <2>2, <3>1 DEF TableInv
    <3> QED
      BY <1>3, <3>2 DEF LocOf
  <2> QED
    BY <1>1, <1>2, <2>1, <2>2 DEF TableInv, TableTypes, LoopIds, Unset
<1>10. TablesRight'
  <2>1. ASSUME NEW c \in Nodes \ {0}, ~ Stopped
        PROVE  LocOf(EdgeOf(c))' = cxtTree'[c].locID
    <3>1. PICK e : e = EdgeOf(c)
      OBVIOUS
    <3>2. LocOf(e)' = LocOf(e) /\ EdgeOf(c)' = e
      BY <1>3, <1>4, <3>1
    <3>3. LocOf(e) = cxtTree'[c].locID
      BY <1>1, <2>1, <3>1 DEF TablesRight
    <3> QED
      BY <3>2, <3>3 DEF LocOf
  <2> QED
    BY <1>2, <2>1 DEF TablesRight
<1> QED
  BY <1>1, <1>2, <1>5, <1>6, <1>7, <1>8, <1>9, <1>10 DEF BuilderInv, TreeInv

LEMMA BuildStepKeeps == BuilderInv /\ BuildStep => BuilderInv'
<1> SUFFICES ASSUME BuilderInv, BuildStep PROVE BuilderInv'
  OBVIOUS
<1>1. CASE MakeNodeOfCallSite \/ MakeNodeOfLoop
  BY <1>1, MakeNodeKeeps
<1>2. CASE ReturnToParent
  BY <1>2, ReturnKeeps
<1>3. CASE FinishTree
  <2>1. /\ status' = "done" /\ ~ Pending /\ Len(path) = 1
        /\ UNCHANGED <<prog, cxtTree, assignerUcID, path, visited,
                       locIdOf_callSite, locIdOf_indCall, locIdOf_loop>>
    BY <1>3 DEF FinishTree
  <2>2. StatusRight'
    BY <2>1 DEF StatusRight, Stopped, Built, Pending, Body, cur
  <2>3. ~ Stopped
    BY <1>3 DEF FinishTree, Stopped
  <2> QED
    BY <2>1, <2>2, <2>3, StatusKeeps DEF BuilderInv
<1> QED
  BY <1>1, <1>2, <1>3 DEF BuildStep

LEMMA InitEstablishes == Init => BuilderInv
<1> SUFFICES ASSUME Init PROVE BuilderInv
  OBVIOUS
<1>1. /\ prog \in Programs /\ status = "building" /\ assignerUcID = 1
      /\ path = <<0>> /\ Nodes = {0}
  BY DEF Init, Nodes
<1>2. Main \in Regions /\ BOOLEAN = {TRUE, FALSE}
  BY NamesAssumption DEF Regions
<1>3. 0 \in LocalID /\ LocMod \in 0 .. LocMod
  BY LocModAssumption DEF LocalID
<1>4. cxtTree = [u \in {0} |-> [place |-> Main, into |-> Main, parent |-> 0,
                                locID |-> 0, recursive |-> FALSE]]
  BY DEF Init
<1>5. cxtTree \in [Nodes -> Node] /\ RootIsMain
  BY <1>1, <1>2, <1>3, <1>4 DEF Node, RootIsMain
<1>6. visited \in [Nodes -> Nat] /\ visited[0] = 0
  BY <1>1 DEF Init
<1>7. path \in Seq(Nat) /\ path # <<>> /\ Len(path) = 1 /\ DOMAIN path = {1} /\ path[1] = 0
      /\ cur = 0
  BY <1>1 DEF cur
<1>8. Body(0) = prog.body[Main] /\ Len(Body(0)) \in Nat
  BY <1>1, <1>2, <1>5, BodyFacts DEF Body, RootIsMain
<1>9. VisitedRight
  BY <1>1, <1>6, <1>7, <1>8 DEF VisitedRight, OnPath
<1>10. PathRight
  BY <1>1, <1>5, <1>7 DEF PathRight, RootIsMain
<1>11. NextUcID
  BY <1>1, <1>2, <1>5, <1>6, <1>7, OffsetFacts DEF NextUcID, RootIsMain
<1>12. TreeInv
  BY <1>1, <1>5, <1>6, <1>7, <1>9, <1>10, <1>11 DEF TreeInv, NodesRight
<1>13. TableInv
  <2>1. /\ locIdOf_callSite = [s \in Sites |-> LocMod]
        /\ locIdOf_indCall = [e \in Sites \X Functions |-> LocMod]
        /\ locIdOf_loop = [l \in LoopIds(prog) |-> LocMod]
    BY DEF Init, Unset
  <2>2. \A e \in Edges : LocOf(e) = Unset
    BY <2>1, EdgeFacts DEF LocOf, Unset, LoopIds, cntxID
  <2>3. \A r \in Regions : \A i \in DOMAIN prog.body[r] : prog.body[r][i] \in Edges
    BY <1>1, BodyFacts
  <2> QED
    BY <1>1, <1>3, <2>1, <2>2, <2>3 DEF TableInv, TableTypes
<1>14. StatusRight
  BY <1>1 DEF StatusRight, Stopped, Built
<1>15. TablesRight
  BY <1>1 DEF TablesRight
<1> QED
  BY <1>12, <1>13, <1>14, <1>15 DEF BuilderInv

-----------------------------------------------------------------------------
(***************************************************************************)
(* The invariant of the builder, for every program.                        *)
(***************************************************************************)
THEOREM BuilderInvariant == BuilderSpec => [](BuilderInv /\ status \in BuilderStatus)
<1>1. Init => BuilderInv /\ status \in BuilderStatus
  BY InitEstablishes DEF Init, BuilderStatus
<1>2. /\ BuilderInv /\ status \in BuilderStatus
      /\ [BuildStep]_builderVars
      => (BuilderInv /\ status \in BuilderStatus)'
  <2>1. CASE BuildStep /\ BuilderInv /\ status \in BuilderStatus
    <3>1. status' \in BuilderStatus
      BY <2>1
         DEF BuildStep, MakeNodeOfCallSite, MakeNodeOfLoop, ReturnToParent, FinishTree,
             Asserted, BuilderStatus
    <3> QED
      BY <2>1, <3>1, BuildStepKeeps DEF BuilderStatus
  <2>2. CASE UNCHANGED builderVars /\ BuilderInv /\ status \in BuilderStatus
    <3>1. UNCHANGED <<prog, status, cxtTree, assignerUcID, path, visited,
                      locIdOf_callSite, locIdOf_indCall, locIdOf_loop>>
      BY <2>2 DEF builderVars
    <3>2. StatusRight'
      BY <2>2, <3>1 DEF BuilderInv, StatusRight, Stopped, Built, OwnLoopIds, Pending, Body, cur
    <3>3. Stopped => Stopped'
      BY <3>1 DEF Stopped
    <3> QED
      BY <2>2, <3>1, <3>2, <3>3, StatusKeeps DEF BuilderInv, BuilderStatus
  <2> QED
    BY <2>1, <2>2
<1> QED
  BY <1>1, <1>2, PTL DEF BuilderSpec

-----------------------------------------------------------------------------
(***************************************************************************)
(* What the invariant implies.                                             *)
(***************************************************************************)
\* A node, the edge it was made for, and where that edge is.
LEMMA NodeOrigin ==
  ASSUME TreeInv, NEW c \in Nodes \ {0}, NEW p, p = cxtTree[c].parent
  PROVE  /\ c \in Nat /\ p \in Nodes /\ p \in Nat /\ p < c /\ ~ cxtTree[p].recursive
         /\ cxtTree[p].into \in Regions
         /\ Len(prog.body[cxtTree[p].into]) \in Nat
         /\ DOMAIN prog.body[cxtTree[p].into] = 1 .. Len(prog.body[cxtTree[p].into])
         /\ \E i \in 1 .. Len(prog.body[cxtTree[p].into]) :
              /\ EdgeOf(c) = prog.body[cxtTree[p].into][i]
              /\ c = p + NodesBefore(cxtTree[p].into, i - 1)
              /\ NodesBefore(cxtTree[p].into, i - 1) \in Nat
         /\ cxtTree[c].locID = (c - p) % LocMod
<1>1. /\ p \in 0 .. c - 1 /\ ~ cxtTree[p].recursive
      /\ \E i \in 1 .. visited[p] : MadeFor(c, p, i)
      /\ cxtTree[c].locID = (c - p) % LocMod
  BY DEF TreeInv, NodesRight, NodeRight
<1>2. c \in Nat /\ p \in Nodes /\ p \in Nat /\ p < c
  BY <1>1 DEF Nodes, TreeInv
<1>3. PICK r : r = cxtTree[p].into
  OBVIOUS
<1>4. /\ r \in Regions /\ Body(p) = prog.body[r] /\ visited[p] \in 0 .. Len(prog.body[r])
      /\ visited[p] \in Nat
  BY <1>2, <1>3, NodeFacts
<1>5. Len(prog.body[r]) \in Nat /\ DOMAIN prog.body[r] = 1 .. Len(prog.body[r])
  BY <1>4, BodyFacts DEF TreeInv
<1>6. PICK i \in 1 .. visited[p] : MadeFor(c, p, i)
  BY <1>1
<1>7. i \in 1 .. Len(prog.body[r]) /\ i - 1 \in 0 .. Len(prog.body[r])
  BY <1>4, <1>5
<1>8. EdgeOf(c) = prog.body[r][i] /\ c = p + NodesBefore(r, i - 1)
  BY <1>3, <1>4, <1>6 DEF MadeFor
<1>9. NodesBefore(r, i - 1) \in Nat
  BY <1>4, <1>7, OffsetFacts DEF TreeInv
<1> QED
  BY <1>1, <1>2, <1>3, <1>4, <1>5, <1>7, <1>8, <1>9

LEMMA TypesFollow == BuilderInv /\ status \in BuilderStatus => BuilderTypeOK
<1> SUFFICES ASSUME TreeInv, TableInv, status \in BuilderStatus PROVE BuilderTypeOK
  BY DEF BuilderInv
<1>1. prog \in Program
  BY ProgramsAssumption DEF TreeInv
<1>2. path \in Seq(Nodes) /\ path # <<>>
  <2>1. path \in Seq(Nat) /\ \A i \in 1 .. Len(path) : path[i] \in Nodes
    BY CurFacts DEF TreeInv
  <2> QED
    BY <2>1, SeqDef, LenProperties DEF TreeInv
<1> QED
  BY <1>1, <1>2 DEF BuilderTypeOK, TreeTypeOK, TreeInv, TableInv, TableTypes

(***************************************************************************)
(* "parent context id = context id - local id" (README.md): getParentUCID  *)
(* indexes cxtTree with this difference.                                   *)
(***************************************************************************)
ParentByArithmetic ==
  \A u \in Nodes : u - cxtTree[u].locID = cxtTree[u].parent

\* A node's parent is its ucID minus its local id as long as the tree has no more
\* nodes than there are local ids: 65536 in the code.
LEMMA ParentFollows == BuilderInv => (assignerUcID <= LocMod => ParentByArithmetic)
<1> SUFFICES ASSUME TreeInv, assignerUcID <= LocMod, NEW u \in Nodes
             PROVE  u - cxtTree[u].locID = cxtTree[u].parent
  BY DEF BuilderInv, ParentByArithmetic
<1>1. CASE u = 0
  BY <1>1 DEF TreeInv, RootIsMain
<1>2. CASE u # 0
  <2>1. PICK p : p = cxtTree[u].parent
    OBVIOUS
  <2>2. /\ u \in Nat /\ p \in Nat /\ p < u /\ u < assignerUcID /\ assignerUcID \in Nat
        /\ cxtTree[u].locID = (u - p) % LocMod
    BY <1>2, <2>1, NodeOrigin DEF Nodes, TreeInv
  <2>3. u - p \in Nat /\ u - p < LocMod /\ LocMod \in Nat
    BY <2>2, LocModAssumption
  <2>4. (u - p) % LocMod = u - p
    BY <2>3
  <2> QED
    BY <2>1, <2>2, <2>4
<1> QED
  BY <1>1, <1>2

\* It stays complete when the pass has ended and the program runs.
LEMMA ChildrenFollow ==
  ASSUME TreeInv, StatusRight, Built, NEW u \in Nodes
  PROVE  /\ {EdgeOf(c) : c \in Children(u)} =
              IF cxtTree[u].recursive THEN {} ELSE EdgesOf(prog, cxtTree[u].into)
         /\ \A c, d \in Children(u) : EdgeOf(c) = EdgeOf(d) => c = d
<1>0. Len(path) = 1 /\ ~ Pending
  BY Zenon DEF StatusRight
<1>1. PICK r : r = cxtTree[u].into
  OBVIOUS
<1>2. /\ r \in Regions /\ Body(u) = prog.body[r] /\ Len(prog.body[r]) \in Nat
      /\ DOMAIN prog.body[r] = 1 .. Len(prog.body[r])
  BY <1>1, NodeFacts, BodyFacts DEF TreeInv
<1>3. ~ cxtTree[u].recursive => visited[u] = Len(Body(u))
  <2>1. CASE u = 0
    <3>1. cur = 0
      BY <1>0 DEF TreeInv, PathRight, cur
    <3>2. visited[0] \in 0 .. Len(Body(0)) /\ Len(Body(0)) \in Nat
      BY <2>1, NodeFacts
    <3> QED
      BY <1>0, <2>1, <3>1, <3>2 DEF Pending
  <2>2. CASE u # 0
    <3>1. ~ OnPath(u)
      <4>1. DOMAIN path = {1} /\ path[1] = 0
        BY <1>0, CurFacts DEF TreeInv, PathRight
      <4> QED
        BY <2>2, <4>1 DEF OnPath
    <3> QED
      BY <3>1 DEF TreeInv, VisitedRight
  <2> QED
    BY <2>1, <2>2
<1>4. ASSUME NEW c \in Children(u)
      PROVE  /\ c \in Nat /\ ~ cxtTree[u].recursive
             /\ \E i \in 1 .. Len(prog.body[r]) :
                  EdgeOf(c) = prog.body[r][i] /\ c = u + NodesBefore(r, i - 1)
  <2>1. c \in Nodes \ {0} /\ u = cxtTree[c].parent
    BY DEF Children
  <2>2. /\ c \in Nat /\ ~ cxtTree[u].recursive
        /\ \E i \in 1 .. Len(prog.body[cxtTree[u].into]) :
             /\ EdgeOf(c) = prog.body[cxtTree[u].into][i]
             /\ c = u + NodesBefore(cxtTree[u].into, i - 1)
             /\ NodesBefore(cxtTree[u].into, i - 1) \in Nat
    BY <2>1, NodeOrigin
  <2> QED
    BY <1>1, <2>2
<1>5. ASSUME NEW c \in Children(u), NEW d \in Children(u), EdgeOf(c) = EdgeOf(d)
      PROVE  c = d
  <2>1. PICK i \in 1 .. Len(prog.body[r]) :
          EdgeOf(c) = prog.body[r][i] /\ c = u + NodesBefore(r, i - 1)
    BY <1>4
  <2>2. PICK j \in 1 .. Len(prog.body[r]) :
          EdgeOf(d) = prog.body[r][j] /\ d = u + NodesBefore(r, j - 1)
    BY <1>4
  <2>3. prog \in Programs /\ prog.body[r][i] = prog.body[r][j]
    BY <1>5, <2>1, <2>2 DEF TreeInv
  <2>4. i = j
    BY <1>2, <2>3, PlaceFacts
  <2> QED
    BY <2>1, <2>2, <2>4
<1>6. CASE cxtTree[u].recursive
  BY <1>4, <1>5, <1>6
<1>7. CASE ~ cxtTree[u].recursive
  <2>1. \A c \in Children(u) : EdgeOf(c) \in EdgesOf(prog, r)
    BY <1>2, <1>4 DEF EdgesOf
  <2>2. ASSUME NEW e \in EdgesOf(prog, r)
        PROVE  \E c \in Children(u) : EdgeOf(c) = e
    <3>1. PICK i \in 1 .. Len(prog.body[r]) : e = prog.body[r][i]
      BY <1>2 DEF EdgesOf
    <3>2. i \in 1 .. visited[u]
      BY <1>2, <1>3, <1>7
    <3>3. PICK c \in Nodes \ {0} : cxtTree[c].parent = u /\ EdgeOf(c) = Body(u)[i]
      BY <3>2 DEF TreeInv, VisitedRight
    <3> QED
      BY <1>2, <3>1, <3>3 DEF Children
  <2>3. {EdgeOf(c) : c \in Children(u)} = EdgesOf(prog, r)
    BY <2>1, <2>2
  <2> QED
    BY <1>1, <1>5, <1>7, <2>3
<1> QED
  BY <1>6, <1>7

LEMMA CompletenessFollows == BuilderInv => TreeComplete
BY ChildrenFollow DEF BuilderInv, TreeComplete, Built, Stopped

-----------------------------------------------------------------------------
(***************************************************************************)
(* The members of the pass keep their types.                               *)
(***************************************************************************)
THEOREM BuilderTypeCorrect == BuilderSpec => []BuilderTypeOK
<1>1. BuilderInv /\ status \in BuilderStatus => BuilderTypeOK
  BY TypesFollow
<1> QED
  BY <1>1, BuilderInvariant, PTL

(***************************************************************************)
(* No assertion of addCallSiteInfo, addLoopInfo, makeNodeOfCallSite_aux or *)
(* makeNodeOfLoop ever fails on a program whose loops have context ids of  *)
(* their own.                                                              *)
(***************************************************************************)
THEOREM AssertionsHold ==
  BuilderSpec => [](LocalIdsAgree /\ NoDuplication)
<1>1. BuilderInv => LocalIdsAgree /\ NoDuplication
  BY DEF BuilderInv, StatusRight, Stopped, LocalIdsAgree, NoDuplication
<1> QED
  BY <1>1, BuilderInvariant, PTL

(***************************************************************************)
(* The constant of a place's hook is the local id of every node made for   *)
(* the place, whether the node's function has one copy in the tree or many *)
(* and whether loops share ids or not, unless an assertion has stopped the *)
(* pass.                                                                   *)
(***************************************************************************)
THEOREM TablesAlwaysMatchTree == BuilderSpec => []TablesMatchTree
<1>1. BuilderInv => TablesMatchTree
  BY DEF BuilderInv, StatusRight, TablesRight, TablesMatchTree
<1> QED
  BY <1>1, BuilderInvariant, PTL

(***************************************************************************)
(* The finished tree has one child for every way to leave a node.          *)
(***************************************************************************)
THEOREM FinishedTreeIsComplete == BuilderSpec => []TreeComplete
<1>1. BuilderInv => TreeComplete
  BY CompletenessFollows
<1> QED
  BY <1>1, BuilderInvariant, PTL
=============================================================================
