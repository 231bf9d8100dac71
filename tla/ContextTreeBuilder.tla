------------------------- MODULE ContextTreeBuilder -------------------------
(***************************************************************************)
(* lib/CAMP/ContextTreeBuilder.cpp: the analysis pass that builds the      *)
(* context tree.  The C++ recursion makeNodeOf... -> ...NodeTraverse is    *)
(* unrolled into steps: path is its stack, the nodes whose regions are     *)
(* being traversed, the root first; visited[u] is how many edges of u's    *)
(* region have been handled.                                               *)
(*                                                                         *)
(* A node is named by its ucID, which is also its index in cxtTree.        *)
(***************************************************************************)
EXTENDS Program, Integers

CONSTANT LocMod          \* 2^16: LocalContextID is a uint16_t

ASSUME LocModAssumption == LocMod \in Nat /\ LocMod > 1

VARIABLES
  prog,                  \* the module the pass runs on (never changes)
  status,                \* "building", "done", or the assertion that failed
  cxtTree, assignerUcID, \* the nodes, and the next ucID
  path, visited,         \* the traversal (the C++ call stack)
  locIdOf_callSite,      \* site -> local id, or IndirectMark
  locIdOf_indCall,       \* (site, candidate) -> local id
  locIdOf_loop           \* a loop's context id -> local id

builderVars == <<prog, status, cxtTree, assignerUcID, path, visited,
                 locIdOf_callSite, locIdOf_indCall, locIdOf_loop>>

IndirectMark == LocMod - 1      \* (LocalContextID)(-1)
Unset        == LocMod          \* no entry in the map
LocalID      == 0 .. LocMod - 1

Nodes  == 0 .. assignerUcID - 1

\* Faulty: the id counted from the root; the call sites of recursive functions
\* not made leaves.
NodeOfAbsolute(e, parent) ==
  [place |-> Place(e), into |-> Into(e), parent |-> parent,
   locID |-> assignerUcID % LocMod, recursive |-> Into(e) \in prog.recursive]
NodeOfNoLeaf(e, parent) ==
  [place |-> Place(e), into |-> Into(e), parent |-> parent,
   locID |-> (assignerUcID - parent) % LocMod, recursive |-> FALSE]

\* makeNodeOf...: the node for edge e below the node parent.
NodeOf(e, parent) ==
  [place     |-> Place(e),
   into      |-> Into(e),
   parent    |-> parent,
   locID     |-> (assignerUcID - parent) % LocMod,
   recursive |-> Into(e) \in prog.recursive]

EdgeOf(u) == <<cxtTree[u].place, cxtTree[u].into>>
Body(u)   == prog.body[cxtTree[u].into]

Init ==
  /\ prog \in Programs
  /\ status = "building"
  /\ assignerUcID = 1
  /\ cxtTree = [u \in {0} |-> [place |-> Main, into |-> Main, parent |-> 0,
                               locID |-> 0, recursive |-> FALSE]]
  /\ path = <<0>>
  /\ visited = [u \in {0} |-> 0]
  /\ locIdOf_callSite = [s \in Sites |-> Unset]
  /\ locIdOf_indCall = [e \in Sites \X Functions |-> Unset]
  /\ locIdOf_loop = [id \in LoopIds(prog) |-> Unset]

-----------------------------------------------------------------------------
(***************************************************************************)
(* Steps of the traversal.                                                 *)
(***************************************************************************)
cur      == path[Len(path)]

\* Faulty: the last edge of a region is never followed.
PendingButLast == visited[cur] + 1 < Len(Body(cur))

Pending  == visited[cur] < Len(Body(cur))
NextEdge == Body(cur)[visited[cur] + 1]

\* The context id of the loop of edge e.
cntxID(e) == prog.loopIdOf[Into(e)]

\* numDuplicationOnPathToRoot counts more than the new node: the call site of e,
\* or a loop with the id of e's, is on the way from its parent to the root, which
\* is the path being traversed.
Duplicated(e) ==
  \E i \in DOMAIN path :
    LET d == EdgeOf(path[i])
    IN  IF IsLoop(e) THEN IsLoop(d) /\ cntxID(d) = cntxID(e) ELSE Place(d) = Place(e)

\* addCallSiteInfo and addLoopInfo find no entry, or one that agrees.
Agrees(e, locID) ==
  IF IsLoop(e)
  THEN locIdOf_loop[cntxID(e)] \in {Unset, locID}
  ELSE MultiTarget(prog, Place(e)) \/
       locIdOf_callSite[Place(e)] \in {Unset, IndirectMark, locID}

\* A failing assertion stops the compiler; what the tables hold then is of no use.
Asserted(e, locID) ==
  CASE ~ Agrees(e, locID) -> "local id mismatch"
    [] Agrees(e, locID) /\ Duplicated(e) -> "duplication"
    [] OTHER -> "building"

\* Push the node and go into its region, unless it is a recursive call site.
AddNode(n) ==
  /\ cxtTree' = [u \in 0 .. assignerUcID |-> IF u = assignerUcID THEN n ELSE cxtTree[u]]
  /\ visited' = [u \in 0 .. assignerUcID |->
                   IF u = assignerUcID THEN 0
                   ELSE IF u = cur THEN visited[u] + 1 ELSE visited[u]]
  /\ assignerUcID' = assignerUcID + 1
  /\ path' = IF n.recursive THEN path ELSE Append(path, assignerUcID)

\* The code enters a candidate of an indirect call when it comes back from the
\* candidate's traversal; no copy of the site is met in between.
Insert(map, key, value) ==
  IF map[key] = Unset THEN [map EXCEPT ![key] = value] ELSE map

MakeNodeOfCallSite ==
  /\ status = "building" /\ Pending /\ ~ IsLoop(NextEdge)
  /\ LET e == NextEdge
         n == NodeOf(e, cur)
     IN  /\ status' = Asserted(e, n.locID)
         /\ AddNode(n)
         /\ IF MultiTarget(prog, Place(e))
            THEN /\ locIdOf_callSite' = [locIdOf_callSite EXCEPT ![Place(e)] = IndirectMark]
                 /\ locIdOf_indCall' = Insert(locIdOf_indCall, e, n.locID)
            ELSE /\ locIdOf_callSite' = Insert(locIdOf_callSite, Place(e), n.locID)
                 /\ UNCHANGED locIdOf_indCall
  /\ UNCHANGED <<prog, locIdOf_loop>>

MakeNodeOfLoop ==
  /\ status = "building" /\ Pending /\ IsLoop(NextEdge)
  /\ LET e == NextEdge
         n == NodeOf(e, cur)
     IN  /\ status' = Asserted(e, n.locID)
         /\ AddNode(n)
         /\ locIdOf_loop' = Insert(locIdOf_loop, cntxID(e), n.locID)
  /\ UNCHANGED <<prog, locIdOf_callSite, locIdOf_indCall>>

ReturnToParent ==
  /\ status = "building" /\ ~ Pending /\ Len(path) > 1
  /\ path' = SubSeq(path, 1, Len(path) - 1)
  /\ UNCHANGED <<prog, status, cxtTree, assignerUcID, visited,
                 locIdOf_callSite, locIdOf_indCall, locIdOf_loop>>

FinishTree ==
  /\ status = "building" /\ ~ Pending /\ Len(path) = 1
  /\ status' = "done"
  /\ UNCHANGED <<prog, cxtTree, assignerUcID, path, visited,
                 locIdOf_callSite, locIdOf_indCall, locIdOf_loop>>

BuildStep ==
  \/ MakeNodeOfCallSite
  \/ MakeNodeOfLoop
  \/ ReturnToParent
  \/ FinishTree

\* The pass runs to its end: a sequential program that is given the processor.
BuilderSpec == Init /\ [][BuildStep]_builderVars /\ WF_builderVars(BuildStep)

-----------------------------------------------------------------------------
(***************************************************************************)
(* Properties.                                                             *)
(***************************************************************************)
Node == [place : Places \cup {Main}, into : Regions, parent : Nat,
         locID : LocalID, recursive : BOOLEAN]

BuilderStatus == {"building", "local id mismatch", "duplication", "done"}

TreeTypeOK ==
  /\ prog \in Program
  /\ assignerUcID \in Nat \ {0}
  /\ cxtTree \in [Nodes -> Node]
  /\ path \in Seq(Nodes) /\ path # <<>>
  /\ visited \in [Nodes -> Nat]
  /\ locIdOf_callSite \in [Sites -> 0 .. LocMod]
  /\ locIdOf_indCall \in [Sites \X Functions -> 0 .. LocMod]
  /\ locIdOf_loop \in [LoopIds(prog) -> 0 .. LocMod]

\* The types of the pass's members.
BuilderTypeOK == TreeTypeOK /\ status \in BuilderStatus

(***************************************************************************)
(* The assertions of addCallSiteInfo and addLoopInfo never fail unless two *)
(* loops share a context id, by which the pass looks loops up: however     *)
(* many copies of a function the tree holds, and under however different   *)
(* parents, a call site or loop has the same local id in all of them.  The *)
(* runtime relies on it, since a hook carries one constant per place.      *)
(***************************************************************************)
LocalIdsAgree == status = "local id mismatch" => ~ OwnLoopIds(prog)

(***************************************************************************)
(* The "Duplication occurs" assertions never fail, again unless two loops  *)
(* share an id: no call site or loop is met twice on a path to the root.   *)
(* It rests on the marked functions cutting every cycle and on their call  *)
(* sites being leaves.                                                     *)
(***************************************************************************)
NoDuplication == status = "duplication" => ~ OwnLoopIds(prog)

(***************************************************************************)
(* What a hook will add for edge e is, in every copy of e, the difference  *)
(* between the node's ucID and its parent's: also for the candidates of an *)
(* indirect call, where the pass asserts nothing, and for loops that share *)
(* an id, unless an assertion has stopped the pass because they do.        *)
(***************************************************************************)
LocOf(e) ==
  IF IsLoop(e) THEN locIdOf_loop[cntxID(e)]
  ELSE IF MultiTarget(prog, Place(e)) THEN locIdOf_indCall[e]
  ELSE locIdOf_callSite[Place(e)]

Stopped == status \in {"local id mismatch", "duplication"}

TablesMatchTree ==
  ~ (Stopped /\ ~ OwnLoopIds(prog)) =>
    \A u \in Nodes \ {0} : LocOf(EdgeOf(u)) = cxtTree[u].locID

(***************************************************************************)
(* The finished tree has exactly one child for every way to leave a node   *)
(* whose callee is not recursive, and none below a recursive call site:    *)
(* two call paths of the program get the same ucID only if they differ     *)
(* below a recursive call.                                                 *)
(***************************************************************************)
Children(u) == {c \in Nodes \ {0} : cxtTree[c].parent = u}

TreeComplete ==
  status = "done" =>
    \A u \in Nodes :
      LET edges == IF cxtTree[u].recursive THEN {} ELSE EdgesOf(prog, cxtTree[u].into)
      IN  /\ {EdgeOf(c) : c \in Children(u)} = edges
          /\ \A c, d \in Children(u) : EdgeOf(c) = EdgeOf(d) => c = d

\* The traversal ends, unless loops that share an id stop it: no program keeps
\* makeNodeOf... recursing for ever or into a call site it is in.
TreeFinished == OwnLoopIds(prog) => <>(status = "done")
=============================================================================
