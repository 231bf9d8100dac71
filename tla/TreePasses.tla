----------------------------- MODULE TreePasses -----------------------------
(***************************************************************************)
(* Two passes beside and behind the context tree.                          *)
(*                                                                         *)
(* lib/AliasAnalysis/LoopTraverse.cpp: how deep the loops of the program   *)
(* nest across calls, from the functions' bodies; the context tree says    *)
(* the same by its paths.                                                  *)
(*                                                                         *)
(* lib/CAMP/CampCache.cpp: after the context tree is built, every context  *)
(* gets its own copy of the function it runs, so that a cache simulator    *)
(* sees contexts as functions.  runOnModule goes over the nodes;           *)
(* recurDuplicateFunction clones the callee of one call and does the same  *)
(* for the calls in the clone, looking up the node of each.                *)
(***************************************************************************)
EXTENDS ContextTreeBuilder, FiniteSets, FiniteSetsExt

CONSTANTS
  IndirectSites,    \* calls through a pointer: getCalledFunction() is NULL
  Orders(_)         \* the orders of its blocks a program may have: functions from
                    \* a function to the call sites in it, loops' included

ASSUME FunctionsAssumption == IsFiniteSet(Functions)

\* Faulty: a call inside a loop is taken for one outside.
getLoopDepthApart(p) ==
  LET DepthOf[r \in Regions] ==
        LET testAndTraverse(e) == IF Into(e) \in p.recursive THEN 0 ELSE DepthOf[Into(e)]
            inner == Max({0} \cup {testAndTraverse(e) : e \in {d \in EdgesOf(p, r) : IsLoop(d)}})
                     + (IF r \in Loops THEN 1 ELSE 0)
        IN  Max({inner} \cup {testAndTraverse(e) : e \in EdgesOf(p, r)})
  IN  [r \in Regions \ p.recursive |-> DepthOf[r]]

(***************************************************************************)
(* getLoopDepth (of a loop) and getLoopDepth_aux (of a function that is    *)
(* not recursive): the deepest of the loops and calls directly in the      *)
(* region, one more for a loop.  A call of a recursive function adds       *)
(* nothing.                                                                *)
(***************************************************************************)
getLoopDepth(p) ==
  LET DepthOf[r \in Regions] ==
        LET testAndTraverse(e) == IF Into(e) \in p.recursive THEN 0 ELSE DepthOf[Into(e)]
        IN  Max({0} \cup {testAndTraverse(e) : e \in EdgesOf(p, r)})
            + (IF r \in Loops THEN 1 ELSE 0)
  IN  [r \in Regions \ p.recursive |-> DepthOf[r]]

maxDepthOf(p)      == getLoopDepth(p)
getMaxLoopDepth(p) == Max({maxDepthOf(p)[f] : f \in Functions \ p.recursive})

-----------------------------------------------------------------------------
\* Loops on the way from the root to node u.
LoopsTo[u \in Nodes] ==
  IF u = 0 THEN 0
  ELSE LoopsTo[cxtTree[u].parent] + (IF cxtTree[u].into \in Loops THEN 1 ELSE 0)

(***************************************************************************)
(* The depth of main is that of the context whose path has most loops in   *)
(* it, and no path has more than getMaxLoopDepth: a stack of that many     *)
(* iteration counters would do for every context of the program.           *)
(***************************************************************************)
DepthIsOfTree ==
  status = "done" =>
    /\ maxDepthOf(prog)[Main] = Max({LoopsTo[u] : u \in Nodes})
    /\ maxDepthOf(prog)[Main] <= getMaxLoopDepth(prog)

-----------------------------------------------------------------------------
(***************************************************************************)
(* The regions of a function: itself, and the loops in it and in each      *)
(* other.  Its calls are those of its regions, each once.                  *)
(***************************************************************************)
RegionsIn(p, f) ==
  {r \in Regions : \A S \in SUBSET Regions :
     f \in S /\ (\A q \in S : \A e \in EdgesOf(p, q) : IsLoop(e) => Into(e) \in S) => r \in S}

CallSitesIn(p, f) ==
  {s \in Sites : \E r \in RegionsIn(p, f) : \E e \in EdgesOf(p, r) : Place(e) = s}

ASSUME OrdersAssumption ==
  \A p \in Programs : \A o \in Orders(p) : \A f \in Functions :
    /\ o[f] \in Seq(Sites)
    /\ {o[f][i] : i \in DOMAIN o[f]} = CallSitesIn(p, f)
    /\ \A i, j \in DOMAIN o[f] : o[f][i] = o[f][j] => i = j

VARIABLES
  order,            \* one of Orders(prog)
  Iterator,         \* the next node runOnModule looks at
  frames,           \* active recurDuplicateFunction: [node, site, todo]
  done,             \* nodes with done = true
  copies,           \* calls replaced: [node, callee, caller, site]
  asserted          \* an assertion failed, or a null pointer was used

cacheVars == <<order, Iterator, frames, done, copies, asserted>>

IsCallSite(u) == cxtTree[u].place \notin Loops
IsInvoke(s)   == prog.pad[s] # NoPad
Direct(s)     == s \notin IndirectSites /\ ~ MultiTarget(prog, s)
Callee(s)     == CHOOSE f \in Candidates(prog, s) : TRUE

\* Faulty: a call in a loop belongs to the loop.
NearestNode(u) == u - cxtTree[u].locID

getParentUCID(u) ==
  LET Up[v \in Nodes] == IF IsCallSite(v) THEN v ELSE Up[v - cxtTree[v].locID]
  IN  Up[u - cxtTree[u].locID]

CacheInit ==
  /\ Init
  /\ order \in Orders(prog)
  /\ Iterator = 0 /\ frames = <<>> /\ done = {} /\ copies = {}
  /\ asserted = FALSE

\* The calls a clone is searched for: no invokes, no indirect calls.
IsDirectCall(s) == ~ IsInvoke(s) /\ Direct(s) /\ Candidates(prog, s) # {}

(***************************************************************************)
(* recurDuplicateFunction(u, s) begins: the call s, in the clone that the  *)
(* innermost frame is about or in main, is to be replaced.                 *)
(***************************************************************************)
Duplicate(u, s, outer) ==
  IF IsInvoke(s)
  THEN asserted' = TRUE /\ UNCHANGED <<frames, done>>
  ELSE /\ UNCHANGED asserted
       /\ IF Direct(s) /\ ~ cxtTree[u].recursive
          THEN /\ frames' = Append(outer, [node |-> u, site |-> s, todo |-> order[Callee(s)]])
               /\ UNCHANGED done
          ELSE frames' = outer /\ done' = done \cup {u}

VisitNode ==
  /\ status = "done" /\ ~ asserted /\ frames = <<>> /\ Iterator \in Nodes
  /\ Iterator' = Iterator + 1
  /\ IF Iterator # 0 /\ IsCallSite(Iterator) /\ Iterator \notin done
     THEN IF getParentUCID(Iterator) \notin done
          THEN Duplicate(Iterator, cxtTree[Iterator].place, <<>>)
          ELSE done' = done \cup {Iterator} /\ UNCHANGED <<frames, asserted>>
     ELSE UNCHANGED <<frames, done, asserted>>
  /\ UNCHANGED <<builderVars, order, copies>>

\* "find same node with this callinst": from the frame's own node on.
Undone(u)  == {v \in Nodes : v >= u /\ IsCallSite(v) /\ v \notin done}
Same(u, s) == {v \in Undone(u) : /\ Direct(cxtTree[v].place) /\ cxtTree[v].into = Callee(s)
                                 /\ getParentUCID(v) = u}

VisitCall ==
  /\ ~ asserted /\ frames # <<>>
  /\ LET top  == frames[Len(frames)]
         s    == Head(top.todo)
         rest == [frames EXCEPT ![Len(frames)].todo = Tail(top.todo)]
         same == Same(top.node, s)
     IN  /\ top.todo # <<>>
         /\ IF ~ IsDirectCall(s)
            THEN frames' = rest /\ UNCHANGED <<done, asserted>>
            ELSE IF \/ same = {}
                    \/ \E v \in Undone(top.node) : v <= Min(same) /\ IsInvoke(cxtTree[v].place)
            THEN asserted' = TRUE /\ UNCHANGED <<frames, done>>
            ELSE Duplicate(Min(same), s, rest)
  /\ UNCHANGED <<builderVars, order, Iterator, copies>>

\* The clone is named after the node and called instead of the original.
ReplaceCall ==
  /\ ~ asserted /\ frames # <<>>
  /\ LET top    == frames[Len(frames)]
         caller == IF Len(frames) = 1 THEN 0 ELSE frames[Len(frames) - 1].node
     IN  /\ top.todo = <<>>
         /\ copies' = copies \cup {[node |-> top.node, callee |-> Callee(top.site),
                                    caller |-> caller, site |-> top.site]}
         /\ done' = done \cup {top.node}
  /\ frames' = SubSeq(frames, 1, Len(frames) - 1)
  /\ UNCHANGED <<builderVars, order, Iterator, asserted>>

CacheStep == VisitNode \/ VisitCall \/ ReplaceCall

CacheNext == (BuildStep /\ UNCHANGED cacheVars) \/ CacheStep

CacheSpec ==
  CacheInit /\ [][CacheNext]_<<builderVars, cacheVars>> /\ WF_builderVars(BuildStep)

-----------------------------------------------------------------------------
(***************************************************************************)
(* CampCache: a context of main that is reached by direct calls only, none *)
(* of them an invoke or recursive, gets one copy of its function, called   *)
(* in the copy of its caller by a call of the same function, and no two    *)
(* contexts share the call; no other context gets a copy.  Without         *)
(* invokes the search for a node never fails.                              *)
(***************************************************************************)
Copied(u) ==
  u # 0 /\ IsCallSite(u) /\ Direct(cxtTree[u].place) /\ ~ cxtTree[u].recursive

CopiedPath[u \in Nodes] == u = 0 \/ (Copied(u) /\ CopiedPath[getParentUCID(u)])

CacheDone == status = "done" /\ Iterator \notin Nodes /\ frames = <<>>

OneCopyPerContext ==
  (\A s \in Sites : ~ IsInvoke(s)) =>
    /\ ~ asserted
    /\ CacheDone =>
         /\ {c.node : c \in copies} = {u \in Nodes \ {0} : CopiedPath[u]}
         /\ \A c \in copies : /\ c.callee = cxtTree[c.node].into
                              /\ c.caller = getParentUCID(c.node)
         /\ \A c, d \in copies :
              c.node = d.node \/ <<c.caller, c.site>> = <<d.caller, d.site>> => c = d

(***************************************************************************)
(* The node found is that of the call (CampCache.cpp:214, "find same node  *)
(* with this callinst"): the copy named after a context is called at the   *)
(* context's place.                                                        *)
(***************************************************************************)
CopyIsOfThisCall == \A c \in copies : c.site = cxtTree[c.node].place
=============================================================================
