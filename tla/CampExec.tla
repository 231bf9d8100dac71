------------------------------ MODULE CampExec ------------------------------
(***************************************************************************)
(* tools/camp/campExecRuntime.cpp: how long each context runs, calls and   *)
(* loops inside it included.  A context's start time is 0 while it is not  *)
(* open.  totalSometime is the time during which some loop is open.        *)
(* (totalLooptime and totalfunctime are never read and left out.)          *)
(*                                                                         *)
(* Behind the hooks: the context tree on its way through files.            *)
(* ContextTreeBuilder writes it (ContextTree.data, ContextTree.gv,         *)
(* contextLabel.gv); the finalizer reads it back and writes the measured   *)
(* times as a table and as a drawing, which leaves small contexts of large *)
(* trees out.  A line is the record or pair it holds.  Taken for granted:  *)
(* lines fit into the reader's 128 characters, and the second number of an *)
(* edge is read right although its buffer is terminated in another place.  *)
(***************************************************************************)
EXTENDS Integers, Sequences

CONSTANTS
  nContext,       \* contexts: lines of ContextTree.data, which Initialize reads
  ManyContexts,   \* 300: from here on small contexts are left out
  CtxMod          \* values of exec_currentCtx and of a local id, 2^16

VARIABLES
  tree,                      \* node -> [parent, loop, recursive], the root left out
  now,                       \* t.now()
  exec_currentCtx, exec_disableCxtChange,
  execTimeOfContext, tmpTimeOfContext,
  totalSometime, tmpSometime, nestingDepth,
  aborted                    \* an assertion failed

ctxVars  == <<exec_currentCtx, exec_disableCxtChange>>
timeVars == <<execTimeOfContext, tmpTimeOfContext, totalSometime, tmpSometime,
              nestingDepth, aborted>>

Listed(ctx) == ctx \in DOMAIN execTimeOfContext

Initialize ==
  /\ execTimeOfContext = [c \in 0 .. nContext - 1 |-> 0]
  /\ tmpTimeOfContext  = [c \in 0 .. nContext - 1 |-> 0]
  /\ totalSometime = 0 /\ tmpSometime = 0 /\ nestingDepth = 0
  /\ aborted = FALSE

\* Faulty: the time between two outermost loops counts as well.
StartLoopAfterGap(ctx) ==
  /\ tmpTimeOfContext' = [tmpTimeOfContext EXCEPT ![ctx] = now]
  /\ totalSometime' = totalSometime + (now - tmpSometime)
  /\ tmpSometime' = now
  /\ nestingDepth' = nestingDepth + 1
  /\ UNCHANGED <<execTimeOfContext, aborted>>

StartLoop(ctx) ==
  /\ tmpTimeOfContext' = [tmpTimeOfContext EXCEPT ![ctx] = now]
  /\ totalSometime' = IF nestingDepth > 0 THEN totalSometime + (now - tmpSometime)
                                          ELSE totalSometime
  /\ tmpSometime' = now
  /\ nestingDepth' = nestingDepth + 1
  /\ UNCHANGED <<execTimeOfContext, aborted>>

LoopBegin(cntxID) ==
  IF exec_disableCxtChange # 0 THEN UNCHANGED <<ctxVars, timeVars>>
  ELSE LET ctx == (exec_currentCtx + cntxID) % CtxMod
       IN  /\ exec_currentCtx' = ctx
           /\ IF Listed(ctx) THEN StartLoop(ctx) ELSE UNCHANGED timeVars
           /\ UNCHANGED exec_disableCxtChange

LoopNext == UNCHANGED <<ctxVars, timeVars>>

\* The time since the context was opened; it is closed.
Charge(ctx) ==
  /\ execTimeOfContext' = [execTimeOfContext EXCEPT ![ctx] = @ + now - tmpTimeOfContext[ctx]]
  /\ tmpTimeOfContext'  = [tmpTimeOfContext EXCEPT ![ctx] = 0]

StopLoop(ctx) ==
  IF tmpTimeOfContext[ctx] = 0
  THEN aborted' = TRUE /\ UNCHANGED <<execTimeOfContext, tmpTimeOfContext, totalSometime,
                                      tmpSometime, nestingDepth>>
  ELSE /\ Charge(ctx)
       /\ totalSometime' = totalSometime + (now - tmpSometime)
       /\ tmpSometime' = now
       /\ nestingDepth' = nestingDepth - 1
       /\ UNCHANGED aborted

LoopEnd(cntxID) ==
  IF exec_disableCxtChange # 0 THEN UNCHANGED <<ctxVars, timeVars>>
  ELSE /\ IF Listed(exec_currentCtx) THEN StopLoop(exec_currentCtx) ELSE UNCHANGED timeVars
       /\ exec_currentCtx' = (exec_currentCtx - cntxID) % CtxMod
       /\ UNCHANGED exec_disableCxtChange

\* A context that is open already counts how often it was entered again.
StartCall(ctx) ==
  /\ IF tmpTimeOfContext[ctx] = 0
     THEN /\ tmpTimeOfContext' = [tmpTimeOfContext EXCEPT ![ctx] = now]
          /\ UNCHANGED execTimeOfContext
     ELSE /\ execTimeOfContext' = [execTimeOfContext EXCEPT ![ctx] = @ + 1]
          /\ UNCHANGED tmpTimeOfContext
  /\ UNCHANGED <<totalSometime, tmpSometime, nestingDepth, aborted>>

CallSiteBegin(cntxID) ==
  IF cntxID < 1 \/ exec_disableCxtChange # 0 THEN UNCHANGED <<ctxVars, timeVars>>
  ELSE LET ctx == (exec_currentCtx + cntxID) % CtxMod
       IN  /\ exec_currentCtx' = ctx
           /\ IF Listed(ctx) THEN StartCall(ctx) ELSE UNCHANGED timeVars
           /\ UNCHANGED exec_disableCxtChange

\* Faulty: the id is subtracted first, as in the other runtimes.
CallSiteEndOfCaller(cntxID) ==
  IF cntxID < 1 \/ exec_disableCxtChange # 0 THEN UNCHANGED <<ctxVars, timeVars>>
  ELSE LET ctx == (exec_currentCtx - cntxID) % CtxMod
       IN  /\ IF Listed(ctx) /\ tmpTimeOfContext[ctx] # 0
              THEN Charge(ctx) /\ UNCHANGED <<totalSometime, tmpSometime, nestingDepth, aborted>>
              ELSE UNCHANGED timeVars
           /\ exec_currentCtx' = ctx
           /\ UNCHANGED exec_disableCxtChange

CallSiteEnd(cntxID) ==
  IF cntxID < 1 \/ exec_disableCxtChange # 0 THEN UNCHANGED <<ctxVars, timeVars>>
  ELSE LET ctx == exec_currentCtx
       IN  /\ IF Listed(ctx) /\ tmpTimeOfContext[ctx] # 0
              THEN Charge(ctx) /\ UNCHANGED <<totalSometime, tmpSometime, nestingDepth, aborted>>
              ELSE UNCHANGED timeVars
           /\ exec_currentCtx' = (ctx - cntxID) % CtxMod
           /\ UNCHANGED exec_disableCxtChange

Finalize ==
  /\ execTimeOfContext' = [execTimeOfContext EXCEPT ![0] = now - 1]
  /\ UNCHANGED <<ctxVars, tmpTimeOfContext, totalSometime, tmpSometime, nestingDepth, aborted>>

-----------------------------------------------------------------------------
(***************************************************************************)
(* The files.  ContextTreeBuilder, the writing side.                       *)
(***************************************************************************)
Nodes         == 0 .. Len(tree)
isCallSite(u) == u = 0 \/ ~ tree[u].loop
locID(u)      == IF u = 0 THEN 0 ELSE (u - tree[u].parent) % CtxMod
Blank         == <<>>

contextTreeDumpToFile ==
  [u \in Nodes |-> [ucID |-> u, locID |-> locID(u), loop |-> ~ isCallSite(u),
                    recursive |-> u # 0 /\ tree[u].recursive]]

\* getParentUCID calls itself until it is at a call.
CallFrom[v \in Nodes] == IF isCallSite(v) THEN v ELSE CallFrom[v - locID(v)]
getParentUCID(u)      == CallFrom[u - locID(u)]

\* Faulty: without loops in the drawing the edges still come from them.
EdgeFromLoop(u, removeLoop) ==
  IF u = 0 \/ (removeLoop /\ ~ isCallSite(u)) THEN Blank ELSE <<u - locID(u), u>>

Edge(u, removeLoop) ==
  IF u = 0 \/ (removeLoop /\ ~ isCallSite(u)) THEN Blank
  ELSE <<IF removeLoop THEN getParentUCID(u) ELSE u - locID(u), u>>

contextTreeDumpToGvfile(removeLoop) ==
  [edges  |-> [u \in Nodes |-> Edge(u, removeLoop)],
   labels |-> {u \in Nodes : isCallSite(u)}]

-----------------------------------------------------------------------------
\* campExecFinalize, the reading side.
total_time          == execTimeOfContext[0]
Above(u, num, den)  == den * execTimeOfContext[u] > num * total_time
Worthwhile(u)       == Above(u, 1, 200) \/ nContext < ManyContexts    \* 0.5 %

\* The rows of ContextExecTime.data.
TimeTable ==
  [i \in 0 .. nContext - 1 |-> [line |-> contextTreeDumpToFile[i], time |-> execTimeOfContext[i],
                                critical |-> Above(i, 3, 10)]]

\* The edges copied to ContextExecTime.gv: one line is read for each context
\* but the root; edges of the root are always kept.
DrawnEdges(removeLoop) ==
  LET lines == contextTreeDumpToGvfile(removeLoop).edges
      Kept(line) == \/ Above(line[1], 1, 200) /\ Above(line[2], 1, 200)
                    \/ line[1] = 0
                    \/ nContext < ManyContexts
  IN  {line \in {lines[i] : i \in 1 .. nContext - 1} \ {Blank} : Kept(line)}

\* The labelled nodes: those of contextLabel.gv, or all.
DrawnContexts(removeLoop) ==
  LET labels == IF removeLoop THEN contextTreeDumpToGvfile(TRUE).labels
                              ELSE {TimeTable[i].line.ucID : i \in 0 .. nContext - 1}
  IN  {[id |-> k, red |-> Above(k, 1, 5)] : k \in {l \in labels : Worthwhile(l)}}
=============================================================================
