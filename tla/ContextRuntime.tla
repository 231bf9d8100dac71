--------------------------- MODULE ContextRuntime ---------------------------
(***************************************************************************)
(* The instrumented program running with the context part of the runtime.  *)
(*                                                                         *)
(* The hooks are those of tools/objtrace/ctxObjtraceRuntime.cpp (the other *)
(* runtimes repeat them); which hook is where is decided by the pass       *)
(* lib/ObjTrace/CtxObjtrace.cpp from ContextTreeBuilder's tables.  The     *)
(* program itself takes any path: from a region it may follow any of its   *)
(* edges, go round a loop, return, or throw.                               *)
(*                                                                         *)
(* The pass first builds the tree (ContextTreeBuilder), then the program   *)
(* runs.  A step of the program and the hooks around it are one action, in *)
(* the order the pass puts them.                                           *)
(***************************************************************************)
EXTENDS ContextTreeBuilder, FiniteSets

CONSTANTS
  CtxMod,         \* 2^32: currentCtx is a uint32_t
  DisMod,         \* 2^16: disableCxtChange is a uint16_t
  STK_MAX_SIZE,   \* 16 slots of iteration counters
  IterMod,        \* 0x80: a counter keeps 7 bits
  MaxDepth,       \* bound: calls and loops active at a time
  MaxIter         \* bound: iterations of a loop

ASSUME WidthAssumption ==
  /\ CtxMod \in Nat \ {0} /\ DisMod \in Nat \ {0}
  /\ STK_MAX_SIZE \in Nat \ {0} /\ IterMod \in Nat \ {0}
  /\ MaxDepth \in Nat /\ MaxIter \in Nat \ {0}

VARIABLES
  currentCtx, disableCxtChange,
  globalIterStack, globalIterStackIdx, globalIterStackIdx_overflow,
  stack,        \* the calls and loops the program is in, innermost last
  unwinding     \* an exception is looking for a landing pad

ctxVars  == <<currentCtx, disableCxtChange>>
iterVars == <<globalIterStack, globalIterStackIdx, globalIterStackIdx_overflow>>
vars     == <<builderVars, ctxVars, iterVars, stack, unwinding>>

(***************************************************************************)
(* An entry of the stack: the edge taken, and for the properties only: the *)
(* tree node of the innermost context (no change below a recursive call),  *)
(* how many active calls disabled context changes, and for a loop its      *)
(* iterations.                                                             *)
(***************************************************************************)
Top    == stack[Len(stack)]
Here   == IF stack = <<>> THEN 0 ELSE Top.node
Depth  == IF stack = <<>> THEN 0 ELSE Top.depth
Region == IF stack = <<>> THEN Main ELSE Into(Top.edge)
InLoop == stack # <<>> /\ IsLoop(Top.edge)

-----------------------------------------------------------------------------
(***************************************************************************)
(* What the pass inserts around an edge.                                   *)
(***************************************************************************)
\* A loop the builder did not reach is instrumented all the same, with 0.
LocalIdOf(e) == IF IsLoop(e) /\ LocOf(e) = Unset THEN 0 ELSE LocOf(e)

\* A call site without a table entry, or marked -1, gets no hook.
Instrumented(e) ==
  IsLoop(e) \/ LocOf(e) \notin (IF MultiTarget(prog, Place(e)) THEN {Unset}
                                                              ELSE {Unset, IndirectMark})

\* Disable/Enable surround the call if the FIRST node of the site is recursive.
Disabling(e) ==
  /\ ~ IsLoop(e)
  /\ \E u \in Nodes : /\ cxtTree[u].place = Place(e) /\ cxtTree[u].recursive
                      /\ \A w \in 0 .. u - 1 : cxtTree[w].place # Place(e)

BeginContext(e) ==
  currentCtx' = IF disableCxtChange = 0
                THEN (currentCtx + LocalIdOf(e)) % CtxMod ELSE currentCtx

\* Faulty: CallSiteEnd before EnableCtxtChange.
CallSiteEndFirst(st, e) ==
  LET dis == IF Disabling(e) THEN (st[2] - 1) % DisMod ELSE st[2]
      ctx == IF st[2] = 0 THEN (st[1] - LocalIdOf(e)) % CtxMod ELSE st[1]
  IN  IF Instrumented(e) THEN <<ctx, dis>> ELSE st

\* EnableCtxtChange, then CallSiteEnd, on a state <<currentCtx, disableCxtChange>>.
CallSiteEnd(st, e) ==
  LET dis == IF Disabling(e) THEN (st[2] - 1) % DisMod ELSE st[2]
      ctx == IF dis = 0 THEN (st[1] - LocalIdOf(e)) % CtxMod ELSE st[1]
  IN  IF Instrumented(e) THEN <<ctx, dis>> ELSE st

SetContext(st) == currentCtx' = st[1] /\ disableCxtChange' = st[2]

\* A loop's counter: pushed by LoopBegin, popped by LoopEnd, a loop deeper than
\* the stack only counted.
PushCounter ==
  IF globalIterStackIdx >= STK_MAX_SIZE - 1
  THEN /\ globalIterStackIdx_overflow' = globalIterStackIdx_overflow + 1
       /\ UNCHANGED <<globalIterStack, globalIterStackIdx>>
  ELSE /\ globalIterStackIdx' = globalIterStackIdx + 1
       /\ globalIterStack' = [globalIterStack EXCEPT ![globalIterStackIdx + 1] = 0]
       /\ UNCHANGED globalIterStackIdx_overflow

\* Faulty: the loops that found no slot pop one.
PopCounterAlways ==
  /\ globalIterStack' = [globalIterStack EXCEPT ![globalIterStackIdx] = 0]
  /\ globalIterStackIdx' = globalIterStackIdx - 1
  /\ UNCHANGED globalIterStackIdx_overflow

PopCounter ==
  IF globalIterStackIdx_overflow > -1
  THEN /\ globalIterStackIdx_overflow' = globalIterStackIdx_overflow - 1
       /\ UNCHANGED <<globalIterStack, globalIterStackIdx>>
  ELSE /\ globalIterStack' = [globalIterStack EXCEPT ![globalIterStackIdx] = 0]
       /\ globalIterStackIdx' = globalIterStackIdx - 1
       /\ UNCHANGED globalIterStackIdx_overflow

NextCount(n) == (n + 1) % IterMod

-----------------------------------------------------------------------------
RuntimeInit ==
  /\ Init
  /\ currentCtx = 0 /\ disableCxtChange = 0
  /\ globalIterStack = [i \in 0 .. STK_MAX_SIZE - 1 |-> 0]
  /\ globalIterStackIdx = -1 /\ globalIterStackIdx_overflow = -1
  /\ stack = <<>> /\ unwinding = FALSE

CompilerStep ==
  /\ BuildStep
  /\ UNCHANGED <<ctxVars, iterVars, stack, unwinding>>

\* A constructor of the instrumented program calls ctxObjInitialize.
Initialize ==
  /\ status = "done"
  /\ status' = "running"
  /\ currentCtx' = 0 /\ disableCxtChange' = 0
  /\ globalIterStack' = [i \in 0 .. STK_MAX_SIZE - 1 |-> 0]
  /\ globalIterStackIdx' = -1 /\ globalIterStackIdx_overflow' = -1
  /\ UNCHANGED <<prog, cxtTree, assignerUcID, path, visited, locIdOf_callSite,
                 locIdOf_indCall, locIdOf_loop, stack, unwinding>>

\* The program executes and may follow edge e: a loop's body starts with its header.
CanFollow(e) ==
  /\ status = "running" /\ ~ unwinding
  /\ e \in EdgesOf(prog, Region)
  /\ Len(stack) < MaxDepth
  /\ InLoop => Top.iters > 0

\* The tree node the program is in after following e.
NodeAfter(e) ==
  IF cxtTree[Here].recursive THEN Here
  ELSE CHOOSE c \in Children(Here) : EdgeOf(c) = e

Push(e, more) ==
  stack' = Append(stack, [edge |-> e, node |-> NodeAfter(e), depth |-> Depth + more,
                          iters |-> 0])

Pop == stack' = SubSeq(stack, 1, Len(stack) - 1)

CallSiteBegin(e) ==
  /\ CanFollow(e) /\ ~ IsLoop(e)
  /\ IF Instrumented(e) THEN BeginContext(e) ELSE UNCHANGED currentCtx
  /\ IF Instrumented(e) /\ Disabling(e)
     THEN disableCxtChange' = (disableCxtChange + 1) % DisMod /\ Push(e, 1)
     ELSE UNCHANGED disableCxtChange /\ Push(e, 0)
  /\ UNCHANGED <<builderVars, iterVars, unwinding>>

Return ==
  /\ status = "running" /\ ~ unwinding /\ stack # <<>> /\ ~ InLoop
  /\ SetContext(CallSiteEnd(ctxVars, Top.edge))
  /\ Pop
  /\ UNCHANGED <<builderVars, iterVars, unwinding>>

LoopBegin(e) ==
  /\ CanFollow(e) /\ IsLoop(e)
  /\ BeginContext(e)
  /\ IF disableCxtChange = 0 THEN PushCounter ELSE UNCHANGED iterVars
  /\ Push(e, 0)
  /\ UNCHANGED <<builderVars, disableCxtChange, unwinding>>

LoopNext ==
  /\ status = "running" /\ ~ unwinding /\ InLoop /\ Top.iters < MaxIter
  /\ globalIterStack' =
       IF disableCxtChange # 0 THEN globalIterStack
       ELSE [globalIterStack EXCEPT ![globalIterStackIdx] = NextCount(@)]
  /\ stack' = [stack EXCEPT ![Len(stack)].iters = @ + 1]
  /\ UNCHANGED <<builderVars, ctxVars, globalIterStackIdx,
                 globalIterStackIdx_overflow, unwinding>>

LoopEnd ==
  /\ status = "running" /\ ~ unwinding /\ InLoop /\ Top.iters > 0
  /\ currentCtx' = IF disableCxtChange = 0
                   THEN (currentCtx - LocalIdOf(Top.edge)) % CtxMod ELSE currentCtx
  /\ IF disableCxtChange = 0 THEN PopCounter ELSE UNCHANGED iterVars
  /\ Pop
  /\ UNCHANGED <<builderVars, disableCxtChange, unwinding>>

-----------------------------------------------------------------------------
(***************************************************************************)
(* Exceptions.  The block of a throw never reaches the loop header again,  *)
(* so it is outside every loop and the loops were left by LoopEnd.         *)
(***************************************************************************)
Throw ==
  /\ status = "running" /\ ~ unwinding /\ ~ InLoop
  /\ Region \in prog.throws
  /\ unwinding' = TRUE
  /\ UNCHANGED <<builderVars, ctxVars, iterVars, stack>>

PadOfTop == prog.pad[Place(Top.edge)]

\* A plain call has no landing pad: its frame, and the loops of the caller it
\* was in, disappear without a hook.
UnwindCall ==
  /\ unwinding /\ stack # <<>> /\ PadOfTop = NoPad
  /\ stack' = LET calls == {i \in 1 .. Len(stack) - 1 : ~ IsLoop(stack[i].edge)}
                  last  == CHOOSE i \in calls : \A j \in calls : j <= i
              IN  IF calls = {} THEN <<>> ELSE SubSeq(stack, 1, last)
  /\ UNCHANGED <<builderVars, ctxVars, iterVars, unwinding>>

\* Control goes on after the landing pad's hooks: caught, or (outside loops) resumed.
LeavePad ==
  /\ Pop
  /\ IF Len(stack) > 1 /\ IsLoop(stack[Len(stack) - 1].edge)
     THEN unwinding' = FALSE ELSE unwinding' \in BOOLEAN
  /\ UNCHANGED <<builderVars, iterVars>>

SharesPad(s) == s # Place(Top.edge) /\ prog.pad[s] = PadOfTop

\* Faulty: hooks only where the call returns normally.
UnwindToPadUnhooked ==
  /\ unwinding /\ stack # <<>> /\ PadOfTop # NoPad
  /\ \A s \in Sites : ~ SharesPad(s)
  /\ UNCHANGED ctxVars
  /\ LeavePad

UnwindToPad ==
  /\ unwinding /\ stack # <<>> /\ PadOfTop # NoPad
  /\ \A s \in Sites : ~ SharesPad(s)
  /\ SetContext(CallSiteEnd(ctxVars, Top.edge))
  /\ LeavePad

\* A landing pad shared by two invokes has the hooks of both, in either order.
UnwindToSharedPad ==
  /\ unwinding /\ stack # <<>> /\ PadOfTop # NoPad
  /\ \E s \in Sites, f \in Functions :
       /\ SharesPad(s) /\ f \in Candidates(prog, s)
       /\ \/ SetContext(CallSiteEnd(CallSiteEnd(ctxVars, Top.edge), <<s, f>>))
          \/ SetContext(CallSiteEnd(CallSiteEnd(ctxVars, <<s, f>>), Top.edge))
  /\ LeavePad

\* main returns, or an exception leaves it.
Exit ==
  /\ status = "running" /\ stack = <<>>
  /\ status' = IF unwinding THEN "terminated" ELSE "exited"
  /\ UNCHANGED <<prog, cxtTree, assignerUcID, path, visited, locIdOf_callSite,
                 locIdOf_indCall, locIdOf_loop, ctxVars, iterVars, stack, unwinding>>

Next ==
  \/ CompilerStep
  \/ Initialize
  \/ \E e \in Edges : CallSiteBegin(e) \/ LoopBegin(e)
  \/ Return
  \/ LoopNext
  \/ LoopEnd
  \/ Throw
  \/ UnwindCall
  \/ UnwindToPad
  \/ UnwindToSharedPad
  \/ Exit

Spec == RuntimeInit /\ [][Next]_vars

-----------------------------------------------------------------------------
(***************************************************************************)
(* Properties.                                                             *)
(***************************************************************************)
\* The edges from the root to a node; the edges the program is in, up to and
\* including the first call of a recursive function.
PathFromRoot[u \in Nodes] ==
  IF u = 0 THEN <<>> ELSE Append(PathFromRoot[cxtTree[u].parent], EdgeOf(u))

Recursions == {i \in 1 .. Len(stack) : Into(stack[i].edge) \in prog.recursive}

VisibleLength ==
  IF Recursions = {} THEN Len(stack)
  ELSE CHOOSE i \in Recursions : \A j \in Recursions : i <= j

VisiblePath == [i \in 1 .. VisibleLength |-> stack[i].edge]

(***************************************************************************)
(* "According to the global variable current context id we can know which  *)
(* context in the application is processing now" (README): whatever the    *)
(* program did before, currentCtx is the tree node whose path from the     *)
(* root is the chain of calls and loops the program is in.  (While an      *)
(* exception unwinds the stack no code of the program runs.)               *)
(***************************************************************************)
ContextNamesCallPath ==
  status = "running" /\ ~ unwinding =>
    currentCtx \in Nodes /\ PathFromRoot[currentCtx] = VisiblePath

(***************************************************************************)
(* The same said with the node kept in the stack: every entry of the stack *)
(* is a child of the one below along the edge taken (or stays at the       *)
(* recursive leaf), the innermost one is currentCtx, and context changes   *)
(* are disabled exactly while a recursive function is active, however the  *)
(* calls below it return.                                                  *)
(***************************************************************************)
NodeBefore(i)  == IF i = 1 THEN 0 ELSE stack[i - 1].node
DepthBefore(i) == IF i = 1 THEN 0 ELSE stack[i - 1].depth

NodesFollowStack ==
  \A i \in 1 .. Len(stack) :
    /\ stack[i].node \in Nodes
    /\ stack[i].depth >= DepthBefore(i)
    /\ IF DepthBefore(i) > 0
       THEN stack[i].node = NodeBefore(i)
       ELSE /\ stack[i].node # 0
            /\ cxtTree[stack[i].node].parent = NodeBefore(i)
            /\ EdgeOf(stack[i].node) = stack[i].edge
    /\ stack[i].depth > 0 <=> cxtTree[stack[i].node].recursive

ContextIsHere ==
  status = "running" =>
    NodesFollowStack /\ currentCtx = Here /\ disableCxtChange = Depth

(***************************************************************************)
(* The iteration counters: slot k counts the iterations of the k-th active *)
(* loop (modulo its 7 bits), unused slots are 0, and the index and the     *)
(* overflow count say how many loops are active.  Loops deeper than the    *)
(* stack all count in the last slot, of which nothing is said.             *)
(***************************************************************************)
VisibleLoops == {i \in 1 .. Len(stack) : IsLoop(stack[i].edge) /\ stack[i].depth = 0}
Slot(i)      == Cardinality({j \in VisibleLoops : j < i})

IterStackCountsLoops ==
  status = "running" =>
    LET n == Cardinality(VisibleLoops)
    IN  /\ globalIterStackIdx = IF n < STK_MAX_SIZE THEN n - 1 ELSE STK_MAX_SIZE - 1
        /\ globalIterStackIdx_overflow =
             IF n > STK_MAX_SIZE THEN n - STK_MAX_SIZE - 1 ELSE -1
        /\ \A i \in VisibleLoops :
             Slot(i) < STK_MAX_SIZE - 1 =>
               globalIterStack[Slot(i)] = stack[i].iters % IterMod
        /\ \A k \in n .. STK_MAX_SIZE - 1 : globalIterStack[k] = 0

(***************************************************************************)
(* Whatever the hooks add and subtract modulo 2^32, the reported context   *)
(* only ever walks along the edges of the context tree.                    *)
(***************************************************************************)
Abstract == INSTANCE ContextSpec WITH
  tree <- cxtTree, running <- status = "running",
  here <- currentCtx, beneath <- disableCxtChange

WalksTheTree == Abstract!ContextSpec
=============================================================================
