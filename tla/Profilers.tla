----------------------------- MODULE Profilers -----------------------------
(***************************************************************************)
(* What the runtimes record.  A program whose hooks stand where they       *)
(* should runs over a given context tree, with one of four runtimes linked *)
(* in: loop execution times, time tracing, object tracing, queue profiling.*)
(*                                                                         *)
(* ContextRuntime and HookPlacement show when the hooks do stand there;    *)
(* exceptions are left out here.  A function that no call of the tree      *)
(* reaches (the library calls it back) has no call-site hooks, and its     *)
(* loops are hooked with the id 0.                                         *)
(***************************************************************************)
EXTENDS Integers, Sequences, FiniteSetsExt, SequencesExt

CONSTANTS
  Kinds,            \* the runtimes, of "exec", "trace", "objects", "queue"
  CallbackKinds,    \* those whose program has loops in functions called back
  Trees(_),         \* the trees of a runtime: node -> [parent, loop, recursive, uni],
                    \* the root 0 left out
  nContext,         \* entries of the time tables, one for each node
  MutedLocs,        \* local ids met below a recursive call
  CtxMod, STK_MAX_SIZE, IterMod,
  Words, WordSize, Sizes, InstrIDs,   \* memory, sizes and places of allocations
  ManyContexts,     \* from here on the drawing leaves small contexts out
  MaxDepth(_),      \* bound: calls and loops active at a time
  MaxTime,          \* bound: the clock, which starts at 1
  MaxAccesses,      \* bound: accesses of memory
  MaxWatched        \* bound: begin hooks of watched places

VARIABLES
  kind, tree,
  stack,            \* active calls and loops: [node, loc, loop, mutes]
  finished,         \* the destructor called Finalize
  now, spent,       \* the clock; time spent at each node
  currentCtx, disableCxtChange,
  globalIterStack, globalIterStackIdx, globalIterStackIdx_overflow,
  execTimeOfContext, tmpTimeOfContext, totalSometime, tmpSometime, nestingDepth, aborted,
  start_, ctx_time,
  tag, COCMap,
  owner,            \* word -> the id of the object there, NoOwner, or Foreign
  touched,          \* <<node, id>> -> accesses the program made
  strays,           \* accesses to memory of no tracked object that has a tag
  guard_ctxid, count,
  watched           \* unique ids the begin hooks were called with, but 0

(***************************************************************************)
(* What a context tree is, and that its ids fit the runtimes' 16 (or 32)   *)
(* bits; the tables of the time profilers have one entry for each node.    *)
(***************************************************************************)
ASSUME TreesAssumption ==
  \A k \in Kinds : \A t \in Trees(k) :
    /\ t \in Seq([parent : Nat, loop : BOOLEAN, recursive : BOOLEAN, uni : Nat])
    /\ \A n \in DOMAIN t : t[n].parent < n
    /\ Len(t) < CtxMod
    /\ k \in {"exec", "trace"} => nContext = Len(t) + 1

ASSUME SizesAssumption ==
  /\ CtxMod \in Nat /\ STK_MAX_SIZE \in Nat /\ nContext \in Nat
  /\ MutedLocs \subseteq Nat
  /\ Words \subseteq Nat /\ WordSize \in Nat \ {0} /\ Sizes \subseteq Nat \ {0}

Exec  == INSTANCE CampExec WITH exec_currentCtx <- currentCtx,
                                exec_disableCxtChange <- disableCxtChange
Trace == INSTANCE TimeTrace WITH Contexts <- 0 .. nContext - 1
Objs  == INSTANCE ObjectTrace
Queue == INSTANCE QueueProfiler
Iter  == INSTANCE IterStack

ctxVars   == <<currentCtx, disableCxtChange>>
iterVars  == <<globalIterStack, globalIterStackIdx, globalIterStackIdx_overflow>>
execVars  == <<execTimeOfContext, tmpTimeOfContext, totalSometime, tmpSometime, nestingDepth,
               aborted>>
traceVars == <<start_, ctx_time>>
objVars   == <<tag, COCMap>>
truthVars == <<owner, touched, strays>>
queueVars == <<guard_ctxid, count, watched>>
clockVars == <<now, spent>>
programVars == <<kind, tree, finished>>
vars == <<programVars, stack, clockVars, ctxVars, iterVars, execVars, traceVars, objVars,
          truthVars, queueVars>>

NoOwner == <<>>
Foreign == <<"foreign">>

Nodes    == 0 .. Len(tree)
Here     == IF stack = <<>> THEN 0 ELSE Last(stack).node
Muted    == \E i \in DOMAIN stack : stack[i].mutes
InLoop   == stack # <<>> /\ Last(stack).loop
Loc(n)   == n - tree[n].parent
Running  == ~ finished /\ ~ aborted

-----------------------------------------------------------------------------
(***************************************************************************)
(* A hook is that of the runtime linked in; the others' state is idle.     *)
(***************************************************************************)
ByKind(exec, trace, objects, queue) ==
  \/ kind = "exec"    /\ exec    /\ UNCHANGED <<iterVars, traceVars, objVars, queueVars>>
  \/ kind = "trace"   /\ trace   /\ UNCHANGED <<execVars, objVars, queueVars>>
  \/ kind = "objects" /\ objects /\ UNCHANGED <<execVars, traceVars, queueVars>>
  \/ kind = "queue"   /\ queue   /\ UNCHANGED <<execVars, traceVars, objVars>>

Note(uni) == watched' = IF uni = 0 THEN watched ELSE Append(watched, uni)

LoopBegin(loc, uni) ==
  ByKind(Exec!LoopBegin(loc), Trace!LoopBegin(loc), Objs!LoopBegin(loc),
         Queue!LoopBegin(loc, uni) /\ Note(IF Muted THEN 0 ELSE uni))

LoopNext ==
  ByKind(Exec!LoopNext, Trace!LoopNext, Objs!LoopNext, Queue!LoopNext /\ UNCHANGED watched)

LoopEnd(loc) ==
  ByKind(Exec!LoopEnd(loc), Trace!LoopEnd(loc), Objs!LoopEnd(loc),
         Queue!LoopEnd(loc) /\ UNCHANGED watched)

CallSiteBegin(loc, uni) ==
  ByKind(Exec!CallSiteBegin(loc), Trace!CallSiteBegin(loc), Objs!CallSiteBegin(loc),
         Queue!CallSiteBegin(loc, uni) /\ Note(uni))

CallSiteEnd(loc) ==
  ByKind(Exec!CallSiteEnd(loc), Trace!CallSiteEnd(loc), Objs!CallSiteEnd(loc),
         Queue!CallSiteEnd(loc) /\ UNCHANGED watched)

-----------------------------------------------------------------------------
(***************************************************************************)
(* The program.  The hooks of a recursive call are two: CallSiteBegin and  *)
(* DisableCtxtChange before it, EnableCtxtChange and CallSiteEnd after it; *)
(* they are taken in two steps.                                            *)
(***************************************************************************)
Init ==
  /\ kind \in Kinds /\ tree \in Trees(kind)
  /\ stack = <<>> /\ finished = FALSE
  /\ now = 1 /\ spent = [n \in Nodes |-> 0]
  /\ currentCtx = 0 /\ disableCxtChange = 0
  /\ Iter!EmptyStack /\ Exec!Initialize /\ Trace!Initialize /\ Objs!Initialize
  /\ Queue!Initialize /\ watched = <<>>
  /\ owner = [w \in Words |-> NoOwner] /\ touched = <<>> /\ strays = 0

Push(node, loc, loop) ==
  stack' = Append(stack, [node |-> node, loc |-> loc, loop |-> loop, mutes |-> FALSE])

CanEnter ==
  /\ Running /\ Len(stack) < MaxDepth(kind) /\ Len(watched) < MaxWatched
  /\ (Here # 0 /\ tree[Here].recursive) => Muted  \* DisableCtxtChange first

\* In a function called back: what it calls is not followed.
CalledBack == stack # <<>> /\ Last(stack).loc = 0

Enter(n) ==
  /\ CanEnter /\ ~ Muted /\ ~ CalledBack /\ tree[n].parent = Here
  /\ IF tree[n].loop THEN LoopBegin(Loc(n), tree[n].uni) ELSE CallSiteBegin(Loc(n), tree[n].uni)
  /\ Push(n, Loc(n), tree[n].loop)
  /\ UNCHANGED <<programVars, clockVars, truthVars>>

\* Any hooked place may be met again below a recursive call.
EnterMuted(loc, uni, loop) ==
  /\ CanEnter /\ Muted
  /\ IF loop THEN LoopBegin(loc, uni) ELSE CallSiteBegin(loc, uni)
  /\ Push(Here, loc, loop)
  /\ UNCHANGED <<programVars, clockVars, truthVars>>

EnterCallbackLoop ==
  /\ CanEnter /\ kind \in CallbackKinds
  /\ LoopBegin(0, 0)
  /\ Push(Here, 0, TRUE)
  /\ UNCHANGED <<programVars, clockVars, truthVars>>

GoRound ==
  /\ Running /\ InLoop
  /\ LoopNext
  /\ UNCHANGED <<programVars, stack, clockVars, truthVars>>

RecursiveTop == ~ InLoop /\ Here # 0 /\ tree[Here].recursive

DisableCtxtChange ==
  /\ Running /\ RecursiveTop /\ ~ Last(stack).mutes /\ (Muted => Len(stack) < MaxDepth(kind))
  /\ disableCxtChange' = disableCxtChange + 1
  /\ stack' = [stack EXCEPT ![Len(stack)].mutes = TRUE]
  /\ UNCHANGED <<programVars, clockVars, currentCtx, iterVars, execVars, traceVars, objVars,
                 truthVars, queueVars>>

EnableCtxtChange ==
  /\ Running /\ stack # <<>> /\ Last(stack).mutes
  /\ disableCxtChange' = disableCxtChange - 1
  /\ stack' = [stack EXCEPT ![Len(stack)].mutes = FALSE]
  /\ UNCHANGED <<programVars, clockVars, currentCtx, iterVars, execVars, traceVars, objVars,
                 truthVars, queueVars>>

Leave ==
  /\ Running /\ stack # <<>> /\ ~ Last(stack).mutes
  /\ IF InLoop THEN LoopEnd(Last(stack).loc) ELSE CallSiteEnd(Last(stack).loc)
  /\ stack' = Front(stack)
  /\ UNCHANGED <<programVars, clockVars, truthVars>>

Tick ==
  /\ Running /\ kind \in {"exec", "trace"} /\ now < MaxTime
  /\ now' = now + 1
  /\ spent' = [spent EXCEPT ![Here] = @ + 1]
  /\ UNCHANGED <<programVars, stack, ctxVars, iterVars, execVars, traceVars, objVars, truthVars,
                 queueVars>>

\* main returns, or exit() is called somewhere.
Finish ==
  /\ Running
  /\ finished' = TRUE
  /\ IF kind = "exec" THEN Exec!Finalize ELSE UNCHANGED <<ctxVars, execVars>>
  /\ UNCHANGED <<kind, tree, stack, clockVars, iterVars, traceVars, objVars, truthVars, queueVars>>

-----------------------------------------------------------------------------
(***************************************************************************)
(* Memory, in the program that traces objects.                             *)
(***************************************************************************)
Tracing == Running /\ kind = "objects"
Extent(addr, size) == {w \in Words : w >= addr /\ w * WordSize < addr * WordSize + size}
Fits(addr, size)   == addr * WordSize + size <= Cardinality(Words) * WordSize
IsFree(ws)         == \A w \in ws : owner[w] = NoOwner
Own(ws, id)        == owner' = [w \in Words |-> IF w \in ws THEN id ELSE owner[w]]

Allocate(addr, size, instr) ==
  /\ Tracing /\ Fits(addr, size) /\ IsFree(Extent(addr, size))
  /\ Objs!Allocated(addr, size, instr)
  /\ Own(Extent(addr, size), <<Here, instr>>)
  /\ UNCHANGED <<programVars, stack, clockVars, execVars, traceVars, queueVars, touched, strays>>

\* Memory allocated by code without hooks.
AllocateUnhooked(addr, size) ==
  /\ Tracing /\ Fits(addr, size) /\ IsFree(Extent(addr, size))
  /\ Own(Extent(addr, size), Foreign)
  /\ UNCHANGED <<programVars, stack, clockVars, ctxVars, iterVars, execVars, traceVars, objVars,
                 queueVars, touched, strays>>

\* All the memory of one id is returned.
Free(id) ==
  /\ Tracing /\ id # NoOwner
  /\ \E w \in Words : owner[w] = id
  /\ Own({w \in Words : owner[w] = id}, NoOwner)
  /\ UNCHANGED <<programVars, stack, clockVars, ctxVars, iterVars, execVars, traceVars, objVars,
                 queueVars, touched, strays>>

Sum(f) == FoldFunction(+, 0, f)

AccessWord(w) ==
  /\ Tracing /\ owner[w] # NoOwner /\ Sum(touched) + strays < MaxAccesses
  /\ Objs!Access(w)
  /\ IF owner[w] = Foreign
     THEN /\ strays' = IF tag[w] = Objs!NoTag THEN strays ELSE strays + 1
          /\ UNCHANGED touched
     ELSE /\ touched' = LET k == <<Here, owner[w]>>
                        IN  [j \in DOMAIN touched \cup {k} |->
                               (IF j \in DOMAIN touched THEN touched[j] ELSE 0)
                               + (IF j = k THEN 1 ELSE 0)]
          /\ UNCHANGED strays
  /\ UNCHANGED <<programVars, stack, clockVars, execVars, traceVars, queueVars, owner>>

Next ==
  \/ \E n \in DOMAIN tree : Enter(n)
  \/ \E loc \in MutedLocs, n \in DOMAIN tree, loop \in BOOLEAN : EnterMuted(loc, tree[n].uni, loop)
  \/ EnterCallbackLoop
  \/ GoRound
  \/ DisableCtxtChange
  \/ EnableCtxtChange
  \/ Leave
  \/ Tick
  \/ Finish
  \/ \E addr \in Words, size \in Sizes :
       AllocateUnhooked(addr, size) \/ \E i \in InstrIDs : Allocate(addr, size, i)
  \/ \E w \in Words : Free(owner[w]) \/ AccessWord(w)

Spec == Init /\ [][Next]_vars

-----------------------------------------------------------------------------
PathUp[n \in Nodes] == {n} \cup (IF n = 0 THEN {} ELSE PathUp[tree[n].parent])
Within(n, top) == top \in PathUp[n]

TimeOf(S)    == FoldFunctionOnSet(+, 0, spent, S)
Inclusive(n) == TimeOf({m \in Nodes : Within(m, n)})
InsideLoop(n) == \E l \in PathUp[n] \ {0} : tree[l].loop

(***************************************************************************)
(* The loop execution times: what a context has been charged, and what     *)
(* runs on since it was opened, is the time the program was in the context *)
(* or below it, however often and in whatever order contexts were entered. *)
(* A context has a start time exactly while the program is in it.          *)
(***************************************************************************)
Open(n) == \E i \in DOMAIN stack : stack[i].node = n

ExecTimeIsInclusive ==
  kind = "exec" =>
    /\ \A n \in DOMAIN tree :
         LET running == IF tmpTimeOfContext[n] = 0 THEN 0 ELSE now - tmpTimeOfContext[n]
         IN  /\ execTimeOfContext[n] + running = Inclusive(n)
             /\ tmpTimeOfContext[n] # 0 <=> Open(n)
    /\ finished => execTimeOfContext[0] = Inclusive(0)

(***************************************************************************)
(* "Total Loop Time" is the time during which at least one loop of the     *)
(* tree was open: nested loops are not counted twice, time between two     *)
(* loops not at all.                                                       *)
(***************************************************************************)
TotalIsTimeInLoops ==
  kind = "exec" =>
    totalSometime + (IF nestingDepth > 0 THEN now - tmpSometime ELSE 0)
      = TimeOf({n \in Nodes : InsideLoop(n)})

(***************************************************************************)
(* The drawing of the execution times, with loops or without: when main    *)
(* has returned, each context in it hangs on the nearest context above it  *)
(* that the drawing could show, up to the root, although the edges and the *)
(* nodes are chosen separately; and what the table calls critical is red.  *)
(* (After exit() the open contexts lack the time they ran last.)           *)
(***************************************************************************)
DrawingIsConnected ==
  kind = "exec" /\ finished /\ stack = <<>> =>
    \A removeLoop \in BOOLEAN :
      LET drawn == Exec!DrawnContexts(removeLoop)
          ids   == {d.id : d \in drawn}
          edges == Exec!DrawnEdges(removeLoop)
      IN  /\ \A c \in ids \ {0} : \E p \in ids : <<p, c>> \in edges
          /\ \A e \in edges : \A q \in PathUp[e[2]] \ {e[2]} :
               (removeLoop /\ q # 0 /\ tree[q].loop) \/ Within(e[1], q)
          /\ \A i \in DOMAIN Exec!TimeTable :
               LET row == Exec!TimeTable[i]
               IN  row.critical /\ ~ (removeLoop /\ row.line.loop)
                     => [id |-> i, red |-> TRUE] \in drawn

(***************************************************************************)
(* Time tracing: the root and every loop have exactly the time spent there *)
(* and not in an inner context (the innermost one with the segment that    *)
(* runs on); a called context never has less, but may have more: the       *)
(* segment before the call is counted for the callee a second time.        *)
(***************************************************************************)
OnlyCallsCountTwice ==
  kind = "trace" =>
    \A n \in Nodes :
      LET time == ctx_time[n] + (IF n = Here THEN now - start_ ELSE 0)
      IN  IF n = 0 \/ tree[n].loop THEN time = spent[n] ELSE time >= spent[n]

(***************************************************************************)
(* Object tracing: every access of a live tracked object is counted, under *)
(* the context and the object it belongs to; the table has more only by    *)
(* accesses of memory whose former owner was tracked and whose present one *)
(* is not.                                                                 *)
(***************************************************************************)
CountsAreOfObjects ==
  /\ \A k \in DOMAIN touched : k \in DOMAIN COCMap /\ COCMap[k] >= touched[k]
  /\ Sum(COCMap) = Sum(touched) + strays

(***************************************************************************)
(* The queue profiler counts how often the watched context changes, the    *)
(* first one included, over all begin hooks that ran: loops below a        *)
(* recursive call are not seen, calls are.                                 *)
(***************************************************************************)
QueueCountsChanges ==
  /\ count = Cardinality({i \in DOMAIN watched : i = 1 \/ watched[i] # watched[i - 1]})
  /\ watched # <<>> => guard_ctxid = Last(watched)

(***************************************************************************)
(* At any time the runtime has a slot or an overflow for each loop the     *)
(* program is in outside recursive calls, the loops of functions called    *)
(* back included, and the reported context is the innermost one.           *)
(***************************************************************************)
MutedFrom == CHOOSE i \in 1 .. Len(stack) + 1 :
               /\ i = Len(stack) + 1 \/ stack[i].mutes
               /\ \A j \in 1 .. i - 1 : ~ stack[j].mutes

ContextAndLoopsKept ==
  /\ ~ finished => currentCtx = Here
  /\ disableCxtChange = Cardinality({i \in DOMAIN stack : stack[i].mutes})
  /\ kind # "exec" =>
       LET loops == Cardinality({i \in 1 .. MutedFrom - 1 : stack[i].loop})
       IN  /\ globalIterStackIdx = (IF loops < STK_MAX_SIZE THEN loops ELSE STK_MAX_SIZE) - 1
           /\ Iter!Depth = loops

(***************************************************************************)
(* The assertion of LoopEnd (campExecRuntime.cpp:416): the context of a    *)
(* loop that ends has a start time.                                        *)
(***************************************************************************)
NoAssertionFails == ~ aborted
=============================================================================
