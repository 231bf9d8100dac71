----------------------------- MODULE HookEdits -----------------------------
(***************************************************************************)
(* What the instrumentation passes do to the basic blocks of a function.   *)
(* All five passes carry the same code, so it is written once here and     *)
(* every pass (modules CAMP, CampExectime, CtxObjtrace, ObjTrace,          *)
(* Qprofiler) says which functions it calls and in which order it edits.   *)
(*                                                                         *)
(* A function under instrumentation is a record: the instructions of every *)
(* block and its successors.  Blocks are numbers, the entry block is 1, a  *)
(* new block gets the next number.  An instruction is <<op, argument>>;    *)
(* the last one of a block is its terminator.  PHI nodes are not           *)
(* represented: their incoming blocks follow the edges that are split.     *)
(*                                                                         *)
(* What LoopInfo and the context tree say of the function does not change  *)
(* while it is edited: shape.loops[l] has the header and the blocks of     *)
(* loop l, shape.sites[s] the candidate targets of call site s, whether it *)
(* is indirect, and whether its first tree node is recursive.              *)
(*                                                                         *)
(* The last part is how a pass has its own functions called at the start   *)
(* and at the end.                                                         *)
(***************************************************************************)
EXTENDS Naturals, Sequences, FiniteSets, FiniteSetsExt, Functions

\* The lists of a list, one behind the other (FlattenSeq of SequencesExt, whose
\* bags every pass would bring into every proof about their composition).
Joined(lists) ==
  IF Len(lists) = 0 THEN lists ELSE
    LET joined[i \in 1 .. Len(lists)] ==
          IF i = 1 THEN lists[i] ELSE joined[i - 1] \o lists[i]
    IN  joined[Len(lists)]

Terminators == {"br", "ret", "resume", "invoke", "icmp"}

Preds(fn, t) == {b \in DOMAIN fn.succ : t \in Range(fn.succ[b])}
IsLandingPad(fn, b) == fn.code[b][1][1] = "pad"

Insert(fn, b, i, ins) ==
  [fn EXCEPT !.code[b] = SubSeq(@, 1, i - 1) \o ins \o SubSeq(@, i, Len(@))]

AtFront(fn, b, ins)          == Insert(fn, b, 1, ins)
AfterPad(fn, b, ins)         == Insert(fn, b, 2, ins)
BeforeTerminator(fn, b, ins) == Insert(fn, b, Len(fn.code[b]), ins)

NewBlock(fn, ins, succ) ==
  [fn EXCEPT !.code = Append(@, ins), !.succ = Append(@, succ)]
Newest(fn) == Len(fn.code)

-----------------------------------------------------------------------------
(***************************************************************************)
(* Loops: LoopBegin in the preheader, LoopNext in the header, LoopEnd on   *)
(* every edge that leaves the loop: in a block of its own on the edge, or, *)
(* if the edge enters a landing pad, behind the landingpad instruction.    *)
(***************************************************************************)
Preheader(fn, loop) == CHOOSE b \in Preds(fn, loop.header) : b \notin loop.blocks

Exits(fn, loop) ==
  {e \in loop.blocks \X (1 .. 3) :
     e[2] \in DOMAIN fn.succ[e[1]] /\ fn.succ[e[1]][e[2]] \notin loop.blocks}

IsExiting(fn, loop, b) == b \in loop.blocks /\ \E i \in DOMAIN fn.succ[b] :
                                                  fn.succ[b][i] \notin loop.blocks

\* Faulty: every successor of the exiting block becomes the new block.
EndOnEdges(fn, loop, b, i, end) ==
  LET target == fn.succ[b][i]
  IN  IF IsLandingPad(fn, target)
      THEN [AfterPad(fn, target, <<end>>) EXCEPT
              !.asserts = @ /\ \A p \in Preds(fn, target) : IsExiting(fn, loop, p)]
      ELSE LET split == NewBlock(fn, <<end, <<"br", 0>> >>, <<target>>)
           IN  [split EXCEPT !.succ[b] = [j \in DOMAIN @ |-> Newest(split)]]

\* Faulty: an edge into a landing pad is split like the others.
EndOnNewBlock(fn, loop, b, i, end) ==
  LET split == NewBlock(fn, <<end, <<"br", 0>> >>, <<fn.succ[b][i]>>)
  IN  [split EXCEPT !.succ[b][i] = Newest(split)]

EndOnEdge(fn, loop, b, i, end) ==
  LET target == fn.succ[b][i]
  IN  IF IsLandingPad(fn, target)
      THEN [AfterPad(fn, target, <<end>>) EXCEPT
              !.asserts = @ /\ \A p \in Preds(fn, target) : IsExiting(fn, loop, p)]
      ELSE LET split == NewBlock(fn, <<end, <<"br", 0>> >>, <<target>>)
           IN  [split EXCEPT !.succ[b][i] = Newest(split)]

\* Faulty: the iteration is counted at the back edge.
HookLoopInLatch(fn, shape, l, hooks, uniID) ==
  LET loop  == shape.loops[l]
      begun == BeforeTerminator(fn, Preheader(fn, loop), << <<hooks.LoopBegin, l, uniID>> >>)
      ended == FoldSet(LAMBDA e, f : EndOnEdge(f, loop, e[1], e[2], <<hooks.LoopEnd, l>>),
                       begun, Exits(begun, loop))
      latch == CHOOSE b \in Preds(fn, loop.header) : b \in loop.blocks
  IN  BeforeTerminator(ended, latch, << <<hooks.LoopNext, 0>> >>)

HookLoop(fn, shape, l, hooks, uniID) ==
  LET loop  == shape.loops[l]
      begun == BeforeTerminator(fn, Preheader(fn, loop), << <<hooks.LoopBegin, l, uniID>> >>)
      ended == FoldSet(LAMBDA e, f : EndOnEdge(f, loop, e[1], e[2], <<hooks.LoopEnd, l>>),
                       begun, Exits(begun, loop))
  IN  AtFront(ended, loop.header, << <<hooks.LoopNext, 0>> >>)

-----------------------------------------------------------------------------
(***************************************************************************)
(* Call sites: CallSiteBegin (and Disable) before the call, Enable and     *)
(* CallSiteEnd behind it, which for an invoke means at the beginning of    *)
(* the normal destination and behind the landingpad instruction.           *)
(***************************************************************************)
PlaceOf(fn, s) ==
  CHOOSE p \in (DOMAIN fn.code) \X (1 .. 20) :
    /\ p[2] \in DOMAIN fn.code[p[1]]
    /\ fn.code[p[1]][p[2]] \in {<<"call", s>>, <<"invoke", s>>}

HookSite(fn, shape, s, hooks, uniID) ==
  LET b     == PlaceOf(fn, s)[1]
      i     == PlaceOf(fn, s)[2]
      mutes == shape.sites[s].recursive
      begin == << <<hooks.CallSiteBegin, s, uniID>> >> \o
               (IF mutes THEN << <<hooks.DisableCtxtChange, 0>> >> ELSE <<>>)
      end   == (IF mutes THEN << <<hooks.EnableCtxtChange, 0>> >> ELSE <<>>) \o
               << <<hooks.CallSiteEnd, s>> >>
      begun == Insert(fn, b, i, begin)
  IN  IF fn.code[b][i][1] = "invoke"
      THEN AfterPad(AtFront(begun, fn.succ[b][1], end), fn.succ[b][2], end)
      ELSE Insert(begun, b, i + Len(begin) + 1, end)

(***************************************************************************)
(* Indirect calls: the block is split before the call; in front of the new *)
(* block a chain of comparisons of the called value with every candidate   *)
(* stores the candidate's local id, which the call's hooks then load.      *)
(***************************************************************************)
SplitBefore(fn, b, i) ==
  LET tail == NewBlock(fn, SubSeq(fn.code[b], i, Len(fn.code[b])), fn.succ[b])
  IN  [tail EXCEPT !.code[b] = SubSeq(@, 1, i - 1) \o << <<"br", 0>> >>,
                   !.succ[b] = <<Newest(tail)>>]

\* One candidate: <<function, block the chain has come to>>.
CompareTarget(acc, s, target, after) ==
  LET noMatch == NewBlock(acc.fn, << <<"br", 0>> >>, <<after>>)
      assign  == NewBlock(noMatch, << <<"setid", <<s, target>> >>, <<"br", 0>> >>, <<after>>)
      at      == Len(acc.fn.code[acc.block])
  IN  [fn |-> [assign EXCEPT !.code[acc.block][at] = <<"icmp", <<s, target>> >>,
                             !.succ[acc.block] = <<Newest(assign), Newest(noMatch)>>],
       block |-> Newest(noMatch)]

HookIndirect(fn, shape, s) ==
  LET b     == PlaceOf(fn, s)[1]
      split == SplitBefore(fn, b, PlaceOf(fn, s)[2])
      after == Newest(split)
      targets == shape.sites[s].targets
      chain[i \in 0 .. Len(targets)] ==
        IF i = 0 THEN [fn |-> AtFront(split, after, << <<"loadid", s>> >>), block |-> b]
        ELSE CompareTarget(chain[i - 1], s, targets[i], after)
  IN  chain[Len(targets)].fn

-----------------------------------------------------------------------------
(***************************************************************************)
(* Memory: a hook before every store and before every load that not only   *)
(* getelementptr instructions use; an allocation function is replaced.     *)
(***************************************************************************)
isUseOfGetElementPtrInst(ins) == ins[1] = "loadgep"

\* Every instruction becomes its image, a sequence of instructions.
EachInstruction(fn, image) ==
  [fn EXCEPT !.code = [b \in DOMAIN fn.code |->
     Joined([i \in DOMAIN fn.code[b] |-> image[fn.code[b][i]]])]]

Instructions(fn) == UNION {Range(fn.code[b]) : b \in DOMAIN fn.code}

\* The types a value goes through on its way from one type to another: an
\* integer of its size, an integer of the other size, the other type.
Integer(bits) == [kind |-> "integer", bits |-> bits]
Pointer(bits) == [kind |-> "pointer", bits |-> bits]

CastTo(from, to) ==
  LET Unless(same, type) == IF same THEN <<>> ELSE <<type>>
  IN  Unless(from = Integer(from.bits), Integer(from.bits))
      \o Unless(from.bits = to.bits, Integer(to.bits))
      \o Unless(Integer(to.bits) = to, to)

\* InstInsertPt::Before
Before(ins, new) == new \o <<ins>>

\* The address goes through the given types to the 64 bits of the hook.
HookAccesses(fn, hooks, address) ==
  LET Hook(ins, hook) == Before(ins, [i \in DOMAIN address |-> <<"cast", address[i]>>]
                                     \o << <<hook, ins[2]>> >>)
  IN  EachInstruction(fn, [ins \in Instructions(fn) |->
        CASE ins[1] \in {"load", "loadgep"} /\ ~ isUseOfGetElementPtrInst(ins)
                              -> Hook(ins, hooks.LoadInstr)
          [] ins[1] = "store" -> Hook(ins, hooks.StoreInstr)
          [] OTHER            -> << ins >>])

HookAllocators(fn, replaced) ==
  EachInstruction(fn, [ins \in Instructions(fn) |->
    IF ins[1] \in DOMAIN replaced THEN << <<replaced[ins[1]], ins[2]>> >> ELSE << ins >>])

-----------------------------------------------------------------------------
(***************************************************************************)
(* The tables a pass goes through.  Loops come by ascending context id,    *)
(* which numbers an outer loop before the loops in it.                     *)
(***************************************************************************)
\* Faulty: inner loops first.
LoopsInnermostFirst(shape) ==
  [l \in DOMAIN shape.loops |-> {<<"loop", Len(shape.loops) + 1 - l>>}]

LoopsOutermostFirst(shape) == [l \in DOMAIN shape.loops |-> {<<"loop", l>>}]
IndirectEdits(shape) ==
  {<<"indirect", s>> : s \in {t \in DOMAIN shape.sites : shape.sites[t].indirect}}
SiteEdits(shape) ==
  {<<"site", s>> : s \in {t \in DOMAIN shape.sites : ~ shape.sites[t].indirect}}

-----------------------------------------------------------------------------
(***************************************************************************)
(* lib/Utilities/GlobalCtors.cpp: how a pass gets its own function called  *)
(* before main (llvm.global_ctors) and after it (llvm.global_dtors).  A    *)
(* record of such a list has a priority and calls one function, or, for a  *)
(* driver made here, several in a row.  The loader runs constructors with  *)
(* the smallest priority first and destructors with the largest first;     *)
(* records of one priority run in any order.                               *)
(***************************************************************************)
DefaultPriority == 65535

Record(priority, calls) == [priority |-> priority, calls |-> calls]

\* Faulty: the functions that move are called before the new one.
DriverCallsUsLast(list, f, priority, ascending) ==
  LET After(r) == IF ascending THEN r.priority > priority ELSE r.priority < priority
      stays == Joined([i \in DOMAIN list |-> IF After(list[i]) THEN <<>> ELSE <<list[i]>>])
      moved == Joined([i \in DOMAIN list |-> IF After(list[i]) THEN list[i].calls ELSE <<>>])
  IN  Append(stays, Record(priority, moved \o <<f>>))

(***************************************************************************)
(* The records that must come after the new function move into a driver    *)
(* that calls the new function and then them; the others stay.             *)
(***************************************************************************)
appendToConstructorArray(list, f, priority, ascending) ==
  LET After(r) == IF ascending THEN r.priority > priority ELSE r.priority < priority
      stays == Joined([i \in DOMAIN list |-> IF After(list[i]) THEN <<>> ELSE <<list[i]>>])
      moved == Joined([i \in DOMAIN list |-> IF After(list[i]) THEN list[i].calls ELSE <<>>])
  IN  Append(stays, Record(priority, <<f>> \o moved))

callBeforeMain(list, f, priority) == appendToConstructorArray(list, f, priority, TRUE)
callAfterMain(list, f, priority)  == appendToConstructorArray(list, f, priority, FALSE)

\* Whether the loader is sure to run x before y.
RunsBefore(list, ascending, x, y) ==
  \E i, j \in DOMAIN list :
    /\ x \in Range(list[i].calls) /\ y \in Range(list[j].calls)
    /\ \/ ascending /\ list[i].priority < list[j].priority
       \/ ~ ascending /\ list[i].priority > list[j].priority
       \/ /\ i = j
          /\ \E m, n \in DOMAIN list[i].calls :
               m < n /\ list[i].calls[m] = x /\ list[i].calls[n] = y
=============================================================================
