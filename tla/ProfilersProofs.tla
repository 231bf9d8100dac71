-------------------------- MODULE ProfilersProofs --------------------------
(***************************************************************************)
(* For every context tree and every program that runs over it: what the    *)
(* four runtimes record is what their users take it for.                   *)
(***************************************************************************)
EXTENDS Profilers, FiniteSetTheorems, SequenceTheorems, WellFoundedInduction, TLAPS

(***************************************************************************)
(* A stack, as a sequence: the recursive calls that mute the hooks, and    *)
(* the loops the runtime has a slot or an overflow for.                    *)
(***************************************************************************)
Frames == [node : Nat, loc : Nat, loop : BOOLEAN, mutes : BOOLEAN]

Stacks == {s \in Seq(Frames) : \A i \in DOMAIN s : ~ (s[i].mutes /\ s[i].loop)}

Muters(s)  == {i \in DOMAIN s : s[i].mutes}
Counted(s) == {i \in DOMAIN s : s[i].loop /\ \A j \in 1 .. i : ~ s[j].mutes}

TopOf(s) == IF s = <<>> THEN 0 ELSE s[Len(s)].node

(***************************************************************************)
(* How an entry came onto the stack: along an edge of the tree, as a loop  *)
(* of a function called back, or with hooks muted.                         *)
(***************************************************************************)
Below(s, i)        == IF i = 1 THEN 0 ELSE s[i - 1].node
EnteredMuted(s, i) == \E j \in 1 .. i - 1 : s[j].mutes

ByEdge(s, i) ==
  /\ s[i].node \in DOMAIN tree
  /\ tree[s[i].node].parent = Below(s, i)
  /\ s[i].loc = Loc(s[i].node)
  /\ s[i].loop = tree[s[i].node].loop

ByCallback(s, i) ==
  /\ kind \in CallbackKinds
  /\ s[i].node = Below(s, i) /\ s[i].loc = 0 /\ s[i].loop

StackRight(s) ==
  \A i \in DOMAIN s :
    IF EnteredMuted(s, i) THEN s[i].node = Below(s, i) ELSE ByEdge(s, i) \/ ByCallback(s, i)

Slots(n) == IF n < STK_MAX_SIZE THEN n ELSE STK_MAX_SIZE

BaseInv ==
  /\ kind \in Kinds /\ tree \in Trees(kind)
  /\ stack \in Stacks
  /\ StackRight(stack)
  /\ currentCtx = TopOf(stack) /\ currentCtx \in Nodes
  /\ disableCxtChange = Cardinality(Muters(stack))
  /\ kind # "exec" =>
       /\ globalIterStackIdx = Slots(Cardinality(Counted(stack))) - 1
       /\ globalIterStackIdx_overflow
            = Cardinality(Counted(stack)) - Slots(Cardinality(Counted(stack))) - 1

-----------------------------------------------------------------------------
(***************************************************************************)
(* Operations on stacks.                                                   *)
(***************************************************************************)
LEMMA StackFacts ==
  ASSUME NEW s \in Stacks
  PROVE  /\ s \in Seq(Frames) /\ Len(s) \in Nat /\ DOMAIN s = 1 .. Len(s)
         /\ \A i \in 1 .. Len(s) : s[i] \in Frames
         /\ \A i \in 1 .. Len(s) : s[i].mutes \in BOOLEAN /\ s[i].loop \in BOOLEAN
                                   /\ s[i].node \in Nat /\ s[i].loc \in Nat
         /\ \A i \in 1 .. Len(s) : ~ (s[i].mutes /\ s[i].loop)
         /\ s # <<>> => Len(s) >= 1
         /\ IsFiniteSet(Muters(s)) /\ IsFiniteSet(Counted(s))
         /\ Muters(s) \subseteq 1 .. Len(s) /\ Counted(s) \subseteq 1 .. Len(s)
<1>1. /\ s \in Seq(Frames) /\ Len(s) \in Nat /\ DOMAIN s = 1 .. Len(s)
      /\ s # <<>> => Len(s) >= 1
  BY EmptySeq, LenProperties DEF Stacks
<1>2. \A i \in 1 .. Len(s) : s[i] \in Frames
  BY <1>1, ElementOfSeq
<1>3. IsFiniteSet(Muters(s)) /\ IsFiniteSet(Counted(s))
  <2>1. IsFiniteSet(1 .. Len(s))
    BY <1>1, FS_Interval
  <2> QED
    BY <1>1, <2>1, FS_Subset DEF Muters, Counted
<1> QED
  BY <1>1, <1>2, <1>3 DEF Stacks, Muters, Counted, Frames

Pushed(s, e, t) ==
  /\ t \in Stacks /\ TopOf(t) = e.node
  /\ Len(t) = Len(s) + 1 /\ DOMAIN t = 1 .. Len(s) + 1 /\ t[Len(s) + 1] = e
  /\ \A i \in 1 .. Len(s) : t[i] = s[i]
  /\ Muters(t) = Muters(s)
  /\ Counted(t) = IF e.loop /\ Muters(s) = {} THEN Counted(s) \cup {Len(s) + 1}
                                              ELSE Counted(s)

LEMMA PushFacts ==
  ASSUME NEW s \in Stacks, NEW e \in Frames, ~ e.mutes, NEW t, t = Append(s, e)
  PROVE  Pushed(s, e, t)
<1>1. /\ t \in Seq(Frames) /\ Len(t) = Len(s) + 1 /\ t[Len(s) + 1] = e
      /\ DOMAIN t = 1 .. Len(s) + 1
      /\ \A i \in 1 .. Len(s) : t[i] = s[i]
  BY StackFacts, AppendProperties, LenProperties
<1>2. Len(s) \in Nat /\ DOMAIN s = 1 .. Len(s)
  BY StackFacts
<1>3. ASSUME NEW i \in 1 .. Len(s) + 1
      PROVE  i \in 1 .. Len(s) \/ (i = Len(s) + 1 /\ t[i] = e)
  BY <1>1, <1>2
<1>4. t \in Stacks
  <2>1. \A i \in 1 .. Len(s) : ~ (s[i].mutes /\ s[i].loop)
    BY StackFacts
  <2>2. \A i \in 1 .. Len(s) + 1 : ~ (t[i].mutes /\ t[i].loop)
    BY <1>1, <1>3, <2>1
  <2> QED
    BY <1>1, <2>2 DEF Stacks
<1>5. Muters(t) = Muters(s)
  BY <1>1, <1>2, <1>3 DEF Muters
<1>6. Counted(t) = IF e.loop /\ Muters(s) = {} THEN Counted(s) \cup {Len(s) + 1}
                                               ELSE Counted(s)
  <2>1. ASSUME NEW i \in 1 .. Len(s)
        PROVE  i \in Counted(t) <=> i \in Counted(s)
    <3>1. \A j \in 1 .. i : t[j] = s[j]
      BY <1>1, <1>2
    <3>2. i \in 1 .. i
      BY <1>2
    <3> QED
      BY <1>1, <1>2, <3>1, <3>2 DEF Counted
  <2>2. Len(s) + 1 \in Counted(t) <=> e.loop /\ Muters(s) = {}
    <3>1. Len(s) + 1 \in Counted(t) <=> e.loop /\ \A j \in 1 .. Len(s) + 1 : ~ t[j].mutes
      BY <1>1, <1>2 DEF Counted
    <3>2. (\A j \in 1 .. Len(s) + 1 : ~ t[j].mutes) <=> Muters(t) = {}
      BY <1>1 DEF Muters
    <3> QED
      BY <1>5, <3>1, <3>2
  <2>3. Counted(t) \subseteq 1 .. Len(s) + 1 /\ Counted(s) \subseteq 1 .. Len(s)
    BY <1>1, StackFacts DEF Counted
  <2>4. Len(s) + 1 \notin 1 .. Len(s) /\ \A i \in 1 .. Len(s) + 1 : i # Len(s) + 1 => i \in 1 .. Len(s)
    BY <1>2
  <2>5. CASE e.loop /\ Muters(s) = {}
    <3>1. Counted(t) = Counted(s) \cup {Len(s) + 1}
      BY <2>1, <2>2, <2>3, <2>4, <2>5, Zenon
    <3> QED
      BY <2>5, <3>1
  <2>6. CASE ~ (e.loop /\ Muters(s) = {})
    <3>1. Counted(t) = Counted(s)
      BY <2>1, <2>2, <2>3, <2>4, <2>6, Zenon
    <3> QED
      BY <2>6, <3>1
  <2> QED
    BY <2>5, <2>6
<1>7. TopOf(t) = e.node
  BY <1>1, <1>2, EmptySeq DEF TopOf
<1> QED
  BY <1>1, <1>4, <1>5, <1>6, <1>7, Zenon DEF Pushed

Popped(s, t) ==
  /\ t \in Stacks /\ Len(t) = Len(s) - 1 /\ DOMAIN t = 1 .. Len(s) - 1
  /\ \A i \in 1 .. Len(s) - 1 : t[i] = s[i]
  /\ TopOf(t) = Below(s, Len(s))
  /\ Muters(t) = Muters(s)
  /\ Counted(t) = Counted(s) \ {Len(s)}
  /\ Len(s) \in Counted(s) <=> s[Len(s)].loop /\ Muters(s) = {}

LEMMA PopFacts ==
  ASSUME NEW s \in Stacks, s # <<>>, ~ s[Len(s)].mutes, NEW t, t = Front(s)
  PROVE  Popped(s, t)
<1>1. Len(s) \in Nat \ {0} /\ DOMAIN s = 1 .. Len(s) /\ s \in Seq(Frames)
  BY StackFacts, EmptySeq
<1>2. PICK n : n = Len(s) - 1
  OBVIOUS
<1>3. n \in Nat /\ Len(s) = n + 1
  BY <1>1, <1>2
<1>4. t = SubSeq(s, 1, n)
  BY <1>2 DEF Front
<1>5. /\ t \in Seq(Frames) /\ Len(t) = n /\ DOMAIN t = 1 .. n
      /\ \A i \in 1 .. n : t[i] = s[i]
  BY <1>1, <1>3, <1>4, SubSeqProperties, LenProperties
<1>6. t \in Stacks
  BY <1>3, <1>5, StackFacts DEF Stacks
<1>7. Muters(t) = Muters(s)
  <2>1. Muters(s) \subseteq 1 .. n
    BY <1>1, <1>3 DEF Muters
  <2> QED
    BY <1>1, <1>3, <1>5, <2>1 DEF Muters
<1>8. Counted(t) = Counted(s) \ {n + 1}
  <2>1. ASSUME NEW i \in 1 .. n
        PROVE  i \in Counted(t) <=> i \in Counted(s)
    <3>1. \A j \in 1 .. i : t[j] = s[j]
      BY <1>3, <1>5
    <3>2. i \in 1 .. i
      BY <1>3
    <3> QED
      BY <1>1, <1>3, <1>5, <3>1, <3>2 DEF Counted
  <2>2. Counted(t) \subseteq 1 .. n /\ Counted(s) \subseteq 1 .. n + 1
    BY <1>1, <1>3, <1>5 DEF Counted
  <2>3. \A i \in 1 .. n + 1 : i # n + 1 => i \in 1 .. n
    BY <1>3
  <2>4. n + 1 \notin 1 .. n
    BY <1>3
  <2> QED
    BY <2>1, <2>2, <2>3, <2>4
<1>9. n + 1 \in Counted(s) <=> s[n + 1].loop /\ Muters(s) = {}
  <2>1. (\A j \in 1 .. n + 1 : ~ s[j].mutes) <=> Muters(s) = {}
    BY <1>1, <1>3 DEF Muters
  <2>2. n + 1 \in DOMAIN s
    BY <1>1, <1>3
  <2>3. n + 1 \in Counted(s) <=> s[n + 1].loop /\ \A j \in 1 .. n + 1 : ~ s[j].mutes
    BY <2>2 DEF Counted
  <2> QED
    BY <2>1, <2>3
<1>10. TopOf(t) = Below(s, n + 1)
  <2>1. CASE n = 0
    BY <1>5, <2>1, EmptySeq DEF TopOf, Below
  <2>2. CASE n # 0
    <3>1. t # <<>> /\ n \in 1 .. n /\ (n + 1) - 1 = n /\ n + 1 # 1
      BY <1>3, <1>5, <2>2, EmptySeq
    <3> QED
      BY <1>5, <3>1 DEF TopOf, Below
  <2> QED
    BY <2>1, <2>2
<1> QED
  BY <1>2, <1>3, <1>5, <1>6, <1>7, <1>8, <1>9, <1>10 DEF Popped

Switched(s, b, t) ==
  /\ t \in Stacks /\ Len(t) = Len(s) /\ DOMAIN t = 1 .. Len(s) /\ TopOf(t) = TopOf(s)
  /\ \A i \in 1 .. Len(s) - 1 : t[i] = s[i]
  /\ \A i \in 1 .. Len(s) : /\ t[i].node = s[i].node /\ t[i].loc = s[i].loc
                            /\ t[i].loop = s[i].loop
  /\ Muters(t) = (Muters(s) \ {Len(s)}) \cup (IF b THEN {Len(s)} ELSE {})
  /\ Counted(t) = Counted(s)

LEMMA SwitchFacts ==
  ASSUME NEW s \in Stacks, s # <<>>, ~ s[Len(s)].loop, NEW b \in BOOLEAN,
         NEW t, t = [s EXCEPT ![Len(s)].mutes = b]
  PROVE  Switched(s, b, t)
<1>1. /\ Len(s) \in Nat \ {0} /\ DOMAIN s = 1 .. Len(s) /\ s \in Seq(Frames)
      /\ Len(s) \in 1 .. Len(s) /\ s[Len(s)] \in Frames
  BY StackFacts, EmptySeq
<1> DEFINE top == [s[Len(s)] EXCEPT !.mutes = b]
<1>2. /\ top \in Frames /\ top.mutes = b /\ top.node = s[Len(s)].node
      /\ top.loc = s[Len(s)].loc /\ top.loop = s[Len(s)].loop
  BY <1>1 DEF Frames
<1>3. t = [s EXCEPT ![Len(s)] = top]
  OBVIOUS
<1> HIDE DEF top
<1>4. /\ t \in Seq(Frames) /\ Len(t) = Len(s) /\ DOMAIN t = 1 .. Len(s)
      /\ \A i \in 1 .. Len(s) : t[i] = IF i = Len(s) THEN top ELSE s[i]
  BY <1>1, <1>2, <1>3, ExceptSeq, LenProperties
<1>5. t \in Stacks
  BY <1>1, <1>2, <1>4, StackFacts DEF Stacks
<1>6. Muters(t) = (Muters(s) \ {Len(s)}) \cup (IF b THEN {Len(s)} ELSE {})
  BY <1>1, <1>2, <1>4 DEF Muters
<1>7. Counted(t) = Counted(s)
  <2>1. Len(s) \notin Counted(t) /\ Len(s) \notin Counted(s)
    BY <1>1, <1>2, <1>4 DEF Counted
  <2>2. ASSUME NEW i \in 1 .. Len(s), i # Len(s)
        PROVE  i \in Counted(t) <=> i \in Counted(s)
    <3>1. \A j \in 1 .. i : t[j] = s[j]
      BY <1>1, <1>4, <2>2
    <3>2. i \in 1 .. i
      BY <1>1
    <3> QED
      BY <1>1, <1>4, <3>1, <3>2 DEF Counted
  <2>3. Counted(t) \subseteq 1 .. Len(s) /\ Counted(s) \subseteq 1 .. Len(s)
    BY <1>1, <1>4 DEF Counted
  <2>4. ASSUME NEW i \in 1 .. Len(s)
        PROVE  i \in Counted(t) <=> i \in Counted(s)
    <3>1. CASE i = Len(s)
      BY <2>1, <3>1
    <3>2. CASE i # Len(s)
      BY <2>2, <3>2
    <3> QED
      BY <3>1, <3>2
  <2> QED
    BY <2>3, <2>4, Zenon
<1>8. TopOf(t) = TopOf(s)
  <2>1. t # <<>>
    BY <1>1, <1>4, EmptySeq
  <2>2. Len(t) = Len(s) /\ t[Len(s)].node = s[Len(s)].node
    BY <1>1, <1>2, <1>4
  <2> QED
    BY <2>1, <2>2, Zenon DEF TopOf
<1>9. \A i \in 1 .. Len(s) - 1 : t[i] = s[i]
  BY <1>1, <1>4
<1>10. \A i \in 1 .. Len(s) : t[i].node = s[i].node /\ t[i].loc = s[i].loc /\ t[i].loop = s[i].loop
  BY <1>2, <1>4
<1>11. Len(t) = Len(s) /\ DOMAIN t = 1 .. Len(s)
  BY <1>4
<1> QED
  BY <1>5, <1>6, <1>7, <1>8, <1>9, <1>10, <1>11, Zenon DEF Switched

-----------------------------------------------------------------------------
(***************************************************************************)
(* What the hooks of any runtime do to the context and the loop counters.  *)
(***************************************************************************)
SlotPushed ==
  IF globalIterStackIdx >= STK_MAX_SIZE - 1
  THEN /\ globalIterStackIdx_overflow' = globalIterStackIdx_overflow + 1
       /\ globalIterStackIdx' = globalIterStackIdx
  ELSE /\ globalIterStackIdx' = globalIterStackIdx + 1
       /\ globalIterStackIdx_overflow' = globalIterStackIdx_overflow

SlotPopped ==
  IF globalIterStackIdx_overflow > -1
  THEN /\ globalIterStackIdx_overflow' = globalIterStackIdx_overflow - 1
       /\ globalIterStackIdx' = globalIterStackIdx
  ELSE /\ globalIterStackIdx' = globalIterStackIdx - 1
       /\ globalIterStackIdx_overflow' = globalIterStackIdx_overflow

SlotsKept == UNCHANGED <<globalIterStackIdx, globalIterStackIdx_overflow>>

Moved(by) ==
  /\ disableCxtChange' = disableCxtChange
  /\ currentCtx' = IF disableCxtChange = 0 THEN (currentCtx + by) % CtxMod ELSE currentCtx

LEMMA LoopBeginMoves ==
  ASSUME NEW loc, NEW uni, LoopBegin(loc, uni)
  PROVE  /\ Moved(loc)
         /\ kind # "exec" => IF disableCxtChange # 0 THEN SlotsKept ELSE SlotPushed
<1>1. CASE kind = "exec" /\ Exec!LoopBegin(loc)
  BY <1>1 DEF Exec!LoopBegin, Exec!ctxVars, Moved
<1>2. CASE kind = "trace" /\ Trace!LoopBegin(loc)
  BY <1>2 DEF Trace!LoopBegin, Trace!ctxVars, Trace!iterVars, Trace!Move, Trace!Push,
              Moved, SlotsKept, SlotPushed
<1>3. CASE kind = "objects" /\ Objs!LoopBegin(loc)
  BY <1>3 DEF Objs!LoopBegin, Objs!iterVars, Objs!Move, Objs!Push, Moved, SlotsKept, SlotPushed
<1>4. CASE kind = "queue" /\ Queue!LoopBegin(loc, uni)
  BY <1>4 DEF Queue!LoopBegin, Queue!ctxVars, Queue!iterVars, Queue!Move, Queue!Push,
              Moved, SlotsKept, SlotPushed
<1> QED
  BY <1>1, <1>2, <1>3, <1>4 DEF LoopBegin, ByKind

LEMMA LoopEndMoves ==
  ASSUME NEW loc \in Nat, currentCtx \in Int, LoopEnd(loc)
  PROVE  /\ Moved(- loc)
         /\ kind # "exec" => IF disableCxtChange # 0 THEN SlotsKept ELSE SlotPopped
<1>1. CASE kind = "exec" /\ Exec!LoopEnd(loc)
  <2>1. currentCtx - loc = currentCtx + (- loc)
    OBVIOUS
  <2> QED
    BY <1>1, <2>1 DEF Exec!LoopEnd, Exec!ctxVars, Moved
<1>2. CASE kind = "trace" /\ Trace!LoopEnd(loc)
  BY <1>2 DEF Trace!LoopEnd, Trace!ctxVars, Trace!iterVars, Trace!Move, Trace!Pop,
              Moved, SlotsKept, SlotPopped
<1>3. CASE kind = "objects" /\ Objs!LoopEnd(loc)
  BY <1>3 DEF Objs!LoopEnd, Objs!iterVars, Objs!Move, Objs!Pop, Moved, SlotsKept, SlotPopped
<1>4. CASE kind = "queue" /\ Queue!LoopEnd(loc)
  BY <1>4 DEF Queue!LoopEnd, Queue!ctxVars, Queue!iterVars, Queue!Move, Queue!Pop,
              Moved, SlotsKept, SlotPopped
<1> QED
  BY <1>1, <1>2, <1>3, <1>4 DEF LoopEnd, ByKind

LEMMA CallSiteBeginMoves ==
  ASSUME NEW loc \in Nat, NEW uni, loc # 0 \/ disableCxtChange # 0, CallSiteBegin(loc, uni)
  PROVE  Moved(loc) /\ (kind # "exec" => SlotsKept)
<1>1. CASE kind = "exec" /\ Exec!CallSiteBegin(loc)
  BY <1>1 DEF Exec!CallSiteBegin, Exec!ctxVars, Moved
<1>2. CASE kind = "trace" /\ Trace!CallSiteBegin(loc)
  BY <1>2 DEF Trace!CallSiteBegin, Trace!ctxVars, Trace!iterVars, Trace!Move, Moved, SlotsKept
<1>3. CASE kind = "objects" /\ Objs!CallSiteBegin(loc)
  BY <1>3 DEF Objs!CallSiteBegin, Objs!iterVars, Objs!Move, Moved, SlotsKept
<1>4. CASE kind = "queue" /\ Queue!CallSiteBegin(loc, uni)
  BY <1>4 DEF Queue!CallSiteBegin, Queue!iterVars, Queue!Move, Moved, SlotsKept
<1> QED
  BY <1>1, <1>2, <1>3, <1>4 DEF CallSiteBegin, ByKind

LEMMA CallSiteEndMoves ==
  ASSUME NEW loc \in Nat, currentCtx \in Int, loc # 0 \/ disableCxtChange # 0, CallSiteEnd(loc)
  PROVE  Moved(- loc) /\ (kind # "exec" => SlotsKept)
<1>1. CASE kind = "exec" /\ Exec!CallSiteEnd(loc)
  <2>1. currentCtx - loc = currentCtx + (- loc)
    OBVIOUS
  <2> QED
    BY <1>1, <2>1 DEF Exec!CallSiteEnd, Exec!ctxVars, Moved
<1>2. CASE kind = "trace" /\ Trace!CallSiteEnd(loc)
  BY <1>2 DEF Trace!CallSiteEnd, Trace!ctxVars, Trace!iterVars, Trace!Move, Moved, SlotsKept
<1>3. CASE kind = "objects" /\ Objs!CallSiteEnd(loc)
  BY <1>3 DEF Objs!CallSiteEnd, Objs!iterVars, Objs!Move, Moved, SlotsKept
<1>4. CASE kind = "queue" /\ Queue!CallSiteEnd(loc)
  BY <1>4 DEF Queue!CallSiteEnd, Queue!iterVars, Queue!Move, Moved, SlotsKept
<1> QED
  BY <1>1, <1>2, <1>3, <1>4 DEF CallSiteEnd, ByKind

-----------------------------------------------------------------------------
(***************************************************************************)
(* The context, the muting and the loops are right at any time.            *)
(***************************************************************************)
LEMMA TreeFacts ==
  ASSUME kind \in Kinds, tree \in Trees(kind)
  PROVE  /\ Len(tree) \in Nat /\ DOMAIN tree = 1 .. Len(tree) /\ Nodes = 0 .. Len(tree)
         /\ Len(tree) < CtxMod /\ CtxMod \in Nat
         /\ \A n \in DOMAIN tree : /\ tree[n].parent \in 0 .. n - 1
                                   /\ tree[n].loop \in BOOLEAN /\ tree[n].recursive \in BOOLEAN
                                   /\ tree[n].uni \in Nat
         /\ kind \in {"exec", "trace"} => nContext = Len(tree) + 1
<1> DEFINE R == [parent : Nat, loop : BOOLEAN, recursive : BOOLEAN, uni : Nat]
<1>1. /\ tree \in Seq(R) /\ \A n \in DOMAIN tree : tree[n].parent < n
      /\ Len(tree) < CtxMod /\ CtxMod \in Nat
      /\ kind \in {"exec", "trace"} => nContext = Len(tree) + 1
  BY TreesAssumption, SizesAssumption
<1>2. Len(tree) \in Nat /\ DOMAIN tree = 1 .. Len(tree)
  BY <1>1, LenProperties
<1>3. \A n \in DOMAIN tree : tree[n] \in R
  BY <1>1, <1>2, ElementOfSeq
<1>4. \A n \in DOMAIN tree : /\ tree[n].parent \in 0 .. n - 1
                             /\ tree[n].loop \in BOOLEAN /\ tree[n].recursive \in BOOLEAN
                             /\ tree[n].uni \in Nat
  BY <1>1, <1>2, <1>3
<1> QED
  BY <1>1, <1>2, <1>4 DEF Nodes

LEMMA BaseFacts ==
  ASSUME BaseInv
  PROVE  /\ Here = TopOf(stack) /\ Here = currentCtx /\ Here \in Nodes
         /\ Muted <=> Muters(stack) # {}
         /\ disableCxtChange \in Nat /\ (disableCxtChange = 0 <=> ~ Muted)
         /\ Cardinality(Counted(stack)) \in Nat
         /\ InLoop <=> stack # <<>> /\ stack[Len(stack)].loop
<1>1. Here = TopOf(stack)
  BY DEF Here, TopOf, Last
<1>2. Muted <=> Muters(stack) # {}
  BY DEF Muted, Muters
<1>3. IsFiniteSet(Muters(stack)) /\ IsFiniteSet(Counted(stack))
  BY StackFacts DEF BaseInv
<1>4. /\ Cardinality(Muters(stack)) \in Nat
      /\ Cardinality(Muters(stack)) = 0 <=> Muters(stack) = {}
      /\ Cardinality(Counted(stack)) \in Nat
  BY <1>3, FS_CardinalityType, FS_EmptySet
<1>5. InLoop <=> stack # <<>> /\ stack[Len(stack)].loop
  BY DEF InLoop, Last
<1> QED
  BY <1>1, <1>2, <1>4, <1>5 DEF BaseInv

LEMMA Unwrapped ==
  ASSUME NEW m \in Nat, NEW x \in 0 .. m - 1
  PROVE  x % m = x
OBVIOUS

LEMMA PushKeepsBase ==
  ASSUME BaseInv, UNCHANGED <<kind, tree>>,
         NEW e \in Frames, ~ e.mutes, stack' = Append(stack, e), Moved(e.loc),
         kind # "exec" => IF e.loop /\ ~ Muted THEN SlotPushed ELSE SlotsKept,
         \/ Muted /\ e.node = Here
         \/ /\ ~ Muted
            /\ e.node \in DOMAIN tree /\ tree[e.node].parent = Here
            /\ e.loc = Loc(e.node) /\ e.loop = tree[e.node].loop
         \/ ~ Muted /\ kind \in CallbackKinds /\ e.node = Here /\ e.loc = 0 /\ e.loop
  PROVE  BaseInv'
<1> DEFINE s == stack
           n == Len(stack)
<1>0. PICK t : t = stack'
  OBVIOUS
<1>1. /\ kind \in Kinds /\ tree \in Trees(kind) /\ s \in Stacks /\ StackRight(s)
      /\ n \in Nat /\ DOMAIN s = 1 .. n
  BY StackFacts DEF BaseInv
<1>2. /\ t \in Stacks /\ TopOf(t) = e.node /\ Len(t) = n + 1 /\ DOMAIN t = 1 .. n + 1 /\ t[n + 1] = e
      /\ \A i \in 1 .. n : t[i] = s[i]
      /\ Muters(t) = Muters(s)
      /\ Counted(t) = IF e.loop /\ Muters(s) = {} THEN Counted(s) \cup {n + 1} ELSE Counted(s)
  <2>1. s \in Stacks /\ t = Append(s, e)
    BY <1>0, <1>1
  <2>2. Pushed(s, e, t)
    BY <2>1, PushFacts
  <2> QED
    BY <2>2 DEF Pushed
<1>4. e.loc \in Nat /\ e.node \in Nat
  BY DEF Frames
<1>5. Here = TopOf(s)
  BY BaseFacts
<1>6. StackRight(t)'
  <2> SUFFICES ASSUME NEW i \in 1 .. n + 1
               PROVE  IF EnteredMuted(t, i) THEN t[i].node = Below(t, i)
                                            ELSE ByEdge(t, i) \/ ByCallback(t, i)
    BY <1>2 DEF StackRight, EnteredMuted, Below, ByEdge, ByCallback, Loc
  <2>1. CASE i \in 1 .. n
    <3>1. \A j \in 1 .. i - 1 : t[j] = s[j]
      BY <1>1, <1>2, <2>1
    <3>2. t[i] = s[i] /\ (i # 1 => t[i - 1] = s[i - 1])
      BY <1>1, <1>2, <2>1
    <3>3. EnteredMuted(t, i) <=> EnteredMuted(s, i)
      BY <3>1 DEF EnteredMuted
    <3>4. Below(t, i) = Below(s, i)
      BY <3>2 DEF Below
    <3> QED
      BY <1>1, <2>1, <3>2, <3>3, <3>4 DEF StackRight, ByEdge, ByCallback
  <2>2. CASE i = n + 1
    <3>1. Below(t, i) = TopOf(s)
      <4>1. CASE n = 0
        BY <1>1, <2>2, <4>1, EmptySeq DEF Below, TopOf
      <4>2. CASE n # 0
        <5>1. s # <<>> /\ i # 1 /\ i - 1 = n /\ n \in 1 .. n
          BY <1>1, <2>2, <4>2, EmptySeq
        <5> QED
          BY <1>2, <5>1 DEF Below, TopOf
      <4> QED
        BY <4>1, <4>2
    <3>2. EnteredMuted(t, i) <=> Muters(s) # {}
      <4>1. 1 .. i - 1 = 1 .. n
        BY <1>1, <2>2
      <4> QED
        BY <1>1, <1>2, <4>1 DEF EnteredMuted, Muters
    <3>3. t[i] = e
      BY <1>2, <2>2
    <3>4. Muted <=> Muters(s) # {}
      BY BaseFacts
    <3> QED
      BY <1>5, <3>1, <3>2, <3>3, <3>4 DEF ByEdge, ByCallback
  <2> QED
    BY <2>1, <2>2
<1>7. currentCtx' = e.node /\ e.node \in Nodes
  <2>1. currentCtx = Here /\ Here \in 0 .. Len(tree) /\ (disableCxtChange = 0 <=> ~ Muted)
    BY <1>1, BaseFacts, TreeFacts
  <2>2. CASE Muted
    BY <2>1, <2>2, BaseFacts DEF Moved
  <2>3. CASE ~ Muted
    <3>1. e.node = currentCtx + e.loc /\ e.node \in 0 .. Len(tree)
      BY <1>1, <1>4, <2>1, <2>3, TreeFacts DEF Loc
    <3>2. Len(tree) \in Nat /\ CtxMod \in Nat /\ Len(tree) < CtxMod
      BY <1>1, TreeFacts
    <3>3. e.node % CtxMod = e.node
      BY <3>1, <3>2, Unwrapped
    <3> QED
      BY <1>1, <2>1, <2>3, <3>1, <3>3, TreeFacts DEF Moved
  <2> QED
    BY <2>2, <2>3
<1>8. disableCxtChange' = Cardinality(Muters(t))
  BY <1>2 DEF Moved, BaseInv
<1>9. (kind # "exec" =>
       /\ globalIterStackIdx = Slots(Cardinality(Counted(stack))) - 1
       /\ globalIterStackIdx_overflow
            = Cardinality(Counted(stack)) - Slots(Cardinality(Counted(stack))) - 1)'
  <2> SUFFICES ASSUME kind # "exec"
               PROVE  /\ globalIterStackIdx' = Slots(Cardinality(Counted(t))) - 1
                      /\ globalIterStackIdx_overflow'
                           = Cardinality(Counted(t)) - Slots(Cardinality(Counted(t))) - 1
    BY <1>0
  <2>1. PICK c : c = Cardinality(Counted(s))
    OBVIOUS
  <2>2. /\ c \in Nat /\ STK_MAX_SIZE \in Nat
        /\ globalIterStackIdx = Slots(c) - 1
        /\ globalIterStackIdx_overflow = c - Slots(c) - 1
        /\ Muted <=> Muters(s) # {}
    BY <2>1, BaseFacts, SizesAssumption DEF BaseInv
  <2>3. CASE e.loop /\ ~ Muted
    <3>1. Counted(t) = Counted(s) \cup {n + 1} /\ n + 1 \notin Counted(s)
      BY <1>1, <1>2, <2>2, <2>3, StackFacts
    <3>2. Cardinality(Counted(t)) = c + 1
      <4>1. IsFiniteSet(Counted(s))
        BY <1>1, StackFacts
      <4>2. Cardinality(Counted(s) \cup {n + 1}) = c + 1
        BY <2>1, <3>1, <4>1, FS_AddElement
      <4> QED
        BY <3>1, <4>2, Zenon
    <3>3. SlotPushed
      BY <2>3
    <3>4. /\ globalIterStackIdx' = Slots(c + 1) - 1
          /\ globalIterStackIdx_overflow' = (c + 1) - Slots(c + 1) - 1
      BY <2>2, <3>3 DEF SlotPushed, Slots
    <3> QED
      BY <3>2, <3>4
  <2>4. CASE ~ (e.loop /\ ~ Muted)
    <3>1. Counted(t) = Counted(s)
      BY <1>2, <2>2, <2>4
    <3>2. Cardinality(Counted(t)) = c
      BY <2>1, <3>1, Zenon
    <3> QED
      BY <2>2, <2>4, <3>2 DEF SlotsKept
  <2> QED
    BY <2>3, <2>4
<1>10. (kind \in Kinds /\ tree \in Trees(kind))'
  BY <1>1
<1>11. Nodes' = Nodes
  BY DEF Nodes
<1> QED
  BY <1>0, <1>2, <1>6, <1>7, <1>8, <1>9, <1>10, <1>11 DEF BaseInv

LEMMA PopKeepsBase ==
  ASSUME BaseInv, UNCHANGED <<kind, tree>>,
         stack # <<>>, ~ stack[Len(stack)].mutes, stack' = Front(stack),
         Moved(- stack[Len(stack)].loc),
         kind # "exec" => IF stack[Len(stack)].loop /\ ~ Muted THEN SlotPopped ELSE SlotsKept
  PROVE  BaseInv'
<1> DEFINE s == stack
           n == Len(stack)
           e == stack[Len(stack)]
<1>0. PICK t : t = stack'
  OBVIOUS
<1>1. /\ kind \in Kinds /\ tree \in Trees(kind) /\ s \in Stacks /\ StackRight(s)
      /\ n \in Nat \ {0} /\ DOMAIN s = 1 .. n /\ n \in 1 .. n
      /\ e.node \in Nat /\ e.loc \in Nat
  BY StackFacts, EmptySeq DEF BaseInv
<1>2. /\ t \in Stacks /\ Len(t) = n - 1 /\ DOMAIN t = 1 .. n - 1
      /\ \A i \in 1 .. n - 1 : t[i] = s[i]
      /\ TopOf(t) = Below(s, n)
      /\ Muters(t) = Muters(s)
      /\ Counted(t) = Counted(s) \ {n}
      /\ n \in Counted(s) <=> e.loop /\ Muters(s) = {}
  <2>1. s \in Stacks /\ t = Front(s) /\ s # <<>> /\ ~ s[Len(s)].mutes
    BY <1>0, <1>1
  <2>2. Popped(s, t)
    BY <2>1, PopFacts
  <2> QED
    BY <2>2 DEF Popped
<1>4. StackRight(t)'
  <2> SUFFICES ASSUME NEW i \in 1 .. n - 1
               PROVE  IF EnteredMuted(t, i) THEN t[i].node = Below(t, i)
                                            ELSE ByEdge(t, i) \/ ByCallback(t, i)
    BY <1>2 DEF StackRight, EnteredMuted, Below, ByEdge, ByCallback, Loc
  <2>1. \A j \in 1 .. i - 1 : t[j] = s[j]
    BY <1>1, <1>2
  <2>2. t[i] = s[i] /\ (i # 1 => t[i - 1] = s[i - 1]) /\ i \in 1 .. n
    BY <1>1, <1>2
  <2>3. EnteredMuted(t, i) <=> EnteredMuted(s, i)
    BY <2>1 DEF EnteredMuted
  <2>4. Below(t, i) = Below(s, i)
    BY <2>2 DEF Below
  <2> QED
    BY <1>1, <2>2, <2>3, <2>4 DEF StackRight, ByEdge, ByCallback
<1>5. /\ currentCtx = e.node /\ currentCtx \in 0 .. Len(tree)
      /\ (disableCxtChange = 0 <=> ~ Muted) /\ (Muted <=> Muters(s) # {})
      /\ Len(tree) \in Nat /\ CtxMod \in Nat /\ Len(tree) < CtxMod
  BY <1>1, BaseFacts, TreeFacts DEF TopOf
<1>6. currentCtx' = Below(s, n) /\ Below(s, n) \in Nodes
  <2>1. EnteredMuted(s, n) <=> Muted
    <3>1. n \in DOMAIN s /\ \A i \in DOMAIN s : i # n => i \in 1 .. n - 1
      BY <1>1
    <3>2. 1 .. n - 1 \subseteq DOMAIN s
      BY <1>1
    <3>3. (\E i \in DOMAIN s : s[i].mutes) <=> EnteredMuted(s, n)
      BY <3>1, <3>2 DEF EnteredMuted
    <3> QED
      BY <3>3 DEF Muted
  <2>2. CASE Muted
    BY <1>1, <1>5, <2>1, <2>2, TreeFacts DEF StackRight, Moved
  <2>3. CASE ~ Muted
    <3>1. ByEdge(s, n) \/ ByCallback(s, n)
      BY <1>1, <2>1, <2>3 DEF StackRight
    <3>2. Below(s, n) \in 0 .. Len(tree) /\ e.node + (- e.loc) = Below(s, n)
      BY <1>1, <1>5, <3>1, TreeFacts DEF ByEdge, ByCallback, Loc
    <3>3. Below(s, n) % CtxMod = Below(s, n)
      BY <1>5, <3>2, Unwrapped
    <3>4. currentCtx' = (currentCtx + (- e.loc)) % CtxMod
      BY <1>5, <2>3 DEF Moved
    <3> QED
      BY <1>1, <1>5, <3>2, <3>3, <3>4, TreeFacts
  <2> QED
    BY <2>2, <2>3
<1>7. disableCxtChange' = Cardinality(Muters(t))
  BY <1>2 DEF Moved, BaseInv
<1>8. (kind # "exec" =>
       /\ globalIterStackIdx = Slots(Cardinality(Counted(stack))) - 1
       /\ globalIterStackIdx_overflow
            = Cardinality(Counted(stack)) - Slots(Cardinality(Counted(stack))) - 1)'
  <2> SUFFICES ASSUME kind # "exec"
               PROVE  /\ globalIterStackIdx' = Slots(Cardinality(Counted(t))) - 1
                      /\ globalIterStackIdx_overflow'
                           = Cardinality(Counted(t)) - Slots(Cardinality(Counted(t))) - 1
    BY <1>0
  <2>1. PICK c : c = Cardinality(Counted(s))
    OBVIOUS
  <2>2. /\ c \in Nat /\ STK_MAX_SIZE \in Nat
        /\ globalIterStackIdx = Slots(c) - 1
        /\ globalIterStackIdx_overflow = c - Slots(c) - 1
    BY <2>1, BaseFacts, SizesAssumption DEF BaseInv
  <2>3. CASE e.loop /\ ~ Muted
    <3>1. n \in Counted(s) /\ IsFiniteSet(Counted(s))
      BY <1>1, <1>2, <1>5, <2>3, StackFacts
    <3>2. Cardinality(Counted(s) \ {n}) = c - 1 /\ c # 0
      BY <2>1, <2>2, <3>1, FS_RemoveElement, FS_EmptySet
    <3>3. Cardinality(Counted(t)) = c - 1
      BY <1>2, <3>2, Zenon
    <3>4. SlotPopped
      BY <2>3
    <3>5. /\ globalIterStackIdx' = Slots(c - 1) - 1
          /\ globalIterStackIdx_overflow' = (c - 1) - Slots(c - 1) - 1
      BY <2>2, <3>2, <3>4 DEF SlotPopped, Slots
    <3> QED
      BY <3>3, <3>5
  <2>4. CASE ~ (e.loop /\ ~ Muted)
    <3>1. n \notin Counted(s)
      BY <1>2, <1>5, <2>4
    <3>2. Counted(t) = Counted(s)
      BY <1>2, <3>1
    <3>3. Cardinality(Counted(t)) = c
      BY <2>1, <3>2, Zenon
    <3> QED
      BY <2>2, <2>4, <3>3 DEF SlotsKept
  <2> QED
    BY <2>3, <2>4
<1>9. (kind \in Kinds /\ tree \in Trees(kind))'
  BY <1>1
<1>10. Nodes' = Nodes
  BY DEF Nodes
<1> QED
  BY <1>0, <1>2, <1>4, <1>6, <1>7, <1>8, <1>9, <1>10 DEF BaseInv

\* DisableCtxtChange and EnableCtxtChange.
LEMMA SwitchKeepsBase ==
  ASSUME BaseInv, UNCHANGED <<kind, tree, currentCtx, globalIterStackIdx,
                              globalIterStackIdx_overflow>>,
         stack # <<>>, ~ stack[Len(stack)].loop, NEW b \in BOOLEAN,
         stack[Len(stack)].mutes = ~ b,
         stack' = [stack EXCEPT ![Len(stack)].mutes = b],
         disableCxtChange' = IF b THEN disableCxtChange + 1 ELSE disableCxtChange - 1
  PROVE  BaseInv'
<1> DEFINE s == stack
           n == Len(stack)
<1>0. PICK t : t = stack'
  OBVIOUS
<1>1. /\ kind \in Kinds /\ tree \in Trees(kind) /\ s \in Stacks /\ StackRight(s)
      /\ n \in Nat \ {0} /\ DOMAIN s = 1 .. n /\ n \in 1 .. n
  BY StackFacts, EmptySeq DEF BaseInv
<1>2. /\ t \in Stacks /\ Len(t) = n /\ DOMAIN t = 1 .. n /\ TopOf(t) = TopOf(s)
      /\ \A i \in 1 .. n - 1 : t[i] = s[i]
      /\ \A i \in 1 .. n : t[i].node = s[i].node /\ t[i].loc = s[i].loc /\ t[i].loop = s[i].loop
      /\ Muters(t) = (Muters(s) \ {n}) \cup (IF b THEN {n} ELSE {})
      /\ Counted(t) = Counted(s)
  <2>1. s \in Stacks /\ t = [s EXCEPT ![Len(s)].mutes = b] /\ s # <<>> /\ ~ s[Len(s)].loop
    BY <1>0, <1>1
  <2>2. Switched(s, b, t)
    BY <2>1, SwitchFacts
  <2> QED
    BY <2>2 DEF Switched
<1>4. StackRight(t)'
  <2> SUFFICES ASSUME NEW i \in 1 .. n
               PROVE  IF EnteredMuted(t, i) THEN t[i].node = Below(t, i)
                                            ELSE ByEdge(t, i) \/ ByCallback(t, i)
    BY <1>2 DEF StackRight, EnteredMuted, Below, ByEdge, ByCallback, Loc
  <2>1. \A j \in 1 .. i - 1 : t[j] = s[j]
    BY <1>1, <1>2
  <2>2. i # 1 => t[i - 1] = s[i - 1]
    BY <1>1, <1>2
  <2>3. EnteredMuted(t, i) <=> EnteredMuted(s, i)
    BY <2>1 DEF EnteredMuted
  <2>4. Below(t, i) = Below(s, i)
    BY <2>2 DEF Below
  <2> QED
    BY <1>1, <1>2, <2>3, <2>4 DEF StackRight, ByEdge, ByCallback
<1>5. disableCxtChange' = Cardinality(Muters(t))
  <2>1. IsFiniteSet(Muters(s)) /\ (n \in Muters(s) <=> ~ b)
    BY <1>1, StackFacts DEF Muters
  <2>2. PICK c : c = Cardinality(Muters(s))
    OBVIOUS
  <2>3. c = disableCxtChange /\ c \in Nat
    BY <2>2, BaseFacts DEF BaseInv
  <2>4. CASE b
    <3>1. Muters(t) = Muters(s) \cup {n} /\ n \notin Muters(s)
      BY <1>2, <2>1, <2>4
    <3>2. Cardinality(Muters(s) \cup {n}) = c + 1
      BY <2>1, <2>2, <3>1, FS_AddElement
    <3>3. Cardinality(Muters(t)) = c + 1
      BY <3>1, <3>2, Zenon
    <3> QED
      BY <2>3, <2>4, <3>3
  <2>5. CASE ~ b
    <3>1. Muters(t) = Muters(s) \ {n} /\ n \in Muters(s)
      BY <1>2, <2>1, <2>5
    <3>2. Cardinality(Muters(s) \ {n}) = c - 1
      BY <2>1, <2>2, <3>1, FS_RemoveElement
    <3>3. Cardinality(Muters(t)) = c - 1
      BY <3>1, <3>2, Zenon
    <3> QED
      BY <2>3, <2>5, <3>3
  <2> QED
    BY <2>4, <2>5
<1>6. Cardinality(Counted(t)) = Cardinality(Counted(s))
  BY <1>2, Zenon
<1>7. Nodes' = Nodes
  BY DEF Nodes
<1> QED
  BY <1>0, <1>2, <1>4, <1>5, <1>6, <1>7 DEF BaseInv

BaseKept == UNCHANGED <<kind, tree, stack, currentCtx, disableCxtChange, globalIterStackIdx,
                        globalIterStackIdx_overflow>>

LEMMA SameBase == BaseInv /\ BaseKept => BaseInv'
BY DEF BaseInv, BaseKept, Nodes, StackRight, ByEdge, ByCallback, Loc

LEMMA EnterFacts ==
  ASSUME BaseInv, NEW n \in DOMAIN tree, Enter(n)
  PROVE  /\ ~ Muted /\ tree[n].parent = Here
         /\ Loc(n) \in Nat \ {0}
         /\ [node |-> n, loc |-> Loc(n), loop |-> tree[n].loop, mutes |-> FALSE] \in Frames
         /\ stack' = Append(stack, [node |-> n, loc |-> Loc(n), loop |-> tree[n].loop,
                                    mutes |-> FALSE])
         /\ UNCHANGED <<kind, tree, finished>>
         /\ IF tree[n].loop THEN LoopBegin(Loc(n), tree[n].uni)
                            ELSE CallSiteBegin(Loc(n), tree[n].uni)
<1>1. /\ n \in Nat /\ tree[n].parent \in 0 .. n - 1 /\ tree[n].loop \in BOOLEAN
  BY TreeFacts DEF BaseInv
<1>2. Loc(n) \in Nat \ {0}
  BY <1>1 DEF Loc
<1> QED
  BY <1>1, <1>2 DEF Enter, Push, programVars, Frames

LEMMA EnterKeepsBase ==
  ASSUME BaseInv, NEW n \in DOMAIN tree, Enter(n)
  PROVE  BaseInv'
<1>1. PICK e : e = [node |-> n, loc |-> Loc(n), loop |-> tree[n].loop, mutes |-> FALSE]
  OBVIOUS
<1>2. /\ e \in Frames /\ ~ e.mutes /\ stack' = Append(stack, e) /\ UNCHANGED <<kind, tree>>
      /\ e.node = n /\ e.loc = Loc(n) /\ e.loop = tree[n].loop
      /\ ~ Muted /\ tree[n].parent = Here /\ Loc(n) \in Nat \ {0} /\ tree[n].loop \in BOOLEAN
  BY <1>1, EnterFacts DEF Frames
<1>3. disableCxtChange = 0
  BY <1>2, BaseFacts
<1>4. Moved(e.loc) /\ (kind # "exec" => IF e.loop /\ ~ Muted THEN SlotPushed ELSE SlotsKept)
  <2>1. CASE tree[n].loop
    <3>1. LoopBegin(Loc(n), tree[n].uni)
      BY <2>1, EnterFacts
    <3> QED
      BY <1>2, <1>3, <2>1, <3>1, LoopBeginMoves
  <2>2. CASE ~ tree[n].loop
    <3>1. CallSiteBegin(Loc(n), tree[n].uni)
      BY <2>2, EnterFacts
    <3> QED
      BY <1>2, <1>3, <2>2, <3>1, CallSiteBeginMoves
  <2> QED
    BY <2>1, <2>2
<1> QED
  BY <1>2, <1>4, PushKeepsBase

LEMMA EnterMutedFacts ==
  ASSUME BaseInv, NEW loc \in MutedLocs, NEW uni, NEW loop \in BOOLEAN, EnterMuted(loc, uni, loop)
  PROVE  /\ Muted /\ loc \in Nat /\ Here \in Nat
         /\ [node |-> Here, loc |-> loc, loop |-> loop, mutes |-> FALSE] \in Frames
         /\ stack' = Append(stack, [node |-> Here, loc |-> loc, loop |-> loop, mutes |-> FALSE])
         /\ UNCHANGED <<kind, tree, finished>>
         /\ IF loop THEN LoopBegin(loc, uni) ELSE CallSiteBegin(loc, uni)
<1>1. loc \in Nat
  BY SizesAssumption
<1>2. Here \in Nat
  BY BaseFacts, TreeFacts DEF BaseInv
<1> QED
  BY <1>1, <1>2 DEF EnterMuted, Push, programVars, Frames

LEMMA EnterMutedKeepsBase ==
  ASSUME BaseInv, NEW loc \in MutedLocs, NEW uni, NEW loop \in BOOLEAN, EnterMuted(loc, uni, loop)
  PROVE  BaseInv'
<1>1. PICK e : e = [node |-> Here, loc |-> loc, loop |-> loop, mutes |-> FALSE]
  OBVIOUS
<1>2. /\ e \in Frames /\ ~ e.mutes /\ stack' = Append(stack, e) /\ UNCHANGED <<kind, tree>>
      /\ e.node = Here /\ e.loc = loc /\ e.loop = loop
      /\ Muted /\ loc \in Nat
  BY <1>1, EnterMutedFacts
<1>3. disableCxtChange # 0
  BY <1>2, BaseFacts
<1>4. Moved(e.loc) /\ (kind # "exec" => SlotsKept)
  <2>1. CASE loop
    <3>1. LoopBegin(loc, uni)
      BY <2>1, EnterMutedFacts
    <3> QED
      BY <1>2, <1>3, <3>1, LoopBeginMoves
  <2>2. CASE ~ loop
    <3>1. CallSiteBegin(loc, uni)
      BY <2>2, EnterMutedFacts
    <3> QED
      BY <1>2, <1>3, <3>1, CallSiteBeginMoves
  <2> QED
    BY <2>1, <2>2
<1> QED
  BY <1>2, <1>4, PushKeepsBase

LEMMA EnterCallbackFacts ==
  ASSUME BaseInv, EnterCallbackLoop
  PROVE  /\ kind \in CallbackKinds /\ Here \in Nat
         /\ [node |-> Here, loc |-> 0, loop |-> TRUE, mutes |-> FALSE] \in Frames
         /\ stack' = Append(stack, [node |-> Here, loc |-> 0, loop |-> TRUE, mutes |-> FALSE])
         /\ UNCHANGED <<kind, tree, finished>>
         /\ LoopBegin(0, 0)
<1>1. Here \in Nat
  BY BaseFacts, TreeFacts DEF BaseInv
<1> QED
  BY <1>1 DEF EnterCallbackLoop, Push, programVars, Frames

LEMMA EnterCallbackKeepsBase ==
  ASSUME BaseInv, EnterCallbackLoop
  PROVE  BaseInv'
<1>1. PICK e : e = [node |-> Here, loc |-> 0, loop |-> TRUE, mutes |-> FALSE]
  OBVIOUS
<1>2. /\ e \in Frames /\ ~ e.mutes /\ stack' = Append(stack, e) /\ UNCHANGED <<kind, tree>>
      /\ e.node = Here /\ e.loc = 0 /\ e.loop
      /\ kind \in CallbackKinds
  BY <1>1, EnterCallbackFacts
<1>3. disableCxtChange = 0 <=> ~ Muted
  BY BaseFacts
<1>4. Moved(e.loc) /\ (kind # "exec" => IF Muted THEN SlotsKept ELSE SlotPushed)
  BY <1>2, <1>3, EnterCallbackFacts, LoopBeginMoves
<1> QED
  BY <1>2, <1>4, PushKeepsBase

LEMMA LeaveFacts ==
  ASSUME BaseInv, Leave
  PROVE  /\ stack # <<>> /\ Len(stack) \in Nat \ {0} /\ ~ stack[Len(stack)].mutes
         /\ stack' = Front(stack)
         /\ UNCHANGED <<kind, tree, finished>>
         /\ stack[Len(stack)].loc \in Nat /\ stack[Len(stack)].loop \in BOOLEAN
         /\ currentCtx \in Int
         /\ IF stack[Len(stack)].loop THEN LoopEnd(stack[Len(stack)].loc)
            ELSE /\ CallSiteEnd(stack[Len(stack)].loc)
                 /\ stack[Len(stack)].loc # 0 \/ disableCxtChange # 0
<1>1. /\ stack # <<>> /\ stack \in Stacks /\ Len(stack) \in Nat \ {0}
      /\ Len(stack) \in DOMAIN stack
      /\ stack[Len(stack)].loc \in Nat /\ stack[Len(stack)].loop \in BOOLEAN
  BY StackFacts, EmptySeq DEF Leave, BaseInv
<1>2. currentCtx \in Int
  BY TreeFacts DEF BaseInv
<1>3. ~ stack[Len(stack)].loop /\ disableCxtChange = 0 => stack[Len(stack)].loc # 0
  <2> SUFFICES ASSUME ~ stack[Len(stack)].loop, disableCxtChange = 0
               PROVE  stack[Len(stack)].loc # 0
    OBVIOUS
  <2>1. ~ EnteredMuted(stack, Len(stack))
    <3>1. ~ Muted /\ DOMAIN stack = 1 .. Len(stack)
      BY <1>1, BaseFacts, StackFacts
    <3> QED
      BY <1>1, <3>1 DEF EnteredMuted, Muted
  <2>2. ByEdge(stack, Len(stack))
    BY <1>1, <2>1 DEF BaseInv, StackRight, ByCallback
  <2>3. PICK n : n = stack[Len(stack)].node
    OBVIOUS
  <2>4. n \in DOMAIN tree /\ stack[Len(stack)].loc = n - tree[n].parent
    BY <2>2, <2>3 DEF ByEdge, Loc
  <2>5. n \in Nat /\ tree[n].parent \in 0 .. n - 1
    BY <2>4, TreeFacts DEF BaseInv
  <2> QED
    BY <2>4, <2>5
<1> QED
  BY <1>1, <1>2, <1>3 DEF Leave, InLoop, Last, programVars

LEMMA LeaveKeepsBase == BaseInv /\ Leave => BaseInv'
<1> SUFFICES ASSUME BaseInv, Leave PROVE BaseInv'
  OBVIOUS
<1>1. /\ stack # <<>> /\ ~ stack[Len(stack)].mutes /\ stack' = Front(stack)
      /\ UNCHANGED <<kind, tree>>
      /\ disableCxtChange = 0 <=> ~ Muted
  BY LeaveFacts, BaseFacts
<1>2. PICK loc : loc = stack[Len(stack)].loc
  OBVIOUS
<1>3. Moved(- loc) /\ (kind # "exec" => IF stack[Len(stack)].loop /\ ~ Muted
                                        THEN SlotPopped ELSE SlotsKept)
  <2>1. CASE stack[Len(stack)].loop
    <3>1. LoopEnd(loc) /\ loc \in Nat /\ currentCtx \in Int
      BY <1>2, <2>1, LeaveFacts
    <3> QED
      BY <1>1, <2>1, <3>1, LoopEndMoves
  <2>2. CASE ~ stack[Len(stack)].loop
    <3>1. /\ CallSiteEnd(loc) /\ loc \in Nat /\ currentCtx \in Int
          /\ loc # 0 \/ disableCxtChange # 0
      BY <1>2, <2>2, LeaveFacts
    <3> QED
      BY <2>2, <3>1, CallSiteEndMoves
  <2> QED
    BY <2>1, <2>2
<1> QED
  BY <1>1, <1>2, <1>3, PopKeepsBase

LEMMA SwitchKeeps == BaseInv /\ (DisableCtxtChange \/ EnableCtxtChange) => BaseInv'
<1> SUFFICES ASSUME BaseInv, DisableCtxtChange \/ EnableCtxtChange PROVE BaseInv'
  OBVIOUS
<1>1. stack \in Stacks
  BY DEF BaseInv
<1>2. CASE DisableCtxtChange
  <2>1. stack # <<>>
    BY <1>2 DEF DisableCtxtChange, RecursiveTop, Here
  <2>2. Len(stack) \in 1 .. Len(stack)
    BY <1>1, <2>1, StackFacts, EmptySeq
  <2>3. /\ stack[Len(stack)].mutes = ~ TRUE /\ ~ stack[Len(stack)].loop
        /\ stack' = [stack EXCEPT ![Len(stack)].mutes = TRUE]
        /\ disableCxtChange' = disableCxtChange + 1
    BY <1>1, <1>2, <2>1, <2>2, StackFacts DEF DisableCtxtChange, RecursiveTop, InLoop, Last
  <2>4. UNCHANGED <<kind, tree, currentCtx, globalIterStackIdx, globalIterStackIdx_overflow>>
    BY <1>2 DEF DisableCtxtChange, programVars, iterVars
  <2> QED
    BY <2>1, <2>3, <2>4, SwitchKeepsBase
<1>3. CASE EnableCtxtChange
  <2>1. stack # <<>>
    BY <1>3 DEF EnableCtxtChange
  <2>2. Len(stack) \in 1 .. Len(stack)
    BY <1>1, <2>1, StackFacts, EmptySeq
  <2>3. /\ stack[Len(stack)].mutes = ~ FALSE /\ ~ stack[Len(stack)].loop
        /\ stack' = [stack EXCEPT ![Len(stack)].mutes = FALSE]
        /\ disableCxtChange' = disableCxtChange - 1
    BY <1>1, <1>3, <2>1, <2>2, StackFacts DEF EnableCtxtChange, Last
  <2>4. UNCHANGED <<kind, tree, currentCtx, globalIterStackIdx, globalIterStackIdx_overflow>>
    BY <1>3 DEF EnableCtxtChange, programVars, iterVars
  <2> QED
    BY <2>1, <2>3, <2>4, SwitchKeepsBase
<1> QED
  BY <1>2, <1>3

LEMMA OthersKeepBase ==
  ASSUME GoRound \/ Tick \/ Finish
           \/ (\E addr \in Words, size \in Sizes :
                 AllocateUnhooked(addr, size) \/ \E i \in InstrIDs : Allocate(addr, size, i))
           \/ (\E w \in Words : Free(owner[w]) \/ AccessWord(w))
  PROVE  BaseKept
<1>1. CASE GoRound
  BY <1>1 DEF GoRound, LoopNext, ByKind, Exec!LoopNext, Exec!ctxVars, Trace!LoopNext,
              Trace!Count, Trace!iterVars, Trace!ctxVars, Objs!LoopNext, Objs!Count,
              Objs!iterVars, Objs!ctxVars, Queue!LoopNext, Queue!Count, Queue!iterVars,
              Queue!ctxVars, iterVars, programVars, BaseKept
<1>2. CASE Tick
  BY <1>2 DEF Tick, programVars, ctxVars, iterVars, BaseKept
<1>3. CASE Finish
  BY <1>3 DEF Finish, Exec!Finalize, Exec!ctxVars, ctxVars, iterVars, BaseKept
<1>4. ASSUME NEW addr \in Words, NEW size \in Sizes, AllocateUnhooked(addr, size)
      PROVE  BaseKept
  BY <1>4 DEF AllocateUnhooked, programVars, ctxVars, iterVars, BaseKept
<1>5. ASSUME NEW addr \in Words, NEW size \in Sizes, NEW i \in InstrIDs, Allocate(addr, size, i)
      PROVE  BaseKept
  BY <1>5 DEF Allocate, Objs!Allocated, Objs!ctxVars, Objs!iterVars, programVars, BaseKept
<1>6. ASSUME NEW w \in Words, Free(owner[w])
      PROVE  BaseKept
  BY <1>6 DEF Free, programVars, ctxVars, iterVars, BaseKept
<1>7. ASSUME NEW w \in Words, AccessWord(w)
      PROVE  BaseKept
  BY <1>7 DEF AccessWord, Objs!Access, Objs!ctxVars, Objs!iterVars, programVars, BaseKept
<1> QED
  BY <1>1, <1>2, <1>3, <1>4, <1>5, <1>6, <1>7

LEMMA BaseNext == BaseInv /\ [Next]_vars => BaseInv'
<1> SUFFICES ASSUME BaseInv, [Next]_vars PROVE BaseInv'
  OBVIOUS
<1>1. ASSUME NEW n \in DOMAIN tree, Enter(n) PROVE BaseInv'
  BY <1>1, EnterKeepsBase
<1>2. ASSUME NEW loc \in MutedLocs, NEW n \in DOMAIN tree, NEW loop \in BOOLEAN,
             EnterMuted(loc, tree[n].uni, loop)
      PROVE  BaseInv'
  BY <1>2, EnterMutedKeepsBase
<1>3. CASE EnterCallbackLoop
  BY <1>3, EnterCallbackKeepsBase
<1>4. CASE Leave
  BY <1>4, LeaveKeepsBase
<1>5. CASE DisableCtxtChange \/ EnableCtxtChange
  BY <1>5, SwitchKeeps
<1>6. CASE GoRound \/ Tick \/ Finish
             \/ (\E addr \in Words, size \in Sizes :
                   AllocateUnhooked(addr, size) \/ \E i \in InstrIDs : Allocate(addr, size, i))
             \/ (\E w \in Words : Free(owner[w]) \/ AccessWord(w))
  BY <1>6, OthersKeepBase, SameBase
<1>7. CASE UNCHANGED vars
  <2>1. BaseKept
    BY <1>7 DEF vars, programVars, ctxVars, iterVars, BaseKept
  <2> QED
    BY <2>1, SameBase
<1> QED
  BY <1>1, <1>2, <1>3, <1>4, <1>5, <1>6, <1>7 DEF Next

LEMMA BaseInit == Init => BaseInv
<1> SUFFICES ASSUME Init PROVE BaseInv
  OBVIOUS
<1>1. /\ kind \in Kinds /\ tree \in Trees(kind) /\ stack = <<>>
      /\ currentCtx = 0 /\ disableCxtChange = 0
      /\ globalIterStackIdx = -1 /\ globalIterStackIdx_overflow = -1
  BY DEF Init, Iter!EmptyStack
<1>2. stack \in Stacks /\ DOMAIN stack = {} /\ Muters(stack) = {} /\ Counted(stack) = {}
  BY <1>1, EmptySeq DEF Stacks, Muters, Counted
<1>3. Cardinality(Muters(stack)) = 0 /\ Cardinality(Counted(stack)) = 0
  BY <1>2, FS_EmptySet
<1>4. Slots(0) = 0
  BY SizesAssumption DEF Slots
<1>5. currentCtx \in Nodes /\ TopOf(stack) = 0
  BY <1>1, TreeFacts DEF TopOf
<1> QED
  BY <1>1, <1>2, <1>3, <1>4, <1>5 DEF BaseInv, StackRight

LEMMA BaseInvariant == Spec => []BaseInv
BY BaseInit, BaseNext, PTL DEF Spec

LEMMA LeastOf ==
  ASSUME NEW T, T \subseteq Nat, T # {}
  PROVE  \E m \in T : \A n \in T : m <= n
<1>1. PICK m \in T : \A n \in T : ~ (<<n, m>> \in OpToRel(<, Nat))
  BY NatLessThanWellFounded, WFMin
<1>2. ASSUME NEW n \in T
      PROVE  m <= n
  <2>1. n \in Nat /\ m \in Nat
    OBVIOUS
  <2>2. ~ (n < m)
    BY <1>1, <2>1 DEF OpToRel
  <2> QED
    BY <2>1, <2>2
<1> QED
  BY <1>2

LEMMA MutedFromFacts ==
  ASSUME BaseInv
  PROVE  /\ MutedFrom \in 1 .. Len(stack) + 1
         /\ MutedFrom = Len(stack) + 1 \/ stack[MutedFrom].mutes
         /\ \A j \in 1 .. MutedFrom - 1 : ~ stack[j].mutes
<1>1. Len(stack) \in Nat /\ DOMAIN stack = 1 .. Len(stack)
  BY StackFacts DEF BaseInv
<1> DEFINE P(i) == /\ i = Len(stack) + 1 \/ stack[i].mutes
                   /\ \A j \in 1 .. i - 1 : ~ stack[j].mutes
<1>2. \E i \in 1 .. Len(stack) + 1 : P(i)
  <2>1. CASE Muters(stack) = {}
    <3>1. P(Len(stack) + 1)
      BY <1>1, <2>1 DEF Muters
    <3> QED
      BY <1>1, <3>1
  <2>2. CASE Muters(stack) # {}
    <3>0. Muters(stack) \subseteq Nat
      BY <1>1 DEF Muters
    <3>1. PICK m \in Muters(stack) : \A k \in Muters(stack) : m <= k
      BY <2>2, <3>0, LeastOf
    <3>2. m \in 1 .. Len(stack) /\ stack[m].mutes /\ \A k \in 1 .. Len(stack) : stack[k].mutes => m <= k
      BY <1>1, <3>1 DEF Muters
    <3>3. P(m)
      BY <1>1, <3>2
    <3> QED
      BY <1>1, <3>2, <3>3
  <2> QED
    BY <2>1, <2>2
<1>3. MutedFrom = CHOOSE i \in 1 .. Len(stack) + 1 : P(i)
  BY DEF MutedFrom
<1>4. MutedFrom \in 1 .. Len(stack) + 1 /\ P(MutedFrom)
  <2> HIDE DEF P
  <2> QED
    BY <1>2, <1>3, Zenon
<1> QED
  BY <1>4

(***************************************************************************)
(* ContextAndLoopsKept: whatever runs over the tree, the reported context  *)
(* is the innermost one, the mutes of recursive calls add up, and the      *)
(* runtime has a slot or an overflow for each loop outside them.           *)
(***************************************************************************)
LEMMA BaseKeepsContextAndLoops == BaseInv => ContextAndLoopsKept
<1> SUFFICES ASSUME BaseInv PROVE ContextAndLoopsKept
  OBVIOUS
<1>1. {i \in 1 .. MutedFrom - 1 : stack[i].loop} = Counted(stack)
  <2>1. Len(stack) \in Nat /\ DOMAIN stack = 1 .. Len(stack)
    BY StackFacts DEF BaseInv
  <2>2. PICK m : m = MutedFrom
    OBVIOUS
  <2>3. /\ m \in 1 .. Len(stack) + 1 /\ (m = Len(stack) + 1 \/ stack[m].mutes)
        /\ \A j \in 1 .. m - 1 : ~ stack[j].mutes
    BY <2>2, MutedFromFacts
  <2>4. ASSUME NEW i \in 1 .. m - 1, stack[i].loop
        PROVE  i \in Counted(stack)
    BY <2>1, <2>3, <2>4 DEF Counted
  <2>5. ASSUME NEW i \in Counted(stack)
        PROVE  i \in 1 .. m - 1 /\ stack[i].loop
    <3>1. i \in 1 .. Len(stack) /\ stack[i].loop /\ \A j \in 1 .. i : ~ stack[j].mutes
      BY <2>1 DEF Counted
    <3>2. ~ (m <= i)
      BY <2>1, <2>3, <3>1
    <3> QED
      BY <2>1, <2>3, <3>1, <3>2
  <2> QED
    BY <2>2, <2>4, <2>5
<1>2. PICK c : c = Cardinality(Counted(stack))
  OBVIOUS
<1>3. Cardinality({i \in 1 .. MutedFrom - 1 : stack[i].loop}) = c
  BY <1>1, <1>2, Zenon
<1>4. disableCxtChange = Cardinality({i \in DOMAIN stack : stack[i].mutes})
  BY DEF BaseInv, Muters
<1>5. currentCtx = Here
  BY BaseFacts
<1>6. c \in Nat /\ STK_MAX_SIZE \in Nat
  BY <1>2, BaseFacts, SizesAssumption
<1>7. kind # "exec" =>
        /\ globalIterStackIdx = (IF c < STK_MAX_SIZE THEN c ELSE STK_MAX_SIZE) - 1
        /\ Iter!Depth = c
  BY <1>2, <1>6 DEF BaseInv, Slots, Iter!Depth
<1> QED
  BY <1>3, <1>4, <1>5, <1>7 DEF ContextAndLoopsKept

THEOREM ContextAndLoopsAreKept == Spec => []ContextAndLoopsKept
BY BaseInvariant, BaseKeepsContextAndLoops, PTL

-----------------------------------------------------------------------------
(***************************************************************************)
(* The queue profiler.                                                     *)
(***************************************************************************)
Changes(w) == {i \in DOMAIN w : i = 1 \/ w[i] # w[i - 1]}

QueueInv ==
  /\ watched \in Seq(Nat \ {0})
  /\ count = Cardinality(Changes(watched))
  /\ guard_ctxid = IF watched = <<>> THEN 0 ELSE watched[Len(watched)]

WatchKept == UNCHANGED <<guard_ctxid, count, watched>>

Watching(uni) ==
  /\ IF uni # 0 /\ uni # guard_ctxid
     THEN count' = count + 1 /\ guard_ctxid' = uni
     ELSE UNCHANGED <<guard_ctxid, count>>
  /\ watched' = IF uni = 0 THEN watched ELSE Append(watched, uni)

LEMMA BeginsWatch ==
  ASSUME BaseInv, NEW loc, NEW uni \in Nat, LoopBegin(loc, uni) \/ CallSiteBegin(loc, uni)
  PROVE  WatchKept \/ \E u \in Nat : Watching(u)
<1>1. disableCxtChange = 0 <=> ~ Muted
  BY BaseFacts
<1>2. CASE kind = "queue" /\ Queue!LoopBegin(loc, uni) /\ Note(IF Muted THEN 0 ELSE uni)
  <2>1. CASE Muted
    BY <1>1, <1>2, <2>1 DEF Queue!LoopBegin, Queue!queueVars, Note, WatchKept
  <2>2. CASE ~ Muted
    BY <1>1, <1>2, <2>2 DEF Queue!LoopBegin, Queue!Watch, Queue!queueVars, Note, Watching
  <2> QED
    BY <2>1, <2>2
<1>3. CASE kind = "queue" /\ Queue!CallSiteBegin(loc, uni) /\ Note(uni)
  BY <1>3 DEF Queue!CallSiteBegin, Queue!Watch, Queue!queueVars, Note, Watching
<1>4. CASE UNCHANGED queueVars
  BY <1>4 DEF queueVars, WatchKept
<1> QED
  BY <1>2, <1>3, <1>4 DEF LoopBegin, CallSiteBegin, ByKind

LEMMA WatchingKeeps ==
  ASSUME QueueInv, NEW uni \in Nat, Watching(uni)
  PROVE  QueueInv'
<1>1. CASE uni = 0
  BY <1>1 DEF Watching, QueueInv, Changes
<1>2. CASE uni # 0
  <2> DEFINE w == watched
             n == Len(watched)
  <2>1. PICK t : t = Append(w, uni)
    OBVIOUS
  <2>2. watched' = t
    BY <1>2, <2>1 DEF Watching
  <2>3. n \in Nat /\ DOMAIN w = 1 .. n /\ w \in Seq(Nat \ {0}) /\ (w = <<>> <=> n = 0)
    BY LenProperties, EmptySeq DEF QueueInv
  <2>4. /\ t \in Seq(Nat \ {0}) /\ Len(t) = n + 1 /\ DOMAIN t = 1 .. n + 1
        /\ t[n + 1] = uni /\ \A i \in 1 .. n : t[i] = w[i]
    BY <1>2, <2>1, <2>3, AppendProperties, LenProperties
  <2>5. IsFiniteSet(Changes(w)) /\ Changes(w) \subseteq 1 .. n
    <3>1. Changes(w) \subseteq 1 .. n
      BY <2>3 DEF Changes
    <3>2. IsFiniteSet(1 .. n)
      BY <2>3, FS_Interval
    <3>3. IsFiniteSet(Changes(w))
      BY <3>1, <3>2, FS_Subset
    <3> QED
      BY <3>1, <3>3
  <2>6. n + 1 \in Changes(t) <=> uni # guard_ctxid
    <3>1. CASE n = 0
      <4>1. n + 1 = 1 /\ 1 \in DOMAIN t /\ w = <<>>
        BY <2>3, <2>4, <3>1
      <4>2. n + 1 \in Changes(t)
        BY <4>1 DEF Changes
      <4>3. guard_ctxid = 0
        BY <4>1 DEF QueueInv
      <4> QED
        BY <1>2, <4>2, <4>3
    <3>2. CASE n # 0
      <4>1. n \in 1 .. n /\ (n + 1) - 1 = n /\ n + 1 # 1 /\ n + 1 \in 1 .. n + 1
        BY <2>3, <3>2
      <4> QED
        BY <2>3, <2>4, <3>2, <4>1 DEF Changes, QueueInv
    <3> QED
      BY <3>1, <3>2
  <2>7. ASSUME NEW i \in 1 .. n
        PROVE  i \in Changes(t) <=> i \in Changes(w)
    <3>1. t[i] = w[i] /\ (i # 1 => t[i - 1] = w[i - 1])
      <4>1. i # 1 => i - 1 \in 1 .. n
        BY <2>3
      <4> QED
        BY <2>4, <4>1
    <3> QED
      BY <2>3, <2>4, <3>1 DEF Changes
  <2>8. /\ Changes(t) \subseteq 1 .. n + 1 /\ n + 1 \notin 1 .. n
        /\ \A i \in 1 .. n + 1 : i # n + 1 => i \in 1 .. n
    <3>1. Changes(t) \subseteq 1 .. n + 1
      BY <2>4 DEF Changes
    <3>2. n + 1 \notin 1 .. n /\ \A i \in 1 .. n + 1 : i # n + 1 => i \in 1 .. n
      BY <2>3
    <3> QED
      BY <3>1, <3>2
  <2>9. PICK c : c = Cardinality(Changes(w))
    OBVIOUS
  <2>10. count' = Cardinality(Changes(t))
    <3>1. CASE uni # guard_ctxid
      <4>1. Changes(t) = Changes(w) \cup {n + 1} /\ n + 1 \notin Changes(w)
        BY <2>5, <2>6, <2>7, <2>8, <3>1, Zenon
      <4>2. Cardinality(Changes(w) \cup {n + 1}) = c + 1
        BY <2>5, <2>9, <4>1, FS_AddElement
      <4>3. Cardinality(Changes(t)) = c + 1
        BY <4>1, <4>2, Zenon
      <4> QED
        BY <1>2, <2>9, <3>1, <4>3 DEF Watching, QueueInv
    <3>2. CASE uni = guard_ctxid
      <4>1. Changes(t) = Changes(w)
        BY <2>5, <2>6, <2>7, <2>8, <3>2, Zenon
      <4>2. Cardinality(Changes(t)) = c
        BY <2>9, <4>1, Zenon
      <4> QED
        BY <1>2, <2>9, <3>2, <4>2 DEF Watching, QueueInv
    <3> QED
      BY <3>1, <3>2
  <2>11. guard_ctxid' = uni /\ t # <<>>
    BY <1>2, <2>3, <2>4, EmptySeq DEF Watching
  <2> QED
    BY <2>2, <2>4, <2>10, <2>11 DEF QueueInv
<1> QED
  BY <1>1, <1>2

LEMMA QueueNext == BaseInv /\ QueueInv /\ [Next]_vars => QueueInv'
<1> SUFFICES ASSUME BaseInv, QueueInv, [Next]_vars PROVE QueueInv'
  OBVIOUS
<1>1. WatchKept \/ \E u \in Nat : Watching(u)
  <2>1. ASSUME NEW n \in DOMAIN tree, Enter(n) PROVE WatchKept \/ \E u \in Nat : Watching(u)
    <3>1. tree[n].uni \in Nat
      BY TreeFacts DEF BaseInv
    <3> QED
      BY <2>1, <3>1, BeginsWatch DEF Enter
  <2>2. ASSUME NEW loc \in MutedLocs, NEW n \in DOMAIN tree, NEW loop \in BOOLEAN,
               EnterMuted(loc, tree[n].uni, loop)
        PROVE  WatchKept \/ \E u \in Nat : Watching(u)
    <3>1. tree[n].uni \in Nat
      BY TreeFacts DEF BaseInv
    <3> QED
      BY <2>2, <3>1, BeginsWatch DEF EnterMuted
  <2>3. CASE EnterCallbackLoop
    BY <2>3, BeginsWatch DEF EnterCallbackLoop
  <2>4. CASE GoRound
    BY <2>4 DEF GoRound, LoopNext, ByKind, Queue!LoopNext, Queue!queueVars, queueVars, WatchKept
  <2>5. CASE Leave
    BY <2>5 DEF Leave, LoopEnd, CallSiteEnd, ByKind, Queue!LoopEnd, Queue!CallSiteEnd,
                Queue!queueVars, queueVars, WatchKept
  <2>6. CASE DisableCtxtChange \/ EnableCtxtChange \/ Tick \/ Finish
    BY <2>6 DEF DisableCtxtChange, EnableCtxtChange, Tick, Finish, queueVars, WatchKept
  <2>7. CASE \/ \E addr \in Words, size \in Sizes :
                  AllocateUnhooked(addr, size) \/ \E i \in InstrIDs : Allocate(addr, size, i)
             \/ \E w \in Words : Free(owner[w]) \/ AccessWord(w)
    BY <2>7 DEF AllocateUnhooked, Allocate, Free, AccessWord, queueVars, WatchKept
  <2>8. CASE UNCHANGED vars
    BY <2>8 DEF vars, queueVars, WatchKept
  <2> QED
    BY <2>1, <2>2, <2>3, <2>4, <2>5, <2>6, <2>7, <2>8 DEF Next
<1>2. CASE WatchKept
  BY <1>2 DEF WatchKept, QueueInv, Changes
<1> QED
  BY <1>1, <1>2, WatchingKeeps

(***************************************************************************)
(* QueueCountsChanges: for any sequence of watched places, the queue       *)
(* profiler's count is the number of changes of the watched context.       *)
(***************************************************************************)
THEOREM QueueCountsTheChanges == Spec => []QueueCountsChanges
<1>1. Init => QueueInv
  <2> SUFFICES ASSUME Init PROVE QueueInv
    OBVIOUS
  <2>1. watched = <<>> /\ count = 0 /\ guard_ctxid = 0
    BY DEF Init, Queue!Initialize
  <2>2. watched \in Seq(Nat \ {0}) /\ Changes(watched) = {}
    BY <2>1, EmptySeq DEF Changes
  <2>3. Cardinality(Changes(watched)) = 0
    BY <2>2, FS_EmptySet
  <2> QED
    BY <2>1, <2>2, <2>3 DEF QueueInv
<1>2. QueueInv => QueueCountsChanges
  BY DEF QueueInv, QueueCountsChanges, Changes, Last
<1> QED
  BY <1>1, <1>2, QueueNext, BaseInvariant, PTL DEF Spec

-----------------------------------------------------------------------------
(***************************************************************************)
(* Time tracing.  One timer runs; what it has run for since it was started *)
(* is charged to the context the program is in when it is stopped.         *)
(***************************************************************************)
Charged(n) == ctx_time[n] + (IF n = currentCtx THEN now - start_ ELSE 0)

TraceInv ==
  /\ now \in Nat /\ start_ \in 0 .. now
  /\ spent \in [Nodes -> Nat] /\ ctx_time \in [Nodes -> Nat]
  /\ \A n \in Nodes : IF n = 0 \/ tree[n].loop THEN Charged(n) = spent[n]
                                               ELSE Charged(n) >= spent[n]

TraceKept == UNCHANGED <<currentCtx, now, spent, start_, ctx_time>>

\* The timer is stopped, and started again but where a call begins.
Stopped ==
  /\ UNCHANGED <<now, spent>>
  /\ ctx_time' = [ctx_time EXCEPT ![currentCtx] = @ + now - start_]
  /\ \/ start_' = now
     \/ start_' = start_ /\ currentCtx' \in DOMAIN tree /\ ~ tree[currentCtx'].loop

Ticked ==
  /\ UNCHANGED <<currentCtx, start_, ctx_time>>
  /\ now' = now + 1 /\ spent' = [spent EXCEPT ![currentCtx] = @ + 1]

LEMMA TraceBegins ==
  ASSUME NEW loc \in Nat, NEW uni, kind = "trace", LoopBegin(loc, uni) \/ CallSiteBegin(loc, uni),
         UNCHANGED clockVars,
         disableCxtChange # 0 \/ LoopBegin(loc, uni)
           \/ (currentCtx' \in DOMAIN tree /\ ~ tree[currentCtx'].loop)
  PROVE  TraceKept \/ Stopped
<1>1. CASE Trace!LoopBegin(loc)
  BY <1>1 DEF Trace!LoopBegin, Trace!StopTimer, Trace!ctxVars, Trace!timeVars, clockVars,
              TraceKept, Stopped
<1>2. CASE Trace!CallSiteBegin(loc) /\ ~ LoopBegin(loc, uni)
  BY <1>2 DEF Trace!CallSiteBegin, Trace!StopTimer, Trace!ctxVars, Trace!timeVars, clockVars,
              TraceKept, Stopped
<1>3. LoopBegin(loc, uni) => Trace!LoopBegin(loc)
  BY DEF LoopBegin, ByKind
<1>4. CallSiteBegin(loc, uni) => Trace!CallSiteBegin(loc)
  BY DEF CallSiteBegin, ByKind
<1> QED
  BY <1>1, <1>2, <1>3, <1>4

LEMMA TraceEnds ==
  ASSUME NEW loc \in Nat, kind = "trace", LoopEnd(loc) \/ CallSiteEnd(loc), UNCHANGED clockVars
  PROVE  TraceKept \/ Stopped
<1>1. CASE Trace!LoopEnd(loc)
  BY <1>1 DEF Trace!LoopEnd, Trace!StopTimer, Trace!ctxVars, Trace!timeVars, clockVars,
              TraceKept, Stopped
<1>2. CASE Trace!CallSiteEnd(loc)
  BY <1>2 DEF Trace!CallSiteEnd, Trace!StopTimer, Trace!ctxVars, Trace!timeVars, clockVars,
              TraceKept, Stopped
<1> QED
  BY <1>1, <1>2 DEF LoopEnd, CallSiteEnd, ByKind

LEMMA TraceSteps ==
  ASSUME BaseInv, BaseInv', kind = "trace", [Next]_vars
  PROVE  TraceKept \/ Stopped \/ Ticked
<1>1. ASSUME NEW n \in DOMAIN tree, Enter(n) PROVE TraceKept \/ Stopped
  <2>1. Loc(n) \in Nat /\ stack' = Append(stack, [node |-> n, loc |-> Loc(n),
                                                 loop |-> tree[n].loop, mutes |-> FALSE])
    BY <1>1, EnterFacts
  <2>2. TopOf(stack') = n
    <3>1. PICK e : e = [node |-> n, loc |-> Loc(n), loop |-> tree[n].loop, mutes |-> FALSE]
      OBVIOUS
    <3>2. e \in Frames /\ ~ e.mutes /\ e.node = n
      BY <1>1, <3>1, EnterFacts
    <3>3. PICK t : t = Append(stack, e)
      OBVIOUS
    <3>4. Pushed(stack, e, t)
      BY <3>2, <3>3, PushFacts DEF BaseInv
    <3> QED
      BY <2>1, <3>1, <3>2, <3>3, <3>4 DEF Pushed
  <2>3. currentCtx' = n
    BY <2>2 DEF BaseInv, TopOf
  <2>4. IF tree[n].loop THEN LoopBegin(Loc(n), tree[n].uni)
                        ELSE CallSiteBegin(Loc(n), tree[n].uni)
    BY <1>1, EnterFacts
  <2>5. UNCHANGED clockVars
    BY <1>1 DEF Enter
  <2> QED
    BY <2>1, <2>3, <2>4, <2>5, TraceBegins
<1>2. ASSUME NEW loc \in MutedLocs, NEW n \in DOMAIN tree, NEW loop \in BOOLEAN,
             EnterMuted(loc, tree[n].uni, loop)
      PROVE  TraceKept \/ Stopped
  <2>1. disableCxtChange # 0 /\ loc \in Nat
    BY <1>2, BaseFacts, SizesAssumption DEF EnterMuted
  <2> QED
    BY <1>2, <2>1, TraceBegins DEF EnterMuted
<1>3. CASE EnterCallbackLoop
  BY <1>3, TraceBegins DEF EnterCallbackLoop
<1>4. CASE GoRound
  BY <1>4 DEF GoRound, LoopNext, ByKind, Trace!LoopNext, Trace!timeVars, Trace!ctxVars,
              clockVars, TraceKept
<1>5. CASE Leave
  <2>1. stack[Len(stack)].loc \in Nat
    BY <1>5, LeaveFacts
  <2> QED
    BY <1>5, <2>1, TraceEnds DEF Leave, Last
<1>6. CASE Tick
  <2>1. Here = currentCtx
    BY BaseFacts
  <2> QED
    BY <1>6, <2>1 DEF Tick, ctxVars, traceVars, Ticked
<1>7. CASE DisableCtxtChange \/ EnableCtxtChange \/ Finish
  BY <1>7 DEF DisableCtxtChange, EnableCtxtChange, Finish, clockVars, ctxVars, traceVars, TraceKept
<1>8. CASE \/ \E addr \in Words, size \in Sizes :
                AllocateUnhooked(addr, size) \/ \E i \in InstrIDs : Allocate(addr, size, i)
           \/ \E w \in Words : Free(owner[w]) \/ AccessWord(w)
  BY <1>8 DEF AllocateUnhooked, Allocate, Free, AccessWord, Tracing
<1>9. CASE UNCHANGED vars
  BY <1>9 DEF vars, clockVars, ctxVars, traceVars, TraceKept
<1> QED
  BY <1>1, <1>2, <1>3, <1>4, <1>5, <1>6, <1>7, <1>8, <1>9 DEF Next

LEMMA TraceStepsKeep ==
  ASSUME BaseInv, BaseInv', UNCHANGED tree, TraceInv, TraceKept \/ Stopped \/ Ticked
  PROVE  TraceInv'
<1>1. /\ currentCtx \in Nodes /\ currentCtx' \in Nodes /\ Nodes' = Nodes
      /\ \A n \in DOMAIN tree : tree[n].loop \in BOOLEAN
      /\ 0 \notin DOMAIN tree
      /\ \A n \in Nodes : n \in Nat /\ (n # 0 => n \in DOMAIN tree)
  BY TreeFacts DEF BaseInv, Nodes
<1>2. /\ now \in Nat /\ start_ \in Nat /\ start_ <= now
      /\ spent \in [Nodes -> Nat] /\ ctx_time \in [Nodes -> Nat]
  BY DEF TraceInv
<1>3. CASE TraceKept
  BY <1>1, <1>3 DEF TraceKept, TraceInv, Charged
<1>4. CASE Stopped
  <2>1. /\ now' = now /\ spent' = spent
        /\ ctx_time' \in [Nodes -> Nat] /\ start_' \in 0 .. now
        /\ \A n \in Nodes : ctx_time'[n] = Charged(n)
    BY <1>1, <1>2, <1>4 DEF Stopped, Charged
  <2>2. ASSUME NEW n \in Nodes
        PROVE  (IF n = 0 \/ tree[n].loop THEN Charged(n) = spent[n] ELSE Charged(n) >= spent[n])'
    <3>1. spent[n] \in Nat /\ Charged(n) \in Nat
      BY <1>2 DEF Charged
    <3>2. CASE start_' = now
      <4>1. Charged(n)' = Charged(n)
        BY <2>1, <3>1, <3>2 DEF Charged
      <4> QED
        BY <1>1, <2>1, <4>1 DEF TraceInv
    <3>3. CASE start_' = start_ /\ currentCtx' \in DOMAIN tree /\ ~ tree[currentCtx'].loop
      <4>1. CASE n = currentCtx'
        <5>1. Charged(n)' >= Charged(n)
          BY <1>2, <2>1, <3>1, <3>3 DEF Charged
        <5>2. Charged(n) >= spent[n] /\ Charged(n)' \in Int
          BY <1>1, <1>2, <2>1, <3>1, <3>3, <4>1 DEF TraceInv, Charged
        <5>3. ~ (n = 0 \/ tree[n].loop)
          BY <1>1, <3>3, <4>1
        <5>4. Charged(n)' >= spent[n]
          BY <3>1, <5>1, <5>2
        <5> QED
          BY <2>1, <5>3, <5>4
      <4>2. CASE n # currentCtx'
        <5>1. Charged(n)' = Charged(n)
          BY <2>1, <3>1, <4>2 DEF Charged
        <5> QED
          BY <1>1, <2>1, <5>1 DEF TraceInv
      <4> QED
        BY <4>1, <4>2
    <3> QED
      BY <1>4, <3>2, <3>3 DEF Stopped
  <2> QED
    BY <1>1, <1>2, <2>1, <2>2 DEF TraceInv
<1>5. CASE Ticked
  <2>1. /\ now' = now + 1 /\ start_' = start_ /\ ctx_time' = ctx_time /\ currentCtx' = currentCtx
        /\ spent' \in [Nodes -> Nat]
        /\ \A n \in Nodes : spent'[n] = IF n = currentCtx THEN spent[n] + 1 ELSE spent[n]
    BY <1>1, <1>2, <1>5 DEF Ticked
  <2>2. ASSUME NEW n \in Nodes
        PROVE  (IF n = 0 \/ tree[n].loop THEN Charged(n) = spent[n] ELSE Charged(n) >= spent[n])'
    <3>1. spent[n] \in Nat /\ ctx_time[n] \in Nat
      BY <1>2
    <3>2. Charged(n)' = IF n = currentCtx THEN Charged(n) + 1 ELSE Charged(n)
      BY <1>2, <2>1, <3>1 DEF Charged
    <3>3. Charged(n) \in Nat
      BY <1>2, <3>1 DEF Charged
    <3> QED
      BY <1>1, <2>1, <3>1, <3>2, <3>3 DEF TraceInv
  <2> QED
    BY <1>1, <1>2, <2>1, <2>2 DEF TraceInv
<1> QED
  BY <1>3, <1>4, <1>5

LEMMA TreeIsKept == [Next]_vars => UNCHANGED <<kind, tree>>
BY DEF Next, vars, programVars, Enter, EnterMuted, EnterCallbackLoop, GoRound, DisableCtxtChange,
       EnableCtxtChange, Leave, Tick, Finish, AllocateUnhooked, Allocate, Free, AccessWord

(***************************************************************************)
(* OnlyCallsCountTwice: over any tree, time tracing charges the root and   *)
(* every loop exactly the time spent there, and a call never less; what    *)
(* BaseInv adds is that the context charged is the one the program is in.  *)
(***************************************************************************)
THEOREM OnlyCallsAreCountedTwice == Spec => []OnlyCallsCountTwice
<1> DEFINE Inv == kind = "trace" => TraceInv
<1>1. Init => Inv
  <2> SUFFICES ASSUME Init, kind = "trace" PROVE TraceInv
    OBVIOUS
  <2>1. /\ now = 1 /\ start_ = 1 /\ currentCtx = 0
        /\ spent = [n \in Nodes |-> 0] /\ ctx_time = [n \in 0 .. nContext - 1 |-> 0]
    BY DEF Init, Trace!Initialize
  <2>2. Nodes = 0 .. nContext - 1
    BY TreeFacts DEF Init
  <2> QED
    BY <2>1, <2>2 DEF TraceInv, Charged
<1>2. BaseInv /\ Inv /\ [Next]_vars => Inv'
  <2> SUFFICES ASSUME BaseInv, Inv, [Next]_vars, kind' = "trace" PROVE TraceInv'
    OBVIOUS
  <2>1. BaseInv' /\ UNCHANGED <<kind, tree>>
    BY BaseNext, TreeIsKept
  <2> QED
    BY <2>1, TraceSteps, TraceStepsKeep
<1>3. BaseInv /\ Inv => OnlyCallsCountTwice
  <2> SUFFICES ASSUME BaseInv, TraceInv, NEW n \in Nodes
               PROVE  LET time == ctx_time[n] + (IF n = Here THEN now - start_ ELSE 0)
                      IN  IF n = 0 \/ tree[n].loop THEN time = spent[n] ELSE time >= spent[n]
    BY DEF OnlyCallsCountTwice
  <2>1. Here = currentCtx
    BY BaseFacts
  <2> QED
    BY <2>1 DEF TraceInv, Charged
<1> HIDE DEF Inv
<1> QED
  BY <1>1, <1>2, <1>3, BaseInvariant, PTL DEF Spec

-----------------------------------------------------------------------------
(***************************************************************************)
(* Sums of a function over a finite set, whatever order they are taken in. *)
(***************************************************************************)
SumOver(f, S) == FoldFunctionOnSet(+, 0, f, S)

Some(s) == CHOOSE x \in s : TRUE

Part(f, sums, s) == IF s = {} THEN 0 ELSE f[Some(s)] + sums[s \ {Some(s)}]

Sums(f, sums, S) == sums = [s \in SUBSET S |-> Part(f, sums, s)]

\* The subsets that have at most k elements.
Small(S, k) == {s \in SUBSET S : Cardinality(s) <= k}

SmallSums(f, sums, S, k) == sums = [s \in Small(S, k) |-> Part(f, sums, s)]

LEMMA SubsetFacts ==
  ASSUME NEW S, IsFiniteSet(S), NEW s \in SUBSET S
  PROVE  /\ IsFiniteSet(s) /\ Cardinality(s) \in Nat /\ (Cardinality(s) = 0 <=> s = {})
         /\ \A x \in s : s \ {x} \in SUBSET S /\ Cardinality(s \ {x}) = Cardinality(s) - 1
         /\ s # {} => Some(s) \in s
<1>1. IsFiniteSet(s)
  BY FS_Subset
<1>2. Cardinality(s) \in Nat /\ (Cardinality(s) = 0 <=> s = {})
  BY <1>1, FS_CardinalityType, FS_EmptySet
<1>3. \A x \in s : s \ {x} \in SUBSET S /\ Cardinality(s \ {x}) = Cardinality(s) - 1
  BY <1>1, FS_RemoveElement
<1>4. s # {} => Some(s) \in s
  BY Zenon DEF Some
<1> QED
  BY <1>1, <1>2, <1>3, <1>4

LEMMA SmallSumsExtend ==
  ASSUME NEW f, NEW S, IsFiniteSet(S), NEW k \in Nat, NEW sums, SmallSums(f, sums, S, k)
  PROVE  \E t : SmallSums(f, t, S, k + 1)
<1> DEFINE t == [s \in Small(S, k + 1) |-> Part(f, sums, s)]
<1>1. ASSUME NEW s \in Small(S, k)
      PROVE  t[s] = sums[s]
  <2>1. Cardinality(s) \in Nat /\ s \in SUBSET S /\ Cardinality(s) <= k
    BY SubsetFacts DEF Small
  <2>2. s \in Small(S, k + 1)
    BY <2>1 DEF Small
  <2>3. sums[s] = Part(f, sums, s)
    BY Zenon DEF SmallSums
  <2> QED
    BY <2>2, <2>3
<1>2. ASSUME NEW s \in Small(S, k + 1)
      PROVE  Part(f, sums, s) = Part(f, t, s)
  <2>1. CASE s = {}
    BY <2>1 DEF Part
  <2>2. CASE s # {}
    <3>1. s \in SUBSET S /\ Cardinality(s) <= k + 1
      BY DEF Small
    <3>2. /\ s \ {Some(s)} \in SUBSET S /\ Cardinality(s \ {Some(s)}) = Cardinality(s) - 1
          /\ Cardinality(s) \in Nat
      BY <2>2, <3>1, SubsetFacts
    <3>3. s \ {Some(s)} \in Small(S, k)
      BY <3>1, <3>2 DEF Small
    <3>4. t[s \ {Some(s)}] = sums[s \ {Some(s)}]
      BY <1>1, <3>3
    <3> HIDE DEF t
    <3> QED
      BY <2>2, <3>4 DEF Part
  <2> QED
    BY <2>1, <2>2
<1>3. t = [s \in Small(S, k + 1) |-> Part(f, t, s)]
  <2>1. t = [s \in Small(S, k + 1) |-> Part(f, sums, s)]
    OBVIOUS
  <2> HIDE DEF t
  <2> QED
    BY <1>2, <2>1
<1> QED
  BY <1>3 DEF SmallSums

LEMMA SmallSumsExist ==
  ASSUME NEW f, NEW S, IsFiniteSet(S)
  PROVE  \A k \in Nat : \E sums : SmallSums(f, sums, S, k)
<1> DEFINE Bad == {k \in Nat : ~ \E sums : SmallSums(f, sums, S, k)}
<1>1. \E sums : SmallSums(f, sums, S, 0)
  <2> DEFINE sums == [s \in Small(S, 0) |-> 0]
  <2>1. ASSUME NEW s \in Small(S, 0)
        PROVE  Part(f, sums, s) = 0
    <3>1. s = {}
      <4>1. s \in SUBSET S /\ Cardinality(s) <= 0
        BY DEF Small
      <4>2. Cardinality(s) \in Nat /\ (Cardinality(s) = 0 <=> s = {})
        BY <4>1, SubsetFacts
      <4> QED
        BY <4>1, <4>2
    <3> QED
      BY <3>1 DEF Part
  <2>2. sums = [s \in Small(S, 0) |-> 0]
    OBVIOUS
  <2> HIDE DEF sums
  <2>3. sums = [s \in Small(S, 0) |-> Part(f, sums, s)]
    BY <2>1, <2>2
  <2> QED
    BY <2>3 DEF SmallSums
<1>2. Bad = {}
  <2> SUFFICES ASSUME Bad # {} PROVE FALSE
    OBVIOUS
  <2>1. PICK k \in Bad : \A j \in Bad : k <= j
    BY LeastOf
  <2>2. k \in Nat /\ k # 0
    BY <1>1
  <2>3. k - 1 \in Nat /\ (k - 1) + 1 = k /\ k - 1 \notin Bad
    BY <2>1, <2>2
  <2>4. PICK sums : SmallSums(f, sums, S, k - 1)
    BY <2>3
  <2>5. \E t : SmallSums(f, t, S, (k - 1) + 1)
    BY <2>3, <2>4, SmallSumsExtend
  <2> QED
    BY <2>3, <2>5
<1> QED
  BY <1>2

LEMMA SumsExist ==
  ASSUME NEW f, NEW S, IsFiniteSet(S)
  PROVE  \E sums : Sums(f, sums, S)
<1>1. Cardinality(S) \in Nat
  BY FS_CardinalityType
<1>2. PICK sums : SmallSums(f, sums, S, Cardinality(S))
  BY <1>1, SmallSumsExist
<1>3. Small(S, Cardinality(S)) = SUBSET S
  BY FS_Subset DEF Small
<1> QED
  BY <1>2, <1>3, Zenon DEF SmallSums, Sums

\* What the library's fold is.
LEMMA SumUnfolds ==
  ASSUME NEW f, NEW S, IsFiniteSet(S)
  PROVE  \E sums : Sums(f, sums, S) /\ SumOver(f, S) = sums[S]
<1>1. SumOver(f, S) = (CHOOSE sums : Sums(f, sums, S))[S]
  BY DEF SumOver, FoldFunctionOnSet, MapThenFoldSet, Sums, Part, Some
<1>2. Sums(f, CHOOSE sums : Sums(f, sums, S), S)
  BY SumsExist, Zenon
<1> QED
  BY <1>1, <1>2

LEMMA SumsAgree ==
  ASSUME NEW f, NEW g, NEW S, NEW T, IsFiniteSet(S), IsFiniteSet(T),
         NEW a, NEW b, Sums(f, a, S), Sums(g, b, T),
         NEW U, U \subseteq S, U \subseteq T, \A x \in U : f[x] = g[x]
  PROVE  a[U] = b[U]
<1> DEFINE Bad == {Cardinality(s) : s \in {u \in SUBSET U : a[u] # b[u]}}
<1>1. IsFiniteSet(U)
  BY FS_Subset
<1>2. Bad \subseteq Nat
  BY <1>1, SubsetFacts
<1>3. Bad = {}
  <2> SUFFICES ASSUME Bad # {} PROVE FALSE
    OBVIOUS
  <2>1. PICK k \in Bad : \A j \in Bad : k <= j
    BY <1>2, LeastOf
  <2>2. PICK s \in SUBSET U : a[s] # b[s] /\ k = Cardinality(s)
    BY <2>1
  <2>3. a[s] = Part(f, a, s) /\ b[s] = Part(g, b, s)
    <3>1. s \in SUBSET S /\ s \in SUBSET T
      OBVIOUS
    <3> QED
      BY <3>1, Zenon DEF Sums
  <2>4. s # {}
    BY <2>2, <2>3 DEF Part
  <2>5. PICK x \in s : x = Some(s)
    BY <1>1, <2>4, SubsetFacts
  <2>6. /\ s \ {x} \in SUBSET U /\ Cardinality(s \ {x}) = Cardinality(s) - 1
        /\ Cardinality(s) \in Nat
    BY <1>1, SubsetFacts
  <2>7. a[s \ {x}] = b[s \ {x}]
    <3> SUFFICES ASSUME a[s \ {x}] # b[s \ {x}] PROVE FALSE
      OBVIOUS
    <3>1. Cardinality(s \ {x}) \in Bad
      BY <2>6
    <3> QED
      BY <2>1, <2>2, <2>6, <3>1
  <2>8. f[x] = g[x]
    OBVIOUS
  <2>9. Part(f, a, s) = Part(g, b, s)
    BY <2>4, <2>5, <2>7, <2>8 DEF Part
  <2> QED
    BY <2>2, <2>3, <2>9
<1>4. U \in SUBSET U
  OBVIOUS
<1> QED
  BY <1>3, <1>4

LEMMA SumOfNone == ASSUME NEW f PROVE SumOver(f, {}) = 0
<1>1. IsFiniteSet({})
  BY FS_EmptySet
<1>2. PICK sums : Sums(f, sums, {}) /\ SumOver(f, {}) = sums[{}]
  BY <1>1, SumUnfolds
<1>3. sums[{}] = Part(f, sums, {})
  BY <1>2 DEF Sums
<1> QED
  BY <1>2, <1>3 DEF Part

LEMMA SumsAlike ==
  ASSUME NEW f, NEW g, NEW S, IsFiniteSet(S), \A x \in S : f[x] = g[x]
  PROVE  SumOver(f, S) = SumOver(g, S)
<1>1. PICK a : Sums(f, a, S) /\ SumOver(f, S) = a[S]
  BY SumUnfolds
<1>2. PICK b : Sums(g, b, S) /\ SumOver(g, S) = b[S]
  BY SumUnfolds
<1>3. a[S] = b[S]
  BY <1>1, <1>2, SumsAgree
<1> QED
  BY <1>1, <1>2, <1>3

LEMMA SumTakesSome ==
  ASSUME NEW f, NEW S, IsFiniteSet(S), S # {}
  PROVE  SumOver(f, S) = f[Some(S)] + SumOver(f, S \ {Some(S)})
<1>1. PICK a : Sums(f, a, S) /\ SumOver(f, S) = a[S]
  BY SumUnfolds
<1>2. PICK U : U = S \ {Some(S)}
  OBVIOUS
<1>3. IsFiniteSet(U) /\ U \subseteq S /\ U \subseteq U
  BY <1>2, FS_Subset
<1>4. PICK b : Sums(f, b, U) /\ SumOver(f, U) = b[U]
  BY <1>3, SumUnfolds
<1>5. a[U] = b[U]
  <2>1. PICK g : g = f
    OBVIOUS
  <2>2. Sums(g, b, U) /\ \A x \in U : f[x] = g[x]
    BY <1>4, <2>1
  <2> QED
    BY <1>1, <1>3, <2>2, SumsAgree
<1>6. a[S] = Part(f, a, S)
  <2>1. S \in SUBSET S
    OBVIOUS
  <2> QED
    BY <1>1, <2>1, Zenon DEF Sums
<1> QED
  BY <1>1, <1>2, <1>4, <1>5, <1>6 DEF Part

Totals(f, S) ==
  /\ SumOver(f, S) \in Int
  /\ \A x \in S : SumOver(f, S) = f[x] + SumOver(f, S \ {x})

LEMMA SumFacts ==
  ASSUME NEW f, NEW S, IsFiniteSet(S), \A x \in S : f[x] \in Int
  PROVE  Totals(f, S)
<1> DEFINE Bad == {Cardinality(s) : s \in {u \in SUBSET S : ~ Totals(f, u)}}
<1>1. Bad \subseteq Nat
  BY SubsetFacts
<1>2. Bad = {}
  <2> SUFFICES ASSUME Bad # {} PROVE FALSE
    OBVIOUS
  <2>1. PICK k \in Bad : \A j \in Bad : k <= j
    BY <1>1, LeastOf
  <2>2. PICK s \in SUBSET S : ~ Totals(f, s) /\ k = Cardinality(s)
    BY <2>1
  <2>3. ASSUME NEW x \in s
        PROVE  Totals(f, s \ {x}) /\ s \ {x} \in SUBSET S
    <3>1. s \ {x} \in SUBSET S /\ Cardinality(s \ {x}) = Cardinality(s) - 1 /\ Cardinality(s) \in Nat
      BY SubsetFacts
    <3>2. Cardinality(s \ {x}) \notin Bad
      BY <2>1, <2>2, <3>1
    <3> QED
      BY <3>1, <3>2
  <2>4. CASE s = {}
    BY <2>2, <2>4, SumOfNone DEF Totals
  <2>5. CASE s # {}
    <3>1. IsFiniteSet(s)
      BY SubsetFacts
    <3>2. PICK y : y = Some(s)
      OBVIOUS
    <3>3. y \in s /\ f[y] \in Int
      BY <2>5, <3>2, SubsetFacts
    <3>4. SumOver(f, s) = f[y] + SumOver(f, s \ {y})
      BY <2>5, <3>1, <3>2, SumTakesSome
    <3>5. SumOver(f, s \ {y}) \in Int
      BY <2>3, <3>3 DEF Totals
    <3>6. ASSUME NEW x \in s
          PROVE  SumOver(f, s) = f[x] + SumOver(f, s \ {x})
      <4>1. CASE x = y
        BY <3>4, <4>1
      <4>2. CASE x # y
        <5>1. x \in s \ {y} /\ y \in s \ {x}
          BY <3>3, <4>2
        <5>2. (s \ {y}) \ {x} = (s \ {x}) \ {y}
          OBVIOUS
        <5>3. PICK r : r = (s \ {y}) \ {x}
          OBVIOUS
        <5>4. SumOver(f, s \ {y}) = f[x] + SumOver(f, r)
          BY <2>3, <3>3, <5>1, <5>3 DEF Totals
        <5>5. SumOver(f, s \ {x}) = f[y] + SumOver(f, r)
          BY <2>3, <5>1, <5>2, <5>3 DEF Totals
        <5>6. SumOver(f, r) \in Int
          <6>1. (s \ {y}) \ {x} \in SUBSET S /\ Cardinality((s \ {y}) \ {x}) = Cardinality(s) - 1 - 1
                /\ Cardinality(s) \in Nat /\ Cardinality((s \ {y}) \ {x}) \in Nat
            <7>1. s \ {y} \in SUBSET S /\ Cardinality(s \ {y}) = Cardinality(s) - 1
                  /\ Cardinality(s) \in Nat
              BY <3>3, SubsetFacts
            <7>2. /\ (s \ {y}) \ {x} \in SUBSET S
                  /\ Cardinality((s \ {y}) \ {x}) = Cardinality(s \ {y}) - 1
              <8>1. PICK u : u = s \ {y}
                OBVIOUS
              <8>2. u \in SUBSET S /\ x \in u
                BY <5>1, <7>1, <8>1
              <8>3. u \ {x} \in SUBSET S /\ Cardinality(u \ {x}) = Cardinality(u) - 1
                BY <8>2, SubsetFacts
              <8> QED
                BY <8>1, <8>3
            <7>3. Cardinality((s \ {y}) \ {x}) \in Nat
              BY <7>2, SubsetFacts
            <7> QED
              BY <7>1, <7>2, <7>3
          <6>2. Cardinality((s \ {y}) \ {x}) \notin Bad
            BY <2>1, <2>2, <6>1
          <6>3. Totals(f, (s \ {y}) \ {x})
            BY <6>1, <6>2
          <6> QED
            BY <5>3, <6>3 DEF Totals
        <5>7. f[x] \in Int
          OBVIOUS
        <5> QED
          BY <3>3, <3>4, <5>4, <5>5, <5>6, <5>7
      <4> QED
        BY <4>1, <4>2
    <3>7. SumOver(f, s) \in Int
      BY <3>3, <3>4, <3>5
    <3> QED
      BY <2>2, <3>6, <3>7 DEF Totals
  <2> QED
    BY <2>4, <2>5
<1>3. S \in SUBSET S
  OBVIOUS
<1> QED
  BY <1>2, <1>3

\* One entry counted up.
LEMMA SumBumped ==
  ASSUME NEW f, NEW g, NEW S, IsFiniteSet(S), \A y \in S : f[y] \in Int,
         NEW x, \A y \in S : g[y] = IF y = x THEN f[y] + 1 ELSE f[y]
  PROVE  SumOver(g, S) = IF x \in S THEN SumOver(f, S) + 1 ELSE SumOver(f, S)
<1>1. CASE x \notin S
  <2>1. \A y \in S : g[y] = f[y]
    BY <1>1
  <2> QED
    BY <1>1, <2>1, SumsAlike
<1>2. CASE x \in S
  <2>1. \A y \in S : g[y] \in Int
    OBVIOUS
  <2>2. SumOver(f, S) = f[x] + SumOver(f, S \ {x}) /\ SumOver(g, S) = g[x] + SumOver(g, S \ {x})
    BY <1>2, <2>1, SumFacts DEF Totals
  <2>3. SumOver(g, S \ {x}) = SumOver(f, S \ {x})
    <3>1. IsFiniteSet(S \ {x})
      BY FS_Subset
    <3>2. \A y \in S \ {x} : g[y] = f[y]
      OBVIOUS
    <3> QED
      BY <3>1, <3>2, SumsAlike
  <2>4. SumOver(f, S \ {x}) \in Int /\ f[x] \in Int /\ g[x] = f[x] + 1
    <3>1. IsFiniteSet(S \ {x}) /\ \A y \in S \ {x} : f[y] \in Int
      BY FS_Subset
    <3> QED
      BY <1>2, <3>1, SumFacts DEF Totals
  <2> QED
    BY <1>2, <2>2, <2>3, <2>4
<1> QED
  BY <1>1, <1>2

LEMMA SumOfZeros ==
  ASSUME NEW f, NEW S, IsFiniteSet(S), \A x \in S : f[x] = 0
  PROVE  SumOver(f, S) = 0
<1> DEFINE Bad == {Cardinality(s) : s \in {u \in SUBSET S : SumOver(f, u) # 0}}
<1>1. Bad \subseteq Nat
  BY SubsetFacts
<1>2. Bad = {}
  <2> SUFFICES ASSUME Bad # {} PROVE FALSE
    OBVIOUS
  <2>1. PICK k \in Bad : \A j \in Bad : k <= j
    BY <1>1, LeastOf
  <2>2. PICK s \in SUBSET S : SumOver(f, s) # 0 /\ k = Cardinality(s)
    BY <2>1
  <2>3. s # {}
    BY <2>2, SumOfNone
  <2>4. PICK x \in s : TRUE
    BY <2>3
  <2>5. /\ s \ {x} \in SUBSET S /\ Cardinality(s \ {x}) = Cardinality(s) - 1
        /\ Cardinality(s) \in Nat /\ IsFiniteSet(s)
    BY SubsetFacts
  <2>6. Cardinality(s \ {x}) \notin Bad
    BY <2>1, <2>2, <2>5
  <2>7. SumOver(f, s \ {x}) = 0
    BY <2>5, <2>6
  <2>8. \A y \in s : f[y] \in Int
    OBVIOUS
  <2>9. SumOver(f, s) = f[x] + SumOver(f, s \ {x})
    BY <2>5, <2>8, SumFacts DEF Totals
  <2> QED
    BY <2>2, <2>7, <2>9
<1>3. S \in SUBSET S
  OBVIOUS
<1> QED
  BY <1>2, <1>3

-----------------------------------------------------------------------------
(***************************************************************************)
(* The path from a node up to the root.                                    *)
(***************************************************************************)
IsTree == kind \in Kinds /\ tree \in Trees(kind)

Step(paths, n) == {n} \cup (IF n = 0 THEN {} ELSE paths[tree[n].parent])

\* The path, without recursion: what every set closed under "parent" has.
Closed(S) == \A m \in S : m # 0 => tree[m].parent \in S
Above(n)  == {m \in Nodes : \A S \in SUBSET Nodes : n \in S /\ Closed(S) => m \in S}

LEMMA AboveStep ==
  ASSUME IsTree, NEW n \in Nodes, n # 0
  PROVE  tree[n].parent \in Nodes /\ Above(n) = {n} \cup Above(tree[n].parent)
<1> DEFINE p == tree[n].parent
<1>1. \A m \in Nodes : m # 0 => tree[m].parent \in Nodes
  BY TreeFacts DEF IsTree
<1>2. p \in Nodes
  BY <1>1
<1>3. ASSUME NEW m \in Above(n)
      PROVE  m \in {n} \cup Above(p)
  <2>1. {n} \cup Above(p) \in SUBSET Nodes
    BY DEF Above
  <2>2. p \in Above(p)
    BY <1>2 DEF Above
  <2>3. ASSUME NEW q \in Above(p), q # 0
        PROVE  tree[q].parent \in Above(p)
    <3>1. q \in Nodes /\ tree[q].parent \in Nodes
      BY <1>1, <2>3 DEF Above
    <3>2. ASSUME NEW S \in SUBSET Nodes, p \in S, Closed(S)
          PROVE  tree[q].parent \in S
      BY <2>3, <3>2 DEF Above, Closed
    <3> QED
      BY <3>1, <3>2 DEF Above
  <2>4. Closed({n} \cup Above(p))
    BY <2>2, <2>3 DEF Closed
  <2> QED
    BY <2>1, <2>4 DEF Above
<1>4. n \in Above(n)
  BY DEF Above
<1>5. ASSUME NEW m \in Above(p)
      PROVE  m \in Above(n)
  <2>1. m \in Nodes
    BY DEF Above
  <2>2. ASSUME NEW S \in SUBSET Nodes, n \in S, Closed(S)
        PROVE  m \in S
    <3>1. p \in S
      BY <2>2 DEF Closed
    <3> QED
      BY <2>2, <3>1 DEF Above
  <2> QED
    BY <2>1, <2>2 DEF Above
<1> QED
  BY <1>2, <1>3, <1>4, <1>5

LEMMA PathStep ==
  ASSUME IsTree, NEW n \in Nodes
  PROVE  PathUp[n] = {n} \cup (IF n = 0 THEN {} ELSE PathUp[tree[n].parent])
<1> DEFINE paths == [m \in Nodes |-> Above(m)]
<1>1. ASSUME NEW m \in Nodes
      PROVE  Above(m) = Step(paths, m)
  <2>1. CASE m = 0
    <3>1. {0} \in SUBSET Nodes /\ Closed({0}) /\ 0 \in Nodes
      BY <2>1 DEF Closed
    <3> QED
      BY <2>1, <3>1 DEF Above, Step
  <2>2. CASE m # 0
    BY <2>2, AboveStep DEF Step
  <2> QED
    BY <2>1, <2>2
<1>2. paths = [m \in Nodes |-> Step(paths, m)]
  <2>1. paths = [m \in Nodes |-> Above(m)]
    OBVIOUS
  <2> HIDE DEF paths
  <2> QED
    BY <1>1, <2>1
<1>3. PathUp = CHOOSE f : f = [m \in Nodes |-> Step(f, m)]
  BY Zenon DEF PathUp, Step
<1>4. PathUp = [m \in Nodes |-> Step(PathUp, m)]
  <2>1. \E f : f = [m \in Nodes |-> Step(f, m)]
    BY <1>2
  <2> QED
    BY <1>3, <2>1, Zenon
<1>5. PathUp[n] = Step(PathUp, n)
  BY <1>4, Zenon
<1> QED
  BY <1>5 DEF Step

PathRight(n) == n \in PathUp[n] /\ 0 \in PathUp[n] /\ PathUp[n] \subseteq 0 .. n

LEMMA PathFacts ==
  ASSUME IsTree
  PROVE  \A n \in Nodes : PathRight(n)
<1> DEFINE Bad == {n \in Nodes : ~ PathRight(n)}
<1>1. Nodes = 0 .. Len(tree) /\ Len(tree) \in Nat
  BY TreeFacts DEF IsTree
<1>2. Bad \subseteq Nat
  BY <1>1
<1>3. Bad = {}
  <2> SUFFICES ASSUME Bad # {} PROVE FALSE
    OBVIOUS
  <2>1. PICK n \in Bad : \A m \in Bad : n <= m
    BY <1>2, LeastOf
  <2>2. n \in Nodes /\ n \in Nat
    BY <1>1
  <2>3. CASE n = 0
    <3>1. PathUp[n] = {0}
      BY <2>2, <2>3, PathStep
    <3> QED
      BY <2>3, <3>1 DEF PathRight
  <2>4. CASE n # 0
    <3>1. n \in DOMAIN tree
      BY <1>1, <2>2, <2>4, TreeFacts DEF IsTree
    <3>2. PICK p : p = tree[n].parent
      OBVIOUS
    <3>3. p \in 0 .. n - 1 /\ p \in Nodes
      BY <1>1, <2>2, <3>1, <3>2, TreeFacts DEF IsTree
    <3>4. p \notin Bad
      BY <2>1, <2>2, <3>3
    <3>5. PathRight(p)
      BY <3>3, <3>4
    <3>6. PathUp[n] = {n} \cup PathUp[p]
      BY <2>2, <2>4, <3>2, PathStep
    <3>7. 0 .. p \subseteq 0 .. n /\ n \in 0 .. n
      BY <2>2, <3>3
    <3>8. PathRight(n)
      BY <3>5, <3>6, <3>7 DEF PathRight
    <3> QED
      BY <3>8
  <2> QED
    BY <2>3, <2>4
<1> QED
  BY <1>3

LEMMA PathsAreKept == UNCHANGED tree => PathUp' = PathUp
BY DEF PathUp, Nodes

LEMMA PathTakesChild ==
  ASSUME IsTree, NEW n \in Nodes, n # 0
  PROVE  PathUp[n] = {n} \cup PathUp[tree[n].parent] /\ n \notin PathUp[tree[n].parent]
<1>1. n \in DOMAIN tree /\ n \in Nat
  BY TreeFacts DEF IsTree
<1>2. tree[n].parent \in 0 .. n - 1 /\ tree[n].parent \in Nodes
  BY <1>1, TreeFacts DEF IsTree
<1>3. PathRight(tree[n].parent)
  BY <1>2, PathFacts
<1>4. n \notin 0 .. tree[n].parent
  BY <1>1, <1>2
<1> QED
  BY <1>3, <1>4, PathStep DEF PathRight

-----------------------------------------------------------------------------
(***************************************************************************)
(* Loop execution times.  The contexts with a start time are those on the  *)
(* path up from the current one; time passes for exactly these.            *)
(***************************************************************************)
Inside(n)    == {m \in Nodes : n \in PathUp[m]}
LoopsUp(n)   == {l \in PathUp[n] \ {0} : tree[l].loop}
LoopNodes    == {n \in Nodes : LoopsUp(n) # {}}
RunningOf(n) == IF tmpTimeOfContext[n] = 0 THEN 0 ELSE now - tmpTimeOfContext[n]

TimeRight(n) ==
  /\ tmpTimeOfContext[n] # 0 <=> n \in PathUp[currentCtx]
  /\ execTimeOfContext[n] + RunningOf(n) = SumOver(spent, Inside(n))

TimesInv ==
  /\ now \in Nat \ {0} /\ spent \in [Nodes -> Nat]
  /\ execTimeOfContext \in [Nodes -> Nat] /\ tmpTimeOfContext \in [Nodes -> Nat]
  /\ \A n \in Nodes : tmpTimeOfContext[n] <= now
  /\ \A n \in DOMAIN tree : TimeRight(n)
  /\ SumOver(spent, Inside(0)) = now - 1
  /\ finished => execTimeOfContext[0] = now - 1
  /\ aborted = FALSE

LoopsInv ==
  /\ totalSometime \in Nat /\ tmpSometime \in Nat /\ tmpSometime <= now
  /\ nestingDepth = Cardinality(LoopsUp(currentCtx))
  /\ totalSometime + (IF nestingDepth > 0 THEN now - tmpSometime ELSE 0)
       = SumOver(spent, LoopNodes)

TreeKept == UNCHANGED <<kind, tree>>

ExecKept == /\ UNCHANGED <<currentCtx, now, spent, finished>>
            /\ UNCHANGED <<execTimeOfContext, tmpTimeOfContext, totalSometime, tmpSometime,
                           nestingDepth, aborted>>

\* A context below the current one is entered.
Opened(n) ==
  /\ n \in DOMAIN tree /\ tree[n].parent = currentCtx /\ currentCtx' = n
  /\ tmpTimeOfContext' = [tmpTimeOfContext EXCEPT ![n] = now]
  /\ IF tree[n].loop
     THEN /\ totalSometime' = IF nestingDepth > 0 THEN totalSometime + (now - tmpSometime)
                                                  ELSE totalSometime
          /\ tmpSometime' = now /\ nestingDepth' = nestingDepth + 1
     ELSE UNCHANGED <<totalSometime, tmpSometime, nestingDepth>>
  /\ UNCHANGED <<now, spent, finished, execTimeOfContext, aborted>>

\* The current context is left.
Shut(n) ==
  /\ n \in DOMAIN tree /\ currentCtx = n /\ currentCtx' = tree[n].parent
  /\ execTimeOfContext' = [execTimeOfContext EXCEPT ![n] = @ + now - tmpTimeOfContext[n]]
  /\ tmpTimeOfContext' = [tmpTimeOfContext EXCEPT ![n] = 0]
  /\ IF tree[n].loop
     THEN /\ totalSometime' = totalSometime + (now - tmpSometime)
          /\ tmpSometime' = now /\ nestingDepth' = nestingDepth - 1
     ELSE UNCHANGED <<totalSometime, tmpSometime, nestingDepth>>
  /\ UNCHANGED <<now, spent, finished, aborted>>

TimePassed ==
  /\ now' = now + 1 /\ spent' = [spent EXCEPT ![currentCtx] = @ + 1] /\ ~ finished
  /\ UNCHANGED <<currentCtx, finished, execTimeOfContext, tmpTimeOfContext, totalSometime,
                 tmpSometime, nestingDepth, aborted>>

Ended ==
  /\ execTimeOfContext' = [execTimeOfContext EXCEPT ![0] = now - 1]
  /\ UNCHANGED <<currentCtx, now, spent, tmpTimeOfContext, totalSometime, tmpSometime,
                 nestingDepth, aborted>>

LEMMA TreeKeptFacts ==
  ASSUME TreeKept
  PROVE  /\ Nodes' = Nodes /\ PathUp' = PathUp /\ LoopNodes' = LoopNodes
         /\ \A n : Inside(n)' = Inside(n) /\ LoopsUp(n)' = LoopsUp(n)
<1>1. Nodes' = Nodes /\ PathUp' = PathUp /\ tree' = tree
  BY PathsAreKept DEF Nodes, TreeKept
<1> QED
  BY <1>1 DEF LoopNodes, Inside, LoopsUp

LEMMA NodeFacts ==
  ASSUME IsTree
  PROVE  /\ 0 \in Nodes /\ 0 \notin DOMAIN tree /\ Nodes = DOMAIN tree \cup {0}
         /\ \A n \in DOMAIN tree : n \in Nodes /\ n # 0 /\ tree[n].parent \in Nodes
                                   /\ tree[n].loop \in BOOLEAN
         /\ IsFiniteSet(Nodes) /\ IsFiniteSet(LoopNodes)
         /\ \A n \in Nodes : IsFiniteSet(Inside(n)) /\ IsFiniteSet(LoopsUp(n))
<1>1. Nodes = 0 .. Len(tree) /\ Len(tree) \in Nat /\ DOMAIN tree = 1 .. Len(tree)
  BY TreeFacts DEF IsTree
<1>2. IsFiniteSet(Nodes)
  BY <1>1, FS_Interval
<1>3. \A n \in DOMAIN tree : tree[n].parent \in 0 .. n - 1 /\ tree[n].loop \in BOOLEAN
  BY TreeFacts DEF IsTree
<1>4. \A n \in Nodes : LoopsUp(n) \subseteq Nodes
  <2> SUFFICES ASSUME NEW n \in Nodes PROVE LoopsUp(n) \subseteq Nodes
    OBVIOUS
  <2>1. PathUp[n] \subseteq 0 .. n
    BY PathFacts DEF PathRight
  <2>2. 0 .. n \subseteq Nodes
    BY <1>1
  <2> QED
    BY <2>1, <2>2 DEF LoopsUp
<1>5. IsFiniteSet(LoopNodes) /\ \A n \in Nodes : IsFiniteSet(Inside(n)) /\ IsFiniteSet(LoopsUp(n))
  <2>1. LoopNodes \subseteq Nodes /\ \A n \in Nodes : Inside(n) \subseteq Nodes
    BY DEF LoopNodes, Inside
  <2> QED
    BY <1>2, <1>4, <2>1, FS_Subset
<1>6. \A n \in DOMAIN tree : n \in Nodes /\ n # 0 /\ tree[n].parent \in Nodes
  BY <1>1, <1>3
<1> QED
  BY <1>1, <1>2, <1>3, <1>5, <1>6

LEMMA OpenedKeepsTimes ==
  ASSUME IsTree, TreeKept, TimesInv, currentCtx \in Nodes, NEW n, Opened(n)
  PROVE  TimesInv'
<1>1. /\ n \in DOMAIN tree /\ n \in Nodes /\ n # 0
      /\ PathUp[n] = {n} \cup PathUp[currentCtx] /\ n \notin PathUp[currentCtx]
  BY NodeFacts, PathTakesChild DEF Opened
<1>2. /\ UNCHANGED <<now, spent, finished, execTimeOfContext, aborted, tree, Nodes, PathUp>>
      /\ currentCtx' = n /\ tmpTimeOfContext' = [tmpTimeOfContext EXCEPT ![n] = now]
      /\ \A k : Inside(k)' = Inside(k)
  BY TreeKeptFacts DEF Opened, TreeKept
<1>3. /\ tmpTimeOfContext' \in [Nodes -> Nat]
      /\ \A k \in Nodes : tmpTimeOfContext'[k] = IF k = n THEN now ELSE tmpTimeOfContext[k]
  BY <1>1, <1>2 DEF TimesInv
<1>4. ASSUME NEW k \in DOMAIN tree
      PROVE  TimeRight(k)'
  <2>1. TimeRight(k) /\ k \in Nodes /\ now \in Nat \ {0}
    BY NodeFacts DEF TimesInv
  <2>2. tmpTimeOfContext'[k] # 0 <=> k \in PathUp[n]
    BY <1>1, <1>3, <2>1 DEF TimeRight
  <2>3. RunningOf(k)' = RunningOf(k)
    <3>1. CASE k = n
      BY <1>1, <1>2, <1>3, <2>1, <3>1 DEF TimeRight, RunningOf
    <3>2. CASE k # n
      BY <1>2, <1>3, <2>1, <3>2 DEF RunningOf
    <3> QED
      BY <3>1, <3>2
  <2> QED
    BY <1>2, <2>1, <2>2, <2>3 DEF TimeRight
<1>5. \A k \in Nodes : tmpTimeOfContext'[k] <= now
  BY <1>3 DEF TimesInv
<1> QED
  BY <1>2, <1>3, <1>4, <1>5 DEF TimesInv

LEMMA ShutKeepsTimes ==
  ASSUME IsTree, TreeKept, TimesInv, currentCtx \in Nodes, NEW n, Shut(n)
  PROVE  TimesInv'
<1>1. /\ n \in DOMAIN tree /\ n \in Nodes /\ n # 0 /\ currentCtx = n
      /\ PathUp[n] = {n} \cup PathUp[tree[n].parent] /\ n \notin PathUp[tree[n].parent]
  BY NodeFacts, PathTakesChild DEF Shut
<1>2. /\ UNCHANGED <<now, spent, finished, aborted, tree, Nodes, PathUp>>
      /\ currentCtx' = tree[n].parent /\ tmpTimeOfContext' = [tmpTimeOfContext EXCEPT ![n] = 0]
      /\ execTimeOfContext' = [execTimeOfContext EXCEPT ![n] = @ + now - tmpTimeOfContext[n]]
      /\ \A k : Inside(k)' = Inside(k)
  BY TreeKeptFacts DEF Shut, TreeKept
<1>3. /\ now \in Nat \ {0} /\ tmpTimeOfContext[n] \in Nat /\ tmpTimeOfContext[n] <= now
      /\ execTimeOfContext[n] \in Nat
  BY <1>1 DEF TimesInv
<1>4. /\ tmpTimeOfContext' \in [Nodes -> Nat] /\ execTimeOfContext' \in [Nodes -> Nat]
      /\ \A k \in Nodes : tmpTimeOfContext'[k] = IF k = n THEN 0 ELSE tmpTimeOfContext[k]
      /\ \A k \in Nodes : execTimeOfContext'[k]
           = IF k = n THEN execTimeOfContext[k] + now - tmpTimeOfContext[k] ELSE execTimeOfContext[k]
  BY <1>1, <1>2, <1>3 DEF TimesInv
<1>5. ASSUME NEW k \in DOMAIN tree
      PROVE  TimeRight(k)'
  <2>1. TimeRight(k) /\ k \in Nodes
    BY NodeFacts DEF TimesInv
  <2>2. tmpTimeOfContext'[k] # 0 <=> k \in PathUp[tree[n].parent]
    BY <1>1, <1>4, <2>1 DEF TimeRight
  <2>3. execTimeOfContext'[k] + RunningOf(k)' = execTimeOfContext[k] + RunningOf(k)
    <3>1. CASE k = n
      <4>1. tmpTimeOfContext[k] # 0
        BY <1>1, <2>1, <3>1 DEF TimeRight
      <4> QED
        BY <1>2, <1>3, <1>4, <2>1, <3>1, <4>1 DEF RunningOf
    <3>2. CASE k # n
      BY <1>2, <1>4, <2>1, <3>2 DEF RunningOf
    <3> QED
      BY <3>1, <3>2
  <2> QED
    BY <1>2, <2>1, <2>2, <2>3 DEF TimeRight
<1>6. \A k \in Nodes : tmpTimeOfContext'[k] <= now
  BY <1>3, <1>4 DEF TimesInv
<1>7. finished => execTimeOfContext'[0] = now - 1
  BY <1>1, <1>4, NodeFacts DEF TimesInv
<1> QED
  BY <1>2, <1>4, <1>5, <1>6, <1>7 DEF TimesInv

LEMMA TimePassesFor ==
  ASSUME IsTree, TimesInv, currentCtx \in Nodes, TimePassed, NEW S, S \subseteq Nodes
  PROVE  SumOver(spent', S) = IF currentCtx \in S THEN SumOver(spent, S) + 1
                                                  ELSE SumOver(spent, S)
<1>1. IsFiniteSet(S)
  BY NodeFacts, FS_Subset
<1>2. \A m \in S : spent[m] \in Int
  BY DEF TimesInv
<1>3. \A m \in S : spent'[m] = IF m = currentCtx THEN spent[m] + 1 ELSE spent[m]
  BY DEF TimesInv, TimePassed
<1> QED
  BY <1>1, <1>2, <1>3, SumBumped

LEMMA SumsOfTime ==
  ASSUME IsTree, TimesInv, NEW S, S \subseteq Nodes
  PROVE  SumOver(spent, S) \in Int
<1>1. IsFiniteSet(S)
  BY NodeFacts, FS_Subset
<1>2. \A m \in S : spent[m] \in Int
  BY DEF TimesInv
<1> QED
  BY <1>1, <1>2, SumFacts DEF Totals

LEMMA TimePassedKeepsTimes ==
  ASSUME IsTree, TreeKept, TimesInv, currentCtx \in Nodes, TimePassed
  PROVE  TimesInv'
<1>1. /\ UNCHANGED <<currentCtx, finished, execTimeOfContext, tmpTimeOfContext, aborted, tree,
                     Nodes, PathUp>>
      /\ now' = now + 1 /\ spent' = [spent EXCEPT ![currentCtx] = @ + 1] /\ ~ finished
      /\ \A k : Inside(k)' = Inside(k)
  BY TreeKeptFacts DEF TimePassed, TreeKept
<1>2. /\ now \in Nat \ {0} /\ now' \in Nat \ {0} /\ spent' \in [Nodes -> Nat]
      /\ \A n \in Nodes : tmpTimeOfContext[n] <= now'
  BY <1>1 DEF TimesInv
<1>3. ASSUME NEW k \in Nodes
      PROVE  SumOver(spent', Inside(k))
               = IF k \in PathUp[currentCtx] THEN SumOver(spent, Inside(k)) + 1
                                             ELSE SumOver(spent, Inside(k))
  <2>1. PICK S : S = Inside(k)
    OBVIOUS
  <2>2. S \subseteq Nodes /\ (currentCtx \in S <=> k \in PathUp[currentCtx])
    BY <2>1 DEF Inside
  <2>3. SumOver(spent', S) = IF currentCtx \in S THEN SumOver(spent, S) + 1
                                                 ELSE SumOver(spent, S)
    BY <2>2, TimePassesFor
  <2> QED
    BY <2>1, <2>2, <2>3
<1>4. ASSUME NEW k \in DOMAIN tree
      PROVE  TimeRight(k)'
  <2>1. /\ TimeRight(k) /\ k \in Nodes /\ tmpTimeOfContext[k] \in Nat
        /\ execTimeOfContext[k] \in Nat /\ tmpTimeOfContext[k] <= now
    BY NodeFacts DEF TimesInv
  <2>2. RunningOf(k)' = IF k \in PathUp[currentCtx] THEN RunningOf(k) + 1 ELSE RunningOf(k)
    BY <1>1, <1>2, <2>1 DEF RunningOf, TimeRight
  <2>3. RunningOf(k) \in Nat
    BY <1>2, <2>1 DEF RunningOf
  <2>4. PICK v : v = SumOver(spent, Inside(k))
    OBVIOUS
  <2>5. execTimeOfContext[k] + RunningOf(k) = v
    BY <2>1, <2>4 DEF TimeRight
  <2>6. SumOver(spent', Inside(k)) = IF k \in PathUp[currentCtx] THEN v + 1 ELSE v
    BY <1>3, <2>1, <2>4
  <2>7. execTimeOfContext'[k] + RunningOf(k)' = SumOver(spent', Inside(k))
    BY <1>1, <2>1, <2>2, <2>3, <2>5, <2>6
  <2> QED
    BY <1>1, <2>1, <2>7 DEF TimeRight
<1>5. SumOver(spent', Inside(0)) = now' - 1
  <2>1. 0 \in PathUp[currentCtx] /\ 0 \in Nodes
    BY PathFacts, NodeFacts DEF PathRight
  <2>2. SumOver(spent, Inside(0)) = now - 1
    BY DEF TimesInv
  <2>3. SumOver(spent', Inside(0)) = SumOver(spent, Inside(0)) + 1
    BY <1>3, <2>1
  <2> QED
    BY <1>1, <1>2, <2>2, <2>3
<1> QED
  BY <1>1, <1>2, <1>4, <1>5 DEF TimesInv

LEMMA EndedKeepsTimes ==
  ASSUME IsTree, TreeKept, TimesInv, Ended
  PROVE  TimesInv'
<1>1. /\ UNCHANGED <<currentCtx, now, spent, tmpTimeOfContext, aborted, tree, Nodes, PathUp>>
      /\ execTimeOfContext' = [execTimeOfContext EXCEPT ![0] = now - 1]
      /\ \A k : Inside(k)' = Inside(k)
  BY TreeKeptFacts DEF Ended, TreeKept
<1>2. /\ execTimeOfContext' \in [Nodes -> Nat] /\ execTimeOfContext'[0] = now - 1
      /\ \A k \in DOMAIN tree : execTimeOfContext'[k] = execTimeOfContext[k]
  BY <1>1, NodeFacts DEF TimesInv
<1>3. \A k \in DOMAIN tree : TimeRight(k)'
  BY <1>1, <1>2 DEF TimesInv, TimeRight, RunningOf
<1> QED
  BY <1>1, <1>2, <1>3 DEF TimesInv

LEMMA KeptKeepsTimes ==
  ASSUME TreeKept, TimesInv, ExecKept
  PROVE  TimesInv'
BY TreeKeptFacts DEF TreeKept, ExecKept, TimesInv, TimeRight, RunningOf

-----------------------------------------------------------------------------
LEMMA LoopsOnPath ==
  ASSUME IsTree, NEW n \in DOMAIN tree
  PROVE  /\ LoopsUp(n) = IF tree[n].loop THEN LoopsUp(tree[n].parent) \cup {n}
                                         ELSE LoopsUp(tree[n].parent)
         /\ n \notin LoopsUp(tree[n].parent)
         /\ Cardinality(LoopsUp(tree[n].parent)) \in Nat
         /\ Cardinality(LoopsUp(n)) = Cardinality(LoopsUp(tree[n].parent))
                                        + (IF tree[n].loop THEN 1 ELSE 0)
<1>1. /\ n \in Nodes /\ n # 0 /\ tree[n].parent \in Nodes /\ tree[n].loop \in BOOLEAN
      /\ PathUp[n] = {n} \cup PathUp[tree[n].parent] /\ n \notin PathUp[tree[n].parent]
  BY NodeFacts, PathTakesChild
<1>2. /\ LoopsUp(n) = IF tree[n].loop THEN LoopsUp(tree[n].parent) \cup {n}
                                      ELSE LoopsUp(tree[n].parent)
      /\ n \notin LoopsUp(tree[n].parent)
  BY <1>1 DEF LoopsUp
<1>3. PICK L : L = LoopsUp(tree[n].parent)
  OBVIOUS
<1>4. IsFiniteSet(L) /\ n \notin L
  BY <1>1, <1>2, <1>3, NodeFacts
<1>5. Cardinality(L) \in Nat /\ Cardinality(L \cup {n}) = Cardinality(L) + 1
  BY <1>4, FS_CardinalityType, FS_AddElement
<1>6. Cardinality(LoopsUp(n)) = Cardinality(L) + (IF tree[n].loop THEN 1 ELSE 0)
  <2>1. CASE tree[n].loop
    <3>1. Cardinality(LoopsUp(n)) = Cardinality(L \cup {n})
      BY <1>2, <1>3, <2>1, Zenon
    <3> QED
      BY <1>5, <2>1, <3>1
  <2>2. CASE ~ tree[n].loop
    <3>1. Cardinality(LoopsUp(n)) = Cardinality(L)
      BY <1>2, <1>3, <2>2, Zenon
    <3> QED
      BY <1>5, <2>2, <3>1
  <2> QED
    BY <2>1, <2>2
<1> QED
  BY <1>2, <1>3, <1>5, <1>6

LEMMA OpenedKeepsLoops ==
  ASSUME IsTree, TreeKept, TimesInv, LoopsInv, NEW n, Opened(n)
  PROVE  LoopsInv'
<1>1. PICK c : c = Cardinality(LoopsUp(currentCtx))
  OBVIOUS
<1>2. /\ n \in DOMAIN tree /\ currentCtx' = n /\ now' = now /\ spent' = spent
      /\ LoopNodes' = LoopNodes /\ c \in Nat /\ tree[n].loop \in BOOLEAN
      /\ Cardinality(LoopsUp(n)) = c + (IF tree[n].loop THEN 1 ELSE 0)
      /\ Cardinality(LoopsUp(currentCtx)') = Cardinality(LoopsUp(n))
  <2>1. n \in DOMAIN tree /\ tree[n].parent = currentCtx
    BY DEF Opened
  <2>2. LoopsUp(currentCtx)' = LoopsUp(n)
    BY PathsAreKept DEF Opened, LoopsUp, TreeKept
  <2>3. Cardinality(LoopsUp(currentCtx)') = Cardinality(LoopsUp(n))
    BY <2>2, Zenon
  <2> QED
    BY <1>1, <2>1, <2>3, LoopsOnPath, NodeFacts, TreeKeptFacts DEF Opened
<1>3. /\ totalSometime \in Nat /\ tmpSometime \in Nat /\ tmpSometime <= now /\ now \in Nat
      /\ nestingDepth = c
  BY <1>1 DEF LoopsInv, TimesInv
<1>4. CASE tree[n].loop
  <2>1. /\ totalSometime' = IF nestingDepth > 0 THEN totalSometime + (now - tmpSometime)
                                                ELSE totalSometime
        /\ tmpSometime' = now /\ nestingDepth' = nestingDepth + 1
    BY <1>4 DEF Opened
  <2>2. totalSometime' \in Nat /\ tmpSometime' \in Nat /\ tmpSometime' <= now'
    BY <1>2, <1>3, <2>1
  <2>3. nestingDepth' = Cardinality(LoopsUp(currentCtx)')
    BY <1>2, <1>3, <1>4, <2>1
  <2>4. totalSometime' + (IF nestingDepth' > 0 THEN now' - tmpSometime' ELSE 0)
          = SumOver(spent', LoopNodes')
    BY <1>2, <1>3, <2>1 DEF LoopsInv
  <2> QED
    BY <2>2, <2>3, <2>4 DEF LoopsInv
<1>5. CASE ~ tree[n].loop
  BY <1>2, <1>3, <1>5 DEF Opened, LoopsInv
<1> QED
  BY <1>2, <1>4, <1>5

LEMMA ShutKeepsLoops ==
  ASSUME IsTree, TreeKept, TimesInv, LoopsInv, NEW n, Shut(n)
  PROVE  LoopsInv'
<1>1. PICK c : c = Cardinality(LoopsUp(tree[n].parent))
  OBVIOUS
<1>2. /\ n \in DOMAIN tree /\ currentCtx = n /\ now' = now /\ spent' = spent
      /\ LoopNodes' = LoopNodes /\ c \in Nat /\ tree[n].loop \in BOOLEAN
      /\ Cardinality(LoopsUp(n)) = c + (IF tree[n].loop THEN 1 ELSE 0)
      /\ Cardinality(LoopsUp(currentCtx)') = c
  <2>1. n \in DOMAIN tree /\ currentCtx' = tree[n].parent
    BY DEF Shut
  <2>2. LoopsUp(currentCtx)' = LoopsUp(tree[n].parent)
    BY <2>1, PathsAreKept DEF LoopsUp, TreeKept
  <2>3. Cardinality(LoopsUp(currentCtx)') = Cardinality(LoopsUp(tree[n].parent))
    BY <2>2, Zenon
  <2> QED
    BY <1>1, <2>1, <2>3, LoopsOnPath, NodeFacts, TreeKeptFacts DEF Shut
<1>3. /\ totalSometime \in Nat /\ tmpSometime \in Nat /\ tmpSometime <= now /\ now \in Nat
      /\ nestingDepth = c + (IF tree[n].loop THEN 1 ELSE 0)
  BY <1>2 DEF LoopsInv, TimesInv
<1>4. CASE tree[n].loop
  <2>1. /\ totalSometime' = totalSometime + (now - tmpSometime)
        /\ tmpSometime' = now /\ nestingDepth' = nestingDepth - 1
    BY <1>4 DEF Shut
  <2>2. totalSometime' \in Nat /\ tmpSometime' \in Nat /\ tmpSometime' <= now'
    BY <1>2, <1>3, <2>1
  <2>3. nestingDepth' = Cardinality(LoopsUp(currentCtx)')
    BY <1>2, <1>3, <1>4, <2>1
  <2>4. totalSometime' + (IF nestingDepth' > 0 THEN now' - tmpSometime' ELSE 0)
          = SumOver(spent', LoopNodes')
    BY <1>2, <1>3, <1>4, <2>1 DEF LoopsInv
  <2> QED
    BY <2>2, <2>3, <2>4 DEF LoopsInv
<1>5. CASE ~ tree[n].loop
  BY <1>2, <1>3, <1>5 DEF Shut, LoopsInv
<1> QED
  BY <1>2, <1>4, <1>5

LEMMA TimePassedKeepsLoops ==
  ASSUME IsTree, TreeKept, TimesInv, LoopsInv, currentCtx \in Nodes, TimePassed
  PROVE  LoopsInv'
<1>1. PICK L : L = LoopsUp(currentCtx)
  OBVIOUS
<1>2. /\ UNCHANGED <<currentCtx, totalSometime, tmpSometime, nestingDepth>>
      /\ now' = now + 1 /\ LoopNodes' = LoopNodes
  BY TreeKeptFacts DEF TimePassed
<1>3. LoopsUp(currentCtx)' = L
  BY <1>1, <1>2, PathsAreKept DEF LoopsUp, TreeKept
<1>4. IsFiniteSet(L)
  BY <1>1, NodeFacts
<1>5. Cardinality(L) \in Nat /\ (Cardinality(L) = 0 <=> L = {})
  BY <1>4, FS_CardinalityType, FS_EmptySet
<1>6. nestingDepth = Cardinality(L)
  BY <1>1 DEF LoopsInv
<1>7. currentCtx \in LoopNodes <=> nestingDepth > 0
  BY <1>1, <1>5, <1>6 DEF LoopNodes
<1>8. SumOver(spent', LoopNodes) = IF nestingDepth > 0 THEN SumOver(spent, LoopNodes) + 1
                                                       ELSE SumOver(spent, LoopNodes)
  <2>1. LoopNodes \subseteq Nodes
    BY DEF LoopNodes
  <2> QED
    BY <1>7, <2>1, TimePassesFor
<1>9. nestingDepth' = Cardinality(LoopsUp(currentCtx)')
  BY <1>2, <1>3, <1>6, Zenon
<1>10. now \in Nat /\ totalSometime \in Nat /\ tmpSometime \in Nat /\ tmpSometime <= now
  BY DEF LoopsInv, TimesInv
<1> QED
  BY <1>2, <1>8, <1>9, <1>10 DEF LoopsInv

LEMMA OthersKeepLoops ==
  ASSUME TreeKept, LoopsInv, ExecKept \/ Ended
  PROVE  LoopsInv'
<1>1. UNCHANGED <<currentCtx, now, spent, totalSometime, tmpSometime, nestingDepth>>
  BY DEF ExecKept, Ended
<1>2. LoopsUp(currentCtx)' = LoopsUp(currentCtx) /\ LoopNodes' = LoopNodes
  BY <1>1, TreeKeptFacts, PathsAreKept DEF LoopsUp, TreeKept
<1>3. Cardinality(LoopsUp(currentCtx)') = Cardinality(LoopsUp(currentCtx))
  BY <1>2, Zenon
<1> QED
  BY <1>1, <1>2, <1>3 DEF LoopsInv

-----------------------------------------------------------------------------
\* Where calls and loops that follow the tree lead to.
LEMMA EnterGoesDown ==
  ASSUME BaseInv, BaseInv', NEW n \in DOMAIN tree, Enter(n)
  PROVE  currentCtx' = n
<1>1. PICK e : e = [node |-> n, loc |-> Loc(n), loop |-> tree[n].loop, mutes |-> FALSE]
  OBVIOUS
<1>2. e \in Frames /\ ~ e.mutes /\ e.node = n /\ stack' = Append(stack, e)
  BY <1>1, EnterFacts
<1>3. PICK t : t = Append(stack, e)
  OBVIOUS
<1>4. Pushed(stack, e, t)
  BY <1>2, <1>3, PushFacts DEF BaseInv
<1>5. TopOf(stack') = n
  BY <1>2, <1>3, <1>4 DEF Pushed
<1> QED
  BY <1>5 DEF BaseInv, TopOf

LEMMA LeaveGoesUp ==
  ASSUME BaseInv, BaseInv', Leave, ~ Muted, kind \notin CallbackKinds
  PROVE  /\ currentCtx \in DOMAIN tree /\ currentCtx' = tree[currentCtx].parent
         /\ stack[Len(stack)].loc = Loc(currentCtx)
         /\ stack[Len(stack)].loop = tree[currentCtx].loop
<1>1. /\ stack # <<>> /\ ~ stack[Len(stack)].mutes /\ stack' = Front(stack)
      /\ Len(stack) \in 1 .. Len(stack) /\ DOMAIN stack = 1 .. Len(stack) /\ stack \in Stacks
  BY LeaveFacts, StackFacts, EmptySeq DEF BaseInv
<1>2. PICK t : t = Front(stack)
  OBVIOUS
<1>3. TopOf(t) = Below(stack, Len(stack))
  <2>1. Popped(stack, t)
    BY <1>1, <1>2, PopFacts
  <2> QED
    BY <2>1 DEF Popped
<1>4. currentCtx' = Below(stack, Len(stack))
  BY <1>1, <1>2, <1>3 DEF BaseInv, TopOf
<1>5. ~ EnteredMuted(stack, Len(stack))
  <2>1. \A j \in 1 .. Len(stack) - 1 : j \in DOMAIN stack
    BY <1>1
  <2> QED
    BY <2>1 DEF EnteredMuted, Muted
<1>6. ByEdge(stack, Len(stack))
  BY <1>1, <1>5 DEF BaseInv, StackRight, ByCallback
<1>7. currentCtx = stack[Len(stack)].node
  BY <1>1 DEF BaseInv, TopOf
<1> QED
  BY <1>4, <1>6, <1>7 DEF ByEdge

LEMMA ExecEnters ==
  ASSUME BaseInv, BaseInv', TimesInv, kind = "exec", NEW n \in DOMAIN tree, Enter(n)
  PROVE  Opened(n)
<1>1. /\ ~ Muted /\ tree[n].parent = Here /\ Loc(n) \in Nat \ {0}
      /\ IF tree[n].loop THEN LoopBegin(Loc(n), tree[n].uni) ELSE CallSiteBegin(Loc(n), tree[n].uni)
  BY EnterFacts
<1>2. currentCtx' = n /\ Here = currentCtx /\ disableCxtChange = 0 /\ currentCtx \in Nodes
  BY <1>1, EnterGoesDown, BaseFacts
<1>3. UNCHANGED <<now, spent, finished>>
  BY DEF Enter, clockVars, programVars
<1>4. IsTree
  BY DEF BaseInv, IsTree
<1>5. n \in Nodes /\ DOMAIN execTimeOfContext = Nodes /\ tmpTimeOfContext[n] = 0
  <2>1. n \in Nodes /\ n # 0
    BY <1>4, NodeFacts
  <2>2. n \notin PathUp[currentCtx]
    BY <1>1, <1>2, <1>4, <2>1, PathTakesChild
  <2> QED
    BY <2>1, <2>2 DEF TimesInv, TimeRight
<1>6. CASE tree[n].loop
  <2>1. Exec!LoopBegin(Loc(n))
    BY <1>1, <1>6 DEF LoopBegin, ByKind
  <2>2. Exec!StartLoop(n)
    BY <1>2, <1>5, <2>1 DEF Exec!LoopBegin, Exec!Listed
  <2> QED
    BY <1>1, <1>2, <1>3, <1>6, <2>2 DEF Exec!StartLoop, Opened
<1>7. CASE ~ tree[n].loop
  <2>1. Exec!CallSiteBegin(Loc(n)) /\ ~ (Loc(n) < 1)
    BY <1>1, <1>7 DEF CallSiteBegin, ByKind
  <2>2. Exec!StartCall(n)
    BY <1>2, <1>5, <2>1 DEF Exec!CallSiteBegin, Exec!Listed
  <2> QED
    BY <1>1, <1>2, <1>3, <1>5, <1>7, <2>2 DEF Exec!StartCall, Opened
<1> QED
  BY <1>6, <1>7

LEMMA ExecLeaves ==
  ASSUME BaseInv, BaseInv', TimesInv, kind = "exec", kind \notin CallbackKinds, Leave, ~ Muted
  PROVE  Shut(currentCtx)
<1>1. /\ currentCtx \in DOMAIN tree /\ currentCtx' = tree[currentCtx].parent
      /\ stack[Len(stack)].loc = Loc(currentCtx)
      /\ stack[Len(stack)].loop = tree[currentCtx].loop
      /\ disableCxtChange = 0
  BY LeaveGoesUp, BaseFacts
<1>2. UNCHANGED <<now, spent, finished>>
  BY DEF Leave, clockVars, programVars
<1>3. IsTree
  BY DEF BaseInv, IsTree
<1>4. /\ currentCtx \in Nodes /\ DOMAIN execTimeOfContext = Nodes
      /\ tmpTimeOfContext[currentCtx] # 0
  <2>1. currentCtx \in Nodes
    BY <1>1, <1>3, NodeFacts
  <2>2. currentCtx \in PathUp[currentCtx]
    BY <1>3, <2>1, PathFacts DEF PathRight
  <2> QED
    BY <1>1, <2>1, <2>2 DEF TimesInv, TimeRight
<1>5. IF stack[Len(stack)].loop THEN LoopEnd(Loc(currentCtx)) ELSE CallSiteEnd(Loc(currentCtx))
  BY <1>1, LeaveFacts
<1>6. CASE tree[currentCtx].loop
  <2>1. Exec!LoopEnd(Loc(currentCtx))
    BY <1>1, <1>5, <1>6 DEF LoopEnd, ByKind
  <2>2. Exec!StopLoop(currentCtx)
    BY <1>1, <1>4, <2>1 DEF Exec!LoopEnd, Exec!Listed
  <2> QED
    BY <1>1, <1>2, <1>4, <1>6, <2>2 DEF Exec!StopLoop, Exec!Charge, Shut
<1>7. CASE ~ tree[currentCtx].loop
  <2>1. Exec!CallSiteEnd(Loc(currentCtx)) /\ ~ (Loc(currentCtx) < 1)
    <3>1. Loc(currentCtx) \in Nat \ {0}
      BY <1>1, TreeFacts DEF Loc, BaseInv
    <3> QED
      BY <1>1, <1>5, <1>7, <3>1 DEF CallSiteEnd, ByKind
  <2>2. /\ Exec!Charge(currentCtx)
        /\ UNCHANGED <<totalSometime, tmpSometime, nestingDepth, aborted>>
    BY <1>1, <1>4, <2>1 DEF Exec!CallSiteEnd, Exec!Listed
  <2> QED
    BY <1>1, <1>2, <1>7, <2>2 DEF Exec!Charge, Shut
<1> QED
  BY <1>6, <1>7

ExecStep == (\E n : Opened(n) \/ Shut(n)) \/ TimePassed \/ Ended \/ ExecKept

LEMMA ExecSteps ==
  ASSUME BaseInv, BaseInv', TimesInv, kind = "exec", "exec" \notin CallbackKinds, [Next]_vars
  PROVE  ExecStep
<1>1. ASSUME NEW n \in DOMAIN tree, Enter(n) PROVE Opened(n)
  BY <1>1, ExecEnters
<1>2. ASSUME NEW loc \in MutedLocs, NEW n \in DOMAIN tree, NEW loop \in BOOLEAN,
             EnterMuted(loc, tree[n].uni, loop)
      PROVE  ExecKept
  <2>1. disableCxtChange # 0
    BY <1>2, BaseFacts DEF EnterMuted
  <2> QED
    BY <1>2, <2>1 DEF EnterMuted, LoopBegin, CallSiteBegin, ByKind, Exec!LoopBegin,
                      Exec!CallSiteBegin, Exec!ctxVars, Exec!timeVars, clockVars, programVars,
                      ExecKept
<1>3. ~ EnterCallbackLoop
  BY DEF EnterCallbackLoop
<1>4. CASE GoRound
  <2>1. Exec!LoopNext /\ UNCHANGED <<programVars, clockVars>>
    BY <1>4 DEF GoRound, LoopNext, ByKind
  <2> QED
    BY <2>1 DEF Exec!LoopNext, Exec!ctxVars, Exec!timeVars, clockVars, programVars, ExecKept,
                ExecStep
<1>5. CASE Leave /\ Muted
  <2>1. disableCxtChange # 0
    BY <1>5, BaseFacts
  <2>2. PICK loc : loc = stack[Len(stack)].loc
    OBVIOUS
  <2>3. Exec!LoopEnd(loc) \/ Exec!CallSiteEnd(loc)
    BY <1>5, <2>2, LeaveFacts DEF LoopEnd, CallSiteEnd, ByKind
  <2>4. UNCHANGED <<programVars, clockVars>>
    BY <1>5 DEF Leave
  <2> QED
    BY <2>1, <2>3, <2>4 DEF Exec!LoopEnd, Exec!CallSiteEnd, Exec!ctxVars, Exec!timeVars,
                            clockVars, programVars, ExecKept, ExecStep
<1>6. CASE Leave /\ ~ Muted
  BY <1>6, ExecLeaves DEF ExecStep
<1>7. CASE Tick
  <2>1. Here = currentCtx
    BY BaseFacts
  <2> QED
    BY <1>7, <2>1 DEF Tick, Running, ctxVars, execVars, programVars, TimePassed, ExecStep
<1>8. CASE Finish
  BY <1>8 DEF Finish, Exec!Finalize, Exec!ctxVars, clockVars, Ended, ExecStep
<1>9. CASE DisableCtxtChange \/ EnableCtxtChange
  BY <1>9 DEF DisableCtxtChange, EnableCtxtChange, clockVars, programVars, execVars, ExecKept,
              ExecStep
<1>10. CASE \/ \E addr \in Words, size \in Sizes :
                 AllocateUnhooked(addr, size) \/ \E i \in InstrIDs : Allocate(addr, size, i)
            \/ \E w \in Words : Free(owner[w]) \/ AccessWord(w)
  BY <1>10 DEF AllocateUnhooked, Allocate, Free, AccessWord, Tracing
<1>11. CASE UNCHANGED vars
  BY <1>11 DEF vars, clockVars, ctxVars, programVars, execVars, ExecKept, ExecStep
<1> QED
  BY <1>1, <1>2, <1>3, <1>4, <1>5, <1>6, <1>7, <1>8, <1>9, <1>10, <1>11 DEF Next, ExecStep

LEMMA ExecStepsKeep ==
  ASSUME BaseInv, TreeKept, TimesInv, LoopsInv, ExecStep
  PROVE  TimesInv' /\ LoopsInv'
<1>1. IsTree /\ currentCtx \in Nodes
  BY DEF BaseInv, IsTree
<1>2. ASSUME NEW n, Opened(n) PROVE TimesInv' /\ LoopsInv'
  BY <1>1, <1>2, OpenedKeepsTimes, OpenedKeepsLoops
<1>3. ASSUME NEW n, Shut(n) PROVE TimesInv' /\ LoopsInv'
  BY <1>1, <1>3, ShutKeepsTimes, ShutKeepsLoops
<1>4. CASE TimePassed
  BY <1>1, <1>4, TimePassedKeepsTimes, TimePassedKeepsLoops
<1>5. CASE Ended
  BY <1>1, <1>5, EndedKeepsTimes, OthersKeepLoops
<1>6. CASE ExecKept
  BY <1>6, KeptKeepsTimes, OthersKeepLoops
<1> QED
  BY <1>2, <1>3, <1>4, <1>5, <1>6 DEF ExecStep

ExecInv == kind = "exec" /\ "exec" \notin CallbackKinds => TimesInv /\ LoopsInv

LEMMA ExecInit == Init => ExecInv
<1> SUFFICES ASSUME Init, kind = "exec" PROVE TimesInv /\ LoopsInv
  BY DEF ExecInv
<1>1. /\ now = 1 /\ finished = FALSE /\ aborted = FALSE /\ currentCtx = 0
      /\ spent = [n \in Nodes |-> 0]
      /\ execTimeOfContext = [c \in 0 .. nContext - 1 |-> 0]
      /\ tmpTimeOfContext = [c \in 0 .. nContext - 1 |-> 0]
      /\ totalSometime = 0 /\ tmpSometime = 0 /\ nestingDepth = 0
  BY DEF Init, Exec!Initialize
<1>2. IsTree /\ 0 .. nContext - 1 = Nodes
  BY TreeFacts DEF Init, IsTree
<1>3. PathUp[0] = {0} /\ 0 \in Nodes
  BY <1>2, PathStep, NodeFacts
<1>4. \A S \in SUBSET Nodes : SumOver(spent, S) = 0
  <2> SUFFICES ASSUME NEW S \in SUBSET Nodes PROVE SumOver(spent, S) = 0
    OBVIOUS
  <2>1. IsFiniteSet(S) /\ \A n \in S : spent[n] = 0
    BY <1>1, <1>2, NodeFacts, FS_Subset
  <2> QED
    BY <2>1, SumOfZeros
<1>5. SumOver(spent, LoopNodes) = 0 /\ \A n : SumOver(spent, Inside(n)) = 0
  BY <1>4 DEF LoopNodes, Inside
<1>6. ASSUME NEW n \in DOMAIN tree
      PROVE  TimeRight(n)
  <2>1. n \in Nodes /\ n # 0
    BY <1>2, NodeFacts
  <2>2. tmpTimeOfContext[n] = 0 /\ execTimeOfContext[n] = 0
    BY <1>1, <1>2, <2>1
  <2>3. n \notin PathUp[currentCtx]
    BY <1>1, <1>3, <2>1
  <2>4. RunningOf(n) = 0
    BY <2>2 DEF RunningOf
  <2> QED
    BY <1>5, <2>2, <2>3, <2>4 DEF TimeRight
<1>7. TimesInv
  <2>1. /\ spent \in [Nodes -> Nat] /\ execTimeOfContext \in [Nodes -> Nat]
        /\ tmpTimeOfContext \in [Nodes -> Nat] /\ \A n \in Nodes : tmpTimeOfContext[n] = 0
    BY <1>1, <1>2
  <2>2. SumOver(spent, Inside(0)) = now - 1
    BY <1>1, <1>5
  <2>3. now \in Nat \ {0} /\ now = 1 /\ ~ finished /\ aborted = FALSE
    BY <1>1
  <2>4. ASSUME NEW n \in Nodes
        PROVE  tmpTimeOfContext[n] <= now
    <3>1. tmpTimeOfContext[n] = 0
      BY <2>1
    <3> QED
      BY <2>3, <3>1
  <2> QED
    BY <1>6, <2>1, <2>2, <2>3, <2>4 DEF TimesInv
<1>8. LoopsInv
  <2>1. LoopsUp(currentCtx) = {}
    BY <1>1, <1>3 DEF LoopsUp
  <2>2. Cardinality(LoopsUp(currentCtx)) = 0
    BY <2>1, FS_EmptySet
  <2> QED
    BY <1>1, <1>5, <2>2 DEF LoopsInv
<1> QED
  BY <1>7, <1>8

LEMMA ExecNext == BaseInv /\ ExecInv /\ [Next]_vars => ExecInv'
<1> SUFFICES ASSUME BaseInv, ExecInv, [Next]_vars, kind' = "exec", "exec" \notin CallbackKinds
             PROVE  TimesInv' /\ LoopsInv'
  BY DEF ExecInv
<1>1. BaseInv' /\ TreeKept
  BY BaseNext, TreeIsKept DEF TreeKept
<1>2. kind = "exec" /\ TimesInv /\ LoopsInv
  BY <1>1 DEF TreeKept, ExecInv
<1>3. ExecStep
  BY <1>1, <1>2, ExecSteps
<1> QED
  BY <1>1, <1>2, <1>3, ExecStepsKeep

LEMMA ExecInvariant == Spec => []ExecInv
BY ExecInit, ExecNext, BaseInvariant, PTL DEF Spec

\* The contexts on the stack, up to its i-th entry.
NodesTo(i) == {stack[j].node : j \in 1 .. i}

LEMMA StackIsPath ==
  ASSUME BaseInv, kind \notin CallbackKinds
  PROVE  \A i \in DOMAIN stack : NodesTo(i) = PathUp[stack[i].node] \ {0}
<1> DEFINE Bad == {i \in DOMAIN stack : NodesTo(i) # PathUp[stack[i].node] \ {0}}
<1>1. DOMAIN stack = 1 .. Len(stack) /\ Len(stack) \in Nat
  BY StackFacts DEF BaseInv
<1>2. Bad \subseteq Nat
  BY <1>1
<1>3. IsTree
  BY DEF BaseInv, IsTree
<1>4. Bad = {}
  <2> SUFFICES ASSUME Bad # {} PROVE FALSE
    OBVIOUS
  <2>1. PICK i \in Bad : \A j \in Bad : i <= j
    BY <1>2, LeastOf
  <2>2. PICK n : n = stack[i].node
    OBVIOUS
  <2>3. PICK b : b = Below(stack, i)
    OBVIOUS
  <2>4. i \in 1 .. Len(stack) /\ (i # 1 => i - 1 \in DOMAIN stack)
    BY <1>1
  <2>5. (IF i = 1 THEN {} ELSE NodesTo(i - 1)) = PathUp[b] \ {0}
    <3>1. CASE i = 1
      <4>1. b = 0 /\ 0 \in Nodes
        BY <1>3, <2>3, <3>1, NodeFacts DEF Below
      <4>2. PathUp[b] = {0}
        BY <1>3, <4>1, PathStep
      <4> QED
        BY <3>1, <4>2
    <3>2. CASE i # 1
      <4>1. i - 1 \notin Bad
        BY <1>1, <2>1, <2>4
      <4> QED
        BY <2>3, <2>4, <3>2, <4>1 DEF Below
    <3> QED
      BY <3>1, <3>2
  <2>6. NodesTo(i) = {n} \cup (IF i = 1 THEN {} ELSE NodesTo(i - 1))
    <3>1. \A j \in 1 .. i : j = i \/ (i # 1 /\ j \in 1 .. i - 1)
      BY <2>4
    <3>2. i \in 1 .. i /\ \A j \in 1 .. i - 1 : j \in 1 .. i
      BY <2>4
    <3> QED
      BY <2>2, <3>1, <3>2 DEF NodesTo
  <2>7. n = b \/ (n \in Nodes /\ n # 0 /\ tree[n].parent = b)
    BY <1>3, <2>2, <2>3, NodeFacts DEF BaseInv, StackRight, ByEdge, ByCallback
  <2>8. CASE n \in Nodes /\ n # 0 /\ tree[n].parent = b
    <3>1. PathUp[n] = {n} \cup PathUp[b]
      BY <1>3, <2>8, PathTakesChild
    <3> QED
      BY <2>2, <2>5, <2>6, <2>8, <3>1
  <2>9. CASE n = b
    <3>1. i # 1
      <4> SUFFICES ASSUME i = 1 PROVE FALSE
        OBVIOUS
      <4>1. ~ EnteredMuted(stack, i)
        BY DEF EnteredMuted
      <4>2. ByEdge(stack, i)
        BY <4>1 DEF BaseInv, StackRight, ByCallback
      <4> QED
        BY <1>3, <2>2, <2>3, <2>9, <4>2, NodeFacts DEF ByEdge, Below
    <3>2. n \in NodesTo(i - 1)
      <4>1. i - 1 \in 1 .. i - 1
        BY <2>4, <3>1
      <4> QED
        BY <2>3, <2>9, <3>1, <4>1 DEF Below, NodesTo
    <3>3. NodesTo(i) = NodesTo(i - 1)
      BY <2>6, <3>1, <3>2
    <3> QED
      BY <2>2, <2>5, <2>9, <3>1, <3>3
  <2> QED
    BY <2>7, <2>8, <2>9
<1> QED
  BY <1>4

LEMMA OpenIsOnPath ==
  ASSUME BaseInv, kind \notin CallbackKinds, NEW n \in DOMAIN tree
  PROVE  Open(n) <=> n \in PathUp[currentCtx]
<1>1. IsTree /\ n # 0
  BY NodeFacts DEF BaseInv, IsTree
<1>2. CASE stack = <<>>
  <2>1. currentCtx = 0 /\ 0 \in Nodes
    BY <1>1, <1>2, NodeFacts DEF BaseInv, TopOf
  <2>2. PathUp[currentCtx] = {0}
    BY <1>1, <2>1, PathStep
  <2>3. DOMAIN stack = {}
    BY <1>2
  <2> QED
    BY <1>1, <2>2, <2>3 DEF Open
<1>3. CASE stack # <<>>
  <2>1. /\ DOMAIN stack = 1 .. Len(stack) /\ Len(stack) \in DOMAIN stack
        /\ currentCtx = stack[Len(stack)].node
    BY <1>3, StackFacts, EmptySeq DEF BaseInv, TopOf
  <2>2. NodesTo(Len(stack)) = PathUp[currentCtx] \ {0}
    BY <2>1, StackIsPath
  <2>3. Open(n) <=> n \in NodesTo(Len(stack))
    BY <2>1 DEF Open, NodesTo
  <2> QED
    BY <1>1, <2>2, <2>3
<1> QED
  BY <1>2, <1>3

LEMMA SumsAreTimes ==
  /\ \A n : Inclusive(n) = SumOver(spent, Inside(n))
  /\ TimeOf({n \in Nodes : InsideLoop(n)}) = SumOver(spent, LoopNodes)
<1>1. \A n : Inclusive(n) = SumOver(spent, Inside(n))
  BY DEF Inclusive, TimeOf, SumOver, Within, Inside
<1>2. {n \in Nodes : InsideLoop(n)} = LoopNodes
  BY DEF InsideLoop, LoopNodes, LoopsUp
<1> QED
  BY <1>1, <1>2, Zenon DEF TimeOf, SumOver

(***************************************************************************)
(* ExecTimeIsInclusive, for every tree: the time charged to a context is   *)
(* the time the program was in it or below it, and it has a start time     *)
(* exactly while the program is in it; as long as no function with hooked  *)
(* loops is called back (with such a function, NoAssertionFails is what    *)
(* breaks first).                                                          *)
(***************************************************************************)
THEOREM ExecTimesAreInclusive == Spec => []("exec" \notin CallbackKinds => ExecTimeIsInclusive)
<1>1. BaseInv /\ ExecInv => ("exec" \notin CallbackKinds => ExecTimeIsInclusive)
  <2> SUFFICES ASSUME BaseInv, "exec" \notin CallbackKinds, kind = "exec", TimesInv
               PROVE  ExecTimeIsInclusive
    BY DEF ExecInv, ExecTimeIsInclusive
  <2>1. ASSUME NEW n \in DOMAIN tree
        PROVE  /\ execTimeOfContext[n]
                    + (IF tmpTimeOfContext[n] = 0 THEN 0 ELSE now - tmpTimeOfContext[n])
                    = Inclusive(n)
               /\ tmpTimeOfContext[n] # 0 <=> Open(n)
    BY OpenIsOnPath, SumsAreTimes DEF TimesInv, TimeRight, RunningOf
  <2>2. finished => execTimeOfContext[0] = Inclusive(0)
    BY SumsAreTimes DEF TimesInv
  <2> QED
    BY <2>1, <2>2 DEF ExecTimeIsInclusive
<1> QED
  BY <1>1, BaseInvariant, ExecInvariant, PTL

(***************************************************************************)
(* TotalIsTimeInLoops, for every tree, under the same condition: nested    *)
(* loops are counted once, because nestingDepth is the number of loops on  *)
(* the path up from the context.                                           *)
(***************************************************************************)
THEOREM TotalTimeIsInLoops == Spec => []("exec" \notin CallbackKinds => TotalIsTimeInLoops)
<1>1. ExecInv => ("exec" \notin CallbackKinds => TotalIsTimeInLoops)
  BY SumsAreTimes DEF ExecInv, LoopsInv, TotalIsTimeInLoops
<1> QED
  BY <1>1, ExecInvariant, PTL

(***************************************************************************)
(* NoAssertionFails, for every tree: campExecRuntime.cpp:416 never fails   *)
(* when nothing with hooked loops is called back.  The condition cannot be *)
(* left out: MCProfilers_Callback.cfg has a program that breaks it.        *)
(***************************************************************************)
THEOREM ExecAssertionHolds == Spec => [](kind = "exec" /\ "exec" \notin CallbackKinds => NoAssertionFails)
<1>1. ExecInv => (kind = "exec" /\ "exec" \notin CallbackKinds => NoAssertionFails)
  BY DEF ExecInv, TimesInv, NoAssertionFails
<1> QED
  BY <1>1, ExecInvariant, PTL

-----------------------------------------------------------------------------
(***************************************************************************)
(* The drawing.  When main has returned, times grow towards the root, and  *)
(* the edge of a context comes from the nearest call (or node) above it.   *)
(***************************************************************************)
LEMMA SumGrows ==
  ASSUME NEW f, NEW S, IsFiniteSet(S), \A x \in S : f[x] \in Nat, NEW T \in SUBSET S
  PROVE  SumOver(f, T) \in Nat /\ SumOver(f, T) <= SumOver(f, S)
<1> DEFINE Low(u, v) == SumOver(f, v) \in Int /\ SumOver(f, u) <= SumOver(f, v)
           Bad(u)    == {Cardinality(s) : s \in {v \in SUBSET S : u \subseteq v /\ ~ Low(u, v)}}
<1>1. ASSUME NEW u \in SUBSET S
      PROVE  Bad(u) = {}
  <2> SUFFICES ASSUME Bad(u) # {} PROVE FALSE
    OBVIOUS
  <2>1. Bad(u) \subseteq Nat
    BY SubsetFacts
  <2>2. PICK k \in Bad(u) : \A j \in Bad(u) : k <= j
    BY <2>1, LeastOf
  <2>3. PICK s \in SUBSET S : u \subseteq s /\ ~ Low(u, s) /\ k = Cardinality(s)
    BY <2>2
  <2>4. ASSUME NEW t \in SUBSET S
        PROVE  Totals(f, t)
    <3>1. IsFiniteSet(t) /\ \A x \in t : f[x] \in Int
      BY FS_Subset
    <3> QED
      BY <3>1, SumFacts
  <2>5. Totals(f, s) /\ Totals(f, u)
    BY <2>4
  <2>6. PICK x \in s : x \notin u
    <3>1. u # s
      <4> SUFFICES ASSUME u = s PROVE FALSE
        OBVIOUS
      <4>1. SumOver(f, s) \in Int /\ SumOver(f, u) = SumOver(f, s)
        BY <2>5 DEF Totals
      <4> QED
        BY <2>3, <4>1
    <3> QED
      BY <2>3, <3>1
  <2>7. /\ s \ {x} \in SUBSET S /\ Cardinality(s \ {x}) = Cardinality(s) - 1
        /\ Cardinality(s) \in Nat
    BY SubsetFacts
  <2>8. Cardinality(s \ {x}) \notin Bad(u)
    BY <2>2, <2>3, <2>7
  <2>9. u \subseteq s \ {x}
    BY <2>3, <2>6
  <2>10. Low(u, s \ {x})
    BY <2>7, <2>8, <2>9
  <2>11. SumOver(f, s) = f[x] + SumOver(f, s \ {x}) /\ f[x] \in Nat
    BY <2>5 DEF Totals
  <2> QED
    BY <2>3, <2>5, <2>10, <2>11 DEF Totals
<1>2. Low(T, S)
  <2>1. S \in SUBSET S
    OBVIOUS
  <2> QED
    BY <1>1, <2>1
<1>3. Low({}, T)
  BY <1>1
<1> QED
  BY <1>2, <1>3, SumOfNone

\* A path holds the paths of all its nodes.
LEMMA PathsNest ==
  ASSUME IsTree
  PROVE  \A n \in Nodes : \A a \in PathUp[n] : a \in Nodes /\ PathUp[a] \subseteq PathUp[n]
<1> DEFINE Nests(n) == \A a \in PathUp[n] : a \in Nodes /\ PathUp[a] \subseteq PathUp[n]
           Bad      == {n \in Nodes : ~ Nests(n)}
<1>1. Bad \subseteq Nat
  BY TreeFacts DEF IsTree
<1>2. Bad = {}
  <2> SUFFICES ASSUME Bad # {} PROVE FALSE
    OBVIOUS
  <2>1. PICK n \in Bad : \A m \in Bad : n <= m
    BY <1>1, LeastOf
  <2>2. CASE n = 0
    <3>1. PathUp[n] = {n}
      BY <2>2, PathStep
    <3> QED
      BY <3>1
  <2>3. CASE n # 0
    <3>1. PICK p : p = tree[n].parent
      OBVIOUS
    <3>2. p \in 0 .. n - 1 /\ n \in Nat
      BY <2>3, <3>1, TreeFacts DEF IsTree
    <3>3. p \in Nodes
      BY <2>3, <3>1, NodeFacts
    <3>4. p \notin Bad
      BY <2>1, <3>2
    <3>5. Nests(p)
      BY <3>3, <3>4
    <3>6. PathUp[n] = {n} \cup PathUp[p]
      BY <2>3, <3>1, PathTakesChild
    <3> QED
      BY <3>5, <3>6
  <2> QED
    BY <2>2, <2>3
<1> QED
  BY <1>2

LEMMA InsideNests ==
  ASSUME IsTree, NEW n \in Nodes, NEW a \in PathUp[n]
  PROVE  a \in Nodes /\ Inside(n) \subseteq Inside(a)
BY PathsNest DEF Inside

\* When main has returned, nothing runs on.
LEMMA FinalTimes ==
  ASSUME BaseInv, TimesInv, kind = "exec", "exec" \notin CallbackKinds, finished, stack = <<>>
  PROVE  \A n \in Nodes : execTimeOfContext[n] = SumOver(spent, Inside(n))
<1>1. IsTree /\ currentCtx = 0 /\ 0 \in Nodes
  BY NodeFacts DEF BaseInv, IsTree, TopOf
<1>2. PathUp[currentCtx] = {0}
  BY <1>1, PathStep
<1>3. execTimeOfContext[0] = SumOver(spent, Inside(0))
  BY DEF TimesInv
<1>4. ASSUME NEW n \in DOMAIN tree
      PROVE  execTimeOfContext[n] = SumOver(spent, Inside(n))
  <2>1. n \in Nodes /\ n # 0
    BY <1>1, NodeFacts
  <2>2. tmpTimeOfContext[n] = 0
    BY <1>2, <2>1 DEF TimesInv, TimeRight
  <2>3. RunningOf(n) = 0 /\ execTimeOfContext[n] \in Nat
    BY <2>1, <2>2 DEF RunningOf, TimesInv
  <2> QED
    BY <2>3 DEF TimesInv, TimeRight
<1> QED
  BY <1>1, <1>3, <1>4, NodeFacts

\* And no context has more time than one above it.
TimesNest ==
  /\ execTimeOfContext \in [Nodes -> Nat]
  /\ \A n \in Nodes : \A a \in PathUp[n] : execTimeOfContext[n] <= execTimeOfContext[a]

LEMMA FinalTimesNest ==
  ASSUME BaseInv, TimesInv, kind = "exec", "exec" \notin CallbackKinds, finished, stack = <<>>
  PROVE  TimesNest
<1>1. IsTree
  BY DEF BaseInv, IsTree
<1>2. ASSUME NEW n \in Nodes, NEW a \in PathUp[n]
      PROVE  execTimeOfContext[n] <= execTimeOfContext[a]
  <2>1. a \in Nodes /\ Inside(n) \in SUBSET Inside(a)
    BY <1>1, InsideNests
  <2>2. IsFiniteSet(Inside(a)) /\ Inside(a) \subseteq Nodes
    BY <1>1, <2>1, NodeFacts DEF Inside
  <2>3. \A x \in Inside(a) : spent[x] \in Nat
    BY <2>2 DEF TimesInv
  <2>4. SumOver(spent, Inside(n)) <= SumOver(spent, Inside(a))
    BY <2>1, <2>2, <2>3, SumGrows
  <2> QED
    BY <2>1, <2>4, FinalTimes
<1> QED
  BY <1>2 DEF TimesNest, TimesInv

LEMMA FileFacts ==
  ASSUME IsTree
  PROVE  /\ Exec!Nodes = Nodes
         /\ \A n \in DOMAIN tree : /\ n - Exec!locID(n) = tree[n].parent
                                   /\ Exec!isCallSite(n) <=> ~ tree[n].loop
         /\ Exec!isCallSite(0)
<1>1. ASSUME NEW n \in DOMAIN tree
      PROVE  n - Exec!locID(n) = tree[n].parent
  <2>1. n \in Nat \ {0} /\ n < CtxMod /\ tree[n].parent \in 0 .. n - 1 /\ CtxMod \in Nat
    BY TreeFacts DEF IsTree
  <2>2. (n - tree[n].parent) % CtxMod = n - tree[n].parent
    BY <2>1, Unwrapped
  <2> QED
    BY <2>1, <2>2 DEF Exec!locID
<1>2. ASSUME NEW n \in DOMAIN tree
      PROVE  Exec!isCallSite(n) <=> ~ tree[n].loop
  BY NodeFacts DEF Exec!isCallSite
<1> QED
  BY <1>1, <1>2 DEF Exec!isCallSite, Exec!Nodes, Nodes

\* The call that getParentUCID finds, without recursion.
Calls(n)   == {q \in PathUp[n] : Exec!isCallSite(q)}
LastCall(n) == CHOOSE a \in Calls(n) : \A q \in Calls(n) : q <= a

LEMMA CallFromStep ==
  ASSUME IsTree, NEW n \in Nodes
  PROVE  Exec!CallFrom[n] = IF n = 0 \/ ~ tree[n].loop THEN n ELSE Exec!CallFrom[tree[n].parent]
<1> DEFINE calls        == [m \in Nodes |-> LastCall(m)]
           Up(found, m) == IF Exec!isCallSite(m) THEN m ELSE found[m - Exec!locID(m)]
<1>1. ASSUME NEW m \in Nodes
      PROVE  LastCall(m) = IF Exec!isCallSite(m) THEN m ELSE LastCall(m - Exec!locID(m))
  <2>1. CASE Exec!isCallSite(m)
    <3>1. m \in Calls(m) /\ m \in Nat /\ Calls(m) \subseteq 0 .. m
      BY <2>1, PathFacts, TreeFacts DEF IsTree, PathRight, Calls
    <3>2. \A q \in Calls(m) : q <= m
      BY <3>1
    <3>3. \A a \in Calls(m) : (\A q \in Calls(m) : q <= a) => a = m
      BY <3>1
    <3> QED
      BY <2>1, <3>1, <3>2, <3>3 DEF LastCall
  <2>2. CASE ~ Exec!isCallSite(m)
    <3>1. m # 0 /\ m \in DOMAIN tree
      BY <2>2, FileFacts, NodeFacts
    <3>2. Calls(m) = Calls(m - Exec!locID(m))
      BY <2>2, <3>1, FileFacts, PathTakesChild DEF Calls
    <3> QED
      BY <2>2, <3>2 DEF LastCall
  <2> QED
    BY <2>1, <2>2
<1>2. calls = [m \in Nodes |-> Up(calls, m)]
  <2>1. ASSUME NEW m \in Nodes
        PROVE  LastCall(m) = Up(calls, m)
    <3>1. CASE Exec!isCallSite(m)
      BY <1>1, <3>1
    <3>2. CASE ~ Exec!isCallSite(m)
      <4>1. m - Exec!locID(m) \in Nodes
        BY <3>2, FileFacts, NodeFacts
      <4> QED
        BY <1>1, <3>2, <4>1
    <3> QED
      BY <3>1, <3>2
  <2> QED
    BY <2>1
<1>3. Exec!CallFrom = CHOOSE f : f = [m \in Exec!Nodes |-> Up(f, m)]
  BY Zenon DEF Exec!CallFrom
<1>4. Exec!CallFrom = [m \in Nodes |-> Up(Exec!CallFrom, m)]
  <2>1. \E f : f = [m \in Nodes |-> Up(f, m)]
    BY <1>2
  <2>2. Exec!Nodes = Nodes
    BY FileFacts
  <2> QED
    BY <1>3, <2>1, <2>2, Zenon
<1>5. Exec!CallFrom[n] = Up(Exec!CallFrom, n)
  BY <1>4, Zenon
<1> QED
  BY <1>5, FileFacts, NodeFacts

\* It is the nearest one: only loops are on the path below it.
Nearest(n, a) ==
  /\ a \in Nodes /\ a \in PathUp[n] /\ Exec!isCallSite(a)
  /\ \A q \in PathUp[n] : q \in PathUp[a] \/ ~ Exec!isCallSite(q)

LEMMA CallFromIsNearest ==
  ASSUME IsTree
  PROVE  \A n \in Nodes : Nearest(n, Exec!CallFrom[n])
<1> DEFINE Bad == {n \in Nodes : ~ Nearest(n, Exec!CallFrom[n])}
<1>1. Bad \subseteq Nat
  BY TreeFacts DEF IsTree
<1>2. Bad = {}
  <2> SUFFICES ASSUME Bad # {} PROVE FALSE
    OBVIOUS
  <2>1. PICK n \in Bad : \A m \in Bad : n <= m
    BY <1>1, LeastOf
  <2>2. CASE n = 0 \/ ~ tree[n].loop
    <3>1. Exec!CallFrom[n] = n
      BY <2>2, CallFromStep
    <3>2. Exec!isCallSite(n) /\ n \in PathUp[n]
      BY <2>2, FileFacts, NodeFacts, PathFacts DEF PathRight
    <3> QED
      BY <3>1, <3>2 DEF Nearest
  <2>3. CASE ~ (n = 0 \/ ~ tree[n].loop)
    <3>1. PICK p : p = tree[n].parent
      OBVIOUS
    <3>2. p \in 0 .. n - 1 /\ n \in Nat /\ n \in DOMAIN tree
      BY <2>3, <3>1, TreeFacts DEF IsTree
    <3>3. p \in Nodes
      BY <2>3, <3>1, NodeFacts
    <3>4. p \notin Bad
      BY <2>1, <3>2
    <3>5. Nearest(p, Exec!CallFrom[p])
      BY <3>3, <3>4
    <3>6. PathUp[n] = {n} \cup PathUp[p] /\ ~ Exec!isCallSite(n)
      BY <2>3, <3>1, <3>2, PathTakesChild, FileFacts
    <3>7. Exec!CallFrom[n] = Exec!CallFrom[p]
      BY <2>3, <3>1, CallFromStep
    <3> QED
      BY <3>5, <3>6, <3>7 DEF Nearest
  <2> QED
    BY <2>2, <2>3
<1> QED
  BY <1>2

\* Where the edge of a context comes from; what the files hold, in terms of the tree.
From(c, removeLoop) == IF removeLoop THEN Exec!CallFrom[tree[c].parent] ELSE tree[c].parent

LEMMA EdgeFacts ==
  ASSUME IsTree, kind = "exec", NEW removeLoop \in BOOLEAN
  PROVE  /\ 1 .. nContext - 1 = DOMAIN tree /\ 0 .. nContext - 1 = Nodes
         /\ \A c \in DOMAIN tree : Exec!Edge(c, removeLoop)
              = IF removeLoop /\ tree[c].loop THEN Exec!Blank ELSE <<From(c, removeLoop), c>>
<1>1. 1 .. nContext - 1 = DOMAIN tree /\ 0 .. nContext - 1 = Nodes
  BY TreeFacts DEF IsTree
<1>2. ASSUME NEW c \in DOMAIN tree
      PROVE  Exec!Edge(c, removeLoop)
               = IF removeLoop /\ tree[c].loop THEN Exec!Blank ELSE <<From(c, removeLoop), c>>
  BY <1>2, FileFacts, NodeFacts DEF Exec!Edge, Exec!getParentUCID, From
<1> QED
  BY <1>1, <1>2

Keeps(p, c) ==
  \/ Exec!Above(p, 1, 200) /\ Exec!Above(c, 1, 200)
  \/ p = 0
  \/ nContext < ManyContexts

LEMMA DrawnFacts ==
  ASSUME IsTree, kind = "exec", NEW removeLoop \in BOOLEAN
  PROVE  /\ Exec!DrawnEdges(removeLoop)
              = {<<From(c, removeLoop), c>> : c \in
                   {k \in DOMAIN tree : /\ ~ (removeLoop /\ tree[k].loop)
                                        /\ Keeps(From(k, removeLoop), k)}}
         /\ Exec!DrawnContexts(removeLoop)
              = {[id |-> k, red |-> Exec!Above(k, 1, 5)] : k \in
                   {l \in Nodes : (removeLoop => Exec!isCallSite(l)) /\ Exec!Worthwhile(l)}}
<1>1. \A c \in DOMAIN tree : c \in Exec!Nodes
  BY FileFacts, NodeFacts
<1>2. \A c \in DOMAIN tree :
        Exec!contextTreeDumpToGvfile(removeLoop).edges[c] = Exec!Edge(c, removeLoop)
  BY <1>1 DEF Exec!contextTreeDumpToGvfile
<1>3. Exec!DrawnEdges(removeLoop)
        = {e \in {Exec!Edge(c, removeLoop) : c \in DOMAIN tree} \ {Exec!Blank} : Keeps(e[1], e[2])}
  <2>1. {Exec!contextTreeDumpToGvfile(removeLoop).edges[c] : c \in DOMAIN tree}
          = {Exec!Edge(c, removeLoop) : c \in DOMAIN tree}
    BY <1>2
  <2>2. 1 .. nContext - 1 = DOMAIN tree
    BY EdgeFacts
  <2> QED
    BY <2>1, <2>2 DEF Exec!DrawnEdges, Keeps
<1>4. ASSUME NEW c \in DOMAIN tree, ~ (removeLoop /\ tree[c].loop)
      PROVE  /\ Exec!Edge(c, removeLoop) = <<From(c, removeLoop), c>>
             /\ Exec!Edge(c, removeLoop) # Exec!Blank
             /\ Exec!Edge(c, removeLoop)[1] = From(c, removeLoop)
             /\ Exec!Edge(c, removeLoop)[2] = c
  BY <1>4, EdgeFacts DEF Exec!Blank
<1>5. ASSUME NEW c \in DOMAIN tree, removeLoop /\ tree[c].loop
      PROVE  Exec!Edge(c, removeLoop) = Exec!Blank
  BY <1>5, EdgeFacts
<1>6. Exec!DrawnEdges(removeLoop)
        = {<<From(c, removeLoop), c>> : c \in
             {k \in DOMAIN tree : ~ (removeLoop /\ tree[k].loop) /\ Keeps(From(k, removeLoop), k)}}
  BY <1>3, <1>4, <1>5
<1>7. Exec!contextTreeDumpToGvfile(TRUE).labels = {u \in Nodes : Exec!isCallSite(u)}
  BY FileFacts DEF Exec!contextTreeDumpToGvfile
<1>8. {Exec!TimeTable[i].line.ucID : i \in 0 .. nContext - 1} = Nodes
  <2>1. 0 .. nContext - 1 = Nodes /\ Exec!Nodes = Nodes
    BY EdgeFacts, FileFacts
  <2>2. \A i \in Nodes : Exec!TimeTable[i].line.ucID = i
    BY <2>1 DEF Exec!TimeTable, Exec!contextTreeDumpToFile
  <2> QED
    BY <2>1, <2>2
<1>9. Exec!DrawnContexts(removeLoop)
        = {[id |-> k, red |-> Exec!Above(k, 1, 5)] : k \in
             {l \in Nodes : (removeLoop => Exec!isCallSite(l)) /\ Exec!Worthwhile(l)}}
  BY <1>7, <1>8 DEF Exec!DrawnContexts
<1> QED
  BY <1>6, <1>9

LEMMA AboveIsMore ==
  ASSUME TimesNest, IsTree, NEW n \in Nodes, NEW a \in PathUp[n]
  PROVE  Exec!Above(n, 1, 200) => Exec!Above(a, 1, 200)
<1>1. a \in Nodes /\ 0 \in Nodes
  BY InsideNests, NodeFacts
<1>2. /\ execTimeOfContext[n] \in Nat /\ execTimeOfContext[a] \in Nat /\ execTimeOfContext[0] \in Nat
      /\ execTimeOfContext[n] <= execTimeOfContext[a]
  BY <1>1 DEF TimesNest
<1> QED
  BY <1>2 DEF Exec!Above, Exec!total_time

\* What is above any share of the total is above smaller shares, and so is the root.
LEMMA Shares ==
  ASSUME TimesNest, IsTree, NEW n \in Nodes
  PROVE  /\ Exec!Above(n, 3, 10) => Exec!Above(n, 1, 5) /\ Exec!Above(n, 1, 200)
         /\ Exec!Above(n, 1, 200) => Exec!Above(0, 1, 200)
<1>1. 0 \in Nodes /\ 0 \in PathUp[n]
  BY NodeFacts, PathFacts DEF PathRight
<1>2. execTimeOfContext[n] \in Nat /\ execTimeOfContext[0] \in Nat
  BY <1>1 DEF TimesNest
<1>3. Exec!Above(n, 3, 10) => Exec!Above(n, 1, 5) /\ Exec!Above(n, 1, 200)
  BY <1>2 DEF Exec!Above, Exec!total_time
<1> QED
  BY <1>1, <1>3, AboveIsMore

LEMMA FromFacts ==
  ASSUME IsTree, NEW removeLoop \in BOOLEAN, NEW c \in DOMAIN tree
  PROVE  /\ From(c, removeLoop) \in Nodes /\ From(c, removeLoop) \in PathUp[c]
         /\ removeLoop => Exec!isCallSite(From(c, removeLoop))
         /\ \A q \in PathUp[c] \ {c} : \/ q \in PathUp[From(c, removeLoop)]
                                       \/ removeLoop /\ ~ Exec!isCallSite(q)
<1>1. PICK p : p = tree[c].parent
  OBVIOUS
<1>2. p \in Nodes /\ c \in Nodes /\ c # 0
  BY <1>1, NodeFacts
<1>3. PathUp[c] = {c} \cup PathUp[p] /\ p \in PathUp[p]
  BY <1>1, <1>2, PathTakesChild, PathFacts DEF PathRight
<1>4. Nearest(p, Exec!CallFrom[p])
  BY <1>2, CallFromIsNearest
<1> QED
  BY <1>1, <1>2, <1>3, <1>4 DEF From, Nearest

LEMMA TimesDrawn ==
  ASSUME IsTree, kind = "exec", TimesNest
  PROVE  DrawingIsConnected
<1> SUFFICES ASSUME NEW removeLoop \in BOOLEAN
             PROVE  LET drawn == Exec!DrawnContexts(removeLoop)
                        ids   == {d.id : d \in drawn}
                        edges == Exec!DrawnEdges(removeLoop)
                    IN  /\ \A c \in ids \ {0} : \E p \in ids : <<p, c>> \in edges
                        /\ \A e \in edges : \A q \in PathUp[e[2]] \ {e[2]} :
                             (removeLoop /\ q # 0 /\ tree[q].loop) \/ Within(e[1], q)
                        /\ \A i \in DOMAIN Exec!TimeTable :
                             LET row == Exec!TimeTable[i]
                             IN  row.critical /\ ~ (removeLoop /\ row.line.loop)
                                   => [id |-> i, red |-> TRUE] \in drawn
  BY DEF DrawingIsConnected
<1> DEFINE Shown(l) == (removeLoop => Exec!isCallSite(l)) /\ Exec!Worthwhile(l)
           drawn    == Exec!DrawnContexts(removeLoop)
           ids      == {d.id : d \in drawn}
           edges    == Exec!DrawnEdges(removeLoop)
<1>1. drawn = {[id |-> k, red |-> Exec!Above(k, 1, 5)] : k \in {l \in Nodes : Shown(l)}}
  BY DrawnFacts
<1>2. ids = {l \in Nodes : Shown(l)}
  <2>1. \A d \in drawn : \E l \in Nodes : Shown(l) /\ d.id = l
    BY <1>1
  <2>2. ASSUME NEW l \in Nodes, Shown(l)
        PROVE  l \in ids
    <3>1. PICK d \in drawn : d = [id |-> l, red |-> Exec!Above(l, 1, 5)]
      BY <1>1, <2>2
    <3>2. d.id = l
      BY <3>1
    <3> QED
      BY <3>2
  <2> QED
    BY <2>1, <2>2
<1>3. edges = {<<From(c, removeLoop), c>> : c \in
                 {k \in DOMAIN tree : ~ (removeLoop /\ tree[k].loop) /\ Keeps(From(k, removeLoop), k)}}
  BY DrawnFacts
<1>4. Nodes = DOMAIN tree \cup {0} /\ 0 \notin DOMAIN tree
  BY NodeFacts
<1> HIDE DEF drawn, ids, edges
<1>5. ASSUME NEW c \in ids \ {0}
      PROVE  \E p \in ids : <<p, c>> \in edges
  <2>1. c \in DOMAIN tree /\ c \in Nodes /\ Shown(c)
    BY <1>2, <1>4
  <2>2. ~ (removeLoop /\ tree[c].loop)
    BY <2>1, FileFacts
  <2>3. PICK p : p = From(c, removeLoop)
    OBVIOUS
  <2>4. p \in Nodes /\ p \in PathUp[c] /\ (removeLoop => Exec!isCallSite(p))
    BY <2>1, <2>3, FromFacts
  <2>5. Exec!Above(c, 1, 200) => Exec!Above(p, 1, 200)
    BY <2>1, <2>4, AboveIsMore
  <2>6. Keeps(p, c) /\ Exec!Worthwhile(p)
    BY <2>1, <2>5 DEF Keeps, Exec!Worthwhile
  <2>7. p \in ids
    BY <1>2, <2>4, <2>6
  <2>8. <<p, c>> \in edges
    BY <1>3, <2>1, <2>2, <2>3, <2>6
  <2> QED
    BY <2>7, <2>8
<1>6. ASSUME NEW e \in edges, NEW q \in PathUp[e[2]] \ {e[2]}
      PROVE  (removeLoop /\ q # 0 /\ tree[q].loop) \/ Within(e[1], q)
  <2>1. PICK c \in DOMAIN tree : e = <<From(c, removeLoop), c>>
    BY <1>3
  <2>2. e[1] = From(c, removeLoop) /\ e[2] = c /\ c \in Nodes
    BY <1>4, <2>1
  <2>3. q \in PathUp[From(c, removeLoop)] \/ (removeLoop /\ ~ Exec!isCallSite(q))
    BY <2>2, FromFacts
  <2>4. q \in Nodes
    BY <2>2, PathsNest
  <2>5. Exec!isCallSite(q) <=> q = 0 \/ ~ tree[q].loop
    BY <1>4, <2>4, FileFacts
  <2> QED
    BY <2>2, <2>3, <2>5 DEF Within
<1>7. ASSUME NEW i \in DOMAIN Exec!TimeTable
      PROVE  LET row == Exec!TimeTable[i]
             IN  row.critical /\ ~ (removeLoop /\ row.line.loop)
                   => [id |-> i, red |-> TRUE] \in drawn
  <2>1. i \in Nodes
    BY EdgeFacts DEF Exec!TimeTable
  <2>2. /\ Exec!TimeTable[i].critical = Exec!Above(i, 3, 10)
        /\ Exec!TimeTable[i].line.loop = ~ Exec!isCallSite(i)
    BY <2>1, EdgeFacts, FileFacts DEF Exec!TimeTable, Exec!contextTreeDumpToFile
  <2>3. ASSUME Exec!Above(i, 3, 10), ~ (removeLoop /\ ~ Exec!isCallSite(i))
        PROVE  [id |-> i, red |-> TRUE] \in drawn
    <3>1. Exec!Above(i, 1, 5) /\ Exec!Worthwhile(i)
      BY <2>1, <2>3, Shares DEF Exec!Worthwhile
    <3>2. [id |-> i, red |-> Exec!Above(i, 1, 5)] \in drawn
      BY <1>1, <2>1, <2>3, <3>1
    <3>3. Exec!Above(i, 1, 5) = TRUE
      BY <3>1 DEF Exec!Above
    <3> QED
      BY <3>2, <3>3
  <2> QED
    BY <2>2, <2>3
<1> QED
  BY <1>5, <1>6, <1>7 DEF drawn, ids, edges

(***************************************************************************)
(* DrawingIsConnected, for every tree and every number of contexts from    *)
(* which small ones are left out, under the same condition: a context      *)
(* never has less time than one below it, so what hangs on it is left out  *)
(* first, and getParentUCID finds the nearest call above.                  *)
(***************************************************************************)
THEOREM DrawingsAreConnected == Spec => []("exec" \notin CallbackKinds => DrawingIsConnected)
<1>1. BaseInv /\ ExecInv => ("exec" \notin CallbackKinds => DrawingIsConnected)
  <2>1. ASSUME BaseInv, ExecInv, "exec" \notin CallbackKinds, kind = "exec", finished, stack = <<>>
        PROVE  DrawingIsConnected
    BY <2>1, FinalTimesNest, TimesDrawn DEF ExecInv, BaseInv, IsTree
  <2> QED
    BY <2>1 DEF DrawingIsConnected
<1> QED
  BY <1>1, BaseInvariant, ExecInvariant, PTL

-----------------------------------------------------------------------------
(***************************************************************************)
(* Object tracing.  A live object of the hooked program has its id as the  *)
(* tag of all its words, so that the tables of the runtime and of the      *)
(* program itself are counted up at the same place.                        *)
(***************************************************************************)
Table(f) == IsFiniteSet(DOMAIN f) /\ \A k \in DOMAIN f : f[k] \in Nat

CountedUp(f, k) == [j \in DOMAIN f \cup {k} |->
                      (IF j \in DOMAIN f THEN f[j] ELSE 0) + (IF j = k THEN 1 ELSE 0)]

Risen(f, k, g) ==
  /\ Table(g) /\ Sum(g) = Sum(f) + 1 /\ Sum(f) \in Int
  /\ DOMAIN g = DOMAIN f \cup {k}
  /\ g[k] = (IF k \in DOMAIN f THEN f[k] ELSE 0) + 1
  /\ \A j \in DOMAIN f : j # k => g[j] = f[j]

LEMMA CountUpFacts ==
  ASSUME NEW f, Table(f), NEW k, NEW g, g = CountedUp(f, k)
  PROVE  Risen(f, k, g)
<1>1. PICK D : D = DOMAIN f
  OBVIOUS
<1>2. IsFiniteSet(D) /\ IsFiniteSet(D \cup {k}) /\ IsFiniteSet(D \ {k})
  BY <1>1, FS_AddElement, FS_Subset DEF Table
<1>3. /\ DOMAIN g = D \cup {k}
      /\ g[k] = (IF k \in D THEN f[k] ELSE 0) + 1
      /\ \A j \in D : f[j] \in Nat
      /\ \A j \in D : j # k => g[j] = f[j]
  BY <1>1 DEF CountedUp, Table
<1>4. \A j \in D \cup {k} : g[j] \in Nat
  BY <1>3
<1>5. Sum(g) = SumOver(g, D \cup {k}) /\ Sum(f) = SumOver(f, D)
  BY <1>1, <1>3, Zenon DEF Sum, FoldFunction, SumOver
<1>6. SumOver(g, D \cup {k}) = g[k] + SumOver(g, D \ {k})
  <2>1. PICK E : E = D \cup {k}
    OBVIOUS
  <2>2. IsFiniteSet(E) /\ \A j \in E : g[j] \in Int
    BY <1>2, <1>4, <2>1
  <2>3. SumOver(g, E) = g[k] + SumOver(g, E \ {k})
    BY <2>1, <2>2, SumFacts DEF Totals
  <2>4. E \ {k} = D \ {k}
    BY <2>1
  <2> QED
    BY <2>1, <2>3, <2>4
<1>7. SumOver(g, D \ {k}) = SumOver(f, D \ {k})
  <2>1. \A j \in D \ {k} : g[j] = f[j]
    BY <1>3
  <2> QED
    BY <1>2, <2>1, SumsAlike
<1>8. SumOver(f, D \ {k}) \in Int /\ SumOver(f, D) \in Int
  <2>1. \A j \in D \ {k} : f[j] \in Int
    BY <1>3
  <2>2. \A j \in D : f[j] \in Int
    BY <1>3
  <2> QED
    BY <1>2, <2>1, <2>2, SumFacts DEF Totals
<1>9. Sum(g) = Sum(f) + 1
  <2>1. CASE k \in D
    <3>1. SumOver(f, D) = f[k] + SumOver(f, D \ {k})
      BY <1>2, <1>3, <2>1, SumFacts DEF Totals
    <3> QED
      BY <1>3, <1>5, <1>6, <1>7, <1>8, <2>1, <3>1
  <2>2. CASE k \notin D
    <3>1. D \ {k} = D
      BY <2>2
    <3>2. SumOver(f, D \ {k}) = SumOver(f, D)
      BY <3>1
    <3> QED
      BY <1>3, <1>5, <1>6, <1>7, <1>8, <2>2, <3>2
  <2> QED
    BY <2>1, <2>2
<1>10. Table(g)
  BY <1>2, <1>3, <1>4 DEF Table
<1> QED
  BY <1>1, <1>3, <1>5, <1>8, <1>9, <1>10 DEF Risen

\* The words the runtime tags are those the object extends over.
LEMMA MulMono == ASSUME NEW b \in Nat, NEW x \in Nat, NEW y \in Nat, x <= y PROVE x * b <= y * b
<1>1. PICK z \in Nat : y = x + z
  <2>1. y - x \in Nat /\ y = x + (y - x)
    OBVIOUS
  <2> QED
    BY <2>1
<1>2. y * b = x * b + z * b
  BY <1>1
<1>3. z * b \in Nat /\ x * b \in Nat
  OBVIOUS
<1> QED
  BY <1>2, <1>3

LEMMA Quotients ==
  ASSUME NEW a \in Nat, NEW b \in Nat \ {0}, NEW d \in Nat
  PROVE  d <= (a \div b) <=> d * b <= a
<1>1. PICK q : q = a \div b
  OBVIOUS
<1>2. q \in Nat /\ q * b <= a /\ a < (q + 1) * b
  BY <1>1
<1>3. d <= q => d * b <= q * b
  BY <1>2, MulMono
<1>4. ~ (d <= q) => (q + 1) * b <= d * b
  BY <1>2, MulMono
<1>5. d * b \in Nat /\ q * b \in Nat /\ (q + 1) * b \in Nat
  BY <1>2
<1> QED
  BY <1>1, <1>2, <1>3, <1>4, <1>5

LEMMA TaggedIsExtent ==
  ASSUME NEW addr \in Words, NEW size \in Sizes, NEW w \in Words
  PROVE  w \in Objs!Tagged(addr, size) <=> w \in Extent(addr, size)
<1>1. addr \in Nat /\ w \in Nat /\ size \in Nat \ {0} /\ WordSize \in Nat \ {0}
  BY SizesAssumption
<1>2. PICK q : q = (size - 1) \div WordSize
  OBVIOUS
<1>3. q \in Nat /\ size - 1 \in Nat
  BY <1>1, <1>2
<1>4. w \in Objs!Tagged(addr, size) <=> addr <= w /\ w <= addr + q
  BY <1>1, <1>2, <1>3 DEF Objs!Tagged
<1>5. w \in Extent(addr, size) <=> addr <= w /\ w * WordSize < addr * WordSize + size
  BY <1>1 DEF Extent
<1>6. CASE addr <= w
  <2>1. PICK d \in Nat : w = addr + d
    <3>1. w - addr \in Nat /\ w = addr + (w - addr)
      BY <1>1, <1>6
    <3> QED
      BY <3>1
  <2>2. w <= addr + q <=> d <= q
    BY <1>1, <1>3, <2>1
  <2>3. d <= q <=> d * WordSize <= size - 1
    BY <1>1, <1>2, <1>3, <2>1, Quotients
  <2>4. /\ w * WordSize = addr * WordSize + d * WordSize
        /\ addr * WordSize \in Nat /\ d * WordSize \in Nat
    BY <1>1, <2>1
  <2>5. w * WordSize < addr * WordSize + size <=> d * WordSize <= size - 1
    BY <1>1, <2>4
  <2> QED
    BY <1>4, <1>5, <1>6, <2>2, <2>3, <2>5
<1>7. CASE ~ (addr <= w)
  BY <1>4, <1>5, <1>7
<1> QED
  BY <1>6, <1>7

ObjectAt(w) == owner[w] \notin {NoOwner, Foreign}

OwnersInv ==
  /\ owner = [w \in Words |-> owner[w]] /\ tag = [w \in Words |-> tag[w]]
  /\ \A w \in Words : ObjectAt(w) => tag[w] = owner[w]

TablesInv ==
  /\ Table(touched) /\ Table(COCMap) /\ strays \in Nat
  /\ \A k \in DOMAIN touched : k \in DOMAIN COCMap /\ COCMap[k] >= touched[k]
  /\ Sum(COCMap) = Sum(touched) + strays

ObjectsKept == UNCHANGED <<tag, COCMap, owner, touched, strays>>

LEMMA HooksKeepObjects ==
  ASSUME \/ \E n \in DOMAIN tree : Enter(n)
         \/ \E loc \in MutedLocs, n \in DOMAIN tree, loop \in BOOLEAN :
              EnterMuted(loc, tree[n].uni, loop)
         \/ EnterCallbackLoop \/ GoRound \/ DisableCtxtChange \/ EnableCtxtChange \/ Leave
         \/ Tick \/ Finish
  PROVE  ObjectsKept
<1>1. ASSUME NEW loc, NEW uni, LoopBegin(loc, uni) \/ CallSiteBegin(loc, uni)
      PROVE  UNCHANGED objVars
  BY <1>1 DEF LoopBegin, CallSiteBegin, ByKind, Objs!LoopBegin, Objs!CallSiteBegin, Objs!Move,
              Objs!objVars, objVars
<1>2. ASSUME NEW loc, LoopEnd(loc) \/ CallSiteEnd(loc)
      PROVE  UNCHANGED objVars
  BY <1>2 DEF LoopEnd, CallSiteEnd, ByKind, Objs!LoopEnd, Objs!CallSiteEnd, Objs!Move,
              Objs!objVars, objVars
<1>3. LoopNext => UNCHANGED objVars
  BY DEF LoopNext, ByKind, Objs!LoopNext, Objs!objVars, objVars
<1>4. UNCHANGED <<objVars, truthVars>>
  BY <1>1, <1>2, <1>3 DEF Enter, EnterMuted, EnterCallbackLoop, GoRound, DisableCtxtChange,
                          EnableCtxtChange, Leave, Tick, Finish
<1> QED
  BY <1>4 DEF objVars, truthVars, ObjectsKept

LEMMA MemoryKeepsOwners ==
  ASSUME OwnersInv, BaseInv,
         \/ \E addr \in Words, size \in Sizes :
              AllocateUnhooked(addr, size) \/ \E i \in InstrIDs : Allocate(addr, size, i)
         \/ \E w \in Words : Free(owner[w])
  PROVE  OwnersInv' /\ UNCHANGED <<COCMap, touched, strays>>
<1>1. ASSUME NEW addr \in Words, NEW size \in Sizes, AllocateUnhooked(addr, size)
      PROVE  OwnersInv' /\ UNCHANGED <<COCMap, touched, strays>>
  <2>1. UNCHANGED <<tag, COCMap, touched, strays>>
    BY <1>1 DEF AllocateUnhooked, objVars
  <2>2. owner' = [w \in Words |-> IF w \in Extent(addr, size) THEN Foreign ELSE owner[w]]
    BY <1>1 DEF AllocateUnhooked, Own
  <2>3. OwnersInv'
    BY <2>1, <2>2 DEF OwnersInv, ObjectAt
  <2> QED
    BY <2>1, <2>3
<1>2. ASSUME NEW addr \in Words, NEW size \in Sizes, NEW i \in InstrIDs, Allocate(addr, size, i)
      PROVE  OwnersInv' /\ UNCHANGED <<COCMap, touched, strays>>
  <2>1. PICK id : id = <<currentCtx, i>>
    OBVIOUS
  <2>2. Here = currentCtx
    BY BaseFacts
  <2>3. tag' = [w \in Words |-> IF w \in Objs!Tagged(addr, size) THEN id ELSE tag[w]]
    BY <1>2, <2>1 DEF Allocate, Objs!Allocated, Objs!ShadowMemorySetting, Objs!getFullId
  <2>4. owner' = [w \in Words |-> IF w \in Extent(addr, size) THEN id ELSE owner[w]]
    BY <1>2, <2>1, <2>2 DEF Allocate, Own
  <2>5. UNCHANGED <<COCMap, touched, strays>>
    BY <1>2 DEF Allocate, Objs!Allocated
  <2>6. ASSUME NEW w \in Words, ObjectAt(w)'
        PROVE  tag'[w] = owner'[w]
    <3>1. CASE w \in Extent(addr, size)
      BY <2>3, <2>4, <3>1, TaggedIsExtent
    <3>2. CASE w \notin Extent(addr, size)
      <4>1. tag'[w] = tag[w] /\ owner'[w] = owner[w]
        BY <2>3, <2>4, <3>2, TaggedIsExtent
      <4> QED
        BY <2>6, <4>1 DEF OwnersInv, ObjectAt, NoOwner, Foreign
    <3> QED
      BY <3>1, <3>2
  <2>7. (owner = [w \in Words |-> owner[w]] /\ tag = [w \in Words |-> tag[w]])'
    BY <2>3, <2>4
  <2> QED
    BY <2>5, <2>6, <2>7 DEF OwnersInv
<1>3. ASSUME NEW v \in Words, Free(owner[v])
      PROVE  OwnersInv' /\ UNCHANGED <<COCMap, touched, strays>>
  <2>1. UNCHANGED <<tag, COCMap, touched, strays>>
    BY <1>3 DEF Free, objVars
  <2>2. PICK F : F = {w \in Words : owner[w] = owner[v]}
    OBVIOUS
  <2>3. owner' = [w \in Words |-> IF w \in F THEN NoOwner ELSE owner[w]]
    BY <1>3, <2>2 DEF Free, Own
  <2>4. OwnersInv'
    BY <2>1, <2>3 DEF OwnersInv, ObjectAt
  <2> QED
    BY <2>1, <2>4
<1> QED
  BY <1>1, <1>2, <1>3

LEMMA AccessKeepsTables ==
  ASSUME BaseInv, OwnersInv, TablesInv, NEW w \in Words, AccessWord(w)
  PROVE  TablesInv' /\ UNCHANGED <<owner, tag>>
<1>1. UNCHANGED <<owner, tag>> /\ Here = currentCtx /\ owner[w] # NoOwner
  BY BaseFacts DEF AccessWord, Objs!Access
<1>2. PICK k : k = <<currentCtx, tag[w]>>
  OBVIOUS
<1>3. COCMap' = IF tag[w] = Objs!NoTag THEN COCMap ELSE CountedUp(COCMap, k)
  BY <1>2 DEF AccessWord, Objs!Access, CountedUp
<1>4. PICK c : c = CountedUp(COCMap, k)
  OBVIOUS
<1>5. /\ Table(c) /\ Sum(c) = Sum(COCMap) + 1 /\ Sum(COCMap) \in Int
      /\ DOMAIN c = DOMAIN COCMap \cup {k}
      /\ c[k] = (IF k \in DOMAIN COCMap THEN COCMap[k] ELSE 0) + 1
      /\ \A j \in DOMAIN COCMap : j # k => c[j] = COCMap[j]
  <2>1. Table(COCMap)
    BY DEF TablesInv
  <2>2. Risen(COCMap, k, c)
    BY <1>4, <2>1, CountUpFacts
  <2> QED
    BY <2>2 DEF Risen
<1>6. CASE owner[w] = Foreign
  <2>1. touched' = touched /\ strays' = IF tag[w] = Objs!NoTag THEN strays ELSE strays + 1
    BY <1>6 DEF AccessWord
  <2>2. CASE tag[w] = Objs!NoTag
    BY <1>1, <1>3, <2>1, <2>2 DEF TablesInv
  <2>3. CASE tag[w] # Objs!NoTag
    <3>1. COCMap' = c /\ strays' = strays + 1
      BY <1>3, <1>4, <2>1, <2>3
    <3>2. \A j \in DOMAIN touched : j \in DOMAIN c /\ c[j] >= touched[j]
      <4> SUFFICES ASSUME NEW j \in DOMAIN touched PROVE j \in DOMAIN c /\ c[j] >= touched[j]
        OBVIOUS
      <4>1. /\ j \in DOMAIN COCMap /\ COCMap[j] >= touched[j]
            /\ COCMap[j] \in Nat /\ touched[j] \in Nat
        BY DEF TablesInv, Table
      <4>2. c[j] = COCMap[j] \/ c[j] = COCMap[j] + 1
        BY <1>5, <4>1
      <4> QED
        BY <1>5, <4>1, <4>2
    <3>3. Sum(touched) \in Int
      <4>1. IsFiniteSet(DOMAIN touched) /\ \A j \in DOMAIN touched : touched[j] \in Int
        BY DEF TablesInv, Table
      <4>2. SumOver(touched, DOMAIN touched) \in Int
        BY <4>1, SumFacts DEF Totals
      <4> QED
        BY <4>2 DEF Sum, FoldFunction, SumOver
    <3>4. Sum(c) = Sum(touched) + (strays + 1) /\ strays + 1 \in Nat
      BY <1>5, <3>3 DEF TablesInv
    <3>5. Table(COCMap') /\ Table(touched') /\ strays' \in Nat
      BY <1>5, <2>1, <3>1, <3>4 DEF TablesInv
    <3>6. \A j \in DOMAIN touched' : j \in DOMAIN COCMap' /\ COCMap'[j] >= touched'[j]
      BY <2>1, <3>1, <3>2
    <3>7. Sum(COCMap') = Sum(touched') + strays'
      BY <2>1, <3>1, <3>4
    <3> QED
      BY <1>1, <3>5, <3>6, <3>7 DEF TablesInv
  <2> QED
    BY <2>2, <2>3
<1>7. CASE owner[w] # Foreign
  <2>1. tag[w] = owner[w] /\ tag[w] # Objs!NoTag
    BY <1>1, <1>7 DEF OwnersInv, ObjectAt, NoOwner, Objs!NoTag
  <2>2. PICK t : t = CountedUp(touched, k)
    OBVIOUS
  <2>3. touched' = t /\ COCMap' = c /\ strays' = strays
    BY <1>1, <1>2, <1>3, <1>4, <1>7, <2>1, <2>2 DEF AccessWord, CountedUp
  <2>4. /\ Table(t) /\ Sum(t) = Sum(touched) + 1 /\ Sum(touched) \in Int
        /\ DOMAIN t = DOMAIN touched \cup {k}
        /\ t[k] = (IF k \in DOMAIN touched THEN touched[k] ELSE 0) + 1
        /\ \A j \in DOMAIN touched : j # k => t[j] = touched[j]
    <3>1. Table(touched)
      BY DEF TablesInv
    <3>2. Risen(touched, k, t)
      BY <2>2, <3>1, CountUpFacts
    <3> QED
      BY <3>2 DEF Risen
  <2>5. \A j \in DOMAIN t : j \in DOMAIN c /\ c[j] >= t[j]
    <3> SUFFICES ASSUME NEW j \in DOMAIN t PROVE j \in DOMAIN c /\ c[j] >= t[j]
      OBVIOUS
    <3>1. /\ \A i \in DOMAIN touched : /\ i \in DOMAIN COCMap /\ COCMap[i] >= touched[i]
                                       /\ touched[i] \in Nat
          /\ \A i \in DOMAIN COCMap : COCMap[i] \in Nat
      BY DEF TablesInv, Table
    <3>2. CASE j = k
      <4>1. k \in DOMAIN c
        BY <1>5
      <4>2. CASE k \in DOMAIN touched
        <5>1. c[k] = COCMap[k] + 1 /\ t[k] = touched[k] + 1
          BY <1>5, <2>4, <3>1, <4>2
        <5> QED
          BY <3>1, <3>2, <4>1, <4>2, <5>1
      <4>3. CASE k \notin DOMAIN touched
        <5>1. t[k] = 1 /\ c[k] \in Nat /\ c[k] >= 1
          BY <1>5, <2>4, <3>1, <4>3
        <5> QED
          BY <3>2, <4>1, <5>1
      <4> QED
        BY <4>2, <4>3
    <3>3. CASE j # k
      <4>1. j \in DOMAIN touched
        BY <2>4, <3>3
      <4> QED
        BY <1>5, <2>4, <3>1, <3>3, <4>1
    <3> QED
      BY <3>2, <3>3
  <2>6. Sum(c) = Sum(t) + strays
    BY <1>5, <2>4 DEF TablesInv
  <2> QED
    BY <1>1, <1>5, <2>3, <2>4, <2>5, <2>6 DEF TablesInv
<1> QED
  BY <1>6, <1>7

ObjectsInv == OwnersInv /\ TablesInv

LEMMA ObjectsNext == BaseInv /\ ObjectsInv /\ [Next]_vars => ObjectsInv'
<1> SUFFICES ASSUME BaseInv, ObjectsInv, [Next]_vars PROVE ObjectsInv'
  OBVIOUS
<1>1. OwnersInv /\ TablesInv
  BY DEF ObjectsInv
<1>2. ASSUME ObjectsKept PROVE ObjectsInv'
  BY <1>1, <1>2 DEF ObjectsKept, ObjectsInv, OwnersInv, TablesInv, ObjectAt
<1>3. CASE UNCHANGED vars
  BY <1>2, <1>3 DEF vars, objVars, truthVars, ObjectsKept
<1>4. CASE \/ \E addr \in Words, size \in Sizes :
                AllocateUnhooked(addr, size) \/ \E i \in InstrIDs : Allocate(addr, size, i)
           \/ \E w \in Words : Free(owner[w])
  <2>1. OwnersInv' /\ UNCHANGED <<COCMap, touched, strays>>
    BY <1>1, <1>4, MemoryKeepsOwners
  <2> QED
    BY <1>1, <2>1 DEF ObjectsInv, TablesInv
<1>5. ASSUME NEW w \in Words, AccessWord(w) PROVE ObjectsInv'
  <2>1. TablesInv' /\ UNCHANGED <<owner, tag>>
    BY <1>1, <1>5, AccessKeepsTables
  <2> QED
    BY <1>1, <2>1 DEF ObjectsInv, OwnersInv, ObjectAt
<1>6. CASE \/ \E n \in DOMAIN tree : Enter(n)
           \/ \E loc \in MutedLocs, n \in DOMAIN tree, loop \in BOOLEAN :
                EnterMuted(loc, tree[n].uni, loop)
           \/ EnterCallbackLoop \/ GoRound \/ DisableCtxtChange \/ EnableCtxtChange \/ Leave
           \/ Tick \/ Finish
  BY <1>2, <1>6, HooksKeepObjects
<1> QED
  BY <1>3, <1>4, <1>5, <1>6 DEF Next

(***************************************************************************)
(* CountsAreOfObjects, for any memory and any sizes of allocations but 0:  *)
(* no access of a live tracked object is lost, and what the table has      *)
(* beyond them are accesses through tags of objects that are gone.         *)
(***************************************************************************)
THEOREM CountsAreOfTheObjects == Spec => []CountsAreOfObjects
<1>1. Init => ObjectsInv
  <2> SUFFICES ASSUME Init PROVE ObjectsInv
    OBVIOUS
  <2>1. /\ owner = [w \in Words |-> NoOwner] /\ touched = <<>> /\ strays = 0
        /\ tag = [w \in Words |-> Objs!NoTag] /\ COCMap = <<>>
    BY DEF Init, Objs!Initialize
  <2>2. DOMAIN touched = {} /\ DOMAIN COCMap = {}
    BY <2>1
  <2>3. Table(touched) /\ Table(COCMap)
    BY <2>2, FS_EmptySet DEF Table
  <2>4. Sum(touched) = 0 /\ Sum(COCMap) = 0
    <3>1. SumOver(touched, DOMAIN touched) = 0 /\ SumOver(COCMap, DOMAIN COCMap) = 0
      BY <2>2, SumOfNone
    <3> QED
      BY <3>1 DEF Sum, FoldFunction, SumOver
  <2>5. OwnersInv
    BY <2>1 DEF OwnersInv, ObjectAt
  <2> QED
    BY <2>1, <2>2, <2>3, <2>4, <2>5 DEF ObjectsInv, TablesInv
<1>2. ObjectsInv => CountsAreOfObjects
  BY DEF ObjectsInv, TablesInv, CountsAreOfObjects
<1> QED
  BY <1>1, <1>2, ObjectsNext, BaseInvariant, PTL DEF Spec
=============================================================================
