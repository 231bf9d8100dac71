---------------------- MODULE DependenceProfilerProofs ----------------------
(***************************************************************************)
(* Sampling only omits, for every program, every number of slots and every *)
(* sampling period: what campSampling records, camp records too.           *)
(*                                                                         *)
(* The argument: both runtimes keep the same contexts, counters and last   *)
(* stores; a load sampling has in its history is also in the full one, and *)
(* where the counters of its entry differ from the full entry's, the full  *)
(* one is marked as mixed, which stands for both relations.                *)
(*                                                                         *)
(* It takes that a CampID tells how deep in loops it is: a context adds up *)
(* local ids of loops, and were one load in one context once in two loops  *)
(* and once in one, its entry without sampling would have a counter of a   *)
(* loop that the later sampled entry never saw.                            *)
(***************************************************************************)
EXTENDS DependenceProfiler, TLAPS

\* ctxOf gives the context of each chain of loops: the local ids added up.
IsContextOf(ctxOf) ==
  /\ ctxOf \in [Seq(Loops) -> Contexts]
  /\ ctxOf[<<>>] = 0
  /\ \A c \in Seq(Loops), l \in Loops :
       ctxOf[Append(c, l)] = (ctxOf[c] + LocID[l]) % CtxMod

\* A load in one context is always in the same number of loops.
OneDepth(ctxOf) ==
  \A instr \in Loads : \A c, d \in At[instr] : ctxOf[c] = ctxOf[d] => Len(c) = Len(d)

Counters == 0 .. 2 * IterMod - 1
Frame    == [loop : Loops, count : Nat]

-----------------------------------------------------------------------------
(***************************************************************************)
(* The inductive invariant.                                                *)
(***************************************************************************)
\* In n loops, idx is the last slot in use and over counts the loops without.
SlotsRight(n, idx, over) ==
  /\ n < STK_MAX_SIZE  => idx = n - 1 /\ over = -1
  /\ n >= STK_MAX_SIZE => idx = STK_MAX_SIZE - 1 /\ over = n - STK_MAX_SIZE - 1

ItersRight(ctxOf) ==
  /\ nest \in Seq(Frame)
  /\ globalIterStack \in [Levels -> 0 .. IterMod - 1]
  /\ SlotsRight(Len(nest), globalIterStackIdx, globalIterStackIdx_overflow)
  /\ currentCtx = ctxOf[Chain]
  /\ \A i \in Levels : i > globalIterStackIdx => globalIterStack[i] = 0

FullState(loads, deps) ==
  [currentCtx |-> currentCtx, globalIterStack |-> globalIterStack,
   globalIterStackIdx |-> globalIterStackIdx,
   globalIterStackIdx_overflow |-> globalIterStackIdx_overflow,
   storeElem |-> storeElem, loadMap |-> loads, depTable |-> deps, mallocMap |-> mallocMap]

SameState == full = FullState(full.loadMap, full.depTable)

\* The history of loads of one byte, without sampling.
IsHistory(ctxOf, f) ==
  \A id \in DOMAIN f :
    /\ id \in LoadIDs /\ f[id] \in [Levels -> Counters]
    /\ \A c \in At[id[2]] : \A i \in Levels :
         ctxOf[c] = id[1] /\ i >= Len(c) => f[id][i] = 0

\* The history with sampling, s, beside it.
Covers(f, s) ==
  /\ DOMAIN s \subseteq DOMAIN f
  /\ \A id \in DOMAIN s :
       /\ s[id] \in [Levels -> Counters]
       /\ \A i \in Levels : s[id][i] = f[id][i] \/ f[id][i] >= IterMod

\* The tables kept per byte have one entry for every byte.
PerByte ==
  /\ storeElem = [a \in Addresses |-> storeElem[a]]
  /\ loadMap = [a \in Addresses |-> loadMap[a]]
  /\ mallocMap = [a \in Addresses |-> mallocMap[a]]
  /\ full.loadMap = [a \in Addresses |-> full.loadMap[a]]

HistoryRight(ctxOf) ==
  /\ PerByte
  /\ \A a \in Addresses :
       /\ storeElem[a].campID \in StoreIDs \cup {NoStore}
       /\ IsHistory(ctxOf, full.loadMap[a])
       /\ Covers(full.loadMap[a], loadMap[a])

DepInv(ctxOf) ==
  /\ ItersRight(ctxOf)
  /\ SameState
  /\ HistoryRight(ctxOf)
  /\ SamplingOnlyOmits

-----------------------------------------------------------------------------
(***************************************************************************)
(* Contexts.                                                               *)
(***************************************************************************)
LEMMA ModShift ==
  ASSUME NEW m \in Nat \ {0}, NEW b \in 0 .. m - 1, NEW q \in Int
  PROVE  (b + m * q) % m = b
OBVIOUS

LEMMA ModDiv ==
  ASSUME NEW m \in Nat \ {0}, NEW b \in Int
  PROVE  /\ (b \div m) \in Int /\ (b % m) \in 0 .. m - 1
         /\ b = (m * (b \div m)) + (b % m)
OBVIOUS

LEMMA Cancel ==
  ASSUME NEW m \in Int, NEW x \in Int, NEW y \in Int, NEW r \in Int, NEW q \in Int,
         x + y = (m * q) + r
  PROVE  r - y = x + (m * (- q))
OBVIOUS

\* What a begin hook adds, the end hook takes back.
LEMMA AddAndSubtract ==
  ASSUME NEW m \in Nat \ {0}, NEW x \in 0 .. m - 1, NEW y \in Nat
  PROVE  (((x + y) % m) - y) % m = x
<1>1. /\ x + y = (m * ((x + y) \div m)) + ((x + y) % m)
      /\ ((x + y) \div m) \in Int /\ ((x + y) % m) \in Int
  BY ModDiv
<1>2. ((x + y) % m) - y = x + (m * (- ((x + y) \div m)))
  BY <1>1, Cancel
<1>3. PICK q : q = - ((x + y) \div m)
  OBVIOUS
<1>4. PICK r : r = (x + y) % m
  OBVIOUS
<1>5. q \in Int /\ r \in Int /\ r - y = x + m * q
  BY <1>1, <1>2, <1>3, <1>4
<1>6. (r - y) % m = x
  BY <1>5, ModShift
<1> QED
  BY <1>4, <1>6

LEMMA ChainFacts ==
  ASSUME NEW n \in Seq(Frame)
  PROVE  /\ LoopsOf(n) \in Seq(Loops) /\ Len(LoopsOf(n)) = Len(n)
         /\ LoopsOf(n) = [i \in 1 .. Len(n) |-> n[i].loop]
<1>1. DOMAIN n = 1 .. Len(n) /\ Len(n) \in Nat /\ \A i \in 1 .. Len(n) : n[i] \in Frame
  OBVIOUS
<1>2. \A i \in 1 .. Len(n) : n[i].loop \in Loops
  BY <1>1 DEF Frame
<1>3. LoopsOf(n) = [i \in 1 .. Len(n) |-> n[i].loop]
  BY <1>1 DEF LoopsOf
<1> QED
  BY <1>1, <1>2, <1>3

LEMMA ChainOfAppend ==
  ASSUME NEW n \in Seq(Frame), NEW fr \in Frame
  PROVE  LoopsOf(Append(n, fr)) = Append(LoopsOf(n), fr.loop)
<1>1. /\ Append(n, fr) \in Seq(Frame) /\ Len(Append(n, fr)) = Len(n) + 1
      /\ Len(n) \in Nat /\ fr.loop \in Loops
      /\ \A i \in 1 .. Len(n) : Append(n, fr)[i] = n[i]
      /\ Append(n, fr)[Len(n) + 1] = fr
  BY DEF Frame
<1>2. LoopsOf(Append(n, fr)) = [i \in 1 .. Len(n) + 1 |-> Append(n, fr)[i].loop]
  BY <1>1 DEF LoopsOf
<1>3. /\ LoopsOf(n) \in Seq(Loops) /\ Len(LoopsOf(n)) = Len(n)
      /\ \A i \in 1 .. Len(n) : LoopsOf(n)[i] = n[i].loop
  BY ChainFacts DEF LoopsOf
<1>4. Append(LoopsOf(n), fr.loop)
        = [i \in 1 .. Len(n) + 1 |-> IF i = Len(n) + 1 THEN fr.loop ELSE n[i].loop]
  BY <1>1, <1>3
<1> QED
  BY <1>1, <1>2, <1>4

LEMMA ChainOfFront ==
  ASSUME NEW n \in Seq(Frame), n # <<>>
  PROVE  /\ SubSeq(n, 1, Len(n) - 1) \in Seq(Frame)
         /\ Len(SubSeq(n, 1, Len(n) - 1)) = Len(n) - 1
         /\ n[Len(n)].loop \in Loops
         /\ LoopsOf(n) = Append(LoopsOf(SubSeq(n, 1, Len(n) - 1)), n[Len(n)].loop)
<1>1. /\ SubSeq(n, 1, Len(n) - 1) \in Seq(Frame)
      /\ Len(SubSeq(n, 1, Len(n) - 1)) = Len(n) - 1
      /\ n[Len(n)] \in Frame
      /\ n = Append(SubSeq(n, 1, Len(n) - 1), n[Len(n)])
  <2>1. Len(n) \in Nat \ {0} /\ n = [i \in 1 .. Len(n) |-> n[i]]
        /\ \A i \in 1 .. Len(n) : n[i] \in Frame
    OBVIOUS
  <2>2. SubSeq(n, 1, Len(n) - 1) = [i \in 1 .. Len(n) - 1 |-> n[i]]
    BY <2>1
  <2>3. /\ SubSeq(n, 1, Len(n) - 1) \in Seq(Frame)
        /\ Len(SubSeq(n, 1, Len(n) - 1)) = Len(n) - 1
    BY <2>1, <2>2
  <2>4. Append(SubSeq(n, 1, Len(n) - 1), n[Len(n)])
          = [i \in 1 .. Len(n) |-> IF i = Len(n) THEN n[Len(n)] ELSE n[i]]
    BY <2>1, <2>2, <2>3
  <2> QED
    BY <2>1, <2>3, <2>4
<1> QED
  BY <1>1, ChainOfAppend DEF Frame

-----------------------------------------------------------------------------
(***************************************************************************)
(* The dependence tables.                                                  *)
(***************************************************************************)
\* A counter marked as mixed stands for both relations.
LEMMA MixedCovers ==
  ASSUME NEW m, NEW n, \A i \in CurLevels : m[i] = n[i] \/ n[i] >= IterMod
  PROVE  IterRelation(m) \subseteq IterRelation(n)
BY DEF IterRelation, isIntra, isInter, Mixed

LEMMA OverFacts ==
  ASSUME NEW f, NEW g
  PROVE  /\ DOMAIN Full!Over(f, g) = DOMAIN f \cup DOMAIN g
         /\ \A x \in DOMAIN f : Full!Over(f, g)[x] = f[x]
         /\ \A x \in DOMAIN g : x \notin DOMAIN f => Full!Over(f, g)[x] = g[x]
BY DEF Full!Over

\* Both tables get their sources: the sampled ones are among the others.
LEMMA InsertKeeps ==
  ASSUME SameState, SamplingOnlyOmits, NEW srcs, NEW fsrcs, NEW dst,
         DOMAIN srcs \subseteq DOMAIN fsrcs,
         \A id \in DOMAIN srcs : IterRelation(srcs[id]) \subseteq IterRelation(fsrcs[id]),
         InsertDeps(srcs, dst)
  PROVE  \A p \in DOMAIN depTable' :
           /\ p \in DOMAIN Full!insertDep(full, fsrcs, dst)
           /\ depTable'[p] \subseteq Full!insertDep(full, fsrcs, dst)[p]
<1>1. /\ full.globalIterStack = globalIterStack
      /\ Full!Open(full) = CurLevels
  BY DEF SameState, FullState, Full!Open, CurLevels
<1>2. DEFINE pairs == {<<src, dst>> : src \in DOMAIN fsrcs}
             new(p) == IterRelation(fsrcs[p[1]])
             old(p) == IF p \in DOMAIN full.depTable THEN full.depTable[p] ELSE {}
<1>3. PICK table : table = [p \in pairs |-> old(p) \cup new(p)]
  OBVIOUS
<1>4. Full!insertDep(full, fsrcs, dst) = Full!Over(table, full.depTable)
  BY <1>1, <1>3, Zenon DEF Full!insertDep, IterRelation, isIntra, isInter, Mixed,
     Full!isIntra, Full!isInter, Full!Merged
<1>5. DOMAIN table = pairs /\ \A p \in pairs : table[p] = old(p) \cup new(p)
  BY <1>3
<1>6. PICK deps : deps = full.depTable
  OBVIOUS
<1>7. PICK result : result = Full!insertDep(full, fsrcs, dst)
  OBVIOUS
<1>8. result = Full!Over(table, deps)
  BY <1>4, <1>6, <1>7
<1>9. /\ DOMAIN result = DOMAIN table \cup DOMAIN deps
      /\ \A x \in DOMAIN table : result[x] = table[x]
      /\ \A x \in DOMAIN deps : x \notin DOMAIN table => result[x] = deps[x]
  BY <1>8, OverFacts
<1> QED
  <2> HIDE DEF pairs, new, old
  <2>2. ASSUME NEW p \in pairs
        PROVE  /\ p \in DOMAIN Full!insertDep(full, fsrcs, dst)
               /\ Full!insertDep(full, fsrcs, dst)[p] = old(p) \cup new(p)
    BY <1>5, <1>7, <1>9
  <2>3. ASSUME NEW p \in DOMAIN full.depTable, p \notin pairs
        PROVE  /\ p \in DOMAIN Full!insertDep(full, fsrcs, dst)
               /\ Full!insertDep(full, fsrcs, dst)[p] = full.depTable[p]
    BY <1>5, <1>6, <1>7, <1>9, <2>3
  <2> DEFINE spairs == {<<src, dst>> : src \in DOMAIN srcs}
             Old(p)  == IF p \in DOMAIN depTable THEN depTable[p] ELSE {}
             New(p)  == IF p \in spairs THEN IterRelation(srcs[p[1]]) ELSE {}
  <2>4. depTable' = [p \in DOMAIN depTable \cup spairs |-> Old(p) \cup New(p)]
    BY Zenon DEF InsertDeps
  <2>5. ASSUME NEW p \in spairs
        PROVE  p \in pairs /\ New(p) \subseteq new(p)
    BY DEF pairs, new
  <2>6. ASSUME NEW p \in DOMAIN depTable
        PROVE  /\ p \in DOMAIN full.depTable /\ Old(p) \subseteq full.depTable[p]
               /\ p \in pairs => Old(p) \subseteq old(p)
    BY DEF old, SamplingOnlyOmits
  <2>7. ASSUME NEW p \in pairs, p \notin DOMAIN depTable
        PROVE  Old(p) \subseteq old(p)
    <3>1. Old(p) = {}
      BY <2>7
    <3> QED
      BY <3>1
  <2>8. ASSUME NEW p \in DOMAIN depTable \cup spairs
        PROVE  /\ p \in DOMAIN Full!insertDep(full, fsrcs, dst)
               /\ Old(p) \cup New(p) \subseteq Full!insertDep(full, fsrcs, dst)[p]
    <3>1. CASE p \in pairs
      <4>1. Old(p) \subseteq old(p)
        BY <2>6, <2>7, <3>1
      <4>2. New(p) \subseteq new(p)
        BY <2>5
      <4> QED
        BY <2>2, <3>1, <4>1, <4>2
    <3>2. CASE p \notin pairs
      <4>1. p \notin spairs /\ p \in DOMAIN depTable /\ New(p) = {}
        BY <2>5, <3>2
      <4> QED
        BY <2>3, <2>6, <3>2, <4>1
    <3> QED
      BY <3>1, <3>2
  <2> HIDE DEF spairs, Old, New
  <2> QED
    BY <2>4, <2>8

-----------------------------------------------------------------------------
(***************************************************************************)
(* Loops: both runtimes move alike, and no history changes.                *)
(***************************************************************************)
HistoryStays ==
  /\ UNCHANGED shadowVars
  /\ SameState'
  /\ full'.loadMap = full.loadMap /\ full'.depTable = full.depTable

LEMMA HistoryKept ==
  ASSUME NEW ctxOf, HistoryRight(ctxOf), SamplingOnlyOmits, HistoryStays
  PROVE  HistoryRight(ctxOf)' /\ SamplingOnlyOmits'
BY DEF HistoryStays, HistoryRight, PerByte, SamplingOnlyOmits, shadowVars

LEMMA LoopBeginAlike ==
  ASSUME SameState, NEW l \in Loops, LoopBegin(l)
  PROVE  HistoryStays
<1>1. PICK loads, deps : loads = full.loadMap /\ deps = full.depTable
  OBVIOUS
<1>2. full = FullState(loads, deps)
  BY <1>1 DEF SameState
<1>3. full' = FullState(loads, deps)'
  BY <1>2 DEF LoopBegin, Full!campLoopBegin, FullState, shadowVars
<1>4. full'.loadMap = loads /\ full'.depTable = deps
  BY <1>3 DEF FullState
<1> QED
  BY <1>1, <1>3, <1>4 DEF HistoryStays, SameState, LoopBegin

LEMMA LoopNextAlike ==
  ASSUME SameState, LoopNext
  PROVE  HistoryStays
<1>1. PICK loads, deps : loads = full.loadMap /\ deps = full.depTable
  OBVIOUS
<1>2. full = FullState(loads, deps)
  BY <1>1 DEF SameState
<1>3. full' = FullState(loads, deps)'
  BY <1>2 DEF LoopNext, NextCount, Full!campLoopNext, FullState, shadowVars
<1>4. full'.loadMap = loads /\ full'.depTable = deps
  BY <1>3 DEF FullState
<1> QED
  BY <1>1, <1>3, <1>4 DEF HistoryStays, SameState, LoopNext

LEMMA LoopEndAlike ==
  ASSUME SameState, LoopEnd
  PROVE  HistoryStays
<1>1. PICK loads, deps : loads = full.loadMap /\ deps = full.depTable
  OBVIOUS
<1>2. full = FullState(loads, deps)
  BY <1>1 DEF SameState
<1>3. full' = FullState(loads, deps)'
  BY <1>2 DEF LoopEnd, Full!campLoopEnd, FullState, shadowVars
<1>4. full'.loadMap = loads /\ full'.depTable = deps
  BY <1>3 DEF FullState
<1> QED
  BY <1>1, <1>3, <1>4 DEF HistoryStays, SameState, LoopEnd

-----------------------------------------------------------------------------
LEMMA SlotFacts ==
  ASSUME NEW ctxOf, ItersRight(ctxOf)
  PROVE  /\ nest \in Seq(Frame) /\ Len(nest) \in Nat
         /\ globalIterStackIdx \in -1 .. STK_MAX_SIZE - 1
         /\ globalIterStackIdx_overflow \in Int
         /\ nest # <<>> => Len(nest) > 0 /\ globalIterStackIdx \in Levels
         /\ \A i \in Levels : i >= Len(nest) => i > globalIterStackIdx
         /\ \A i \in Levels : i \notin CurLevels => i > globalIterStackIdx /\ i >= Len(nest)
<1>1. nest \in Seq(Frame) /\ Len(nest) \in Nat /\ (nest # <<>> => Len(nest) > 0)
  BY DEF ItersRight
<1>2. STK_MAX_SIZE \in Nat \ {0}
  BY DependenceAssumption
<1>3. SlotsRight(Len(nest), globalIterStackIdx, globalIterStackIdx_overflow)
  BY DEF ItersRight
<1>4. CASE Len(nest) < STK_MAX_SIZE
  <2>1. globalIterStackIdx = Len(nest) - 1 /\ globalIterStackIdx_overflow = -1
    BY <1>3, <1>4 DEF SlotsRight
  <2> QED
    BY <1>1, <1>2, <1>4, <2>1 DEF Levels, CurLevels
<1>5. CASE Len(nest) >= STK_MAX_SIZE
  <2>1. /\ globalIterStackIdx = STK_MAX_SIZE - 1
        /\ globalIterStackIdx_overflow = Len(nest) - STK_MAX_SIZE - 1
    BY <1>3, <1>5 DEF SlotsRight
  <2> QED
    BY <1>1, <1>2, <1>5, <2>1 DEF Levels, CurLevels
<1> QED
  BY <1>1, <1>2, <1>4, <1>5

LEMMA LoopBeginIters ==
  ASSUME NEW ctxOf, IsContextOf(ctxOf), ItersRight(ctxOf), NEW l \in Loops, LoopBegin(l)
  PROVE  ItersRight(ctxOf)'
<1>1. [loop |-> l, count |-> 0] \in Frame /\ nest \in Seq(Frame)
  BY DEF Frame, ItersRight
<1>2. /\ nest' \in Seq(Frame) /\ Len(nest') = Len(nest) + 1 /\ Len(nest) \in Nat
      /\ Chain' = Append(Chain, l) /\ Chain \in Seq(Loops)
  BY <1>1, ChainOfAppend, ChainFacts DEF LoopBegin, Chain
<1>3. currentCtx' = ctxOf[Chain']
  BY <1>2 DEF LoopBegin, IsContextOf, ItersRight
<1>4. /\ globalIterStackIdx \in -1 .. STK_MAX_SIZE - 1 /\ STK_MAX_SIZE \in Nat \ {0}
      /\ SlotsRight(Len(nest), globalIterStackIdx, globalIterStackIdx_overflow)
      /\ globalIterStack \in [Levels -> 0 .. IterMod - 1] /\ IterMod \in Nat \ {0}
      /\ \A i \in Levels : i > globalIterStackIdx => globalIterStack[i] = 0
  BY SlotFacts, DependenceAssumption DEF ItersRight
<1>5. CASE globalIterStackIdx >= STK_MAX_SIZE - 1
  <2>1. /\ globalIterStackIdx_overflow' = globalIterStackIdx_overflow + 1
        /\ globalIterStackIdx' = globalIterStackIdx /\ globalIterStack' = globalIterStack
    BY <1>5 DEF LoopBegin
  <2>2. SlotsRight(Len(nest'), globalIterStackIdx', globalIterStackIdx_overflow')
    BY <1>2, <1>4, <1>5, <2>1 DEF SlotsRight
  <2> QED
    BY <1>2, <1>3, <1>4, <2>1, <2>2 DEF ItersRight
<1>6. CASE ~ globalIterStackIdx >= STK_MAX_SIZE - 1
  <2>1. /\ globalIterStackIdx_overflow' = globalIterStackIdx_overflow
        /\ globalIterStackIdx' = globalIterStackIdx + 1
        /\ globalIterStack' = [globalIterStack EXCEPT ![globalIterStackIdx + 1] = 0]
    BY <1>6 DEF LoopBegin
  <2>2. SlotsRight(Len(nest'), globalIterStackIdx', globalIterStackIdx_overflow')
    BY <1>2, <1>4, <1>6, <2>1 DEF SlotsRight
  <2>3. /\ globalIterStack' \in [Levels -> 0 .. IterMod - 1]
        /\ \A i \in Levels : i > globalIterStackIdx' => globalIterStack'[i] = 0
    BY <1>4, <1>6, <2>1 DEF Levels
  <2> QED
    BY <1>2, <1>3, <2>2, <2>3 DEF ItersRight
<1> QED
  BY <1>5, <1>6

LEMMA LoopNextIters ==
  ASSUME NEW ctxOf, ItersRight(ctxOf), LoopNext
  PROVE  ItersRight(ctxOf)'
<1>1. PICK n, d : n = Len(nest) /\ d = nest
  OBVIOUS
<1>2. /\ d \in Seq(Frame) /\ n = Len(d) /\ n \in Nat \ {0}
      /\ DOMAIN d = 1 .. n /\ \A i \in 1 .. n : d[i] \in Frame
      /\ nest' = [d EXCEPT ![n].count = @ + 1]
  BY <1>1 DEF ItersRight, LoopNext
<1>3. /\ DOMAIN nest' = 1 .. n
      /\ \A i \in 1 .. n : nest'[i] \in Frame /\ nest'[i].loop = d[i].loop
  BY <1>2 DEF Frame
<1>4. nest' \in Seq(Frame) /\ Len(nest') = n
  <2>1. nest' = [i \in 1 .. n |-> nest'[i]]
    BY <1>2
  <2> QED
    BY <1>2, <1>3, <2>1
<1>5. Chain' = Chain
  <2>1. PICK e : e = nest'
    OBVIOUS
  <2>2. LoopsOf(d) = [i \in 1 .. n |-> d[i].loop] /\ LoopsOf(e) = [i \in 1 .. n |-> e[i].loop]
    BY <1>2, <1>4, <2>1, ChainFacts
  <2>3. LoopsOf(e) = LoopsOf(d)
    BY <1>3, <2>1, <2>2
  <2> QED
    BY <1>1, <2>1, <2>3 DEF Chain
<1>6. globalIterStackIdx \in Levels
  BY <1>1, <1>2, SlotFacts
<1>7. (globalIterStack[globalIterStackIdx] + 1) % IterMod \in 0 .. IterMod - 1
  BY <1>6, DependenceAssumption DEF ItersRight
<1>8. globalIterStack' \in [Levels -> 0 .. IterMod - 1]
  BY <1>6, <1>7 DEF LoopNext, NextCount, ItersRight
<1>9. \A i \in Levels : i > globalIterStackIdx => globalIterStack'[i] = 0
  BY <1>6 DEF LoopNext, ItersRight, Levels
<1> QED
  BY <1>1, <1>4, <1>5, <1>8, <1>9 DEF LoopNext, ItersRight

LEMMA LoopEndIters ==
  ASSUME NEW ctxOf, IsContextOf(ctxOf), ItersRight(ctxOf), LoopEnd
  PROVE  ItersRight(ctxOf)'
<1>1. nest \in Seq(Frame) /\ nest # <<>> /\ Len(nest) \in Nat \ {0}
  BY DEF ItersRight, LoopEnd
<1>2. PICK l : l = nest[Len(nest)].loop
  OBVIOUS
<1>3. /\ nest' \in Seq(Frame) /\ Len(nest') = Len(nest) - 1
      /\ l \in Loops /\ Chain' \in Seq(Loops) /\ Chain = Append(Chain', l)
  BY <1>1, <1>2, ChainOfFront, ChainFacts DEF LoopEnd, Chain
<1>4. ctxOf[Chain'] \in 0 .. CtxMod - 1 /\ LocID[l] \in Nat /\ CtxMod \in Nat \ {0}
  BY <1>3, DependenceAssumption DEF IsContextOf, Contexts
<1>5. currentCtx = (ctxOf[Chain'] + LocID[l]) % CtxMod
  BY <1>3 DEF IsContextOf, ItersRight
<1>6. currentCtx' = ctxOf[Chain']
  BY <1>2, <1>4, <1>5, AddAndSubtract DEF LoopEnd
<1>7. /\ globalIterStackIdx \in Levels /\ STK_MAX_SIZE \in Nat \ {0}
      /\ SlotsRight(Len(nest), globalIterStackIdx, globalIterStackIdx_overflow)
      /\ globalIterStack \in [Levels -> 0 .. IterMod - 1] /\ IterMod \in Nat \ {0}
      /\ \A i \in Levels : i > globalIterStackIdx => globalIterStack[i] = 0
  BY <1>1, SlotFacts, DependenceAssumption DEF ItersRight
<1>8. CASE globalIterStackIdx_overflow > -1
  <2>1. /\ globalIterStackIdx_overflow' = globalIterStackIdx_overflow - 1
        /\ globalIterStackIdx' = globalIterStackIdx /\ globalIterStack' = globalIterStack
    BY <1>8 DEF LoopEnd
  <2>2. SlotsRight(Len(nest'), globalIterStackIdx', globalIterStackIdx_overflow')
    BY <1>1, <1>3, <1>7, <1>8, <2>1 DEF SlotsRight
  <2> QED
    BY <1>3, <1>6, <1>7, <2>1, <2>2 DEF ItersRight
<1>9. CASE ~ globalIterStackIdx_overflow > -1
  <2>1. /\ globalIterStackIdx_overflow' = globalIterStackIdx_overflow
        /\ globalIterStackIdx' = globalIterStackIdx - 1
        /\ globalIterStack' = [globalIterStack EXCEPT ![globalIterStackIdx] = 0]
    BY <1>9 DEF LoopEnd
  <2>2. SlotsRight(Len(nest'), globalIterStackIdx', globalIterStackIdx_overflow')
    BY <1>1, <1>3, <1>7, <1>9, <2>1 DEF SlotsRight
  <2>3. /\ globalIterStack' \in [Levels -> 0 .. IterMod - 1]
        /\ \A i \in Levels : i > globalIterStackIdx' => globalIterStack'[i] = 0
    BY <1>7, <2>1 DEF Levels
  <2> QED
    BY <1>3, <1>6, <2>2, <2>3 DEF ItersRight
<1> QED
  BY <1>8, <1>9

-----------------------------------------------------------------------------
(***************************************************************************)
(* Loads.                                                                  *)
(***************************************************************************)
\* The entry of a load in the history without sampling.
NewEntry(f, id) == IF id \in DOMAIN f THEN Full!LoadAgain(full, f[id]) ELSE globalIterStack
AfterLoad(f, id) == Full!Over(Full!Entry(id, NewEntry(f, id)), f)

LEMMA AfterLoadFacts ==
  ASSUME NEW f, NEW id
  PROVE  /\ DOMAIN AfterLoad(f, id) = DOMAIN f \cup {id}
         /\ AfterLoad(f, id)[id] = NewEntry(f, id)
         /\ \A x \in DOMAIN f : x # id => AfterLoad(f, id)[x] = f[x]
<1>1. PICK e : e = Full!Entry(id, NewEntry(f, id))
  OBVIOUS
<1>2. DOMAIN e = {id} /\ e[id] = NewEntry(f, id)
  BY <1>1 DEF Full!Entry
<1>3. PICK g : g = AfterLoad(f, id)
  OBVIOUS
<1>4. g = Full!Over(e, f)
  BY <1>1, <1>3 DEF AfterLoad
<1>5. /\ DOMAIN g = DOMAIN e \cup DOMAIN f
      /\ \A x \in DOMAIN e : g[x] = e[x]
      /\ \A x \in DOMAIN f : x \notin DOMAIN e => g[x] = f[x]
  BY <1>4 DEF Full!Over
<1> QED
  BY <1>2, <1>3, <1>5

\* The counters now, and what merging makes of an entry.
LEMMA CountersNow ==
  ASSUME NEW ctxOf, ItersRight(ctxOf), SameState
  PROVE  /\ globalIterStack \in [Levels -> Counters]
         /\ \A i \in Levels : globalIterStack[i] < IterMod
         /\ \A old : Full!LoadAgain(full, old) = Merge(old)
         /\ \A old \in [Levels -> Counters] : Merge(old) \in [Levels -> Counters]
<1>1. globalIterStack \in [Levels -> 0 .. IterMod - 1] /\ IterMod \in Nat \ {0}
  BY DependenceAssumption DEF ItersRight
<1>2. /\ globalIterStack \in [Levels -> Counters]
      /\ \A i \in Levels : /\ globalIterStack[i] < IterMod
                           /\ globalIterStack[i] \in Counters
                           /\ globalIterStack[i] + IterMod \in Counters
  BY <1>1 DEF Counters
<1>3. ASSUME NEW old
      PROVE  Full!LoadAgain(full, old) = Merge(old)
  BY DEF SameState, FullState, Full!LoadAgain, Merge, Full!Open, CurLevels, Full!Slots, Levels
<1>4. ASSUME NEW old \in [Levels -> Counters]
      PROVE  Merge(old) \in [Levels -> Counters]
  BY <1>2 DEF Merge
<1> QED
  BY <1>2, <1>3, <1>4

\* Merging keeps an entry without sampling that stands for another one.
LEMMA MergeCovers ==
  ASSUME NEW ctxOf, ItersRight(ctxOf), SameState,
         NEW f \in [Levels -> Counters], NEW s \in [Levels -> Counters],
         \A i \in Levels : s[i] = f[i] \/ f[i] >= IterMod
  PROVE  \A i \in Levels : /\ s[i] = Merge(f)[i] \/ Merge(f)[i] >= IterMod
                           /\ Merge(s)[i] = Merge(f)[i] \/ Merge(f)[i] >= IterMod
<1>1. IterMod \in Nat \ {0} /\ \A i \in Levels : globalIterStack[i] \in 0 .. IterMod - 1
  BY DependenceAssumption DEF ItersRight
<1>2. ASSUME NEW i \in Levels
      PROVE  /\ f[i] \in Int /\ s[i] \in Int
             /\ Merge(f)[i] = IF i \in CurLevels /\ f[i] # globalIterStack[i]
                              THEN globalIterStack[i] + IterMod ELSE f[i]
             /\ Merge(s)[i] = IF i \in CurLevels /\ s[i] # globalIterStack[i]
                              THEN globalIterStack[i] + IterMod ELSE s[i]
  BY DEF Merge, Counters
<1>3. ASSUME NEW i \in Levels, i \in CurLevels, f[i] # globalIterStack[i]
      PROVE  Merge(f)[i] >= IterMod
  BY <1>1, <1>2, <1>3
<1>4. ASSUME NEW i \in Levels, i \in CurLevels, f[i] = globalIterStack[i]
      PROVE  s[i] = Merge(f)[i] /\ Merge(s)[i] = Merge(f)[i]
  <2>1. s[i] = f[i]
    BY <1>1, <1>4
  <2> QED
    BY <1>2, <1>4, <2>1
<1>5. ASSUME NEW i \in Levels, i \notin CurLevels
      PROVE  Merge(f)[i] = f[i] /\ Merge(s)[i] = s[i]
  BY <1>2, <1>5
<1> QED
  BY <1>3, <1>4, <1>5

\* A load's entry has no counter of a loop the load is not in.
LEMMA NothingBeyond ==
  ASSUME NEW ctxOf, OneDepth(ctxOf), ItersRight(ctxOf), NEW instr \in Loads,
         Chain \in At[instr], NEW c \in At[instr], ctxOf[c] = currentCtx,
         NEW i \in Levels, i >= Len(c)
  PROVE  globalIterStack[i] = 0 /\ i \notin CurLevels
<1>1. Len(c) = Len(Chain) /\ Len(Chain) = Len(nest)
  BY SlotFacts, ChainFacts DEF OneDepth, ItersRight, Chain
<1>2. i > globalIterStackIdx
  BY <1>1, SlotFacts
<1> QED
  BY <1>2, SlotFacts DEF ItersRight, CurLevels, Levels

LEMMA LoadKeepsHistory ==
  ASSUME NEW ctxOf, OneDepth(ctxOf), ItersRight(ctxOf), SameState,
         NEW f, IsHistory(ctxOf, f), NEW instr \in Loads, Chain \in At[instr],
         CampID(instr) \in LoadIDs
  PROVE  IsHistory(ctxOf, AfterLoad(f, CampID(instr)))
<1>1. PICK id, g : id = CampID(instr) /\ g = AfterLoad(f, id)
  OBVIOUS
<1>2. /\ DOMAIN g = DOMAIN f \cup {id} /\ g[id] = NewEntry(f, id)
      /\ \A x \in DOMAIN f : x # id => g[x] = f[x]
  BY <1>1, AfterLoadFacts
<1>3. id \in LoadIDs /\ id[1] = currentCtx /\ id[2] = instr
  BY <1>1 DEF CampID
<1>4. g[id] \in [Levels -> Counters]
  BY <1>2, CountersNow DEF NewEntry, IsHistory
<1>5. ASSUME NEW c \in At[instr], NEW i \in Levels, ctxOf[c] = currentCtx, i >= Len(c)
      PROVE  g[id][i] = 0
  <2>1. globalIterStack[i] = 0 /\ i \notin CurLevels
    BY <1>5, NothingBeyond
  <2>2. CASE id \in DOMAIN f
    <3>1. f[id][i] = 0
      BY <1>3, <1>5, <2>2 DEF IsHistory
    <3>2. g[id] = Merge(f[id])
      BY <1>2, <2>2, CountersNow DEF NewEntry
    <3> QED
      BY <2>1, <3>1, <3>2 DEF Merge
  <2>3. CASE id \notin DOMAIN f
    BY <1>2, <2>1, <2>3 DEF NewEntry
  <2> QED
    BY <2>2, <2>3
<1>6. IsHistory(ctxOf, g)
  BY <1>2, <1>3, <1>4, <1>5 DEF IsHistory
<1> QED
  BY <1>1, <1>6

LEMMA LoadKeepsCovers ==
  ASSUME NEW ctxOf, OneDepth(ctxOf), ItersRight(ctxOf), SameState,
         NEW f, IsHistory(ctxOf, f), NEW s, Covers(f, s),
         NEW instr \in Loads, Chain \in At[instr], CampID(instr) \in LoadIDs
  PROVE  /\ Covers(AfterLoad(f, CampID(instr)), s)
         /\ Covers(AfterLoad(f, CampID(instr)), AddLoad(s, CampID(instr)))
<1>1. PICK id, g, t : id = CampID(instr) /\ g = AfterLoad(f, id) /\ t = AddLoad(s, id)
  OBVIOUS
<1>2. /\ DOMAIN g = DOMAIN f \cup {id} /\ g[id] = NewEntry(f, id)
      /\ \A x \in DOMAIN f : x # id => g[x] = f[x]
  BY <1>1, AfterLoadFacts
<1>3. /\ DOMAIN t = DOMAIN s \cup {id}
      /\ t[id] = IF id \in DOMAIN s THEN Merge(s[id]) ELSE globalIterStack
      /\ \A x \in DOMAIN s : x # id => t[x] = s[x]
  BY <1>1 DEF AddLoad
<1>4. id \in LoadIDs /\ id[1] = currentCtx /\ id[2] = instr
  BY <1>1 DEF CampID
<1>5. ASSUME id \in DOMAIN s
      PROVE  /\ id \in DOMAIN f /\ g[id] = Merge(f[id])
             /\ f[id] \in [Levels -> Counters] /\ s[id] \in [Levels -> Counters]
             /\ \A i \in Levels : s[id][i] = f[id][i] \/ f[id][i] >= IterMod
  BY <1>2, <1>5, CountersNow DEF NewEntry, Covers, IsHistory
<1>6. Covers(g, s)
  <2>1. ASSUME NEW x \in DOMAIN s
        PROVE  /\ x \in DOMAIN g /\ s[x] \in [Levels -> Counters]
               /\ \A i \in Levels : s[x][i] = g[x][i] \/ g[x][i] >= IterMod
    <3>1. CASE x = id
      BY <1>2, <1>5, <3>1, MergeCovers
    <3>2. CASE x # id
      BY <1>2, <3>2 DEF Covers
    <3> QED
      BY <3>1, <3>2
  <2> QED
    BY <2>1 DEF Covers
<1>7. t[id] \in [Levels -> Counters]
      /\ \A i \in Levels : t[id][i] = g[id][i] \/ g[id][i] >= IterMod
  <2>1. CASE id \in DOMAIN s
    BY <1>3, <1>5, <2>1, MergeCovers, CountersNow
  <2>2. CASE id \notin DOMAIN s /\ id \notin DOMAIN f
    BY <1>2, <1>3, <2>2, CountersNow DEF NewEntry
  <2>3. CASE id \notin DOMAIN s /\ id \in DOMAIN f
    <3>1. /\ t[id] = globalIterStack /\ g[id] = Merge(f[id])
          /\ f[id] \in [Levels -> Counters] /\ globalIterStack \in [Levels -> Counters]
      BY <1>2, <1>3, <2>3, CountersNow DEF NewEntry, IsHistory
    <3>2. ASSUME NEW i \in Levels
          PROVE  globalIterStack[i] = Merge(f[id])[i] \/ Merge(f[id])[i] >= IterMod
      <4>1. CASE i \in CurLevels
        <5>1. globalIterStack[i] \in Nat /\ IterMod \in Nat
          BY <3>1, DependenceAssumption DEF Counters
        <5> QED
          BY <4>1, <5>1 DEF Merge
      <4>2. CASE i \notin CurLevels
        <5>1. i > globalIterStackIdx /\ i >= Len(Chain)
          <6>1. Len(Chain) = Len(nest)
            BY ChainFacts DEF Chain, ItersRight
          <6> QED
            BY <4>2, <6>1, SlotFacts
        <5>2. globalIterStack[i] = 0
          BY <5>1 DEF ItersRight
        <5>3. f[id][i] = 0
          BY <1>4, <2>3, <5>1 DEF IsHistory, ItersRight
        <5> QED
          BY <4>2, <5>2, <5>3 DEF Merge
      <4> QED
        BY <4>1, <4>2
    <3> QED
      BY <3>1, <3>2
  <2> QED
    BY <2>1, <2>2, <2>3
<1>8. Covers(g, t)
  <2>1. ASSUME NEW x \in DOMAIN t
        PROVE  /\ x \in DOMAIN g /\ t[x] \in [Levels -> Counters]
               /\ \A i \in Levels : t[x][i] = g[x][i] \/ g[x][i] >= IterMod
    <3>1. CASE x = id
      BY <1>2, <1>7, <3>1
    <3>2. CASE x # id
      BY <1>2, <1>3, <3>2 DEF Covers
    <3> QED
      BY <3>1, <3>2
  <2> QED
    BY <2>1 DEF Covers
<1> QED
  BY <1>1, <1>6, <1>8

-----------------------------------------------------------------------------
(***************************************************************************)
(* What the two tables get from one access.                                *)
(***************************************************************************)
\* The table without sampling loses nothing.
LEMMA InsertGrows ==
  ASSUME NEW fsrcs, NEW dst
  PROVE  \A p \in DOMAIN full.depTable :
           /\ p \in DOMAIN Full!insertDep(full, fsrcs, dst)
           /\ full.depTable[p] \subseteq Full!insertDep(full, fsrcs, dst)[p]
<1> DEFINE pairs == {<<src, dst>> : src \in DOMAIN fsrcs}
           bits(old) == {<<i, "intra">> : i \in {j \in Full!Open(full) :
                                                   Full!isIntra(old[j], full.globalIterStack[j])}}
                        \cup {<<i, "inter">> : i \in {j \in Full!Open(full) :
                                                   Full!isInter(old[j], full.globalIterStack[j])}}
           found(p) == IF p \in DOMAIN full.depTable THEN full.depTable[p] ELSE {}
<1>1. PICK table : table = [p \in pairs |-> found(p) \cup bits(fsrcs[p[1]])]
  OBVIOUS
<1>2. PICK result, deps : result = Full!insertDep(full, fsrcs, dst) /\ deps = full.depTable
  OBVIOUS
<1>3. result = Full!Over(table, deps)
  BY <1>1, <1>2, Zenon DEF Full!insertDep
<1>4. /\ DOMAIN result = DOMAIN table \cup DOMAIN deps
      /\ \A x \in DOMAIN table : result[x] = table[x]
      /\ \A x \in DOMAIN deps : x \notin DOMAIN table => result[x] = deps[x]
  BY <1>3 DEF Full!Over
<1>5. DOMAIN table = pairs /\ \A p \in pairs : found(p) \subseteq table[p]
  BY <1>1
<1>6. \A p \in DOMAIN deps : found(p) = deps[p]
  BY <1>2
<1> HIDE DEF pairs, bits, found
<1> QED
  BY <1>2, <1>4, <1>5, <1>6

\* The last store is the same for both.
LEMMA LastStoreAlike ==
  ASSUME SameState, NEW a
  PROVE  Full!StoreBefore(full, a) = LastStore(a)
BY DEF SameState, FullState, Full!StoreBefore, LastStore, Full!Nothing, Full!Entry, NoLoads

LEMMA LastStoreFacts ==
  ASSUME NEW a, storeElem[a].campID \in StoreIDs \cup {NoStore}
  PROVE  DOMAIN LastStore(a) \subseteq StoreIDs
BY DEF LastStore, NoLoads

\* A store finds a source for whatever sampling has one for.
LEMMA StoreSources ==
  ASSUME SameState, NEW ctxOf, ItersRight(ctxOf), NEW a,
         storeElem[a].campID \in StoreIDs \cup {NoStore},
         NEW f, IsHistory(ctxOf, f), NEW s, Covers(f, s)
  PROVE  /\ DOMAIN Full!Over(s, LastStore(a)) \subseteq DOMAIN Full!Over(f, LastStore(a))
         /\ \A id \in DOMAIN Full!Over(s, LastStore(a)) :
              IterRelation(Full!Over(s, LastStore(a))[id])
                \subseteq IterRelation(Full!Over(f, LastStore(a))[id])
<1>1. PICK last, small, large :
        /\ last = LastStore(a) /\ small = Full!Over(s, last) /\ large = Full!Over(f, last)
  OBVIOUS
<1>2. /\ DOMAIN small = DOMAIN s \cup DOMAIN last
      /\ \A x \in DOMAIN s : small[x] = s[x]
      /\ \A x \in DOMAIN last : x \notin DOMAIN s => small[x] = last[x]
  BY <1>1 DEF Full!Over
<1>3. /\ DOMAIN large = DOMAIN f \cup DOMAIN last
      /\ \A x \in DOMAIN f : large[x] = f[x]
      /\ \A x \in DOMAIN last : x \notin DOMAIN f => large[x] = last[x]
  BY <1>1 DEF Full!Over
<1>4. DOMAIN s \subseteq DOMAIN f /\ DOMAIN f \subseteq LoadIDs
  BY DEF Covers, IsHistory
<1>5. LoadIDs \cap StoreIDs = {}
  BY DependenceAssumption DEF LoadIDs, StoreIDs
<1>6. DOMAIN last \subseteq StoreIDs
  BY <1>1, LastStoreFacts
<1>7. CurLevels \subseteq Levels
  BY SlotFacts, DependenceAssumption DEF CurLevels, Levels
<1>8. ASSUME NEW x \in DOMAIN s
      PROVE  IterRelation(small[x]) \subseteq IterRelation(large[x])
  <2>1. PICK m, n : m = s[x] /\ n = f[x] /\ m = small[x] /\ n = large[x]
    BY <1>2, <1>3, <1>4
  <2>2. \A i \in CurLevels : m[i] = n[i] \/ n[i] >= IterMod
    BY <1>7, <2>1 DEF Covers
  <2>3. IterRelation(m) \subseteq IterRelation(n)
    BY <2>2, MixedCovers
  <2> QED
    BY <2>1, <2>3
<1>9. ASSUME NEW x \in DOMAIN last
      PROVE  small[x] = large[x]
  BY <1>2, <1>3, <1>4, <1>5, <1>6
<1> QED
  BY <1>1, <1>2, <1>3, <1>4, <1>8, <1>9

LEMMA ContextNow ==
  ASSUME NEW ctxOf, IsContextOf(ctxOf), ItersRight(ctxOf)
  PROVE  /\ \A instr \in Loads : CampID(instr) \in LoadIDs
         /\ \A instr \in Stores : CampID(instr) \in StoreIDs
<1>1. Chain \in Seq(Loops)
  BY ChainFacts DEF ItersRight, Chain
<1>2. currentCtx \in Contexts
  BY <1>1 DEF IsContextOf, ItersRight
<1> QED
  BY <1>2 DEF CampID, LoadIDs, StoreIDs

LEMMA ItersKept ==
  ASSUME NEW ctxOf, ItersRight(ctxOf), UNCHANGED iterVars, UNCHANGED nest
  PROVE  ItersRight(ctxOf)'
BY DEF ItersRight, iterVars, Chain

-----------------------------------------------------------------------------
\* What an access makes of the runtime without sampling.
LEMMA LoadAlike ==
  ASSUME SameState, NEW instr, NEW o, NEW a, LoadInstr(instr, o, a)
  PROVE  /\ SameState'
         /\ full'.loadMap = [full.loadMap EXCEPT ![a] = AfterLoad(full.loadMap[a], CampID(instr))]
         /\ full'.depTable = Full!insertDep(full, LastStore(a), CampID(instr))
<1>1. PICK id, loads, deps : id = CampID(instr) /\ loads = full.loadMap /\ deps = full.depTable
  OBVIOUS
<1>2. PICK table, more :
        /\ table = Full!insertDep(full, LastStore(a), id)
        /\ more = [loads EXCEPT ![a] = AfterLoad(loads[a], id)]
  OBVIOUS
<1>3. full = FullState(loads, deps)
  BY <1>1 DEF SameState
<1>4. id = <<full.currentCtx, instr>> /\ full.globalIterStack = globalIterStack
  BY <1>1, <1>3 DEF FullState, CampID
<1>5. full' = [full EXCEPT !.depTable = table, !.loadMap[a] = AfterLoad(full.loadMap[a], id)]
  <2>1. full' = Full!campLoadInstr(full, a, instr)
    BY DEF LoadInstr
  <2>2. Full!StoreBefore(full, a) = LastStore(a)
    BY LastStoreAlike
  <2>3. full' = [full EXCEPT !.depTable = Full!insertDep(full, LastStore(a), id),
                             !.loadMap[a] = Full!Over(Full!Entry(id, NewEntry(full.loadMap[a], id)), @)]
    BY <1>4, <2>1, <2>2, Zenon DEF Full!campLoadInstr, NewEntry
  <2> QED
    BY <1>2, <2>3 DEF AfterLoad
<1>6. full' = FullState(more, table)'
  <2>1. /\ UNCHANGED <<currentCtx, globalIterStack, globalIterStackIdx,
                       globalIterStackIdx_overflow, storeElem, mallocMap>>
    BY DEF LoadInstr, iterVars
  <2>2. full' = [full EXCEPT !.depTable = table, !.loadMap = more]
    BY <1>1, <1>2, <1>5
  <2>3. full' = FullState(more, table)
    BY <1>3, <2>2 DEF FullState
  <2> QED
    BY <2>1, <2>3 DEF FullState
<1>7. full'.loadMap = more /\ full'.depTable = table
  BY <1>6 DEF FullState
<1> QED
  BY <1>1, <1>2, <1>6, <1>7 DEF SameState

LEMMA StoreAlike ==
  ASSUME SameState, NEW instr, NEW o, NEW a, StoreInstr(instr, o, a)
  PROVE  /\ SameState'
         /\ full'.loadMap = [full.loadMap EXCEPT ![a] = NoLoads]
         /\ full'.depTable
              = Full!insertDep(full, Full!Over(full.loadMap[a], LastStore(a)), CampID(instr))
<1>1. PICK id, loads, deps : id = CampID(instr) /\ loads = full.loadMap /\ deps = full.depTable
  OBVIOUS
<1>2. PICK table, fewer, elem, stored :
        /\ table = Full!insertDep(full, Full!Over(loads[a], LastStore(a)), id)
        /\ fewer = [loads EXCEPT ![a] = NoLoads]
        /\ elem = [campID |-> id, iterStack |-> globalIterStack]
        /\ stored = [storeElem EXCEPT ![a] = elem]
  OBVIOUS
<1>3. full = FullState(loads, deps)
  BY <1>1 DEF SameState
<1>4. /\ id = <<full.currentCtx, instr>> /\ full.globalIterStack = globalIterStack
      /\ full.storeElem = storeElem
  BY <1>1, <1>3 DEF FullState, CampID
<1>5. full' = [full EXCEPT !.depTable = table, !.storeElem[a] = elem, !.loadMap[a] = NoLoads]
  <2>1. full' = Full!campStoreInstr(full, a, instr)
    BY DEF StoreInstr
  <2>2. Full!StoreBefore(full, a) = LastStore(a)
    BY LastStoreAlike
  <2>3. full' = [full EXCEPT
                   !.depTable = Full!insertDep(full, Full!Over(full.loadMap[a], LastStore(a)), id),
                   !.storeElem[a] = [campID |-> id, iterStack |-> globalIterStack],
                   !.loadMap[a] = Full!Nothing]
    BY <1>4, <2>1, <2>2, Zenon DEF Full!campStoreInstr
  <2>4. Full!Nothing = NoLoads
    BY DEF Full!Nothing, NoLoads
  <2> QED
    BY <1>1, <1>2, <2>3, <2>4
<1>6. full' = FullState(fewer, table)'
  <2>1. /\ UNCHANGED <<currentCtx, globalIterStack, globalIterStackIdx,
                       globalIterStackIdx_overflow, mallocMap>>
        /\ storeElem' = stored
    BY <1>1, <1>2 DEF StoreInstr, iterVars
  <2>2. full' = [full EXCEPT !.depTable = table, !.storeElem = stored, !.loadMap = fewer]
    BY <1>1, <1>2, <1>4, <1>5
  <2>3. full' = [currentCtx |-> currentCtx, globalIterStack |-> globalIterStack,
                 globalIterStackIdx |-> globalIterStackIdx,
                 globalIterStackIdx_overflow |-> globalIterStackIdx_overflow,
                 storeElem |-> stored, loadMap |-> fewer, depTable |-> table,
                 mallocMap |-> mallocMap]
    BY <1>3, <2>2 DEF FullState
  <2> QED
    BY <2>1, <2>3 DEF FullState
<1>7. full'.loadMap = fewer /\ full'.depTable = table
  BY <1>6 DEF FullState
<1> QED
  BY <1>1, <1>2, <1>6, <1>7 DEF SameState

LEMMA LoadKeepsDepInv ==
  ASSUME NEW ctxOf, IsContextOf(ctxOf), OneDepth(ctxOf), DepInv(ctxOf),
         NEW instr, NEW o, NEW a \in Addresses, LoadInstr(instr, o, a)
  PROVE  DepInv(ctxOf)'
<1>1. /\ ItersRight(ctxOf) /\ SameState /\ HistoryRight(ctxOf) /\ SamplingOnlyOmits
      /\ instr \in Loads /\ Chain \in At[instr]
  BY DEF DepInv, LoadInstr, CanAccess
<1>2. PICK id, loads, deps : id = CampID(instr) /\ loads = full.loadMap /\ deps = full.depTable
  OBVIOUS
<1>3. PICK table, more :
        /\ table = Full!insertDep(full, LastStore(a), id)
        /\ more = [loads EXCEPT ![a] = AfterLoad(loads[a], id)]
  OBVIOUS
<1>4. id \in LoadIDs
  BY <1>1, <1>2, ContextNow
<1>5. SameState' /\ full'.loadMap = more /\ full'.depTable = table
  BY <1>1, <1>2, <1>3, LoadAlike
<1>6. ItersRight(ctxOf)'
  BY <1>1, ItersKept DEF LoadInstr
<1>7. HistoryRight(ctxOf)'
  <2>1. /\ loads = [b \in Addresses |-> loads[b]]
        /\ loadMap = [b \in Addresses |-> loadMap[b]]
        /\ \A b \in Addresses : IsHistory(ctxOf, loads[b]) /\ Covers(loads[b], loadMap[b])
    BY <1>1, <1>2 DEF HistoryRight, PerByte
  <2>2. /\ more = [b \in Addresses |-> more[b]]
        /\ more[a] = AfterLoad(loads[a], id)
        /\ \A b \in Addresses : b # a => more[b] = loads[b]
    BY <1>3, <2>1
  <2>3. /\ IsHistory(ctxOf, AfterLoad(loads[a], id))
        /\ Covers(AfterLoad(loads[a], id), loadMap[a])
        /\ Covers(AfterLoad(loads[a], id), AddLoad(loadMap[a], id))
    BY <1>1, <1>2, <1>4, <2>1, LoadKeepsHistory, LoadKeepsCovers
  <2>4. /\ loadMap' = [b \in Addresses |-> loadMap'[b]]
        /\ loadMap'[a] = loadMap[a] \/ loadMap'[a] = AddLoad(loadMap[a], id)
        /\ \A b \in Addresses : b # a => loadMap'[b] = loadMap[b]
    BY <1>2, <2>1 DEF LoadInstr
  <2>5. ASSUME NEW b \in Addresses
        PROVE  IsHistory(ctxOf, more[b]) /\ Covers(more[b], loadMap'[b])
    BY <2>1, <2>2, <2>3, <2>4
  <2>6. UNCHANGED <<storeElem, mallocMap>>
    BY DEF LoadInstr
  <2> QED
    BY <1>1, <1>5, <2>2, <2>4, <2>5, <2>6 DEF HistoryRight, PerByte
<1>8. SamplingOnlyOmits'
  <2>1. CASE Recording
    <3>1. InsertDeps(LastStore(a), id)
      BY <1>2, <2>1 DEF LoadInstr
    <3>2. \A p \in DOMAIN depTable' : p \in DOMAIN table /\ depTable'[p] \subseteq table[p]
      BY <1>1, <1>3, <3>1, InsertKeeps
    <3> QED
      BY <1>5, <3>2 DEF SamplingOnlyOmits
  <2>2. CASE ~ Recording
    <3>1. depTable' = depTable
      BY <2>2 DEF LoadInstr
    <3>2. \A p \in DOMAIN deps : p \in DOMAIN table /\ deps[p] \subseteq table[p]
      BY <1>2, <1>3, InsertGrows
    <3> QED
      BY <1>1, <1>2, <1>5, <3>1, <3>2 DEF SamplingOnlyOmits
  <2> QED
    BY <2>1, <2>2
<1> QED
  BY <1>6, <1>5, <1>7, <1>8 DEF DepInv

LEMMA StoreKeepsDepInv ==
  ASSUME NEW ctxOf, IsContextOf(ctxOf), DepInv(ctxOf),
         NEW instr, NEW o, NEW a \in Addresses, StoreInstr(instr, o, a)
  PROVE  DepInv(ctxOf)'
<1>1. /\ ItersRight(ctxOf) /\ SameState /\ HistoryRight(ctxOf) /\ SamplingOnlyOmits
      /\ instr \in Stores
  BY DEF DepInv, StoreInstr
<1>2. PICK id, loads, deps : id = CampID(instr) /\ loads = full.loadMap /\ deps = full.depTable
  OBVIOUS
<1>3. PICK table, fewer :
        /\ table = Full!insertDep(full, Full!Over(loads[a], LastStore(a)), id)
        /\ fewer = [loads EXCEPT ![a] = NoLoads]
  OBVIOUS
<1>4. id \in StoreIDs
  BY <1>1, <1>2, ContextNow
<1>5. SameState' /\ full'.loadMap = fewer /\ full'.depTable = table
  BY <1>1, <1>2, <1>3, StoreAlike
<1>6. ItersRight(ctxOf)'
  BY <1>1, ItersKept DEF StoreInstr
<1>7. HistoryRight(ctxOf)'
  <2>1. /\ loads = [b \in Addresses |-> loads[b]]
        /\ loadMap = [b \in Addresses |-> loadMap[b]]
        /\ storeElem = [b \in Addresses |-> storeElem[b]]
        /\ \A b \in Addresses : /\ storeElem[b].campID \in StoreIDs \cup {NoStore}
                                /\ IsHistory(ctxOf, loads[b]) /\ Covers(loads[b], loadMap[b])
    BY <1>1, <1>2 DEF HistoryRight, PerByte
  <2>2. /\ fewer = [b \in Addresses |-> fewer[b]] /\ fewer[a] = NoLoads
        /\ \A b \in Addresses : b # a => fewer[b] = loads[b]
    BY <1>3, <2>1
  <2>3. /\ storeElem' = [b \in Addresses |-> storeElem'[b]]
        /\ storeElem'[a].campID = id
        /\ \A b \in Addresses : b # a => storeElem'[b] = storeElem[b]
    BY <1>2, <2>1 DEF StoreInstr
  <2>4. /\ loadMap' = [b \in Addresses |-> loadMap'[b]] /\ loadMap'[a] = NoLoads
        /\ \A b \in Addresses : b # a => loadMap'[b] = loadMap[b]
    BY <2>1 DEF StoreInstr
  <2>5. IsHistory(ctxOf, NoLoads) /\ Covers(NoLoads, NoLoads)
    BY DEF IsHistory, Covers, NoLoads
  <2>6. ASSUME NEW b \in Addresses
        PROVE  /\ storeElem'[b].campID \in StoreIDs \cup {NoStore}
               /\ IsHistory(ctxOf, fewer[b]) /\ Covers(fewer[b], loadMap'[b])
    BY <1>4, <2>1, <2>2, <2>3, <2>4, <2>5
  <2>7. mallocMap' = mallocMap
    BY DEF StoreInstr
  <2> QED
    BY <1>1, <1>5, <2>2, <2>3, <2>4, <2>6, <2>7 DEF HistoryRight, PerByte
<1>8. SamplingOnlyOmits'
  <2>1. CASE Recording
    <3>1. PICK srcs, fsrcs :
            srcs = Full!Over(loadMap[a], LastStore(a)) /\ fsrcs = Full!Over(loads[a], LastStore(a))
      OBVIOUS
    <3>2. InsertDeps(srcs, id)
      BY <1>2, <2>1, <3>1 DEF StoreInstr
    <3>3. /\ storeElem[a].campID \in StoreIDs \cup {NoStore}
          /\ IsHistory(ctxOf, loads[a]) /\ Covers(loads[a], loadMap[a])
      BY <1>1, <1>2 DEF HistoryRight, PerByte
    <3>4. /\ DOMAIN srcs \subseteq DOMAIN fsrcs
          /\ \A x \in DOMAIN srcs : IterRelation(srcs[x]) \subseteq IterRelation(fsrcs[x])
      BY <1>1, <3>1, <3>3, StoreSources
    <3>5. table = Full!insertDep(full, fsrcs, id)
      BY <1>3, <3>1
    <3>6. \A p \in DOMAIN depTable' : p \in DOMAIN table /\ depTable'[p] \subseteq table[p]
      BY <1>1, <3>2, <3>4, <3>5, InsertKeeps
    <3> QED
      BY <1>5, <3>6 DEF SamplingOnlyOmits
  <2>2. CASE ~ Recording
    <3>1. depTable' = depTable
      BY <2>2 DEF StoreInstr
    <3>2. \A p \in DOMAIN deps : p \in DOMAIN table /\ deps[p] \subseteq table[p]
      BY <1>2, <1>3, InsertGrows
    <3> QED
      BY <1>1, <1>2, <1>5, <3>1, <3>2 DEF SamplingOnlyOmits
  <2> QED
    BY <2>1, <2>2
<1> QED
  BY <1>6, <1>5, <1>7, <1>8 DEF DepInv

-----------------------------------------------------------------------------
(***************************************************************************)
(* Objects: both runtimes clear the same bytes.                            *)
(***************************************************************************)
\* What the hooks of objects may do to the elements and the recorded sizes.
Cleared(S) ==
  /\ ClearBytes(S)
  /\ mallocMap' = [a \in Addresses |-> mallocMap'[a]]
  /\ full'.loadMap = [a \in Addresses |-> IF a \in S THEN NoLoads ELSE full.loadMap[a]]
  /\ full'.depTable = full.depTable
  /\ SameState'
  /\ UNCHANGED <<iterVars, depTable, nest>>

LEMMA ClearedKeepsDepInv ==
  ASSUME NEW ctxOf, DepInv(ctxOf), NEW S, Cleared(S)
  PROVE  DepInv(ctxOf)'
<1>1. ItersRight(ctxOf) /\ HistoryRight(ctxOf) /\ SamplingOnlyOmits
  BY DEF DepInv
<1>2. ItersRight(ctxOf)'
  BY <1>1, ItersKept DEF Cleared
<1>3. SameState'
  BY DEF Cleared
<1>4. SamplingOnlyOmits'
  BY <1>1 DEF Cleared, SamplingOnlyOmits
<1>5. HistoryRight(ctxOf)'
  <2>1. PICK loads : loads = full'.loadMap
    OBVIOUS
  <2>2. /\ storeElem' = [a \in Addresses |-> IF a \in S THEN Untouched ELSE storeElem[a]]
        /\ loadMap' = [a \in Addresses |-> IF a \in S THEN NoLoads ELSE loadMap[a]]
        /\ loads = [a \in Addresses |-> IF a \in S THEN NoLoads ELSE full.loadMap[a]]
        /\ mallocMap' = [a \in Addresses |-> mallocMap'[a]]
    BY <2>1 DEF Cleared, ClearBytes
  <2>3. IsHistory(ctxOf, NoLoads) /\ Covers(NoLoads, NoLoads) /\ Untouched.campID = NoStore
    BY DEF IsHistory, Covers, NoLoads, Untouched
  <2>4. ASSUME NEW a \in Addresses
        PROVE  /\ storeElem'[a].campID \in StoreIDs \cup {NoStore}
               /\ IsHistory(ctxOf, loads[a]) /\ Covers(loads[a], loadMap'[a])
    BY <1>1, <2>2, <2>3 DEF HistoryRight, PerByte
  <2> QED
    BY <2>1, <2>2, <2>4 DEF HistoryRight, PerByte
<1> QED
  BY <1>2, <1>3, <1>4, <1>5 DEF DepInv

StateWith(elems, hist, deps, sizes) ==
  [currentCtx |-> currentCtx, globalIterStack |-> globalIterStack,
   globalIterStackIdx |-> globalIterStackIdx,
   globalIterStackIdx_overflow |-> globalIterStackIdx_overflow,
   storeElem |-> elems, loadMap |-> hist, depTable |-> deps, mallocMap |-> sizes]

\* After o's bytes are cleared.
ClearedElems(o) ==
  [a \in Addresses |-> IF a \in Bytes(o, mallocMap[o]) THEN Untouched ELSE storeElem[a]]
ClearedLoads(o) ==
  [a \in Addresses |-> IF a \in Bytes(o, mallocMap[o]) THEN NoLoads ELSE full.loadMap[a]]
FreedSizes(o) == [mallocMap EXCEPT ![o] = 0]

LEMMA FreeAlike ==
  ASSUME SameState, NEW o
  PROVE  Full!campFree(full, o)
           = StateWith(ClearedElems(o), ClearedLoads(o), full.depTable, FreedSizes(o))
<1>1. PICK loads, deps : loads = full.loadMap /\ deps = full.depTable
  OBVIOUS
<1>2. PICK elems, hist, sizes :
        elems = ClearedElems(o) /\ hist = ClearedLoads(o) /\ sizes = FreedSizes(o)
  OBVIOUS
<1>3. full = FullState(loads, deps)
  BY <1>1 DEF SameState
<1>4. full.mallocMap = mallocMap /\ full.storeElem = storeElem
  BY <1>3 DEF FullState
<1>5. Full!NewElem = Untouched /\ Full!Nothing = NoLoads
  BY DEF Full!NewElem, Untouched, Full!Nothing, NoLoads, Full!Zeros, ZeroStack, Full!Slots, Levels
<1>6. Full!cleared(full, o) = Bytes(o, mallocMap[o])
  BY <1>4 DEF Full!cleared, Bytes
<1>7. PICK freed : freed = Full!campFree(full, o)
  OBVIOUS
<1>8. freed = [full EXCEPT !.storeElem = elems, !.loadMap = hist, !.mallocMap = sizes]
  <2>1. freed = [full EXCEPT
                   !.storeElem = [a \in Addresses |-> IF a \in Bytes(o, mallocMap[o])
                                                      THEN Untouched ELSE @[a]],
                   !.loadMap = [a \in Addresses |-> IF a \in Bytes(o, mallocMap[o])
                                                    THEN NoLoads ELSE @[a]],
                   !.mallocMap[o] = 0]
    BY <1>5, <1>6, <1>7, Zenon DEF Full!campFree
  <2> QED
    BY <1>2, <1>4, <2>1 DEF ClearedElems, ClearedLoads, FreedSizes
<1>9. freed = StateWith(elems, hist, deps, sizes)
  BY <1>3, <1>8 DEF FullState, StateWith
<1> QED
  BY <1>1, <1>2, <1>7, <1>9

\* The program keeps its loops and the runtimes their counters and tables.
LEMMA MallocClears ==
  ASSUME SameState, PerByte, NEW o, NEW size,
         Malloc(o, size) \/ \E n, num : size = n * num /\ Calloc(o, n, num)
  PROVE  Cleared({})
<1>1. /\ mallocMap' = [mallocMap EXCEPT ![o] = size]
      /\ full' = [full EXCEPT !.mallocMap[o] = size]
      /\ UNCHANGED <<iterVars, storeElem, loadMap, depTable, nest>>
  BY DEF Malloc, Calloc, Allocated, Full!campMalloc, Full!campCalloc
<1>2. PICK loads, deps : loads = full.loadMap /\ deps = full.depTable
  OBVIOUS
<1>3. full = FullState(loads, deps)
  BY <1>2 DEF SameState
<1>4. full' = FullState(loads, deps)'
  BY <1>1, <1>3 DEF FullState, iterVars
<1>5. full'.loadMap = loads /\ full'.depTable = deps /\ SameState'
  BY <1>4 DEF FullState, SameState
<1>6. /\ storeElem = [a \in Addresses |-> storeElem[a]]
      /\ loadMap = [a \in Addresses |-> loadMap[a]]
      /\ loads = [a \in Addresses |-> loads[a]]
      /\ mallocMap = [a \in Addresses |-> mallocMap[a]]
  BY <1>2 DEF PerByte
<1>7. mallocMap' = [a \in Addresses |-> mallocMap'[a]]
  BY <1>1, <1>6
<1> QED
  BY <1>1, <1>2, <1>5, <1>6, <1>7 DEF Cleared, ClearBytes

LEMMA FreeClears ==
  ASSUME SameState, PerByte, NEW o, Free(o)
  PROVE  Cleared(Bytes(o, mallocMap[o]))
<1>1. PICK elems, hist, sizes, deps, freed :
        /\ elems = ClearedElems(o) /\ hist = ClearedLoads(o) /\ sizes = FreedSizes(o)
        /\ deps = full.depTable
        /\ freed = Full!campFree(full, o)
  OBVIOUS
<1>2. /\ storeElem' = elems /\ mallocMap' = sizes
      /\ ClearBytes(Bytes(o, mallocMap[o]))
      /\ UNCHANGED <<iterVars, depTable, nest>>
  BY <1>1 DEF Free, Forget, ClearBytes, ClearedElems, FreedSizes
<1>3. freed = StateWith(elems, hist, deps, sizes)
  BY <1>1, FreeAlike
<1>4. full' = FullState(hist, deps)'
  <2>1. full' = freed
    BY <1>1 DEF Free
  <2> QED
    BY <1>2, <1>3, <2>1 DEF FullState, StateWith, iterVars
<1>5. full'.loadMap = hist /\ full'.depTable = deps /\ SameState'
  BY <1>4 DEF FullState, SameState
<1>6. mallocMap' = [a \in Addresses |-> mallocMap'[a]]
  BY <1>1, <1>2 DEF PerByte, FreedSizes
<1> QED
  BY <1>1, <1>2, <1>5, <1>6 DEF Cleared, ClearedLoads

LEMMA ReallocClears ==
  ASSUME SameState, PerByte, NEW o, NEW n, NEW size, Realloc(o, n, size)
  PROVE  Cleared(Bytes(o, mallocMap[o]))
<1>1. PICK elems, hist, sizes, deps, freed :
        /\ elems = ClearedElems(o) /\ hist = ClearedLoads(o) /\ sizes = FreedSizes(o)
        /\ deps = full.depTable
        /\ freed = Full!campFree(full, o)
  OBVIOUS
<1>2. /\ storeElem' = elems /\ mallocMap' = [sizes EXCEPT ![n] = size]
      /\ ClearBytes(Bytes(o, mallocMap[o]))
      /\ UNCHANGED <<iterVars, depTable, nest>>
  BY <1>1 DEF Realloc, Forget, ClearBytes, Allocated, ClearedElems, FreedSizes
<1>3. freed = StateWith(elems, hist, deps, sizes)
  BY <1>1, FreeAlike
<1>4. full' = [freed EXCEPT !.mallocMap[n] = size]
  BY <1>1 DEF Realloc, Full!campRealloc, Full!campMalloc
<1>5. full' = FullState(hist, deps)'
  BY <1>2, <1>3, <1>4 DEF FullState, StateWith, iterVars
<1>6. full'.loadMap = hist /\ full'.depTable = deps /\ SameState'
  BY <1>5 DEF FullState, SameState
<1>7. mallocMap' = [a \in Addresses |-> mallocMap'[a]]
  BY <1>1, <1>2 DEF PerByte, FreedSizes
<1> QED
  BY <1>1, <1>2, <1>6, <1>7 DEF Cleared, ClearedLoads

-----------------------------------------------------------------------------
(***************************************************************************)
(* The invariant.                                                          *)
(***************************************************************************)
LEMMA DepInvInit ==
  ASSUME NEW ctxOf, IsContextOf(ctxOf), Init
  PROVE  DepInv(ctxOf)
<1>1. ItersRight(ctxOf)
  <2>1. nest \in Seq(Frame) /\ Len(nest) = 0 /\ Chain = <<>>
    BY DEF Init, Chain, LoopsOf
  <2> QED
    BY <2>1, DependenceAssumption DEF Init, ItersRight, IsContextOf, SlotsRight, ZeroStack, Levels
<1>2. full = FullState([a \in Addresses |-> NoLoads], NoLoads)
  <2>1. Full!NewElem = Untouched /\ Full!Nothing = NoLoads /\ Full!Zeros = ZeroStack
    BY DEF Full!NewElem, Untouched, Full!Nothing, NoLoads, Full!Zeros, ZeroStack, Full!Slots, Levels
  <2> QED
    BY <2>1 DEF Init, Full!campInitialize, FullState
<1>3. /\ full.loadMap = [a \in Addresses |-> NoLoads] /\ full.depTable = NoLoads
      /\ SameState
  BY <1>2 DEF FullState, SameState
<1>4. IsHistory(ctxOf, NoLoads) /\ Covers(NoLoads, NoLoads) /\ Untouched.campID = NoStore
  BY DEF IsHistory, Covers, NoLoads, Untouched
<1>5. HistoryRight(ctxOf)
  BY <1>3, <1>4 DEF Init, HistoryRight, PerByte
<1>6. SamplingOnlyOmits
  BY DEF Init, SamplingOnlyOmits
<1> QED
  BY <1>1, <1>3, <1>5, <1>6 DEF DepInv

LEMMA DepInvStep ==
  ASSUME NEW ctxOf, IsContextOf(ctxOf), OneDepth(ctxOf), DepInv(ctxOf), [Next]_vars
  PROVE  DepInv(ctxOf)'
<1>1. ASSUME NEW l \in Loops, LoopBegin(l)
      PROVE  DepInv(ctxOf)'
  BY <1>1, LoopBeginAlike, LoopBeginIters, HistoryKept DEF DepInv, HistoryStays
<1>2. CASE LoopNext
  BY <1>2, LoopNextAlike, LoopNextIters, HistoryKept DEF DepInv, HistoryStays
<1>3. CASE LoopEnd
  BY <1>3, LoopEndAlike, LoopEndIters, HistoryKept DEF DepInv, HistoryStays
<1>4. ASSUME NEW instr, NEW o, NEW a \in Addresses, LoadInstr(instr, o, a)
      PROVE  DepInv(ctxOf)'
  BY <1>4, LoadKeepsDepInv
<1>5. ASSUME NEW instr, NEW o, NEW a \in Addresses, StoreInstr(instr, o, a)
      PROVE  DepInv(ctxOf)'
  BY <1>5, StoreKeepsDepInv
<1>6. ASSUME NEW o, NEW size, Malloc(o, size)
      PROVE  DepInv(ctxOf)'
  BY <1>6, MallocClears, ClearedKeepsDepInv DEF DepInv, HistoryRight
<1>7. ASSUME NEW o, NEW size, NEW num, Calloc(o, size, num)
      PROVE  DepInv(ctxOf)'
  <2>1. PICK bytes : bytes = size * num
    OBVIOUS
  <2>2. Cleared({})
    BY <1>7, <2>1, MallocClears DEF DepInv, HistoryRight
  <2> QED
    BY <2>2, ClearedKeepsDepInv
<1>8. ASSUME NEW o, NEW n, NEW size, Realloc(o, n, size)
      PROVE  DepInv(ctxOf)'
  BY <1>8, ReallocClears, ClearedKeepsDepInv DEF DepInv, HistoryRight
<1>9. ASSUME NEW o, Free(o)
      PROVE  DepInv(ctxOf)'
  BY <1>9, FreeClears, ClearedKeepsDepInv DEF DepInv, HistoryRight
<1>10. CASE UNCHANGED vars
  BY <1>10 DEF vars, iterVars, shadowVars, DepInv, ItersRight, SameState, FullState,
     HistoryRight, PerByte, SamplingOnlyOmits, Chain
<1> QED
  BY <1>1, <1>2, <1>3, <1>4, <1>5, <1>6, <1>7, <1>8, <1>9, <1>10 DEF Next

(***************************************************************************)
(* Sampling only omits: if contexts are the sums of local ids the pass     *)
(* gives out, and no load has one context at two loop depths, then every   *)
(* dependence and every bit that campSampling's runtime records, camp's    *)
(* runtime records for the same accesses.                                  *)
(***************************************************************************)
THEOREM SamplingOmits ==
  ASSUME NEW CONSTANT ctxOf, IsContextOf(ctxOf), OneDepth(ctxOf)
  PROVE  Spec => []SamplingOnlyOmits
<1>1. Init => DepInv(ctxOf)
  BY DepInvInit
<1>2. DepInv(ctxOf) /\ [Next]_vars => DepInv(ctxOf)'
  BY DepInvStep
<1>3. DepInv(ctxOf) => SamplingOnlyOmits
  BY DEF DepInv
<1> QED
  BY <1>1, <1>2, <1>3, PTL DEF Spec

-----------------------------------------------------------------------------
(***************************************************************************)
(* What camp and campSampling record against what the program did: every   *)
(* dependence is recorded, nothing else is, and the first iterations of    *)
(* loops are recorded with sampling too, for every program, every number   *)
(* of bytes and objects, and every sampling period.                        *)
(*                                                                         *)
(* The argument relates the shadow elements to the log of the accesses.    *)
(* An access is current if its object has not been freed and no store has  *)
(* come since to its byte: the accesses a dependence can still start from. *)
(* The element of a byte holds its current accesses and no others, and the *)
(* counters of an entry are those of all accesses it stands for, or are    *)
(* marked as mixed because two of these differ.                            *)
(*                                                                         *)
(* It takes that the loops fit the slots: iterations of a loop without a   *)
(* slot are counted in the last one.  That nothing else is recorded takes  *)
(* that a CampID tells in which loops the access is, as it does unless the *)
(* local ids of two nests around one instruction have the same sum.        *)
(***************************************************************************)
\* Every loop has a slot of the stack of counters.
FitsStack == \A c \in LoopPaths : Len(c) <= STK_MAX_SIZE

-----------------------------------------------------------------------------
(***************************************************************************)
(* The inductive invariant.                                                *)
(***************************************************************************)
\* The counters are the program's, and only levels in late iterations sample.
LoopsRight ==
  /\ nest \in Seq(Frame) /\ Len(nest) <= STK_MAX_SIZE
  /\ globalIterStackIdx = Len(nest) - 1 /\ globalIterStackIdx_overflow = -1
  /\ globalIterStack \in [Levels -> 0 .. IterMod - 1]
  /\ \A i \in Levels : i < Len(nest) => globalIterStack[i] = nest[i + 1].count % IterMod
  /\ \A i \in sampling :
       i \in Levels /\ i < Len(nest) /\ nest[i + 1].count > SAMPLING_THRESHOLD
  /\ currentCtx \in Contexts

\* The malloc map has the sizes of the objects there are, and these are apart.
Placed(objs, map) ==
  /\ objs \in [Addresses -> [size : Int, serial : Nat]]
  /\ map = [o \in Addresses |-> objs[o].size]
  /\ \A o \in Addresses : objs[o].serial <= allocations
  /\ \A o, p, b \in Addresses :
       b \in Bytes(o, objs[o].size) /\ b \in Bytes(p, objs[p].size) => o = p

ObjectsRight == allocations \in Nat /\ Placed(objects, mallocMap)

Logged == [id : CampIDs, object : Nat, addr : Addresses, nest : Seq(Frame)]

LogRight ==
  /\ accesses \in Seq(Logged)
  /\ \A k \in DOMAIN accesses : accesses[k].object <= allocations

TablesRight ==
  /\ SameState /\ PerByte
  /\ \A a \in Addresses :
       /\ storeElem[a].campID \in StoreIDs \cup {NoStore}
       /\ \A id \in DOMAIN full.loadMap[a] :
            id \in LoadIDs /\ full.loadMap[a][id] \in [Levels -> Counters]

Alive(k) ==
  \E o \in Addresses : /\ objects[o].serial = accesses[k].object
                       /\ accesses[k].addr \in Bytes(o, objects[o].size)

\* A later access of the byte depends on k unless both are loads.
Current(k) ==
  /\ k \in DOMAIN accesses /\ Alive(k)
  /\ \A j \in k + 1 .. Len(accesses) : ~ (IsStore(j) /\ SameByte(k, j))

LevelsOf(k)   == {i \in Levels : i < Len(accesses[k].nest)}
CountAt(k, i) == accesses[k].nest[i + 1].count % IterMod

StoreKnown(k) ==
  /\ storeElem[accesses[k].addr].campID = accesses[k].id
  /\ \A i \in LevelsOf(k) : storeElem[accesses[k].addr].iterStack[i] = CountAt(k, i)

\* Counters that stand for access k.
StandsFor(old, k) == \A i \in LevelsOf(k) : old[i] = CountAt(k, i) \/ old[i] >= IterMod

LoadKnown(k) ==
  /\ accesses[k].id \in DOMAIN full.loadMap[accesses[k].addr]
  /\ StandsFor(full.loadMap[accesses[k].addr][accesses[k].id], k)

LogInHistory ==
  \A k \in DOMAIN accesses :
    Current(k) => (IsStore(k) => StoreKnown(k)) /\ (~ IsStore(k) => LoadKnown(k))

\* The history with sampling has the loads of first iterations.
EarlyInHistory ==
  \A k \in DOMAIN accesses :
    Current(k) /\ Early(k) /\ ~ IsStore(k) => accesses[k].id \in DOMAIN loadMap[accesses[k].addr]

LogInv ==
  /\ LoopsRight /\ ObjectsRight /\ LogRight /\ TablesRight
  /\ LogInHistory /\ EarlyInHistory
  /\ EveryDependenceRecorded /\ FirstIterationsComplete

-----------------------------------------------------------------------------
(***************************************************************************)
(* Loops.                                                                  *)
(***************************************************************************)
LEMMA LoopsRightFacts ==
  ASSUME LoopsRight
  PROVE  /\ nest \in Seq(Frame) /\ Len(nest) \in Nat /\ Len(nest) <= STK_MAX_SIZE
         /\ globalIterStackIdx = Len(nest) - 1 /\ globalIterStackIdx_overflow = -1
         /\ globalIterStack \in [Levels -> 0 .. IterMod - 1]
         /\ IterMod \in Nat \ {0} /\ STK_MAX_SIZE \in Nat \ {0} /\ 0 \in 0 .. IterMod - 1
         /\ currentCtx \in 0 .. CtxMod - 1 /\ CtxMod \in Nat \ {0}
BY DependenceAssumption DEF LoopsRight, Contexts

LEMMA LoopBeginRight ==
  ASSUME FitsStack, LoopsRight, NEW l \in Loops, LoopBegin(l)
  PROVE  LoopsRight'
<1>1. [loop |-> l, count |-> 0] \in Frame /\ nest \in Seq(Frame)
  BY DEF Frame, LoopsRight
<1>2. PICK fr : fr = [loop |-> l, count |-> 0] /\ fr \in Frame /\ fr.count = 0
  BY <1>1
<1>3. /\ nest' = Append(nest, fr)
      /\ nest' \in Seq(Frame) /\ Len(nest') = Len(nest) + 1 /\ Len(nest) \in Nat
      /\ \A i \in 1 .. Len(nest) : nest'[i] = nest[i]
      /\ nest'[Len(nest) + 1] = fr
  BY <1>1, <1>2 DEF LoopBegin
<1>4. Len(nest) < STK_MAX_SIZE /\ STK_MAX_SIZE \in Nat \ {0} /\ IterMod \in Nat \ {0}
  <2>1. Append(Chain, l) \in LoopPaths /\ Len(Append(Chain, l)) <= STK_MAX_SIZE
    BY DEF LoopBegin, FitsStack
  <2>2. Chain \in Seq(Loops) /\ Len(Chain) = Len(nest)
    BY <1>1, ChainFacts DEF Chain
  <2> QED
    BY <1>3, <2>1, <2>2, DependenceAssumption
<1>5. /\ globalIterStackIdx' = globalIterStackIdx + 1
      /\ globalIterStack' = [globalIterStack EXCEPT ![globalIterStackIdx + 1] = 0]
      /\ sampling' = sampling \ {globalIterStackIdx + 1}
      /\ globalIterStackIdx_overflow' = globalIterStackIdx_overflow
      /\ currentCtx' = (currentCtx + LocID[l]) % CtxMod
  <2>1. ~ (globalIterStackIdx >= STK_MAX_SIZE - 1)
    BY <1>3, <1>4 DEF LoopsRight
  <2> QED
    BY <2>1, Zenon DEF LoopBegin
<1>6. globalIterStackIdx + 1 = Len(nest) /\ Len(nest) \in Levels
  BY <1>3, <1>4 DEF LoopsRight, Levels
<1>7. globalIterStack' \in [Levels -> 0 .. IterMod - 1]
  BY <1>5, LoopsRightFacts
<1>8. ASSUME NEW i \in Levels, i < Len(nest')
      PROVE  globalIterStack'[i] = nest'[i + 1].count % IterMod
  <2>1. CASE i = Len(nest)
    <3>1. globalIterStack'[i] = 0 /\ nest'[i + 1].count = 0 /\ 0 % IterMod = 0
      BY <1>2, <1>3, <1>4, <1>5, <1>6, <2>1 DEF LoopsRight
    <3> QED
      BY <3>1
  <2>2. CASE i # Len(nest)
    <3>1. i < Len(nest) /\ i + 1 \in 1 .. Len(nest)
      BY <1>3, <1>8, <2>2 DEF Levels
    <3> QED
      BY <1>3, <1>5, <1>6, <2>2, <3>1 DEF LoopsRight
  <2> QED
    BY <2>1, <2>2
<1>9. ASSUME NEW i \in sampling'
      PROVE  i \in Levels /\ i < Len(nest') /\ nest'[i + 1].count > SAMPLING_THRESHOLD
  <2>1. i \in sampling /\ i \in Levels /\ i < Len(nest) /\ nest[i + 1].count > SAMPLING_THRESHOLD
    BY <1>5, <1>9 DEF LoopsRight
  <2>2. i + 1 \in 1 .. Len(nest)
    BY <1>3, <2>1 DEF Levels
  <2> QED
    BY <1>3, <2>1, <2>2 DEF Levels
<1>10. currentCtx' \in Contexts
  <2>1. currentCtx + LocID[l] \in Int
    BY LoopsRightFacts, DependenceAssumption
  <2> QED
    BY <1>5, <2>1, LoopsRightFacts, ModDiv DEF Contexts
<1>11. Len(nest') <= STK_MAX_SIZE /\ globalIterStackIdx' = Len(nest') - 1
  BY <1>3, <1>4, <1>5, <1>6
<1>12. globalIterStackIdx_overflow' = -1
  BY <1>5, LoopsRightFacts
<1> QED
  BY <1>3, <1>7, <1>8, <1>9, <1>10, <1>11, <1>12 DEF LoopsRight

LEMMA LoopNextRight ==
  ASSUME LoopsRight, LoopNext
  PROVE  LoopsRight'
<1>1. PICK n, d : n = Len(nest) /\ d = nest
  OBVIOUS
<1>2. /\ d \in Seq(Frame) /\ n = Len(d) /\ n \in Nat \ {0}
      /\ DOMAIN d = 1 .. n /\ \A i \in 1 .. n : d[i] \in Frame
      /\ nest' = [d EXCEPT ![n].count = @ + 1]
  BY <1>1 DEF LoopsRight, LoopNext
<1>3. /\ DOMAIN nest' = 1 .. n
      /\ \A i \in 1 .. n : nest'[i] \in Frame /\ d[i].count \in Nat
      /\ \A i \in 1 .. n : i # n => nest'[i].count = d[i].count
      /\ nest'[n].count = d[n].count + 1
  BY <1>2 DEF Frame
<1>4. nest' \in Seq(Frame) /\ Len(nest') = n
  <2>1. nest' = [i \in 1 .. n |-> nest'[i]]
    BY <1>2
  <2> QED
    BY <1>2, <1>3, <2>1
<1>5. PICK c : c = d[n].count /\ c \in Nat
  BY <1>2, <1>3
<1>6. PICK i : i = n - 1 /\ i = globalIterStackIdx /\ i \in Levels /\ i + 1 = n
  BY <1>1, <1>2, LoopsRightFacts DEF Levels
<1>7. IterMod \in Nat \ {0} /\ SAMPLING_THRESHOLD \in Nat /\ n <= STK_MAX_SIZE
  BY <1>1, DependenceAssumption DEF LoopsRight
<1>8. PICK next : /\ next = (c + 1) % IterMod /\ next \in 0 .. IterMod - 1 /\ next <= c + 1
                  /\ NextCount(globalIterStack[i]) = next
  <2>1. globalIterStack[i] = c % IterMod
    BY <1>1, <1>2, <1>5, <1>6 DEF LoopsRight
  <2>2. ((c % IterMod) + 1) % IterMod = (c + 1) % IterMod
    BY <1>5, <1>7
  <2>3. (c + 1) % IterMod \in 0 .. IterMod - 1 /\ (c + 1) % IterMod <= c + 1
    BY <1>5, <1>7
  <2> QED
    BY <2>1, <2>2, <2>3 DEF NextCount
<1>9. /\ globalIterStack' = [globalIterStack EXCEPT ![i] = next]
      /\ sampling' = IF sampling = {} /\ next > SAMPLING_THRESHOLD THEN {i} ELSE sampling
      /\ globalIterStackIdx' = globalIterStackIdx
      /\ globalIterStackIdx_overflow' = globalIterStackIdx_overflow
      /\ currentCtx' = currentCtx
  BY <1>6, <1>8 DEF LoopNext
<1>10. globalIterStack' \in [Levels -> 0 .. IterMod - 1]
  BY <1>8, <1>9 DEF LoopsRight
<1>11. ASSUME NEW j \in Levels, j < n
       PROVE  globalIterStack'[j] = nest'[j + 1].count % IterMod
  <2>1. CASE j = i
    BY <1>3, <1>5, <1>6, <1>8, <1>9, <2>1 DEF LoopsRight
  <2>2. CASE j # i
    <3>1. j + 1 \in 1 .. n /\ j + 1 # n
      BY <1>2, <1>6, <1>11, <2>2 DEF Levels
    <3>2. globalIterStack'[j] = globalIterStack[j] /\ nest'[j + 1].count = d[j + 1].count
      BY <1>3, <1>9, <2>2, <3>1
    <3> QED
      BY <1>1, <1>11, <3>2 DEF LoopsRight
  <2> QED
    BY <2>1, <2>2
<1>12. ASSUME NEW j \in sampling'
       PROVE  j \in Levels /\ j < n /\ nest'[j + 1].count > SAMPLING_THRESHOLD
  <2>1. CASE j \in sampling
    <3>1. j \in Levels /\ j < n /\ d[j + 1].count > SAMPLING_THRESHOLD /\ j + 1 \in 1 .. n
      BY <1>1, <1>2, <2>1 DEF LoopsRight, Levels
    <3>2. CASE j + 1 = n
      BY <1>3, <1>5, <1>7, <3>1, <3>2
    <3>3. CASE j + 1 # n
      BY <1>3, <3>1, <3>3
    <3> QED
      BY <3>1, <3>2, <3>3
  <2>2. CASE j \notin sampling
    <3>1. j = i /\ next > SAMPLING_THRESHOLD
      BY <1>9, <1>12, <2>2
    <3> QED
      BY <1>2, <1>3, <1>5, <1>6, <1>7, <1>8, <3>1
  <2> QED
    BY <2>1, <2>2
<1> QED
  BY <1>1, <1>4, <1>7, <1>9, <1>10, <1>11, <1>12 DEF LoopsRight

LEMMA LoopEndRight ==
  ASSUME LoopsRight, LoopEnd
  PROVE  LoopsRight'
<1>1. /\ nest \in Seq(Frame) /\ nest # <<>> /\ Len(nest) \in Nat \ {0}
      /\ IterMod \in Nat \ {0} /\ STK_MAX_SIZE \in Nat \ {0}
  BY DependenceAssumption DEF LoopsRight, LoopEnd
<1>2. /\ nest' \in Seq(Frame) /\ Len(nest') = Len(nest) - 1
      /\ \A i \in 1 .. Len(nest) - 1 : nest'[i] = nest[i]
  BY <1>1, ChainOfFront DEF LoopEnd
<1>3. /\ globalIterStack' = [globalIterStack EXCEPT ![globalIterStackIdx] = 0]
      /\ sampling' = sampling \ {globalIterStackIdx}
      /\ globalIterStackIdx' = globalIterStackIdx - 1
      /\ globalIterStackIdx_overflow' = globalIterStackIdx_overflow
      /\ globalIterStackIdx = Len(nest) - 1
  BY DEF LoopEnd, LoopsRight
<1>4. globalIterStack' \in [Levels -> 0 .. IterMod - 1]
  BY <1>3, LoopsRightFacts
<1>5. ASSUME NEW i \in Levels, i < Len(nest')
      PROVE  globalIterStack'[i] = nest'[i + 1].count % IterMod
  <2>1. i < Len(nest) /\ i + 1 \in 1 .. Len(nest) - 1 /\ i # globalIterStackIdx
    BY <1>1, <1>2, <1>3, <1>5 DEF Levels
  <2> QED
    BY <1>2, <1>3, <2>1 DEF LoopsRight
<1>6. ASSUME NEW i \in sampling'
      PROVE  i \in Levels /\ i < Len(nest') /\ nest'[i + 1].count > SAMPLING_THRESHOLD
  <2>1. /\ i \in Levels /\ i < Len(nest) /\ nest[i + 1].count > SAMPLING_THRESHOLD
        /\ i # Len(nest) - 1
    BY <1>3, <1>6 DEF LoopsRight
  <2>2. i < Len(nest) - 1 /\ i + 1 \in 1 .. Len(nest) - 1
    BY <1>1, <2>1 DEF Levels
  <2> QED
    BY <1>2, <2>1, <2>2
<1>7. currentCtx' \in Contexts
  <2>1. nest[Len(nest)].loop \in Loops
    BY <1>1, ChainOfFront
  <2> QED
    <3>1. currentCtx - LocID[nest[Len(nest)].loop] \in Int
      BY <2>1, LoopsRightFacts, DependenceAssumption
    <3>2. currentCtx' = (currentCtx - LocID[nest[Len(nest)].loop]) % CtxMod
      BY DEF LoopEnd
    <3> QED
      BY <3>1, <3>2, LoopsRightFacts, ModDiv DEF Contexts
<1> QED
  BY <1>1, <1>2, <1>3, <1>4, <1>5, <1>6, <1>7 DEF LoopsRight

\* Nothing but loops and counters changes.
LoopsOnly ==
  /\ UNCHANGED <<shadowVars, allocations, objects, accesses>>
  /\ SameState'
  /\ full'.loadMap = full.loadMap /\ full'.depTable = full.depTable

LEMMA LoopsOnlyKeeps ==
  ASSUME LogInv, LoopsOnly, LoopsRight'
  PROVE  LogInv'
<1>1. ObjectsRight' /\ LogRight'
  BY DEF LogInv, LoopsOnly, ObjectsRight, Placed, LogRight, shadowVars
<1>2. TablesRight'
  BY DEF LogInv, LoopsOnly, TablesRight, PerByte, shadowVars
<1>3. LogInHistory' /\ EarlyInHistory'
  BY DEF LogInv, LoopsOnly, shadowVars, LogInHistory, EarlyInHistory, Current, Alive, StoreKnown,
     LoadKnown, StandsFor, LevelsOf, CountAt, IsStore, SameByte, Early
<1>4. EveryDependenceRecorded' /\ FirstIterationsComplete'
  BY DEF LogInv, LoopsOnly, shadowVars, EveryDependenceRecorded, FirstIterationsComplete,
     Dependences, Depends, IdsOf, Relation, CommonLevels, IsStore, SameByte, Early
<1> QED
  BY <1>1, <1>2, <1>3, <1>4 DEF LogInv

-----------------------------------------------------------------------------
(***************************************************************************)
(* The tables after an access.                                             *)
(***************************************************************************)
\* The table has the sources' dependences with their bits, and what was there.
Inserted(deps, result, srcs, dst) ==
  /\ DOMAIN result = DOMAIN deps \cup {<<src, dst>> : src \in DOMAIN srcs}
  /\ \A src \in DOMAIN srcs : IterRelation(srcs[src]) \subseteq result[<<src, dst>>]
  /\ \A p \in DOMAIN deps : deps[p] \subseteq result[p]
  /\ \A src \in DOMAIN srcs : \A bit \in result[<<src, dst>>] :
       \/ <<src, dst>> \in DOMAIN deps /\ bit \in deps[<<src, dst>>]
       \/ bit \in IterRelation(srcs[src])
  /\ \A p \in DOMAIN deps : (\A src \in DOMAIN srcs : p # <<src, dst>>) => result[p] = deps[p]

LEMMA InsertFacts ==
  ASSUME SameState, NEW srcs, NEW dst, NEW result, result = Full!insertDep(full, srcs, dst)
  PROVE  Inserted(full.depTable, result, srcs, dst)
<1> DEFINE pairs == {<<src, dst>> : src \in DOMAIN srcs}
           new(p) == IterRelation(srcs[p[1]])
           old(p) == IF p \in DOMAIN full.depTable THEN full.depTable[p] ELSE {}
<1>1. /\ full.globalIterStack = globalIterStack
      /\ Full!Open(full) = CurLevels
  BY DEF SameState, FullState, Full!Open, CurLevels
<1>2. PICK table : table = [p \in pairs |-> old(p) \cup new(p)]
  OBVIOUS
<1>3. PICK deps : deps = full.depTable
  OBVIOUS
<1>4. result = Full!Over(table, deps)
  BY <1>1, <1>2, <1>3, Zenon DEF Full!insertDep, IterRelation, isIntra, isInter, Mixed,
     Full!isIntra, Full!isInter, Full!Merged
<1>5. DOMAIN table = pairs /\ \A p \in pairs : table[p] = old(p) \cup new(p)
  BY <1>2
<1>6. \A src \in DOMAIN srcs : <<src, dst>> \in pairs /\ new(<<src, dst>>) = IterRelation(srcs[src])
  OBVIOUS
<1>7. \A p \in pairs : \E src \in DOMAIN srcs : p = <<src, dst>>
  OBVIOUS
<1>8. \A p : (p \in DOMAIN deps => old(p) = deps[p]) /\ (p \notin DOMAIN deps => old(p) = {})
  BY <1>3
<1> HIDE DEF pairs, new, old
<1>9. /\ DOMAIN result = pairs \cup DOMAIN deps
      /\ \A p \in pairs : result[p] = old(p) \cup new(p)
      /\ \A p \in DOMAIN deps : p \notin pairs => result[p] = deps[p]
  <2>1. /\ DOMAIN result = DOMAIN table \cup DOMAIN deps
        /\ \A p \in DOMAIN table : result[p] = table[p]
        /\ \A p \in DOMAIN deps : p \notin DOMAIN table => result[p] = deps[p]
    BY <1>4 DEF Full!Over
  <2> QED
    BY <1>5, <2>1
<1>10. \A src \in DOMAIN srcs : IterRelation(srcs[src]) \subseteq result[<<src, dst>>]
  BY <1>9, <1>6
<1>11. \A p \in DOMAIN deps : deps[p] \subseteq result[p]
  BY <1>9, <1>8
<1>12. ASSUME NEW src \in DOMAIN srcs, NEW bit \in result[<<src, dst>>]
       PROVE  \/ <<src, dst>> \in DOMAIN deps /\ bit \in deps[<<src, dst>>]
              \/ bit \in IterRelation(srcs[src])
  BY <1>6, <1>8, <1>9, <1>12
<1>13. ASSUME NEW p \in DOMAIN deps, \A src \in DOMAIN srcs : p # <<src, dst>>
       PROVE  result[p] = deps[p]
  BY <1>7, <1>9, <1>13
<1> QED
  BY <1>3, <1>9, <1>10, <1>11, <1>12, <1>13 DEF pairs, Inserted

LEMMA InsertDepsFacts ==
  ASSUME NEW srcs, NEW dst, InsertDeps(srcs, dst)
  PROVE  DOMAIN depTable' = DOMAIN depTable \cup {<<src, dst>> : src \in DOMAIN srcs}
BY DEF InsertDeps

\* A counter of the source relates the iterations of an access it stands for.
LEMMA BitsOfIteration ==
  ASSUME LoopsRight, NEW old, NEW i \in Levels, i < Len(nest), NEW c \in Nat,
         old[i] = c % IterMod \/ old[i] >= IterMod
  PROVE  /\ c % IterMod = nest[i + 1].count % IterMod => <<i, "intra">> \in IterRelation(old)
         /\ c % IterMod # nest[i + 1].count % IterMod => <<i, "inter">> \in IterRelation(old)
<1>1. i \in CurLevels
  BY LoopsRightFacts DEF CurLevels, Levels
<1>2. PICK r, m : r = c % IterMod /\ m = globalIterStack[i] /\ m = nest[i + 1].count % IterMod
  BY DEF LoopsRight
<1>3. r \in 0 .. IterMod - 1 /\ m \in 0 .. IterMod - 1 /\ IterMod \in Nat \ {0}
  <2>1. IterMod \in Nat \ {0} /\ m \in 0 .. IterMod - 1
    BY <1>2, LoopsRightFacts
  <2>2. c % IterMod \in 0 .. IterMod - 1
    BY <2>1, ModDiv
  <2> QED
    BY <1>2, <2>1, <2>2, Zenon
<1>4. r % IterMod = r /\ m % IterMod = m
  BY <1>3
<1> QED
  BY <1>1, <1>2, <1>4 DEF IterRelation, isIntra, isInter, Mixed

-----------------------------------------------------------------------------
(***************************************************************************)
(* The log after an access.                                                *)
(***************************************************************************)
\* The program's part of the handlers of loads and stores.
Accessing(instr, o, a) ==
  /\ instr \in Loads \cup Stores
  /\ o \in Addresses /\ a \in Addresses /\ a \in Bytes(o, objects[o].size)
  /\ Accessed(instr, o, a)
  /\ UNCHANGED <<iterVars, mallocMap, nest, allocations, objects>>

LEMMA IdKinds ==
  ASSUME LoopsRight, NEW instr \in Loads \cup Stores
  PROVE  /\ CampID(instr) \in CampIDs
         /\ CampID(instr) \in StoreIDs <=> instr \in Stores
         /\ CampID(instr) \in LoadIDs <=> instr \in Loads
         /\ LoadIDs \cap StoreIDs = {}
BY DependenceAssumption DEF LoopsRight, CampID, CampIDs, LoadIDs, StoreIDs

LEMMA LogAppended ==
  ASSUME LoopsRight, ObjectsRight, LogRight, NEW instr, NEW o, NEW a, Accessing(instr, o, a),
         NEW n, n = Len(accesses) + 1
  PROVE  /\ n \in Nat \ {0} /\ DOMAIN accesses = 1 .. n - 1 /\ DOMAIN accesses' = 1 .. n
         /\ Len(accesses) = n - 1 /\ Len(accesses') = n
         /\ \A k \in DOMAIN accesses : accesses'[k] = accesses[k]
         /\ accesses'[n].id = CampID(instr) /\ accesses'[n].object = objects[o].serial
         /\ accesses'[n].addr = a /\ accesses'[n].nest = nest
         /\ LogRight'
<1>1. PICK e : e = [id |-> CampID(instr), object |-> objects[o].serial, addr |-> a, nest |-> nest]
  OBVIOUS
<1>2. e \in Logged /\ e.object <= allocations
  BY <1>1, IdKinds DEF Logged, Accessing, ObjectsRight, Placed, LoopsRight
<1>3. accesses' = Append(accesses, e) /\ accesses \in Seq(Logged) /\ allocations' = allocations
  BY <1>1 DEF Accessing, Accessed, LogRight
<1>4. /\ accesses' \in Seq(Logged)
      /\ n \in Nat \ {0} /\ DOMAIN accesses = 1 .. n - 1 /\ DOMAIN accesses' = 1 .. n
      /\ Len(accesses) = n - 1 /\ Len(accesses') = n
      /\ \A k \in DOMAIN accesses : accesses'[k] = accesses[k]
      /\ accesses'[n] = e
  BY <1>2, <1>3
<1>5. \A k \in DOMAIN accesses' : accesses'[k].object <= allocations'
  BY <1>2, <1>3, <1>4 DEF LogRight
<1> QED
  BY <1>1, <1>4, <1>5 DEF LogRight

\* The byte of a current access that is accessed again is in the same object.
LEMMA SameObject ==
  ASSUME ObjectsRight, NEW k, Alive(k), NEW o \in Addresses, NEW a \in Addresses,
         a \in Bytes(o, objects[o].size), accesses[k].addr = a
  PROVE  accesses[k].object = objects[o].serial
BY DEF ObjectsRight, Placed, Alive

LEMMA CurrentAfter ==
  ASSUME LoopsRight, ObjectsRight, LogRight, NEW instr, NEW o, NEW a, Accessing(instr, o, a),
         NEW n, n = Len(accesses) + 1
  PROVE  /\ \A k \in DOMAIN accesses :
              Current(k)' <=> Current(k) /\ (instr \in Stores => accesses[k].addr # a)
         /\ Current(n)'
<1>1. /\ n \in Nat \ {0} /\ DOMAIN accesses = 1 .. n - 1 /\ DOMAIN accesses' = 1 .. n
      /\ Len(accesses) = n - 1 /\ Len(accesses') = n
      /\ \A k \in DOMAIN accesses : accesses'[k] = accesses[k]
      /\ accesses'[n].id = CampID(instr) /\ accesses'[n].object = objects[o].serial
      /\ accesses'[n].addr = a
  BY LogAppended
<1>2. objects' = objects /\ o \in Addresses /\ a \in Addresses /\ a \in Bytes(o, objects[o].size)
  BY DEF Accessing
<1>3. IsStore(n)' <=> instr \in Stores
  BY <1>1, IdKinds DEF IsStore, Accessing
<1>4. \A k \in DOMAIN accesses : IsStore(k)' = IsStore(k) /\ Alive(k)' = Alive(k)
  BY <1>1, <1>2 DEF IsStore, Alive
<1>5. \A j, k \in DOMAIN accesses : SameByte(k, j)' = SameByte(k, j)
  BY <1>1 DEF SameByte
<1>6. ASSUME NEW k \in DOMAIN accesses
      PROVE  Current(k)' <=> Current(k) /\ (instr \in Stores => accesses[k].addr # a)
  <2>1. CASE ~ Alive(k)
    BY <1>4, <2>1 DEF Current
  <2>2. CASE Alive(k)
    <3>1. SameByte(k, n)' <=> accesses[k].addr = a
      BY <1>1, <1>2, <2>2, SameObject DEF SameByte
    <3>2. k + 1 .. n = (k + 1 .. n - 1) \cup {n}
      BY <1>1
    <3>3. (\A j \in k + 1 .. n : ~ (IsStore(j)' /\ SameByte(k, j)')) <=>
            /\ \A j \in k + 1 .. n - 1 : ~ (IsStore(j) /\ SameByte(k, j))
            /\ ~ (instr \in Stores /\ accesses[k].addr = a)
      <4>1. \A j \in k + 1 .. n - 1 : j \in DOMAIN accesses
        BY <1>1
      <4> QED
        BY <1>3, <1>4, <1>5, <3>1, <3>2, <4>1
    <3> QED
      BY <1>1, <1>4, <2>2, <3>3 DEF Current
  <2> QED
    BY <2>1, <2>2
<1>7. Current(n)'
  <2>1. Alive(n)'
    BY <1>1, <1>2 DEF Alive
  <2>2. n + 1 .. n = {}
    BY <1>1
  <2> QED
    BY <1>1, <2>1, <2>2 DEF Current
<1> QED
  BY <1>6, <1>7

\* An access depends on the current accesses of its byte.
LEMMA DependsAfter ==
  ASSUME LoopsRight, ObjectsRight, LogRight, NEW instr, NEW o, NEW a, Accessing(instr, o, a),
         NEW n, n = Len(accesses) + 1
  PROVE  /\ Dependences \subseteq Dependences'
         /\ \A k \in DOMAIN accesses :
              Current(k) /\ accesses[k].addr = a /\ (IsStore(k) \/ instr \in Stores) =>
                <<k, n>> \in Dependences'
         /\ \A d \in Dependences' :
              \/ d \in Dependences
              \/ /\ d[1] \in DOMAIN accesses /\ d[2] = n /\ Current(d[1])
                 /\ accesses[d[1]].addr = a /\ (IsStore(d[1]) \/ instr \in Stores)
<1>1. /\ n \in Nat \ {0} /\ DOMAIN accesses = 1 .. n - 1 /\ DOMAIN accesses' = 1 .. n
      /\ Len(accesses) = n - 1
      /\ \A k \in DOMAIN accesses : accesses'[k] = accesses[k]
      /\ accesses'[n].id = CampID(instr) /\ accesses'[n].object = objects[o].serial
      /\ accesses'[n].addr = a
  BY LogAppended
<1>2. o \in Addresses /\ a \in Addresses /\ a \in Bytes(o, objects[o].size)
  BY DEF Accessing
<1>3. IsStore(n)' <=> instr \in Stores
  BY <1>1, IdKinds DEF IsStore, Accessing
<1>4. \A k \in DOMAIN accesses : IsStore(k)' = IsStore(k)
  BY <1>1 DEF IsStore
<1>5. \A j, k \in DOMAIN accesses : SameByte(k, j)' = SameByte(k, j)
  BY <1>1 DEF SameByte
<1>6. ASSUME NEW k \in DOMAIN accesses, NEW m \in DOMAIN accesses
      PROVE  Depends(m, k)' <=> Depends(m, k)
  <2>1. \A j \in k + 1 .. m - 1 : j \in DOMAIN accesses
    BY <1>1
  <2>2. (\A j \in k + 1 .. m - 1 : ~ (IsStore(j)' /\ SameByte(k, j)')) <=>
        (\A j \in k + 1 .. m - 1 : ~ (IsStore(j) /\ SameByte(k, j)))
    BY <1>4, <1>5, <2>1
  <2> QED
    BY <1>4, <1>5, <2>2 DEF Depends
<1>7. ASSUME NEW k \in DOMAIN accesses
      PROVE  Depends(n, k)' <=>
               Current(k) /\ accesses[k].addr = a /\ (IsStore(k) \/ instr \in Stores)
  <2>1. SameByte(k, n)' <=> accesses[k].object = objects[o].serial /\ accesses[k].addr = a
    BY <1>1 DEF SameByte
  <2>2. Alive(k) /\ accesses[k].addr = a => accesses[k].object = objects[o].serial
    BY <1>2, SameObject
  <2>3. accesses[k].object = objects[o].serial /\ accesses[k].addr = a => Alive(k)
    BY <1>2 DEF Alive
  <2>4. (\A j \in k + 1 .. n - 1 : ~ (IsStore(j)' /\ SameByte(k, j)')) <=>
        (\A j \in k + 1 .. n - 1 : ~ (IsStore(j) /\ SameByte(k, j)))
    <3>1. \A j \in k + 1 .. n - 1 : j \in DOMAIN accesses
      BY <1>1
    <3> QED
      BY <1>4, <1>5, <3>1
  <2>5. k < n
    BY <1>1
  <2> QED
    BY <1>1, <1>3, <1>4, <2>1, <2>2, <2>3, <2>4, <2>5 DEF Depends, Current
<1>8. ASSUME NEW k \in DOMAIN accesses'
      PROVE  ~ Depends(k, n)'
  BY <1>1, <1>8 DEF Depends
<1>9. Dependences \subseteq Dependences'
  BY <1>1, <1>6 DEF Dependences
<1>10. ASSUME NEW k \in DOMAIN accesses,
              Current(k), accesses[k].addr = a, IsStore(k) \/ instr \in Stores
       PROVE  <<k, n>> \in Dependences'
  BY <1>1, <1>7, <1>10 DEF Dependences
<1>11. ASSUME NEW d \in Dependences'
       PROVE  \/ d \in Dependences
              \/ /\ d[1] \in DOMAIN accesses /\ d[2] = n /\ Current(d[1])
                 /\ accesses[d[1]].addr = a /\ (IsStore(d[1]) \/ instr \in Stores)
  <2>1. PICK k, m \in DOMAIN accesses' : d = <<k, m>> /\ Depends(m, k)'
    BY DEF Dependences
  <2>2. k # n
    BY <1>8, <2>1
  <2>3. k \in DOMAIN accesses
    BY <1>1, <2>2
  <2>4. CASE m = n
    BY <1>7, <2>1, <2>3, <2>4
  <2>5. CASE m # n
    <3>1. m \in DOMAIN accesses
      BY <1>1, <2>5
    <3> QED
      BY <1>6, <2>1, <2>3, <3>1 DEF Dependences
  <2> QED
    BY <2>4, <2>5
<1> QED
  BY <1>9, <1>10, <1>11

\* What was logged stays what it was.
LEMMA OldAccesses ==
  ASSUME LoopsRight, ObjectsRight, LogRight, NEW instr, NEW o, NEW a, Accessing(instr, o, a)
  PROVE  /\ \A k \in DOMAIN accesses :
              /\ k \in DOMAIN accesses' /\ accesses'[k] = accesses[k]
              /\ IsStore(k)' = IsStore(k) /\ Early(k)' = Early(k)
              /\ LevelsOf(k)' = LevelsOf(k)
              /\ \A i : CountAt(k, i)' = CountAt(k, i)
         /\ \A d \in Dependences :
              /\ d[1] \in DOMAIN accesses /\ d[2] \in DOMAIN accesses
              /\ IdsOf(d)' = IdsOf(d) /\ CommonLevels(d)' = CommonLevels(d)
              /\ Relation(d)' = Relation(d)
<1>1. \A k \in DOMAIN accesses : k \in DOMAIN accesses' /\ accesses'[k] = accesses[k]
  BY LogAppended
<1>2. ASSUME NEW k \in DOMAIN accesses
      PROVE  /\ IsStore(k)' = IsStore(k) /\ Early(k)' = Early(k)
             /\ LevelsOf(k)' = LevelsOf(k) /\ \A i : CountAt(k, i)' = CountAt(k, i)
  BY <1>1 DEF IsStore, Early, LevelsOf, CountAt
<1>3. ASSUME NEW d \in Dependences
      PROVE  /\ d[1] \in DOMAIN accesses /\ d[2] \in DOMAIN accesses
             /\ IdsOf(d)' = IdsOf(d) /\ CommonLevels(d)' = CommonLevels(d)
             /\ Relation(d)' = Relation(d)
  <2>1. d[1] \in DOMAIN accesses /\ d[2] \in DOMAIN accesses
    BY DEF Dependences
  <2>2. accesses'[d[1]] = accesses[d[1]] /\ accesses'[d[2]] = accesses[d[2]]
    BY <1>1, <2>1
  <2>3. CommonLevels(d)' = CommonLevels(d)
    BY <2>2 DEF CommonLevels
  <2> QED
    BY <2>1, <2>2, <2>3 DEF IdsOf, Relation
<1> QED
  BY <1>1, <1>2, <1>3

-----------------------------------------------------------------------------
(***************************************************************************)
(* What both kinds of access do to the properties.                         *)
(***************************************************************************)
LEMMA MergeStands ==
  ASSUME LoopsRight, SameState
  PROVE  /\ globalIterStack \in [Levels -> Counters]
         /\ \A old : Full!LoadAgain(full, old) = Merge(old)
         /\ \A old \in [Levels -> Counters] :
              /\ Merge(old) \in [Levels -> Counters]
              /\ \A i \in Levels :
                   /\ Merge(old)[i] = old[i] \/ Merge(old)[i] >= IterMod
                   /\ i \in CurLevels =>
                        Merge(old)[i] = globalIterStack[i] \/ Merge(old)[i] >= IterMod
<1>1. globalIterStack \in [Levels -> 0 .. IterMod - 1] /\ IterMod \in Nat \ {0}
  BY LoopsRightFacts
<1>2. /\ globalIterStack \in [Levels -> Counters]
      /\ \A i \in Levels : /\ globalIterStack[i] \in Counters
                           /\ globalIterStack[i] + IterMod \in Counters
                           /\ globalIterStack[i] + IterMod >= IterMod
  BY <1>1 DEF Counters
<1>3. ASSUME NEW old
      PROVE  Full!LoadAgain(full, old) = Merge(old)
  BY DEF SameState, FullState, Full!LoadAgain, Merge, Full!Open, CurLevels, Full!Slots, Levels
<1>4. ASSUME NEW old \in [Levels -> Counters]
      PROVE  Merge(old) \in [Levels -> Counters]
  BY <1>2 DEF Merge
<1>5. ASSUME NEW old, NEW i \in Levels
      PROVE  /\ Merge(old)[i] = old[i] \/ Merge(old)[i] >= IterMod
             /\ i \in CurLevels => Merge(old)[i] = globalIterStack[i] \/ Merge(old)[i] >= IterMod
  BY <1>2 DEF Merge
<1> QED
  BY <1>2, <1>3, <1>4, <1>5

\* Where counters stand for access k, the bits say how k's iterations relate.
LEMMA RelationRecorded ==
  ASSUME LoopsRight, ObjectsRight, LogRight, NEW instr, NEW o, NEW a, Accessing(instr, o, a),
         NEW n, n = Len(accesses) + 1, NEW k \in DOMAIN accesses, NEW old, StandsFor(old, k)
  PROVE  Relation(<<k, n>>)' \subseteq IterRelation(old)
<1>1. /\ accesses'[k] = accesses[k] /\ accesses'[n].nest = nest
      /\ accesses[k].nest \in Seq(Frame)
  <2>1. accesses[k] \in Logged
    BY DEF LogRight
  <2> QED
    BY <2>1, LogAppended DEF Logged
<1>2. PICK m : m = accesses[k].nest /\ m \in Seq(Frame)
  BY <1>1
<1>3. ASSUME NEW i \in CommonLevels(<<k, n>>)'
      PROVE  /\ i \in Levels /\ i < Len(nest) /\ m[i + 1].count \in Nat
             /\ old[i] = m[i + 1].count % IterMod \/ old[i] >= IterMod
  <2>1. i \in Levels /\ i < Len(m) /\ i < Len(nest)
    BY <1>1, <1>2 DEF CommonLevels
  <2>2. i + 1 \in 1 .. Len(m)
    BY <1>2, <2>1 DEF Levels
  <2>3. m[i + 1] \in Frame
    BY <1>2, <2>2
  <2>4. m[i + 1].count \in Nat
    BY <2>3 DEF Frame
  <2> QED
    BY <1>2, <2>1, <2>4 DEF StandsFor, LevelsOf, CountAt
<1>4. ASSUME NEW i \in CommonLevels(<<k, n>>)'
      PROVE  <<i, IF m[i + 1].count % IterMod = nest[i + 1].count % IterMod
                  THEN "intra" ELSE "inter">> \in IterRelation(old)
  BY <1>3, BitsOfIteration
<1>5. Relation(<<k, n>>)' = {<<i, IF m[i + 1].count % IterMod = nest[i + 1].count % IterMod
                                  THEN "intra" ELSE "inter">> : i \in CommonLevels(<<k, n>>)'}
  BY <1>1, <1>2 DEF Relation
<1> QED
  BY <1>4, <1>5

\* In first iterations nothing samples.
LEMMA EarlyRecords ==
  ASSUME LoopsRight, ObjectsRight, LogRight, NEW instr, NEW o, NEW a, Accessing(instr, o, a),
         NEW n, n = Len(accesses) + 1, Early(n)'
  PROVE  Recording
<1>1. accesses'[n].nest = nest
  BY LogAppended
<1>2. nest \in Seq(Frame) /\ SAMPLING_THRESHOLD \in Nat
  BY LoopsRightFacts, DependenceAssumption
<1>3. ASSUME NEW i \in sampling
      PROVE  FALSE
  <2>1. i \in Levels /\ i < Len(nest) /\ nest[i + 1].count > SAMPLING_THRESHOLD
    BY DEF LoopsRight
  <2>2. i + 1 \in DOMAIN nest
    BY <1>2, <2>1 DEF Levels
  <2>3. nest[i + 1].count <= SAMPLING_THRESHOLD
    BY <1>1, <2>2 DEF Early
  <2>4. nest[i + 1] \in Frame
    BY <1>2, <2>2
  <2>5. nest[i + 1].count \in Nat
    BY <2>4 DEF Frame
  <2> QED
    BY <1>2, <2>1, <2>3, <2>5
<1> QED
  BY <1>3 DEF Recording

\* All that remains to be shown of the tables: the current accesses of the byte.
LEMMA RecordedAfter ==
  ASSUME LogInv, NEW instr, NEW o, NEW a, Accessing(instr, o, a),
         NEW n, n = Len(accesses) + 1,
         NEW srcs, full'.depTable = Full!insertDep(full, srcs, CampID(instr)),
         \A k \in DOMAIN accesses :
           Current(k) /\ accesses[k].addr = a /\ (IsStore(k) \/ instr \in Stores) =>
             accesses[k].id \in DOMAIN srcs /\ StandsFor(srcs[accesses[k].id], k)
  PROVE  EveryDependenceRecorded'
<1>1. /\ LoopsRight /\ ObjectsRight /\ LogRight /\ SameState /\ EveryDependenceRecorded
  BY DEF LogInv, TablesRight
<1>2. PICK id, table : id = CampID(instr) /\ table = full'.depTable
  OBVIOUS
<1>3. /\ DOMAIN table = DOMAIN full.depTable \cup {<<src, id>> : src \in DOMAIN srcs}
      /\ \A src \in DOMAIN srcs : IterRelation(srcs[src]) \subseteq table[<<src, id>>]
      /\ \A p \in DOMAIN full.depTable : full.depTable[p] \subseteq table[p]
  <2>1. table = Full!insertDep(full, srcs, id)
    BY <1>2
  <2>2. Inserted(full.depTable, table, srcs, id)
    BY <1>1, <2>1, InsertFacts
  <2> QED
    BY <2>2 DEF Inserted
<1>4. ASSUME NEW d \in Dependences
      PROVE  IdsOf(d)' \in DOMAIN table /\ Relation(d)' \subseteq table[IdsOf(d)']
  <2>1. IdsOf(d)' = IdsOf(d) /\ Relation(d)' = Relation(d)
    BY <1>1, OldAccesses
  <2>2. IdsOf(d) \in DOMAIN full.depTable /\ Relation(d) \subseteq full.depTable[IdsOf(d)]
    BY <1>1 DEF EveryDependenceRecorded
  <2> QED
    BY <1>3, <2>1, <2>2
<1>5. ASSUME NEW k \in DOMAIN accesses,
             Current(k), accesses[k].addr = a, IsStore(k) \/ instr \in Stores
      PROVE  /\ IdsOf(<<k, n>>)' \in DOMAIN table
             /\ Relation(<<k, n>>)' \subseteq table[IdsOf(<<k, n>>)']
  <2>1. accesses[k].id \in DOMAIN srcs /\ StandsFor(srcs[accesses[k].id], k)
    BY <1>5
  <2>2. IdsOf(<<k, n>>)' = <<accesses[k].id, id>>
    <3>1. accesses'[n].id = id /\ accesses'[k] = accesses[k]
      BY <1>1, <1>2, LogAppended
    <3> QED
      BY <3>1 DEF IdsOf
  <2>3. Relation(<<k, n>>)' \subseteq IterRelation(srcs[accesses[k].id])
    BY <1>1, <2>1, RelationRecorded
  <2> QED
    BY <1>3, <2>1, <2>2, <2>3
<1>6. ASSUME NEW d \in Dependences'
      PROVE  IdsOf(d)' \in DOMAIN table /\ Relation(d)' \subseteq table[IdsOf(d)']
  <2>1. CASE d \in Dependences
    BY <1>4, <2>1
  <2>2. CASE d \notin Dependences
    <3>1. /\ d[1] \in DOMAIN accesses /\ d[2] = n /\ Current(d[1])
          /\ accesses[d[1]].addr = a /\ (IsStore(d[1]) \/ instr \in Stores)
      BY <1>1, <2>2, DependsAfter
    <3>2. PICK k \in DOMAIN accesses : d = <<k, n>>
      BY <3>1 DEF Dependences
    <3> QED
      BY <1>5, <3>1, <3>2
  <2> QED
    BY <2>1, <2>2
<1> QED
  BY <1>2, <1>6 DEF EveryDependenceRecorded

LEMMA FirstAfter ==
  ASSUME LogInv, NEW instr, NEW o, NEW a, Accessing(instr, o, a),
         NEW n, n = Len(accesses) + 1, NEW srcs,
         IF Recording THEN InsertDeps(srcs, CampID(instr)) ELSE UNCHANGED depTable,
         \A k \in DOMAIN accesses :
           Current(k) /\ Early(k) /\ accesses[k].addr = a /\ (IsStore(k) \/ instr \in Stores) =>
             accesses[k].id \in DOMAIN srcs
  PROVE  FirstIterationsComplete'
<1>1. /\ LoopsRight /\ ObjectsRight /\ LogRight /\ FirstIterationsComplete
  BY DEF LogInv
<1>2. PICK id : id = CampID(instr)
  OBVIOUS
<1>3. /\ DOMAIN depTable \subseteq DOMAIN depTable'
      /\ Recording => \A src \in DOMAIN srcs : <<src, id>> \in DOMAIN depTable'
  <2>1. CASE Recording
    <3>1. InsertDeps(srcs, id)
      BY <1>2, <2>1
    <3>2. DOMAIN depTable' = DOMAIN depTable \cup {<<src, id>> : src \in DOMAIN srcs}
      BY <3>1, InsertDepsFacts
    <3> QED
      BY <3>2
  <2>2. CASE ~ Recording
    BY <2>2
  <2> QED
    BY <2>1, <2>2
<1>4. ASSUME NEW d \in Dependences', Early(d[1])', Early(d[2])'
      PROVE  IdsOf(d)' \in DOMAIN depTable'
  <2>1. CASE d \in Dependences
    <3>1. /\ IdsOf(d)' = IdsOf(d) /\ Early(d[1])' = Early(d[1]) /\ Early(d[2])' = Early(d[2])
      BY <1>1, <2>1, OldAccesses
    <3>2. Early(d[1]) /\ Early(d[2])
      BY <1>4, <3>1
    <3> QED
      BY <1>1, <1>3, <2>1, <3>1, <3>2 DEF FirstIterationsComplete
  <2>2. CASE d \notin Dependences
    <3>1. /\ d[1] \in DOMAIN accesses /\ d[2] = n /\ Current(d[1])
          /\ accesses[d[1]].addr = a /\ (IsStore(d[1]) \/ instr \in Stores)
      BY <1>1, <2>2, DependsAfter
    <3>2. PICK k \in DOMAIN accesses : d[1] = k
      BY <3>1
    <3>3. Early(k)' = Early(k) /\ accesses'[k] = accesses[k]
      BY <1>1, OldAccesses
    <3>4. Early(k) /\ Early(n)'
      BY <1>4, <3>1, <3>2, <3>3
    <3>5. Recording
      BY <1>1, <3>4, EarlyRecords
    <3>6. accesses[k].id \in DOMAIN srcs
      BY <3>1, <3>2, <3>4
    <3>7. IdsOf(d)' = <<accesses[k].id, id>>
      <4>1. accesses'[n].id = id
        BY <1>1, <1>2, LogAppended
      <4> QED
        BY <3>1, <3>2, <3>3, <4>1 DEF IdsOf
    <3> QED
      BY <1>3, <3>5, <3>6, <3>7
  <2> QED
    BY <2>1, <2>2
<1> QED
  BY <1>4 DEF FirstIterationsComplete

-----------------------------------------------------------------------------
(***************************************************************************)
(* Loads.                                                                  *)
(***************************************************************************)
\* The loads of a byte in the history without sampling.
History(a) == full.loadMap[a]

LEMMA LoadFacts ==
  ASSUME LoopsRight, TablesRight, NEW instr, NEW o \in Addresses, NEW a \in Addresses,
         LoadInstr(instr, o, a)
  PROVE  /\ Accessing(instr, o, a) /\ instr \in Loads /\ instr \notin Stores
         /\ TablesRight' /\ storeElem' = storeElem
         /\ \A b \in Addresses : b # a => History(b)' = History(b)
         /\ DOMAIN History(a)' = DOMAIN History(a) \cup {CampID(instr)}
         /\ \A x \in DOMAIN History(a) : x # CampID(instr) => History(a)'[x] = History(a)[x]
         /\ CampID(instr) \in DOMAIN History(a) =>
              History(a)'[CampID(instr)] = Merge(History(a)[CampID(instr)])
         /\ CampID(instr) \notin DOMAIN History(a) => History(a)'[CampID(instr)] = globalIterStack
         /\ full'.depTable = Full!insertDep(full, LastStore(a), CampID(instr))
<1>1. /\ instr \in Loads /\ instr \notin Stores /\ a \in Bytes(o, objects[o].size)
      /\ storeElem' = storeElem
      /\ UNCHANGED <<iterVars, mallocMap, nest, allocations, objects>>
      /\ Accessed(instr, o, a)
  BY DependenceAssumption DEF LoadInstr, CanAccess
<1>2. Accessing(instr, o, a)
  BY <1>1 DEF Accessing
<1>3. PICK id, loads : id = CampID(instr) /\ loads = full.loadMap
  OBVIOUS
<1>4. id \in LoadIDs
  BY <1>1, <1>3, IdKinds
<1>5. SameState /\ PerByte /\ loads = [b \in Addresses |-> loads[b]]
  BY <1>3 DEF TablesRight, PerByte
<1>6. PICK f : f = loads[a]
  OBVIOUS
<1>7. PICK more : more = AfterLoad(f, id)
  OBVIOUS
<1>8. PICK result : result = [loads EXCEPT ![a] = more]
  OBVIOUS
<1>9. SameState' /\ full'.depTable = Full!insertDep(full, LastStore(a), id)
      /\ full'.loadMap = result
  <2>1. SameState' /\ full'.depTable = Full!insertDep(full, LastStore(a), id)
    BY <1>3, <1>5, LoadAlike
  <2>2. full'.loadMap = [full.loadMap EXCEPT ![a] = AfterLoad(full.loadMap[a], CampID(instr))]
    BY <1>5, LoadAlike
  <2> QED
    BY <1>3, <1>6, <1>7, <1>8, <2>1, <2>2
<1>10. result[a] = more /\ \A b \in Addresses : b # a => result[b] = loads[b]
  BY <1>5, <1>8
<1>11. /\ DOMAIN more = DOMAIN f \cup {id} /\ more[id] = NewEntry(f, id)
       /\ \A x \in DOMAIN f : x # id => more[x] = f[x]
  BY <1>7, AfterLoadFacts
<1>12. /\ id \in DOMAIN f => more[id] = Merge(f[id])
       /\ id \notin DOMAIN f => more[id] = globalIterStack
  BY <1>5, <1>11, MergeStands DEF NewEntry
<1>13. \A x \in DOMAIN f : x \in LoadIDs /\ f[x] \in [Levels -> Counters]
  BY <1>3, <1>6 DEF TablesRight
<1>14. \A x \in DOMAIN more : x \in LoadIDs /\ more[x] \in [Levels -> Counters]
  <2>1. more[id] \in [Levels -> Counters]
    BY <1>5, <1>12, <1>13, MergeStands
  <2> QED
    BY <1>4, <1>11, <1>13, <2>1
<1>15. PerByte'
  <2>1. full'.loadMap = [b \in Addresses |-> full'.loadMap[b]]
    BY <1>5, <1>8, <1>9
  <2>2. loadMap' = [b \in Addresses |-> loadMap'[b]]
    BY <1>5 DEF LoadInstr, PerByte
  <2> QED
    BY <1>1, <1>5, <2>1, <2>2 DEF PerByte
<1>16. TablesRight'
  <2>1. ASSUME NEW b \in Addresses
        PROVE  /\ storeElem'[b].campID \in StoreIDs \cup {NoStore}
               /\ \A x \in DOMAIN result[b] :
                    x \in LoadIDs /\ result[b][x] \in [Levels -> Counters]
    BY <1>1, <1>3, <1>10, <1>14 DEF TablesRight
  <2> QED
    BY <1>9, <1>15, <2>1 DEF TablesRight
<1>17. /\ History(a)' = more /\ History(a) = f
       /\ \A b \in Addresses : b # a => History(b)' = History(b)
  BY <1>3, <1>6, <1>9, <1>10 DEF History
<1> QED
  BY <1>1, <1>2, <1>3, <1>9, <1>11, <1>12, <1>16, <1>17

\* The last store of the byte is the only source of a load.
LEMMA StoreSource ==
  ASSUME TablesRight, NEW k, accesses[k].id \in StoreIDs, StoreKnown(k),
         NEW a, accesses[k].addr = a
  PROVE  /\ accesses[k].id \in DOMAIN LastStore(a)
         /\ StandsFor(LastStore(a)[accesses[k].id], k)
BY DependenceAssumption DEF StoreKnown, LastStore, StandsFor, CampIDs

LEMMA LoadKeepsLogInv ==
  ASSUME LogInv, NEW instr, NEW o \in Addresses, NEW a \in Addresses, LoadInstr(instr, o, a)
  PROVE  LogInv'
<1>1. /\ LoopsRight /\ ObjectsRight /\ LogRight /\ TablesRight /\ LogInHistory /\ EarlyInHistory
  BY DEF LogInv
<1>2. PICK n, id, f, g : /\ n = Len(accesses) + 1 /\ id = CampID(instr)
                         /\ f = History(a) /\ g = History(a)'
  OBVIOUS
<1>3. /\ Accessing(instr, o, a) /\ instr \in Loads /\ instr \notin Stores
      /\ TablesRight' /\ storeElem' = storeElem
      /\ \A b \in Addresses : b # a => History(b)' = History(b)
      /\ DOMAIN g = DOMAIN f \cup {id}
      /\ \A x \in DOMAIN f : x # id => g[x] = f[x]
      /\ id \in DOMAIN f => g[id] = Merge(f[id])
      /\ id \notin DOMAIN f => g[id] = globalIterStack
      /\ full'.depTable = Full!insertDep(full, LastStore(a), id)
  BY <1>1, <1>2, LoadFacts
<1>4. /\ DOMAIN accesses' = DOMAIN accesses \cup {n}
      /\ accesses'[n].id = id /\ accesses'[n].addr = a /\ accesses'[n].nest = nest
      /\ \A k \in DOMAIN accesses : accesses'[k] = accesses[k] /\ accesses[k].addr \in Addresses
      /\ LogRight'
  <2>1. \A k \in DOMAIN accesses : accesses[k].addr \in Addresses
    <3>1. \A k \in DOMAIN accesses : accesses[k] \in Logged
      BY <1>1 DEF LogRight
    <3> QED
      BY <3>1 DEF Logged
  <2>2. 1 .. n = (1 .. n - 1) \cup {n} /\ DOMAIN accesses = 1 .. n - 1 /\ DOMAIN accesses' = 1 .. n
    <3>1. n \in Nat \ {0} /\ DOMAIN accesses = 1 .. n - 1 /\ DOMAIN accesses' = 1 .. n
      BY <1>1, <1>2, <1>3, LogAppended
    <3> QED
      BY <3>1
  <2>3. /\ accesses'[n].id = id /\ accesses'[n].addr = a /\ accesses'[n].nest = nest
        /\ \A k \in DOMAIN accesses : accesses'[k] = accesses[k]
        /\ LogRight'
    BY <1>1, <1>2, <1>3, LogAppended
  <2> QED
    BY <2>1, <2>2, <2>3
<1>5. /\ \A k \in DOMAIN accesses : Current(k)' <=> Current(k)
      /\ ~ IsStore(n)'
      /\ \A k \in DOMAIN accesses : IsStore(k)' = IsStore(k) /\ Early(k)' = Early(k)
  <2>1. \A k \in DOMAIN accesses : Current(k)' <=> Current(k) /\ (instr \in Stores => accesses[k].addr # a)
    BY <1>1, <1>2, <1>3, CurrentAfter
  <2>2. id \notin StoreIDs
    BY <1>1, <1>2, <1>3, IdKinds
  <2>3. \A k \in DOMAIN accesses : IsStore(k)' = IsStore(k) /\ Early(k)' = Early(k)
    BY <1>1, <1>3, OldAccesses
  <2> QED
    BY <1>3, <1>4, <2>1, <2>2, <2>3 DEF IsStore
<1>6. ASSUME NEW k \in DOMAIN accesses
      PROVE  /\ LevelsOf(k)' = LevelsOf(k)
             /\ \A i : CountAt(k, i)' = CountAt(k, i)
  BY <1>1, <1>3, OldAccesses
<1>7. LoopsRight'
  BY <1>1, <1>3 DEF Accessing, iterVars, LoopsRight
<1>8. ObjectsRight'
  BY <1>1, <1>3 DEF Accessing, ObjectsRight, Placed
<1>9. LogInHistory'
  <2>1. ASSUME NEW k \in DOMAIN accesses, Current(k), IsStore(k)
        PROVE  StoreKnown(k)'
    <3>1. StoreKnown(k)
      BY <1>1, <2>1 DEF LogInHistory
    <3> QED
      BY <1>3, <1>4, <1>6, <3>1 DEF StoreKnown
  <2>2. ASSUME NEW k \in DOMAIN accesses, Current(k), ~ IsStore(k)
        PROVE  LoadKnown(k)'
    <3>1. LoadKnown(k)
      BY <1>1, <2>2 DEF LogInHistory
    <3>2. PICK b, x : b = accesses[k].addr /\ x = accesses[k].id
      OBVIOUS
    <3>3. x \in DOMAIN History(b) /\ StandsFor(History(b)[x], k) /\ b \in Addresses
      BY <1>4, <3>1, <3>2 DEF LoadKnown, History
    <3>4. x \in DOMAIN History(b)' /\ StandsFor(History(b)'[x], k)
      <4>1. CASE b # a \/ x # id
        <5>1. x \in DOMAIN History(b)' /\ History(b)'[x] = History(b)[x]
          BY <1>2, <1>3, <3>3, <4>1
        <5> QED
          BY <3>3, <5>1
      <4>2. CASE b = a /\ x = id
        <5>1. f[x] \in [Levels -> Counters] /\ SameState
          BY <1>1, <1>2, <3>3, <4>2 DEF TablesRight, History
        <5>2. g[x] = Merge(f[x]) /\ x \in DOMAIN g
          BY <1>2, <1>3, <3>3, <4>2
        <5>3. \A i \in Levels : Merge(f[x])[i] = f[x][i] \/ Merge(f[x])[i] >= IterMod
          BY <1>1, <5>1, MergeStands
        <5>4. StandsFor(f[x], k)
          BY <1>2, <3>3, <4>2
        <5>5. StandsFor(g[x], k)
          BY <5>2, <5>3, <5>4 DEF StandsFor, LevelsOf
        <5> QED
          BY <1>2, <4>2, <5>2, <5>5
      <4> QED
        BY <4>1, <4>2
    <3>5. PICK old : old = History(b)'[x]
      OBVIOUS
    <3>6. \A i \in LevelsOf(k)' : old[i] = CountAt(k, i)' \/ old[i] >= IterMod
      BY <1>6, <3>4, <3>5 DEF StandsFor
    <3>7. accesses'[k].addr = b /\ accesses'[k].id = x
      BY <1>4, <3>2
    <3> QED
      BY <3>4, <3>5, <3>6, <3>7 DEF LoadKnown, StandsFor, History
  <2>3. LoadKnown(n)'
    <3>1. id \in DOMAIN g /\ \A i \in CurLevels \cap Levels : g[id][i] = globalIterStack[i] \/ g[id][i] >= IterMod
      <4>1. CASE id \in DOMAIN f
        <5>1. f[id] \in [Levels -> Counters] /\ SameState
          BY <1>1, <1>2, <4>1 DEF TablesRight, History
        <5> QED
          BY <1>1, <1>3, <4>1, <5>1, MergeStands
      <4>2. CASE id \notin DOMAIN f
        BY <1>3, <4>2
      <4> QED
        BY <4>1, <4>2
    <3>2. ASSUME NEW i \in LevelsOf(n)'
          PROVE  i \in CurLevels \cap Levels /\ globalIterStack[i] = CountAt(n, i)'
      <4>1. i \in Levels /\ i < Len(nest)
        BY <1>4 DEF LevelsOf
      <4>2. globalIterStack[i] = nest[i + 1].count % IterMod
        BY <1>1, <4>1 DEF LoopsRight
      <4>3. i \in CurLevels
        BY <1>1, <4>1, LoopsRightFacts DEF CurLevels, Levels
      <4> QED
        BY <1>4, <4>1, <4>2, <4>3 DEF CountAt
    <3>3. \A i \in LevelsOf(n)' : g[id][i] = CountAt(n, i)' \/ g[id][i] >= IterMod
      BY <3>1, <3>2
    <3> QED
      BY <1>2, <1>4, <3>1, <3>3 DEF LoadKnown, StandsFor, History
  <2> QED
    BY <1>4, <1>5, <2>1, <2>2, <2>3 DEF LogInHistory
<1>10. EarlyInHistory'
  <2>1. \A b \in Addresses : DOMAIN loadMap[b] \subseteq DOMAIN loadMap'[b]
    BY <1>1 DEF LoadInstr, AddLoad, TablesRight, PerByte
  <2>2. ASSUME Early(n)'
        PROVE  id \in DOMAIN loadMap'[a]
    <3>1. Recording
      BY <1>1, <1>2, <1>3, <2>2, EarlyRecords
    <3> QED
      BY <1>1, <1>2, <3>1 DEF LoadInstr, AddLoad, TablesRight, PerByte
  <2>3. ASSUME NEW k \in DOMAIN accesses', Current(k)', Early(k)', ~ IsStore(k)'
        PROVE  accesses'[k].id \in DOMAIN loadMap'[accesses'[k].addr]
    <3>1. CASE k \in DOMAIN accesses
      <4>1. Current(k) /\ Early(k) /\ ~ IsStore(k)
        BY <1>5, <2>3, <3>1
      <4>2. accesses[k].id \in DOMAIN loadMap[accesses[k].addr]
        BY <1>1, <3>1, <4>1 DEF EarlyInHistory
      <4> QED
        BY <1>4, <2>1, <3>1, <4>2
    <3>2. CASE k \notin DOMAIN accesses
      <4>1. k = n
        BY <1>4, <2>3, <3>2
      <4> QED
        BY <1>4, <2>2, <2>3, <4>1
    <3> QED
      BY <3>1, <3>2
  <2> QED
    BY <2>3 DEF EarlyInHistory
<1>11. ASSUME NEW k \in DOMAIN accesses,
              Current(k), accesses[k].addr = a, IsStore(k) \/ instr \in Stores
       PROVE  accesses[k].id \in DOMAIN LastStore(a) /\ StandsFor(LastStore(a)[accesses[k].id], k)
  <2>1. IsStore(k) /\ StoreKnown(k) /\ accesses[k].id \in StoreIDs
    BY <1>1, <1>3, <1>11 DEF LogInHistory, IsStore
  <2> QED
    BY <1>1, <1>11, <2>1, StoreSource
<1>12. EveryDependenceRecorded'
  BY <1>2, <1>3, <1>11, RecordedAfter
<1>13. FirstIterationsComplete'
  <2>1. IF Recording THEN InsertDeps(LastStore(a), id) ELSE UNCHANGED depTable
    BY <1>2 DEF LoadInstr
  <2> QED
    BY <1>2, <1>3, <1>11, <2>1, FirstAfter
<1> QED
  BY <1>3, <1>4, <1>7, <1>8, <1>9, <1>10, <1>12, <1>13 DEF LogInv

-----------------------------------------------------------------------------
(***************************************************************************)
(* Stores.                                                                 *)
(***************************************************************************)
LEMMA StoreFacts ==
  ASSUME LoopsRight, TablesRight, NEW instr, NEW o \in Addresses, NEW a \in Addresses,
         StoreInstr(instr, o, a)
  PROVE  /\ Accessing(instr, o, a) /\ instr \in Stores
         /\ TablesRight'
         /\ \A b \in Addresses : b # a => /\ History(b)' = History(b)
                                          /\ storeElem'[b] = storeElem[b]
                                          /\ loadMap'[b] = loadMap[b]
         /\ History(a)' = NoLoads
         /\ storeElem'[a] = [campID |-> CampID(instr), iterStack |-> globalIterStack]
         /\ full'.depTable
              = Full!insertDep(full, Full!Over(History(a), LastStore(a)), CampID(instr))
<1>1. /\ instr \in Stores /\ a \in Bytes(o, objects[o].size)
      /\ UNCHANGED <<iterVars, mallocMap, nest, allocations, objects>>
      /\ Accessed(instr, o, a)
  BY DEF StoreInstr, CanAccess
<1>2. Accessing(instr, o, a)
  BY <1>1 DEF Accessing
<1>3. PICK id, loads : id = CampID(instr) /\ loads = full.loadMap
  OBVIOUS
<1>4. id \in StoreIDs
  BY <1>1, <1>3, IdKinds
<1>5. SameState /\ PerByte /\ loads = [b \in Addresses |-> loads[b]]
  BY <1>3 DEF TablesRight, PerByte
<1>6. PICK result : result = [loads EXCEPT ![a] = NoLoads]
  OBVIOUS
<1>7. /\ SameState' /\ full'.loadMap = result
      /\ full'.depTable = Full!insertDep(full, Full!Over(History(a), LastStore(a)), id)
  BY <1>3, <1>5, <1>6, StoreAlike DEF History
<1>8. result[a] = NoLoads /\ \A b \in Addresses : b # a => result[b] = loads[b]
  BY <1>5, <1>6
<1>9. /\ storeElem' = [b \in Addresses |-> storeElem'[b]]
      /\ storeElem'[a] = [campID |-> id, iterStack |-> globalIterStack]
      /\ storeElem'[a].campID = id
      /\ loadMap' = [b \in Addresses |-> loadMap'[b]]
      /\ \A b \in Addresses : b # a => storeElem'[b] = storeElem[b] /\ loadMap'[b] = loadMap[b]
  BY <1>3, <1>5 DEF StoreInstr, PerByte
<1>10. PerByte'
  <2>1. full'.loadMap = [b \in Addresses |-> full'.loadMap[b]]
    BY <1>5, <1>6, <1>7
  <2> QED
    BY <1>1, <1>5, <1>9, <2>1 DEF PerByte
<1>11. TablesRight'
  <2>1. ASSUME NEW b \in Addresses
        PROVE  /\ storeElem'[b].campID \in StoreIDs \cup {NoStore}
               /\ \A x \in DOMAIN result[b] :
                    x \in LoadIDs /\ result[b][x] \in [Levels -> Counters]
    <3>1. CASE b = a
      BY <1>4, <1>8, <1>9, <3>1 DEF NoLoads
    <3>2. CASE b # a
      BY <1>3, <1>8, <1>9, <3>2 DEF TablesRight
    <3> QED
      BY <3>1, <3>2
  <2> QED
    BY <1>7, <1>10, <2>1 DEF TablesRight
<1>12. /\ History(a)' = NoLoads
       /\ \A b \in Addresses : b # a => History(b)' = History(b)
  BY <1>3, <1>7, <1>8 DEF History
<1> QED
  BY <1>1, <1>2, <1>3, <1>7, <1>9, <1>11, <1>12

\* A store's sources are the last store and the loads since.
LEMMA StoreAndLoadSources ==
  ASSUME TablesRight, NEW k, NEW a \in Addresses, accesses[k].addr = a,
         accesses[k].id \in StoreIDs => StoreKnown(k),
         accesses[k].id \notin StoreIDs => LoadKnown(k)
  PROVE  /\ accesses[k].id \in DOMAIN Full!Over(History(a), LastStore(a))
         /\ StandsFor(Full!Over(History(a), LastStore(a))[accesses[k].id], k)
<1>1. PICK hist, last, both, x :
        /\ hist = History(a) /\ last = LastStore(a) /\ x = accesses[k].id
        /\ both = Full!Over(History(a), LastStore(a))
  OBVIOUS
<1>2. both = Full!Over(hist, last)
  BY <1>1
<1>3. /\ DOMAIN both = DOMAIN hist \cup DOMAIN last
      /\ \A y \in DOMAIN hist : both[y] = hist[y]
      /\ \A y \in DOMAIN last : y \notin DOMAIN hist => both[y] = last[y]
  BY <1>2 DEF Full!Over
<1>4. CASE x \in StoreIDs
  <2>1. x \in DOMAIN last /\ StandsFor(last[x], k)
    BY <1>1, <1>4, StoreSource
  <2>2. x \notin DOMAIN hist
    BY <1>1, <1>4, DependenceAssumption DEF TablesRight, History, LoadIDs, StoreIDs
  <2> QED
    BY <1>1, <1>3, <2>1, <2>2
<1>5. CASE x \notin StoreIDs
  <2>1. x \in DOMAIN hist /\ StandsFor(hist[x], k)
    BY <1>1, <1>5 DEF LoadKnown, History
  <2> QED
    BY <1>1, <1>3, <2>1
<1> QED
  BY <1>4, <1>5

\* With sampling too, but of the loads only those of first iterations.
LEMMA SampledSources ==
  ASSUME TablesRight, NEW k, NEW a \in Addresses, accesses[k].addr = a,
         accesses[k].id \in StoreIDs => StoreKnown(k),
         accesses[k].id \notin StoreIDs => accesses[k].id \in DOMAIN loadMap[a]
  PROVE  accesses[k].id \in DOMAIN Full!Over(loadMap[a], LastStore(a))
<1>1. PICK hist, last, both, x :
        /\ hist = loadMap[a] /\ last = LastStore(a) /\ x = accesses[k].id
        /\ both = Full!Over(loadMap[a], LastStore(a))
  OBVIOUS
<1>2. both = Full!Over(hist, last)
  BY <1>1
<1>3. DOMAIN both = DOMAIN hist \cup DOMAIN last
  BY <1>2 DEF Full!Over
<1>4. CASE x \in StoreIDs
  <2>1. x \in DOMAIN last
    BY <1>1, <1>4, StoreSource
  <2> QED
    BY <1>1, <1>3, <2>1
<1>5. CASE x \notin StoreIDs
  BY <1>1, <1>3, <1>5
<1> QED
  BY <1>4, <1>5

LEMMA StoreKeepsLogInv ==
  ASSUME LogInv, NEW instr, NEW o \in Addresses, NEW a \in Addresses, StoreInstr(instr, o, a)
  PROVE  LogInv'
<1>1. /\ LoopsRight /\ ObjectsRight /\ LogRight /\ TablesRight /\ LogInHistory /\ EarlyInHistory
  BY DEF LogInv
<1>2. PICK n, id : n = Len(accesses) + 1 /\ id = CampID(instr)
  OBVIOUS
<1>3. /\ Accessing(instr, o, a) /\ instr \in Stores
      /\ TablesRight'
      /\ \A b \in Addresses : b # a => /\ History(b)' = History(b)
                                       /\ storeElem'[b] = storeElem[b]
                                       /\ loadMap'[b] = loadMap[b]
      /\ storeElem'[a] = [campID |-> id, iterStack |-> globalIterStack]
      /\ full'.depTable = Full!insertDep(full, Full!Over(History(a), LastStore(a)), id)
  BY <1>1, <1>2, StoreFacts
<1>4. /\ DOMAIN accesses' = DOMAIN accesses \cup {n}
      /\ accesses'[n].id = id /\ accesses'[n].addr = a /\ accesses'[n].nest = nest
      /\ \A k \in DOMAIN accesses : accesses'[k] = accesses[k] /\ accesses[k].addr \in Addresses
      /\ LogRight'
  <2>1. \A k \in DOMAIN accesses : accesses[k].addr \in Addresses
    <3>1. \A k \in DOMAIN accesses : accesses[k] \in Logged
      BY <1>1 DEF LogRight
    <3> QED
      BY <3>1 DEF Logged
  <2>2. 1 .. n = (1 .. n - 1) \cup {n} /\ DOMAIN accesses = 1 .. n - 1 /\ DOMAIN accesses' = 1 .. n
    <3>1. n \in Nat \ {0} /\ DOMAIN accesses = 1 .. n - 1 /\ DOMAIN accesses' = 1 .. n
      BY <1>1, <1>2, <1>3, LogAppended
    <3> QED
      BY <3>1
  <2>3. /\ accesses'[n].id = id /\ accesses'[n].addr = a /\ accesses'[n].nest = nest
        /\ \A k \in DOMAIN accesses : accesses'[k] = accesses[k]
        /\ LogRight'
    BY <1>1, <1>2, <1>3, LogAppended
  <2> QED
    BY <2>1, <2>2, <2>3
<1>5. /\ \A k \in DOMAIN accesses : Current(k)' => Current(k) /\ accesses[k].addr # a
      /\ IsStore(n)'
      /\ \A k \in DOMAIN accesses : IsStore(k)' = IsStore(k) /\ Early(k)' = Early(k)
  <2>1. \A k \in DOMAIN accesses : Current(k)' <=> Current(k) /\ (instr \in Stores => accesses[k].addr # a)
    BY <1>1, <1>2, <1>3, CurrentAfter
  <2>2. id \in StoreIDs
    BY <1>1, <1>2, <1>3, IdKinds
  <2>3. \A k \in DOMAIN accesses : IsStore(k)' = IsStore(k) /\ Early(k)' = Early(k)
    BY <1>1, <1>3, OldAccesses
  <2> QED
    BY <1>3, <1>4, <2>1, <2>2, <2>3 DEF IsStore
<1>6. ASSUME NEW k \in DOMAIN accesses
      PROVE  /\ LevelsOf(k)' = LevelsOf(k)
             /\ \A i : CountAt(k, i)' = CountAt(k, i)
  BY <1>1, <1>3, OldAccesses
<1>7. LoopsRight'
  BY <1>1, <1>3 DEF Accessing, iterVars, LoopsRight
<1>8. ObjectsRight'
  BY <1>1, <1>3 DEF Accessing, ObjectsRight, Placed
<1>9. LogInHistory'
  <2>1. ASSUME NEW k \in DOMAIN accesses, Current(k)', IsStore(k)
        PROVE  StoreKnown(k)'
    <3>1. Current(k) /\ accesses[k].addr # a
      BY <1>5, <2>1
    <3>2. StoreKnown(k)
      BY <1>1, <2>1, <3>1 DEF LogInHistory
    <3>3. storeElem'[accesses[k].addr] = storeElem[accesses[k].addr]
      BY <1>3, <1>4, <3>1
    <3> QED
      BY <1>4, <1>6, <3>2, <3>3 DEF StoreKnown
  <2>2. ASSUME NEW k \in DOMAIN accesses, Current(k)', ~ IsStore(k)
        PROVE  LoadKnown(k)'
    <3>1. Current(k) /\ accesses[k].addr # a
      BY <1>5, <2>2
    <3>2. LoadKnown(k)
      BY <1>1, <2>2, <3>1 DEF LogInHistory
    <3>3. History(accesses[k].addr)' = History(accesses[k].addr)
      BY <1>3, <1>4, <3>1
    <3>4. PICK b, x, h : b = accesses[k].addr /\ x = accesses[k].id /\ h = History(b)
      OBVIOUS
    <3>5. x \in DOMAIN h /\ StandsFor(h[x], k)
      BY <3>2, <3>4 DEF LoadKnown, History
    <3>6. \A i \in LevelsOf(k)' : h[x][i] = CountAt(k, i)' \/ h[x][i] >= IterMod
      BY <1>6, <3>5 DEF StandsFor
    <3>7. accesses'[k].addr = b /\ accesses'[k].id = x /\ full'.loadMap[b] = h
      BY <1>4, <3>3, <3>4 DEF History
    <3> QED
      BY <3>5, <3>6, <3>7 DEF LoadKnown, StandsFor
  <2>3. StoreKnown(n)'
    <3>1. ASSUME NEW i \in LevelsOf(n)'
          PROVE  globalIterStack[i] = CountAt(n, i)'
      <4>1. i \in Levels /\ i < Len(nest)
        BY <1>4 DEF LevelsOf
      <4> QED
        BY <1>1, <1>4, <4>1 DEF LoopsRight, CountAt
    <3>2. PICK elem : elem = storeElem'[a]
      OBVIOUS
    <3>3. elem.campID = id /\ elem.iterStack = globalIterStack
      BY <1>3, <3>2
    <3> QED
      BY <1>4, <3>1, <3>2, <3>3 DEF StoreKnown
  <2> QED
    BY <1>4, <1>5, <2>1, <2>2, <2>3 DEF LogInHistory
<1>10. EarlyInHistory'
  <2>1. ASSUME NEW k \in DOMAIN accesses', Current(k)', Early(k)', ~ IsStore(k)'
        PROVE  accesses'[k].id \in DOMAIN loadMap'[accesses'[k].addr]
    <3>1. k \in DOMAIN accesses
      BY <1>4, <1>5, <2>1
    <3>2. Current(k) /\ Early(k) /\ ~ IsStore(k) /\ accesses[k].addr # a
      BY <1>5, <2>1, <3>1
    <3>3. accesses[k].id \in DOMAIN loadMap[accesses[k].addr]
      BY <1>1, <3>1, <3>2 DEF EarlyInHistory
    <3> QED
      BY <1>3, <1>4, <3>1, <3>2, <3>3
  <2> QED
    BY <2>1 DEF EarlyInHistory
<1>11. ASSUME NEW k \in DOMAIN accesses, Current(k), accesses[k].addr = a
       PROVE  /\ accesses[k].id \in DOMAIN Full!Over(History(a), LastStore(a))
              /\ StandsFor(Full!Over(History(a), LastStore(a))[accesses[k].id], k)
  <2>1. /\ accesses[k].id \in StoreIDs => StoreKnown(k)
        /\ accesses[k].id \notin StoreIDs => LoadKnown(k)
    BY <1>1, <1>11 DEF LogInHistory, IsStore
  <2> QED
    BY <1>1, <1>11, <2>1, StoreAndLoadSources
<1>12. ASSUME NEW k \in DOMAIN accesses, Current(k), Early(k), accesses[k].addr = a
       PROVE  accesses[k].id \in DOMAIN Full!Over(loadMap[a], LastStore(a))
  <2>1. /\ accesses[k].id \in StoreIDs => StoreKnown(k)
        /\ accesses[k].id \notin StoreIDs => accesses[k].id \in DOMAIN loadMap[a]
    BY <1>1, <1>12 DEF LogInHistory, EarlyInHistory, IsStore
  <2> QED
    BY <1>1, <1>12, <2>1, SampledSources
<1>13. EveryDependenceRecorded'
  BY <1>2, <1>3, <1>11, RecordedAfter
<1>14. FirstIterationsComplete'
  <2>1. IF Recording THEN InsertDeps(Full!Over(loadMap[a], LastStore(a)), id) ELSE UNCHANGED depTable
    BY <1>2 DEF StoreInstr
  <2> QED
    BY <1>2, <1>3, <1>12, <2>1, FirstAfter
<1> QED
  BY <1>3, <1>4, <1>7, <1>8, <1>9, <1>10, <1>13, <1>14 DEF LogInv

-----------------------------------------------------------------------------
(***************************************************************************)
(* Objects.                                                                *)
(***************************************************************************)
LEMMA NoBytes ==
  ASSUME NEW o
  PROVE  o \in Addresses => Bytes(o, 0) = {}
BY DependenceAssumption DEF Bytes

LEMMA FirstByte ==
  ASSUME NEW o \in Addresses, NEW size \in Int
  PROVE  /\ size > 0 => o \in Bytes(o, size)
         /\ \A b \in Bytes(o, size) : o \in Bytes(o, size)
BY DependenceAssumption DEF Bytes

LEMMA FreedPlaced ==
  ASSUME ObjectsRight, NEW o \in Addresses, NEW objs, objs = Without(o)
  PROVE  /\ Placed(objs, FreedSizes(o))
         /\ \A p, b \in Addresses : b \in Bytes(p, objs[p].size) =>
              objs[p] = objects[p] /\ p # o /\ b \notin Bytes(o, mallocMap[o])
         /\ \A p, b \in Addresses :
              b \in Bytes(p, objects[p].size) /\ b \notin Bytes(o, mallocMap[o]) =>
                objs[p] = objects[p]
<1>1. /\ objects \in [Addresses -> [size : Int, serial : Nat]] /\ allocations \in Nat
      /\ mallocMap = [p \in Addresses |-> objects[p].size]
      /\ \A p \in Addresses : objects[p].serial <= allocations
      /\ \A p, q, b \in Addresses :
           b \in Bytes(p, objects[p].size) /\ b \in Bytes(q, objects[q].size) => p = q
  BY DEF ObjectsRight, Placed
<1>2. /\ objs \in [Addresses -> [size : Int, serial : Nat]]
      /\ objs[o].size = 0 /\ objs[o].serial = 0
      /\ \A p \in Addresses : p # o => objs[p] = objects[p]
  BY <1>1 DEF Without
<1>3. FreedSizes(o) = [p \in Addresses |-> objs[p].size]
  BY <1>1, <1>2 DEF FreedSizes
<1>4. ASSUME NEW p \in Addresses, NEW b \in Addresses, b \in Bytes(p, objs[p].size)
      PROVE  objs[p] = objects[p] /\ p # o /\ b \notin Bytes(o, mallocMap[o])
  <2>1. p # o
    BY <1>2, <1>4, NoBytes
  <2>2. objs[p] = objects[p] /\ mallocMap[o] = objects[o].size
    BY <1>1, <1>2, <2>1
  <2> QED
    BY <1>1, <1>4, <2>1, <2>2
<1>5. \A p, q, b \in Addresses :
        b \in Bytes(p, objs[p].size) /\ b \in Bytes(q, objs[q].size) => p = q
  BY <1>1, <1>4
<1>6. \A p \in Addresses : objs[p].serial <= allocations
  BY <1>1, <1>2
<1>7. \A p, b \in Addresses :
        b \in Bytes(p, objects[p].size) /\ b \notin Bytes(o, mallocMap[o]) => objs[p] = objects[p]
  BY <1>1, <1>2
<1> QED
  BY <1>2, <1>3, <1>4, <1>5, <1>6, <1>7 DEF Placed

LEMMA AllocatedPlaced ==
  ASSUME allocations \in Nat, NEW objs, NEW map, Placed(objs, map),
         NEW o \in Addresses, NEW size \in Int, Allocated(o, size, objs, map)
  PROVE  /\ ObjectsRight' /\ allocations' = allocations + 1
         /\ objects'[o].serial > allocations
         /\ \A p \in Addresses : p # o => objects'[p] = objs[p]
         /\ Bytes(o, objs[o].size) = {}
<1>1. /\ objs \in [Addresses -> [size : Int, serial : Nat]]
      /\ map = [p \in Addresses |-> objs[p].size]
      /\ \A p \in Addresses : objs[p].serial <= allocations
      /\ \A p, q, b \in Addresses :
           b \in Bytes(p, objs[p].size) /\ b \in Bytes(q, objs[q].size) => p = q
  BY DEF Placed
<1>2. PICK new : new = [size |-> size, serial |-> allocations + 1]
  OBVIOUS
<1>3. /\ allocations' = allocations + 1 /\ objects' = [objs EXCEPT ![o] = new]
      /\ mallocMap' = [map EXCEPT ![o] = size]
      /\ \A p \in Addresses : Bytes(o, size) \cap Bytes(p, objs[p].size) = {}
      /\ size > 0
  BY <1>2 DEF Allocated, Fits
<1>4. new \in [size : Int, serial : Nat] /\ new.size = size /\ new.serial = allocations + 1
  BY <1>2
<1>5. PICK after : after = objects'
  OBVIOUS
<1>6. /\ after \in [Addresses -> [size : Int, serial : Nat]] /\ after[o] = new
      /\ \A p \in Addresses : p # o => after[p] = objs[p]
  BY <1>1, <1>3, <1>4, <1>5
<1>7. mallocMap' = [p \in Addresses |-> after[p].size]
  BY <1>1, <1>3, <1>4, <1>6
<1>8. \A p \in Addresses : after[p].serial <= allocations + 1
  <2>1. \A p \in Addresses : objs[p].serial \in Nat
    BY <1>1
  <2> QED
    BY <1>1, <1>4, <1>6, <2>1
<1>9. ASSUME NEW p \in Addresses, NEW q \in Addresses, NEW b \in Addresses,
             b \in Bytes(p, after[p].size), b \in Bytes(q, after[q].size)
      PROVE  p = q
  BY <1>1, <1>3, <1>4, <1>6, <1>9
<1>10. ObjectsRight'
  <2>1. allocations' \in Nat
    BY <1>3
  <2>2. \A p \in Addresses : objects'[p].serial <= allocations'
    BY <1>3, <1>5, <1>8
  <2>3. \A p, q, b \in Addresses :
          b \in Bytes(p, objects'[p].size) /\ b \in Bytes(q, objects'[q].size) => p = q
    BY <1>5, <1>9
  <2>4. /\ objects' \in [Addresses -> [size : Int, serial : Nat]]
        /\ mallocMap' = [p \in Addresses |-> objects'[p].size]
    BY <1>5, <1>6, <1>7
  <2> QED
    BY <2>1, <2>2, <2>3, <2>4 DEF ObjectsRight, Placed
<1>11. Bytes(o, objs[o].size) = {}
  BY <1>1, <1>3, FirstByte
<1> QED
  BY <1>3, <1>4, <1>5, <1>6, <1>10, <1>11

\* The bytes of S are forgotten; the objects that remain have none of them.
Renewed(S) ==
  /\ Cleared(S) /\ ObjectsRight'
  /\ accesses' = accesses /\ allocations' >= allocations /\ allocations' \in Nat
  /\ \A p, b \in Addresses :
       b \in Bytes(p, objects'[p].size) =>
         \/ objects'[p] = objects[p] /\ b \notin S
         \/ objects'[p].serial > allocations
  /\ \A p, b \in Addresses :
       b \in Bytes(p, objects[p].size) /\ b \notin S => objects'[p] = objects[p]

LEMMA RenewedKeepsLogInv ==
  ASSUME LogInv, NEW S, Renewed(S)
  PROVE  LogInv'
<1>1. /\ LoopsRight /\ ObjectsRight /\ LogRight /\ TablesRight /\ LogInHistory /\ EarlyInHistory
      /\ EveryDependenceRecorded /\ FirstIterationsComplete
  BY DEF LogInv
<1>2. /\ accesses' = accesses /\ full'.depTable = full.depTable
      /\ UNCHANGED <<iterVars, depTable, nest>>
      /\ storeElem' = [a \in Addresses |-> IF a \in S THEN Untouched ELSE storeElem[a]]
      /\ loadMap' = [a \in Addresses |-> IF a \in S THEN NoLoads ELSE loadMap[a]]
      /\ full'.loadMap = [a \in Addresses |-> IF a \in S THEN NoLoads ELSE full.loadMap[a]]
      /\ mallocMap' = [a \in Addresses |-> mallocMap'[a]]
      /\ SameState' /\ ObjectsRight'
  BY DEF Renewed, Cleared, ClearBytes
<1>3. LoopsRight'
  BY <1>1, <1>2 DEF LoopsRight, iterVars
<1>4. /\ LogRight'
      /\ \A k \in DOMAIN accesses : accesses[k].addr \in Addresses
                                    /\ accesses[k].object <= allocations /\ accesses[k].object \in Nat
  <2>1. \A k \in DOMAIN accesses : /\ accesses[k] \in Logged
                                   /\ accesses[k].object <= allocations
    BY <1>1 DEF LogRight
  <2>2. \A k \in DOMAIN accesses : /\ accesses[k].addr \in Addresses /\ accesses[k].object \in Nat
                                   /\ accesses[k].object <= allocations
    BY <2>1 DEF Logged
  <2>3. allocations \in Nat /\ allocations' \in Nat /\ allocations' >= allocations
    BY <1>1 DEF ObjectsRight, Renewed
  <2>4. \A k \in DOMAIN accesses : accesses[k].object <= allocations'
    BY <2>2, <2>3
  <2> QED
    BY <1>1, <1>2, <2>2, <2>4 DEF LogRight
<1>5. TablesRight'
  <2>1. ASSUME NEW a \in Addresses
        PROVE  /\ storeElem'[a].campID \in StoreIDs \cup {NoStore}
               /\ \A id \in DOMAIN full'.loadMap[a] :
                    id \in LoadIDs /\ full'.loadMap[a][id] \in [Levels -> Counters]
    <3>1. Untouched.campID = NoStore /\ DOMAIN NoLoads = {}
      BY DEF Untouched, NoLoads
    <3>2. PICK loads : loads = full'.loadMap
      OBVIOUS
    <3>3. loads[a] = IF a \in S THEN NoLoads ELSE full.loadMap[a]
      BY <1>2, <3>2
    <3>4. \A id \in DOMAIN loads[a] : id \in LoadIDs /\ loads[a][id] \in [Levels -> Counters]
      BY <1>1, <3>1, <3>3 DEF TablesRight
    <3>5. storeElem'[a].campID \in StoreIDs \cup {NoStore}
      BY <1>1, <1>2, <3>1 DEF TablesRight
    <3> QED
      BY <3>2, <3>4, <3>5
  <2>2. PerByte'
    <3>1. /\ storeElem' = [a \in Addresses |-> storeElem'[a]]
          /\ loadMap' = [a \in Addresses |-> loadMap'[a]]
      BY <1>2
    <3>2. PICK loads : loads = full'.loadMap
      OBVIOUS
    <3>3. loads = [a \in Addresses |-> loads[a]]
      BY <1>2, <3>2
    <3> QED
      BY <1>2, <3>1, <3>2, <3>3 DEF PerByte
  <2> QED
    BY <1>2, <2>1, <2>2 DEF TablesRight
<1>6. ASSUME NEW k \in DOMAIN accesses, Current(k)'
      PROVE  Current(k) /\ accesses[k].addr \notin S
  <2>1. PICK p \in Addresses : /\ objects'[p].serial = accesses[k].object
                               /\ accesses[k].addr \in Bytes(p, objects'[p].size)
    BY <1>2, <1>6 DEF Current, Alive
  <2>2. ~ (objects'[p].serial > allocations)
    BY <1>1, <1>4, <2>1 DEF ObjectsRight
  <2>3. objects'[p] = objects[p] /\ accesses[k].addr \notin S
    BY <1>4, <2>1, <2>2 DEF Renewed
  <2>4. Alive(k)
    BY <2>1, <2>3 DEF Alive
  <2>5. \A j \in k + 1 .. Len(accesses) : ~ (IsStore(j) /\ SameByte(k, j))
    BY <1>2, <1>6 DEF Current, IsStore, SameByte
  <2> QED
    BY <2>3, <2>4, <2>5 DEF Current
<1>7. ASSUME NEW k \in DOMAIN accesses
      PROVE  /\ IsStore(k)' = IsStore(k) /\ Early(k)' = Early(k)
             /\ LevelsOf(k)' = LevelsOf(k) /\ \A i : CountAt(k, i)' = CountAt(k, i)
             /\ accesses[k].addr \notin S =>
                  /\ storeElem'[accesses[k].addr] = storeElem[accesses[k].addr]
                  /\ loadMap'[accesses[k].addr] = loadMap[accesses[k].addr]
                  /\ full'.loadMap[accesses[k].addr] = full.loadMap[accesses[k].addr]
  <2>1. /\ IsStore(k)' = IsStore(k) /\ Early(k)' = Early(k)
        /\ LevelsOf(k)' = LevelsOf(k) /\ \A i : CountAt(k, i)' = CountAt(k, i)
    BY <1>2 DEF IsStore, Early, LevelsOf, CountAt
  <2>2. PICK b, loads : b = accesses[k].addr /\ b \in Addresses /\ loads = full'.loadMap
    BY <1>4
  <2>3. b \notin S => /\ storeElem'[b] = storeElem[b] /\ loadMap'[b] = loadMap[b]
                      /\ loads[b] = full.loadMap[b]
    BY <1>2, <2>2
  <2> QED
    BY <2>1, <2>2, <2>3
<1>8. LogInHistory'
  <2>1. ASSUME NEW k \in DOMAIN accesses, Current(k)', IsStore(k)
        PROVE  StoreKnown(k)'
    <3>1. StoreKnown(k)
      BY <1>1, <1>6, <2>1 DEF LogInHistory
    <3> QED
      BY <1>2, <1>6, <1>7, <2>1, <3>1 DEF StoreKnown
  <2>2. ASSUME NEW k \in DOMAIN accesses, Current(k)', ~ IsStore(k)
        PROVE  LoadKnown(k)'
    <3>1. LoadKnown(k)
      BY <1>1, <1>6, <2>2 DEF LogInHistory
    <3>2. PICK b, x, h : b = accesses[k].addr /\ x = accesses[k].id /\ h = full.loadMap[b]
      OBVIOUS
    <3>3. x \in DOMAIN h /\ StandsFor(h[x], k)
      BY <3>1, <3>2 DEF LoadKnown
    <3>4. \A i \in LevelsOf(k)' : h[x][i] = CountAt(k, i)' \/ h[x][i] >= IterMod
      BY <1>7, <3>3 DEF StandsFor
    <3>5. accesses'[k].addr = b /\ accesses'[k].id = x /\ full'.loadMap[b] = h
      BY <1>2, <1>6, <1>7, <2>2, <3>2
    <3> QED
      BY <3>3, <3>4, <3>5 DEF LoadKnown, StandsFor
  <2> QED
    BY <1>2, <1>7, <2>1, <2>2 DEF LogInHistory
<1>9. EarlyInHistory'
  BY <1>1, <1>2, <1>6, <1>7 DEF EarlyInHistory
<1>10. EveryDependenceRecorded' /\ FirstIterationsComplete'
  <2>1. UNCHANGED <<accesses, depTable>> /\ full'.depTable = full.depTable
    BY <1>2
  <2>2. EveryDependenceRecorded /\ FirstIterationsComplete
    BY <1>1
  <2> QED
    BY <2>1, <2>2 DEF EveryDependenceRecorded, FirstIterationsComplete,
       Dependences, Depends, IdsOf, Relation, CommonLevels, IsStore, SameByte, Early
<1> QED
  BY <1>2, <1>3, <1>4, <1>5, <1>8, <1>9, <1>10 DEF LogInv

LEMMA MallocRenews ==
  ASSUME LogInv, NEW o \in Addresses, NEW size \in Int,
         Malloc(o, size) \/ \E n, num : size = n * num /\ Calloc(o, n, num)
  PROVE  Renewed({})
<1>1. ObjectsRight /\ SameState /\ PerByte /\ allocations \in Nat
  BY DEF LogInv, TablesRight, ObjectsRight
<1>2. Allocated(o, size, objects, mallocMap) /\ accesses' = accesses
  BY DEF Malloc, Calloc
<1>3. /\ ObjectsRight' /\ allocations' = allocations + 1
      /\ objects'[o].serial > allocations
      /\ \A p \in Addresses : p # o => objects'[p] = objects[p]
      /\ Bytes(o, objects[o].size) = {}
  <2>1. Placed(objects, mallocMap)
    BY <1>1 DEF ObjectsRight
  <2> QED
    BY <1>1, <1>2, <2>1, AllocatedPlaced
<1>4. Cleared({})
  BY <1>1, MallocClears
<1> QED
  BY <1>1, <1>2, <1>3, <1>4 DEF Renewed

LEMMA FreeRenews ==
  ASSUME LogInv, NEW o \in Addresses, Free(o)
  PROVE  Renewed(Bytes(o, mallocMap[o]))
<1>1. ObjectsRight /\ SameState /\ PerByte /\ allocations \in Nat
  BY DEF LogInv, TablesRight, ObjectsRight
<1>2. /\ objects' = Without(o) /\ mallocMap' = FreedSizes(o)
      /\ UNCHANGED <<allocations, accesses>>
  BY DEF Free, FreedSizes
<1>3. Cleared(Bytes(o, mallocMap[o]))
  BY <1>1, FreeClears
<1>4. PICK objs : objs = Without(o)
  OBVIOUS
<1>5. /\ Placed(objs, FreedSizes(o))
      /\ \A p, b \in Addresses : b \in Bytes(p, objs[p].size) =>
           objs[p] = objects[p] /\ p # o /\ b \notin Bytes(o, mallocMap[o])
      /\ \A p, b \in Addresses :
           b \in Bytes(p, objects[p].size) /\ b \notin Bytes(o, mallocMap[o]) =>
             objs[p] = objects[p]
  BY <1>1, <1>4, FreedPlaced
<1>6. ObjectsRight'
  BY <1>1, <1>2, <1>4, <1>5 DEF ObjectsRight, Placed
<1> QED
  BY <1>1, <1>2, <1>3, <1>4, <1>5, <1>6 DEF Renewed

LEMMA ReallocRenews ==
  ASSUME LogInv, NEW o \in Addresses, NEW n \in Addresses, NEW size \in Int, Realloc(o, n, size)
  PROVE  Renewed(Bytes(o, mallocMap[o]))
<1>1. ObjectsRight /\ SameState /\ PerByte /\ allocations \in Nat
  BY DEF LogInv, TablesRight, ObjectsRight
<1>2. PICK objs, map : objs = Without(o) /\ map = FreedSizes(o)
  OBVIOUS
<1>3. Allocated(n, size, objs, map) /\ accesses' = accesses
  BY <1>2 DEF Realloc, FreedSizes
<1>4. Cleared(Bytes(o, mallocMap[o]))
  BY <1>1, ReallocClears
<1>5. /\ Placed(objs, map)
      /\ \A p, b \in Addresses : b \in Bytes(p, objs[p].size) =>
           objs[p] = objects[p] /\ p # o /\ b \notin Bytes(o, mallocMap[o])
      /\ \A p, b \in Addresses :
           b \in Bytes(p, objects[p].size) /\ b \notin Bytes(o, mallocMap[o]) =>
             objs[p] = objects[p]
  BY <1>1, <1>2, FreedPlaced
<1>6. /\ ObjectsRight' /\ allocations' = allocations + 1
      /\ objects'[n].serial > allocations
      /\ \A p \in Addresses : p # n => objects'[p] = objs[p]
      /\ Bytes(n, objs[n].size) = {}
  BY <1>1, <1>3, <1>5, AllocatedPlaced
<1>7. ASSUME NEW p \in Addresses, NEW b \in Addresses, b \in Bytes(p, objects'[p].size)
      PROVE  \/ objects'[p] = objects[p] /\ b \notin Bytes(o, mallocMap[o])
             \/ objects'[p].serial > allocations
  <2>1. CASE p = n
    BY <1>6, <2>1
  <2>2. CASE p # n
    <3>1. objects'[p] = objs[p] /\ b \in Bytes(p, objs[p].size)
      BY <1>6, <1>7, <2>2
    <3> QED
      BY <1>5, <3>1
  <2> QED
    BY <2>1, <2>2
<1>8. ASSUME NEW p \in Addresses, NEW b \in Addresses,
             b \in Bytes(p, objects[p].size), b \notin Bytes(o, mallocMap[o])
      PROVE  objects'[p] = objects[p]
  <2>1. objs[p] = objects[p] /\ p # n
    BY <1>5, <1>6, <1>8
  <2> QED
    BY <1>6, <2>1
<1> QED
  BY <1>1, <1>3, <1>4, <1>6, <1>7, <1>8 DEF Renewed

-----------------------------------------------------------------------------
(***************************************************************************)
(* The invariant.                                                          *)
(***************************************************************************)
LEMMA LogInvInit ==
  ASSUME Init
  PROVE  LogInv
<1>1. /\ accesses = <<>> /\ DOMAIN accesses = {} /\ nest = <<>> /\ Len(nest) = 0
      /\ accesses \in Seq(Logged) /\ nest \in Seq(Frame)
  BY DEF Init
<1>2. LoopsRight
  BY <1>1, DependenceAssumption DEF Init, LoopsRight, ZeroStack, Levels, Contexts
<1>3. ObjectsRight
  <2>1. [size |-> 0, serial |-> 0] \in [size : Int, serial : Nat]
    OBVIOUS
  <2>2. PICK none : none = [size |-> 0, serial |-> 0]
    OBVIOUS
  <2>3. none \in [size : Int, serial : Nat] /\ none.size = 0 /\ none.serial = 0
    BY <2>1, <2>2
  <2>4. objects = [a \in Addresses |-> none] /\ allocations = 0
        /\ mallocMap = [a \in Addresses |-> 0]
    BY <2>2 DEF Init
  <2> QED
    BY <2>3, <2>4, NoBytes DEF ObjectsRight, Placed
<1>4. full = FullState([a \in Addresses |-> NoLoads], NoLoads)
  <2>1. Full!NewElem = Untouched /\ Full!Nothing = NoLoads /\ Full!Zeros = ZeroStack
    BY DEF Full!NewElem, Untouched, Full!Nothing, NoLoads, Full!Zeros, ZeroStack, Full!Slots, Levels
  <2> QED
    BY <2>1 DEF Init, Full!campInitialize, FullState
<1>5. /\ full.loadMap = [a \in Addresses |-> NoLoads] /\ full.depTable = NoLoads
      /\ SameState
  BY <1>4 DEF FullState, SameState
<1>6. Untouched.campID = NoStore /\ DOMAIN NoLoads = {}
  BY DEF Untouched, NoLoads
<1>7. TablesRight
  BY <1>5, <1>6 DEF Init, TablesRight, PerByte
<1>8. LogRight /\ LogInHistory /\ EarlyInHistory /\ Dependences = {}
  BY <1>1 DEF LogRight, LogInHistory, EarlyInHistory, Dependences
<1>9. EveryDependenceRecorded /\ FirstIterationsComplete
  BY <1>8 DEF EveryDependenceRecorded, FirstIterationsComplete
<1> QED
  BY <1>2, <1>3, <1>7, <1>8, <1>9 DEF LogInv

LEMMA LogInvStep ==
  ASSUME FitsStack, LogInv, [Next]_vars
  PROVE  LogInv'
<1>1. LoopsRight /\ SameState
  BY DEF LogInv, TablesRight
<1>2. ASSUME NEW l \in Loops, LoopBegin(l)
      PROVE  LogInv'
  <2>1. HistoryStays
    BY <1>1, <1>2, LoopBeginAlike
  <2>2. LoopsOnly
    BY <1>2, <2>1 DEF LoopsOnly, HistoryStays, LoopBegin
  <2> QED
    BY <1>1, <1>2, <2>2, LoopBeginRight, LoopsOnlyKeeps
<1>3. CASE LoopNext
  <2>1. HistoryStays
    BY <1>1, <1>3, LoopNextAlike
  <2>2. LoopsOnly
    BY <1>3, <2>1 DEF LoopsOnly, HistoryStays, LoopNext
  <2> QED
    BY <1>1, <1>3, <2>2, LoopNextRight, LoopsOnlyKeeps
<1>4. CASE LoopEnd
  <2>1. HistoryStays
    BY <1>1, <1>4, LoopEndAlike
  <2>2. LoopsOnly
    BY <1>4, <2>1 DEF LoopsOnly, HistoryStays, LoopEnd
  <2> QED
    BY <1>1, <1>4, <2>2, LoopEndRight, LoopsOnlyKeeps
<1>5. ASSUME NEW instr, NEW o \in Addresses, NEW a \in Addresses, LoadInstr(instr, o, a)
      PROVE  LogInv'
  BY <1>5, LoadKeepsLogInv
<1>6. ASSUME NEW instr, NEW o \in Addresses, NEW a \in Addresses, StoreInstr(instr, o, a)
      PROVE  LogInv'
  BY <1>6, StoreKeepsLogInv
<1>7. ASSUME NEW o \in Addresses, NEW size \in Sizes, Malloc(o, size)
      PROVE  LogInv'
  <2>1. size \in Int
    BY DEF Sizes
  <2>2. Renewed({})
    BY <1>7, <2>1, MallocRenews
  <2> QED
    BY <2>2, RenewedKeepsLogInv
<1>8. ASSUME NEW o \in Addresses, NEW size \in Sizes, NEW num \in Sizes, Calloc(o, size, num)
      PROVE  LogInv'
  <2>1. PICK bytes : bytes = size * num /\ bytes \in Int
    BY DEF Sizes
  <2>2. Renewed({})
    BY <1>8, <2>1, MallocRenews
  <2> QED
    BY <2>2, RenewedKeepsLogInv
<1>9. ASSUME NEW o \in Addresses, NEW n \in Addresses, NEW size \in Sizes, Realloc(o, n, size)
      PROVE  LogInv'
  <2>1. size \in Int
    BY DEF Sizes
  <2>2. Renewed(Bytes(o, mallocMap[o]))
    BY <1>9, <2>1, ReallocRenews
  <2> QED
    BY <2>2, RenewedKeepsLogInv
<1>10. ASSUME NEW o \in Addresses, Free(o)
       PROVE  LogInv'
  BY <1>10, FreeRenews, RenewedKeepsLogInv
<1>11. CASE UNCHANGED vars
  <2>1. LoopsRight'
    BY <1>1, <1>11 DEF vars, iterVars, LoopsRight
  <2>2. LoopsOnly
    BY <1>1, <1>11 DEF vars, iterVars, shadowVars, LoopsOnly, SameState, FullState
  <2> QED
    BY <2>1, <2>2, LoopsOnlyKeeps
<1> QED
  BY <1>2, <1>3, <1>4, <1>5, <1>6, <1>7, <1>8, <1>9, <1>10, <1>11 DEF Next

(***************************************************************************)
(* Nothing is missed: if loops are never nested deeper than the stack of   *)
(* counters, camp's runtime records every dependence between two accesses  *)
(* of the program, and at every loop both are in, whether they came in the *)
(* same iteration (7 bits of its number) or in different ones, however     *)
(* objects are allocated, moved and freed in between.                      *)
(***************************************************************************)
THEOREM NoDependenceMissed ==
  ASSUME FitsStack
  PROVE  Spec => []EveryDependenceRecorded
<1>1. Init => LogInv
  BY LogInvInit
<1>2. LogInv /\ [Next]_vars => LogInv'
  BY LogInvStep
<1>3. LogInv => EveryDependenceRecorded
  BY DEF LogInv
<1> QED
  BY <1>1, <1>2, <1>3, PTL DEF Spec

(***************************************************************************)
(* The first iterations are complete: whatever campSampling's runtime has  *)
(* dropped before, a dependence of two accesses in first iterations of all *)
(* their loops is recorded, also when other, later iterations sampled away *)
(* accesses of the same byte in between.                                   *)
(***************************************************************************)
THEOREM FirstIterationsAreComplete ==
  ASSUME FitsStack
  PROVE  Spec => []FirstIterationsComplete
<1>1. Init => LogInv
  BY LogInvInit
<1>2. LogInv /\ [Next]_vars => LogInv'
  BY LogInvStep
<1>3. LogInv => FirstIterationsComplete
  BY DEF LogInv
<1> QED
  BY <1>1, <1>2, <1>3, PTL DEF Spec

-----------------------------------------------------------------------------
(***************************************************************************)
(* Nothing else is recorded.  An instruction of a context is executed in   *)
(* one nest of loops only: CampIDs name the loops of an access.            *)
(***************************************************************************)
OneNest(ctxOf) ==
  \A instr \in Loads \cup Stores : \A c, d \in At[instr] : ctxOf[c] = ctxOf[d] => c = d

\* Accesses were made where their instructions are, in the contexts they name.
InContexts(ctxOf, log) ==
  \A k \in DOMAIN log :
    /\ log[k].id[2] \in Loads \cup Stores
    /\ LoopsOf(log[k].nest) \in At[log[k].id[2]]
    /\ log[k].id[1] = ctxOf[LoopsOf(log[k].nest)]

\* Access k is one of those the entry of id in the element of byte a is for.
Stands(k, a, id) == Current(k) /\ accesses[k].addr = a /\ accesses[k].id = id

InTwoIterations(i, a, id) ==
  \E j, k \in DOMAIN accesses :
    /\ Stands(j, a, id) /\ Stands(k, a, id)
    /\ i \in LevelsOf(j) /\ i \in LevelsOf(k) /\ CountAt(j, i) # CountAt(k, i)

\* Every entry is of a current access, and mixed only where there are two.
HistoryInLog ==
  \A a \in Addresses :
    /\ storeElem[a].campID # NoStore =>
         /\ \E k \in DOMAIN accesses : Stands(k, a, storeElem[a].campID)
         /\ \A i \in Levels : ~ (storeElem[a].iterStack[i] >= IterMod)
    /\ \A id \in DOMAIN History(a) :
         /\ \E k \in DOMAIN accesses : Stands(k, a, id)
         /\ \A i \in Levels : History(a)[id][i] >= IterMod => InTwoIterations(i, a, id)

RealInv(ctxOf) ==
  /\ LogInv /\ ItersRight(ctxOf) /\ InContexts(ctxOf, accesses)
  /\ HistoryInLog /\ OnlyRealDependences

-----------------------------------------------------------------------------
(***************************************************************************)
(* Accesses with the same ids have the same loops in common.               *)
(***************************************************************************)
Common(m, n) ==
  {i \in Levels : i < Len(m) /\ i < Len(n) /\ \A k \in 1 .. i + 1 : m[k].loop = n[k].loop}

LEMMA LoopsDecideLevels ==
  ASSUME NEW m \in Seq(Frame), NEW n \in Seq(Frame), LoopsOf(m) = LoopsOf(n)
  PROVE  Len(m) = Len(n) /\ \A k \in 1 .. Len(m) : m[k].loop = n[k].loop
<1>1. /\ DOMAIN LoopsOf(m) = DOMAIN m /\ DOMAIN LoopsOf(n) = DOMAIN n
      /\ \A k \in DOMAIN m : LoopsOf(m)[k] = m[k].loop
      /\ \A k \in DOMAIN n : LoopsOf(n)[k] = n[k].loop
  BY DEF LoopsOf
<1>2. DOMAIN m = 1 .. Len(m) /\ DOMAIN n = 1 .. Len(n) /\ Len(m) \in Nat /\ Len(n) \in Nat
  OBVIOUS
<1>3. Len(m) = Len(n)
  <2>1. PICK b, c \in Nat : b = Len(m) /\ c = Len(n) /\ 1 .. b = 1 .. c
    BY <1>1, <1>2
  <2>2. b \in 1 .. b \/ b = 0
    BY <2>1
  <2>3. c \in 1 .. c \/ c = 0
    BY <2>1
  <2> QED
    BY <2>1, <2>2, <2>3
<1> QED
  BY <1>1, <1>2, <1>3

LEMMA CommonOfLoops ==
  ASSUME NEW m \in Seq(Frame), NEW n \in Seq(Frame), NEW p \in Seq(Frame), NEW q \in Seq(Frame),
         LoopsOf(m) = LoopsOf(p), LoopsOf(n) = LoopsOf(q)
  PROVE  Common(m, n) = Common(p, q)
<1>1. /\ Len(m) = Len(p) /\ \A k \in 1 .. Len(m) : m[k].loop = p[k].loop
      /\ Len(n) = Len(q) /\ \A k \in 1 .. Len(n) : n[k].loop = q[k].loop
  BY LoopsDecideLevels
<1>2. ASSUME NEW i \in Levels, i < Len(m), i < Len(n)
      PROVE  (\A k \in 1 .. i + 1 : m[k].loop = n[k].loop) <=>
             (\A k \in 1 .. i + 1 : p[k].loop = q[k].loop)
  <2>1. \A k \in 1 .. i + 1 : k \in 1 .. Len(m) /\ k \in 1 .. Len(n)
    BY <1>2 DEF Levels
  <2> QED
    BY <1>1, <2>1
<1> QED
  BY <1>1, <1>2 DEF Common

LEMMA SameIdSameLoops ==
  ASSUME NEW ctxOf, OneNest(ctxOf), NEW log, InContexts(ctxOf, log),
         NEW j \in DOMAIN log, NEW k \in DOMAIN log, log[j].id = log[k].id
  PROVE  LoopsOf(log[j].nest) = LoopsOf(log[k].nest)
BY DEF OneNest, InContexts

\* What a bit of a source says of its counter.
LEMMA BitMeaning ==
  ASSUME NEW old, NEW i
  PROVE  /\ <<i, "intra">> \in IterRelation(old) =>
              i \in CurLevels /\ isIntra(old[i], globalIterStack[i])
         /\ <<i, "inter">> \in IterRelation(old) =>
              i \in CurLevels /\ isInter(old[i], globalIterStack[i])
BY DEF IterRelation

-----------------------------------------------------------------------------
(***************************************************************************)
(* The table after an access whose sources are current accesses.           *)
(***************************************************************************)
\* How the new access relates to an earlier one at a level they have in common.
LEMMA RelationWith ==
  ASSUME LoopsRight, ObjectsRight, LogRight, NEW instr, NEW o, NEW a, Accessing(instr, o, a),
         NEW n, n = Len(accesses) + 1, NEW k \in DOMAIN accesses,
         NEW i, i \in CommonLevels(<<k, n>>)'
  PROVE  /\ i \in Levels /\ i \in LevelsOf(k) /\ globalIterStack[i] \in 0 .. IterMod - 1
         /\ CountAt(k, i) = globalIterStack[i] => <<i, "intra">> \in Relation(<<k, n>>)'
         /\ CountAt(k, i) # globalIterStack[i] => <<i, "inter">> \in Relation(<<k, n>>)'
<1>1. accesses'[k] = accesses[k] /\ accesses'[n].nest = nest
  BY LogAppended
<1>2. i \in Levels /\ i < Len(accesses[k].nest) /\ i < Len(nest)
  BY <1>1 DEF CommonLevels
<1>3. globalIterStack[i] = nest[i + 1].count % IterMod /\ globalIterStack[i] \in 0 .. IterMod - 1
  BY <1>2 DEF LoopsRight
<1>4. Relation(<<k, n>>)' = {<<j, IF CountAt(k, j) = nest[j + 1].count % IterMod
                                  THEN "intra" ELSE "inter">> : j \in CommonLevels(<<k, n>>)'}
  BY <1>1 DEF Relation, CountAt
<1> QED
  BY <1>2, <1>3, <1>4 DEF LevelsOf

LEMMA RealAfter ==
  ASSUME NEW ctxOf, OneNest(ctxOf), RealInv(ctxOf),
         NEW instr, NEW o, NEW a, Accessing(instr, o, a), NEW n, n = Len(accesses) + 1,
         InContexts(ctxOf, accesses'),
         NEW srcs, full'.depTable = Full!insertDep(full, srcs, CampID(instr)),
         \A src \in DOMAIN srcs :
           /\ \E k \in DOMAIN accesses :
                Stands(k, a, src) /\ StandsFor(srcs[src], k) /\ (IsStore(k) \/ instr \in Stores)
           /\ \A i \in Levels : srcs[src][i] >= IterMod =>
                src \in LoadIDs /\ instr \in Stores /\ InTwoIterations(i, a, src)
  PROVE  OnlyRealDependences'
<1>1. /\ LoopsRight /\ ObjectsRight /\ LogRight /\ SameState /\ OnlyRealDependences
  BY DEF RealInv, LogInv, TablesRight
<1>2. PICK id, table : id = CampID(instr) /\ table = full'.depTable
  OBVIOUS
<1>3. /\ DOMAIN table = DOMAIN full.depTable \cup {<<src, id>> : src \in DOMAIN srcs}
      /\ \A p \in DOMAIN table : \A bit \in table[p] :
           \/ p \in DOMAIN full.depTable /\ bit \in full.depTable[p]
           \/ \E src \in DOMAIN srcs : p = <<src, id>> /\ bit \in IterRelation(srcs[src])
  <2>1. table = Full!insertDep(full, srcs, id)
    BY <1>2
  <2>2. Inserted(full.depTable, table, srcs, id)
    BY <1>1, <2>1, InsertFacts
  <2>3. ASSUME NEW p \in DOMAIN table, NEW bit \in table[p]
        PROVE  \/ p \in DOMAIN full.depTable /\ bit \in full.depTable[p]
               \/ \E src \in DOMAIN srcs : p = <<src, id>> /\ bit \in IterRelation(srcs[src])
    <3>1. p \in DOMAIN full.depTable \/ \E src \in DOMAIN srcs : p = <<src, id>>
      BY <2>2, <2>3 DEF Inserted
    <3>2. CASE \E src \in DOMAIN srcs : p = <<src, id>>
      BY <2>2, <2>3, <3>2 DEF Inserted
    <3>3. CASE \A src \in DOMAIN srcs : p # <<src, id>>
      BY <2>2, <2>3, <3>1, <3>3 DEF Inserted
    <3> QED
      BY <3>2, <3>3
  <2> QED
    BY <2>2, <2>3 DEF Inserted
<1>4. /\ \A d \in Dependences : /\ d \in Dependences' /\ IdsOf(d)' = IdsOf(d)
                                /\ CommonLevels(d)' = CommonLevels(d)
                                /\ Relation(d)' = Relation(d)
  <2>1. Dependences \subseteq Dependences'
    BY <1>1, DependsAfter
  <2> QED
    BY <1>1, <2>1, OldAccesses
<1>5. /\ accesses'[n].id = id /\ n \in DOMAIN accesses' /\ accesses' \in Seq(Logged)
      /\ \A k \in DOMAIN accesses : accesses'[k] = accesses[k] /\ k \in DOMAIN accesses'
  <2>1. /\ accesses'[n].id = CampID(instr) /\ n \in Nat \ {0} /\ DOMAIN accesses' = 1 .. n
        /\ LogRight' /\ \A k \in DOMAIN accesses : accesses'[k] = accesses[k]
    BY <1>1, LogAppended
  <2>2. \A k \in DOMAIN accesses : k \in DOMAIN accesses'
    BY <1>1, OldAccesses
  <2> QED
    BY <1>2, <2>1, <2>2 DEF LogRight
<1>6. ASSUME NEW src, NEW k \in DOMAIN accesses, Stands(k, a, src), IsStore(k) \/ instr \in Stores
      PROVE  <<k, n>> \in Dependences' /\ IdsOf(<<k, n>>)' = <<src, id>>
  <2>1. Current(k) /\ accesses[k].addr = a /\ accesses[k].id = src
    BY <1>6 DEF Stands
  <2>2. <<k, n>> \in Dependences'
    BY <1>1, <1>6, <2>1, DependsAfter
  <2> QED
    BY <1>5, <2>1, <2>2 DEF IdsOf
<1>7. ASSUME NEW d \in Dependences', NEW e \in Dependences', IdsOf(d)' = IdsOf(e)'
      PROVE  CommonLevels(d)' = CommonLevels(e)'
  <2>1. /\ d[1] \in DOMAIN accesses' /\ d[2] \in DOMAIN accesses'
        /\ e[1] \in DOMAIN accesses' /\ e[2] \in DOMAIN accesses'
    BY DEF Dependences
  <2>2. PICK m, q, r, s : /\ m = accesses'[d[1]] /\ q = accesses'[d[2]]
                          /\ r = accesses'[e[1]] /\ s = accesses'[e[2]]
    OBVIOUS
  <2>3. m \in Logged /\ q \in Logged /\ r \in Logged /\ s \in Logged
    BY <1>5, <2>1, <2>2
  <2>4. m.nest \in Seq(Frame) /\ q.nest \in Seq(Frame) /\ r.nest \in Seq(Frame) /\ s.nest \in Seq(Frame)
    BY <2>3 DEF Logged
  <2>5. m.id = r.id /\ q.id = s.id
    BY <1>7, <2>2 DEF IdsOf
  <2>6. LoopsOf(m.nest) = LoopsOf(r.nest) /\ LoopsOf(q.nest) = LoopsOf(s.nest)
    BY <2>1, <2>2, <2>5, SameIdSameLoops
  <2>7. Common(m.nest, q.nest) = Common(r.nest, s.nest)
    BY <2>4, <2>6, CommonOfLoops
  <2> QED
    BY <2>2, <2>7 DEF CommonLevels, Common
<1>8. ASSUME NEW p, NEW d \in Dependences', IdsOf(d)' = p
      PROVE  Relation(d)' \subseteq RealRelation(p)'
  BY <1>8 DEF RealRelation
<1>9. ASSUME NEW p
      PROVE  RealRelation(p) \subseteq RealRelation(p)'
  BY <1>4 DEF RealRelation
<1>10. ASSUME NEW p \in DOMAIN table
       PROVE  \E d \in Dependences' : IdsOf(d)' = p
  <2>1. CASE p \in DOMAIN full.depTable
    <3>1. \E d \in Dependences : IdsOf(d) = p
      BY <1>1, <2>1 DEF OnlyRealDependences
    <3> QED
      BY <1>4, <3>1
  <2>2. CASE p \notin DOMAIN full.depTable
    <3>1. PICK src \in DOMAIN srcs : p = <<src, id>>
      BY <1>3, <1>10, <2>2
    <3> QED
      BY <1>6, <3>1
  <2> QED
    BY <2>1, <2>2
<1>11. ASSUME NEW src \in DOMAIN srcs, NEW p, p = <<src, id>>,
              NEW e \in Dependences', IdsOf(e)' = p, NEW i \in CommonLevels(e)'
       PROVE  /\ <<i, "inter">> \in IterRelation(srcs[src]) => <<i, "inter">> \in RealRelation(p)'
              /\ <<i, "intra">> \in IterRelation(srcs[src]) =>
                   \/ <<i, "intra">> \in RealRelation(p)'
                   \/ src \in LoadIDs /\ <<i, "inter">> \in RealRelation(p)'
  <2>1. PICK old, now : old = srcs[src] /\ now = globalIterStack[i]
    OBVIOUS
  <2>2. PICK k \in DOMAIN accesses :
          Stands(k, a, src) /\ StandsFor(old, k) /\ (IsStore(k) \/ instr \in Stores)
    BY <2>1
  <2>3. ASSUME NEW j \in DOMAIN accesses, Stands(j, a, src), IsStore(j) \/ instr \in Stores
        PROVE  /\ i \in LevelsOf(j) /\ i \in Levels /\ now \in 0 .. IterMod - 1
               /\ CountAt(j, i) = now => <<i, "intra">> \in RealRelation(p)'
               /\ CountAt(j, i) # now => <<i, "inter">> \in RealRelation(p)'
    <3>1. <<j, n>> \in Dependences' /\ IdsOf(<<j, n>>)' = p
      BY <1>6, <1>11, <2>3
    <3>2. i \in CommonLevels(<<j, n>>)'
      BY <1>7, <1>11, <3>1
    <3>3. Relation(<<j, n>>)' \subseteq RealRelation(p)'
      BY <1>8, <3>1
    <3> QED
      BY <1>1, <2>1, <3>2, <3>3, RelationWith
  <2>4. CASE old[i] >= IterMod
    <3>1. i \in Levels
      BY <2>2, <2>3
    <3>2. src \in LoadIDs /\ instr \in Stores /\ InTwoIterations(i, a, src)
      BY <2>1, <2>4, <3>1
    <3>3. PICK j, m \in DOMAIN accesses :
            Stands(j, a, src) /\ Stands(m, a, src) /\ CountAt(j, i) # CountAt(m, i)
      BY <3>2 DEF InTwoIterations
    <3>4. <<i, "inter">> \in RealRelation(p)'
      BY <2>3, <3>2, <3>3
    <3> QED
      BY <3>2, <3>4
  <2>5. CASE ~ (old[i] >= IterMod)
    <3>1. i \in LevelsOf(k) /\ now \in 0 .. IterMod - 1 /\ old[i] = CountAt(k, i)
      BY <2>2, <2>3, <2>5 DEF StandsFor
    <3>2. IterMod \in Nat \ {0} /\ (now % IterMod) = now /\ ~ (now >= IterMod)
      <4>1. IterMod \in Nat \ {0}
        BY DependenceAssumption
      <4> QED
        BY <3>1, <4>1
    <3>3. old[i] % IterMod = old[i]
      <4>1. accesses[k] \in Logged
        BY <1>1 DEF LogRight
      <4>2. PICK m : m = accesses[k].nest /\ m \in Seq(Frame)
        BY <4>1 DEF Logged
      <4>3. i \in Levels /\ i < Len(m)
        BY <3>1, <4>2 DEF LevelsOf
      <4>4. m[i + 1] \in Frame
        BY <4>2, <4>3 DEF Levels
      <4>5. PICK c \in Nat : c = m[i + 1].count
        BY <4>4 DEF Frame
      <4>6. old[i] = c % IterMod
        BY <3>1, <4>2, <4>5 DEF CountAt
      <4>7. (c % IterMod) \in 0 .. IterMod - 1
        BY <3>2, <4>5
      <4> QED
        BY <3>2, <4>6, <4>7
    <3>4. <<i, "intra">> \in IterRelation(old) => CountAt(k, i) = now
      BY <2>1, <2>5, <3>1, <3>2, <3>3, BitMeaning DEF isIntra, Mixed
    <3>5. <<i, "inter">> \in IterRelation(old) => CountAt(k, i) # now
      BY <2>1, <2>5, <3>1, <3>2, <3>3, BitMeaning DEF isInter, Mixed
    <3> QED
      BY <2>1, <2>2, <2>3, <3>4, <3>5
  <2> QED
    BY <2>4, <2>5
<1>12. ASSUME NEW p \in DOMAIN table, NEW e \in Dependences', IdsOf(e)' = p,
              NEW i \in CommonLevels(e)'
       PROVE  /\ <<i, "inter">> \in table[p] => <<i, "inter">> \in RealRelation(p)'
              /\ <<i, "intra">> \in table[p] =>
                   \/ <<i, "intra">> \in RealRelation(p)'
                   \/ p[1] \in LoadIDs /\ <<i, "inter">> \in RealRelation(p)'
  <2>1. ASSUME p \in DOMAIN full.depTable
        PROVE  /\ <<i, "inter">> \in full.depTable[p] => <<i, "inter">> \in RealRelation(p)'
               /\ <<i, "intra">> \in full.depTable[p] =>
                    \/ <<i, "intra">> \in RealRelation(p)'
                    \/ p[1] \in LoadIDs /\ <<i, "inter">> \in RealRelation(p)'
    <3>1. PICK d \in Dependences : IdsOf(d) = p
      BY <1>1, <2>1 DEF OnlyRealDependences
    <3>2. i \in CommonLevels(d)
      <4>1. d \in Dependences' /\ IdsOf(d)' = p /\ CommonLevels(d)' = CommonLevels(d)
        BY <1>4, <3>1
      <4> QED
        BY <1>7, <1>12, <4>1
    <3>3. i \in UNION {CommonLevels(f) : f \in {g \in Dependences : IdsOf(g) = p}}
      BY <3>1, <3>2
    <3>4. /\ <<i, "inter">> \in full.depTable[p] => <<i, "inter">> \in RealRelation(p)
          /\ <<i, "intra">> \in full.depTable[p] =>
               \/ <<i, "intra">> \in RealRelation(p)
               \/ p[1] \in LoadIDs /\ <<i, "inter">> \in RealRelation(p)
      BY <1>1, <2>1, <3>3 DEF OnlyRealDependences
    <3> QED
      BY <1>9, <3>4
  <2>2. ASSUME NEW src \in DOMAIN srcs, p = <<src, id>>
        PROVE  /\ <<i, "inter">> \in IterRelation(srcs[src]) => <<i, "inter">> \in RealRelation(p)'
               /\ <<i, "intra">> \in IterRelation(srcs[src]) =>
                    \/ <<i, "intra">> \in RealRelation(p)'
                    \/ p[1] \in LoadIDs /\ <<i, "inter">> \in RealRelation(p)'
    BY <1>11, <1>12, <2>2
  <2> QED
    BY <1>3, <2>1, <2>2
<1>13. ASSUME NEW p \in DOMAIN table
       PROVE  /\ \E d \in Dependences' : IdsOf(d)' = p
              /\ \A i \in UNION {CommonLevels(d)' : d \in {e \in Dependences' : IdsOf(e)' = p}} :
                   /\ <<i, "inter">> \in table[p] => <<i, "inter">> \in RealRelation(p)'
                   /\ <<i, "intra">> \in table[p] =>
                        \/ <<i, "intra">> \in RealRelation(p)'
                        \/ p[1] \in LoadIDs /\ <<i, "inter">> \in RealRelation(p)'
  BY <1>10, <1>12
<1> QED
  BY <1>2, <1>13 DEF OnlyRealDependences

-----------------------------------------------------------------------------
(***************************************************************************)
(* Accesses keep the history in the log.                                   *)
(***************************************************************************)
LEMMA StandsAfter ==
  ASSUME LoopsRight, ObjectsRight, LogRight, NEW instr, NEW o, NEW a, Accessing(instr, o, a),
         NEW n, n = Len(accesses) + 1
  PROVE  /\ n \in DOMAIN accesses' /\ Stands(n, a, CampID(instr))'
         /\ \A k \in DOMAIN accesses : k \in DOMAIN accesses'
         /\ \A k \in DOMAIN accesses : \A b, id :
              Stands(k, b, id) /\ (instr \in Stores => b # a) => Stands(k, b, id)'
<1>1. /\ n \in Nat \ {0} /\ DOMAIN accesses' = 1 .. n
      /\ accesses'[n].id = CampID(instr) /\ accesses'[n].addr = a
  BY LogAppended
<1>2. n \in DOMAIN accesses' /\ Current(n)'
  BY <1>1, CurrentAfter
<1>3. Stands(n, a, CampID(instr))'
  <2>1. PICK id : id = CampID(instr)
    OBVIOUS
  <2>2. UNCHANGED <<currentCtx>>
    BY DEF Accessing, iterVars
  <2> QED
    BY <1>1, <1>2, <2>2 DEF Stands, CampID
<1>4. ASSUME NEW k \in DOMAIN accesses, NEW b, NEW id, Stands(k, b, id), instr \in Stores => b # a
      PROVE  Stands(k, b, id)'
  <2>1. Current(k) /\ accesses[k].addr = b /\ accesses[k].id = id
    BY <1>4 DEF Stands
  <2>2. Current(k)' /\ accesses'[k] = accesses[k]
    <3>1. Current(k)' <=> Current(k) /\ (instr \in Stores => accesses[k].addr # a)
      BY CurrentAfter
    <3>2. accesses'[k] = accesses[k]
      BY OldAccesses
    <3> QED
      BY <1>4, <2>1, <3>1, <3>2
  <2> QED
    BY <2>1, <2>2 DEF Stands
<1>5. \A k \in DOMAIN accesses : k \in DOMAIN accesses'
  BY OldAccesses
<1> QED
  BY <1>2, <1>3, <1>4, <1>5

LEMMA TwoIterationsAfter ==
  ASSUME LoopsRight, ObjectsRight, LogRight, NEW instr, NEW o, NEW a, Accessing(instr, o, a),
         NEW i, NEW b, NEW id, InTwoIterations(i, b, id), instr \in Stores => b # a
  PROVE  InTwoIterations(i, b, id)'
<1>1. PICK j, k \in DOMAIN accesses :
        /\ Stands(j, b, id) /\ Stands(k, b, id)
        /\ i \in LevelsOf(j) /\ i \in LevelsOf(k) /\ CountAt(j, i) # CountAt(k, i)
  BY DEF InTwoIterations
<1>2. /\ j \in DOMAIN accesses' /\ k \in DOMAIN accesses'
      /\ Stands(j, b, id)' /\ Stands(k, b, id)'
  BY <1>1, StandsAfter
<1>3. /\ LevelsOf(j)' = LevelsOf(j) /\ LevelsOf(k)' = LevelsOf(k)
      /\ CountAt(j, i)' = CountAt(j, i) /\ CountAt(k, i)' = CountAt(k, i)
  BY <1>1, OldAccesses
<1> QED
  BY <1>1, <1>2, <1>3 DEF InTwoIterations

LEMMA InContextsAfter ==
  ASSUME NEW ctxOf, RealInv(ctxOf), NEW instr, NEW o, NEW a,
         Accessing(instr, o, a), CanAccess(instr, o, a)
  PROVE  InContexts(ctxOf, accesses')
<1>1. /\ LoopsRight /\ ObjectsRight /\ LogRight /\ ItersRight(ctxOf) /\ InContexts(ctxOf, accesses)
  BY DEF RealInv, LogInv
<1>2. PICK n : n = Len(accesses) + 1
  OBVIOUS
<1>3. /\ n \in Nat \ {0} /\ DOMAIN accesses = 1 .. n - 1 /\ DOMAIN accesses' = 1 .. n
      /\ accesses'[n].id = CampID(instr) /\ accesses'[n].nest = nest
      /\ \A k \in DOMAIN accesses : accesses'[k] = accesses[k]
  BY <1>1, <1>2, LogAppended
<1>4. CampID(instr)[1] = currentCtx /\ CampID(instr)[2] = instr
  BY DEF CampID
<1>5. /\ currentCtx = ctxOf[LoopsOf(nest)] /\ LoopsOf(nest) \in At[instr]
      /\ instr \in Loads \cup Stores
  BY <1>1 DEF ItersRight, CanAccess, Accessing, Chain
<1>6. ASSUME NEW k \in DOMAIN accesses'
      PROVE  /\ accesses'[k].id[2] \in Loads \cup Stores
             /\ LoopsOf(accesses'[k].nest) \in At[accesses'[k].id[2]]
             /\ accesses'[k].id[1] = ctxOf[LoopsOf(accesses'[k].nest)]
  <2>1. CASE k = n
    BY <1>3, <1>4, <1>5, <2>1
  <2>2. CASE k # n
    <3>1. k \in DOMAIN accesses
      BY <1>3, <1>6, <2>2
    <3> QED
      BY <1>1, <1>3, <3>1 DEF InContexts
  <2> QED
    BY <2>1, <2>2
<1> QED
  BY <1>6 DEF InContexts

LEMMA ItersAfter ==
  ASSUME NEW ctxOf, ItersRight(ctxOf), NEW instr, NEW o, NEW a, Accessing(instr, o, a)
  PROVE  ItersRight(ctxOf)'
BY ItersKept DEF Accessing

\* The sources a byte offers are current accesses of it.
LEMMA LastStoreStands ==
  ASSUME NEW ctxOf, RealInv(ctxOf), NEW a \in Addresses, NEW src, src \in DOMAIN LastStore(a)
  PROVE  /\ \E k \in DOMAIN accesses :
              Stands(k, a, src) /\ StandsFor(LastStore(a)[src], k) /\ IsStore(k)
         /\ \A i \in Levels : ~ (LastStore(a)[src][i] >= IterMod)
<1>1. TablesRight /\ LogInHistory /\ HistoryInLog
  BY DEF RealInv, LogInv
<1>2. /\ storeElem[a].campID # NoStore /\ src = storeElem[a].campID
      /\ LastStore(a)[src] = storeElem[a].iterStack
  BY DEF LastStore, NoLoads
<1>3. src \in StoreIDs
  BY <1>1, <1>2 DEF TablesRight
<1>4. PICK k \in DOMAIN accesses : Stands(k, a, src)
  BY <1>1, <1>2 DEF HistoryInLog
<1>5. Current(k) /\ accesses[k].addr = a /\ accesses[k].id = src /\ IsStore(k)
  BY <1>3, <1>4 DEF Stands, IsStore
<1>6. StoreKnown(k)
  BY <1>1, <1>5 DEF LogInHistory
<1>7. StandsFor(LastStore(a)[src], k)
  BY <1>1, <1>3, <1>5, <1>6, StoreSource
<1>8. \A i \in Levels : ~ (storeElem[a].iterStack[i] >= IterMod)
  BY <1>1, <1>2 DEF HistoryInLog
<1> QED
  BY <1>2, <1>4, <1>5, <1>7, <1>8

LEMMA LoadsStand ==
  ASSUME NEW ctxOf, RealInv(ctxOf), NEW a \in Addresses, NEW src, src \in DOMAIN History(a)
  PROVE  /\ src \in LoadIDs /\ src \notin StoreIDs
         /\ \E k \in DOMAIN accesses : Stands(k, a, src) /\ StandsFor(History(a)[src], k)
         /\ \A i \in Levels : History(a)[src][i] >= IterMod => InTwoIterations(i, a, src)
<1>1. TablesRight /\ LogInHistory /\ HistoryInLog /\ LoopsRight
  BY DEF RealInv, LogInv
<1>2. src \in LoadIDs /\ src \notin StoreIDs
  BY <1>1, DependenceAssumption DEF TablesRight, History, LoadIDs, StoreIDs
<1>3. PICK k \in DOMAIN accesses : Stands(k, a, src)
  BY <1>1 DEF HistoryInLog
<1>4. Current(k) /\ accesses[k].addr = a /\ accesses[k].id = src /\ ~ IsStore(k)
  BY <1>2, <1>3 DEF Stands, IsStore
<1>5. LoadKnown(k)
  BY <1>1, <1>4 DEF LogInHistory
<1>6. StandsFor(History(a)[src], k)
  BY <1>4, <1>5 DEF LoadKnown, History
<1>7. \A i \in Levels : History(a)[src][i] >= IterMod => InTwoIterations(i, a, src)
  BY <1>1 DEF HistoryInLog
<1> QED
  BY <1>2, <1>3, <1>6, <1>7

LEMMA SourcesStand ==
  ASSUME NEW ctxOf, RealInv(ctxOf), NEW a \in Addresses,
         NEW src, src \in DOMAIN Full!Over(History(a), LastStore(a))
  PROVE  /\ \E k \in DOMAIN accesses :
              Stands(k, a, src) /\ StandsFor(Full!Over(History(a), LastStore(a))[src], k)
         /\ \A i \in Levels : Full!Over(History(a), LastStore(a))[src][i] >= IterMod =>
              src \in LoadIDs /\ InTwoIterations(i, a, src)
<1>1. PICK hist, last, both :
        /\ hist = History(a) /\ last = LastStore(a)
        /\ both = Full!Over(History(a), LastStore(a))
  OBVIOUS
<1>2. both = Full!Over(hist, last)
  BY <1>1
<1>3. /\ DOMAIN both = DOMAIN hist \cup DOMAIN last
      /\ \A y \in DOMAIN hist : both[y] = hist[y]
      /\ \A y \in DOMAIN last : y \notin DOMAIN hist => both[y] = last[y]
  BY <1>2 DEF Full!Over
<1>4. CASE src \in DOMAIN hist
  <2>1. /\ src \in LoadIDs
        /\ \E k \in DOMAIN accesses : Stands(k, a, src) /\ StandsFor(hist[src], k)
        /\ \A i \in Levels : hist[src][i] >= IterMod => InTwoIterations(i, a, src)
    BY <1>1, <1>4, LoadsStand
  <2> QED
    BY <1>1, <1>3, <1>4, <2>1
<1>5. CASE src \notin DOMAIN hist
  <2>1. src \in DOMAIN last /\ both[src] = last[src]
    BY <1>1, <1>3, <1>5
  <2>2. /\ \E k \in DOMAIN accesses : Stands(k, a, src) /\ StandsFor(last[src], k)
        /\ \A i \in Levels : ~ (last[src][i] >= IterMod)
    BY <1>1, <2>1, LastStoreStands
  <2> QED
    BY <1>1, <2>1, <2>2
<1> QED
  BY <1>4, <1>5

\* A counter a load marks as mixed has been another one.
LEMMA MixedSinceTwo ==
  ASSUME NEW ctxOf, OneNest(ctxOf), RealInv(ctxOf), NEW instr, NEW o, NEW a \in Addresses,
         Accessing(instr, o, a), InContexts(ctxOf, accesses'), NEW id, id = CampID(instr),
         instr \notin Stores, id \in DOMAIN History(a),
         NEW i \in Levels, Merge(History(a)[id])[i] >= IterMod
  PROVE  InTwoIterations(i, a, id)'
<1>1. /\ LoopsRight /\ ObjectsRight /\ LogRight /\ SameState
      /\ globalIterStack \in [Levels -> 0 .. IterMod - 1] /\ IterMod \in Nat \ {0}
  BY LoopsRightFacts DEF RealInv, LogInv, TablesRight
<1>2. PICK n, old : n = Len(accesses) + 1 /\ old = History(a)[id]
  OBVIOUS
<1>3. CASE old[i] >= IterMod
  <2>1. InTwoIterations(i, a, id)
    BY <1>2, <1>3, LoadsStand
  <2> QED
    BY <1>1, <2>1, TwoIterationsAfter
<1>4. CASE ~ (old[i] >= IterMod)
  <2>1. i \in CurLevels /\ old[i] # globalIterStack[i]
    BY <1>2, <1>4 DEF Merge
  <2>2. PICK k \in DOMAIN accesses : Stands(k, a, id) /\ StandsFor(old, k)
    BY <1>2, LoadsStand
  <2>3. /\ n \in DOMAIN accesses' /\ k \in DOMAIN accesses'
        /\ Stands(n, a, id)' /\ Stands(k, a, id)'
    <3>1. CampID(instr)' = CampID(instr)
      BY DEF Accessing, iterVars, CampID
    <3>2. n \in DOMAIN accesses' /\ k \in DOMAIN accesses' /\ Stands(n, a, CampID(instr))'
      BY <1>1, <1>2, StandsAfter
    <3>3. Stands(k, a, id)'
      BY <1>1, <1>2, <2>2, StandsAfter
    <3> QED
      BY <3>1, <3>2, <3>3
  <2>4. /\ accesses'[n].id = id /\ accesses'[k].id = id /\ accesses'[n].nest = nest
        /\ accesses'[k] = accesses[k]
    BY <1>1, <1>2, <2>2, <2>3, LogAppended DEF Stands
  <2>5. LoopsOf(accesses[k].nest) = LoopsOf(nest)
    <3>1. LoopsOf(accesses'[k].nest) = LoopsOf(accesses'[n].nest)
      BY <2>3, <2>4, SameIdSameLoops
    <3> QED
      BY <2>4, <3>1
  <2>6. Len(accesses[k].nest) = Len(nest) /\ nest \in Seq(Frame)
    <3>1. accesses[k] \in Logged
      BY <1>1 DEF LogRight
    <3>2. accesses[k].nest \in Seq(Frame) /\ nest \in Seq(Frame)
      BY <1>1, <3>1 DEF Logged, LoopsRight
    <3> QED
      BY <2>5, <3>2, LoopsDecideLevels
  <2>7. i < Len(nest)
    <3>1. globalIterStackIdx = Len(nest) - 1 /\ Len(nest) \in Nat
      BY <1>1, LoopsRightFacts
    <3> QED
      BY <2>1, <3>1 DEF CurLevels
  <2>8. i \in LevelsOf(k) /\ old[i] = CountAt(k, i)
    <3>1. i \in LevelsOf(k)
      BY <2>6, <2>7 DEF LevelsOf
    <3> QED
      BY <1>4, <2>2, <3>1 DEF StandsFor
  <2>9. i \in LevelsOf(n)' /\ CountAt(n, i)' = globalIterStack[i]
    <3>1. globalIterStack[i] = nest[i + 1].count % IterMod
      BY <1>1, <2>7 DEF LoopsRight
    <3> QED
      BY <2>4, <2>7, <3>1 DEF LevelsOf, CountAt
  <2>10. i \in LevelsOf(k)' /\ CountAt(k, i)' = CountAt(k, i)
    BY <1>1, <2>8, OldAccesses
  <2>11. CountAt(k, i)' # CountAt(n, i)'
    BY <2>1, <2>8, <2>9, <2>10
  <2> QED
    BY <2>3, <2>9, <2>10, <2>11 DEF InTwoIterations
<1> QED
  BY <1>3, <1>4

LEMMA LoadKeepsReal ==
  ASSUME NEW ctxOf, OneNest(ctxOf), RealInv(ctxOf),
         NEW instr, NEW o \in Addresses, NEW a \in Addresses, LoadInstr(instr, o, a)
  PROVE  RealInv(ctxOf)'
<1>1. /\ LogInv /\ LoopsRight /\ ObjectsRight /\ LogRight /\ TablesRight /\ SameState
      /\ ItersRight(ctxOf) /\ HistoryInLog
  BY DEF RealInv, LogInv, TablesRight
<1>2. PICK n, id, f, g : /\ n = Len(accesses) + 1 /\ id = CampID(instr)
                         /\ f = History(a) /\ g = History(a)'
  OBVIOUS
<1>3. /\ Accessing(instr, o, a) /\ instr \in Loads /\ instr \notin Stores
      /\ storeElem' = storeElem
      /\ \A b \in Addresses : b # a => History(b)' = History(b)
      /\ DOMAIN g = DOMAIN f \cup {id}
      /\ \A x \in DOMAIN f : x # id => g[x] = f[x]
      /\ id \in DOMAIN f => g[id] = Merge(f[id])
      /\ id \notin DOMAIN f => g[id] = globalIterStack
      /\ full'.depTable = Full!insertDep(full, LastStore(a), id)
  BY <1>1, <1>2, LoadFacts
<1>4. LogInv' /\ ItersRight(ctxOf)' /\ InContexts(ctxOf, accesses')
  <2>1. CanAccess(instr, o, a)
    BY DEF LoadInstr
  <2> QED
    BY <1>1, <1>3, <2>1, LoadKeepsLogInv, ItersAfter, InContextsAfter
<1>5. ASSUME NEW b, NEW x, NEW k \in DOMAIN accesses, Stands(k, b, x)
      PROVE  k \in DOMAIN accesses' /\ Stands(k, b, x)'
  BY <1>1, <1>2, <1>3, <1>5, StandsAfter
<1>6. ASSUME NEW b, NEW x, NEW i, InTwoIterations(i, b, x)
      PROVE  InTwoIterations(i, b, x)'
  BY <1>1, <1>3, <1>6, TwoIterationsAfter
<1>7. n \in DOMAIN accesses' /\ Stands(n, a, id)'
  <2>1. CampID(instr)' = id
    BY <1>2, <1>3 DEF Accessing, iterVars, CampID
  <2> QED
    BY <1>1, <1>2, <1>3, <2>1, StandsAfter
<1>8. ASSUME NEW b \in Addresses, storeElem'[b].campID # NoStore
      PROVE  /\ \E k \in DOMAIN accesses' : Stands(k, b, storeElem[b].campID)'
             /\ \A i \in Levels : ~ (storeElem'[b].iterStack[i] >= IterMod)
  <2>1. PICK x : x = storeElem[b].campID
    OBVIOUS
  <2>2. /\ \E k \in DOMAIN accesses : Stands(k, b, x)
        /\ \A i \in Levels : ~ (storeElem[b].iterStack[i] >= IterMod)
    BY <1>1, <1>3, <1>8, <2>1 DEF HistoryInLog
  <2>3. storeElem'[b].campID = x
    BY <1>3, <2>1
  <2>4. \E k \in DOMAIN accesses' : Stands(k, b, x)'
    BY <1>5, <2>2
  <2> QED
    BY <1>3, <2>2, <2>3, <2>4 DEF Stands
<1>9. ASSUME NEW b \in Addresses, NEW x \in DOMAIN History(b)'
      PROVE  /\ \E k \in DOMAIN accesses' : Stands(k, b, x)'
             /\ \A i \in Levels : History(b)'[x][i] >= IterMod => InTwoIterations(i, b, x)'
  <2>1. CASE x \in DOMAIN History(b) /\ History(b)'[x] = History(b)[x]
    <3>1. /\ \E k \in DOMAIN accesses : Stands(k, b, x)
          /\ \A i \in Levels : History(b)[x][i] >= IterMod => InTwoIterations(i, b, x)
      BY <1>1, <2>1 DEF HistoryInLog
    <3> QED
      BY <1>5, <1>6, <2>1, <3>1
  <2>2. CASE ~ (x \in DOMAIN History(b) /\ History(b)'[x] = History(b)[x])
    <3>1. b = a
      BY <1>3, <1>9, <2>2
    <3>2. x \in DOMAIN g /\ ~ (x \in DOMAIN f /\ g[x] = f[x])
      BY <1>2, <1>9, <2>2, <3>1
    <3>3. x = id
      BY <1>3, <3>2
    <3>4. ASSUME NEW i \in Levels, g[id][i] >= IterMod
          PROVE  InTwoIterations(i, a, id)'
      <4>1. id \in DOMAIN f
        <5>1. globalIterStack[i] \in 0 .. IterMod - 1 /\ IterMod \in Nat \ {0}
          BY <1>1, LoopsRightFacts
        <5>2. ~ (globalIterStack[i] >= IterMod)
          BY <5>1
        <5> QED
          BY <1>3, <3>4, <5>2
      <4>2. Merge(f[id])[i] >= IterMod
        BY <1>3, <3>4, <4>1
      <4> QED
        BY <1>2, <1>3, <1>4, <4>1, <4>2, MixedSinceTwo
    <3> QED
      BY <1>2, <1>7, <3>1, <3>3, <3>4
  <2> QED
    BY <2>1, <2>2
<1>10. HistoryInLog'
  <2>1. ASSUME NEW b \in Addresses, storeElem'[b].campID # NoStore
        PROVE  \E k \in DOMAIN accesses' : Stands(k, b, storeElem[b].campID)'
    BY <1>8, <2>1
  <2> QED
    BY <1>8, <1>9, <2>1 DEF HistoryInLog
<1>11. OnlyRealDependences'
  <2>1. ASSUME NEW src \in DOMAIN LastStore(a)
        PROVE  /\ \E k \in DOMAIN accesses :
                    Stands(k, a, src) /\ StandsFor(LastStore(a)[src], k) /\ IsStore(k)
               /\ \A i \in Levels : ~ (LastStore(a)[src][i] >= IterMod)
    BY <2>1, LastStoreStands
  <2>2. PICK srcs : srcs = LastStore(a)
    OBVIOUS
  <2>3. full'.depTable = Full!insertDep(full, srcs, CampID(instr))
    BY <1>2, <1>3, <2>2
  <2>4. \A src \in DOMAIN srcs :
          /\ \E k \in DOMAIN accesses :
               Stands(k, a, src) /\ StandsFor(srcs[src], k) /\ (IsStore(k) \/ instr \in Stores)
          /\ \A i \in Levels : srcs[src][i] >= IterMod =>
               src \in LoadIDs /\ instr \in Stores /\ InTwoIterations(i, a, src)
    BY <2>1, <2>2
  <2> QED
    BY <1>2, <1>3, <1>4, <2>3, <2>4, RealAfter
<1> QED
  BY <1>4, <1>10, <1>11 DEF RealInv

LEMMA StoreKeepsReal ==
  ASSUME NEW ctxOf, OneNest(ctxOf), RealInv(ctxOf),
         NEW instr, NEW o \in Addresses, NEW a \in Addresses, StoreInstr(instr, o, a)
  PROVE  RealInv(ctxOf)'
<1>1. /\ LogInv /\ LoopsRight /\ ObjectsRight /\ LogRight /\ TablesRight /\ SameState
      /\ ItersRight(ctxOf) /\ HistoryInLog
  BY DEF RealInv, LogInv, TablesRight
<1>2. PICK n, id : n = Len(accesses) + 1 /\ id = CampID(instr)
  OBVIOUS
<1>3. /\ Accessing(instr, o, a) /\ instr \in Stores
      /\ \A b \in Addresses : b # a => History(b)' = History(b) /\ storeElem'[b] = storeElem[b]
      /\ History(a)' = NoLoads
      /\ storeElem'[a] = [campID |-> id, iterStack |-> globalIterStack]
      /\ full'.depTable = Full!insertDep(full, Full!Over(History(a), LastStore(a)), id)
  BY <1>1, <1>2, StoreFacts
<1>4. LogInv' /\ ItersRight(ctxOf)' /\ InContexts(ctxOf, accesses')
  <2>1. CanAccess(instr, o, a)
    BY DEF StoreInstr
  <2> QED
    BY <1>1, <1>3, <2>1, StoreKeepsLogInv, ItersAfter, InContextsAfter
<1>5. ASSUME NEW b, b # a, NEW x, NEW k \in DOMAIN accesses, Stands(k, b, x)
      PROVE  k \in DOMAIN accesses' /\ Stands(k, b, x)'
  BY <1>1, <1>2, <1>3, <1>5, StandsAfter
<1>6. ASSUME NEW b, b # a, NEW x, NEW i, InTwoIterations(i, b, x)
      PROVE  InTwoIterations(i, b, x)'
  BY <1>1, <1>3, <1>6, TwoIterationsAfter
<1>7. n \in DOMAIN accesses' /\ Stands(n, a, id)'
  <2>1. CampID(instr)' = id
    BY <1>2, <1>3 DEF Accessing, iterVars, CampID
  <2> QED
    BY <1>1, <1>2, <1>3, <2>1, StandsAfter
<1>8. ASSUME NEW b \in Addresses, NEW x, storeElem'[b].campID = x, x # NoStore
      PROVE  /\ \E k \in DOMAIN accesses' : Stands(k, b, x)'
             /\ \A i \in Levels : ~ (storeElem'[b].iterStack[i] >= IterMod)
  <2>1. CASE b = a
    <3>1. PICK elem : elem = storeElem'[a] /\ elem.campID = id /\ elem.iterStack = globalIterStack
      BY <1>3
    <3>2. ASSUME NEW i \in Levels
          PROVE  ~ (globalIterStack[i] >= IterMod)
      <4>1. globalIterStack[i] \in 0 .. IterMod - 1 /\ IterMod \in Nat \ {0}
        BY <1>1, LoopsRightFacts
      <4> QED
        BY <4>1
    <3> QED
      BY <1>7, <1>8, <2>1, <3>1, <3>2
  <2>2. CASE b # a
    <3>1. storeElem'[b] = storeElem[b]
      BY <1>3, <2>2
    <3>2. /\ \E k \in DOMAIN accesses : Stands(k, b, x)
          /\ \A i \in Levels : ~ (storeElem[b].iterStack[i] >= IterMod)
      BY <1>1, <1>8, <3>1 DEF HistoryInLog
    <3> QED
      BY <1>5, <2>2, <3>1, <3>2
  <2> QED
    BY <2>1, <2>2
<1>9. ASSUME NEW b \in Addresses, NEW x \in DOMAIN History(b)'
      PROVE  /\ \E k \in DOMAIN accesses' : Stands(k, b, x)'
             /\ \A i \in Levels : History(b)'[x][i] >= IterMod => InTwoIterations(i, b, x)'
  <2>1. b # a
    BY <1>3, <1>9 DEF NoLoads
  <2>2. History(b)' = History(b)
    BY <1>3, <2>1
  <2>3. /\ \E k \in DOMAIN accesses : Stands(k, b, x)
        /\ \A i \in Levels : History(b)[x][i] >= IterMod => InTwoIterations(i, b, x)
    BY <1>1, <1>9, <2>2 DEF HistoryInLog
  <2> QED
    BY <1>5, <1>6, <2>1, <2>2, <2>3
<1>10. HistoryInLog'
  <2>1. ASSUME NEW b \in Addresses, storeElem'[b].campID # NoStore
        PROVE  \E k \in DOMAIN accesses' : Stands(k, b, storeElem[b].campID)'
    <3>1. PICK x : x = storeElem'[b].campID
      OBVIOUS
    <3>2. \E k \in DOMAIN accesses' : Stands(k, b, x)'
      BY <1>8, <2>1, <3>1
    <3> QED
      BY <3>1, <3>2 DEF Stands
  <2> QED
    BY <1>8, <1>9, <2>1 DEF HistoryInLog
<1>11. OnlyRealDependences'
  <2>1. PICK srcs : srcs = Full!Over(History(a), LastStore(a))
    OBVIOUS
  <2>2. ASSUME NEW src \in DOMAIN srcs
        PROVE  /\ \E k \in DOMAIN accesses : Stands(k, a, src) /\ StandsFor(srcs[src], k)
               /\ \A i \in Levels : srcs[src][i] >= IterMod =>
                    src \in LoadIDs /\ InTwoIterations(i, a, src)
    BY <2>1, <2>2, SourcesStand
  <2>3. full'.depTable = Full!insertDep(full, srcs, CampID(instr))
    BY <1>2, <1>3, <2>1
  <2>4. \A src \in DOMAIN srcs :
          /\ \E k \in DOMAIN accesses :
               Stands(k, a, src) /\ StandsFor(srcs[src], k) /\ (IsStore(k) \/ instr \in Stores)
          /\ \A i \in Levels : srcs[src][i] >= IterMod =>
               src \in LoadIDs /\ instr \in Stores /\ InTwoIterations(i, a, src)
    BY <1>3, <2>2
  <2> QED
    BY <1>2, <1>3, <1>4, <2>3, <2>4, RealAfter
<1> QED
  BY <1>4, <1>10, <1>11 DEF RealInv

-----------------------------------------------------------------------------
(***************************************************************************)
(* The other operations.                                                   *)
(***************************************************************************)
LEMMA RealUnchanged ==
  ASSUME OnlyRealDependences, accesses' = accesses, full'.depTable = full.depTable
  PROVE  OnlyRealDependences'
<1>1. Dependences' = Dependences
  BY DEF Dependences, Depends, IsStore, SameByte
<1>2. \A d : IdsOf(d)' = IdsOf(d) /\ CommonLevels(d)' = CommonLevels(d)
  BY DEF IdsOf, CommonLevels
<1>3. \A d : Relation(d)' = Relation(d)
  BY <1>2 DEF Relation
<1>4. \A p : RealRelation(p)' = RealRelation(p)
  BY <1>1, <1>2, <1>3 DEF RealRelation
<1>5. PICK deps : deps = full.depTable /\ deps = full'.depTable
  OBVIOUS
<1>6. ASSUME NEW p \in DOMAIN deps
      PROVE  /\ \E d \in Dependences' : IdsOf(d)' = p
             /\ \A i \in UNION {CommonLevels(d)' : d \in {e \in Dependences' : IdsOf(e)' = p}} :
                  /\ <<i, "inter">> \in deps[p] => <<i, "inter">> \in RealRelation(p)'
                  /\ <<i, "intra">> \in deps[p] =>
                       \/ <<i, "intra">> \in RealRelation(p)'
                       \/ p[1] \in LoadIDs /\ <<i, "inter">> \in RealRelation(p)'
  <2>1. {e \in Dependences' : IdsOf(e)' = p} = {e \in Dependences : IdsOf(e) = p}
    BY <1>1, <1>2
  <2>2. ASSUME NEW i, i \in UNION {CommonLevels(d)' : d \in {e \in Dependences' : IdsOf(e)' = p}}
        PROVE  i \in UNION {CommonLevels(d) : d \in {e \in Dependences : IdsOf(e) = p}}
    BY <1>2, <2>1, <2>2
  <2>3. /\ \E d \in Dependences : IdsOf(d) = p
        /\ \A i \in UNION {CommonLevels(d) : d \in {e \in Dependences : IdsOf(e) = p}} :
             /\ <<i, "inter">> \in deps[p] => <<i, "inter">> \in RealRelation(p)
             /\ <<i, "intra">> \in deps[p] =>
                  \/ <<i, "intra">> \in RealRelation(p)
                  \/ p[1] \in LoadIDs /\ <<i, "inter">> \in RealRelation(p)
    BY <1>5 DEF OnlyRealDependences
  <2> QED
    BY <1>1, <1>2, <1>4, <2>2, <2>3
<1> QED
  BY <1>5, <1>6 DEF OnlyRealDependences

LEMMA RenewedKeepsReal ==
  ASSUME NEW ctxOf, RealInv(ctxOf), NEW S, Renewed(S)
  PROVE  RealInv(ctxOf)'
<1>1. /\ LogInv /\ ItersRight(ctxOf) /\ InContexts(ctxOf, accesses)
      /\ HistoryInLog /\ OnlyRealDependences /\ LogRight
  BY DEF RealInv, LogInv
<1>2. /\ accesses' = accesses /\ full'.depTable = full.depTable
      /\ UNCHANGED <<iterVars, nest>>
      /\ storeElem' = [a \in Addresses |-> IF a \in S THEN Untouched ELSE storeElem[a]]
      /\ full'.loadMap = [a \in Addresses |-> IF a \in S THEN NoLoads ELSE full.loadMap[a]]
  BY DEF Renewed, Cleared, ClearBytes
<1>3. LogInv' /\ ItersRight(ctxOf)'
  BY <1>1, <1>2, RenewedKeepsLogInv, ItersKept
<1>4. InContexts(ctxOf, accesses')
  BY <1>1, <1>2
<1>5. /\ \A k : LevelsOf(k)' = LevelsOf(k) /\ \A i : CountAt(k, i)' = CountAt(k, i)
  BY <1>2 DEF LevelsOf, CountAt
<1>6. ASSUME NEW k \in DOMAIN accesses, NEW b, b \notin S, NEW x, Stands(k, b, x)
      PROVE  Stands(k, b, x)'
  <2>1. Current(k) /\ accesses[k].addr = b /\ accesses[k].id = x
    BY <1>6 DEF Stands
  <2>2. b \in Addresses
    <3>1. accesses[k] \in Logged
      BY <1>1 DEF LogRight
    <3> QED
      BY <2>1, <3>1 DEF Logged
  <2>3. PICK o \in Addresses : objects[o].serial = accesses[k].object
                               /\ b \in Bytes(o, objects[o].size)
    BY <2>1 DEF Current, Alive
  <2>4. objects'[o] = objects[o]
    BY <1>6, <2>2, <2>3 DEF Renewed
  <2>5. Alive(k)'
    BY <1>2, <2>1, <2>3, <2>4 DEF Alive
  <2>6. Current(k)'
    BY <1>2, <2>1, <2>5 DEF Current, IsStore, SameByte
  <2> QED
    BY <1>2, <2>1, <2>6 DEF Stands
<1>7. ASSUME NEW b, b \notin S, NEW x, NEW i, InTwoIterations(i, b, x)
      PROVE  InTwoIterations(i, b, x)'
  BY <1>2, <1>5, <1>6, <1>7 DEF InTwoIterations
<1>8. ASSUME NEW b \in Addresses, NEW x, storeElem'[b].campID = x, x # NoStore
      PROVE  /\ \E k \in DOMAIN accesses' : Stands(k, b, x)'
             /\ \A i \in Levels : ~ (storeElem'[b].iterStack[i] >= IterMod)
  <2>1. b \notin S /\ storeElem'[b] = storeElem[b]
    BY <1>2, <1>8 DEF Untouched
  <2>2. /\ \E k \in DOMAIN accesses : Stands(k, b, x)
        /\ \A i \in Levels : ~ (storeElem[b].iterStack[i] >= IterMod)
    BY <1>1, <1>8, <2>1 DEF HistoryInLog
  <2> QED
    BY <1>2, <1>6, <2>1, <2>2
<1>9. ASSUME NEW b \in Addresses, NEW x \in DOMAIN History(b)'
      PROVE  /\ \E k \in DOMAIN accesses' : Stands(k, b, x)'
             /\ \A i \in Levels : History(b)'[x][i] >= IterMod => InTwoIterations(i, b, x)'
  <2>1. PICK loads : loads = full'.loadMap
    OBVIOUS
  <2>2. loads[b] = IF b \in S THEN NoLoads ELSE History(b)
    BY <1>2, <2>1 DEF History
  <2>3. x \in DOMAIN loads[b]
    BY <1>9, <2>1 DEF History
  <2>4. b \notin S /\ loads[b] = History(b)
    BY <2>2, <2>3 DEF NoLoads
  <2>5. /\ \E k \in DOMAIN accesses : Stands(k, b, x)
        /\ \A i \in Levels : History(b)[x][i] >= IterMod => InTwoIterations(i, b, x)
    BY <1>1, <2>3, <2>4 DEF HistoryInLog
  <2>6. History(b)' = History(b)
    BY <2>1, <2>4 DEF History
  <2> QED
    BY <1>2, <1>6, <1>7, <2>4, <2>5, <2>6
<1>10. HistoryInLog'
  <2>1. ASSUME NEW b \in Addresses, storeElem'[b].campID # NoStore
        PROVE  \E k \in DOMAIN accesses' : Stands(k, b, storeElem[b].campID)'
    <3>1. PICK x : x = storeElem'[b].campID
      OBVIOUS
    <3>2. \E k \in DOMAIN accesses' : Stands(k, b, x)'
      BY <1>8, <2>1, <3>1
    <3> QED
      BY <3>1, <3>2 DEF Stands
  <2> QED
    BY <1>8, <1>9, <2>1 DEF HistoryInLog
<1>11. OnlyRealDependences'
  BY <1>1, <1>2, RealUnchanged
<1> QED
  BY <1>3, <1>4, <1>10, <1>11 DEF RealInv

LEMMA LoopsOnlyKeepReal ==
  ASSUME NEW ctxOf, RealInv(ctxOf), LoopsOnly, LoopsRight', ItersRight(ctxOf)'
  PROVE  RealInv(ctxOf)'
<1>1. /\ LogInv /\ InContexts(ctxOf, accesses) /\ HistoryInLog /\ OnlyRealDependences
  BY DEF RealInv
<1>2. /\ UNCHANGED <<accesses, objects, storeElem>>
      /\ full'.loadMap = full.loadMap /\ full'.depTable = full.depTable
  BY DEF LoopsOnly, shadowVars
<1>3. LogInv'
  BY <1>1, LoopsOnlyKeeps
<1>4. InContexts(ctxOf, accesses')
  BY <1>1, <1>2
<1>5. HistoryInLog'
  BY <1>1, <1>2 DEF HistoryInLog, Stands, InTwoIterations, History, Current, Alive, LevelsOf,
     CountAt, IsStore, SameByte
<1>6. OnlyRealDependences'
  BY <1>1, <1>2, RealUnchanged
<1> QED
  BY <1>3, <1>4, <1>5, <1>6 DEF RealInv

LEMMA RealInvInit ==
  ASSUME NEW ctxOf, IsContextOf(ctxOf), Init
  PROVE  RealInv(ctxOf)
<1>1. LogInv
  BY LogInvInit
<1>2. ItersRight(ctxOf)
  BY DepInvInit DEF DepInv
<1>3. InContexts(ctxOf, accesses)
  BY DEF Init, InContexts
<1>4. full = FullState([a \in Addresses |-> NoLoads], NoLoads)
  <2>1. Full!NewElem = Untouched /\ Full!Nothing = NoLoads /\ Full!Zeros = ZeroStack
    BY DEF Full!NewElem, Untouched, Full!Nothing, NoLoads, Full!Zeros, ZeroStack, Full!Slots, Levels
  <2> QED
    BY <2>1 DEF Init, Full!campInitialize, FullState
<1>5. /\ full.loadMap = [a \in Addresses |-> NoLoads] /\ DOMAIN full.depTable = {}
  BY <1>4 DEF FullState, NoLoads
<1>6. HistoryInLog
  BY <1>5 DEF Init, HistoryInLog, Untouched, NoLoads, History
<1>7. OnlyRealDependences
  BY <1>5 DEF OnlyRealDependences
<1> QED
  BY <1>1, <1>2, <1>3, <1>6, <1>7 DEF RealInv

LEMMA RealInvStep ==
  ASSUME FitsStack, NEW ctxOf, IsContextOf(ctxOf), OneNest(ctxOf), RealInv(ctxOf), [Next]_vars
  PROVE  RealInv(ctxOf)'
<1>1. LogInv /\ LoopsRight /\ SameState /\ ItersRight(ctxOf)
  BY DEF RealInv, LogInv, TablesRight
<1>2. ASSUME NEW l \in Loops, LoopBegin(l)
      PROVE  RealInv(ctxOf)'
  <2>1. HistoryStays
    BY <1>1, <1>2, LoopBeginAlike
  <2>2. LoopsOnly
    BY <1>2, <2>1 DEF LoopsOnly, HistoryStays, LoopBegin
  <2>3. LoopsRight' /\ ItersRight(ctxOf)'
    BY <1>1, <1>2, LoopBeginRight, LoopBeginIters
  <2> QED
    BY <2>2, <2>3, LoopsOnlyKeepReal
<1>3. CASE LoopNext
  <2>1. HistoryStays
    BY <1>1, <1>3, LoopNextAlike
  <2>2. LoopsOnly
    BY <1>3, <2>1 DEF LoopsOnly, HistoryStays, LoopNext
  <2>3. LoopsRight' /\ ItersRight(ctxOf)'
    BY <1>1, <1>3, LoopNextRight, LoopNextIters
  <2> QED
    BY <2>2, <2>3, LoopsOnlyKeepReal
<1>4. CASE LoopEnd
  <2>1. HistoryStays
    BY <1>1, <1>4, LoopEndAlike
  <2>2. LoopsOnly
    BY <1>4, <2>1 DEF LoopsOnly, HistoryStays, LoopEnd
  <2>3. LoopsRight' /\ ItersRight(ctxOf)'
    BY <1>1, <1>4, LoopEndRight, LoopEndIters
  <2> QED
    BY <2>2, <2>3, LoopsOnlyKeepReal
<1>5. ASSUME NEW instr, NEW o \in Addresses, NEW a \in Addresses, LoadInstr(instr, o, a)
      PROVE  RealInv(ctxOf)'
  BY <1>5, LoadKeepsReal
<1>6. ASSUME NEW instr, NEW o \in Addresses, NEW a \in Addresses, StoreInstr(instr, o, a)
      PROVE  RealInv(ctxOf)'
  BY <1>6, StoreKeepsReal
<1>7. ASSUME NEW o \in Addresses, NEW size \in Sizes, Malloc(o, size)
      PROVE  RealInv(ctxOf)'
  <2>1. size \in Int
    BY DEF Sizes
  <2>2. Renewed({})
    BY <1>1, <1>7, <2>1, MallocRenews
  <2> QED
    BY <2>2, RenewedKeepsReal
<1>8. ASSUME NEW o \in Addresses, NEW size \in Sizes, NEW num \in Sizes, Calloc(o, size, num)
      PROVE  RealInv(ctxOf)'
  <2>1. PICK bytes : bytes = size * num /\ bytes \in Int
    BY DEF Sizes
  <2>2. Renewed({})
    BY <1>1, <1>8, <2>1, MallocRenews
  <2> QED
    BY <2>2, RenewedKeepsReal
<1>9. ASSUME NEW o \in Addresses, NEW n \in Addresses, NEW size \in Sizes, Realloc(o, n, size)
      PROVE  RealInv(ctxOf)'
  <2>1. size \in Int
    BY DEF Sizes
  <2>2. Renewed(Bytes(o, mallocMap[o]))
    BY <1>1, <1>9, <2>1, ReallocRenews
  <2> QED
    BY <2>2, RenewedKeepsReal
<1>10. ASSUME NEW o \in Addresses, Free(o)
       PROVE  RealInv(ctxOf)'
  BY <1>1, <1>10, FreeRenews, RenewedKeepsReal
<1>11. CASE UNCHANGED vars
  <2>1. LoopsRight' /\ ItersRight(ctxOf)'
    BY <1>1, <1>11, ItersKept DEF vars, iterVars, LoopsRight
  <2>2. LoopsOnly
    BY <1>1, <1>11 DEF vars, iterVars, shadowVars, LoopsOnly, SameState, FullState
  <2> QED
    BY <2>1, <2>2, LoopsOnlyKeepReal
<1> QED
  BY <1>2, <1>3, <1>4, <1>5, <1>6, <1>7, <1>8, <1>9, <1>10, <1>11 DEF Next

(***************************************************************************)
(* Nothing is invented: where loops fit the stack of counters and an       *)
(* instruction of a context is in one nest of loops, every dependence      *)
(* camp's runtime records is one of two accesses of a byte of one object   *)
(* with no store in between, and an "inter" bit is set only if there are   *)
(* two in different iterations: the eighth bit of a counter of many loads  *)
(* is set only after iterations that differ, and freed bytes leave nothing *)
(* behind for the objects placed over them.                                *)
(***************************************************************************)
THEOREM RecordedIsReal ==
  ASSUME FitsStack, NEW CONSTANT ctxOf, IsContextOf(ctxOf), OneNest(ctxOf)
  PROVE  Spec => []OnlyRealDependences
<1>1. Init => RealInv(ctxOf)
  BY RealInvInit
<1>2. RealInv(ctxOf) /\ [Next]_vars => RealInv(ctxOf)'
  BY RealInvStep
<1>3. RealInv(ctxOf) => OnlyRealDependences
  BY DEF RealInv
<1> QED
  BY <1>1, <1>2, <1>3, PTL DEF Spec
=============================================================================
