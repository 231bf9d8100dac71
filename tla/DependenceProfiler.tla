------------------------- MODULE DependenceProfiler -------------------------
(***************************************************************************)
(* tools/campSampling/campRuntime.cpp: which accesses of memory depend on  *)
(* which, in which contexts, and at which loop levels within or across     *)
(* iterations.  A second copy of the program is linked with the runtime    *)
(* without sampling (module FullProfiler) and makes the same steps; the    *)
(* variable full is the state of that runtime.                             *)
(*                                                                         *)
(* An access is named by its CampID: the current context and the load or  *)
(* store instruction.  The pass that inserts the hooks, lib/CAMP/CAMP.cpp, *)
(* has those of calls commented out: calls of functions change nothing     *)
(* here, contexts are sums of the local ids of loops, and nothing disables *)
(* the hooks of loops.  Every byte of memory has one shadow element: the   *)
(* last store, and the loads since.                                        *)
(***************************************************************************)
EXTENDS Integers, Sequences, FiniteSets

CONSTANTS
  Loops, LoopPaths,    \* the chains of loops the program can be in
  LocID,               \* the local id of each loop
  Loads, Stores,       \* instructions that have hooks
  At,                  \* instruction -> the chains of loops it is executed in
  Addresses,           \* of bytes: a set of consecutive numbers
  NoStore,             \* storeElem.campID = 0
  STK_MAX_SIZE,        \* slots of iteration counters
  CtxMod,              \* values of a context, 2^16
  IterMod,             \* 0x80: a counter keeps 7 bits, the eighth says "mixed"
  SAMPLING_THRESHOLD,  \* iterations of a loop recorded without sampling
  SamplingCycle,       \* RANDOM_SAMPLING_CYCLE + 1
  MaxIter,             \* bound: iterations of each loop
  MaxEvents            \* bound: objects allocated and accesses of memory

Contexts == 0 .. CtxMod - 1
LoadIDs  == Contexts \X Loads
StoreIDs == Contexts \X Stores
CampIDs  == LoadIDs \cup StoreIDs

ASSUME DependenceAssumption ==
  /\ LoopPaths \subseteq Seq(Loops) /\ <<>> \in LoopPaths
  /\ LocID \in [Loops -> Nat] /\ CtxMod \in Nat \ {0}
  /\ At \in [Loads \cup Stores -> SUBSET LoopPaths] /\ Loads \cap Stores = {}
  /\ NoStore \notin CampIDs
  /\ Addresses \subseteq Nat
  /\ STK_MAX_SIZE \in Nat \ {0} /\ IterMod \in Nat \ {0}
  /\ SAMPLING_THRESHOLD \in Nat /\ SamplingCycle \in Nat \ {0}
  /\ MaxIter \in [Loops -> Nat] /\ MaxEvents \in Nat

VARIABLES
  currentCtx,
  globalIterStack, globalIterStackIdx, globalIterStackIdx_overflow,
  sampling, randomSampling,          \* levels whose bit is set; a cyclic count
  storeElem, loadMap,                \* the shadow elements
  depTable,                          \* <<source, destination>> -> IterRelation
  mallocMap,                         \* address -> size recorded for it
  full,                              \* the runtime without sampling
  nest,                              \* the program: [loop, count] innermost last
  allocations,                       \* the program: objects allocated so far
  objects,                           \* the program: address -> [size, serial]
  accesses                           \* all accesses so far, for the properties

iterVars   == <<currentCtx, globalIterStack, globalIterStackIdx, globalIterStackIdx_overflow,
                sampling, randomSampling>>
shadowVars == <<storeElem, loadMap, depTable, mallocMap>>
vars       == <<iterVars, shadowVars, full, nest, allocations, objects, accesses>>

Full == INSTANCE FullProfiler

Levels    == 0 .. STK_MAX_SIZE - 1
CurLevels == 0 .. globalIterStackIdx
NoLoads   == [id \in {} |-> <<>>]
ZeroStack == [i \in Levels |-> 0]
Untouched == [campID |-> NoStore, iterStack |-> ZeroStack]
LoopsOf(n) == [i \in DOMAIN n |-> n[i].loop]
Chain     == LoopsOf(nest)
Bytes(o, size) == o .. o + size - 1
Entered   == nest # <<>> => nest[Len(nest)].count > 0

Init ==
  /\ full = Full!campInitialize
  /\ currentCtx = 0
  /\ globalIterStack = ZeroStack
  /\ globalIterStackIdx = -1 /\ globalIterStackIdx_overflow = -1
  /\ sampling = {} /\ randomSampling = 0
  /\ storeElem = [a \in Addresses |-> Untouched]
  /\ loadMap = [a \in Addresses |-> NoLoads]
  /\ depTable = [p \in {} |-> {}]
  /\ mallocMap = [a \in Addresses |-> 0]
  /\ nest = <<>> /\ allocations = 0
  /\ objects = [a \in Addresses |-> [size |-> 0, serial |-> 0]]
  /\ accesses = <<>>

-----------------------------------------------------------------------------
(***************************************************************************)
(* Loops.  A loop's body starts with its header, where LoopNext is.        *)
(***************************************************************************)
LoopBegin(l) ==
  /\ Entered /\ Append(Chain, l) \in LoopPaths
  /\ currentCtx' = (currentCtx + LocID[l]) % CtxMod
  /\ IF globalIterStackIdx >= STK_MAX_SIZE - 1
     THEN /\ globalIterStackIdx_overflow' = globalIterStackIdx_overflow + 1
          /\ UNCHANGED <<globalIterStack, globalIterStackIdx, sampling>>
     ELSE /\ globalIterStackIdx' = globalIterStackIdx + 1
          /\ globalIterStack' = [globalIterStack EXCEPT ![globalIterStackIdx + 1] = 0]
          /\ sampling' = sampling \ {globalIterStackIdx + 1}
          /\ UNCHANGED globalIterStackIdx_overflow
  /\ nest' = Append(nest, [loop |-> l, count |-> 0])
  /\ full' = Full!campLoopBegin(full, LocID[l])
  /\ UNCHANGED <<randomSampling, shadowVars, allocations, objects, accesses>>

NextCount(n) == (n + 1) % IterMod

LoopNext ==
  /\ nest # <<>> /\ nest[Len(nest)].count < MaxIter[nest[Len(nest)].loop]
  /\ LET i == globalIterStackIdx
         n == NextCount(globalIterStack[i])
     IN  /\ globalIterStack' = [globalIterStack EXCEPT ![i] = n]
         /\ sampling' = IF sampling = {} /\ n > SAMPLING_THRESHOLD
                        THEN {i} ELSE sampling
  /\ randomSampling' = (randomSampling + 1) % SamplingCycle
  /\ full' = Full!campLoopNext(full)
  /\ nest' = [nest EXCEPT ![Len(nest)].count = @ + 1]
  /\ UNCHANGED <<currentCtx, globalIterStackIdx, globalIterStackIdx_overflow,
                 shadowVars, allocations, objects, accesses>>

\* Faulty: the level stays in sampling mode.
LoopEndKeepsSampling ==
  /\ nest # <<>> /\ Entered
  /\ currentCtx' = (currentCtx - LocID[nest[Len(nest)].loop]) % CtxMod
  /\ globalIterStack' = [globalIterStack EXCEPT ![globalIterStackIdx] = 0]
  /\ globalIterStackIdx' = globalIterStackIdx - 1
  /\ nest' = SubSeq(nest, 1, Len(nest) - 1)
  /\ full' = Full!campLoopEnd(full, LocID[nest[Len(nest)].loop])
  /\ UNCHANGED <<sampling, randomSampling, globalIterStackIdx_overflow, shadowVars,
                 allocations, objects, accesses>>

LoopEnd ==
  /\ nest # <<>> /\ Entered
  /\ currentCtx' = (currentCtx - LocID[nest[Len(nest)].loop]) % CtxMod
  /\ IF globalIterStackIdx_overflow > -1
     THEN /\ globalIterStackIdx_overflow' = globalIterStackIdx_overflow - 1
          /\ UNCHANGED <<globalIterStack, globalIterStackIdx, sampling>>
     ELSE /\ globalIterStack' = [globalIterStack EXCEPT ![globalIterStackIdx] = 0]
          /\ sampling' = sampling \ {globalIterStackIdx}
          /\ globalIterStackIdx' = globalIterStackIdx - 1
          /\ UNCHANGED globalIterStackIdx_overflow
  /\ nest' = SubSeq(nest, 1, Len(nest) - 1)
  /\ full' = Full!campLoopEnd(full, LocID[nest[Len(nest)].loop])
  /\ UNCHANGED <<randomSampling, shadowVars, allocations, objects, accesses>>

-----------------------------------------------------------------------------
(***************************************************************************)
(* Accesses.                                                               *)
(***************************************************************************)
Mixed(n)      == n >= IterMod                 \* n & 0x80
isIntra(m, n) == m % IterMod = n % IterMod \/ Mixed(m) \/ Mixed(n)
isInter(m, n) == m % IterMod # n % IterMod \/ Mixed(m) \/ Mixed(n)

\* The two bits of every level, for a source whose counters were oldIter.
IterRelation(oldIter) ==
  {<<i, "intra">> : i \in {j \in CurLevels : isIntra(oldIter[j], globalIterStack[j])}} \cup
  {<<i, "inter">> : i \in {j \in CurLevels : isInter(oldIter[j], globalIterStack[j])}}

\* insertDep for every source: srcs maps CampIDs to counters.
InsertDeps(srcs, dst) ==
  LET new  == {<<src, dst>> : src \in DOMAIN srcs}
      Old(p) == IF p \in DOMAIN depTable THEN depTable[p] ELSE {}
      New(p) == IF p \in new THEN IterRelation(srcs[p[1]]) ELSE {}
  IN  depTable' = [p \in DOMAIN depTable \cup new |-> Old(p) \cup New(p)]

LastStore(a) ==
  IF storeElem[a].campID = NoStore THEN NoLoads
  ELSE [id \in {storeElem[a].campID} |-> storeElem[a].iterStack]

Recording == sampling = {} \/ randomSampling = 0

\* A load that has been there before keeps which counters are not what they were.
Merge(old) ==
  [i \in Levels |-> IF i \in CurLevels /\ old[i] # globalIterStack[i]
                    THEN globalIterStack[i] + IterMod ELSE old[i]]

AddLoad(loads, id) ==
  [i \in DOMAIN loads \cup {id} |->
     IF i # id THEN loads[i]
     ELSE IF id \in DOMAIN loads THEN Merge(loads[id]) ELSE globalIterStack]

\* The program accesses byte a of the object at o.
CanAccess(instr, o, a) ==
  /\ Entered /\ Chain \in At[instr] /\ allocations + Len(accesses) < MaxEvents
  /\ a \in Bytes(o, objects[o].size)

CampID(instr) == <<currentCtx, instr>>

Accessed(instr, o, a) ==
  accesses' = Append(accesses, [id |-> CampID(instr), object |-> objects[o].serial, addr |-> a,
                                nest |-> nest])

LoadInstr(instr, o, a) ==
  /\ CanAccess(instr, o, a) /\ instr \in Loads
  /\ IF Recording
     THEN /\ InsertDeps(LastStore(a), CampID(instr))
          /\ loadMap' = [loadMap EXCEPT ![a] = AddLoad(@, CampID(instr))]
     ELSE UNCHANGED <<depTable, loadMap>>
  /\ full' = Full!campLoadInstr(full, a, instr)
  /\ Accessed(instr, o, a)
  /\ UNCHANGED <<iterVars, storeElem, mallocMap, nest, allocations, objects>>

\* Faulty: a store that is not sampled leaves the history alone.
StoreInstrSampled(instr, o, a) ==
  /\ CanAccess(instr, o, a) /\ instr \in Stores
  /\ IF Recording
     THEN /\ InsertDeps(Full!Over(loadMap[a], LastStore(a)), CampID(instr))
          /\ storeElem' = [storeElem EXCEPT ![a] = [campID |-> CampID(instr), iterStack |-> globalIterStack]]
          /\ loadMap' = [loadMap EXCEPT ![a] = NoLoads]
     ELSE UNCHANGED <<depTable, storeElem, loadMap>>
  /\ full' = Full!campStoreInstr(full, a, instr)
  /\ Accessed(instr, o, a)
  /\ UNCHANGED <<iterVars, mallocMap, nest, allocations, objects>>

StoreInstr(instr, o, a) ==
  /\ CanAccess(instr, o, a) /\ instr \in Stores
  /\ IF Recording THEN InsertDeps(Full!Over(loadMap[a], LastStore(a)), CampID(instr)) ELSE UNCHANGED depTable
  /\ storeElem' = [storeElem EXCEPT ![a] = [campID |-> CampID(instr), iterStack |-> globalIterStack]]
  /\ loadMap' = [loadMap EXCEPT ![a] = NoLoads]
  /\ full' = Full!campStoreInstr(full, a, instr)
  /\ Accessed(instr, o, a)
  /\ UNCHANGED <<iterVars, mallocMap, nest, allocations, objects>>

-----------------------------------------------------------------------------
(***************************************************************************)
(* Objects.  The hooks replace malloc, calloc, realloc and free.           *)
(***************************************************************************)
\* malloc finds room at o, given the objects that are there.
Fits(o, size, objs) ==
  /\ size > 0 /\ Bytes(o, size) \subseteq Addresses
  /\ \A p \in Addresses : Bytes(o, size) \cap Bytes(p, objs[p].size) = {}

Allocated(o, size, objs, map) ==
  /\ Fits(o, size, objs) /\ allocations + Len(accesses) < MaxEvents
  /\ allocations' = allocations + 1
  /\ objects' = [objs EXCEPT ![o] = [size |-> size, serial |-> allocations + 1]]
  /\ mallocMap' = [map EXCEPT ![o] = size]

Malloc(o, size) ==
  /\ Allocated(o, size, objects, mallocMap)
  /\ full' = Full!campMalloc(full, o, size)
  /\ UNCHANGED <<iterVars, storeElem, loadMap, depTable, nest, accesses>>

Calloc(o, size, num) ==
  /\ Allocated(o, size * num, objects, mallocMap)
  /\ full' = Full!campCalloc(full, o, size, num)
  /\ UNCHANGED <<iterVars, storeElem, loadMap, depTable, nest, accesses>>

ClearBytes(cleared) ==
  /\ storeElem' = [a \in Addresses |-> IF a \in cleared THEN Untouched ELSE storeElem[a]]
  /\ loadMap' = [a \in Addresses |-> IF a \in cleared THEN NoLoads ELSE loadMap[a]]

\* The elements of as many bytes as were recorded for o.
Forget(o) == ClearBytes(Bytes(o, mallocMap[o]))

Without(o) == [objects EXCEPT ![o] = [size |-> 0, serial |-> 0]]

\* The old object is forgotten before realloc may move it, or leave it in place.
Realloc(o, n, size) ==
  /\ objects[o].size > 0
  /\ Forget(o)
  /\ Allocated(n, size, Without(o), [mallocMap EXCEPT ![o] = 0])
  /\ full' = Full!campRealloc(full, o, n, size)
  /\ UNCHANGED <<iterVars, depTable, nest, accesses>>

Free(o) ==
  /\ objects[o].size > 0
  /\ Forget(o)
  /\ objects' = Without(o)
  /\ mallocMap' = [mallocMap EXCEPT ![o] = 0]
  /\ full' = Full!campFree(full, o)
  /\ UNCHANGED <<iterVars, depTable, nest, allocations, accesses>>

Sizes == 1 .. Cardinality(Addresses)

Next ==
  \/ \E l \in Loops : LoopBegin(l)
  \/ LoopNext
  \/ LoopEnd
  \/ \E instr \in Loads \cup Stores, o, a \in Addresses :
       LoadInstr(instr, o, a) \/ StoreInstr(instr, o, a)
  \/ \E o \in Addresses, size \in Sizes : Malloc(o, size)
  \/ \E o \in Addresses, size, num \in Sizes : Calloc(o, size, num)
  \/ \E o, n \in Addresses, size \in Sizes : Realloc(o, n, size)
  \/ \E o \in Addresses : Free(o)

Spec == Init /\ [][Next]_vars

-----------------------------------------------------------------------------
(***************************************************************************)
(* What the accesses of the program depend on, from the log alone.         *)
(***************************************************************************)
IsStore(i) == accesses[i].id \in StoreIDs
SameByte(i, j) ==
  accesses[i].object = accesses[j].object /\ accesses[i].addr = accesses[j].addr

\* The later access needs the value of the earlier, or overwrites what it used.
Depends(j, i) ==
  /\ i < j /\ SameByte(i, j)
  /\ IsStore(i) \/ IsStore(j)
  /\ \A k \in i + 1 .. j - 1 : ~ (IsStore(k) /\ SameByte(i, k))

Dependences == {d \in (DOMAIN accesses) \X (DOMAIN accesses) : Depends(d[2], d[1])}
IdsOf(d)    == <<accesses[d[1]].id, accesses[d[2]].id>>

\* The levels at which both accesses are in the same loop.
CommonLevels(d) ==
  LET m == accesses[d[1]].nest
      n == accesses[d[2]].nest
  IN  {i \in Levels : /\ i < Len(m) /\ i < Len(n)
                      /\ \A k \in 1 .. i + 1 : m[k].loop = n[k].loop}

\* In the same iteration or in different ones, as far as 7 bits tell.
Relation(d) ==
  {<<i, IF accesses[d[1]].nest[i + 1].count % IterMod = accesses[d[2]].nest[i + 1].count % IterMod
        THEN "intra" ELSE "inter">> : i \in CommonLevels(d)}

RealRelation(p) == UNION {Relation(d) : d \in {e \in Dependences : IdsOf(e) = p}}

\* All loops the access is in are in their first iterations.
Early(i) == \A k \in DOMAIN accesses[i].nest : accesses[i].nest[k].count <= SAMPLING_THRESHOLD

-----------------------------------------------------------------------------
(***************************************************************************)
(* Properties.                                                             *)
(***************************************************************************)
(***************************************************************************)
(* Without sampling no dependence of the program is missed, and at every   *)
(* loop level both are in, the bit that says whether the iterations were   *)
(* the same is set: also when one load stands for loads of many iterations.*)
(***************************************************************************)
EveryDependenceRecorded ==
  \A d \in Dependences :
    IdsOf(d) \in DOMAIN full.depTable /\ Relation(d) \subseteq full.depTable[IdsOf(d)]

(***************************************************************************)
(* What is recorded without sampling is real: there were two such accesses *)
(* of one byte of one object with no store in between, and if an "inter"   *)
(* bit is set, in different iterations.  Merged counters of a load may add *)
(* an "intra" bit, but only to a dependence that is also "inter".          *)
(***************************************************************************)
OnlyRealDependences ==
  \A p \in DOMAIN full.depTable :
    /\ \E d \in Dependences : IdsOf(d) = p
    /\ \A i \in UNION {CommonLevels(d) : d \in {e \in Dependences : IdsOf(e) = p}} :
         /\ <<i, "inter">> \in full.depTable[p] => <<i, "inter">> \in RealRelation(p)
         /\ <<i, "intra">> \in full.depTable[p] =>
              \/ <<i, "intra">> \in RealRelation(p)
              \/ p[1] \in LoadIDs /\ <<i, "inter">> \in RealRelation(p)

(***************************************************************************)
(* Sampling only omits: every dependence the sampling runtime records, and *)
(* every bit of its relation, the runtime without sampling records too.    *)
(***************************************************************************)
SamplingOnlyOmits ==
  \A p \in DOMAIN depTable : p \in DOMAIN full.depTable /\ depTable[p] \subseteq full.depTable[p]

(***************************************************************************)
(* "AFTER THIS MUCH TIME.. IT DOES NOTHING" (SAMPLING_THRESHOLD): before,  *)
(* it does everything.  A dependence whose accesses come in the first      *)
(* iterations of all their loops is recorded, whatever other loops did.    *)
(***************************************************************************)
FirstIterationsComplete ==
  \A d \in Dependences :
    Early(d[1]) /\ Early(d[2]) => IdsOf(d) \in DOMAIN depTable
=============================================================================
