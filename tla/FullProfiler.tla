---------------------------- MODULE FullProfiler ----------------------------
(***************************************************************************)
(* tools/camp/campRuntime.cpp: the dependence profiler without sampling.   *)
(* Its static variables are the fields of a record r; every function of    *)
(* the runtime is an operator that returns the record after it.  A CampID  *)
(* is a context and an instruction; the shadow element of a byte holds the *)
(* last store and the loads since, each with the counters of its time.     *)
(***************************************************************************)
EXTENDS Integers

CONSTANTS Addresses, NoStore, STK_MAX_SIZE, CtxMod, IterMod

Slots    == 0 .. STK_MAX_SIZE - 1
Zeros    == [i \in Slots |-> 0]
\* std::map: an empty one, one entry, the entries of f and those only g has.
Nothing     == [key \in {} |-> <<>>]
Entry(k, v) == [key \in {k} |-> v]
Over(f, g)  == [key \in DOMAIN f \cup DOMAIN g |-> IF key \in DOMAIN f THEN f[key] ELSE g[key]]
NewElem  == [campID |-> NoStore, iterStack |-> Zeros]

campInitialize ==
  [currentCtx |-> 0, globalIterStack |-> Zeros,
   globalIterStackIdx |-> -1, globalIterStackIdx_overflow |-> -1,
   storeElem |-> [a \in Addresses |-> NewElem],
   loadMap   |-> [a \in Addresses |-> Nothing],
   depTable  |-> Nothing, mallocMap |-> [a \in Addresses |-> 0]]

campLoopBegin(r, cntxID) ==
  LET moved == [r EXCEPT !.currentCtx = (@ + cntxID) % CtxMod]
  IN  IF r.globalIterStackIdx >= STK_MAX_SIZE - 1
      THEN [moved EXCEPT !.globalIterStackIdx_overflow = @ + 1]
      ELSE [moved EXCEPT !.globalIterStackIdx = @ + 1,
                         !.globalIterStack[r.globalIterStackIdx + 1] = 0]

campLoopNext(r) ==
  [r EXCEPT !.globalIterStack[r.globalIterStackIdx] = (@ + 1) % IterMod]

campLoopEnd(r, cntxID) ==
  LET moved == [r EXCEPT !.currentCtx = (@ - cntxID) % CtxMod]
  IN  IF r.globalIterStackIdx_overflow > -1
      THEN [moved EXCEPT !.globalIterStackIdx_overflow = @ - 1]
      ELSE [moved EXCEPT !.globalIterStack[r.globalIterStackIdx] = 0,
                         !.globalIterStackIdx = @ - 1]

-----------------------------------------------------------------------------
Open(r)       == 0 .. r.globalIterStackIdx
Merged(n)     == n >= IterMod                \* n & 0x80
isIntra(m, n) == m % IterMod = n % IterMod \/ Merged(m) \/ Merged(n)
isInter(m, n) == m % IterMod # n % IterMod \/ Merged(m) \/ Merged(n)

\* For the sources at once: srcs maps their CampIDs to their counters.
insertDep(r, srcs, dst) ==
  LET bits(old) == {<<i, "intra">> : i \in {j \in Open(r) : isIntra(old[j], r.globalIterStack[j])}}
                   \cup {<<i, "inter">> : i \in {j \in Open(r) : isInter(old[j], r.globalIterStack[j])}}
      found(p)  == IF p \in DOMAIN r.depTable THEN r.depTable[p] ELSE {}
  IN  Over([p \in {<<src, dst>> : src \in DOMAIN srcs} |-> found(p) \cup bits(srcs[p[1]])],
           r.depTable)

StoreBefore(r, a) ==
  IF r.storeElem[a].campID = NoStore THEN Nothing
  ELSE Entry(r.storeElem[a].campID, r.storeElem[a].iterStack)

\* Faulty: the last counters of a load are kept.
LoadAgainLast(r, old) == r.globalIterStack

\* Faulty: every counter of a load that comes again is marked.
LoadAgainMarked(r, old) ==
  [i \in Slots |-> IF i \in Open(r) THEN r.globalIterStack[i] + IterMod ELSE old[i]]

\* A load that was there before: where a counter differs, the new one | 0x80.
LoadAgain(r, old) ==
  [i \in Slots |-> IF i \in Open(r) /\ old[i] # r.globalIterStack[i]
                   THEN r.globalIterStack[i] + IterMod ELSE old[i]]

campLoadInstr(r, a, instrID) ==
  LET campID  == <<r.currentCtx, instrID>>
      entry   == IF campID \in DOMAIN r.loadMap[a]
                 THEN LoadAgain(r, r.loadMap[a][campID]) ELSE r.globalIterStack
  IN  [r EXCEPT !.depTable = insertDep(r, StoreBefore(r, a), campID),
                !.loadMap[a] = Over(Entry(campID, entry), @)]

campStoreInstr(r, a, instrID) ==
  LET campID == <<r.currentCtx, instrID>>
  IN  [r EXCEPT !.depTable = insertDep(r, Over(r.loadMap[a], StoreBefore(r, a)), campID),
                !.storeElem[a] = [campID |-> campID, iterStack |-> r.globalIterStack],
                !.loadMap[a] = Nothing]

-----------------------------------------------------------------------------
\* The address the allocation returns is a parameter of these.
campMalloc(r, addr, size)      == [r EXCEPT !.mallocMap[addr] = size]
campCalloc(r, addr, size, num) == [r EXCEPT !.mallocMap[addr] = size * num]

\* Faulty: one element too many is cleared, or one too few.
clearedOneMore(r, addr) == addr .. addr + r.mallocMap[addr]
clearedButLast(r, addr) == addr .. addr + r.mallocMap[addr] - 2

cleared(r, addr) == addr .. addr + r.mallocMap[addr] - 1

campFree(r, addr) ==
  [r EXCEPT !.storeElem = [a \in Addresses |-> IF a \in cleared(r, addr) THEN NewElem ELSE @[a]],
            !.loadMap   = [a \in Addresses |-> IF a \in cleared(r, addr) THEN Nothing ELSE @[a]],
            !.mallocMap[addr] = 0]

\* The old object is cleared like a freed one before realloc is called.
campRealloc(r, paddr, naddr, size) == campMalloc(campFree(r, paddr), naddr, size)
=============================================================================
