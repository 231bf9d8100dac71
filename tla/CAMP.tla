------------------------------- MODULE CAMP -------------------------------
(***************************************************************************)
(* lib/CAMP/CAMP.cpp: hooks of the dependence profiler: accesses, loops,   *)
(* then allocations.  The loops over the tables of call sites are commented*)
(* out (lines 329-339), so no call gets a hook.  Initialize also gets the  *)
(* counts of LoadNamer, which play no part here.                           *)
(***************************************************************************)
EXTENDS HookEdits

setFunctions ==
  [Initialize        |-> "campInitialize",
   Finalize          |-> "campFinalize",
   CallSiteBegin     |-> "campCallSiteBegin",
   CallSiteEnd       |-> "campCallSiteEnd",
   LoopBegin         |-> "campLoopBegin",
   LoopNext          |-> "campLoopNext",
   LoopEnd           |-> "campLoopEnd",
   DisableCtxtChange |-> "campDisableCtxtChange",
   EnableCtxtChange  |-> "campEnableCtxtChange",
   LoadInstr         |-> "campLoadInstr",
   StoreInstr        |-> "campStoreInstr",
   Malloc            |-> "campMalloc",
   Calloc            |-> "campCalloc",
   Realloc           |-> "campRealloc",
   Free              |-> "campFree"]

setIniFini(M) ==
  [M EXCEPT !.ctors = callBeforeMain(@, setFunctions.Initialize, DefaultPriority),
            !.dtors = callAfterMain(@, setFunctions.Finalize, DefaultPriority)]

addProfilingCodeForLoop(fn, shape, l) == HookLoop(fn, shape, l, setFunctions, 0)

\* The called function of the same call is replaced.
hookMallocFree(fn) ==
  HookAllocators(fn, [malloc  |-> setFunctions.Malloc, calloc |-> setFunctions.Calloc,
                      realloc |-> setFunctions.Realloc, free |-> setFunctions.Free])

castTo(from, to) == CastTo(from, to)

runOnModule(shape) ==
  << {<<"accesses", 0>>} >> \o LoopsOutermostFirst(shape) \o << {<<"allocators", 0>>} >>

Edit(fn, shape, e) ==
  CASE e[1] = "accesses"   -> HookAccesses(fn, setFunctions,
                                         castTo(Pointer(fn.pointerBits), Integer(64)))
    [] e[1] = "allocators" -> hookMallocFree(fn)
    [] e[1] = "loop"       -> addProfilingCodeForLoop(fn, shape, e[2])
===========================================================================
