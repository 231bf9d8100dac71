--------------------------- MODULE CtxObjtrace ----------------------------
(***************************************************************************)
(* lib/ObjTrace/CtxObjtrace.cpp: hooks of the object tracer: accesses and  *)
(* allocations first, then contexts.                                       *)
(***************************************************************************)
EXTENDS HookEdits

setFunctions ==
  [Initialize        |-> "ctxObjInitialize",
   Finalize          |-> "ctxObjFinalize",
   CallSiteBegin     |-> "ctxObjCallSiteBegin",
   CallSiteEnd       |-> "ctxObjCallSiteEnd",
   LoopBegin         |-> "ctxObjLoopBegin",
   LoopNext          |-> "ctxObjLoopNext",
   LoopEnd           |-> "ctxObjLoopEnd",
   DisableCtxtChange |-> "ctxObjDisableCtxtChange",
   EnableCtxtChange  |-> "ctxObjEnableCtxtChange",
   LoadInstr         |-> "ctxObjLoadInstr",
   StoreInstr        |-> "ctxObjStoreInstr",
   Malloc            |-> "ctxObjMalloc",
   Calloc            |-> "ctxObjCalloc",
   Realloc           |-> "ctxObjRealloc"]

setIniFini(M) ==
  [M EXCEPT !.ctors = callBeforeMain(@, setFunctions.Initialize, DefaultPriority),
            !.dtors = callAfterMain(@, setFunctions.Finalize, DefaultPriority)]

addProfilingCodeForLoop(fn, shape, l) == HookLoop(fn, shape, l, setFunctions, 0)

addTargetComparisonCodeForIndCall(fn, shape, s) == HookIndirect(fn, shape, s)

addProfilingCodeForCallSite(fn, shape, s) == HookSite(fn, shape, s, setFunctions, 0)

\* A new call, with the metadata of the old one, takes its place; free stays.
hookMallocFree(fn) ==
  HookAllocators(fn, [malloc  |-> setFunctions.Malloc, calloc |-> setFunctions.Calloc,
                      realloc |-> setFunctions.Realloc])

castTo(from, to) == CastTo(from, to)

runOnModule(shape) ==
  << {<<"accesses", 0>>}, {<<"allocators", 0>>} >> \o LoopsOutermostFirst(shape)
     \o << IndirectEdits(shape), SiteEdits(shape) >>

Edit(fn, shape, e) ==
  CASE e[1] = "accesses"   -> HookAccesses(fn, setFunctions,
                                         castTo(Pointer(fn.pointerBits), Integer(64)))
    [] e[1] = "allocators" -> hookMallocFree(fn)
    [] e[1] = "loop"       -> addProfilingCodeForLoop(fn, shape, e[2])
    [] e[1] = "indirect"   -> addProfilingCodeForCallSite(
                                addTargetComparisonCodeForIndCall(fn, shape, e[2]), shape, e[2])
    [] e[1] = "site"       -> addProfilingCodeForCallSite(fn, shape, e[2])
===========================================================================
