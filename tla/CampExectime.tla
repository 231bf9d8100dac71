--------------------------- MODULE CampExectime ---------------------------
(***************************************************************************)
(* lib/CAMP/CampExectime.cpp: hooks of the loop execution time profiler.   *)
(* Initialize also gets the counts of LoadNamer, which play no part here.  *)
(***************************************************************************)
EXTENDS HookEdits

setFunctions ==
  [Initialize        |-> "campExecInitialize",
   Finalize          |-> "campExecFinalize",
   CallSiteBegin     |-> "campExecCallSiteBegin",
   CallSiteEnd       |-> "campExecCallSiteEnd",
   LoopBegin         |-> "campExecLoopBegin",
   LoopNext          |-> "campExecLoopNext",
   LoopEnd           |-> "campExecLoopEnd",
   DisableCtxtChange |-> "campExecDisableCtxtChange",
   EnableCtxtChange  |-> "campExecEnableCtxtChange"]

setIniFini(M) ==
  [M EXCEPT !.ctors = callBeforeMain(@, setFunctions.Initialize, DefaultPriority),
            !.dtors = callAfterMain(@, setFunctions.Finalize, DefaultPriority)]

addProfilingCodeForLoop(fn, shape, l) == HookLoop(fn, shape, l, setFunctions, 0)

addTargetComparisonCodeForIndCall(fn, shape, s) == HookIndirect(fn, shape, s)

addProfilingCodeForCallSite(fn, shape, s) == HookSite(fn, shape, s, setFunctions, 0)

\* The passes over the tables, in order; what one of them does in any order
\* (the tables of call sites have no order) is one set.
runOnModule(shape) ==
  LoopsOutermostFirst(shape) \o << IndirectEdits(shape), SiteEdits(shape) >>

Edit(fn, shape, e) ==
  CASE e[1] = "loop"     -> addProfilingCodeForLoop(fn, shape, e[2])
    [] e[1] = "indirect" -> addProfilingCodeForCallSite(
                              addTargetComparisonCodeForIndCall(fn, shape, e[2]), shape, e[2])
    [] e[1] = "site"     -> addProfilingCodeForCallSite(fn, shape, e[2])
===========================================================================
