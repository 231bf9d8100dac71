---------------------------- MODULE Qprofiler -----------------------------
(***************************************************************************)
(* lib/Qprofiler/Qprofiler.cpp: hooks of the queue profiler.  The contexts *)
(* to watch are read from a file into the array ucctx; the begin hook of a *)
(* loop or direct call gets its unique context id if that is in the array, 0*)
(* otherwise.  What the file does not fill stays 0.                        *)
(***************************************************************************)
EXTENDS HookEdits

CONSTANTS NUM_CTX,   \* the size of the array
          File       \* the context ids in the file, at most NUM_CTX

setFunctions ==
  [Initialize        |-> "QproInitialize",
   Finalize          |-> "QproFinalize",
   CallSiteBegin     |-> "QproCallSiteBegin",
   CallSiteEnd       |-> "QproCallSiteEnd",
   LoopBegin         |-> "QproLoopBegin",
   LoopNext          |-> "QproLoopNext",
   LoopEnd           |-> "QproLoopEnd",
   DisableCtxtChange |-> "QproDisableCtxtChange",
   EnableCtxtChange  |-> "QproEnableCtxtChange"]

setIniFini(M) ==
  [M EXCEPT !.ctors = callBeforeMain(@, setFunctions.Initialize, DefaultPriority),
            !.dtors = callAfterMain(@, setFunctions.Finalize, DefaultPriority)]

ucctx == [v \in 1 .. NUM_CTX |-> IF v \in DOMAIN File THEN File[v] ELSE 0]

\* The argument of a begin hook of a place with this unique context id.
UniIDVal(uniID) == IF \E v \in DOMAIN ucctx : ucctx[v] = uniID THEN uniID ELSE 0

addProfilingCodeForLoop(fn, shape, l) ==
  HookLoop(fn, shape, l, setFunctions, UniIDVal(shape.loops[l].uniID))

addTargetComparisonCodeForIndCall(fn, shape, s) == HookIndirect(fn, shape, s)

addProfilingCodeForCallSite(fn, shape, s, uniID) ==
  HookSite(fn, shape, s, setFunctions, uniID)

runOnModule(shape) ==
  LoopsOutermostFirst(shape) \o << IndirectEdits(shape), SiteEdits(shape) >>

Edit(fn, shape, e) ==
  CASE e[1] = "loop"     -> addProfilingCodeForLoop(fn, shape, e[2])
    [] e[1] = "indirect" -> addProfilingCodeForCallSite(
                              addTargetComparisonCodeForIndCall(fn, shape, e[2]), shape, e[2], 0)
    [] e[1] = "site"     -> addProfilingCodeForCallSite(
                              fn, shape, e[2], UniIDVal(shape.sites[e[2]].uniID))
===========================================================================
