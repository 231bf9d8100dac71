--------------------------- MODULE QueueProfiler ---------------------------
(***************************************************************************)
(* tools/Qprofiler/Qprofiler.cpp: how often the program changes from one   *)
(* watched context to another.  The begin hook of a watched place has the  *)
(* unique id of its context as second argument, other places have 0.       *)
(* (The allocation hooks only print; the pass inserts none of them.)       *)
(***************************************************************************)
EXTENDS Integers, IterStack

CONSTANT CtxMod

VARIABLES currentCtx, disableCxtChange, guard_ctxid, count

ctxVars   == <<currentCtx, disableCxtChange>>
queueVars == <<guard_ctxid, count>>

Initialize == guard_ctxid = 0 /\ count = 0

\* Faulty: the guard stays with the first context.
WatchFirst(uniID) ==
  IF uniID # 0 /\ uniID # guard_ctxid
  THEN count' = count + 1 /\ guard_ctxid' = (IF guard_ctxid = 0 THEN uniID ELSE guard_ctxid)
  ELSE UNCHANGED queueVars

Watch(uniID) ==
  IF uniID # 0 /\ uniID # guard_ctxid
  THEN count' = count + 1 /\ guard_ctxid' = uniID
  ELSE UNCHANGED queueVars

Move(cntxID) ==
  /\ currentCtx' = IF disableCxtChange = 0 THEN (currentCtx + cntxID) % CtxMod ELSE currentCtx
  /\ UNCHANGED disableCxtChange

LoopBegin(cntxID, uniID) ==
  IF disableCxtChange # 0 THEN UNCHANGED <<ctxVars, queueVars, iterVars>>
  ELSE Watch(uniID) /\ Move(cntxID) /\ Push

LoopNext ==
  /\ IF disableCxtChange # 0 THEN UNCHANGED iterVars ELSE Count
  /\ UNCHANGED <<ctxVars, queueVars>>

LoopEnd(cntxID) ==
  /\ IF disableCxtChange # 0 THEN UNCHANGED <<ctxVars, iterVars>> ELSE Move(- cntxID) /\ Pop
  /\ UNCHANGED queueVars

\* Watches even while context changes are disabled.
CallSiteBegin(cntxID, uniID) ==
  Move(cntxID) /\ Watch(uniID) /\ UNCHANGED iterVars

CallSiteEnd(cntxID) == Move(- cntxID) /\ UNCHANGED <<queueVars, iterVars>>
=============================================================================
