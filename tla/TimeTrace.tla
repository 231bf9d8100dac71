----------------------------- MODULE TimeTrace -----------------------------
(***************************************************************************)
(* tools/objtrace/objtraceruntime.cpp: how long each context runs, calls   *)
(* and loops inside it excluded.  The timer is x86timer: stop() returns    *)
(* the time since start() and lets it run on.                              *)
(***************************************************************************)
EXTENDS Integers, IterStack

CONSTANTS Contexts, CtxMod

VARIABLES
  now, currentCtx, disableCxtChange,
  start_,       \* when the timer was started last
  ctx_time      \* context -> time; no entry is 0

ctxVars  == <<currentCtx, disableCxtChange>>
timeVars == <<start_, ctx_time>>

Initialize == ctx_time = [c \in Contexts |-> 0] /\ start_ = now

\* ctx_t.stop(), and find/insert in ctx_time.
StopTimer == ctx_time' = [ctx_time EXCEPT ![currentCtx] = @ + now - start_]

Move(cntxID) ==
  /\ currentCtx' = (currentCtx + cntxID) % CtxMod
  /\ UNCHANGED disableCxtChange

LoopBegin(cntxID) ==
  IF disableCxtChange # 0 THEN UNCHANGED <<ctxVars, timeVars, iterVars>>
  ELSE StopTimer /\ Move(cntxID) /\ start_' = now /\ Push

LoopNext ==
  /\ IF disableCxtChange # 0 THEN UNCHANGED iterVars ELSE Count
  /\ UNCHANGED <<ctxVars, timeVars>>

\* Faulty: the timer is not started again.
LoopEndRunsOn(cntxID) ==
  IF disableCxtChange # 0 THEN UNCHANGED <<ctxVars, timeVars, iterVars>>
  ELSE StopTimer /\ Move(- cntxID) /\ UNCHANGED start_ /\ Pop

LoopEnd(cntxID) ==
  IF disableCxtChange # 0 THEN UNCHANGED <<ctxVars, timeVars, iterVars>>
  ELSE StopTimer /\ Move(- cntxID) /\ start_' = now /\ Pop

\* The last line stops the timer a second time instead of starting it.
CallSiteBegin(cntxID) ==
  /\ IF disableCxtChange = 0 THEN StopTimer /\ Move(cntxID) /\ UNCHANGED start_
                             ELSE UNCHANGED <<ctxVars, timeVars>>
  /\ UNCHANGED iterVars

CallSiteEnd(cntxID) ==
  /\ IF disableCxtChange = 0 THEN StopTimer /\ Move(- cntxID) /\ start_' = now
                             ELSE UNCHANGED <<ctxVars, timeVars>>
  /\ UNCHANGED iterVars
=============================================================================
