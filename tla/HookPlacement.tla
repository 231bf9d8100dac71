--------------------------- MODULE HookPlacement ---------------------------
(***************************************************************************)
(* A function is instrumented by one of the five passes, edit by edit, and *)
(* then runs.  What the hooks say while it runs (which contexts are open,  *)
(* how often the loops went round) is compared with what the program does. *)
(*                                                                         *)
(* Loops are in the form LoopSimplify gives them, on which the passes rely *)
(* (RegiInterIterDepFinder asserts it): one preheader, one latch, and exit *)
(* blocks entered from the loop only.                                      *)
(***************************************************************************)
EXTENDS Integers, SequencesExt, HookEdits

CONSTANTS
  Shapes,     \* the functions: code, succ, loops, sites
  Passes,     \* the passes looked at
  NUM_CTX, File,   \* of Qprofiler
  IterMod     \* iteration counts are compared modulo this (0x80 in the code)

PassNames == {"CAMP", "CampExectime", "CtxObjtrace", "ObjTrace", "Qprofiler"}
ASSUME PlacementAssumption == Passes \subseteq PassNames /\ IterMod \in Nat \ {0}

Camp     == INSTANCE CAMP
Exectime == INSTANCE CampExectime
CtxObj   == INSTANCE CtxObjtrace
Obj      == INSTANCE ObjTrace
Qpro     == INSTANCE Qprofiler

VARIABLES
  pass, shape,   \* chosen at the beginning
  fn, todo,      \* the function so far, the passes over tables still to do
  pc,            \* <<block, position>>, or <<>> while compiling and in the end
  fptr,          \* site -> the value of the function pointer it calls
  slot, reg,     \* site -> the stack slot locID, the value loaded from it
  ctx,           \* place -> its begin hooks less its end hooks
  iters,         \* the iteration counters the hooks push, count and pop
  muted,         \* Disable hooks less Enable hooks
  last, laps     \* of the program itself: last instruction; iterations

compilerVars == <<fn, todo>>
hookVars     == <<ctx, iters, muted>>
vars == <<pass, shape, fn, todo, pc, fptr, slot, reg, ctx, iters, muted, last, laps>>

Plain == INSTANCE PlainProgram

-----------------------------------------------------------------------------
Hooks ==
  CASE pass = "CAMP"         -> Camp!setFunctions
    [] pass = "CampExectime" -> Exectime!setFunctions
    [] pass = "CtxObjtrace"  -> CtxObj!setFunctions
    [] pass = "ObjTrace"     -> Obj!setFunctions
    [] pass = "Qprofiler"    -> Qpro!setFunctions

Stages(p, s) ==
  CASE p = "CAMP"         -> Camp!runOnModule(s)
    [] p = "CampExectime" -> Exectime!runOnModule(s)
    [] p = "CtxObjtrace"  -> CtxObj!runOnModule(s)
    [] p = "ObjTrace"     -> Obj!runOnModule(s)
    [] p = "Qprofiler"    -> Qpro!runOnModule(s)

Edited(e) ==
  CASE pass = "CAMP"         -> Camp!Edit(fn, shape, e)
    [] pass = "CampExectime" -> Exectime!Edit(fn, shape, e)
    [] pass = "CtxObjtrace"  -> CtxObj!Edit(fn, shape, e)
    [] pass = "ObjTrace"     -> Obj!Edit(fn, shape, e)
    [] pass = "Qprofiler"    -> Qpro!Edit(fn, shape, e)

\* The local ids: one per loop and site, one per candidate of an indirect site.
LoopPlace(l)    == <<"loop", l, "only">>
SitePlace(s, t) == <<"site", s, t>>
LocalIds ==
  {LoopPlace(l) : l \in DOMAIN shape.loops}
    \cup {SitePlace(s, t) : s \in DOMAIN shape.sites, t \in {"only", "f", "g", "junk"}}

\* What the hooks of a call site pass: a constant, or the value loaded.
SiteArgument(s) == SitePlace(s, IF shape.sites[s].indirect THEN reg[s] ELSE "only")

Init ==
  /\ pass \in Passes /\ shape \in Shapes
  /\ fn = [code |-> shape.code, succ |-> shape.succ, asserts |-> TRUE,
            pointerBits |-> shape.pointerBits]
  /\ todo = Stages(pass, shape)
  /\ pc = <<>>
  /\ fptr = [s \in DOMAIN shape.sites |-> "f"]
  \* An uninitialised slot and register: "junk" stands for any value.
  /\ slot = [s \in DOMAIN shape.sites |-> "junk"]
  /\ reg  = [s \in DOMAIN shape.sites |-> "junk"]
  /\ ctx = [p \in LocalIds |-> 0]
  /\ iters = <<>> /\ muted = 0
  /\ last = Plain!Start
  /\ laps = [l \in DOMAIN shape.loops |-> 0]

-----------------------------------------------------------------------------
(***************************************************************************)
(* The compiler: one table entry at a time.                                *)
(***************************************************************************)
EditFunction ==
  /\ pc = <<>> /\ todo # <<>>
  /\ \E e \in Head(todo) :
       /\ fn' = Edited(e)
       /\ todo' = LET rest == Head(todo) \ {e}
                  IN  IF rest = {} THEN Tail(todo) ELSE <<rest>> \o Tail(todo)
  /\ UNCHANGED <<pass, shape, pc, fptr, slot, reg, hookVars, last, laps>>

NothingInStage ==
  /\ pc = <<>> /\ todo # <<>> /\ Head(todo) = {}
  /\ todo' = Tail(todo)
  /\ UNCHANGED <<pass, shape, fn, pc, fptr, slot, reg, hookVars, last, laps>>

EnterFunction ==
  /\ pc = <<>> /\ todo = <<>> /\ last = Plain!Start
  /\ pc' = <<1, 1>>
  /\ UNCHANGED <<pass, shape, fn, todo, fptr, slot, reg, hookVars, last, laps>>

-----------------------------------------------------------------------------
(***************************************************************************)
(* The running function.                                                   *)
(***************************************************************************)
Running == pc # <<>>
Instr   == fn.code[pc[1]][pc[2]]
Op      == Instr[1]
Advance == pc' = [pc EXCEPT ![2] = @ + 1]
Jump(i) == pc' = <<fn.succ[pc[1]][i], 1>>

Allocates(role) == role \in DOMAIN Hooks /\ Op = Hooks[role]

\* The instruction of the program that is here: its own, or a replaced one.
Original ==
  CASE Allocates("Malloc")  -> <<"malloc", Instr[2]>>
    [] Allocates("Calloc")  -> <<"calloc", Instr[2]>>
    [] Allocates("Realloc") -> <<"realloc", Instr[2]>>
    [] Allocates("Free")    -> <<"free", Instr[2]>>
    [] OTHER                -> Instr

AtOriginal == Running /\ \E b \in DOMAIN shape.code : Original \in Range(shape.code[b])

HomeBlock(ins) == Plain!PositionOf(ins)[1]
Around(ins)    == SelectSeq([l \in DOMAIN shape.loops |-> l],
                            LAMBDA l : HomeBlock(ins) \in shape.loops[l].blocks)

\* Iterations of a loop, counted where the program enters its header.
Laps(l, ins) ==
  LET loop == shape.loops[l]
  IN  IF ins = shape.code[loop.header][1]
      THEN IF last # Plain!Start /\ HomeBlock(last.ins) \in loop.blocks
           THEN (laps[l] + 1) % IterMod ELSE 1 % IterMod
      ELSE laps[l]

Executed(ins, way) ==
  /\ last' = [ins |-> ins, way |-> way]
  /\ laps' = [l \in DOMAIN laps |-> Laps(l, ins)]

\* The callee of a call returns; fptr instructions compute a called value.
ExecuteInstruction ==
  /\ AtOriginal /\ Op \notin Terminators
  /\ Executed(Original, 1) /\ Advance
  /\ IF Op = "fptr"
     THEN \E t \in {"f", "g", "other"} : fptr' = [fptr EXCEPT ![Instr[2]] = t]
     ELSE UNCHANGED fptr
  /\ UNCHANGED <<pass, shape, compilerVars, slot, reg, hookVars>>

\* A branch, or an invoke whose callee returns (1) or throws (2).
ExecuteTerminator ==
  /\ AtOriginal /\ Op \in {"br", "invoke"}
  /\ \E i \in DOMAIN fn.succ[pc[1]] : Executed(Instr, i) /\ Jump(i)
  /\ UNCHANGED <<pass, shape, compilerVars, fptr, slot, reg, hookVars>>

LeaveFunction ==
  /\ AtOriginal /\ Op \in {"ret", "resume"}
  /\ Executed(Instr, 1) /\ pc' = <<>>
  /\ UNCHANGED <<pass, shape, compilerVars, fptr, slot, reg, hookVars>>

FollowNewBranch ==
  /\ Running /\ ~ AtOriginal
  /\ \/ Op = "br" /\ Jump(1)
     \/ /\ Op = "icmp"
        /\ Jump(IF fptr[Instr[2][1]] = Instr[2][2] THEN 1 ELSE 2)
  /\ UNCHANGED <<pass, shape, compilerVars, fptr, slot, reg, hookVars, last, laps>>

MoveLocalId ==
  /\ Running
  /\ \/ /\ Op = "setid"
        /\ slot' = [slot EXCEPT ![Instr[2][1]] = Instr[2][2]] /\ UNCHANGED reg
     \/ /\ Op = "loadid"
        /\ reg' = [reg EXCEPT ![Instr[2]] = slot[Instr[2]]] /\ UNCHANGED slot
  /\ Advance
  /\ UNCHANGED <<pass, shape, compilerVars, fptr, hookVars, last, laps>>

Runs(role) == Running /\ role \in DOMAIN Hooks /\ Op = Hooks[role]

RunLoopHook ==
  /\ \/ /\ Runs("LoopBegin")
        /\ ctx' = [ctx EXCEPT ![LoopPlace(Instr[2])] = @ + 1]
        /\ iters' = Append(iters, 0)
     \/ /\ Runs("LoopNext")
        /\ iters' = IF iters = <<>> THEN iters
                    ELSE [iters EXCEPT ![Len(iters)] = (@ + 1) % IterMod]
        /\ UNCHANGED ctx
     \/ /\ Runs("LoopEnd")
        /\ ctx' = [ctx EXCEPT ![LoopPlace(Instr[2])] = @ - 1]
        /\ iters' = IF iters = <<>> THEN iters ELSE Front(iters)
  /\ Advance
  /\ UNCHANGED <<pass, shape, compilerVars, fptr, slot, reg, muted, last, laps>>

RunCallHook ==
  /\ \/ /\ Runs("CallSiteBegin")
        /\ ctx' = [ctx EXCEPT ![SiteArgument(Instr[2])] = @ + 1]
        /\ UNCHANGED muted
     \/ /\ Runs("CallSiteEnd")
        /\ ctx' = [ctx EXCEPT ![SiteArgument(Instr[2])] = @ - 1]
        /\ UNCHANGED muted
     \/ Runs("DisableCtxtChange") /\ muted' = muted + 1 /\ UNCHANGED ctx
     \/ Runs("EnableCtxtChange")  /\ muted' = muted - 1 /\ UNCHANGED ctx
  /\ Advance
  /\ UNCHANGED <<pass, shape, compilerVars, fptr, slot, reg, iters, last, laps>>

RunAccessHook ==
  /\ Runs("LoadInstr") \/ Runs("StoreInstr") \/ (Running /\ Op = "cast")
  /\ Advance
  /\ UNCHANGED <<pass, shape, compilerVars, fptr, slot, reg, hookVars, last, laps>>

Next == \/ EditFunction \/ NothingInStage \/ EnterFunction
        \/ ExecuteInstruction \/ ExecuteTerminator \/ LeaveFunction
        \/ FollowNewBranch \/ MoveLocalId
        \/ RunLoopHook \/ RunCallHook \/ RunAccessHook

Spec == Init /\ [][Next]_vars

-----------------------------------------------------------------------------
(***************************************************************************)
(* The function is well formed after every edit: a terminator ends every   *)
(* block and only blocks, its successors exist, landing pads are entered   *)
(* by exceptions only and exceptions enter nothing else, what an access    *)
(* hook gets is a 64-bit integer, and no assertion of a pass failed.       *)
(***************************************************************************)
AccessHooks ==
  {Hooks[role] : role \in DOMAIN Hooks \cap {"LoadInstr", "StoreInstr"}}

WellFormed ==
  /\ fn.asserts
  /\ DOMAIN fn.code = DOMAIN fn.succ
  /\ \A b \in DOMAIN fn.code :
       /\ fn.code[b] # <<>>
       /\ \A i \in DOMAIN fn.code[b] :
            /\ (fn.code[b][i][1] \in Terminators) <=> (i = Len(fn.code[b]))
            /\ fn.code[b][i][1] \in AccessHooks =>
                 i > 1 /\ fn.code[b][i - 1] = <<"cast", Integer(64)>>
       /\ \A i \in DOMAIN fn.succ[b] :
            /\ fn.succ[b][i] \in DOMAIN fn.code
            /\ IsLandingPad(fn, fn.succ[b][i]) <=> (Last(fn.code[b])[1] = "invoke" /\ i = 2)
  /\ Running => pc[1] \in DOMAIN fn.code /\ pc[2] \in DOMAIN fn.code[pc[1]]

(***************************************************************************)
(* Whenever the program is about to execute one of its own instructions,   *)
(* the hooks have opened exactly the loops around it, and at a call that   *)
(* has hooks that call's context too; at the call of a recursive function, *)
(* and nowhere else, changes are muted.  Not claimed of landingpad         *)
(* instructions, behind which hooks are still to come, and of branches,    *)
(* which hooks of the next block may precede.                              *)
(***************************************************************************)
Observes == AtOriginal /\ Op \notin {"pad", "br"}

CallHooked == Original[1] \in {"call", "invoke"} /\ pass # "CAMP"

OpenHere(p) ==
  \/ \E i \in DOMAIN Around(Original) : p = LoopPlace(Around(Original)[i])
  \/ /\ CallHooked
     /\ p[1] = "site" /\ p[2] = Original[2]
     /\ IF shape.sites[Original[2]].indirect
        THEN p[3] = (IF fptr[Original[2]] = "other" THEN reg[Original[2]]
                     ELSE fptr[Original[2]])
        ELSE p[3] = "only"

ContextsOpen ==
  Observes =>
    /\ \A p \in DOMAIN ctx : ctx[p] = (IF OpenHere(p) THEN 1 ELSE 0)
    /\ muted = (IF CallHooked /\ shape.sites[Original[2]].recursive THEN 1 ELSE 0)

(***************************************************************************)
(* The counters the hooks keep are the iterations of the loops around.     *)
(***************************************************************************)
IterationsCounted ==
  Observes =>
    iters = [i \in DOMAIN Around(Original) |-> Laps(Around(Original)[i], Original)]

(***************************************************************************)
(* The instrumented function takes the ways through its own instructions   *)
(* that it could take before, and no other.                                *)
(***************************************************************************)
BehavesAsBefore == Plain!PlainSpec
=============================================================================
