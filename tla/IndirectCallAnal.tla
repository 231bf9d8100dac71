-------------------------- MODULE IndirectCallAnal --------------------------
(***************************************************************************)
(* lib/AliasAnalysis/IndirectCallAnal.cpp: the functions a call through a  *)
(* pointer may enter, which are the edges RecursiveFuncAnal walks along.   *)
(*                                                                         *)
(* A call is [value, type, targets]: the function called, behind casts, or *)
(* None if the pointer is computed; the type the call is made with; and    *)
(* the functions the pointer, if computed, may point to when the program   *)
(* runs, of whatever types: a cast that made it is not seen at the call.   *)
(* A call is direct if it uses the function's own type.                    *)
(***************************************************************************)
EXTENDS RecursiveFuncAnal, SequencesExt

CONSTANTS
  None,
  stdLibFunList,   \* external functions with well known names
  Modules          \* [order, type, calls]: functions, their types, their calls

ASSUME ModulesAssumption ==
  /\ None \notin Functions
  /\ \A mod \in Modules :
       /\ mod.order \in Seq(Functions)
       /\ \A f \in Functions : \E i \in DOMAIN mod.order : mod.order[i] = f
       /\ \A f \in Functions : mod.calls[f] \in Seq(ToSet(mod.calls[f]))

VARIABLE module    \* the module (never changes)

IsDirect(mod, call)  == call.value # None /\ call.type = mod.type[call.value]
IsDeclaration(f)     == f \notin Functions
IsIndirect(mod, call) == ~ IsDirect(mod, call)

\* Faulty: the first function of the type stands for all of them.
OfTypeFirst(mod, t) ==
  LET all == SelectSeq(mod.order, LAMBDA f : mod.type[f] = t)
  IN  IF all = <<>> THEN all ELSE <<Head(all)>>

\* All functions of the type, in the order of the module.
OfType(mod, t) ==
  FlattenSeq([i \in DOMAIN mod.order |->
                IF mod.type[mod.order[i]] = t THEN <<mod.order[i]>> ELSE <<>>])

\* First a function that is known, or all functions of the pointer's type.
Matched(mod, call) ==
  CASE call.value = None -> OfType(mod, call.type)
    [] call.value # None /\ ~ IsDeclaration(call.value) -> <<call.value>>
    [] OTHER -> <<>>

\* Then, for calls without a target, the functions of the type, unless the
\* name is one of the standard library's.
buildTypeBasedMatching(mod, call) ==
  IF Matched(mod, call) = <<>> /\ call.value \notin stdLibFunList
  THEN OfType(mod, call.type)
  ELSE Matched(mod, call)

\* The callees RecursiveFuncAnal meets at a call.
possibleTargetOf(mod, call) ==
  CASE IsIndirect(mod, call) -> buildTypeBasedMatching(mod, call)
    [] IsDirect(mod, call) /\ ~ IsDeclaration(call.value) -> <<call.value>>
    [] OTHER -> <<>>

CallGraphOf(mod) ==
  [order |-> mod.order,
   calls |-> [f \in Functions |->
                FlattenSeq([i \in DOMAIN mod.calls[f] |->
                              possibleTargetOf(mod, mod.calls[f][i])])]]

ModuleInit == module \in Modules /\ graph = CallGraphOf(module) /\ AnalInit
ModuleNext == AnalNext /\ UNCHANGED module
moduleVars == <<module, graph, roots, callHistory, recFuncList, nonRecFuncList, recursiveCalls>>
ModuleSpec == ModuleInit /\ [][ModuleNext]_moduleVars /\ WF_moduleVars(ModuleNext)

-----------------------------------------------------------------------------
(***************************************************************************)
(* What a call of the running program may enter: the known function or any *)
(* the pointer may point to.  The matching misses those of another type    *)
(* than the pointer's.                                                     *)
(***************************************************************************)
Entered(call)   == IF call.value = None THEN call.targets \cap Functions
                   ELSE {call.value} \cap Functions
Missed(call, g) == call.value = None /\ module.type[g] # call.type

(***************************************************************************)
(* Every cycle of calls the program can make that avoids recFuncList has a *)
(* call through a pointer to a function of another type than the pointer's *)
(* in it: of any functions not marked, one calls the others only that way. *)
(* So the matching and the marking together keep the context tree true to  *)
(* the program, and the hooks below recursion mute, but for such calls.    *)
(***************************************************************************)
EveryRealCycleCut ==
  Finished =>
    \A C \in SUBSET (Functions \ recFuncList) :
      C # {} => \E f \in C : \A call \in ToSet(module.calls[f]) :
                             \A g \in Entered(call) \cap C : Missed(call, g)
=============================================================================
