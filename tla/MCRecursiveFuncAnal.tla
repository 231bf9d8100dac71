------------------------ MODULE MCRecursiveFuncAnal ------------------------
(***************************************************************************)
(* Every module of three functions in which a function calls each function *)
(* at most once and directly, in any order; and modules whose functions,   *)
(* of two types, make direct calls, calls through computed pointers, to    *)
(* functions of the pointer's type or another, and calls of functions that *)
(* are cast.                                                               *)
(***************************************************************************)
EXTENDS IndirectCallAnal

CONSTANTS f1, f2, f3, puts, log

MCFunctions == {f1, f2, f3}
MCStd       == {puts}
Module(type, calls) == [order |-> <<f1, f2, f3>>, type |-> type, calls |-> calls]
Types(t1, t2, t3)   ==
  [f \in MCFunctions \cup {puts, log} |->
     CASE f = f1 -> t1 [] f = f2 -> t2 [] f = f3 -> t3 [] OTHER -> "library"]

Call(f, t)         == [value |-> f, type |-> t, targets |-> {}]
Pointer(t, S)      == [value |-> None, type |-> t, targets |-> S]
OfTheType(type, t) == Pointer(t, {f \in MCFunctions : type[f] = t})
Direct(type, f)    == Call(f, type[f])

DirectLists(type) ==
  {[i \in DOMAIN s |-> Direct(type, s[i])] : s \in UNION {SetToSeqs(S) : S \in SUBSET MCFunctions}}
DirectModules ==
  LET type == Types("t", "t", "t")
  IN  {Module(type, calls) : calls \in [MCFunctions -> DirectLists(type)]}

\* The last pointers point to functions of another type too, or only.
PointerLists(type) ==
  {<<>>, <<Direct(type, f1)>>, <<Direct(type, f3), Direct(type, puts)>>,
   <<OfTheType(type, "t")>>, <<OfTheType(type, "u")>>, <<OfTheType(type, "t"), Direct(type, f3)>>,
   <<Call(f3, "t")>>, <<Call(f2, "u"), OfTheType(type, "u")>>,
   <<Call(puts, "t")>>, <<Call(log, "u")>>,
   <<Pointer("t", MCFunctions)>>, <<Pointer("u", {f1}), Direct(type, f2)>>}
PointerModules ==
  UNION {{Module(type, calls) : calls \in [MCFunctions -> PointerLists(type)]} :
           type \in {Types("t", "t", "u"), Types("t", "u", "t")}}

MCModules == DirectModules \cup PointerModules

MaxCallees   == 3     \* callees of a function, candidates counted one by one
MCCallGraphs ==
  [order : {<<f1, f2, f3>>},
   calls : [MCFunctions -> UNION {[1 .. n -> MCFunctions] : n \in 0 .. MaxCallees}]]
=============================================================================
