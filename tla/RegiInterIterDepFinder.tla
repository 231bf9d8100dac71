----------------------- MODULE RegiInterIterDepFinder -----------------------
(***************************************************************************)
(* lib/CAMP/RegiInterIterDepFinder.cpp: which loops carry a dependence in  *)
(* a register: a phi of the header whose value from the iteration before   *)
(* is neither invariant nor an induction variable.                         *)
(*                                                                         *)
(* A loop is [canon, def, phis]: its canonical induction variable or None; *)
(* the values computed in the loop, each <<kind, operands>>; the header's  *)
(* phis.  The operand of a header phi is its value from inside the loop.   *)
(* Kinds: "phi" (of the header), "arith" (+, -, *, <<), "cast", "other".   *)
(* A value that is not in DOMAIN def is loop invariant.                    *)
(***************************************************************************)
EXTENDS Naturals, FiniteSets, Sequences

CONSTANTS
  None,
  SearchLimit   \* values isIndVar comes through, inVal included: 50

IsComputable(loop) ==
  /\ IsFiniteSet(DOMAIN loop.def) /\ loop.phis \subseteq DOMAIN loop.def
  /\ \A v \in DOMAIN loop.def :
       /\ loop.def[v][1] \in {"phi", "cast"} => 2 \in DOMAIN loop.def[v]
       /\ loop.def[v][1] = "arith" => {2, 3} \subseteq DOMAIN loop.def[v]

Invariant(loop, v) == v \notin DOMAIN loop.def
KindOf(loop, v) == loop.def[v][1]
Operand(loop, v, i) == loop.def[v][i + 1]

\* Faulty: the second operand is not looked at.
VariantOfFirst(loop, v) == {Operand(loop, v, 1)} \cap DOMAIN loop.def

\* Arithmetic: operands have to be induction variables or invariant, not all
\* invariant.
VariantOperands(loop, v) == {Operand(loop, v, i) : i \in {1, 2}} \cap DOMAIN loop.def

\* Arguments of isIndVar: the value, what is in orginalVal, how long that is.
Calls(loop, inVal) ==
  (DOMAIN loop.def \cup {inVal}) \X (SUBSET DOMAIN loop.def) \X (1 .. SearchLimit)

(***************************************************************************)
(* orginalVal, the values the search came through, ends it at a phi: one   *)
(* whose value is among them is an induction variable.  The vector is one  *)
(* longer at each call inside a call; when it is longer than SearchLimit   *)
(* the call asserts or, in a build without assertions, returns false.      *)
(***************************************************************************)
isIndVar(inVal, orginalVal, loop) ==
  LET Search[x \in Calls(loop, inVal)] ==
        LET v     == x[1]
            Is(w) == /\ ~ Invariant(loop, w) /\ x[3] < SearchLimit
                     /\ Search[<<w, x[2] \cup {w}, x[3] + 1>>]
        IN  CASE Invariant(loop, v) -> FALSE
              [] ~ Invariant(loop, v) /\ v = loop.canon -> TRUE
              [] OTHER ->
                   \/ /\ KindOf(loop, v) = "phi"
                      /\ Operand(loop, v, 1) \in x[2] \/ Is(Operand(loop, v, 1))
                   \/ /\ KindOf(loop, v) = "arith" /\ VariantOperands(loop, v) # {}
                      /\ \A w \in VariantOperands(loop, v) : Is(w)
                   \/ KindOf(loop, v) = "cast" /\ Is(Operand(loop, v, 1))
  IN  Search[<<inVal, orginalVal, 1>>]

\* The operands isIndVar calls itself for, the answer of one settling none of
\* the others; of arithmetic the second one even if it is invariant, since
\* isSndIndVar is tested where isSndInvari is meant.
Asked(loop, v, orginalVal) ==
  CASE v = loop.canon -> {}
    [] v # loop.canon /\ KindOf(loop, v) = "phi" -> {Operand(loop, v, 1)} \ orginalVal
    [] v # loop.canon /\ KindOf(loop, v) = "arith" ->
         VariantOperands(loop, v) \cup {Operand(loop, v, 2)}
    [] v # loop.canon /\ KindOf(loop, v) = "cast" -> {Operand(loop, v, 1)} \cap DOMAIN loop.def
    [] OTHER -> {}

\* A call within isIndVar(inVal, orginalVal, loop) is one too many.
ExceedsLimit(inVal, orginalVal, loop) ==
  LET Search[x \in Calls(loop, inVal)] ==
        \E w \in Asked(loop, x[1], x[2]) :
          \/ x[3] = SearchLimit
          \/ /\ ~ Invariant(loop, w) /\ x[3] < SearchLimit
             /\ Search[<<w, x[2] \cup {w}, x[3] + 1>>]
  IN  Search[<<inVal, orginalVal, 1>>]

\* The values isIndVar is called for: of the header's phis, those from inside.
Searched(loop) ==
  {Operand(loop, phi, 1) : phi \in loop.phis \ {loop.canon}} \cap DOMAIN loop.def

TooBig(loop) == \E v \in Searched(loop) : ExceedsLimit(v, {v}, loop)

nLoopCarriedDep(loop) ==
  Cardinality({phi \in loop.phis \ {loop.canon} :
                 LET inValue == Operand(loop, phi, 1)
                 IN  ~ Invariant(loop, inValue) /\ ~ isIndVar(inValue, {inValue}, loop)})

\* The keys of nLoopCarriedDepMap, which printResult writes.
NonDOALLable(loopOfLoopID) ==
  {id \in DOMAIN loopOfLoopID : nLoopCarriedDep(loopOfLoopID[id]) > 0}

-----------------------------------------------------------------------------
(***************************************************************************)
(* What the search decides: a value is inductive if it is in a set of      *)
(* values of the loop that all are, given the others.                      *)
(***************************************************************************)
Supports(loop, X) ==
  \A v \in X :
    LET Is(w) == w \in X
    IN  \/ v = loop.canon
        \/ KindOf(loop, v) \in {"phi", "cast"} /\ Is(Operand(loop, v, 1))
        \/ /\ KindOf(loop, v) = "arith"
           /\ {Operand(loop, v, 1), Operand(loop, v, 2)} \cap DOMAIN loop.def # {}
           /\ {Operand(loop, v, 1), Operand(loop, v, 2)} \cap DOMAIN loop.def \subseteq X

Inductive(loop, v) == \E X \in SUBSET DOMAIN loop.def : v \in X /\ Supports(loop, X)

CarriesDependence(loop) ==
  \E phi \in loop.phis \ {loop.canon} :
    LET inValue == Operand(loop, phi, 1)
    IN  inValue \in DOMAIN loop.def /\ ~ Inductive(loop, inValue)
=============================================================================
