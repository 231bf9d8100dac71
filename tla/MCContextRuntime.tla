-------------------------- MODULE MCContextRuntime --------------------------
(***************************************************************************)
(* Programs for the runtime: direct, indirect and recursive calls, the     *)
(* same callee from two places, loops three deep, exceptions.              *)
(***************************************************************************)
EXTENDS ContextRuntime, MCPrograms

Uniform(p) ==
  \A s \in MCSites : LET c == Candidates(p, s)
                     IN  c \subseteq p.recursive \/ c \cap p.recursive = {}

RunBodies ==
  Bodies({<<Call("a", "f"), Call("b", "g")>>,
          <<Call("a", "f"), Call("a", "g"), Call("b", "g"), Loop("l")>>},
         {<<>>, <<Call("c", "f")>>, <<Call("c", "g")>>, <<Call("c", "g"), Loop("k")>>},
         {<<>>, <<Call("d", "f")>>, <<Call("d", "g")>>, <<Loop("l")>>},
         {<<Call("e", "g"), Loop("k")>>, <<Loop("k")>>, <<Call("e", "f"), Call("e", "g")>>},
         {<<>>, <<Loop("m")>>})

(***************************************************************************)
(* f and g may throw.  Every call site is an invoke with a landing pad of  *)
(* its own, except some of c, d and e, which are plain calls or share one  *)
(* pad.                                                                    *)
(***************************************************************************)
OwnPads == [s \in MCSites |-> s]
PadSets == {OwnPads,
            [OwnPads EXCEPT !["c"] = "none", !["e"] = "none"],
            [OwnPads EXCEPT !["c"] = "d"]}

Throwing(programs) ==
  {[p EXCEPT !.pad = pads, !.throws = {"f", "g"}] : p \in programs, pads \in PadSets}

\* Regions whose call sites get no hooks: the recursive functions' and their loops.
Hidden(p) ==
  {r \in MCRegions : \A C \in SUBSET MCRegions :
     (/\ p.recursive \subseteq C
      /\ \A q \in C : Succ(p.body, q) \cap MCLoops \subseteq C) => r \in C}

HookedSites(p) == {e[1] : e \in UNION {EdgesOf(p, r) : r \in MCRegions \ Hidden(p)}}

\* Hooked call sites have a landing pad, and each its own.
CleanPads(p) ==
  \A s \in HookedSites(p) \cap MCSites :
    p.pad[s] # "none" /\ \A t \in MCSites \ {s} : p.pad[t] # p.pad[s]

UniformPrograms == {p \in ProgramsOf(RunBodies) : Uniform(p)}
CleanPrograms   == UniformPrograms \cup {p \in Throwing(UniformPrograms) : CleanPads(p)}
CleanOffset     == OffsetFor(CleanPrograms)

-----------------------------------------------------------------------------
(***************************************************************************)
(* A program outside those: one call site with a non-recursive first       *)
(* candidate and a recursive second one.                                   *)
(***************************************************************************)
Sample(m, f, g) ==
  [body |-> ("main" :> m) @@ ("f" :> f) @@ ("g" :> g) @@ [l \in MCLoops |-> <<>>],
   recursive |-> {}, loopIdOf |-> Named, pad |-> Plain, throws |-> {}]

MixedPrograms ==
  {[Sample(<<Call("a", "f"), Call("a", "g"), Call("b", "f")>>, <<Loop("l")>>,
           <<Call("d", "g"), Call("e", "f")>>)
      EXCEPT !.recursive = {"g"}]}
MixedOffset   == OffsetFor(MixedPrograms)
=============================================================================
