----------------------------- MODULE MCPrograms -----------------------------
(***************************************************************************)
(* Small programs for TLC.  main has the call sites a and b, f the site c, *)
(* g the site d, the loop l the site e and the loop k, k the loop m; every *)
(* region's body is chosen from a few, and the combinations that are no    *)
(* program (a loop in two places, a cycle the marked functions do not cut) *)
(* are filtered out.                                                       *)
(***************************************************************************)
EXTENDS Naturals, FiniteSets, SequencesExt

MCFunctions == {"main", "f", "g"}
MCLoops     == {"l", "k", "m"}
MCSites     == {"a", "b", "c", "d", "e"}
MCRegions   == MCFunctions \cup MCLoops

MaxEdges == 4    \* edges of a region

Call(s, f) == <<s, f>>
Loop(l)    == <<l, l>>

Succ(body, r) == {e[2] : e \in ToSet(body[r])}

\* Some nonempty set of regions outside rec keeps a path inside itself.
Uncut(body, rec) ==
  \E C \in (SUBSET (MCRegions \ rec)) \ {{}} : \A r \in C : Succ(body, r) \cap C # {}

\* Regions that every successor-closed set around S contains.
Reach(body, S) ==
  {r \in MCRegions : \A C \in SUBSET MCRegions :
     (S \subseteq C /\ \A q \in C : Succ(body, q) \subseteq C) => r \in C}
OnCycle(body) == {f \in MCFunctions : f \in Reach(body, Succ(body, f))}

OnceEach(body) ==
  \A l \in MCLoops : Cardinality({<<r, i>> \in MCRegions \X (1 .. MaxEdges) :
                        i \in DOMAIN body[r] /\ body[r][i] = Loop(l)}) <= 1

(***************************************************************************)
(* The sets of functions the recursion analysis may deliver for a body:    *)
(* only functions on cycles, and enough of them to cut every cycle.        *)
(***************************************************************************)
Markings(body) == {rec \in SUBSET OnCycle(body) : ~ Uncut(body, rec)}

Bodies(mains, fs, gs, ls, ks) ==
  {body \in {("main" :> m) @@ ("f" :> f) @@ ("g" :> g) @@ ("l" :> l) @@ ("k" :> k) @@
             ("m" :> <<>>) :
               m \in mains, f \in fs, g \in gs, l \in ls, k \in ks} :
     OnceEach(body)}

Plain == [s \in MCSites |-> "none"]

\* The loops' ids when all headers but m's have names, and when none has.
Named   == ("l" :> 2) @@ ("k" :> 1) @@ ("m" :> 0)
Unnamed == [l \in MCLoops |-> 0]

ProgramsOf(bodies) ==
  {[body |-> body, recursive |-> rec, loopIdOf |-> Named, pad |-> Plain, throws |-> {}] :
     <<body, rec>> \in {<<b, r>> \in bodies \X SUBSET {"f", "g"} : r \in Markings(b)}}

(***************************************************************************)
(* The numbering of OffsetAssumption, by recursion over the regions the    *)
(* marked functions leave acyclic.                                         *)
(***************************************************************************)
OffsetsOf(p) ==
  LET At[x \in MCRegions \X (0 .. MaxEdges)] ==
        IF x[2] = 0 THEN 1
        ELSE LET e == p.body[x[1]][x[2]]
             IN  At[<<x[1], x[2] - 1>>] +
                 (IF e[2] \in p.recursive THEN 1 ELSE At[<<e[2], Len(p.body[e[2]])>>])
  IN  [r \in MCRegions |-> [i \in 0 .. Len(p.body[r]) |-> At[<<r, i>>]]]

OffsetFor(programs) == [p \in programs |-> OffsetsOf(p)]
=============================================================================
