------------------------ MODULE MCContextTreeBuilder ------------------------
(***************************************************************************)
(* Every program over two functions, two loops and five sites whose bodies *)
(* are among these: direct calls and calls with two candidates, the same   *)
(* callee from two sites, self and mutual recursion, loops that call, a    *)
(* loop in a loop, loops whose headers have no names.                      *)
(***************************************************************************)
EXTENDS TreePasses, MCPrograms

MCBodies ==
  Bodies({<<Call("a", "f")>>,
          <<Call("a", "f"), Call("b", "g")>>,
          <<Call("a", "g"), Call("b", "f")>>,
          <<Call("a", "f"), Call("b", "f")>>,
          <<Call("a", "f"), Call("a", "g"), Call("b", "g")>>,
          <<Call("a", "f"), Call("b", "g"), Loop("l")>>,
          <<Call("a", "f"), Loop("l"), Loop("k")>>},
         {<<>>, <<Call("c", "f")>>, <<Call("c", "g")>>, <<Loop("l")>>,
          <<Call("c", "g"), Loop("l")>>,
          <<Call("c", "g"), Loop("k")>>, <<Call("c", "f"), Call("c", "g")>>},
         {<<>>, <<Call("d", "f")>>, <<Call("d", "g")>>, <<Loop("l")>>,
          <<Call("d", "f"), Call("d", "g")>>},
         {<<>>, <<Call("e", "f")>>, <<Call("e", "g"), Loop("k")>>,
          <<Call("e", "f"), Call("e", "g")>>},
         {<<>>, <<Loop("m")>>})

HasLoop(p, r, l) == Loop(l) \in ToSet(p.body[r])

\* The calls b are invokes in the programs with a loop in f; the headers have no
\* names in those with the loop k in main or in l.
MCProgramSet ==
  LET plain == ProgramsOf(MCBodies)
  IN  plain \cup {[p EXCEPT !.pad["b"] = "b"] : p \in {q \in plain : HasLoop(q, "f", "l")}}
            \cup {[p EXCEPT !.loopIdOf = Unnamed] :
                    p \in {q \in plain : HasLoop(q, "main", "k") \/ HasLoop(q, "l", "k")}}

\* The site d calls its one target through a pointer.
MCIndirect == {"d"}

\* A function's blocks may be in any order that keeps the calls outside its
\* loops in order.
SitesIn(p, r) ==
  LET Of[q \in MCRegions] == UNION {IF IsLoop(e) THEN Of[Into(e)] ELSE {Place(e)} :
                                      e \in EdgesOf(p, q)}
  IN  Of[r]

OrdersOf(p, f) ==
  LET At(s) == {k \in DOMAIN p.body[f] : Place(p.body[f][k]) = s}
  IN  {o \in SetToSeqs(SitesIn(p, f)) :
         \A i, j \in DOMAIN o :
           i < j /\ At(o[i]) # {} /\ At(o[j]) # {} => Min(At(o[i])) < Min(At(o[j]))}

MCOrders(p) ==
  {("main" :> m) @@ ("f" :> f) @@ ("g" :> g) :
     m \in OrdersOf(p, "main"), f \in OrdersOf(p, "f"), g \in OrdersOf(p, "g")}
MCOffset     == OffsetFor(MCProgramSet)
=============================================================================
