------------------------ MODULE MCDependenceProfiler ------------------------
(***************************************************************************)
(* The programs whose accesses are profiled.                               *)
(***************************************************************************)
EXTENDS DependenceProfiler, TLC

\* A loop l with a loop k in it: a load and a store in k, a store in l around it.
MCLoops  == {"l", "k"}
MCPaths  == {<<>>, <<"l">>, <<"l", "k">>}
MCLocID  == ("l" :> 1) @@ ("k" :> 1)
MCLoads  == {"load"}
MCStores == {"store k", "store l"}
MCAt     == ("load" :> {<<"l", "k">>}) @@ ("store k" :> {<<"l", "k">>}) @@
            ("store l" :> {<<"l">>})
MCIter   == ("l" :> 2) @@ ("k" :> 3)

\* The loop l alone, with a load and a store.
MCObjPaths == {<<>>, <<"l">>}
MCObjLocID == "l" :> 1
MCObjAt    == ("load" :> {<<"l">>}) @@ ("store" :> {<<"l">>})
MCObjIter  == "l" :> 2
=============================================================================
