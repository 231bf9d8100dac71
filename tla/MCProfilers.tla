---------------------------- MODULE MCProfilers ----------------------------
(***************************************************************************)
(* Context trees of six (objects: four) nodes: loops in calls, calls in    *)
(* loops, two children of one node, a recursive leaf, and a function with  *)
(* two copies (its place has one unique id).                               *)
(***************************************************************************)
EXTENDS Profilers

At(parent, loop, recursive, uni) ==
  [parent |-> parent, loop |-> loop, recursive |-> recursive, uni |-> uni]

MCTrees(k) ==
  IF k = "objects"
  THEN {<<At(0, FALSE, FALSE, 1), At(1, TRUE, FALSE, 0), At(0, FALSE, TRUE, 0)>>} ELSE
  {<<At(0, TRUE, FALSE, 1), At(1, FALSE, FALSE, 2), At(2, TRUE, FALSE, 0),
     At(0, FALSE, FALSE, 2), At(4, FALSE, TRUE, 3)>>,
   <<At(0, FALSE, FALSE, 1), At(1, TRUE, FALSE, 0), At(2, TRUE, FALSE, 2),
     At(3, FALSE, TRUE, 0), At(2, FALSE, FALSE, 1)>>}

MCDepth(k) == IF k = "objects" THEN 3 ELSE 4
=============================================================================
