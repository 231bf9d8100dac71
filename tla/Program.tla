------------------------------ MODULE Program ------------------------------
(***************************************************************************)
(* The program under instrumentation, as the analysis passes hand it to    *)
(* ContextTreeBuilder: its functions, its loops, and for every one of them *)
(* (a REGION) the order in which functionNodeTraverse / LoopNodeTraverse   *)
(* meet the call sites and the loops directly inside it.                   *)
(*                                                                         *)
(* An EDGE <<x, r>> says "place x leads into region r".  A place is a call *)
(* site (a CallInst or InvokeInst) or a loop; a loop edge is <<l, l>>.  A  *)
(* call site with several candidate targets contributes one edge for each  *)
(* of them, in the order of IndirectCallAnal's candidate list.  Calls of   *)
(* external declarations create no node and no hook, so they are not here. *)
(***************************************************************************)
EXTENDS Naturals, Sequences

CONSTANTS
  Functions,   \* functions with a body
  Loops,       \* natural loops
  Sites,       \* call and invoke instructions
  Main,        \* the function "main"
  NoPad,       \* the landing pad of a plain call: none
  Programs,    \* the programs considered
  Offset       \* Offset[p][r][i]: see OffsetAssumption

Regions == Functions \cup Loops
Places  == Sites \cup Loops
Edges   == (Sites \X Functions) \cup {<<l, l>> : l \in Loops}

Place(e)  == e[1]
Into(e)   == e[2]
IsLoop(e) == Into(e) \in Loops

(***************************************************************************)
(* A program: the edges of every region in traversal order; the set that   *)
(* RecursiveFuncAnal computed; the loops' context ids as LoadNamer finds   *)
(* them by the names of the headers, 0 for a header without a name; the    *)
(* landing pad of every invoke (two invokes may share one); the functions  *)
(* that can throw an exception.                                            *)
(***************************************************************************)
Program ==
  [body      : [Regions -> Seq(Edges)],
   recursive : SUBSET Functions,
   loopIdOf  : [Loops -> Nat],
   pad       : [Sites -> Sites \cup {NoPad}],
   throws    : SUBSET Functions]

EdgesOf(p, r) == {p.body[r][i] : i \in DOMAIN p.body[r]}

\* The candidate targets of a call site, and the sites that have several.
Candidates(p, s)  == {f \in Functions : \E r \in Regions : <<s, f>> \in EdgesOf(p, r)}
MultiTarget(p, s) == \E f, g \in Candidates(p, s) : f # g

\* An instruction and a loop are in one place of the program.
OnePlaceEach(p) ==
  \A r, q \in Regions : \A i \in DOMAIN p.body[r] : \A j \in DOMAIN p.body[q] :
    /\ p.body[r][i] = p.body[q][j] => r = q /\ i = j
    /\ Place(p.body[r][i]) = Place(p.body[q][j]) => r = q

\* The ids of the program's loops, and that no two loops share one: at most one
\* header has no name.
LoopIds(p)    == {p.loopIdOf[l] : l \in Loops}
OwnLoopIds(p) == \A l, k \in Loops : p.loopIdOf[l] = p.loopIdOf[k] => l = k

\* main is not recursive and nothing calls it.
MainIsRoot(p) ==
  /\ Main \notin p.recursive
  /\ \A r \in Regions : \A e \in EdgesOf(p, r) : Into(e) # Main

\* How many nodes the traversal creates for edge e of program p.
Width(p, e) ==
  IF Into(e) \in p.recursive THEN 1 ELSE Offset[p][Into(e)][Len(p.body[Into(e)])]

(***************************************************************************)
(* Offset[p][r][i] is the number of tree nodes made for region r, its own  *)
(* included, once its first i edges are done.  That such numbers exist     *)
(* says that the recursive functions cut every cycle of the call graph,    *)
(* which is what RecursiveFuncAnal guarantees (module RecursiveFuncAnal);  *)
(* that they grow with i follows from every width being at least 1.        *)
(***************************************************************************)
OffsetOf(p) ==
  \A r \in Regions :
    /\ \A i \in 0 .. Len(p.body[r]) : Offset[p][r][i] \in Nat
    /\ Offset[p][r][0] = 1
    /\ \A i \in DOMAIN p.body[r] :
         Offset[p][r][i] = Offset[p][r][i - 1] + Width(p, p.body[r][i])
    /\ \A i, j \in 0 .. Len(p.body[r]) : i <= j => Offset[p][r][i] <= Offset[p][r][j]

ASSUME NamesAssumption ==
  /\ Main \in Functions
  /\ Functions \cap Loops = {}
  /\ Sites \cap Loops = {}
  /\ Main \notin Places
  /\ NoPad \notin Sites

ASSUME ProgramsAssumption ==
  /\ Programs \subseteq Program
  /\ \A p \in Programs : OnePlaceEach(p) /\ MainIsRoot(p)

ASSUME OffsetAssumption ==
  \A p \in Programs : OffsetOf(p)
=============================================================================
