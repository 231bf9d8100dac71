----------------------------- MODULE FlatMemory -----------------------------
(***************************************************************************)
(* What shadow memory promises its users: an element for every address of  *)
(* the program, all zero at first, that keeps what was stored in it last,  *)
(* and every access of one comes to an end.                                *)
(***************************************************************************)
EXTENDS Naturals

CONSTANTS Elems, Values, Zero, Reading, NoRequest

VARIABLES memory, request, answer

flatVars == <<memory, request, answer>>

FlatInit ==
  /\ memory = [e \in Elems |-> Zero]
  /\ request = NoRequest /\ answer = Zero

Ask(e, v) ==
  /\ request = NoRequest
  /\ request' = [elem |-> e, value |-> v]
  /\ UNCHANGED <<memory, answer>>

Reply ==
  /\ request # NoRequest
  /\ IF request.value = Reading
     THEN answer' = memory[request.elem] /\ UNCHANGED memory
     ELSE /\ memory' = [memory EXCEPT ![request.elem] = request.value]
          /\ UNCHANGED answer
  /\ request' = NoRequest

FlatNext == Reply \/ \E e \in Elems, v \in Values \cup {Reading} : Ask(e, v)

FlatSafety == FlatInit /\ [][FlatNext]_flatVars
FlatSpec   == FlatSafety /\ WF_flatVars(Reply)
=============================================================================
