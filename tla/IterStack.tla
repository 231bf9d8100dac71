----------------------------- MODULE IterStack -----------------------------
(***************************************************************************)
(* The iteration counters every tracing runtime keeps for the loops the    *)
(* program is in: STK_MAX_SIZE slots of 7 bits; deeper loops only count    *)
(* an overflow.                                                            *)
(***************************************************************************)
EXTENDS Integers

CONSTANTS STK_MAX_SIZE, IterMod

VARIABLES globalIterStack, globalIterStackIdx, globalIterStackIdx_overflow

iterVars == <<globalIterStack, globalIterStackIdx, globalIterStackIdx_overflow>>

EmptyStack ==
  /\ globalIterStack = [i \in 0 .. STK_MAX_SIZE - 1 |-> 0]
  /\ globalIterStackIdx = -1 /\ globalIterStackIdx_overflow = -1

Push ==
  IF globalIterStackIdx >= STK_MAX_SIZE - 1
  THEN /\ globalIterStackIdx_overflow' = globalIterStackIdx_overflow + 1
       /\ UNCHANGED <<globalIterStack, globalIterStackIdx>>
  ELSE /\ globalIterStackIdx' = globalIterStackIdx + 1
       /\ globalIterStack' = [globalIterStack EXCEPT ![globalIterStackIdx + 1] = 0]
       /\ UNCHANGED globalIterStackIdx_overflow

Count ==
  /\ globalIterStack' = [globalIterStack EXCEPT ![globalIterStackIdx] = (@ + 1) % IterMod]
  /\ UNCHANGED <<globalIterStackIdx, globalIterStackIdx_overflow>>

\* Faulty: the slot of an outer loop is given up while loops overflow.
PopAlways ==
  /\ globalIterStack' = [globalIterStack EXCEPT ![globalIterStackIdx] = 0]
  /\ globalIterStackIdx' = globalIterStackIdx - 1
  /\ UNCHANGED globalIterStackIdx_overflow

Pop ==
  IF globalIterStackIdx_overflow > -1
  THEN /\ globalIterStackIdx_overflow' = globalIterStackIdx_overflow - 1
       /\ UNCHANGED <<globalIterStack, globalIterStackIdx>>
  ELSE /\ globalIterStack' = [globalIterStack EXCEPT ![globalIterStackIdx] = 0]
       /\ globalIterStackIdx' = globalIterStackIdx - 1
       /\ UNCHANGED globalIterStackIdx_overflow

\* As many slots and overflows are in use as there are loops.
Depth == globalIterStackIdx + 1 + globalIterStackIdx_overflow + 1
=============================================================================
