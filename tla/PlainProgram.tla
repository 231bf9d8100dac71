---------------------------- MODULE PlainProgram ----------------------------
(***************************************************************************)
(* What instrumentation must preserve: the program as it was, walking      *)
(* through the instructions of one of its functions.  `last` is the last   *)
(* instruction it executed and which way it left it: a terminator has one  *)
(* way per successor, everything else has way 1.                           *)
(***************************************************************************)
EXTENDS Naturals, Sequences

CONSTANT Shapes   \* functions: code, successors (and loops, call sites)

VARIABLES shape, last

Start == [ins |-> <<"start", 0>>, way |-> 1]

\* Where an instruction is.
PositionOf(ins) ==
  CHOOSE p \in (DOMAIN shape.code) \X (1 .. 8) :
    p[2] \in DOMAIN shape.code[p[1]] /\ shape.code[p[1]][p[2]] = ins

NextInstruction ==
  IF last = Start
  THEN shape.code[1][1]
  ELSE LET p == PositionOf(last.ins)
       IN  IF p[2] < Len(shape.code[p[1]])
           THEN shape.code[p[1]][p[2] + 1]
           ELSE shape.code[shape.succ[p[1]][last.way]][1]

Finished == last.ins[1] \in {"ret", "resume"}

WaysOut(ins) ==
  LET p == PositionOf(ins)
  IN  IF p[2] < Len(shape.code[p[1]]) \/ shape.succ[p[1]] = <<>>
      THEN {1} ELSE DOMAIN shape.succ[p[1]]

PlainInit == shape \in Shapes /\ last = Start

Execute ==
  /\ ~ Finished
  /\ \E way \in WaysOut(NextInstruction) : last' = [ins |-> NextInstruction, way |-> way]
  /\ UNCHANGED shape

PlainSpec == PlainInit /\ [][Execute]_<<shape, last>>
=============================================================================
