-------------------------- MODULE MCHookPlacement --------------------------
(***************************************************************************)
(* Functions with two nested loops in loop-simplify form.  Blocks: entry   *)
(* (preheader), outer header, inner preheader, inner header, body, exit of *)
(* the inner loop, inner latch, outer latch, outer exit, exit by a break   *)
(* out of both loops, landing pad in the outer loop, landing pad outside,  *)
(* return.  A variant says how the body ends and which call it makes.      *)
(***************************************************************************)
EXTENDS HookPlacement

Variants ==
  [body : {"plain", "call"}, site : {"direct", "recursive", "indirect"},
   pad : {11}, break : BOOLEAN]
  \cup
  [body : {"invoke", "invokeOut"}, site : {"direct", "recursive", "indirect"},
   pad : {11, 12}, break : BOOLEAN]

Simplified(v) ==
  /\ v.body = "plain" => v.site = "direct"
  /\ v.body = "invokeOut" => ~ v.break     \* block 10 is left by the invoke

BodyCode(v) ==
  << <<"store", 1>>, <<"fptr", 1>> >> \o
  (CASE v.body = "plain"  -> << <<"malloc", 2>>, <<"calloc", 3>>, <<"realloc", 4>>,
                                <<"free", 5>>, <<"br", 5>> >>
     [] v.body = "call"   -> << <<"call", 1>>, <<"br", 5>> >>
     [] OTHER             -> << <<"invoke", 1>> >>)

BodySucc(v) ==
  CASE v.body \in {"plain", "call"} -> <<7>>
    [] v.body = "invoke"            -> <<7, v.pad>>
    [] v.body = "invokeOut"         -> <<10, v.pad>>

HeaderSucc(v) ==
  CASE v.body = "invokeOut" -> <<5, 7, 6>>
    [] v.break              -> <<5, 6, 10>>
    [] OTHER                -> <<5, 6>>

Used(v, pad) == v.body \in {"invoke", "invokeOut"} /\ v.pad = pad
Broken(v)    == v.break \/ v.body = "invokeOut"

Outcome(used, code, succ) == IF used THEN [c |-> code, s |-> succ]
                                     ELSE [c |-> << <<"ret", 0>> >>, s |-> <<>>]

\* The blocks that are not used are unreachable, with an end of their own.
BreakExit(v) == Outcome(Broken(v), << <<"work", 10>>, <<"br", 10>> >>, <<13>>)
InnerPad(v)  == Outcome(Used(v, 11), << <<"pad", 11>>, <<"work", 11>>, <<"br", 11>> >>, <<8>>)
OuterPad(v)  == Outcome(Used(v, 12), << <<"pad", 12>>, <<"resume", 12>> >>, <<>>)

ShapeOf(v) ==
  [pointerBits |-> IF v.break THEN 32 ELSE 64,
   code |-> << << <<"call", 2>>, <<"br", 1>> >>,
               << <<"work", 2>>, <<"br", 2>> >>,
               << <<"br", 3>> >>,
               << <<"load", 4>>, <<"br", 4>> >>,
               BodyCode(v),
               << <<"loadgep", 6>>, <<"br", 6>> >>,
               << <<"br", 7>> >>,
               << <<"call", 3>>, <<"br", 8>> >>,
               << <<"work", 9>>, <<"br", 9>> >>,
               BreakExit(v).c, InnerPad(v).c, OuterPad(v).c,
               << <<"ret", 13>> >> >>,
   succ |-> << <<2>>, <<3, 9>>, <<4>>, HeaderSucc(v), BodySucc(v), <<8>>, <<4>>, <<2>>,
               <<13>>, BreakExit(v).s, InnerPad(v).s, OuterPad(v).s, <<>> >>,
   loops |-> << [header |-> 2, uniID |-> 3,
                 blocks |-> (2 .. 8) \cup (IF Used(v, 11) THEN {11} ELSE {})],
                [header |-> 4, uniID |-> 4, blocks |-> {4, 5, 7}] >>,
   sites |-> << [targets |-> <<"f", "g">>, indirect |-> v.site = "indirect",
                 recursive |-> v.site = "recursive", uniID |-> 5],
                [targets |-> <<"f">>, indirect |-> FALSE, recursive |-> FALSE, uniID |-> 1],
                [targets |-> <<"g">>, indirect |-> FALSE, recursive |-> TRUE, uniID |-> 2] >>]

\* A plain body makes its call too, in front of its allocations.
Sited(v) == IF v.body = "plain"
            THEN [ShapeOf(v) EXCEPT !.code[5] = << <<"call", 1>> >> \o @]
            ELSE ShapeOf(v)

MCShapes == {Sited(v) : v \in {w \in Variants : Simplified(w)}}
MCFile   == <<3, 5>>

=============================================================================
