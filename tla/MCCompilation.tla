--------------------------- MODULE MCCompilation ---------------------------
(***************************************************************************)
(* Four families of small modules: two functions with accesses, calls and *)
(* loops, named or not; one loop with all ways to compute three values     *)
(* from each other; lists of constructors and destructors with equal and   *)
(* different priorities; four calls that use each other's values and a     *)
(* constant, and devices with equal and different names.                   *)
(***************************************************************************)
EXTENDS Compilation, TLC

Ins(op)   == [op |-> op, callee |-> "none"]
CallOf(f) == [op |-> "call", callee |-> f]
LoopWith(header, depth, canon, def, phis) ==
  [header |-> header, depth |-> depth, canon |-> canon, def |-> def, phis |-> phis]
EmptyLoop(header, depth) == LoopWith(header, depth, None, <<>>, {})

\* x and y depend on each other: the loop carries a dependence.
Carried(header, depth) ==
  LoopWith(header, depth, None, ("x" :> <<"phi", "y">>) @@ ("y" :> <<"other">>), {"x"})

Blocks ==
  { << <<Ins("load"), Ins("store"), Ins("load")>>, <<Ins("store"), Ins("other")>> >>,
    << <<CallOf("g"), Ins("load")>>, <<CallOf("malloc"), Ins("load"), CallOf("f")>> >>,
    << <<Ins("load"), Ins("load"), Ins("store")>>, <<Ins("load"), CallOf("calloc")>> >>,
    << <<Ins("other")>>, <<CallOf("malloc")>>, <<CallOf("g"), Ins("store")>> >> }

LoopLists ==
  { <<>>, <<Carried("body", 1)>>, <<EmptyLoop(NoName, 1)>>,
    <<Carried("body", 1), EmptyLoop("inner", 2)>>,
    <<EmptyLoop(NoName, 1), Carried("in", 2), Carried(NoName, 1)>>,
    <<EmptyLoop("body", 1), EmptyLoop("inner", 2), Carried("more", 1), Carried("last", 2)>> }

Func(name, blocks, loops) == [name |-> name, blocks |-> blocks, loops |-> loops]
Module(functions, c, d)   == [functions |-> functions, ctors |-> c, dtors |-> d]

NamingUnits ==
  {Module(<<Func("f", b, l), Func("g", c, m)>>, <<>>, <<>>) :
     b, c \in Blocks, l, m \in LoopLists}

-----------------------------------------------------------------------------
Values == {"x", "y", "t"}
Rest(Used) ==
  {<<"phi", v>> : v \in Values} \cup {<<"cast", v>> : v \in Values}
  \cup {<<"other">>} \cup {<<"arith", v, w>> : v \in Used, w \in Used \cup {"c"}}

\* Header phis of x, and of those of y and t that are phis; i counts.
GraphLoop(y, t, canon) ==
  LET def == ("x" :> <<"phi", "y">>) @@ ("y" :> y) @@ ("t" :> t)
             @@ ("i" :> <<"phi", "next">>) @@ ("next" :> <<"arith", "i", "c">>)
  IN  LoopWith("body", 1, canon, def, {v \in DOMAIN def : def[v][1] = "phi"})

\* No value is computed from itself within an iteration.
Computable(y, t) ==
  LET Now(d) == IF d[1] = "phi" THEN {} ELSE {d[i] : i \in 2 .. Len(d)}
  IN  /\ "y" \notin Now(y) /\ "t" \notin Now(t)
      /\ ~ ("t" \in Now(y) /\ "y" \in Now(t))

GraphUnits ==
  {Module(<<Func("f", << <<Ins("other")>> >>, <<GraphLoop(p[1], p[2], canon)>>)>>, <<>>, <<>>) :
     p \in {q \in Rest({"x", "t", "i"}) \X Rest({"x", "y", "i"}) : Computable(q[1], q[2])},
     canon \in {None, "i"}}

-----------------------------------------------------------------------------
Rec(priority, calls) == G!Record(priority, calls)
Ctors == { <<Rec(65535, <<"a">>), Rec(100, <<"b">>), Rec(200, <<"c">>)>>,
           <<Rec(65535, <<"a">>), Rec(65535, <<"b", "c">>)>> }
Dtors == { <<Rec(65535, <<"d">>), Rec(100, <<"e">>)>>,
           <<Rec(100, <<"d">>), Rec(65535, <<"e">>), Rec(200, <<"h">>)>>,
           <<Rec(65535, <<"d", "e">>), Rec(65535, <<"h">>)>> }

StartUnits ==
  {Module(<<Func("f", << <<Ins("other")>> >>, <<>>)>>, c, d) : c \in Ctors, d \in Dtors}

-----------------------------------------------------------------------------
\* f and g may be device functions, m is a method of class K, h calls them all.
C(i)   == <<1, 1, i>>
Const  == <<"const">>
Caller(indirect) ==
  Func("h", << <<CallOf("f"), CallOf("g"), Ins("other"), CallOf("m"), CallOf("g")>>
               \o (IF indirect THEN <<CallOf(None)>> ELSE <<>>) >>, <<>>)
Leaf(name) == Func(name, << <<Ins("other")>> >>, <<>>)

Metadata(g, k) == ("f" :> <<"A", "x86">>) @@ ("L" :> <<"A", "avr">>)
                  @@ (IF g = None THEN <<>> ELSE "g" :> g)
                  @@ (IF k = None THEN <<>> ELSE "K" :> k)

\* m's class, the characters of its name, and those of m's from there.
Method(length, left) == "m" :> [name |-> "K", length |-> length, left |-> left]

EsperantoUnits ==
  {[functions |-> <<Caller(indirect)>> \o order, ctors |-> <<>>, dtors |-> <<>>,
    operands  |-> (C(1) :> first) @@ (C(2) :> second) @@ (C(3) :> {Const, C(5)})
                  @@ (C(4) :> fourth) @@ (C(5) :> {C(4)}),
    constants |-> Const :> {E!Fn("f")},
    metadata  |-> Metadata(g, k), class |-> class,
    variables |-> IF k = None THEN <<"L">> ELSE <<"L", "K">>] :
       indirect \in BOOLEAN,
       order \in {<<Leaf("f"), Leaf("g"), Leaf("m")>>, <<Leaf("g"), Leaf("f"), Leaf("m")>>},
       first \in {{}, {C(2)}, {E!Fn("g")}}, second \in {{}, {C(1)}, {Const}}, fourth \in {{}, {C(2)}},
       g \in {None, <<"B", "mips">>, <<"A", "arm">>},
       k \in {None, <<"B", "avr">>, <<"C", "x86">>},
       class \in {Method(1, 7), Method(12, 200), Method(12, 18)}}

MCUnits == NamingUnits \cup GraphUnits \cup StartUnits \cup EsperantoUnits

AllTools   == {"CAMP", "CampExectime", "CtxObjtrace", "ObjTrace", "Qprofiler", "CampPlain"}
MCTools(u) == CASE u \in EsperantoUnits -> {"EsperantoNamer"}
                [] u \in StartUnits     -> AllTools
                [] OTHER                -> {"CtxObjtrace"}
MCFile     == <<1>>
=============================================================================
