---------------------------- MODULE Compilation ----------------------------
(***************************************************************************)
(* One compilation with a profiler, and the start and the end of the       *)
(* process: the passes that name things (Namer, then LoadNamer from its    *)
(* file, then ContextTreeBuilder's table of loops), the search for         *)
(* dependences in registers, the pass's constructor and destructor, and    *)
(* the loader calling them; or, after the naming, EsperantoNamer.          *)
(***************************************************************************)
EXTENDS Naturals, Sequences, FiniteSets, SequencesExt, FiniteSetsExt

CONSTANTS
  Units,       \* what is compiled: [functions, ctors, dtors], or a module of Esperanto
  Tools(_),    \* the passes a unit is compiled with
  IdMod, NoName, None,
  SearchLimit, NUM_CTX, File

VARIABLES
  unit, tool,
  stage,       \* "name", "loops", "dependences", "link", "run"; "devices";
               \* "crashed", "too big"
  named,       \* functions runOnFunction has been through
  functionTable, loopTable, contextCount, basicBlockCount,
  instructionCount, loadCount, storeCount, namer,
  meta,        \* LoadNamer's tables
  loopIdOf,    \* <<function, loop>> -> id
  loopOfCntxID,
  nonDOALLable,
  esperanto,   \* EsperantoNamer's maps
  ctors, dtors,     \* llvm.global_ctors and llvm.global_dtors
  ran, phase        \* functions the loader called; "before", "main", "after"

N == INSTANCE Namer
R == INSTANCE RegiInterIterDepFinder
G == INSTANCE HookEdits
E == INSTANCE EsperantoNamer

Camp     == INSTANCE CAMP
Exectime == INSTANCE CampExectime
CtxObj   == INSTANCE CtxObjtrace
Obj      == INSTANCE ObjTrace
Qpro     == INSTANCE Qprofiler

\* CampPlain.cpp inserts no hooks, only the two functions that measure how
\* long the program runs without a profiler.
PlainSetFunctions == [Initialize |-> "plainInitialize", Finalize |-> "plainFinalize"]

SetFunctions ==
  [CAMP |-> Camp!setFunctions, CampExectime |-> Exectime!setFunctions,
   CtxObjtrace |-> CtxObj!setFunctions, ObjTrace |-> Obj!setFunctions,
   Qprofiler |-> Qpro!setFunctions, CampPlain |-> PlainSetFunctions]

PassFunctions == {SetFunctions[t].Initialize : t \in DOMAIN SetFunctions}
                   \cup {SetFunctions[t].Finalize : t \in DOMAIN SetFunctions}

(***************************************************************************)
(* What LLVM makes sure of: functions and, in a function, blocks (of loops *)
(* the headers) have names of their own, if any; a loop lies in as many    *)
(* loops as its depth says; values are computed before they are used.  A   *)
(* function is called once at the start or the end of the process, and a   *)
(* program has no functions with the names of a pass's.                    *)
(***************************************************************************)
IsSequence(s) == s \in Seq(ToSet(s))

IsFunction(f) ==
  /\ IsSequence(f.blocks) /\ \A b \in DOMAIN f.blocks : IsSequence(f.blocks[b])
  /\ IsSequence(f.loops)
  /\ \A l \in DOMAIN f.loops :
       f.loops[l].depth \in 1 .. Len(f.loops) /\ R!IsComputable(f.loops[l])
  /\ \A l, m \in DOMAIN f.loops :
       f.loops[l].header = f.loops[m].header /\ f.loops[l].header # NoName => l = m

FunctionsOf(list) == UNION {ToSet(list[i].calls) : i \in DOMAIN list}

IsList(list) ==
  /\ IsSequence(list)
  /\ \A i \in DOMAIN list : list[i].priority \in 0 .. G!DefaultPriority
                             /\ IsSequence(list[i].calls)
  /\ \A i, j \in DOMAIN list : \A m \in DOMAIN list[i].calls, n \in DOMAIN list[j].calls :
       list[i].calls[m] = list[j].calls[n] => i = j /\ m = n

ASSUME UnitsAssumption ==
  /\ IdMod \in Nat \ {0} /\ IdMod % 2 = 0 /\ SearchLimit \in Nat \ {0}
  /\ \A u \in Units :
       /\ IsSequence(u.functions)
       /\ \A k \in DOMAIN u.functions : IsFunction(u.functions[k])
       /\ \A j, k \in DOMAIN u.functions : u.functions[j].name = u.functions[k].name => j = k
       /\ IsList(u.ctors) /\ IsList(u.dtors) /\ FunctionsOf(u.ctors) \cap FunctionsOf(u.dtors) = {}
       /\ (FunctionsOf(u.ctors) \cup FunctionsOf(u.dtors)) \cap ({"main"} \cup PassFunctions) = {}
       /\ Tools(u) \subseteq DOMAIN SetFunctions \cup {"EsperantoNamer"}

countVars == <<functionTable, loopTable, contextCount, basicBlockCount, instructionCount,
               loadCount, storeCount, namer, named>>
loopVars  == <<meta, loopIdOf, loopOfCntxID, nonDOALLable>>
startVars == <<ctors, dtors, ran, phase>>
vars == <<unit, tool, stage, countVars, loopVars, esperanto, startVars>>

Functions == unit.functions

Init ==
  /\ unit \in Units /\ tool \in Tools(unit)
  /\ stage = "name" /\ named = 0
  /\ N!initialize /\ N!makeFunctionTable(Functions)
  /\ meta = <<>> /\ loopIdOf = <<>> /\ loopOfCntxID = <<>> /\ nonDOALLable = {}
  /\ esperanto = <<>>
  /\ ctors = unit.ctors /\ dtors = unit.dtors
  /\ ran = <<>> /\ phase = "before"

NameFunction ==
  /\ stage = "name" /\ named < Len(Functions)
  /\ named' = named + 1
  /\ N!runOnFunction(named + 1, Functions[named + 1])
  /\ UNCHANGED <<unit, tool, stage, loopVars, esperanto, startVars>>

LoadMetadata ==
  /\ stage = "name" /\ named = Len(Functions)
  /\ meta' = N!loadMetadata([functionTable |-> functionTable, loopTable |-> loopTable])
  /\ stage' = "loops"
  /\ UNCHANGED <<unit, tool, countVars, loopIdOf, loopOfCntxID, nonDOALLable, esperanto, startVars>>

(***************************************************************************)
(* The loops of a function by depth; of two loops with one id the last one *)
(* stays in loopOfCntxID.                                                  *)
(***************************************************************************)
AllLoops == UNION {{<<k, l>> : l \in DOMAIN Functions[k].loops} : k \in DOMAIN Functions}

LoopAt(x) == Functions[x[1]].loops[x[2]]
ComesBefore(x, y) ==
  \/ x[1] < y[1]
  \/ x[1] = y[1] /\ LoopAt(x).depth < LoopAt(y).depth
  \/ x[1] = y[1] /\ LoopAt(x).depth = LoopAt(y).depth /\ x[2] < y[2]

ContextIdOf(x) ==
  N!getLoopContextId(meta, LoopAt(x).header, N!getFunctionId(meta, Functions[x[1]].name))

recordLoopIDforEachLoop ==
  /\ stage = "loops" /\ tool # "EsperantoNamer"
  /\ loopIdOf' = [x \in AllLoops |-> ContextIdOf(x)]
  /\ loopOfCntxID' = [id \in {ContextIdOf(x) : x \in AllLoops} |->
                        CHOOSE x \in AllLoops : ContextIdOf(x) = id
                          /\ \A y \in AllLoops : ContextIdOf(y) = id => y = x \/ ComesBefore(y, x)]
  /\ stage' = "dependences"
  /\ UNCHANGED <<unit, tool, countVars, meta, nonDOALLable, esperanto, startVars>>

\* A search beyond its limit ends a compiler with assertions.
FindDependences ==
  /\ stage = "dependences"
  /\ LET loopOfLoopID == [id \in DOMAIN loopOfCntxID |-> LoopAt(loopOfCntxID[id])]
     IN  \/ nonDOALLable' = R!NonDOALLable(loopOfLoopID) /\ stage' = "link"
         \/ /\ \E id \in DOMAIN loopOfLoopID : R!TooBig(loopOfLoopID[id])
            /\ stage' = "too big" /\ UNCHANGED nonDOALLable
  /\ UNCHANGED <<unit, tool, countVars, meta, loopIdOf, loopOfCntxID, esperanto, startVars>>

Listed == {f \in ToSet(functionTable) : N!getFunctionId(meta, f) # 0}

\* A null callee ends any compiler, a read past the end of a callee's name
\* one with assertions.
GiveDevices ==
  /\ stage = "loops" /\ tool = "EsperantoNamer"
  /\ \/ /\ E!NullCallee(unit) \/ E!PastEnd(unit)
        /\ stage' = "crashed" /\ UNCHANGED esperanto
     \/ /\ ~ E!NullCallee(unit) /\ stage' = "devices"
        /\ \E defaultPlatform \in 0 .. 3 :
             esperanto' \in E!runOnModule(unit, Listed, defaultPlatform)
  /\ UNCHANGED <<unit, tool, countVars, loopVars, startVars>>

PlainSetIniFini(M) ==
  [M EXCEPT
     !.ctors = G!callBeforeMain(@, PlainSetFunctions.Initialize, G!DefaultPriority),
     !.dtors = G!callAfterMain(@, PlainSetFunctions.Finalize, G!DefaultPriority)]

Instrumented(M) ==
  CASE tool = "CAMP"         -> Camp!setIniFini(M)
    [] tool = "CampExectime" -> Exectime!setIniFini(M)
    [] tool = "CtxObjtrace"  -> CtxObj!setIniFini(M)
    [] tool = "ObjTrace"     -> Obj!setIniFini(M)
    [] tool = "Qprofiler"    -> Qpro!setIniFini(M)
    [] tool = "CampPlain"    -> PlainSetIniFini(M)

AddInitAndFini ==
  /\ stage = "link"
  /\ LET M == Instrumented([ctors |-> ctors, dtors |-> dtors])
     IN  ctors' = M.ctors /\ dtors' = M.dtors
  /\ stage' = "run"
  /\ UNCHANGED <<unit, tool, countVars, loopVars, esperanto, ran, phase>>

-----------------------------------------------------------------------------
\* The loader takes any record that nothing still to run has to precede.
Without(list, i) == SubSeq(list, 1, i - 1) \o SubSeq(list, i + 1, Len(list))

RunConstructors ==
  /\ stage = "run" /\ phase = "before"
  /\ \E i \in DOMAIN ctors :
       /\ \A j \in DOMAIN ctors : ctors[i].priority <= ctors[j].priority
       /\ ran' = ran \o ctors[i].calls /\ ctors' = Without(ctors, i)
  /\ UNCHANGED <<unit, tool, stage, countVars, loopVars, esperanto, dtors, phase>>

RunMain ==
  /\ stage = "run" /\ phase = "before" /\ ctors = <<>>
  /\ ran' = Append(ran, "main") /\ phase' = "after"
  /\ UNCHANGED <<unit, tool, stage, countVars, loopVars, esperanto, ctors, dtors>>

RunDestructors ==
  /\ stage = "run" /\ phase = "after"
  /\ \E i \in DOMAIN dtors :
       /\ \A j \in DOMAIN dtors : dtors[i].priority >= dtors[j].priority
       /\ ran' = ran \o dtors[i].calls /\ dtors' = Without(dtors, i)
  /\ UNCHANGED <<unit, tool, stage, countVars, loopVars, esperanto, ctors, phase>>

Next ==
  \/ NameFunction \/ LoadMetadata \/ recordLoopIDforEachLoop \/ FindDependences \/ GiveDevices
  \/ AddInitAndFini \/ RunConstructors \/ RunMain \/ RunDestructors

Spec == Init /\ [][Next]_vars

-----------------------------------------------------------------------------
(***************************************************************************)
(* Numbers of accesses (16 bits, all that CAMP's hooks pass on) never      *)
(* stand for a load and a store, and for two accesses of a kind only in a  *)
(* module with 2^15 of that kind.  Two allocations share the object        *)
(* tracer's <<block, number>> only if the module has 2^16 instructions.    *)
(***************************************************************************)
KindOf(p) == namer[p].type
Of(kind)  == {p \in DOMAIN namer : KindOf(p) = kind}

InstructionIdsUnique ==
  /\ \A p \in Of("load"), q \in Of("store") : N!getInstrId(namer[p]) # N!getInstrId(namer[q])
  /\ \A kind \in {"load", "store"} :
       2 * Cardinality(Of(kind)) <= IdMod =>
         \A p, q \in Of(kind) : N!getInstrId(namer[p]) = N!getInstrId(namer[q]) => p = q
  /\ instructionCount <= IdMod =>
       \A p, q \in Of("other") : N!GET_INSTR_ID(namer[p]) = N!GET_INSTR_ID(namer[q]) => p = q

(***************************************************************************)
(* A loop whose header has a name, in a module with fewer than 2^16        *)
(* contexts, has an id of its own, the one Namer wrote; all the loops      *)
(* without a name share the id 0, under which one of them is found.  The   *)
(* file of the dependence finder lists every loop found under its id that  *)
(* carries a dependence in a register, and of the others only loops with a *)
(* chain of values too long for the search, which may be inductive.        *)
(***************************************************************************)
Recorded == stage \notin {"name", "loops"}
Named(x) == LoopAt(x).header # NoName

LoopsKeepTheirIds ==
  Recorded /\ contextCount < IdMod =>
    \A x \in DOMAIN loopIdOf :
      IF Named(x)
      THEN /\ loopIdOf[x] \in DOMAIN loopTable
           /\ loopTable[loopIdOf[x]].name = LoopAt(x).header
           /\ loopOfCntxID[loopIdOf[x]] = x
      ELSE loopIdOf[x] = 0

DependencesListed ==
  stage \in {"link", "run"} =>
    LET carry  == {id \in DOMAIN loopOfCntxID : R!CarriesDependence(LoopAt(loopOfCntxID[id]))}
        tooBig == {id \in DOMAIN loopOfCntxID : R!TooBig(LoopAt(loopOfCntxID[id]))}
    IN  carry \subseteq nonDOALLable /\ nonDOALLable \subseteq carry \cup tooBig

(***************************************************************************)
(* A call of a method whose class has a name of at most nine characters    *)
(* has the device of the class, if it has one; another user of device      *)
(* functions, calls of methods of classes with longer names included, that *)
(* of the last function it uses, however the walks before came by; any     *)
(* other instruction has one exactly if a chain of uses leads to it from a *)
(* device function, the device of such a function.  A name stands for one  *)
(* device of one platform, of its calls all have the same id, and the ids  *)
(* are 1, 2, ... without a gap.                                            *)
(***************************************************************************)
DeviceFunctions == {k \in DOMAIN Functions : Functions[k].name \in DOMAIN unit.metadata}
DeviceOf(k)     == unit.metadata[Functions[k].name][1]

\* What chains of uses lead to, per device function.
Reached ==
  LET values == E!Values(unit)
      users  == {<<v, E!Users(unit, v)>> : v \in values}
      closed == {S \in SUBSET values : \A e \in users : e[1] \in S => e[2] \subseteq S}
      From(direct) == {v \in values : \A S \in closed : direct \subseteq S => v \in S}
  IN  {<<k, From(E!Users(unit, E!Fn(Functions[k].name)))>> : k \in DeviceFunctions}

UsedBy(p)    == {k \in DeviceFunctions : p \in E!Users(unit, E!Fn(Functions[k].name))}
MethodOf(p)  == LET i == E!Ins(unit, p)
                IN  IF i.op = "call" /\ i.callee \in DOMAIN unit.class
                    THEN unit.class[i.callee] ELSE [name |-> None, length |-> 0]
IsMethodCall(p) == MethodOf(p).length < 10 /\ MethodOf(p).name \in DOMAIN unit.metadata

DevicesOf(p, reached) ==
  CASE IsMethodCall(p) -> {unit.metadata[MethodOf(p).name][1]}
    [] UsedBy(p) # {} /\ ~ IsMethodCall(p) -> {DeviceOf(Max(UsedBy(p)))}
    [] OTHER -> {DeviceOf(e[1]) : e \in {r \in reached : p \in r[2]}}

DevicesFollowUses ==
  stage = "devices" =>
    LET comp    == esperanto.comp
        calls   == DOMAIN esperanto.callMap
        id(p)   == E!getIdCount(esperanto, p)
        reached == Reached
    IN  /\ \A p \in E!Instructions(unit) :
             IF p \in DOMAIN comp THEN comp[p][1] \in DevicesOf(p, reached)
             ELSE DevicesOf(p, reached) = {}
        /\ calls = {p \in DOMAIN comp : E!Ins(unit, p).op = "call"}
        /\ \A p, q \in calls : id(p) = id(q) <=> comp[p][1] = comp[q][1]
        /\ {id(p) : p \in calls} = 1 .. Cardinality({comp[p][1] : p \in calls})

(***************************************************************************)
(* The process calls what it called before, each once, plus Initialize and *)
(* Finalize once: Initialize before main, Finalize after it and before     *)
(* every destructor of lower than the default priority; constructors in an *)
(* order they could come in before; and in the end it has called them all. *)
(* (Destructors need not keep their order: those that move into the driver *)
(* may come before others of the default priority.)                        *)
(***************************************************************************)
Initialize == SetFunctions[tool].Initialize
Finalize   == SetFunctions[tool].Finalize
ToCall     == {Initialize, "main", Finalize} \cup FunctionsOf(unit.ctors) \cup FunctionsOf(unit.dtors)

Precedes(f, g) == \A j \in DOMAIN ran : ran[j] = g => \E i \in 1 .. j - 1 : ran[i] = f

StartAndEndKept ==
  stage = "run" =>
    /\ \A i, j \in DOMAIN ran : ran[i] = ran[j] => i = j
    /\ ToSet(ran) \subseteq ToCall
    /\ Precedes(Initialize, "main") /\ Precedes("main", Finalize)
    /\ \A i \in DOMAIN unit.dtors : unit.dtors[i].priority < G!DefaultPriority =>
         \A f \in ToSet(unit.dtors[i].calls) : Precedes(Finalize, f)
    /\ \A i, j \in DOMAIN ran : i < j => ~ G!RunsBefore(unit.ctors, TRUE, ran[j], ran[i])
    /\ phase = "after" /\ dtors = <<>> => ToCall \subseteq ToSet(ran)
=============================================================================
