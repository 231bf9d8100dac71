------------------------------- MODULE Namer -------------------------------
(***************************************************************************)
(* lib/Metadata/Namer.cpp: every instruction gets an id in its metadata,   *)
(* made of its function, its basic block, a number and its kind; loops and *)
(* direct calls of defined functions get context ids; the tables are       *)
(* written to metadata.profile.  The counters have 16 bits and count       *)
(* through the whole module.                                               *)
(*                                                                         *)
(* A function here is [name, blocks, loops]: its blocks are sequences of   *)
(* [op, callee], its loops come in the order of runOnLoop, an outer loop   *)
(* before the loops in it, with the name of the header.  (Tables nobody    *)
(* reads, of contexts and of the blocks of accesses, are left out.)        *)
(***************************************************************************)
EXTENDS Naturals, Sequences, FiniteSets, SequencesExt, FiniteSetsExt

CONSTANTS
  IdMod,                 \* 2^16
  NoName                 \* of a loop's header without one

VARIABLES
  functionTable,         \* id -> name
  loopTable,             \* context id -> [name, functionId]
  contextCount, basicBlockCount, instructionCount, loadCount, storeCount,
  namer                  \* instruction <<function, block, index>> -> metadata

initialize ==
  /\ contextCount = 0 /\ basicBlockCount = 0 /\ instructionCount = 0
  /\ loadCount = 0 /\ storeCount = 0
  /\ loopTable = <<>> /\ namer = <<>>

makeFunctionTable(functions) ==
  functionTable = [i \in DOMAIN functions |-> functions[i].name]

IdsOf(name) == {i \in DOMAIN functionTable : functionTable[i] = name}
IdNamed(name) == CHOOSE i \in IdsOf(name) : TRUE

mergeID(funcId, bbId, instrId, instrType) ==
  [func |-> funcId, block |-> bbId % IdMod, instr |-> instrId % IdMod, type |-> instrType]

\* The instructions of a function in order.
Places(f) == FlattenSeq([b \in DOMAIN f.blocks |->
                           [i \in DOMAIN f.blocks[b] |-> <<b, i>>]])
At(f, p)  == f.blocks[p[1]][p[2]]

IsListedCall(ins) == ins.op = "call" /\ IdsOf(ins.callee) # {}

\* Instructions of a kind among the first n; calls are those listed.
Upto(f, n, op) ==
  Cardinality({j \in 1 .. n : LET ins == At(f, Places(f)[j])
                              IN  ins.op = op /\ (op = "call" => IsListedCall(ins))})
All(f) == Len(Places(f))

\* Faulty: loads and stores are both numbered evenly.
IdOfEven(f, funcId, n) ==
  LET ins       == At(f, Places(f)[n])
      block     == basicBlockCount + Places(f)[n][1]
  IN  CASE ins.op = "load"  ->
             mergeID(funcId, block, 2 * (loadCount + Upto(f, n, "load")), "load")
        [] ins.op = "store" ->
             mergeID(funcId, block, 2 * (storeCount + Upto(f, n, "store")), "store")
        [] OTHER -> mergeID(funcId, block, instructionCount + n, "other")

\* The metadata of the n-th instruction of f.
IdOf(f, funcId, n) ==
  LET ins       == At(f, Places(f)[n])
      block     == basicBlockCount + Places(f)[n][1]
  IN  CASE ins.op = "load"  ->
             mergeID(funcId, block, 2 * (loadCount + Upto(f, n, "load")), "load")
        [] ins.op = "store" ->
             mergeID(funcId, block, 2 * (storeCount + Upto(f, n, "store")) + 1, "store")
        [] IsListedCall(ins) ->
             mergeID(funcId, block, contextCount + Upto(f, n, "call"), "call")
        [] OTHER -> mergeID(funcId, block, instructionCount + n, "other")

\* The loops get the context ids after those of the function's calls.
LoopEntries(f, funcId) ==
  LET first == contextCount + Upto(f, All(f), "call")
      LoopsWith(c) == {l \in DOMAIN f.loops : (first + l) % IdMod = c}
      ids == {(first + l) % IdMod : l \in DOMAIN f.loops}
  IN  [c \in ids \cup DOMAIN loopTable |->
         IF c \in ids
         THEN [name |-> f.loops[Max(LoopsWith(c))].header, functionId |-> funcId]
         ELSE loopTable[c]]

runOnFunction(k, f) ==
  LET funcId   == IdNamed(f.name)
      Place(n) == <<k, Places(f)[n][1], Places(f)[n][2]>>
      here     == {Place(n) : n \in DOMAIN Places(f)}
  IN  /\ namer' = [p \in here \cup DOMAIN namer |->
                     IF p \in here
                     THEN IdOf(f, funcId, CHOOSE n \in DOMAIN Places(f) : Place(n) = p)
                     ELSE namer[p]]
      /\ loopTable' = LoopEntries(f, funcId)
      /\ contextCount' = contextCount + Upto(f, All(f), "call") + Len(f.loops)
      /\ basicBlockCount' = basicBlockCount + Len(f.blocks)
      /\ instructionCount' = instructionCount + All(f)
      /\ loadCount' = loadCount + Upto(f, All(f), "load")
      /\ storeCount' = storeCount + Upto(f, All(f), "store")
      /\ UNCHANGED functionTable

\* What the passes use of the metadata: CAMP identifies an access by the
\* number, the object tracer an allocation by the number and the block.
getInstrId(id)   == id.instr
GET_INSTR_ID(id) == <<id.block, id.instr>>

-----------------------------------------------------------------------------
(***************************************************************************)
(* lib/Metadata/LoadNamer.cpp: the tables of metadata.profile read back    *)
(* with sscanf.  A name is a word: of a loop whose header has no name the  *)
(* word "in" is read instead, and the numbers behind it are not.  0 is the *)
(* id of what is not found.                                                *)
(***************************************************************************)
Smallest(S) == CHOOSE x \in S : \A y \in S : x <= y
FirstOr0(S) == IF S = {} THEN 0 ELSE Smallest(S)

\* Faulty: the function of a loop is not read.
ScannedNameOnly(entry) ==
  [name |-> IF entry.name = NoName THEN "in" ELSE entry.name, functionId |-> 0]

Scanned(entry) ==
  IF entry.name = NoName THEN [name |-> "in", functionId |-> 0] ELSE entry

loadMetadata(file) ==
  [functionTable |-> file.functionTable,
   loopTable     |-> [c \in DOMAIN file.loopTable |-> Scanned(file.loopTable[c])]]

getFunctionId(meta, name) ==
  FirstOr0({i \in DOMAIN meta.functionTable : meta.functionTable[i] = name})

getLoopContextId(meta, header, functionId) ==
  FirstOr0({c \in DOMAIN meta.loopTable :
              meta.loopTable[c] = [name |-> header, functionId |-> functionId]})
=============================================================================
