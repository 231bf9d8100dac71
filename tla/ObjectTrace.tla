---------------------------- MODULE ObjectTrace ----------------------------
(***************************************************************************)
(* tools/objtrace/ctxObjtraceRuntime.cpp: how often each context accesses  *)
(* each object.  An object is the context and the instruction that         *)
(* allocated it; the id is kept as a tag in the shadow of every word.      *)
(* free() has no hook: a tag stays until the next hooked allocation.       *)
(* (ctxAllocIdMap is only written and left out.)                           *)
(***************************************************************************)
EXTENDS Integers, IterStack

CONSTANTS
  Words,       \* memory, 0 .. n: a hook's address loses its offset in the word
  WordSize,    \* 8 bytes
  CtxMod       \* 2^32

VARIABLES
  currentCtx, disableCxtChange,
  tag,         \* shadow of a word: NoTag or <<context, instruction>>
  COCMap       \* <<context, tag>> -> accesses; a missing entry is left out

ctxVars == <<currentCtx, disableCxtChange>>
objVars == <<tag, COCMap>>

NoTag == <<>>
getFullId(instrID) == <<currentCtx, instrID>>

Initialize == tag = [w \in Words |-> NoTag] /\ COCMap = <<>>

\* Faulty: only the words the object fills are tagged.
TaggedWhole(addr, size) == addr .. addr + (size \div WordSize) - 1

Tagged(addr, size) == addr .. addr + ((size - 1) \div WordSize)

ShadowMemorySetting(addr, size, fullId) ==
  tag' = [w \in Words |-> IF w \in Tagged(addr, size) THEN fullId ELSE tag[w]]

\* Malloc, Calloc and Realloc, the allocation itself having returned addr.
Allocated(addr, size, instrId) ==
  /\ ShadowMemorySetting(addr, size, getFullId(instrId))
  /\ UNCHANGED <<ctxVars, COCMap, iterVars>>

\* LoadInstr and StoreInstr.
Access(w) ==
  LET key == <<currentCtx, tag[w]>>
  IN  /\ COCMap' = IF tag[w] = NoTag THEN COCMap
                   ELSE [k \in DOMAIN COCMap \cup {key} |->
                           (IF k \in DOMAIN COCMap THEN COCMap[k] ELSE 0)
                           + (IF k = key THEN 1 ELSE 0)]
      /\ UNCHANGED <<ctxVars, tag, iterVars>>

Move(cntxID) ==
  /\ currentCtx' = IF disableCxtChange = 0 THEN (currentCtx + cntxID) % CtxMod ELSE currentCtx
  /\ UNCHANGED <<disableCxtChange, objVars>>

LoopBegin(cntxID) ==
  Move(cntxID) /\ IF disableCxtChange # 0 THEN UNCHANGED iterVars ELSE Push

LoopNext ==
  /\ IF disableCxtChange # 0 THEN UNCHANGED iterVars ELSE Count
  /\ UNCHANGED <<ctxVars, objVars>>

LoopEnd(cntxID) ==
  Move(- cntxID) /\ IF disableCxtChange # 0 THEN UNCHANGED iterVars ELSE Pop

CallSiteBegin(cntxID) == Move(cntxID) /\ UNCHANGED iterVars
CallSiteEnd(cntxID)   == Move(- cntxID) /\ UNCHANGED iterVars
=============================================================================
