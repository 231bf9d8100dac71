---------------------------- MODULE ContextSpec ----------------------------
(***************************************************************************)
(* What the context part of a profiler promises, without arithmetic: while *)
(* the program runs, the reported context walks along the edges of the     *)
(* context tree, one level at a time, and stays put below a recursive call *)
(* site until that very call returns.                                      *)
(***************************************************************************)
EXTENDS Naturals

VARIABLES
  tree,      \* the context tree: ucID -> [parent, recursive, ...]
  running,   \* the instrumented program runs
  here,      \* the context reported
  beneath    \* calls of recursive functions active

specVars == <<tree, running, here, beneath>>

AtRoot == here = 0 /\ beneath = 0

SpecInit == ~ running /\ AtRoot

\* The compiler makes the tree; the program starts, and ends.
Compile == ~ running /\ AtRoot /\ ~ running' /\ UNCHANGED <<here, beneath>>
Start   == ~ running /\ AtRoot /\ running' /\ UNCHANGED <<tree, here, beneath>>
Stop    == running /\ AtRoot /\ ~ running' /\ UNCHANGED <<tree, here, beneath>>

Enter ==
  /\ running /\ beneath = 0
  /\ \E c \in DOMAIN tree \ {0} :
       /\ tree[c].parent = here
       /\ here' = c
       /\ beneath' = IF tree[c].recursive THEN 1 ELSE 0
  /\ UNCHANGED <<tree, running>>

Leave ==
  /\ running /\ here # 0
  /\ beneath = IF tree[here].recursive THEN 1 ELSE 0
  /\ here' = tree[here].parent
  /\ beneath' = 0
  /\ UNCHANGED <<tree, running>>

GoDeeper  == running /\ beneath > 0 /\ beneath' = beneath + 1 /\ UNCHANGED <<tree, running, here>>
ComeBack  == running /\ beneath > 1 /\ beneath' = beneath - 1 /\ UNCHANGED <<tree, running, here>>

SpecNext == Compile \/ Start \/ Stop \/ Enter \/ Leave \/ GoDeeper \/ ComeBack

ContextSpec == SpecInit /\ [][SpecNext]_specVars
=============================================================================
