------------------------- MODULE RecursiveFuncAnal -------------------------
(***************************************************************************)
(* lib/AliasAnalysis/RecursiveFuncAnal.cpp: which functions are recursive. *)
(* The pass walks the call graph depth first from every function of the    *)
(* module and marks what it finds on the call history when a call leads    *)
(* back into it.  The C++ recursion is unrolled: callHistory holds, with   *)
(* each function, the call being examined.                                 *)
(***************************************************************************)
EXTENDS Naturals, Sequences

CONSTANTS
  Functions,      \* functions with a body
  CallGraphs      \* the call graphs considered

(***************************************************************************)
(* A call graph: the functions in module order, and for each the callees   *)
(* of its calls in instruction order (every candidate of an indirect call  *)
(* in turn; declarations are skipped by the code and left out).            *)
(***************************************************************************)
CallGraph == [order : Seq(Functions), calls : [Functions -> Seq(Functions)]]

ASSUME CallGraphsAssumption ==
  /\ CallGraphs \subseteq CallGraph
  /\ \A g \in CallGraphs : \A f \in Functions :
       \E i \in DOMAIN g.order : g.order[i] = f

VARIABLES
  graph,          \* the module (never changes)
  roots,          \* functions findAllRecursiveFunction has started from
  callHistory,    \* sequence of [func, next]
  recFuncList, nonRecFuncList,
  recursiveCalls  \* the calls <<function, index>> that closed a cycle

analVars == <<graph, roots, callHistory, recFuncList, nonRecFuncList, recursiveCalls>>

AnalInit ==
  /\ graph \in CallGraphs
  /\ roots = 0
  /\ callHistory = <<>>
  /\ recFuncList = {} /\ nonRecFuncList = {} /\ recursiveCalls = {}

Active   == callHistory # <<>>
TopFrame == callHistory[Len(callHistory)]
Examined == TopFrame.next <= Len(graph.calls[TopFrame.func])
Callee   == graph.calls[TopFrame.func][TopFrame.next]
Known    == recFuncList \cup nonRecFuncList

NextCall(history) ==
  IF history = <<>> THEN history
  ELSE [history EXCEPT ![Len(history)].next = @ + 1]

InHistory(f) == \E i \in DOMAIN callHistory : callHistory[i].func = f

StartFrom ==
  /\ ~ Active /\ roots < Len(graph.order)
  /\ roots' = roots + 1
  /\ callHistory' = <<[func |-> graph.order[roots + 1], next |-> 1]>>
  /\ UNCHANGED <<graph, recFuncList, nonRecFuncList, recursiveCalls>>

\* Faulty: the same call is examined again and again.
SkipKnownForEver ==
  /\ Active /\ Examined /\ Callee \in Known
  /\ UNCHANGED analVars

\* Nothing to do for a callee that is in one of the lists.
SkipKnown ==
  /\ Active /\ Examined /\ Callee \in Known
  /\ callHistory' = NextCall(callHistory)
  /\ UNCHANGED <<graph, roots, recFuncList, nonRecFuncList, recursiveCalls>>

\* Faulty: the callee itself not marked; all of the history marked.
MarkBehindCallee ==
  /\ Active /\ Examined /\ Callee \notin Known /\ InHistory(Callee)
  /\ recFuncList' = recFuncList \cup
       {callHistory[j].func : j \in {j \in DOMAIN callHistory :
          \E i \in 1 .. j - 1 : callHistory[i].func = Callee}}
  /\ callHistory' = NextCall(callHistory)
  /\ UNCHANGED <<graph, roots, nonRecFuncList, recursiveCalls>>
MarkHistory ==
  /\ Active /\ Examined /\ Callee \notin Known /\ InHistory(Callee)
  /\ recFuncList' = recFuncList \cup {callHistory[j].func : j \in DOMAIN callHistory}
  /\ callHistory' = NextCall(callHistory)
  /\ UNCHANGED <<graph, roots, nonRecFuncList, recursiveCalls>>

\* checkCallHistoryAndMark finds the callee: all from there on are recursive.
MarkCycle ==
  /\ Active /\ Examined /\ Callee \notin Known /\ InHistory(Callee)
  /\ recFuncList' = recFuncList \cup
       {callHistory[j].func : j \in {j \in DOMAIN callHistory :
          \E i \in 1 .. j : callHistory[i].func = Callee}}
  /\ recursiveCalls' = recursiveCalls \cup {<<TopFrame.func, TopFrame.next>>}
  /\ callHistory' = NextCall(callHistory)
  /\ UNCHANGED <<graph, roots, nonRecFuncList>>

Descend ==
  /\ Active /\ Examined /\ Callee \notin Known /\ ~ InHistory(Callee)
  /\ callHistory' = Append(callHistory, [func |-> Callee, next |-> 1])
  /\ UNCHANGED <<graph, roots, recFuncList, nonRecFuncList, recursiveCalls>>

\* Faulty: a function found recursive is listed as not recursive too.
FinishFunctionAlways ==
  /\ Active /\ ~ Examined
  /\ nonRecFuncList' = nonRecFuncList \cup {TopFrame.func}
  /\ callHistory' = NextCall(SubSeq(callHistory, 1, Len(callHistory) - 1))
  /\ UNCHANGED <<graph, roots, recFuncList, recursiveCalls>>

FinishFunction ==
  /\ Active /\ ~ Examined
  /\ nonRecFuncList' = IF TopFrame.func \in recFuncList THEN nonRecFuncList
                       ELSE nonRecFuncList \cup {TopFrame.func}
  /\ callHistory' = NextCall(SubSeq(callHistory, 1, Len(callHistory) - 1))
  /\ UNCHANGED <<graph, roots, recFuncList, recursiveCalls>>

AnalNext == StartFrom \/ SkipKnown \/ MarkCycle \/ Descend \/ FinishFunction

AnalSpec == AnalInit /\ [][AnalNext]_analVars /\ WF_analVars(AnalNext)

Finished == ~ Active /\ roots = Len(graph.order)

-----------------------------------------------------------------------------
(***************************************************************************)
(* Properties.                                                             *)
(***************************************************************************)
\* The types of the pass's members.
AnalTypeOK ==
  /\ graph \in CallGraph
  /\ roots \in 0 .. Len(graph.order)
  /\ callHistory \in Seq([func : Functions, next : Nat \ {0}])
  /\ recFuncList \in SUBSET Functions
  /\ nonRecFuncList \in SUBSET Functions
  /\ recursiveCalls \in SUBSET (Functions \X Nat)

Callees(f) == {graph.calls[f][i] : i \in DOMAIN graph.calls[f]}

\* Every function of C calls some function of C: a cycle inside C, if C is finite.
ClosedUnderSomeCall(C) == \A f \in C : Callees(f) \cap C # {}

(***************************************************************************)
(* At no time do the functions listed as not recursive contain a cycle of  *)
(* calls; when the pass ends, no cycle avoids recFuncList.  So the context *)
(* tree, which stops at the functions of recFuncList, is finite.           *)
(***************************************************************************)
NonRecursiveAcyclic ==
  \A C \in SUBSET nonRecFuncList : C # {} => ~ ClosedUnderSomeCall(C)

EveryCycleCut ==
  Finished => \A C \in SUBSET (Functions \ recFuncList) :
                C # {} => ~ ClosedUnderSomeCall(C)

\* Functions that every callee-closed set around the callees of f contains.
ReachedFrom(f) ==
  {h \in Functions : \A C \in SUBSET Functions :
     (Callees(f) \subseteq C /\ \A q \in C : Callees(q) \subseteq C) => h \in C}

(***************************************************************************)
(* The pass never calls a function recursive that cannot reach itself:     *)
(* marking cuts the tree below the function's call sites.                  *)
(***************************************************************************)
OnlyRecursiveMarked == \A f \in recFuncList : f \in ReachedFrom(f)

(***************************************************************************)
(* traverseAndMarkRecCalls is never entered with a function that is on the *)
(* call history (its first assertion), and no function is in both lists.   *)
(***************************************************************************)
HistoryWithoutRepetition ==
  /\ \A i, j \in DOMAIN callHistory :
       callHistory[i].func = callHistory[j].func => i = j
  /\ recFuncList \cap nonRecFuncList = {}

\* The pass ends.
AnalysisEnds == <>Finished
=============================================================================
