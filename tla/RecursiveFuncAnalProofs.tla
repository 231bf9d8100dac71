---------------------- MODULE RecursiveFuncAnalProofs ----------------------
(***************************************************************************)
(* For every call graph: what RecursiveFuncAnal marks cuts every cycle of  *)
(* calls, and it marks only functions on a cycle.  For every module: the   *)
(* calls IndirectCallAnal finds include those the program can make, so     *)
(* their cycles are cut too.                                               *)
(***************************************************************************)
EXTENDS IndirectCallAnal, SequenceTheorems, WellFoundedInduction, TLAPS

Frames == [func : Functions, next : Nat \ {0}]

(***************************************************************************)
(* The strengthening.  The callees a function has dealt with are in a      *)
(* list, so a function enters nonRecFuncList after all its callees; each   *)
(* function of the history is the callee the one below is examining.       *)
(***************************************************************************)
CalleesKnown ==
  /\ \A f \in nonRecFuncList : Callees(f) \subseteq Known
  /\ \A i \in DOMAIN callHistory :
       \A k \in DOMAIN graph.calls[callHistory[i].func] :
         k < callHistory[i].next => graph.calls[callHistory[i].func][k] \in Known

HistoryIsCallChain ==
  \A i \in DOMAIN callHistory : i < Len(callHistory) =>
    /\ callHistory[i].next \in DOMAIN graph.calls[callHistory[i].func]
    /\ graph.calls[callHistory[i].func][callHistory[i].next] = callHistory[i + 1].func

\* Only the function the walk started from may have been listed before.
HistoryNotListed ==
  Len(callHistory) > 1 => \A i \in DOMAIN callHistory :
                            callHistory[i].func \notin nonRecFuncList

HistoryReaches ==
  \A i, j \in DOMAIN callHistory :
    i < j => callHistory[j].func \in ReachedFrom(callHistory[i].func)

StartedKnown ==
  \A i \in 1 .. roots : \/ graph.order[i] \in Known
                        \/ Active /\ callHistory[1].func = graph.order[i]

AnalInv ==
  /\ AnalTypeOK
  /\ graph \in CallGraphs
  /\ HistoryWithoutRepetition
  /\ CalleesKnown
  /\ HistoryIsCallChain
  /\ HistoryNotListed
  /\ HistoryReaches
  /\ StartedKnown
  /\ NonRecursiveAcyclic
  /\ OnlyRecursiveMarked

-----------------------------------------------------------------------------
(***************************************************************************)
(* The operations on the call history.                                     *)
(***************************************************************************)
LEMMA NextCallFacts ==
  ASSUME NEW h \in Seq(Frames)
  PROVE  /\ NextCall(h) \in Seq(Frames)
         /\ Len(NextCall(h)) = Len(h)
         /\ \A i \in 1 .. Len(h) :
              /\ NextCall(h)[i].func = h[i].func
              /\ NextCall(h)[i].next = IF i = Len(h) THEN h[i].next + 1 ELSE h[i].next
<1>1. CASE h = <<>>
  BY <1>1 DEF NextCall
<1>2. CASE h # <<>>
  <2> DEFINE n == Len(h)
             top == [h[n] EXCEPT !.next = @ + 1]
  <2>1. n \in 1 .. n /\ h[n] \in Frames
    BY <1>2
  <2>2. top \in Frames /\ top.func = h[n].func /\ top.next = h[n].next + 1
    BY <2>1 DEF Frames
  <2>3. NextCall(h) = [h EXCEPT ![n] = top]
    BY <1>2 DEF NextCall
  <2>4. NextCall(h) \in Seq(Frames) /\ Len(NextCall(h)) = n
    BY <2>1, <2>2, <2>3, ExceptSeq
  <2>5. ASSUME NEW i \in 1 .. n
        PROVE  NextCall(h)[i] = IF i = n THEN top ELSE h[i]
    BY <2>1, <2>2, <2>3, ExceptSeq
  <2> QED
    BY <2>2, <2>4, <2>5
<1> QED
  BY <1>1, <1>2

LEMMA PopFacts ==
  ASSUME NEW h \in Seq(Frames), h # <<>>
  PROVE  /\ NextCall(SubSeq(h, 1, Len(h) - 1)) \in Seq(Frames)
         /\ Len(NextCall(SubSeq(h, 1, Len(h) - 1))) = Len(h) - 1
         /\ \A i \in 1 .. Len(h) - 1 :
              /\ NextCall(SubSeq(h, 1, Len(h) - 1))[i].func = h[i].func
              /\ NextCall(SubSeq(h, 1, Len(h) - 1))[i].next =
                   IF i = Len(h) - 1 THEN h[i].next + 1 ELSE h[i].next
<1>1. Len(h) \in Nat \ {0} /\ \A i \in 1 .. Len(h) - 1 : h[i] \in Frames
  BY EmptySeq, ElementOfSeq
<1> DEFINE m == Len(h) - 1
           s == SubSeq(h, 1, m)
<1>2. m \in Int /\ m \in Nat /\ 1 \in Int
  BY <1>1
<1>3. /\ s \in Seq(Frames) /\ Len(s) = (IF 1 <= m THEN m - 1 + 1 ELSE 0)
      /\ \A i \in 1 .. m - 1 + 1 : s[i] = h[1 + i - 1]
  <2> HIDE DEF m
  <2> QED
    BY <1>1, <1>2, SubSeqProperties DEF m
<1>4. /\ s \in Seq(Frames) /\ Len(s) = m
      /\ \A i \in 1 .. m : s[i] = h[i]
  <2> HIDE DEF m, s
  <2> QED
    BY <1>2, <1>3
<1>5. /\ NextCall(s) \in Seq(Frames)
      /\ Len(NextCall(s)) = m
      /\ \A i \in 1 .. m :
           /\ NextCall(s)[i].func = h[i].func
           /\ NextCall(s)[i].next = IF i = m THEN h[i].next + 1 ELSE h[i].next
  <2> HIDE DEF m, s
  <2> QED
    BY <1>4, NextCallFacts
<1> QED
  BY <1>5

(***************************************************************************)
(* What an active walk looks like: its history has a last entry, and the   *)
(* callee being examined is a function.                                    *)
(***************************************************************************)
LEMMA ActiveFacts ==
  ASSUME AnalTypeOK, Active
  PROVE  /\ callHistory \in Seq(Frames)
         /\ Len(callHistory) \in Nat \ {0}
         /\ DOMAIN callHistory = 1 .. Len(callHistory)
         /\ Len(callHistory) \in DOMAIN callHistory
         /\ \A i \in DOMAIN callHistory : callHistory[i] \in Frames
         /\ TopFrame.func \in Functions /\ TopFrame.next \in Nat \ {0}
         /\ \A f \in Functions : /\ graph.calls[f] \in Seq(Functions)
                                 /\ DOMAIN graph.calls[f] = 1 .. Len(graph.calls[f])
                                 /\ Callees(f) \subseteq Functions
         /\ Examined => /\ TopFrame.next \in DOMAIN graph.calls[TopFrame.func]
                        /\ Callee \in Functions
                        /\ Callee \in Callees(TopFrame.func)
<1>1. /\ callHistory \in Seq(Frames) /\ Len(callHistory) \in Nat \ {0}
      /\ DOMAIN callHistory = 1 .. Len(callHistory)
  BY EmptySeq, LenProperties DEF AnalTypeOK, Active, Frames
<1>2. \A i \in DOMAIN callHistory : callHistory[i] \in Frames
  BY <1>1, ElementOfSeq
<1>3. TopFrame.func \in Functions /\ TopFrame.next \in Nat \ {0}
  BY <1>1, <1>2 DEF TopFrame, Frames
<1>4. ASSUME NEW f \in Functions
      PROVE  /\ graph.calls[f] \in Seq(Functions)
             /\ DOMAIN graph.calls[f] = 1 .. Len(graph.calls[f])
             /\ Callees(f) \subseteq Functions
  <2>1. graph.calls[f] \in Seq(Functions)
    BY DEF AnalTypeOK, CallGraph
  <2> QED
    BY <2>1, LenProperties, ElementOfSeq DEF Callees
<1>5. Examined => TopFrame.next \in DOMAIN graph.calls[TopFrame.func]
  <2>1. Len(graph.calls[TopFrame.func]) \in Nat
    BY <1>3, <1>4, LenProperties
  <2> QED
    BY <2>1, <1>3, <1>4 DEF Examined
<1>6. Examined => Callee \in Callees(TopFrame.func)
  BY <1>5 DEF Callee, Callees
<1> QED
  BY <1>1, <1>2, <1>3, <1>4, <1>5, <1>6

-----------------------------------------------------------------------------
(***************************************************************************)
(* Each action keeps the invariant.                                        *)
(***************************************************************************)
LEMMA ReachTransitive ==
  ASSUME NEW f \in Functions, NEW g \in ReachedFrom(f), NEW h,
         h \in ReachedFrom(g) \/ h \in Callees(g) \cap Functions
  PROVE  h \in ReachedFrom(f)
BY DEF ReachedFrom

LEMMA SameGraph ==
  ASSUME UNCHANGED graph
  PROVE  \A f : Callees(f)' = Callees(f) /\ ReachedFrom(f)' = ReachedFrom(f)
<1>1. \A f : Callees(f)' = Callees(f)
  BY DEF Callees
<1>2. \A f : ReachedFrom(f)' = ReachedFrom(f)
  BY <1>1, Zenon DEF ReachedFrom
<1> QED
  BY <1>1, <1>2

LEMMA StartKeeps == AnalInv /\ StartFrom => AnalInv'
<1> SUFFICES ASSUME AnalInv, StartFrom PROVE AnalInv'
  OBVIOUS
<1> DEFINE fr == [func |-> graph.order[roots + 1], next |-> 1]
<1>1. /\ callHistory = <<>> /\ callHistory' = <<fr>>
      /\ fr.func = graph.order[roots + 1] /\ fr.next = 1
      /\ UNCHANGED <<graph, recFuncList, nonRecFuncList, recursiveCalls>>
      /\ roots' = roots + 1 /\ roots \in Nat /\ roots < Len(graph.order)
  BY DEF StartFrom, Active, AnalInv, AnalTypeOK
<1>2. graph.order \in Seq(Functions) /\ Len(graph.order) \in Nat
  BY DEF AnalInv, AnalTypeOK, CallGraph
<1>3. graph.order[roots + 1] \in Functions
  BY <1>1, <1>2, ElementOfSeq
<1>4. /\ fr \in Frames /\ callHistory' \in Seq(Frames)
      /\ DOMAIN callHistory' = {1} /\ Len(callHistory') = 1
      /\ callHistory'[1].func = graph.order[roots + 1]
      /\ callHistory'[1].next = 1
  BY <1>1, <1>3 DEF Frames
<1>5. AnalTypeOK'
  BY <1>1, <1>2, <1>4 DEF AnalInv, AnalTypeOK, Frames
<1>6. HistoryWithoutRepetition'
  BY <1>1, <1>4 DEF AnalInv, HistoryWithoutRepetition
<1>7. CalleesKnown'
  <2>1. \A f \in nonRecFuncList' : Callees(f)' \subseteq Known'
    BY <1>1 DEF AnalInv, CalleesKnown, Known, Callees
  <2>2. DOMAIN graph.calls[callHistory'[1].func] \subseteq Nat \ {0}
    <3>1. graph.calls[callHistory'[1].func] \in Seq(Functions)
      BY <1>3, <1>4 DEF AnalInv, AnalTypeOK, CallGraph
    <3> QED
      BY <3>1, LenProperties
  <2> QED
    BY <1>1, <1>4, <2>1, <2>2 DEF CalleesKnown
<1>8. HistoryIsCallChain' /\ HistoryNotListed' /\ HistoryReaches'
  BY <1>4 DEF HistoryIsCallChain, HistoryNotListed, HistoryReaches
<1>9. StartedKnown'
  <2>1. \A i \in 1 .. roots : graph.order[i] \in Known
    BY <1>1 DEF AnalInv, StartedKnown, Active
  <2>2. ASSUME NEW i \in 1 .. roots'
        PROVE  graph'.order[i] \in Known' \/ (callHistory' # <<>> /\ callHistory'[1].func = graph'.order[i])
    <3>1. CASE i = roots + 1
      BY <3>1, <1>1, <1>4
    <3>2. CASE i # roots + 1
      BY <3>2, <1>1, <2>1 DEF Known
    <3> QED
      BY <3>1, <3>2
  <2> QED
    BY <2>2 DEF StartedKnown, Active
<1>10. (graph \in CallGraphs)' /\ NonRecursiveAcyclic' /\ OnlyRecursiveMarked'
  BY <1>1, SameGraph
     DEF AnalInv, NonRecursiveAcyclic, OnlyRecursiveMarked, ClosedUnderSomeCall
<1> QED
  BY <1>5, <1>6, <1>7, <1>8, <1>9, <1>10 DEF AnalInv

(***************************************************************************)
(* SkipKnown and MarkCycle advance the last entry, after its callee got    *)
(* into a list.                                                            *)
(***************************************************************************)
LEMMA AdvanceKeeps ==
  ASSUME AnalInv, Active, Examined,
         callHistory' = NextCall(callHistory),
         UNCHANGED <<graph, roots, nonRecFuncList>>,
         recFuncList \subseteq recFuncList', recFuncList' \subseteq Functions,
         Callee \in Known'
  PROVE  /\ callHistory' \in Seq(Frames)
         /\ \A i, j \in DOMAIN callHistory' :
              callHistory'[i].func = callHistory'[j].func => i = j
         /\ CalleesKnown' /\ HistoryIsCallChain' /\ HistoryNotListed'
         /\ HistoryReaches' /\ StartedKnown' /\ NonRecursiveAcyclic'
<1>1. AnalTypeOK
  BY DEF AnalInv
<1>2. /\ callHistory' \in Seq(Frames) /\ Len(callHistory') = Len(callHistory)
      /\ DOMAIN callHistory' = DOMAIN callHistory
      /\ \A i \in DOMAIN callHistory :
           /\ callHistory'[i].func = callHistory[i].func
           /\ callHistory'[i].next = IF i = Len(callHistory) THEN callHistory[i].next + 1
                                                             ELSE callHistory[i].next
  BY <1>1, ActiveFacts, NextCallFacts, LenProperties
<1>3. Known \subseteq Known'
  BY DEF Known
<1>4. \A i, j \in DOMAIN callHistory' :
        callHistory'[i].func = callHistory'[j].func => i = j
  BY <1>2 DEF AnalInv, HistoryWithoutRepetition
<1>5. CalleesKnown'
  <2>1. \A f \in nonRecFuncList' : Callees(f)' \subseteq Known'
    BY <1>3 DEF AnalInv, CalleesKnown, Callees
  <2>2. ASSUME NEW i \in DOMAIN callHistory',
               NEW k \in DOMAIN graph.calls[callHistory'[i].func],
               k < callHistory'[i].next
        PROVE  graph.calls[callHistory'[i].func][k] \in Known'
    <3>1. callHistory[i] \in Frames /\ k \in Nat /\ k \in DOMAIN graph.calls[callHistory[i].func]
      BY <1>1, <1>2, ActiveFacts DEF Frames
    <3>2. CASE k < callHistory[i].next
      BY <1>2, <1>3, <3>1, <3>2 DEF AnalInv, CalleesKnown
    <3>3. CASE ~ (k < callHistory[i].next)
      <4>1. i = Len(callHistory) /\ k = callHistory[i].next
        BY <1>2, <2>2, <3>1, <3>3 DEF Frames
      <4> QED
        BY <4>1, <1>2 DEF Callee, TopFrame
    <3> QED
      BY <3>2, <3>3
  <2> QED
    BY <2>1, <2>2 DEF CalleesKnown
<1>6. HistoryIsCallChain'
  <2> SUFFICES ASSUME NEW i \in DOMAIN callHistory, i < Len(callHistory)
               PROVE  /\ callHistory'[i].next \in DOMAIN graph.calls[callHistory'[i].func]
                      /\ graph.calls[callHistory'[i].func][callHistory'[i].next]
                           = callHistory'[i + 1].func
    BY <1>2 DEF HistoryIsCallChain
  <2>1. i + 1 \in DOMAIN callHistory /\ i # Len(callHistory)
    BY <1>1, ActiveFacts
  <2> QED
    BY <1>2, <2>1 DEF AnalInv, HistoryIsCallChain
<1>7. HistoryNotListed'
  BY <1>2 DEF AnalInv, HistoryNotListed
<1>8. HistoryReaches'
  BY <1>2, SameGraph DEF AnalInv, HistoryReaches
<1>9. StartedKnown'
  <2>1. 1 \in DOMAIN callHistory /\ Active'
    BY <1>1, <1>2, ActiveFacts, EmptySeq DEF Active
  <2> QED
    BY <1>2, <1>3, <2>1 DEF AnalInv, StartedKnown, Active
<1>10. NonRecursiveAcyclic'
  BY SameGraph DEF AnalInv, NonRecursiveAcyclic, ClosedUnderSomeCall
<1> QED
  BY <1>2, <1>4, <1>5, <1>6, <1>7, <1>8, <1>9, <1>10

LEMMA SkipKeeps == AnalInv /\ SkipKnown => AnalInv'
<1> SUFFICES ASSUME AnalInv, SkipKnown PROVE AnalInv'
  OBVIOUS
<1>1. /\ Active /\ Examined /\ callHistory' = NextCall(callHistory)
      /\ UNCHANGED <<graph, roots, recFuncList, nonRecFuncList, recursiveCalls>>
      /\ Callee \in Known' /\ recFuncList \subseteq Functions
  BY DEF SkipKnown, Known, AnalInv, AnalTypeOK
<1>2. /\ callHistory' \in Seq(Frames)
      /\ \A i, j \in DOMAIN callHistory' :
           callHistory'[i].func = callHistory'[j].func => i = j
      /\ CalleesKnown' /\ HistoryIsCallChain' /\ HistoryNotListed'
      /\ HistoryReaches' /\ StartedKnown' /\ NonRecursiveAcyclic'
  BY <1>1, AdvanceKeeps
<1>3. AnalTypeOK' /\ HistoryWithoutRepetition'
  BY <1>1, <1>2 DEF AnalInv, AnalTypeOK, HistoryWithoutRepetition, Frames
<1>4. (graph \in CallGraphs)' /\ OnlyRecursiveMarked'
  BY <1>1, SameGraph DEF AnalInv, OnlyRecursiveMarked
<1> QED
  BY <1>2, <1>3, <1>4 DEF AnalInv

LEMMA MarkKeeps == AnalInv /\ MarkCycle => AnalInv'
<1> SUFFICES ASSUME AnalInv, MarkCycle PROVE AnalInv'
  OBVIOUS
<1> DEFINE Marked == {callHistory[j].func : j \in {j \in DOMAIN callHistory :
                        \E i \in 1 .. j : callHistory[i].func = Callee}}
<1>1. /\ AnalTypeOK /\ Active /\ Examined
      /\ Callee \notin Known /\ InHistory(Callee)
      /\ callHistory' = NextCall(callHistory)
      /\ recFuncList' = recFuncList \cup Marked
      /\ recursiveCalls' = recursiveCalls \cup {<<TopFrame.func, TopFrame.next>>}
      /\ UNCHANGED <<graph, roots, nonRecFuncList>>
  BY DEF MarkCycle, AnalInv
<1>2. \A j \in DOMAIN callHistory : callHistory[j].func \in Functions
  BY <1>1, ActiveFacts DEF Frames
<1>3. recFuncList' \subseteq Functions /\ recFuncList \subseteq recFuncList'
  BY <1>1, <1>2 DEF AnalTypeOK
<1>4. Callee \in Known'
  <2>1. PICK i \in DOMAIN callHistory : callHistory[i].func = Callee
    BY <1>1 DEF InHistory
  <2>2. i \in 1 .. i
    BY <2>1, <1>1, ActiveFacts
  <2> QED
    BY <1>1, <2>1, <2>2 DEF Known
<1>5. /\ callHistory' \in Seq(Frames)
      /\ \A i, j \in DOMAIN callHistory' :
           callHistory'[i].func = callHistory'[j].func => i = j
      /\ CalleesKnown' /\ HistoryIsCallChain' /\ HistoryNotListed'
      /\ HistoryReaches' /\ StartedKnown' /\ NonRecursiveAcyclic'
  BY <1>1, <1>3, <1>4, AdvanceKeeps
<1>6. AnalTypeOK'
  <2>1. TopFrame.func \in Functions /\ TopFrame.next \in Nat
    BY <1>1, ActiveFacts
  <2> QED
    BY <1>1, <1>3, <1>5, <2>1 DEF AnalTypeOK, Frames
<1>7. Marked \cap nonRecFuncList = {}
  <2>1. SUFFICES ASSUME NEW j \in DOMAIN callHistory, NEW i \in 1 .. j,
                        callHistory[i].func = Callee,
                        callHistory[j].func \in nonRecFuncList
                 PROVE  FALSE
    OBVIOUS
  <2>2. Len(callHistory) = 1 /\ j = 1 /\ i = 1
    BY <1>1, <2>1, ActiveFacts DEF AnalInv, HistoryNotListed
  <2> QED
    BY <1>1, <2>1, <2>2 DEF Known
<1>8. HistoryWithoutRepetition'
  BY <1>1, <1>5, <1>7 DEF AnalInv, HistoryWithoutRepetition
<1>9. \A f \in Marked : f \in ReachedFrom(f)
  <2>1. SUFFICES ASSUME NEW j \in DOMAIN callHistory, NEW i \in 1 .. j,
                        callHistory[i].func = Callee
                 PROVE  callHistory[j].func \in ReachedFrom(callHistory[j].func)
    OBVIOUS
  <2> DEFINE n == Len(callHistory)
             f == callHistory[j].func
  <2>2. /\ i \in DOMAIN callHistory /\ n \in DOMAIN callHistory /\ j <= n
        /\ i \in Nat /\ j \in Nat /\ i <= j
        /\ f \in Functions /\ TopFrame.func = callHistory[n].func
        /\ TopFrame.func \in Functions
        /\ Callee \in Callees(TopFrame.func) /\ Callee \in Functions
    BY <1>1, <1>2, <2>1, ActiveFacts DEF TopFrame
  <2>3. Callee \in ReachedFrom(f)
    <3>1. CASE j = n
      BY <2>2, <3>1 DEF ReachedFrom
    <3>2. CASE j # n
      <4>1. TopFrame.func \in ReachedFrom(f)
        BY <2>2, <3>2 DEF AnalInv, HistoryReaches
      <4> QED
        BY <2>2, <4>1, ReachTransitive
    <3> QED
      BY <3>1, <3>2
  <2>4. CASE i = j
    BY <2>1, <2>3, <2>4
  <2>5. CASE i # j
    <3>1. f \in ReachedFrom(Callee)
      BY <2>1, <2>2, <2>5 DEF AnalInv, HistoryReaches
    <3> QED
      BY <2>2, <2>3, <3>1, ReachTransitive
  <2> QED
    BY <2>4, <2>5
<1>10. (graph \in CallGraphs)' /\ OnlyRecursiveMarked'
  BY <1>1, <1>9, SameGraph DEF AnalInv, OnlyRecursiveMarked
<1> QED
  BY <1>5, <1>6, <1>8, <1>10 DEF AnalInv

LEMMA DescendKeeps == AnalInv /\ Descend => AnalInv'
<1> SUFFICES ASSUME AnalInv, Descend PROVE AnalInv'
  OBVIOUS
<1> DEFINE n  == Len(callHistory)
           fr == [func |-> Callee, next |-> 1]
<1>1. /\ AnalTypeOK /\ Active /\ Examined
      /\ Callee \notin Known /\ ~ InHistory(Callee)
      /\ callHistory' = Append(callHistory, fr)
      /\ UNCHANGED <<graph, roots, recFuncList, nonRecFuncList, recursiveCalls>>
  BY DEF Descend, AnalInv
<1>2. /\ fr \in Frames /\ fr.func = Callee /\ fr.next = 1
      /\ Callee \in Functions /\ Callee \in Callees(TopFrame.func)
      /\ n \in Nat \ {0} /\ DOMAIN callHistory = 1 .. n
      /\ TopFrame.func \in Functions
  BY <1>1, ActiveFacts DEF Frames
<1>3. /\ callHistory' \in Seq(Frames) /\ Len(callHistory') = n + 1
      /\ DOMAIN callHistory' = 1 .. n + 1
      /\ \A i \in 1 .. n : callHistory'[i] = callHistory[i]
      /\ callHistory'[n + 1] = fr
  BY <1>1, <1>2, ActiveFacts, AppendProperties, LenProperties
<1>4. AnalTypeOK'
  BY <1>1, <1>3 DEF AnalTypeOK, Frames
<1>5. HistoryWithoutRepetition'
  BY <1>1, <1>2, <1>3 DEF AnalInv, HistoryWithoutRepetition, InHistory
<1>6. CalleesKnown'
  <2>1. \A k \in DOMAIN graph.calls[Callee] : k \in Nat \ {0}
    BY <1>1, <1>2, ActiveFacts
  <2> QED
    BY <1>1, <1>2, <1>3, <2>1, SameGraph DEF AnalInv, CalleesKnown, Known
<1>7. HistoryIsCallChain'
  <2>1. /\ callHistory[n].next \in DOMAIN graph.calls[callHistory[n].func]
        /\ graph.calls[callHistory[n].func][callHistory[n].next] = Callee
    BY <1>1, ActiveFacts DEF TopFrame, Callee
  <2> QED
    BY <1>1, <1>2, <1>3, <2>1 DEF AnalInv, HistoryIsCallChain
<1>8. HistoryNotListed'
  <2>1. TopFrame.func \notin nonRecFuncList
    BY <1>1, <1>2 DEF AnalInv, CalleesKnown
  <2>2. \A i \in 1 .. n : callHistory[i].func \notin nonRecFuncList
    BY <1>2, <2>1 DEF AnalInv, HistoryNotListed, TopFrame
  <2> QED
    BY <1>1, <1>2, <1>3, <2>2 DEF HistoryNotListed, Known
<1>9. HistoryReaches'
  <2>1. ASSUME NEW i \in 1 .. n
        PROVE  Callee \in ReachedFrom(callHistory[i].func)
    <3>1. CASE i = n
      BY <1>2, <3>1 DEF ReachedFrom, TopFrame
    <3>2. CASE i # n
      <4>1. TopFrame.func \in ReachedFrom(callHistory[i].func)
        <5>1. i < n /\ i \in DOMAIN callHistory /\ n \in DOMAIN callHistory
          <6>1. n \in Nat \ {0} /\ DOMAIN callHistory = 1 .. n
            BY <1>2
          <6> HIDE DEF n
          <6> QED
            BY <6>1, <3>2
        <5> QED
          BY <5>1 DEF AnalInv, HistoryReaches, TopFrame
      <4>2. callHistory[i].func \in Functions
        BY <1>1, <1>2, <2>1, ActiveFacts DEF Frames
      <4> QED
        BY <1>2, <4>1, <4>2, ReachTransitive
    <3> QED
      BY <3>1, <3>2
  <2> QED
    BY <1>1, <1>2, <1>3, <2>1, SameGraph DEF AnalInv, HistoryReaches
<1>10. StartedKnown'
  BY <1>1, <1>2, <1>3, EmptySeq DEF AnalInv, StartedKnown, Active, Known
<1>11. (graph \in CallGraphs)' /\ NonRecursiveAcyclic' /\ OnlyRecursiveMarked'
  BY <1>1, SameGraph
     DEF AnalInv, NonRecursiveAcyclic, OnlyRecursiveMarked, ClosedUnderSomeCall
<1> QED
  BY <1>4, <1>5, <1>6, <1>7, <1>8, <1>9, <1>10, <1>11 DEF AnalInv

LEMMA FinishKeeps == AnalInv /\ FinishFunction => AnalInv'
<1> SUFFICES ASSUME AnalInv, FinishFunction PROVE AnalInv'
  OBVIOUS
<1> DEFINE n == Len(callHistory)
           f == TopFrame.func
<1>1. /\ AnalTypeOK /\ Active /\ ~ Examined
      /\ nonRecFuncList' = IF f \in recFuncList THEN nonRecFuncList
                                                ELSE nonRecFuncList \cup {f}
      /\ callHistory' = NextCall(SubSeq(callHistory, 1, n - 1))
      /\ UNCHANGED <<graph, roots, recFuncList, recursiveCalls>>
  BY DEF FinishFunction, AnalInv
<1>2. /\ n \in Nat \ {0} /\ DOMAIN callHistory = 1 .. n /\ n \in 1 .. n
      /\ f \in Functions /\ f = callHistory[n].func
  BY <1>1, ActiveFacts DEF TopFrame
<1>3. /\ callHistory' \in Seq(Frames) /\ Len(callHistory') = n - 1
      /\ DOMAIN callHistory' = 1 .. n - 1
      /\ \A i \in 1 .. n - 1 :
           /\ callHistory'[i].func = callHistory[i].func
           /\ callHistory'[i].next = IF i = n - 1 THEN callHistory[i].next + 1
                                                  ELSE callHistory[i].next
  <2>1. callHistory \in Seq(Frames) /\ callHistory # <<>>
    BY <1>1, ActiveFacts DEF Active
  <2> QED
    BY <1>1, <2>1, PopFacts, LenProperties
<1>3a. \A i \in 1 .. n - 1 : i \in DOMAIN callHistory
  <2>1. n \in Nat \ {0} /\ DOMAIN callHistory = 1 .. n
    BY <1>2
  <2> HIDE DEF n
  <2> QED
    BY <2>1
<1>4. f \in Known' /\ Known \subseteq Known'
  BY <1>1 DEF Known
<1>5. Callees(f) \subseteq Known
  <2>1. ASSUME NEW k \in DOMAIN graph.calls[f]
        PROVE  graph.calls[f][k] \in Known
    <3>1. /\ k \in 1 .. Len(graph.calls[f]) /\ Len(graph.calls[f]) \in Nat
          /\ TopFrame.next \in Nat \ {0}
      BY <1>1, <1>2, ActiveFacts, LenProperties
    <3>2. k < callHistory[n].next
      BY <1>1, <3>1 DEF Examined, TopFrame
    <3> QED
      BY <1>2, <3>2 DEF AnalInv, CalleesKnown
  <2> QED
    BY <2>1 DEF Callees
<1>6. AnalTypeOK'
  BY <1>1, <1>2, <1>3 DEF AnalTypeOK, Frames
<1>7. HistoryWithoutRepetition'
  <2>1. \A i, j \in 1 .. n - 1 : callHistory[i].func = callHistory[j].func => i = j
    BY <1>3a DEF AnalInv, HistoryWithoutRepetition
  <2>2. recFuncList' \cap nonRecFuncList' = {}
    BY <1>1 DEF AnalInv, HistoryWithoutRepetition
  <2> HIDE DEF n
  <2> QED
    BY <1>3, <2>1, <2>2 DEF HistoryWithoutRepetition
<1>8. CalleesKnown'
  <2>1. \A g \in nonRecFuncList' : Callees(g)' \subseteq Known'
    BY <1>1, <1>4, <1>5, SameGraph DEF AnalInv, CalleesKnown
  <2>2. ASSUME NEW i \in 1 .. n - 1,
               NEW k \in DOMAIN graph.calls[callHistory[i].func],
               k < callHistory'[i].next
        PROVE  graph.calls[callHistory[i].func][k] \in Known'
    <3>1. i \in 1 .. n /\ i \in DOMAIN callHistory /\ i < n
      BY <1>2
    <3>2. callHistory[i] \in Frames /\ callHistory[i].next \in Nat /\ k \in Nat
      BY <1>1, <3>1, ActiveFacts DEF Frames
    <3>3. CASE k < callHistory[i].next
      BY <1>4, <3>1, <3>3 DEF AnalInv, CalleesKnown
    <3>4. CASE ~ (k < callHistory[i].next)
      <4>1. i = n - 1 /\ k = callHistory[i].next
        BY <1>3, <2>2, <3>2, <3>4
      <4>2. i + 1 = n
        BY <1>2, <4>1
      <4>3. graph.calls[callHistory[i].func][k] = callHistory[n].func
        BY <3>1, <4>1, <4>2 DEF AnalInv, HistoryIsCallChain
      <4> QED
        BY <1>2, <1>4, <4>3
    <3> QED
      BY <3>3, <3>4
  <2> QED
    BY <1>1, <1>3, <2>1, <2>2 DEF CalleesKnown
<1>9. HistoryIsCallChain'
  <2> SUFFICES ASSUME NEW i \in 1 .. n - 1, i < n - 1
               PROVE  /\ callHistory'[i].next \in DOMAIN graph.calls[callHistory'[i].func]
                      /\ graph.calls[callHistory'[i].func][callHistory'[i].next]
                           = callHistory'[i + 1].func
    BY <1>1, <1>3 DEF HistoryIsCallChain
  <2>1. i \in DOMAIN callHistory /\ i < n /\ i + 1 \in 1 .. n - 1
    BY <1>2
  <2> QED
    BY <1>3, <2>1 DEF AnalInv, HistoryIsCallChain
<1>10. HistoryNotListed'
  <2> SUFFICES ASSUME n - 1 > 1, NEW i \in 1 .. n - 1
               PROVE  callHistory'[i].func \notin nonRecFuncList'
    BY <1>3 DEF HistoryNotListed
  <2>1. i \in DOMAIN callHistory /\ n \in DOMAIN callHistory /\ i # n /\ n > 1
    BY <1>2
  <2>2. callHistory[i].func # f /\ callHistory[i].func \notin nonRecFuncList
    BY <1>2, <2>1 DEF AnalInv, HistoryWithoutRepetition, HistoryNotListed
  <2> QED
    BY <1>1, <1>3, <2>2
<1>11. HistoryReaches'
  <2>1. \A i, j \in 1 .. n - 1 :
          i < j => callHistory[j].func \in ReachedFrom(callHistory[i].func)
    BY <1>3a DEF AnalInv, HistoryReaches
  <2>2. \A g : ReachedFrom(g)' = ReachedFrom(g)
    BY <1>1, SameGraph
  <2> HIDE DEF n
  <2> QED
    BY <1>3, <2>1, <2>2 DEF HistoryReaches
<1>12. StartedKnown'
  <2> SUFFICES ASSUME NEW i \in 1 .. roots
               PROVE  \/ graph.order[i] \in Known'
                      \/ callHistory' # <<>> /\ callHistory'[1].func = graph.order[i]
    BY <1>1 DEF StartedKnown, Active
  <2>1. graph.order[i] \in Known \/ callHistory[1].func = graph.order[i]
    BY DEF AnalInv, StartedKnown
  <2>2. CASE n = 1
    BY <1>2, <1>4, <2>1, <2>2
  <2>3. CASE n # 1
    <3>1. n \in Nat \ {0} /\ Len(callHistory') = n - 1
      BY <1>2, <1>3
    <3>2. 1 \in 1 .. n - 1 /\ callHistory' # <<>>
      <4> HIDE DEF n
      <4> QED
        BY <2>3, <3>1, EmptySeq
    <3> QED
      BY <1>3, <1>4, <2>1, <3>2
  <2> QED
    BY <2>2, <2>3
<1>13. NonRecursiveAcyclic'
  <2> SUFFICES ASSUME NEW C \in SUBSET nonRecFuncList', C # {},
                      \A g \in C : Callees(g) \cap C # {}
               PROVE  FALSE
    BY <1>1, SameGraph DEF NonRecursiveAcyclic, ClosedUnderSomeCall
  <2>1. CASE C \subseteq nonRecFuncList
    BY <2>1 DEF AnalInv, NonRecursiveAcyclic, ClosedUnderSomeCall
  <2>2. CASE ~ (C \subseteq nonRecFuncList)
    <3>1. f \in C /\ f \notin Known /\ C \ {f} \subseteq nonRecFuncList
      BY <1>1, <2>2 DEF Known
    <3>2. f \notin Callees(f)
      BY <1>5, <3>1
    <3>3. \A g \in C \ {f} : f \notin Callees(g)
      BY <3>1 DEF AnalInv, CalleesKnown
    <3>4. \A g \in C \ {f} : Callees(g) \cap (C \ {f}) # {}
      BY <3>3
    <3>5. C \ {f} # {}
      BY <3>1, <3>2
    <3> QED
      BY <3>1, <3>4, <3>5 DEF AnalInv, NonRecursiveAcyclic, ClosedUnderSomeCall
  <2> QED
    BY <2>1, <2>2
<1>14. (graph \in CallGraphs)' /\ OnlyRecursiveMarked'
  BY <1>1, SameGraph DEF AnalInv, OnlyRecursiveMarked
<1> QED
  BY <1>6, <1>7, <1>8, <1>9, <1>10, <1>11, <1>12, <1>13, <1>14 DEF AnalInv

-----------------------------------------------------------------------------
LEMMA AnalInitEstablishes == AnalInit => AnalInv
<1> SUFFICES ASSUME AnalInit PROVE AnalInv
  OBVIOUS
<1>1. AnalTypeOK /\ graph \in CallGraphs
  <2>1. graph \in CallGraph
    BY CallGraphsAssumption DEF AnalInit
  <2>2. Len(graph.order) \in Nat
    BY <2>1, LenProperties DEF CallGraph
  <2> QED
    BY <2>1, <2>2, EmptySeq DEF AnalInit, AnalTypeOK
<1>2. DOMAIN callHistory = {} /\ Len(callHistory) = 0
  BY DEF AnalInit
<1> QED
  BY <1>1, <1>2
     DEF AnalInit, AnalInv, HistoryWithoutRepetition, CalleesKnown, HistoryIsCallChain,
         HistoryNotListed, HistoryReaches, StartedKnown, NonRecursiveAcyclic,
         OnlyRecursiveMarked

LEMMA AnalNextKeeps == AnalInv /\ [AnalNext]_analVars => AnalInv'
<1> SUFFICES ASSUME AnalInv, [AnalNext]_analVars PROVE AnalInv'
  OBVIOUS
<1>1. CASE StartFrom
  BY <1>1, StartKeeps
<1>2. CASE SkipKnown
  BY <1>2, SkipKeeps
<1>3. CASE MarkCycle
  BY <1>3, MarkKeeps
<1>4. CASE Descend
  BY <1>4, DescendKeeps
<1>5. CASE FinishFunction
  BY <1>5, FinishKeeps
<1>6. CASE UNCHANGED analVars
  BY <1>6, SameGraph
     DEF analVars, AnalInv, AnalTypeOK, HistoryWithoutRepetition, CalleesKnown,
         HistoryIsCallChain, HistoryNotListed, HistoryReaches, StartedKnown, Active, Known,
         NonRecursiveAcyclic, OnlyRecursiveMarked, ClosedUnderSomeCall
<1> QED
  BY <1>1, <1>2, <1>3, <1>4, <1>5, <1>6 DEF AnalNext

(***************************************************************************)
(* The strengthening holds for every call graph (findAllRecursiveFunction  *)
(* and everything it calls keep it).                                       *)
(***************************************************************************)
THEOREM AnalInvariant == AnalSpec => []AnalInv
BY AnalInitEstablishes, AnalNextKeeps, PTL DEF AnalSpec

(***************************************************************************)
(* The members of the pass keep their types, the first assertion of        *)
(* traverseAndMarkRecCalls never fails, and no function is in both lists.  *)
(***************************************************************************)
THEOREM AnalTypeCorrect == AnalSpec => [](AnalTypeOK /\ HistoryWithoutRepetition)
<1>1. AnalInv => AnalTypeOK /\ HistoryWithoutRepetition
  BY DEF AnalInv
<1> QED
  BY <1>1, AnalInvariant, PTL

(***************************************************************************)
(* The functions listed as not recursive never contain a cycle of calls.   *)
(***************************************************************************)
THEOREM NonRecursiveAlwaysAcyclic == AnalSpec => []NonRecursiveAcyclic
<1>1. AnalInv => NonRecursiveAcyclic
  BY DEF AnalInv
<1> QED
  BY <1>1, AnalInvariant, PTL

LEMMA CyclesAreCut == AnalInv => EveryCycleCut
<1> SUFFICES ASSUME AnalInv, Finished PROVE Functions \ recFuncList \subseteq nonRecFuncList
  BY DEF AnalInv, NonRecursiveAcyclic, EveryCycleCut
<1> SUFFICES ASSUME NEW f \in Functions PROVE f \in Known
  BY DEF Known
<1>1. PICK i \in DOMAIN graph.order : graph.order[i] = f
  BY CallGraphsAssumption DEF AnalInv
<1>2. i \in 1 .. roots
  BY LenProperties DEF AnalInv, AnalTypeOK, CallGraph, Finished
<1> QED
  BY <1>1, <1>2 DEF AnalInv, StartedKnown, Finished

(***************************************************************************)
(* When the pass ends, every cycle of calls goes through recFuncList: this *)
(* is what ContextTreeBuilder needs to come to an end.                     *)
(***************************************************************************)
THEOREM RecursiveFunctionsCutCycles == AnalSpec => []EveryCycleCut
BY CyclesAreCut, AnalInvariant, PTL

(***************************************************************************)
(* Only functions that can reach themselves are ever called recursive.     *)
(***************************************************************************)
THEOREM MarkedAreRecursive == AnalSpec => []OnlyRecursiveMarked
<1>1. AnalInv => OnlyRecursiveMarked
  BY DEF AnalInv
<1> QED
  BY <1>1, AnalInvariant, PTL

-----------------------------------------------------------------------------
(***************************************************************************)
(* FlattenSeq, which puts the targets of a function's calls together, is a *)
(* recursive function.  That it exists, and what it contains, follows by   *)
(* looking at the least length, or the first sequence, for which it does   *)
(* not.                                                                    *)
(***************************************************************************)
LEMMA LeastOf ==
  ASSUME NEW T, T \subseteq Nat, T # {}
  PROVE  \E m \in T : \A n \in T : m <= n
<1>1. PICK m \in T : \A n \in T : ~ (<<n, m>> \in OpToRel(<, Nat))
  BY NatLessThanWellFounded, WFMin
<1>2. ASSUME NEW n \in T
      PROVE  m <= n
  <2>1. n \in Nat /\ m \in Nat
    OBVIOUS
  <2>2. ~ (n < m)
    BY <1>1, <2>1 DEF OpToRel
  <2> QED
    BY <2>1, <2>2
<1> QED
  BY <1>2

\* The first i sequences put together, given the shorter prefixes.
Joined(f, seqs, i) == IF i = 1 THEN seqs[i] ELSE f[i - 1] \o seqs[i]

Joins(f, seqs, n) == f = [i \in 1 .. n |-> Joined(f, seqs, i)]

LEMMA JoinsExtend ==
  ASSUME NEW n \in Nat, NEW seqs, NEW f, Joins(f, seqs, n)
  PROVE  \E g : Joins(g, seqs, n + 1)
<1> DEFINE g == [i \in 1 .. n + 1 |-> Joined(f, seqs, i)]
<1>1. ASSUME NEW i \in 1 .. n + 1
      PROVE  Joined(g, seqs, i) = Joined(f, seqs, i)
  <2>1. CASE i = 1
    BY <2>1 DEF Joined
  <2>2. CASE i # 1
    <3>1. PICK k : k = i - 1
      OBVIOUS
    <3>2. k \in 1 .. n /\ k \in 1 .. n + 1
      BY <2>2, <3>1
    <3>3. g[k] = Joined(f, seqs, k)
      BY <3>2
    <3>4. f[k] = Joined(f, seqs, k)
      BY <3>2 DEF Joins
    <3>5. g[k] = f[k]
      BY <3>3, <3>4, Zenon
    <3> HIDE DEF g
    <3> QED
      BY <2>2, <3>1, <3>5 DEF Joined
  <2> QED
    BY <2>1, <2>2
<1>2. g = [i \in 1 .. n + 1 |-> Joined(g, seqs, i)]
  BY <1>1
<1> QED
  BY <1>2 DEF Joins

LEMMA JoinsExist ==
  ASSUME NEW seqs
  PROVE  \A n \in Nat : \E f : Joins(f, seqs, n)
<1> DEFINE Without == {n \in Nat : ~ \E f : Joins(f, seqs, n)}
<1>1. SUFFICES ASSUME Without # {} PROVE FALSE
  OBVIOUS
<1>2. PICK m \in Without : \A n \in Without : m <= n
  BY <1>1, LeastOf
<1>3. \E f : Joins(f, seqs, 0)
  <2>1. 1 .. 0 = {}
    OBVIOUS
  <2>2. [i \in {} |-> 0] = [i \in {} |-> Joined([j \in {} |-> 0], seqs, i)]
    OBVIOUS
  <2> QED
    BY <2>1, <2>2 DEF Joins
<1>4. m # 0 /\ m \in Nat
  BY <1>3
<1>5. m - 1 \in Nat /\ m - 1 \notin Without
  BY <1>2, <1>4
<1>6. PICK f : Joins(f, seqs, m - 1)
  BY <1>5
<1>7. \E g : Joins(g, seqs, (m - 1) + 1)
  BY <1>5, <1>6, JoinsExtend
<1>8. (m - 1) + 1 = m
  BY <1>4
<1> QED
  BY <1>7, <1>8

LEMMA FlattenIsJoined ==
  ASSUME NEW seqs, Len(seqs) \in Nat \ {0}
  PROVE  \E f : Joins(f, seqs, Len(seqs)) /\ FlattenSeq(seqs) = f[Len(seqs)]
<1>1. \E f : f = [i \in 1 .. Len(seqs) |-> IF i = 1 THEN seqs[i] ELSE f[i - 1] \o seqs[i]]
  BY JoinsExist DEF Joins, Joined
<1> DEFINE F == CHOOSE f : f = [i \in 1 .. Len(seqs) |->
                                  IF i = 1 THEN seqs[i] ELSE f[i - 1] \o seqs[i]]
<1>2. F = [i \in 1 .. Len(seqs) |-> IF i = 1 THEN seqs[i] ELSE F[i - 1] \o seqs[i]]
  BY <1>1, Zenon
<1>3. FlattenSeq(seqs) = F[Len(seqs)]
  BY DEF FlattenSeq
<1> HIDE DEF F
<1> QED
  BY <1>2, <1>3 DEF Joins, Joined

\* The elements of a sequence.
Elements(s) == {s[i] : i \in DOMAIN s}

LEMMA ElementsOfConcat ==
  ASSUME NEW S, NEW s \in Seq(S), NEW t \in Seq(S), NEW u, u = s \o t
  PROVE  /\ u \in Seq(S)
         /\ Elements(s) \subseteq Elements(u) /\ Elements(t) \subseteq Elements(u)
<1>1. /\ u \in Seq(S) /\ Len(u) = Len(s) + Len(t)
      /\ \A i \in 1 .. Len(s) + Len(t) : u[i] = IF i <= Len(s) THEN s[i] ELSE t[i - Len(s)]
  BY ConcatProperties
<1>2. /\ Len(s) \in Nat /\ Len(t) \in Nat
      /\ DOMAIN s = 1 .. Len(s) /\ DOMAIN t = 1 .. Len(t) /\ DOMAIN u = 1 .. Len(u)
  BY <1>1, LenProperties
<1>3. ASSUME NEW i \in DOMAIN s
      PROVE  s[i] \in Elements(u)
  <2>1. i \in DOMAIN u /\ u[i] = s[i]
    BY <1>1, <1>2
  <2> QED
    BY <2>1 DEF Elements
<1>4. ASSUME NEW i \in DOMAIN t
      PROVE  t[i] \in Elements(u)
  <2>1. PICK k : k = Len(s) + i
    OBVIOUS
  <2>2. k \in DOMAIN u /\ ~ (k <= Len(s)) /\ k - Len(s) = i /\ k \in 1 .. Len(s) + Len(t)
    BY <1>1, <1>2, <2>1
  <2>3. u[k] = t[i]
    BY <1>1, <2>2
  <2> QED
    BY <2>2, <2>3 DEF Elements
<1> QED
  BY <1>1, <1>3, <1>4 DEF Elements

LEMMA FlattenFacts ==
  ASSUME NEW S, NEW seqs, NEW n \in Nat, seqs \in [1 .. n -> Seq(S)]
  PROVE  /\ FlattenSeq(seqs) \in Seq(S)
         /\ \A i \in 1 .. n : Elements(seqs[i]) \subseteq Elements(FlattenSeq(seqs))
<1>1. Len(seqs) = n /\ seqs \in Seq(Seq(S))
  <2>1. seqs \in Seq(Seq(S))
    BY SeqDef
  <2> QED
    BY <2>1
<1>2. CASE n = 0
  <2>1. FlattenSeq(seqs) = seqs
    BY <1>1, <1>2 DEF FlattenSeq
  <2>2. seqs = <<>>
    BY <1>1, <1>2, EmptySeq
  <2>3. seqs \in Seq(S)
    BY <2>2, EmptySeq
  <2> QED
    BY <1>2, <2>1, <2>3
<1>3. CASE n # 0
  <2>1. PICK f : Joins(f, seqs, n) /\ FlattenSeq(seqs) = f[n]
    BY <1>1, <1>3, FlattenIsJoined
  <2> DEFINE Right(k) == /\ f[k] \in Seq(S)
                         /\ \A i \in 1 .. k : Elements(seqs[i]) \subseteq Elements(f[k])
             Wrong == {k \in 1 .. n : ~ Right(k)}
  <2>2. ASSUME NEW k \in 1 .. n
        PROVE  /\ seqs[k] \in Seq(S)
               /\ k = 1 => f[k] = seqs[k]
               /\ k # 1 => f[k] = f[k - 1] \o seqs[k]
    BY <2>1 DEF Joins, Joined
  <2>3. ASSUME Wrong # {} PROVE FALSE
    <3>1. PICK m \in Wrong : \A k \in Wrong : m <= k
      <4>1. Wrong \subseteq Nat
        OBVIOUS
      <4> QED
        BY <2>3, <4>1, LeastOf
    <3>2. m \in 1 .. n /\ ~ Right(m)
      BY <3>1
    <3>3. CASE m = 1
      BY <2>2, <3>2, <3>3
    <3>4. CASE m # 1
      <4>1. PICK k : k = m - 1
        OBVIOUS
      <4>2. k \in 1 .. n /\ k < m
        BY <3>2, <3>4, <4>1
      <4>3. f[k] \in Seq(S) /\ \A i \in 1 .. k : Elements(seqs[i]) \subseteq Elements(f[k])
        <5>1. ~ (m <= k)
          BY <3>2, <4>2
        <5>2. k \notin Wrong
          BY <3>1, <5>1, Zenon
        <5> QED
          BY <4>2, <5>2
      <4>4. f[m] = f[k] \o seqs[m] /\ seqs[m] \in Seq(S)
        BY <2>2, <3>2, <3>4, <4>1
      <4>5. /\ f[m] \in Seq(S)
            /\ Elements(f[k]) \subseteq Elements(f[m])
            /\ Elements(seqs[m]) \subseteq Elements(f[m])
        BY <4>3, <4>4, ElementsOfConcat
      <4>6. ASSUME NEW i \in 1 .. m
            PROVE  Elements(seqs[i]) \subseteq Elements(f[m])
        <5>1. i \in 1 .. k \/ i = m
          BY <3>2, <4>1
        <5> QED
          BY <4>3, <4>5, <5>1
      <4> QED
        BY <3>2, <4>5, <4>6
    <3> QED
      BY <3>3, <3>4
  <2>4. n \in 1 .. n
    BY <1>3
  <2>5. Right(n)
    BY <2>3, <2>4
  <2> QED
    BY <2>1, <2>5
<1> QED
  BY <1>2, <1>3

-----------------------------------------------------------------------------
(***************************************************************************)
(* The calls the program can make are edges of the call graph.             *)
(***************************************************************************)
LEMMA ElementsOfLists ==
  ASSUME NEW S, NEW s \in Seq(S)
  PROVE  ToSet(s) = Elements(s)
BY DEF ToSet, Elements

LEMMA OfTypeFacts ==
  ASSUME NEW mod \in Modules, NEW t
  PROVE  /\ OfType(mod, t) \in Seq(Functions)
         /\ \A g \in Functions : mod.type[g] = t => g \in Elements(OfType(mod, t))
<1> DEFINE one == [i \in DOMAIN mod.order |->
                     IF mod.type[mod.order[i]] = t THEN <<mod.order[i]>> ELSE <<>>]
<1>1. PICK n \in Nat : DOMAIN mod.order = 1 .. n
  BY ModulesAssumption, LenProperties
<1>2. \A i \in 1 .. n : mod.order[i] \in Functions
  BY <1>1, ModulesAssumption, LenProperties, ElementOfSeq
<1>3. one \in [1 .. n -> Seq(Functions)]
  <2>1. \A i \in 1 .. n : <<mod.order[i]>> \in Seq(Functions)
    BY <1>2
  <2>2. <<>> \in Seq(Functions)
    BY EmptySeq
  <2> QED
    BY <1>1, <2>1, <2>2
<1>4. ASSUME NEW g \in Functions, mod.type[g] = t
      PROVE  \E i \in 1 .. n : g \in Elements(one[i])
  <2>1. PICK i \in 1 .. n : mod.order[i] = g
    BY <1>1, ModulesAssumption
  <2>2. one[i] = <<g>>
    BY <1>1, <1>4, <2>1
  <2>3. g \in Elements(<<g>>)
    BY DEF Elements
  <2> QED
    BY <2>2, <2>3
<1>5. OfType(mod, t) = FlattenSeq(one)
  BY DEF OfType
<1> HIDE DEF one
<1>6. /\ FlattenSeq(one) \in Seq(Functions)
      /\ \A i \in 1 .. n : Elements(one[i]) \subseteq Elements(FlattenSeq(one))
  BY <1>3, FlattenFacts
<1> QED
  BY <1>4, <1>5, <1>6

\* RecursiveFuncAnal is told of the function called and of those of the type.
LEMMA TargetsFound ==
  ASSUME NEW mod \in Modules, NEW call, NEW targets, targets = possibleTargetOf(mod, call)
  PROVE  /\ targets \in Seq(Functions)
         /\ \A g \in Functions :
              g = call.value \/ (call.value = None /\ mod.type[g] = call.type)
                => g \in Elements(targets)
<1> DEFINE typed == OfType(mod, call.type)
<1>1. /\ typed \in Seq(Functions)
      /\ \A g \in Functions : mod.type[g] = call.type => g \in Elements(typed)
  BY OfTypeFacts
<1>2. <<>> \in Seq(Functions)
  BY EmptySeq
<1>3. None \notin Functions
  BY ModulesAssumption
<1> HIDE DEF typed
<1>4. CASE call.value \in Functions
  <2>1. /\ <<call.value>> \in Seq(Functions) /\ <<call.value>> # <<>>
        /\ call.value \in Elements(<<call.value>>)
    BY <1>4 DEF Elements
  <2>2. call.value # None /\ ~ IsDeclaration(call.value)
    BY <1>3, <1>4 DEF IsDeclaration
  <2>3. Matched(mod, call) = <<call.value>>
    BY <2>2, Zenon DEF Matched
  <2>4. buildTypeBasedMatching(mod, call) = <<call.value>>
    BY <2>1, <2>3, Zenon DEF buildTypeBasedMatching
  <2>5. targets = <<call.value>>
    BY <2>2, <2>4 DEF possibleTargetOf, IsIndirect
  <2> QED
    BY <1>3, <1>4, <2>1, <2>5
<1>5. CASE call.value = None
  <2>1. Matched(mod, call) = typed
    BY <1>5 DEF Matched, typed
  <2>2. buildTypeBasedMatching(mod, call) = typed
    BY <2>1 DEF buildTypeBasedMatching, typed
  <2>3. targets = typed
    BY <1>5, <2>2 DEF possibleTargetOf, IsIndirect, IsDirect
  <2> QED
    BY <1>1, <1>3, <1>5, <2>3
<1>6. CASE call.value \notin Functions /\ call.value # None
  <2>1. Matched(mod, call) = <<>>
    BY <1>6 DEF Matched, IsDeclaration
  <2>2. buildTypeBasedMatching(mod, call) \in {typed, <<>>}
    BY <2>1 DEF buildTypeBasedMatching, typed
  <2>3. targets \in {typed, <<>>}
    BY <1>6, <2>2 DEF possibleTargetOf, IsIndirect, IsDirect, IsDeclaration
  <2> QED
    BY <1>1, <1>2, <1>6, <2>3
<1> QED
  BY <1>4, <1>5, <1>6

\* What a call may enter and the matching does not miss is an edge.
LEMMA RealCallsAreEdges ==
  ASSUME module \in Modules, graph = CallGraphOf(module), NEW f \in Functions,
         NEW call \in ToSet(module.calls[f]), NEW g \in Entered(call), ~ Missed(call, g)
  PROVE  g \in Callees(f)
<1> DEFINE calls == module.calls[f]
           found == [i \in DOMAIN calls |-> possibleTargetOf(module, calls[i])]
<1>1. PICK n \in Nat : DOMAIN calls = 1 .. n
  <2>1. calls \in Seq(ToSet(calls))
    BY ModulesAssumption
  <2> HIDE DEF calls
  <2> QED
    BY <2>1, LenProperties
<1>2. graph.calls[f] = FlattenSeq(found)
  BY DEF CallGraphOf
<1>3. found \in [1 .. n -> Seq(Functions)]
  BY <1>1, TargetsFound
<1>4. PICK i \in 1 .. n : call = calls[i]
  BY <1>1 DEF ToSet
<1>5. g \in Elements(found[i])
  <2>1. found[i] = possibleTargetOf(module, calls[i])
    BY <1>1
  <2>2. /\ g \in Functions
        /\ g = call.value \/ (call.value = None /\ module.type[g] = call.type)
    BY DEF Entered, Missed
  <2> QED
    BY <1>4, <2>1, <2>2, TargetsFound
<1> HIDE DEF found, calls
<1>6. Elements(found[i]) \subseteq Elements(FlattenSeq(found))
  BY <1>3, FlattenFacts
<1>7. Callees(f) = Elements(FlattenSeq(found))
  BY <1>2 DEF Callees, Elements
<1> QED
  BY <1>5, <1>6, <1>7

(***************************************************************************)
(* Whatever calls a module makes, direct, through casts or through         *)
(* pointers, and whatever those may point to: a cycle of the calls that    *)
(* can happen avoids the functions marked only if a pointer in it reaches  *)
(* a function of another type than the pointer's.                          *)
(***************************************************************************)
THEOREM RealCyclesAreCut == ModuleSpec => []EveryRealCycleCut
<1> DEFINE Inv == AnalInv /\ module \in Modules /\ graph = CallGraphOf(module)
<1>1. ModuleInit => Inv
  BY AnalInitEstablishes DEF ModuleInit
<1>2. Inv /\ [ModuleNext]_moduleVars => Inv'
  <2>1. ASSUME Inv, [ModuleNext]_moduleVars
        PROVE  [AnalNext]_analVars /\ module' = module /\ graph' = graph
    BY <2>1 DEF ModuleNext, moduleVars, analVars, AnalNext, StartFrom, SkipKnown, MarkCycle,
                Descend, FinishFunction
  <2>2. CallGraphOf(module)' = CallGraphOf(module')
    BY DEF CallGraphOf, possibleTargetOf, IsIndirect, IsDirect, buildTypeBasedMatching,
           Matched, OfType, IsDeclaration
  <2> QED
    BY <2>1, <2>2, AnalNextKeeps
<1>3. Inv => EveryRealCycleCut
  <2> SUFFICES ASSUME Inv, Finished, NEW C \in SUBSET (Functions \ recFuncList), C # {}
               PROVE  \E f \in C : \A call \in ToSet(module.calls[f]) :
                                    \A g \in Entered(call) \cap C : Missed(call, g)
    BY DEF EveryRealCycleCut
  <2>1. ~ ClosedUnderSomeCall(C)
    BY CyclesAreCut, Zenon DEF EveryCycleCut
  <2>2. PICK f \in C : Callees(f) \cap C = {}
    BY <2>1 DEF ClosedUnderSomeCall
  <2>3. ASSUME NEW call \in ToSet(module.calls[f]), NEW g \in Entered(call), ~ Missed(call, g)
        PROVE  g \in Callees(f)
    BY <2>3, RealCallsAreEdges
  <2> QED
    BY <2>2, <2>3
<1> QED
  BY <1>1, <1>2, <1>3, PTL DEF ModuleSpec
=============================================================================
