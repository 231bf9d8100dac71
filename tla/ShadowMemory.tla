---------------------------- MODULE ShadowMemory ----------------------------
(***************************************************************************)
(* tools/campSampling/ShadowMemory.hpp (and the copies in tools/camp and   *)
(* tools/objtrace): the runtimes keep their data about an address of the   *)
(* program at a fixed place computed from it.  The pages there are not     *)
(* mapped in advance: the first access of one faults, the handler maps it, *)
(* and the access is made again.                                           *)
(*                                                                         *)
(* Addresses count words of 8 bytes.  An access is known by the first word *)
(* it touches: when that word's page is mapped the whole element is there. *)
(* The runtimes are single threaded, so one access is made at a time.      *)
(***************************************************************************)
EXTENDS Integers, TLAPS

CONSTANTS
  PAGE_SIZE,   \* words of a page
  SIZE_ELEM,   \* words the handler asks for, wherever the fault was
  Stride,      \* words of an element: SIZE_ELEM in the history table, 1 in the malloc map
  NumPages,    \* bound: pages of shadow addresses in use
  Touched,     \* words some access touches first
  Blind,       \* those of them that are written before anything is read
  Values, Zero, Reading, NoRequest

ASSUME ShadowAssumption ==
  /\ PAGE_SIZE \in Nat \ {0} /\ SIZE_ELEM \in Nat \ {0} /\ Stride \in Nat \ {0}
  /\ PAGE_SIZE % Stride = 0 /\ SIZE_ELEM <= PAGE_SIZE
  /\ NumPages \in Nat
  /\ Touched \subseteq 0 .. NumPages * PAGE_SIZE - 1 /\ Blind \subseteq Touched
  /\ Zero \in Values /\ Reading \notin Values
  /\ NoRequest \notin [addr : Nat, value : Values \cup {Reading}]
  /\ NoRequest \notin [elem : Nat, value : Values \cup {Reading}]

VARIABLES
  mapped,    \* pages mapped
  shadow,    \* contents; of pages that are not mapped, what a fresh page holds
  request,   \* the access being made
  answer     \* the last value read

vars == <<mapped, shadow, request, answer>>

PageOf(a) == a \div PAGE_SIZE
ElemOf(a) == a \div Stride
Elems     == {ElemOf(a) : a \in 0 .. NumPages * PAGE_SIZE - 1}
OnPages(pages) == {e \in Elems : PageOf(e * Stride) \in pages}

Init ==
  /\ mapped = {}
  /\ shadow = [e \in Elems |-> Zero]
  /\ request = NoRequest /\ answer = Zero

Access(a, v) ==
  /\ request = NoRequest
  /\ a \in Blind => v # Reading
  /\ request' = [addr |-> a, value |-> v]
  /\ UNCHANGED <<mapped, shadow, answer>>

MapFresh(pages) ==
  /\ mapped' = mapped \cup pages
  /\ shadow' = [e \in Elems |-> IF e \in OnPages(pages) THEN Zero ELSE shadow[e]]

\* Faulty: the last word is taken for a + size; only the last page is mapped.
AllocPageRoundsUp(a) == MapFresh({PageOf(a), PageOf(a + SIZE_ELEM)})
AllocPageOfEnd(a)    == MapFresh({PageOf(a + SIZE_ELEM)})

\* MAP_FIXED: a page that was there is replaced.
AllocPage(a) == MapFresh({PageOf(a), PageOf(a + SIZE_ELEM - 1)})

SegFaultHandler ==
  /\ request # NoRequest /\ PageOf(request.addr) \notin mapped
  /\ AllocPage(request.addr)
  /\ UNCHANGED <<request, answer>>

Perform ==
  /\ request # NoRequest /\ PageOf(request.addr) \in mapped
  /\ IF request.value = Reading
     THEN answer' = shadow[ElemOf(request.addr)] /\ UNCHANGED shadow
     ELSE /\ shadow' = [shadow EXCEPT ![ElemOf(request.addr)] = request.value]
          /\ UNCHANGED answer
  /\ request' = NoRequest
  /\ UNCHANGED mapped

Next ==
  \/ \E a \in Touched, v \in Values \cup {Reading} : Access(a, v)
  \/ SegFaultHandler
  \/ Perform

\* The processor delivers a fault, and makes the access again after the handler.
Fairness == WF_vars(SegFaultHandler) /\ WF_vars(Perform)
Spec     == Init /\ [][Next]_vars /\ Fairness

-----------------------------------------------------------------------------
\* The types of the state; no page is mapped beyond the one behind the last.
TypeOK ==
  /\ mapped \subseteq 0 .. NumPages
  /\ shadow \in [Elems -> Values]
  /\ request \in [addr : Touched, value : Values \cup {Reading}] \cup {NoRequest}
  /\ answer \in Values

\* A page that is not mapped would be all zero.
UnmappedIsZero == \A e \in Elems : PageOf(e * Stride) \notin mapped => shadow[e] = Zero

\* No first access is so close to the end of its page that the handler maps two.
NoCross == \A a \in Touched : PageOf(a + SIZE_ELEM - 1) = PageOf(a)

(***************************************************************************)
(* The shadow implements flat memory: mapping on demand is not noticed by  *)
(* the histories and tables kept in it.                                    *)
(***************************************************************************)
Flat == INSTANCE FlatMemory WITH
  memory  <- shadow,
  request <- IF request = NoRequest THEN NoRequest
             ELSE [elem |-> ElemOf(request.addr), value |-> request.value]

BehavesAsFlatMemory == Flat!FlatSafety

\* An access faults at most once: the handler always maps the page that was missing.
EveryAccessEnds == request # NoRequest ~> request = NoRequest
-----------------------------------------------------------------------------
(***************************************************************************)
(* Proofs.  If no first access is so near the end of its page that the     *)
(* handler maps the next page too, mapping on demand implements flat       *)
(* memory, for every size of pages and elements.                           *)
(***************************************************************************)
IInv == TypeOK /\ UnmappedIsZero

-----------------------------------------------------------------------------
(***************************************************************************)
(* Arithmetic of pages and elements.                                       *)
(***************************************************************************)
LEMMA DivFacts ==
  ASSUME NEW a \in Nat, NEW d \in Nat \ {0}
  PROVE  /\ a \div d \in Nat
         /\ (a \div d) * d <= a
         /\ a < (a \div d) * d + d
  BY Z3

LEMMA DivUnique ==
  ASSUME NEW a \in Nat, NEW d \in Nat \ {0}, NEW q \in Int, q * d <= a, a < q * d + d
  PROVE  a \div d = q
  BY Z3

\* Words of n pages are on pages below n.
LEMMA PageBelow ==
  ASSUME NEW a \in Nat, NEW d \in Nat \ {0}, NEW n \in Nat, a < n * d
  PROVE  a \div d < n
  BY DivFacts, Z3

\* An element lies on the page of each of its words, when pages hold whole elements.
LEMMA PageOfElem ==
  ASSUME NEW a \in Nat, NEW s \in Nat \ {0}, NEW k \in Nat \ {0}
  PROVE  ((a \div s) * s) \div (k * s) = a \div (k * s)
<1> DEFINE p == k * s
           q == a \div p
           e == a \div s
<1>1. p \in Nat \ {0}
  BY Z3
<1>2. q \in Nat /\ q * p <= a /\ a < q * p + p
  BY <1>1, DivFacts
<1>3. e \in Nat /\ e * s <= a /\ a < e * s + s
  BY DivFacts
<1>4. q * k <= e
  <2>1. (q * k) * s < (e + 1) * s
    BY <1>2, <1>3, Z3
  <2>2. q * k < e + 1
    BY <1>2, <1>3, <2>1, Z3
  <2> QED
    BY <1>2, <1>3, <2>2, Z3
<1>5. q * p <= e * s
  BY <1>2, <1>3, <1>4, Z3
<1>6. e * s \in Nat /\ e * s < q * p + p
  BY <1>1, <1>2, <1>3, Z3
<1> HIDE DEF q, e, p
<1>7. (e * s) \div p = q
  BY <1>1, <1>2, <1>5, <1>6, DivUnique
<1> QED
  BY <1>7 DEF q, e, p

LEMMA Multiple ==
  ASSUME NEW p \in Nat \ {0}, NEW s \in Nat \ {0}, p % s = 0
  PROVE  \E k \in Nat \ {0} : p = k * s
<1>1. p \div s \in Nat /\ p = (p \div s) * s + (p % s)
  BY Z3
<1>2. p = (p \div s) * s /\ p \div s # 0
  BY <1>1, Z3
<1> QED
  BY <1>1, <1>2

LEMMA PageOfTouched ==
  ASSUME NEW a \in Nat
  PROVE  PageOf(ElemOf(a) * Stride) = PageOf(a)
<1>1. PICK k \in Nat \ {0} : PAGE_SIZE = k * Stride
  BY Multiple, ShadowAssumption
<1>2. Stride \in Nat \ {0}
  BY ShadowAssumption
<1>3. ((a \div Stride) * Stride) \div (k * Stride) = a \div (k * Stride)
  BY <1>2, PageOfElem
<1> QED
  BY <1>1, <1>3 DEF PageOf, ElemOf

\* The words accesses touch, the elements they are in, and the pages the handler maps.
LEMMA TouchedFacts ==
  ASSUME NEW a \in Touched
  PROVE  /\ a \in Nat /\ ElemOf(a) \in Elems /\ ElemOf(a) \in Nat
         /\ PageOf(a) \in 0 .. NumPages
         /\ PageOf(a + SIZE_ELEM - 1) \in 0 .. NumPages
<1>1. a \in Nat /\ a < NumPages * PAGE_SIZE /\ a \in 0 .. NumPages * PAGE_SIZE - 1
  BY ShadowAssumption, SMT
<1>2. ElemOf(a) \in Elems /\ ElemOf(a) \in Nat
  BY <1>1, DivFacts, ShadowAssumption DEF Elems, ElemOf
<1>3. PageOf(a) \in 0 .. NumPages
  <2>1. a \div PAGE_SIZE < NumPages
    BY <1>1, PageBelow, ShadowAssumption
  <2> QED
    BY <1>1, <2>1, DivFacts, ShadowAssumption DEF PageOf
<1>4. PageOf(a + SIZE_ELEM - 1) \in 0 .. NumPages
  <2>1. a + SIZE_ELEM - 1 \in Nat /\ a + SIZE_ELEM - 1 < NumPages * PAGE_SIZE + PAGE_SIZE
    BY <1>1, ShadowAssumption
  <2>2. a + SIZE_ELEM - 1 < (NumPages + 1) * PAGE_SIZE
    BY <2>1, ShadowAssumption, Z3
  <2>3. (a + SIZE_ELEM - 1) \div PAGE_SIZE < NumPages + 1
    BY <2>1, <2>2, PageBelow, ShadowAssumption
  <2> QED
    BY <2>1, <2>3, DivFacts, ShadowAssumption DEF PageOf
<1> QED
  BY <1>1, <1>2, <1>3, <1>4

-----------------------------------------------------------------------------
(***************************************************************************)
(* The state keeps its types and unmapped pages stay zero, whatever the    *)
(* handler maps.                                                           *)
(***************************************************************************)
LEMMA InitIInv == Init => IInv
BY ShadowAssumption DEF Init, IInv, TypeOK, UnmappedIsZero

LEMMA RequestFacts ==
  ASSUME TypeOK, request # NoRequest
  PROVE  request.addr \in Touched /\ request.value \in Values \cup {Reading}
BY DEF TypeOK

LEMMA StepIInv == IInv /\ [Next]_vars => IInv'
<1> SUFFICES ASSUME IInv, [Next]_vars PROVE IInv'
  OBVIOUS
<1> USE DEF IInv
<1>1. ASSUME NEW a \in Touched, NEW v \in Values \cup {Reading}, Access(a, v)
      PROVE  IInv'
  BY <1>1 DEF Access, TypeOK, UnmappedIsZero
<1>2. CASE SegFaultHandler
  <2> DEFINE pages == {PageOf(request.addr), PageOf(request.addr + SIZE_ELEM - 1)}
  <2>1. pages \subseteq 0 .. NumPages
    BY <1>2, RequestFacts, TouchedFacts DEF SegFaultHandler
  <2>2. MapFresh(pages) /\ UNCHANGED <<request, answer>>
    BY <1>2 DEF SegFaultHandler, AllocPage
  <2> HIDE DEF pages
  <2>3. TypeOK'
    BY <2>1, <2>2, ShadowAssumption DEF MapFresh, TypeOK
  <2>4. UnmappedIsZero'
    BY <2>2 DEF MapFresh, UnmappedIsZero, TypeOK
  <2> QED
    BY <2>3, <2>4
<1>3. CASE Perform
  <2>1. request.addr \in Touched /\ request.value \in Values \cup {Reading}
    BY <1>3, RequestFacts DEF Perform
  <2>2. ElemOf(request.addr) \in Elems
    BY <2>1, TouchedFacts
  <2>3. PageOf(ElemOf(request.addr) * Stride) \in mapped
    BY <1>3, <2>1, TouchedFacts, PageOfTouched DEF Perform
  <2>4. TypeOK'
    BY <1>3, <2>1, <2>2 DEF Perform, TypeOK
  <2>5. UnmappedIsZero'
    BY <1>3, <2>2, <2>3 DEF Perform, UnmappedIsZero, TypeOK
  <2> QED
    BY <2>4, <2>5
<1>4. CASE UNCHANGED vars
  BY <1>4 DEF vars, TypeOK, UnmappedIsZero
<1> QED
  BY <1>1, <1>2, <1>3, <1>4 DEF Next

\* The types hold for every size of pages and elements, and unmapped pages stay zero.
THEOREM ShadowTypeCorrect == Spec => []TypeOK
<1>1. IInv => TypeOK
  BY DEF IInv
<1> QED
  BY InitIInv, StepIInv, <1>1, PTL DEF Spec

-----------------------------------------------------------------------------
(***************************************************************************)
(* If no first access is near the end of its page, what the handler does   *)
(* is not seen: every step is one of flat memory, or none at all.          *)
(***************************************************************************)
LEMMA HandlerUnseen ==
  ASSUME IInv, NoCross, SegFaultHandler
  PROVE  shadow' = shadow
<1>1. request.addr \in Touched
  BY RequestFacts DEF SegFaultHandler, IInv
<1>2. MapFresh({PageOf(request.addr)}) /\ PageOf(request.addr) \notin mapped
  BY <1>1 DEF SegFaultHandler, AllocPage, NoCross
<1>3. \A e \in OnPages({PageOf(request.addr)}) : shadow[e] = Zero
  BY <1>2 DEF OnPages, IInv, UnmappedIsZero
<1> QED
  BY <1>2, <1>3 DEF MapFresh, IInv, TypeOK

LEMMA InitFlat == Init => Flat!FlatInit
BY DEF Init, Flat!FlatInit

LEMMA FlatElem ==
  ASSUME TypeOK, request # NoRequest
  PROVE  [elem |-> ElemOf(request.addr), value |-> request.value] # NoRequest
<1>1. ElemOf(request.addr) \in Nat /\ request.value \in Values \cup {Reading}
  BY RequestFacts, TouchedFacts
<1>2. [elem |-> ElemOf(request.addr), value |-> request.value]
        \in [elem : Nat, value : Values \cup {Reading}]
  BY <1>1
<1> QED
  BY <1>2, ShadowAssumption

LEMMA StepFlat ==
  ASSUME IInv, IInv', NoCross, [Next]_vars
  PROVE  [Flat!FlatNext]_(Flat!flatVars)
<1>1. ASSUME NEW a \in Touched, NEW v \in Values \cup {Reading}, Access(a, v)
      PROVE  Flat!Ask(ElemOf(a), v)
  <2>1. request' # NoRequest
    BY <1>1, TouchedFacts, ShadowAssumption DEF Access
  <2> QED
    BY <1>1, <2>1 DEF Access, Flat!Ask
<1>2. CASE SegFaultHandler
  BY <1>2, HandlerUnseen DEF SegFaultHandler, Flat!flatVars
<1>3. CASE Perform
  <2>1. Flat!Reply
    BY <1>3, FlatElem DEF Perform, Flat!Reply, IInv
  <2> QED
    BY <2>1 DEF Flat!FlatNext
<1>4. CASE UNCHANGED vars
  BY <1>4 DEF vars, Flat!flatVars
<1>5. ASSUME NEW a \in Touched, NEW v \in Values \cup {Reading}, Access(a, v)
      PROVE  Flat!FlatNext
  BY <1>1, <1>5, TouchedFacts DEF Flat!FlatNext
<1> QED
  BY <1>2, <1>3, <1>4, <1>5 DEF Next

(***************************************************************************)
(* Mapping on demand implements flat memory, if NoCross.  Without NoCross  *)
(* the handler may clear a page in use.                                    *)
(***************************************************************************)
THEOREM ShadowIsFlatMemory == ASSUME NoCross PROVE Spec => BehavesAsFlatMemory
<1>1. IInv /\ IInv' /\ [Next]_vars => [Flat!FlatNext]_(Flat!flatVars)
  BY StepFlat
<1> QED
  BY <1>1, InitIInv, StepIInv, InitFlat, PTL DEF Spec, BehavesAsFlatMemory, Flat!FlatSafety
=============================================================================
