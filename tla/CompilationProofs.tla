------------------------- MODULE CompilationProofs -------------------------
(***************************************************************************)
(* What Compilation keeps, for every set of units and tools.  Each part    *)
(* has an inductive invariant of its own:                                  *)
(*   NamerInv   what is named is numbered without gaps, kind by kind;      *)
(*   LoopInv    the table of loops has every loop named so far, and what   *)
(*              is read back from the file is the table;                   *)
(*   FinderInv  besides, the list of loops with dependences is the one the *)
(*              search makes of the loops read back;                       *)
(*   StartInv   the two lists and what the loader has called make up what  *)
(*              is to be called, and nothing waits that had to come before.*)
(***************************************************************************)
EXTENDS Compilation, FiniteSetTheorems, SequenceTheorems, WellFoundedInduction, TLAPS

-----------------------------------------------------------------------------
(***************************************************************************)
(* FlattenSeq, with which the passes put lists together, is a recursive    *)
(* function.  That it exists, and what it contains, follows by looking at  *)
(* the least length, or the first list, for which it does not.             *)
(***************************************************************************)
LEMMA LeastOf ==
  ASSUME NEW T, T \subseteq Nat, T # {}
  PROVE  \E m \in T : \A n \in T : m <= n
<1>1. PICK m \in T : \A n \in T : ~ (<<n, m>> \in OpToRel(<, Nat))
  BY NatLessThanWellFounded, WFMin
<1>2. ASSUME NEW n \in T
      PROVE  m <= n
  <2>1. n \in Nat /\ m \in Nat
    OBVIOUS
  <2>2. ~ (n < m)
    BY <1>1, <2>1 DEF OpToRel
  <2> QED
    BY <2>1, <2>2
<1> QED
  BY <1>2

LEMMA GreatestOf ==
  ASSUME NEW T, NEW b \in Nat, T \subseteq 0 .. b, T # {}
  PROVE  \E m \in T : \A n \in T : n <= m
<1> DEFINE U == {b - n : n \in T}
<1>1. U \subseteq Nat /\ U # {}
  OBVIOUS
<1>2. PICK u \in U : \A v \in U : u <= v
  BY <1>1, LeastOf
<1>3. PICK m \in T : u = b - m
  OBVIOUS
<1>4. ASSUME NEW n \in T
      PROVE  n <= m
  <2>1. u <= b - n
    BY <1>2
  <2> QED
    BY <1>3, <2>1
<1> QED
  BY <1>4

\* The first i sequences put together, given the shorter prefixes.
JoinStep(f, seqs, i) == IF i = 1 THEN seqs[i] ELSE f[i - 1] \o seqs[i]

Joins(f, seqs, n) == f = [i \in 1 .. n |-> JoinStep(f, seqs, i)]

LEMMA JoinsExtend ==
  ASSUME NEW n \in Nat, NEW seqs, NEW f, Joins(f, seqs, n)
  PROVE  \E g : Joins(g, seqs, n + 1)
<1> DEFINE g == [i \in 1 .. n + 1 |-> JoinStep(f, seqs, i)]
<1>1. ASSUME NEW i \in 1 .. n + 1
      PROVE  JoinStep(g, seqs, i) = JoinStep(f, seqs, i)
  <2>1. CASE i = 1
    BY <2>1 DEF JoinStep
  <2>2. CASE i # 1
    <3>1. PICK k : k = i - 1
      OBVIOUS
    <3>2. k \in 1 .. n /\ k \in 1 .. n + 1
      BY <2>2, <3>1
    <3>3. g[k] = JoinStep(f, seqs, k)
      BY <3>2
    <3>4. f[k] = JoinStep(f, seqs, k)
      BY <3>2 DEF Joins
    <3>5. g[k] = f[k]
      BY <3>3, <3>4, Zenon
    <3> HIDE DEF g
    <3> QED
      BY <2>2, <3>1, <3>5 DEF JoinStep
  <2> QED
    BY <2>1, <2>2
<1>2. g = [i \in 1 .. n + 1 |-> JoinStep(g, seqs, i)]
  BY <1>1
<1> QED
  BY <1>2 DEF Joins

LEMMA JoinsExist ==
  ASSUME NEW seqs
  PROVE  \A n \in Nat : \E f : Joins(f, seqs, n)
<1> DEFINE Missing == {n \in Nat : ~ \E f : Joins(f, seqs, n)}
<1>1. SUFFICES ASSUME Missing # {} PROVE FALSE
  OBVIOUS
<1>2. PICK m \in Missing : \A n \in Missing : m <= n
  BY <1>1, LeastOf
<1>3. \E f : Joins(f, seqs, 0)
  <2>1. 1 .. 0 = {}
    OBVIOUS
  <2>2. [i \in {} |-> 0] = [i \in {} |-> JoinStep([j \in {} |-> 0], seqs, i)]
    OBVIOUS
  <2> QED
    BY <2>1, <2>2 DEF Joins
<1>4. m # 0 /\ m \in Nat
  BY <1>3
<1>5. m - 1 \in Nat /\ m - 1 \notin Missing
  BY <1>2, <1>4
<1>6. PICK f : Joins(f, seqs, m - 1)
  BY <1>5
<1>7. \E g : Joins(g, seqs, (m - 1) + 1)
  BY <1>5, <1>6, JoinsExtend
<1>8. (m - 1) + 1 = m
  BY <1>4
<1> QED
  BY <1>7, <1>8

LEMMA FlattenIsJoined ==
  ASSUME NEW seqs, Len(seqs) \in Nat \ {0}
  PROVE  \E f : Joins(f, seqs, Len(seqs)) /\ FlattenSeq(seqs) = f[Len(seqs)]
<1>1. \E f : f = [i \in 1 .. Len(seqs) |-> IF i = 1 THEN seqs[i] ELSE f[i - 1] \o seqs[i]]
  BY JoinsExist DEF Joins, JoinStep
<1> DEFINE F == CHOOSE f : f = [i \in 1 .. Len(seqs) |->
                                  IF i = 1 THEN seqs[i] ELSE f[i - 1] \o seqs[i]]
<1>2. F = [i \in 1 .. Len(seqs) |-> IF i = 1 THEN seqs[i] ELSE F[i - 1] \o seqs[i]]
  BY <1>1, Zenon
<1>3. FlattenSeq(seqs) = F[Len(seqs)]
  BY DEF FlattenSeq
<1> HIDE DEF F
<1> QED
  BY <1>2, <1>3 DEF Joins, JoinStep


\* The i-th sequence stands at st[i - 1] + 1 .. st[i] of the joined one.
IsLayout(st, seqs, n) ==
  /\ st[0] = 0
  /\ \A i \in 1 .. n : st[i] = st[i - 1] + Len(seqs[i])
  /\ \A i, k \in 0 .. n : i <= k => st[i] <= st[k]
  /\ Len(FlattenSeq(seqs)) = st[n]
  /\ \A i \in 1 .. n : \A j \in 1 .. Len(seqs[i]) :
       /\ st[i - 1] + j \in 1 .. st[n]
       /\ FlattenSeq(seqs)[st[i - 1] + j] = seqs[i][j]
  /\ \A m \in 1 .. st[n] : \E i \in 1 .. n : st[i - 1] < m /\ m <= st[i]

LEMMA FlattenPlaces ==
  ASSUME NEW S, NEW seqs, NEW n \in Nat, seqs \in [1 .. n -> Seq(S)]
  PROVE  FlattenSeq(seqs) \in Seq(S) /\ \E st \in [0 .. n -> Nat] : IsLayout(st, seqs, n)
<1>1. Len(seqs) = n /\ seqs \in Seq(Seq(S))
  <2>1. seqs \in Seq(Seq(S))
    BY SeqDef
  <2> QED
    BY <2>1
<1>2. CASE n = 0
  <2>1. FlattenSeq(seqs) = seqs
    BY <1>1, <1>2 DEF FlattenSeq
  <2>2. seqs = <<>>
    BY <1>1, <1>2, EmptySeq
  <2>3. FlattenSeq(seqs) \in Seq(S) /\ Len(FlattenSeq(seqs)) = 0
    BY <2>1, <2>2, EmptySeq
  <2> DEFINE st == [i \in 0 .. n |-> 0]
  <2>4. st \in [0 .. n -> Nat] /\ st[0] = 0 /\ st[n] = 0
    OBVIOUS
  <2>5. \A i \in 0 .. n : st[i] = 0
    OBVIOUS
  <2> HIDE DEF st
  <2>6. \A i, k \in 0 .. n : i <= k => st[i] <= st[k]
    BY <2>5
  <2> QED
    BY <1>2, <2>3, <2>4, <2>6 DEF IsLayout
<1>3. CASE n # 0
  <2>1. PICK f : Joins(f, seqs, n) /\ FlattenSeq(seqs) = f[n]
    BY <1>1, <1>3, FlattenIsJoined
  <2>2. ASSUME NEW k \in 1 .. n
        PROVE  /\ seqs[k] \in Seq(S)
               /\ k = 1 => f[k] = seqs[k]
               /\ k # 1 => f[k] = f[k - 1] \o seqs[k]
    BY <2>1 DEF Joins, JoinStep
  <2> DEFINE Begins(s, t) == Len(s) <= Len(t) /\ \A m \in 1 .. Len(s) : t[m] = s[m]
             Right(k) == f[k] \in Seq(S) /\ \A i \in 1 .. k : Begins(f[i], f[k])
             Wrong == {k \in 1 .. n : ~ Right(k)}
  <2>3. ASSUME Wrong # {} PROVE FALSE
    <3>1. PICK k \in Wrong : \A l \in Wrong : k <= l
      <4>1. Wrong \subseteq Nat
        OBVIOUS
      <4> QED
        BY <2>3, <4>1, LeastOf
    <3>2. k \in 1 .. n /\ ~ Right(k)
      BY <3>1
    <3>3. CASE k = 1
      <4>1. f[k] \in Seq(S)
        BY <2>2, <3>2, <3>3
      <4>2. \A i \in 1 .. k : i = k
        BY <3>3
      <4>3. Len(f[k]) \in Nat
        BY <4>1, LenProperties
      <4>4. ASSUME NEW i \in 1 .. k
            PROVE  Begins(f[i], f[k])
        <5>1. i = k
          BY <4>2
        <5> QED
          BY <4>3, <5>1
      <4>5. Right(k)
        BY <4>1, <4>4
      <4> QED
        BY <3>2, <4>5
    <3>4. CASE k # 1
      <4>1. PICK p : p = k - 1
        OBVIOUS
      <4>2. p \in 1 .. n /\ p < k
        BY <3>2, <3>4, <4>1
      <4>3. Right(p)
        <5>1. ~ (k <= p)
          BY <3>2, <4>2
        <5>2. p \notin Wrong
          BY <3>1, <5>1, Zenon
        <5> QED
          BY <4>2, <5>2
      <4>4. f[k] = f[p] \o seqs[k] /\ seqs[k] \in Seq(S) /\ f[p] \in Seq(S)
        BY <2>2, <3>2, <3>4, <4>1, <4>3
      <4>5. /\ f[k] \in Seq(S) /\ Len(f[k]) = Len(f[p]) + Len(seqs[k])
            /\ \A i \in 1 .. Len(f[p]) + Len(seqs[k]) :
                 f[k][i] = IF i <= Len(f[p]) THEN f[p][i] ELSE seqs[k][i - Len(f[p])]
        BY <4>4, ConcatProperties
      <4>6. Len(f[p]) \in Nat /\ Len(seqs[k]) \in Nat
        BY <4>4, LenProperties
      <4>7. Begins(f[p], f[k]) /\ Begins(f[k], f[k])
        <5>1. ASSUME NEW m \in 1 .. Len(f[p])
              PROVE  f[k][m] = f[p][m]
          <6>1. m \in 1 .. Len(f[p]) + Len(seqs[k]) /\ m <= Len(f[p])
            BY <4>6
          <6> QED
            BY <4>5, <6>1
        <5>2. Len(f[p]) <= Len(f[k]) /\ Len(f[k]) <= Len(f[k])
          BY <4>5, <4>6
        <5> QED
          BY <5>1, <5>2
      <4>8. ASSUME NEW i \in 1 .. k
            PROVE  Begins(f[i], f[k])
        <5>1. CASE i = k
          BY <4>7, <5>1
        <5>2. CASE i # k
          <6>1. i \in 1 .. p
            BY <3>2, <4>1, <5>2
          <6>2. Begins(f[i], f[p])
            BY <4>3, <6>1
          <6>3. i \in 1 .. n
            BY <4>2, <6>1
          <6>4. f[i] \in Seq(S)
            <7>1. ~ (k <= i)
              BY <3>2, <5>2
            <7>2. i \notin Wrong
              BY <3>1, <7>1, Zenon
            <7> QED
              BY <6>3, <7>2
          <6>5. Len(f[i]) \in Nat /\ Len(f[k]) \in Nat
            BY <4>5, <6>4, LenProperties
          <6>6. \A m \in 1 .. Len(f[i]) : m \in 1 .. Len(f[p])
            BY <4>6, <6>2, <6>5
          <6> QED
            BY <4>6, <4>7, <6>2, <6>5, <6>6
        <5> QED
          BY <5>1, <5>2
      <4> QED
        BY <3>2, <4>5, <4>8
    <3> QED
      BY <3>3, <3>4
  <2>4. \A k \in 1 .. n : Right(k)
    BY <2>3
  <2> DEFINE st == [i \in 0 .. n |-> IF i = 0 THEN 0 ELSE Len(f[i])]
  <2>5. /\ st \in [0 .. n -> Nat] /\ st[0] = 0
        /\ \A i \in 1 .. n : st[i] = Len(f[i]) /\ f[i] \in Seq(S)
    <3>1. \A i \in 1 .. n : f[i] \in Seq(S) /\ Len(f[i]) \in Nat
      BY <2>4, LenProperties
    <3> QED
      BY <3>1
  <2>6. \A k \in 1 .. n : \A i \in 1 .. k : Begins(f[i], f[k])
    BY <2>4
  <2> HIDE DEF st, Right, Wrong
  <2>7. ASSUME NEW i \in 1 .. n
        PROVE  /\ st[i] = st[i - 1] + Len(seqs[i]) /\ Len(seqs[i]) \in Nat
               /\ \A j \in 1 .. Len(seqs[i]) : f[i][st[i - 1] + j] = seqs[i][j]
    <3>1. seqs[i] \in Seq(S) /\ Len(seqs[i]) \in Nat
      BY <2>2, LenProperties
    <3>2. CASE i = 1
      <4>1. f[i] = seqs[i] /\ st[i - 1] = 0 /\ st[i] = Len(f[i])
        BY <2>2, <2>5, <3>2
      <4> QED
        BY <3>1, <4>1
    <3>3. CASE i # 1
      <4>1. PICK p : p = i - 1
        OBVIOUS
      <4>2. p \in 1 .. n /\ st[p] = Len(f[p]) /\ f[p] \in Seq(S) /\ st[i] = Len(f[i])
        BY <2>5, <3>3, <4>1
      <4>3. f[i] = f[p] \o seqs[i]
        BY <2>2, <3>3, <4>1
      <4>4. /\ Len(f[i]) = Len(f[p]) + Len(seqs[i])
            /\ \A m \in 1 .. Len(f[p]) + Len(seqs[i]) :
                 f[i][m] = IF m <= Len(f[p]) THEN f[p][m] ELSE seqs[i][m - Len(f[p])]
        BY <3>1, <4>2, <4>3, ConcatProperties
      <4>5. Len(f[p]) \in Nat
        BY <4>2, LenProperties
      <4>6. ASSUME NEW j \in 1 .. Len(seqs[i])
            PROVE  f[i][Len(f[p]) + j] = seqs[i][j]
        <5>1. PICK m : m = Len(f[p]) + j
          OBVIOUS
        <5>2. m \in 1 .. Len(f[p]) + Len(seqs[i]) /\ ~ (m <= Len(f[p])) /\ m - Len(f[p]) = j
          BY <3>1, <4>5, <5>1
        <5> QED
          BY <4>4, <5>1, <5>2
      <4> QED
        BY <3>1, <4>1, <4>2, <4>4, <4>6
    <3> QED
      BY <3>2, <3>3
  <2>8. ASSUME NEW i \in 0 .. n, NEW k \in 0 .. n, i <= k
        PROVE  st[i] <= st[k]
    <3>1. CASE i = 0
      BY <2>5, <3>1
    <3>2. CASE i # 0
      <4>1. k \in 1 .. n /\ i \in 1 .. k /\ i \in 1 .. n
        BY <2>8, <3>2
      <4> QED
        BY <2>5, <2>6, <4>1
    <3> QED
      BY <3>1, <3>2
  <2>9. n \in 1 .. n /\ n \in 0 .. n
    BY <1>3
  <2>10. FlattenSeq(seqs) \in Seq(S) /\ Len(FlattenSeq(seqs)) = st[n]
    BY <2>1, <2>5, <2>9
  <2>11. ASSUME NEW i \in 1 .. n, NEW j \in 1 .. Len(seqs[i])
         PROVE  /\ st[i - 1] + j \in 1 .. st[n]
                /\ FlattenSeq(seqs)[st[i - 1] + j] = seqs[i][j]
    <3>1. PICK m : m = st[i - 1] + j
      OBVIOUS
    <3>2. i - 1 \in 0 .. n /\ i \in 0 .. n /\ st[i - 1] \in Nat /\ st[i] \in Nat /\ st[n] \in Nat
      BY <2>5, <2>9
    <3>3. st[i] <= st[n]
      BY <2>8, <2>9, <3>2
    <3>4. m \in 1 .. st[i] /\ m \in 1 .. st[n] /\ f[i][m] = seqs[i][j]
      BY <2>7, <3>1, <3>2, <3>3
    <3>5. i \in 1 .. n /\ m \in 1 .. Len(f[i])
      BY <2>5, <3>4
    <3>6. f[n][m] = f[i][m]
      BY <2>6, <2>9, <3>5
    <3> QED
      BY <2>1, <3>1, <3>4, <3>6
  <2>12. ASSUME NEW m \in 1 .. st[n]
         PROVE  \E i \in 1 .. n : st[i - 1] < m /\ m <= st[i]
    <3> DEFINE T == {i \in 1 .. n : m <= st[i]}
    <3>1. n \in T /\ T \subseteq Nat
      BY <2>5, <2>9
    <3>2. PICK i \in T : \A k \in T : i <= k
      BY <3>1, LeastOf
    <3>3. i \in 1 .. n /\ m <= st[i]
      BY <3>2
    <3>4. i - 1 \in 0 .. n /\ st[i - 1] \in Nat
      BY <2>5, <3>3
    <3>5. CASE i = 1
      BY <2>5, <3>3, <3>5
    <3>6. CASE i # 1
      <4>1. i - 1 \in 1 .. n /\ ~ (i <= i - 1)
        BY <3>3, <3>6
      <4>2. i - 1 \notin T
        BY <3>2, <4>1
      <4> QED
        BY <2>5, <2>9, <3>3, <3>4, <4>1, <4>2
    <3> QED
      BY <3>5, <3>6
  <2> QED
    BY <2>5, <2>7, <2>8, <2>10, <2>11, <2>12 DEF IsLayout
<1> QED
  BY <1>2, <1>3

-----------------------------------------------------------------------------
(***************************************************************************)
(* The instructions of a function in order, each once.                     *)
(***************************************************************************)
IsPlaceIn(f, p) == /\ p = <<p[1], p[2]>> /\ p[1] \in DOMAIN f.blocks
                   /\ p[2] \in DOMAIN f.blocks[p[1]]

LEMMA SequenceFacts ==
  ASSUME NEW s, IsSequence(s)
  PROVE  Len(s) \in Nat /\ DOMAIN s = 1 .. Len(s)
BY LenProperties DEF IsSequence

LEMMA RangeEnds ==
  ASSUME NEW m \in Nat, NEW n \in Nat, 1 .. m = 1 .. n
  PROVE  m = n
<1>1. ~ (m < n)
  BY n \in 1 .. n \/ n = 0
<1>2. ~ (n < m)
  BY m \in 1 .. m \/ m = 0
<1> QED
  BY <1>1, <1>2

LEMMA PlacesFacts ==
  ASSUME NEW f, IsFunction(f)
  PROVE  /\ N!All(f) \in Nat /\ DOMAIN N!Places(f) = 1 .. N!All(f)
         /\ \A m \in 1 .. N!All(f) : IsPlaceIn(f, N!Places(f)[m])
         /\ \A l, m \in 1 .. N!All(f) : N!Places(f)[l] = N!Places(f)[m] => l = m
<1> DEFINE n == Len(f.blocks)
           seqs == [b \in DOMAIN f.blocks |-> [i \in DOMAIN f.blocks[b] |-> <<b, i>>]]
           S == Nat \X Nat
           F == FlattenSeq(seqs)
<1>1. n \in Nat /\ DOMAIN f.blocks = 1 .. n
  BY SequenceFacts DEF IsFunction
<1>2. ASSUME NEW b \in 1 .. n
      PROVE  /\ Len(f.blocks[b]) \in Nat /\ DOMAIN f.blocks[b] = 1 .. Len(f.blocks[b])
             /\ seqs[b] \in Seq(S) /\ Len(seqs[b]) = Len(f.blocks[b])
             /\ \A i \in 1 .. Len(f.blocks[b]) : seqs[b][i] = <<b, i>>
  <2>1. IsSequence(f.blocks[b])
    BY <1>1 DEF IsFunction
  <2>2. Len(f.blocks[b]) \in Nat /\ DOMAIN f.blocks[b] = 1 .. Len(f.blocks[b])
    BY <2>1, SequenceFacts
  <2>3. seqs[b] = [i \in 1 .. Len(f.blocks[b]) |-> <<b, i>>]
    BY <1>1, <2>2
  <2>4. seqs[b] \in [1 .. Len(f.blocks[b]) -> S]
    BY <2>2, <2>3
  <2>5. PICK k \in Nat : k = Len(f.blocks[b])
    BY <2>2
  <2>6. seqs[b] \in [1 .. k -> S]
    BY <2>4, <2>5
  <2>7. seqs[b] \in Seq(S)
    BY <2>5, <2>6, SeqDef
  <2>8. Len(seqs[b]) = Len(f.blocks[b])
    <3>1. DOMAIN seqs[b] = 1 .. k /\ DOMAIN seqs[b] = 1 .. Len(seqs[b]) /\ Len(seqs[b]) \in Nat
      BY <2>6, <2>7, LenProperties
    <3> QED
      BY <2>5, <3>1, RangeEnds
  <2> QED
    BY <2>2, <2>3, <2>7, <2>8
<1>3. N!Places(f) = F /\ N!All(f) = Len(F)
  <2>1. N!Places(f) = F
    BY DEF N!Places, N!FlattenSeq, FlattenSeq
  <2>2. N!All(f) = Len(N!Places(f))
    BY DEF N!All
  <2> QED
    BY <2>1, <2>2
<1>4. DOMAIN seqs = 1 .. n
  BY <1>1
<1> HIDE DEF seqs, S, n, F
<1>5. seqs \in [1 .. n -> Seq(S)]
  <2>1. \A b \in 1 .. n : seqs[b] \in Seq(S)
    BY <1>2
  <2>2. seqs = [b \in 1 .. n |-> seqs[b]]
    BY <1>4 DEF seqs, n
  <2> QED
    BY <2>1, <2>2
<1>6. FlattenSeq(seqs) \in Seq(S) /\ \E st \in [0 .. n -> Nat] : IsLayout(st, seqs, n)
  BY <1>1, <1>5, FlattenPlaces, Zenon
<1>7. PICK st \in [0 .. n -> Nat] : IsLayout(st, seqs, n)
  BY <1>6
<1>8. N!All(f) \in Nat /\ DOMAIN N!Places(f) = 1 .. N!All(f) /\ N!All(f) = st[n]
  <2>1. DOMAIN F = 1 .. Len(F) /\ Len(F) \in Nat /\ Len(F) = st[n]
    BY <1>6, <1>7, LenProperties DEF F, IsLayout
  <2> QED
    BY <1>3, <2>1
<1>9. ASSUME NEW m \in 1 .. N!All(f)
      PROVE  \E b \in 1 .. n : \E i \in 1 .. Len(f.blocks[b]) :
               m = st[b - 1] + i /\ N!Places(f)[m] = <<b, i>>
  <2>1. PICK b \in 1 .. n : st[b - 1] < m /\ m <= st[b]
    BY <1>7, <1>8 DEF IsLayout
  <2>2. PICK i : i = m - st[b - 1]
    OBVIOUS
  <2>3. b - 1 \in 0 .. n /\ st[b - 1] \in Nat
    BY <1>1, <2>1 DEF n
  <2>4. i \in 1 .. Len(seqs[b]) /\ m = st[b - 1] + i
    BY <1>2, <1>7, <1>8, <2>1, <2>2, <2>3 DEF IsLayout
  <2>5. F[m] = seqs[b][i]
    BY <1>7, <2>4 DEF F, IsLayout
  <2> QED
    BY <1>2, <1>3, <2>4, <2>5
<1>10. ASSUME NEW m \in 1 .. N!All(f)
      PROVE  IsPlaceIn(f, N!Places(f)[m])
  <2>1. PICK b \in 1 .. n : \E i \in 1 .. Len(f.blocks[b]) : N!Places(f)[m] = <<b, i>>
    BY <1>9
  <2>2. PICK i \in 1 .. Len(f.blocks[b]) : N!Places(f)[m] = <<b, i>>
    BY <2>1
  <2> QED
    BY <1>1, <1>2, <2>2 DEF IsPlaceIn
<1>11. ASSUME NEW l \in 1 .. N!All(f), NEW m \in 1 .. N!All(f),
              N!Places(f)[l] = N!Places(f)[m]
       PROVE  l = m
  <2>1. \E b \in 1 .. n : \E i \in 1 .. Len(f.blocks[b]) :
          l = st[b - 1] + i /\ N!Places(f)[l] = <<b, i>>
    BY <1>9
  <2>2. \E c \in 1 .. n : \E j \in 1 .. Len(f.blocks[c]) :
          m = st[c - 1] + j /\ N!Places(f)[m] = <<c, j>>
    BY <1>9
  <2>3. PICK b, i : l = st[b - 1] + i /\ N!Places(f)[l] = <<b, i>>
    BY <2>1
  <2>4. PICK c, j : m = st[c - 1] + j /\ N!Places(f)[m] = <<c, j>>
    BY <2>2
  <2>5. b = c /\ i = j
    BY <1>11, <2>3, <2>4
  <2> QED
    BY <2>3, <2>4, <2>5
<1> QED
  BY <1>8, <1>10, <1>11

-----------------------------------------------------------------------------
(***************************************************************************)
(* Numbering.  A set has been numbered from 1 to c; M, positions up to n,  *)
(* stands for new elements, which get the numbers from c + 1 on.           *)
(***************************************************************************)
IsNumbering(rank, A, c) ==
  rank \in [A -> 1 .. c] /\ \A p, q \in A : rank[p] = rank[q] => p = q

Before(M, n) == {j \in M : j <= n}

\* The set B of elements place[j], j in M.
IsAddition(A, B, c, rank, n, M, place) ==
  /\ c \in Nat /\ IsNumbering(rank, A, c) /\ IsFiniteSet(A) /\ Cardinality(A) = c
  /\ A \cap B = {} /\ B = {place[j] : j \in M}
  /\ n \in Nat /\ M \in SUBSET (1 .. n)
  /\ \A i, j \in M : place[i] = place[j] => i = j

Adds(A, B, c, rank, M, place) ==
  /\ IsFiniteSet(A \cup B) /\ Cardinality(A \cup B) = c + Cardinality(M)
  /\ Cardinality(M) \in Nat
  /\ \E r : /\ IsNumbering(r, A \cup B, c + Cardinality(M))
            /\ \A p \in A : r[p] = rank[p]
            /\ \A j \in M : r[place[j]] = c + Cardinality(Before(M, j))

LEMMA NumberingExtends ==
  ASSUME NEW A, NEW B, NEW c, NEW rank, NEW n, NEW M, NEW place,
         IsAddition(A, B, c, rank, n, M, place)
  PROVE  Adds(A, B, c, rank, M, place)
<1> USE DEF IsAddition
<1>1. IsFiniteSet(M) /\ Cardinality(M) \in Nat
  <2>1. IsFiniteSet(1 .. n)
    BY FS_Interval
  <2>2. IsFiniteSet(M)
    BY <2>1, FS_Subset
  <2> QED
    BY <2>2, FS_CardinalityType
<1>2. IsFiniteSet(B) /\ Cardinality(B) = Cardinality(M)
  <2> DEFINE b == [j \in M |-> place[j]]
  <2>1. b \in Bijection(M, B)
    BY DEF Bijection, Injection, Surjection, IsInjective
  <2> QED
    BY <1>1, <2>1, FS_Bijection DEF ExistsBijection
<1>3. IsFiniteSet(A \cup B) /\ Cardinality(A \cup B) = c + Cardinality(M)
  <2>1. Cardinality(A \cap B) = 0
    BY FS_EmptySet
  <2>2. /\ IsFiniteSet(A \cup B)
        /\ Cardinality(A \cup B) = Cardinality(A) + Cardinality(B) - Cardinality(A \cap B)
    BY <1>2, FS_Union
  <2> QED
    BY <1>1, <1>2, <2>1, <2>2
<1> DEFINE at(p) == CHOOSE j \in M : place[j] = p
           r == [p \in A \cup B |-> IF p \in A THEN rank[p] ELSE c + Cardinality(Before(M, at(p)))]
<1>4. ASSUME NEW j \in M
      PROVE  at(place[j]) = j /\ place[j] \in B /\ place[j] \notin A
  <2>1. at(place[j]) \in M /\ place[at(place[j])] = place[j]
    BY Zenon
  <2>2. at(place[j]) = j
    BY <2>1
  <2> QED
    BY <2>2
<1>5. \A p \in B : at(p) \in M /\ place[at(p)] = p /\ p \notin A
  BY <1>4
<1> HIDE DEF at
<1>6. ASSUME NEW j \in M
      PROVE  /\ Cardinality(Before(M, j)) \in 1 .. Cardinality(M)
             /\ \A i \in M : i < j => Cardinality(Before(M, i)) < Cardinality(Before(M, j))
  <2>1. Before(M, j) \subseteq M /\ j \in Before(M, j)
    BY DEF Before
  <2>2. /\ IsFiniteSet(Before(M, j)) /\ Cardinality(Before(M, j)) \in Nat
        /\ Cardinality(Before(M, j)) <= Cardinality(M)
    BY <1>1, <2>1, FS_Subset, FS_CardinalityType
  <2>3. Cardinality(Before(M, j)) # 0
    BY <2>1, <2>2, FS_EmptySet
  <2>4. ASSUME NEW i \in M, i < j
        PROVE  Cardinality(Before(M, i)) < Cardinality(Before(M, j))
    <3>1. Before(M, i) \subseteq Before(M, j) /\ j \notin Before(M, i)
      <4>1. \A k \in M : k \in 1 .. n
        OBVIOUS
      <4>2. \A k \in M : k <= i => k <= j
        BY <2>4, <4>1
      <4>3. ~ (j <= i)
        BY <2>4, <4>1
      <4> QED
        BY <4>2, <4>3 DEF Before
    <3>2. Before(M, i) # Before(M, j)
      BY <2>1, <3>1
    <3>3. /\ IsFiniteSet(Before(M, i)) /\ Cardinality(Before(M, i)) <= Cardinality(Before(M, j))
          /\ Cardinality(Before(M, i)) # Cardinality(Before(M, j))
      BY <2>2, <3>1, <3>2, FS_Subset
    <3>4. Cardinality(Before(M, i)) \in Nat
      BY <3>3, FS_CardinalityType
    <3> QED
      BY <2>2, <3>3, <3>4
  <2> QED
    BY <1>1, <2>2, <2>3, <2>4
<1>7. r \in [A \cup B -> 1 .. c + Cardinality(M)]
  <2>1. \A p \in A : rank[p] \in 1 .. c + Cardinality(M)
    BY <1>1 DEF IsNumbering
  <2>2. \A p \in B : c + Cardinality(Before(M, at(p))) \in 1 .. c + Cardinality(M)
    <3>1. ASSUME NEW p \in B PROVE Cardinality(Before(M, at(p))) \in 1 .. Cardinality(M)
      <4>1. at(p) \in M
        BY <1>5, Zenon
      <4> QED
        BY <1>6, <4>1
    <3> QED
      BY <1>1, <3>1
  <2> QED
    BY <2>1, <2>2
<1>8. ASSUME NEW p \in A \cup B, NEW q \in A \cup B, r[p] = r[q]
      PROVE  p = q
  <2>1. \A x \in A : r[x] = rank[x] /\ rank[x] \in 1 .. c
    BY DEF IsNumbering
  <2>2. \A x \in B : r[x] = c + Cardinality(Before(M, at(x))) /\ r[x] \in Nat /\ r[x] > c
    <3> SUFFICES ASSUME NEW x \in B
                 PROVE  r[x] = c + Cardinality(Before(M, at(x))) /\ r[x] \in Nat /\ r[x] > c
      OBVIOUS
    <3>1. at(x) \in M /\ x \notin A
      BY <1>5, Zenon
    <3>2. Cardinality(Before(M, at(x))) \in 1 .. Cardinality(M)
      BY <1>6, <3>1
    <3> QED
      BY <1>1, <3>1, <3>2
  <2>3. CASE p \in A /\ q \in A
    BY <1>8, <2>1, <2>3 DEF IsNumbering
  <2>4. CASE p \in B /\ q \in B
    <3>1. at(p) \in M /\ at(q) \in M
      BY <1>5, <2>4, Zenon
    <3>2. at(p) \in Nat /\ at(q) \in Nat
      <4>1. \A j \in M : j \in Nat
        OBVIOUS
      <4> QED
        BY <3>1, <4>1
    <3>3. Cardinality(Before(M, at(p))) = Cardinality(Before(M, at(q)))
      <4>1. /\ Cardinality(Before(M, at(p))) \in 1 .. Cardinality(M)
            /\ Cardinality(Before(M, at(q))) \in 1 .. Cardinality(M)
        BY <1>6, <3>1, Zenon
      <4>2. /\ r[p] = c + Cardinality(Before(M, at(p)))
            /\ r[q] = c + Cardinality(Before(M, at(q)))
        BY <2>2, <2>4, Zenon
      <4> QED
        BY <1>1, <1>8, <4>1, <4>2
    <3>4. ~ (at(p) < at(q)) /\ ~ (at(q) < at(p))
      BY <1>1, <1>6, <3>3, <3>1, <3>2
    <3>5. at(p) = at(q)
      BY <3>4, <3>2
    <3> QED
      BY <1>5, <2>4, <3>5
  <2>5. \A x \in A, y \in B : r[x] # r[y]
    <3> SUFFICES ASSUME NEW x \in A, NEW y \in B PROVE r[x] # r[y]
      OBVIOUS
    <3>1. r[x] \in 1 .. c
      BY <2>1, Zenon
    <3>2. r[y] \in Nat /\ r[y] > c
      BY <2>2, Zenon
    <3> QED
      BY <3>1, <3>2
  <2> QED
    BY <1>8, <2>3, <2>4, <2>5
<1>9. \A p \in A : r[p] = rank[p]
  OBVIOUS
<1>10. \A j \in M : r[place[j]] = c + Cardinality(Before(M, j))
  BY <1>4
<1> HIDE DEF r
<1>11. IsNumbering(r, A \cup B, c + Cardinality(M))
  BY <1>7, <1>8 DEF IsNumbering
<1> QED
  BY <1>1, <1>3, <1>9, <1>10, <1>11 DEF Adds

-----------------------------------------------------------------------------
(***************************************************************************)
(* Numbers modulo 2^16.                                                    *)
(***************************************************************************)
LEMMA ModKeepsParity ==
  ASSUME NEW m \in Nat \ {0}, m % 2 = 0, NEW x \in Nat
  PROVE  (x % m) % 2 = x % 2
<1>1. PICK h \in Nat : m = 2 * h
  <2>1. m = 2 * (m \div 2) /\ m \div 2 \in Nat
    OBVIOUS
  <2> QED
    BY <2>1
<1>2. PICK q, r : q = x \div m /\ r = x % m
  OBVIOUS
<1>3. x = m * q + r /\ q \in Nat /\ r \in Nat
  BY <1>2
<1>4. PICK k \in Nat : k = h * q
  BY <1>1, <1>3
<1>5. m * q = 2 * k
  BY <1>1, <1>3, <1>4
<1>6. x = 2 * k + r
  BY <1>3, <1>5
<1>7. x % 2 = r % 2
  BY <1>3, <1>4, <1>6
<1> QED
  BY <1>2, <1>7

LEMMA ModIsInjective ==
  ASSUME NEW m \in Nat \ {0}, NEW x \in 1 .. m, NEW y \in 1 .. m, x % m = y % m
  PROVE  x = y
<1>1. \A z \in 1 .. m : z = m \/ z < m
  OBVIOUS
<1>2. m % m = 0
  OBVIOUS
<1>3. \A z \in 1 .. m : z < m => z % m = z
  OBVIOUS
<1>4. (x = m => x % m = 0) /\ (y = m => y % m = 0)
  BY <1>2
<1>5. (x < m => x % m = x) /\ (y < m => y % m = y)
  BY <1>3
<1> QED
  BY <1>1, <1>4, <1>5

-----------------------------------------------------------------------------
(***************************************************************************)
(* The numbers of instructions.                                            *)
(***************************************************************************)
NumberOf(kind, r) ==
  CASE kind = "load"  -> 2 * r
    [] kind = "store" -> 2 * r + 1
    [] OTHER          -> r

\* The accesses of a kind are numbered from 1 to the count of that kind.
KindNumbered(kind, count) ==
  /\ count \in Nat /\ IsFiniteSet(Of(kind)) /\ Cardinality(Of(kind)) = count
  /\ \E rank : /\ IsNumbering(rank, Of(kind), count)
               /\ \A p \in Of(kind) : namer[p].instr = NumberOf(kind, rank[p]) % IdMod

\* All instructions are; the others have the number in their metadata.
AllNumbered ==
  /\ instructionCount \in Nat
  /\ IsFiniteSet(DOMAIN namer) /\ Cardinality(DOMAIN namer) = instructionCount
  /\ \E rank : /\ IsNumbering(rank, DOMAIN namer, instructionCount)
               /\ \A p \in Of("other") : namer[p].instr = rank[p] % IdMod

NamerInv ==
  /\ unit \in Units /\ named \in 0 .. Len(Functions)
  /\ contextCount \in Nat /\ basicBlockCount \in Nat
  /\ \A p \in DOMAIN namer : p[1] \in 1 .. named
  /\ KindNumbered("load", loadCount) /\ KindNumbered("store", storeCount)
  /\ AllNumbered

\* Numbers that differ as long as they do not wrap are ids that differ.
LEMMA IdsAreUnique == NamerInv => InstructionIdsUnique
<1> SUFFICES ASSUME NamerInv PROVE InstructionIdsUnique
  OBVIOUS
<1> USE UnitsAssumption
<1>1. IdMod \in Nat \ {0} /\ IdMod % 2 = 0
  OBVIOUS
<1>2. PICK ld : /\ IsNumbering(ld, Of("load"), loadCount)
                /\ \A p \in Of("load") : namer[p].instr = (2 * ld[p]) % IdMod
  BY DEF NamerInv, KindNumbered, NumberOf
<1>3. PICK sr : /\ IsNumbering(sr, Of("store"), storeCount)
                /\ \A p \in Of("store") : namer[p].instr = (2 * sr[p] + 1) % IdMod
  BY DEF NamerInv, KindNumbered, NumberOf
<1>4. PICK rk : /\ IsNumbering(rk, DOMAIN namer, instructionCount)
                /\ \A p \in Of("other") : namer[p].instr = rk[p] % IdMod
  BY DEF NamerInv, AllNumbered
<1>5. /\ loadCount \in Nat /\ storeCount \in Nat /\ instructionCount \in Nat
      /\ Cardinality(Of("load")) = loadCount /\ Cardinality(Of("store")) = storeCount
  BY DEF NamerInv, KindNumbered, AllNumbered
<1>6. ASSUME NEW p \in Of("load"), NEW q \in Of("store")
      PROVE  N!getInstrId(namer[p]) # N!getInstrId(namer[q])
  <2>1. PICK x \in Nat, y \in Nat : x = ld[p] /\ y = sr[q]
    BY <1>2, <1>3, <1>5 DEF IsNumbering
  <2>2. PICK u \in Nat, v \in Nat : u = 2 * x /\ v = 2 * y + 1
    OBVIOUS
  <2>3. u % 2 = 0 /\ v % 2 = 1
    BY <2>2
  <2>4. (u % IdMod) % 2 = u % 2 /\ (v % IdMod) % 2 = v % 2
    BY <1>1, ModKeepsParity
  <2>5. namer[p].instr = u % IdMod /\ namer[q].instr = v % IdMod
    BY <1>2, <1>3, <2>1, <2>2
  <2> QED
    BY <2>3, <2>4, <2>5 DEF N!getInstrId
<1>7. ASSUME 2 * Cardinality(Of("load")) <= IdMod, NEW p \in Of("load"), NEW q \in Of("load"),
             N!getInstrId(namer[p]) = N!getInstrId(namer[q])
      PROVE  p = q
  <2>1. ld[p] \in 1 .. loadCount /\ ld[q] \in 1 .. loadCount
    BY <1>2 DEF IsNumbering
  <2>2. 2 * ld[p] \in 1 .. IdMod /\ 2 * ld[q] \in 1 .. IdMod
    BY <1>1, <1>5, <1>7, <2>1
  <2>3. (2 * ld[p]) % IdMod = (2 * ld[q]) % IdMod
    BY <1>2, <1>7 DEF N!getInstrId
  <2>4. 2 * ld[p] = 2 * ld[q]
    BY <1>1, <2>2, <2>3, ModIsInjective
  <2>5. ld[p] = ld[q]
    BY <1>5, <2>1, <2>4
  <2> QED
    BY <1>2, <2>5 DEF IsNumbering
<1>8. ASSUME 2 * Cardinality(Of("store")) <= IdMod, NEW p \in Of("store"), NEW q \in Of("store"),
             N!getInstrId(namer[p]) = N!getInstrId(namer[q])
      PROVE  p = q
  <2>1. sr[p] \in 1 .. storeCount /\ sr[q] \in 1 .. storeCount
    BY <1>3 DEF IsNumbering
  <2>2. ((2 * sr[p] + 1) % IdMod) = ((2 * sr[q] + 1) % IdMod)
    BY <1>3, <1>8 DEF N!getInstrId
  <2>3. 2 * sr[p] \in 1 .. IdMod /\ 2 * sr[q] \in 1 .. IdMod
    BY <1>1, <1>5, <1>8, <2>1
  <2>4. PICK x, y : x = 2 * sr[p] /\ y = 2 * sr[q]
    OBVIOUS
  <2>5. x \in 1 .. IdMod /\ y \in 1 .. IdMod /\ (x + 1) % IdMod = (y + 1) % IdMod
        /\ x % 2 = 0 /\ y % 2 = 0
    BY <1>5, <2>1, <2>2, <2>3, <2>4
  <2>6. x = y
    <3>1. ASSUME NEW z \in 1 .. IdMod, z < IdMod, z % 2 = 0
          PROVE  z + 1 < IdMod
      BY <1>1, <3>1
    <3>2. \A z \in 1 .. IdMod : z + 1 < IdMod => (z + 1) % IdMod = z + 1
      BY <1>1
    <3>3. IdMod > 1
      BY <1>1
    <3>4. (IdMod + 1) % IdMod = 1
      BY <1>1, <3>3
    <3>5. (x < IdMod => (x + 1) % IdMod = x + 1) /\ (y < IdMod => (y + 1) % IdMod = y + 1)
      BY <2>5, <3>1, <3>2
    <3>6. x \in Nat /\ y \in Nat /\ x >= 1 /\ y >= 1 /\ x <= IdMod /\ y <= IdMod
      BY <1>1, <2>5
    <3>7. (x = IdMod => (x + 1) % IdMod = 1) /\ (y = IdMod => (y + 1) % IdMod = 1)
      BY <3>4
    <3> QED
      BY <1>1, <2>5, <3>5, <3>6, <3>7
  <2>7. sr[p] = sr[q]
    BY <1>5, <2>1, <2>4, <2>6
  <2> QED
    BY <1>3, <2>7 DEF IsNumbering
<1>9. ASSUME instructionCount <= IdMod, NEW p \in Of("other"), NEW q \in Of("other"),
             N!GET_INSTR_ID(namer[p]) = N!GET_INSTR_ID(namer[q])
      PROVE  p = q
  <2>1. p \in DOMAIN namer /\ q \in DOMAIN namer
    BY DEF Of
  <2>2. rk[p] \in 1 .. IdMod /\ rk[q] \in 1 .. IdMod
    BY <1>1, <1>4, <1>5, <1>9, <2>1 DEF IsNumbering
  <2>3. rk[p] % IdMod = rk[q] % IdMod
    BY <1>4, <1>9 DEF N!GET_INSTR_ID
  <2>4. rk[p] = rk[q]
    BY <1>1, <2>2, <2>3, ModIsInjective
  <2> QED
    BY <1>4, <2>1, <2>4 DEF IsNumbering
<1> QED
  BY <1>6, <1>7, <1>8, <1>9 DEF InstructionIdsUnique

-----------------------------------------------------------------------------
(***************************************************************************)
(* Naming one function.                                                    *)
(***************************************************************************)
PlaceOf(k, f, n) == <<k, N!Places(f)[n][1], N!Places(f)[n][2]>>
OfOp(f, op) ==
  {j \in 1 .. N!All(f) : /\ N!At(f, N!Places(f)[j]).op = op
                         /\ op = "call" => N!IsListedCall(N!At(f, N!Places(f)[j]))}

LEMMA UptoCounts ==
  ASSUME NEW f, NEW op, N!All(f) \in Nat, NEW n \in 0 .. N!All(f)
  PROVE  N!Upto(f, n, op) = Cardinality(Before(OfOp(f, op), n))
<1>1. {j \in 1 .. n : /\ N!At(f, N!Places(f)[j]).op = op
                      /\ op = "call" => N!IsListedCall(N!At(f, N!Places(f)[j]))}
      = Before(OfOp(f, op), n)
  BY DEF Before, OfOp
<1>2. N!Upto(f, n, op) = N!Cardinality(Before(OfOp(f, op), n))
  BY <1>1 DEF N!Upto
<1>3. ASSUME NEW S PROVE N!Cardinality(S) = Cardinality(S)
  BY DEF N!Cardinality, Cardinality
<1> QED
  BY <1>2, <1>3

LEMMA AllCounted ==
  ASSUME NEW f, NEW op, N!All(f) \in Nat
  PROVE  N!Upto(f, N!All(f), op) = Cardinality(OfOp(f, op)) /\ Cardinality(OfOp(f, op)) \in Nat
<1>1. Before(OfOp(f, op), N!All(f)) = OfOp(f, op)
  BY DEF Before, OfOp
<1>2. IsFiniteSet(OfOp(f, op))
  <2>1. IsFiniteSet(1 .. N!All(f)) /\ OfOp(f, op) \subseteq 1 .. N!All(f)
    BY FS_Interval DEF OfOp
  <2> QED
    BY <2>1, FS_Subset
<1> QED
  BY <1>1, <1>2, UptoCounts, FS_CardinalityType

Cur  == Functions[named + 1]
Here == {PlaceOf(named + 1, Cur, n) : n \in 1 .. N!All(Cur)}

LEMMA FunctionNamed ==
  ASSUME NamerInv, NameFunction
  PROVE  /\ IsFunction(Cur) /\ N!All(Cur) \in Nat
         /\ DOMAIN namer' = DOMAIN namer \cup Here /\ DOMAIN namer \cap Here = {}
         /\ \A p \in DOMAIN namer : namer'[p] = namer[p]
         /\ \A n \in 1 .. N!All(Cur) :
              namer'[PlaceOf(named + 1, Cur, n)] = N!IdOf(Cur, N!IdNamed(Cur.name), n)
         /\ \A i, j \in 1 .. N!All(Cur) :
              PlaceOf(named + 1, Cur, i) = PlaceOf(named + 1, Cur, j) => i = j
<1>1. unit \in Units /\ named \in Nat /\ named + 1 \in 1 .. Len(Functions)
  BY SequenceFacts, UnitsAssumption DEF NamerInv, NameFunction, Functions
<1>2. IsFunction(Cur)
  BY <1>1, SequenceFacts, UnitsAssumption DEF Functions, Cur
<1>3. /\ N!All(Cur) \in Nat /\ DOMAIN N!Places(Cur) = 1 .. N!All(Cur)
      /\ \A m \in 1 .. N!All(Cur) : IsPlaceIn(Cur, N!Places(Cur)[m])
      /\ \A l, m \in 1 .. N!All(Cur) : N!Places(Cur)[l] = N!Places(Cur)[m] => l = m
  BY <1>2, PlacesFacts
<1>4. ASSUME NEW i \in 1 .. N!All(Cur), NEW j \in 1 .. N!All(Cur),
             PlaceOf(named + 1, Cur, i) = PlaceOf(named + 1, Cur, j)
      PROVE  i = j
  <2>1. N!Places(Cur)[i][1] = N!Places(Cur)[j][1] /\ N!Places(Cur)[i][2] = N!Places(Cur)[j][2]
    BY <1>4 DEF PlaceOf
  <2>2. N!Places(Cur)[i] = N!Places(Cur)[j]
    BY <1>3, <2>1 DEF IsPlaceIn
  <2> QED
    BY <1>3, <2>2
<1>5. namer' = [p \in Here \cup DOMAIN namer |->
                  IF p \in Here
                  THEN N!IdOf(Cur, N!IdNamed(Cur.name),
                              CHOOSE n \in 1 .. N!All(Cur) : PlaceOf(named + 1, Cur, n) = p)
                  ELSE namer[p]]
  <2>1. N!runOnFunction(named + 1, Cur)
    BY DEF NameFunction, Cur
  <2> QED
    BY <1>3, <2>1 DEF N!runOnFunction, Here, PlaceOf
<1>6. DOMAIN namer \cap Here = {}
  <2>1. \A p \in Here : p[1] = named + 1
    BY DEF Here, PlaceOf
  <2>2. \A p \in DOMAIN namer : p[1] <= named
    BY <1>1 DEF NamerInv
  <2> QED
    BY <1>1, <2>1, <2>2
<1>7. ASSUME NEW n \in 1 .. N!All(Cur)
      PROVE  namer'[PlaceOf(named + 1, Cur, n)] = N!IdOf(Cur, N!IdNamed(Cur.name), n)
  <2>1. PlaceOf(named + 1, Cur, n) \in Here
    BY DEF Here
  <2>2. (CHOOSE m \in 1 .. N!All(Cur) : PlaceOf(named + 1, Cur, m) = PlaceOf(named + 1, Cur, n)) = n
    BY <1>4
  <2> QED
    BY <1>5, <2>1, <2>2
<1>8. DOMAIN namer' = DOMAIN namer \cup Here
  BY <1>5
<1>9. \A p \in DOMAIN namer : namer'[p] = namer[p]
  BY <1>5, <1>6
<1> QED
  BY <1>2, <1>3, <1>4, <1>6, <1>7, <1>8, <1>9

\* What the metadata of an instruction says.
LEMMA IdOfFacts ==
  ASSUME NEW f, NEW id, NEW n, N!All(f) \in Nat, n \in 1 .. N!All(f)
  PROVE  /\ N!IdOf(f, id, n).type = "load" <=> n \in OfOp(f, "load")
         /\ N!IdOf(f, id, n).type = "store" <=> n \in OfOp(f, "store")
         /\ n \in OfOp(f, "load") =>
              N!IdOf(f, id, n).instr
                = (2 * (loadCount + Cardinality(Before(OfOp(f, "load"), n)))) % IdMod
         /\ n \in OfOp(f, "store") =>
              N!IdOf(f, id, n).instr
                = (2 * (storeCount + Cardinality(Before(OfOp(f, "store"), n))) + 1) % IdMod
         /\ N!IdOf(f, id, n).type = "other" =>
              N!IdOf(f, id, n).instr = (instructionCount + n) % IdMod
<1>1. n \in 0 .. N!All(f)
  OBVIOUS
<1>2. /\ N!Upto(f, n, "load") = Cardinality(Before(OfOp(f, "load"), n))
      /\ N!Upto(f, n, "store") = Cardinality(Before(OfOp(f, "store"), n))
  BY <1>1, UptoCounts
<1> DEFINE ins == N!At(f, N!Places(f)[n])
<1>3. n \in OfOp(f, "load") <=> ins.op = "load"
  BY DEF OfOp
<1>4. n \in OfOp(f, "store") <=> ins.op = "store"
  BY DEF OfOp
<1>5. CASE ins.op = "load"
  BY <1>2, <1>3, <1>4, <1>5 DEF N!IdOf, N!mergeID, N!IsListedCall
<1>6. CASE ins.op = "store"
  BY <1>2, <1>3, <1>4, <1>6 DEF N!IdOf, N!mergeID, N!IsListedCall
<1>7. CASE ins.op \notin {"load", "store"}
  BY <1>2, <1>3, <1>4, <1>7 DEF N!IdOf, N!mergeID, N!IsListedCall
<1> QED
  BY <1>5, <1>6, <1>7

\* Accesses of one kind: those of the function get the next numbers.
LEMMA KindStaysNumbered ==
  ASSUME NamerInv, NameFunction, NEW kind, NEW count, NEW total,
         KindNumbered(kind, count), total = count + N!Upto(Cur, N!All(Cur), kind),
         \A n \in 1 .. N!All(Cur) :
           /\ N!IdOf(Cur, N!IdNamed(Cur.name), n).type = kind <=> n \in OfOp(Cur, kind)
           /\ n \in OfOp(Cur, kind) =>
                N!IdOf(Cur, N!IdNamed(Cur.name), n).instr
                  = NumberOf(kind, count + Cardinality(Before(OfOp(Cur, kind), n))) % IdMod
  PROVE  KindNumbered(kind, total)'
<1> DEFINE M == OfOp(Cur, kind)
           place == [j \in 1 .. N!All(Cur) |-> PlaceOf(named + 1, Cur, j)]
           A == Of(kind)
           B == {place[j] : j \in M}
<1>1. /\ N!All(Cur) \in Nat
      /\ DOMAIN namer' = DOMAIN namer \cup Here /\ DOMAIN namer \cap Here = {}
      /\ \A p \in DOMAIN namer : namer'[p] = namer[p]
      /\ \A n \in 1 .. N!All(Cur) : namer'[place[n]] = N!IdOf(Cur, N!IdNamed(Cur.name), n)
      /\ \A i, j \in 1 .. N!All(Cur) : place[i] = place[j] => i = j
      /\ Here = {place[n] : n \in 1 .. N!All(Cur)}
  BY FunctionNamed DEF Here
<1>2. M \in SUBSET (1 .. N!All(Cur))
  BY DEF OfOp
<1>3. B \subseteq Here
  BY <1>1, <1>2
<1>4. A \cap B = {} /\ A \subseteq DOMAIN namer
  BY <1>1, <1>3 DEF Of
<1>5. \A i, j \in M : place[i] = place[j] => i = j
  BY <1>1, <1>2
<1>6. N!Upto(Cur, N!All(Cur), kind) = Cardinality(M) /\ Cardinality(M) \in Nat
  BY <1>1, AllCounted
<1>7. Of(kind)' = A \cup B
  <2>1. \A p \in DOMAIN namer : namer'[p].type = kind <=> p \in A
    BY <1>1 DEF Of, KindOf
  <2>2. \A n \in 1 .. N!All(Cur) : namer'[place[n]].type = kind <=> n \in M
    BY <1>1
  <2>3. \A p \in Here : namer'[p].type = kind <=> p \in B
    <3> SUFFICES ASSUME NEW p \in Here PROVE namer'[p].type = kind <=> p \in B
      OBVIOUS
    <3>1. PICK n \in 1 .. N!All(Cur) : p = place[n]
      BY <1>1
    <3>2. p \in B <=> n \in M
      <4>1. n \in M => p \in B
        BY <3>1
      <4>2. ASSUME NEW j \in M, p = place[j]
            PROVE  n \in M
        <5>1. j \in 1 .. N!All(Cur) /\ place[j] = place[n]
          BY <1>2, <3>1, <4>2
        <5> QED
          BY <1>1, <5>1
      <4> QED
        BY <4>1, <4>2
    <3> QED
      BY <2>2, <3>1, <3>2
  <2>4. Of(kind)' = {p \in DOMAIN namer' : namer'[p].type = kind}
    BY DEF Of, KindOf
  <2> QED
    BY <1>1, <1>3, <1>4, <2>1, <2>3, <2>4
<1>8. PICK rank : /\ IsNumbering(rank, A, count)
                  /\ \A p \in A : namer[p].instr = NumberOf(kind, rank[p]) % IdMod
  BY DEF KindNumbered
<1>9. count \in Nat /\ IsFiniteSet(A) /\ Cardinality(A) = count
  BY DEF KindNumbered
<1> HIDE DEF M, place, A, B
<1>10. B = {place[j] : j \in M}
  BY DEF B
<1>11. /\ IsFiniteSet(A \cup B) /\ Cardinality(A \cup B) = count + Cardinality(M)
       /\ \E r : /\ IsNumbering(r, A \cup B, count + Cardinality(M))
                 /\ \A p \in A : r[p] = rank[p]
                 /\ \A j \in M : r[place[j]] = count + Cardinality(Before(M, j))
  <2>1. PICK n : n = N!All(Cur) /\ n \in Nat
    BY <1>1
  <2>2. M \in SUBSET (1 .. n)
    BY <1>2, <2>1
  <2>3. A \cap B = {} /\ IsNumbering(rank, A, count)
    BY <1>4, <1>8
  <2>4. IsAddition(A, B, count, rank, n, M, place)
    BY <1>5, <1>9, <1>10, <2>1, <2>2, <2>3 DEF IsAddition
  <2>5. Adds(A, B, count, rank, M, place)
    BY <2>4, NumberingExtends
  <2> QED
    BY <2>5 DEF Adds
<1>12. PICK r : /\ IsNumbering(r, A \cup B, count + Cardinality(M))
                /\ \A p \in A : r[p] = rank[p]
                /\ \A j \in M : r[place[j]] = count + Cardinality(Before(M, j))
  BY <1>11
<1>13. \A p \in A : namer'[p].instr = NumberOf(kind, r[p]) % IdMod
  BY <1>1, <1>4, <1>8, <1>12
<1>14. \A j \in M : namer'[place[j]].instr = NumberOf(kind, r[place[j]]) % IdMod
  <2>1. \A j \in M : namer'[place[j]].instr
                       = NumberOf(kind, count + Cardinality(Before(M, j))) % IdMod
    BY <1>1, <1>2 DEF M
  <2> QED
    BY <1>12, <2>1
<1>15. \A p \in Of(kind)' : namer'[p].instr = NumberOf(kind, r[p]) % IdMod
  BY <1>7, <1>10, <1>13, <1>14
<1>16. total = count + Cardinality(M) /\ total \in Nat
  BY <1>6, <1>9
<1>17. /\ total \in Nat /\ IsFiniteSet(Of(kind)') /\ Cardinality(Of(kind)') = total
       /\ \E x : /\ IsNumbering(x, Of(kind)', total)
                 /\ \A p \in Of(kind)' : namer'[p].instr = NumberOf(kind, x[p]) % IdMod
  BY <1>7, <1>11, <1>12, <1>15, <1>16
<1> QED
  BY <1>17 DEF KindNumbered

LEMMA AllStayNumbered ==
  ASSUME NamerInv, NameFunction
  PROVE  AllNumbered'
<1> DEFINE n == N!All(Cur)
           M == 1 .. n
           place == [j \in 1 .. n |-> PlaceOf(named + 1, Cur, j)]
           A == DOMAIN namer
           B == Here
<1>1. /\ n \in Nat
      /\ DOMAIN namer' = A \cup B /\ A \cap B = {}
      /\ \A p \in A : namer'[p] = namer[p]
      /\ \A j \in M : namer'[place[j]] = N!IdOf(Cur, N!IdNamed(Cur.name), j)
      /\ \A i, j \in M : place[i] = place[j] => i = j
      /\ B = {place[j] : j \in M}
  BY FunctionNamed DEF Here
<1>2. PICK rank : /\ IsNumbering(rank, A, instructionCount)
                  /\ \A p \in Of("other") : namer[p].instr = rank[p] % IdMod
  BY DEF NamerInv, AllNumbered
<1>3. PICK c : c = instructionCount /\ c \in Nat /\ IsFiniteSet(A) /\ Cardinality(A) = c
  BY DEF NamerInv, AllNumbered
<1>4. instructionCount' = c + n
  BY <1>3 DEF NameFunction, N!runOnFunction, Cur
<1>5. Cardinality(M) = n /\ M \in SUBSET (1 .. n)
  <2>1. Cardinality(1 .. n) = IF 1 > n THEN 0 ELSE n - 1 + 1
    BY <1>1, FS_Interval
  <2> QED
    BY <1>1, <2>1
<1>6. \A j \in M : Cardinality(Before(M, j)) = j
  <2> SUFFICES ASSUME NEW j \in M PROVE Cardinality(Before(M, j)) = j
    OBVIOUS
  <2>1. Before(M, j) = 1 .. j
    BY <1>1 DEF Before
  <2>2. Cardinality(1 .. j) = IF 1 > j THEN 0 ELSE j - 1 + 1
    BY <1>1, FS_Interval
  <2> QED
    BY <1>1, <2>1, <2>2
<1>7. \A j \in M : N!IdOf(Cur, N!IdNamed(Cur.name), j).type = "other" =>
                     N!IdOf(Cur, N!IdNamed(Cur.name), j).instr = (c + j) % IdMod
  BY <1>1, <1>3, IdOfFacts
<1> HIDE DEF n, M, place, A, B
<1>8. IsAddition(A, B, c, rank, n, M, place)
  BY <1>1, <1>2, <1>3, <1>5 DEF IsAddition
<1>9. Adds(A, B, c, rank, M, place)
  BY <1>8, NumberingExtends
<1>10. PICK r : /\ IsNumbering(r, A \cup B, c + Cardinality(M))
                /\ \A p \in A : r[p] = rank[p]
                /\ \A j \in M : r[place[j]] = c + Cardinality(Before(M, j))
  BY <1>9 DEF Adds
<1>11. \A p \in A : namer'[p].type = "other" => namer'[p].instr = r[p] % IdMod
  <2>1. \A p \in A : namer[p].type = "other" => p \in Of("other")
    BY DEF Of, KindOf, A
  <2> QED
    BY <1>1, <1>2, <1>10, <2>1
<1>12. \A j \in M : namer'[place[j]].type = "other" =>
                      namer'[place[j]].instr = r[place[j]] % IdMod
  <2>1. \A j \in M : r[place[j]] = c + j
    BY <1>6, <1>10
  <2> QED
    BY <1>1, <1>7, <2>1
<1>13. \A p \in DOMAIN namer' : namer'[p].type = "other" => namer'[p].instr = r[p] % IdMod
  BY <1>1, <1>11, <1>12
<1>14. instructionCount' \in Nat
  BY <1>1, <1>3, <1>4
<1>15. IsNumbering(r, DOMAIN namer', instructionCount')
  BY <1>1, <1>4, <1>5, <1>10
<1>16. IsFiniteSet(DOMAIN namer') /\ Cardinality(DOMAIN namer') = instructionCount'
  BY <1>1, <1>4, <1>5, <1>9 DEF Adds
<1>17. \A p \in Of("other")' : p \in DOMAIN namer' /\ namer'[p].type = "other"
  BY DEF Of, KindOf
<1>18. \A p \in Of("other")' : namer'[p].instr = r[p] % IdMod
  BY <1>13, <1>17
<1>19. \E x : IsNumbering(x, DOMAIN namer', instructionCount')
              /\ \A p \in Of("other")' : namer'[p].instr = x[p] % IdMod
  BY <1>15, <1>18
<1> QED
  BY <1>14, <1>16, <1>19 DEF AllNumbered

LEMMA NamerInit == Init => NamerInv
<1> SUFFICES ASSUME Init PROVE NamerInv
  OBVIOUS
<1>1. /\ namer = <<>> /\ contextCount = 0 /\ basicBlockCount = 0 /\ instructionCount = 0
      /\ loadCount = 0 /\ storeCount = 0 /\ named = 0 /\ unit \in Units
  BY DEF Init, N!initialize
<1>2. DOMAIN namer = {}
  BY <1>1
<1>3. \A kind : Of(kind) = {}
  BY <1>2 DEF Of
<1>4. IsFiniteSet({}) /\ Cardinality({}) = 0
  BY FS_EmptySet
<1>5. IsNumbering([p \in {} |-> 1], {}, 0)
  BY DEF IsNumbering
<1>6. KindNumbered("load", 0) /\ KindNumbered("store", 0)
  <2>1. \A kind : Of(kind) = {} => KindNumbered(kind, 0)
    BY <1>4, <1>5 DEF KindNumbered
  <2> QED
    BY <1>3, <2>1
<1>7. AllNumbered
  BY <1>1, <1>2, <1>3, <1>4, <1>5 DEF AllNumbered
<1>8. Len(Functions) \in Nat
  BY <1>1, SequenceFacts, UnitsAssumption DEF Functions
<1> QED
  BY <1>1, <1>2, <1>6, <1>7, <1>8 DEF NamerInv

LEMMA NamingKeepsNumbers ==
  ASSUME NamerInv, NameFunction
  PROVE  NamerInv'
<1>1. /\ IsFunction(Cur) /\ N!All(Cur) \in Nat
      /\ DOMAIN namer' = DOMAIN namer \cup Here
  BY FunctionNamed
<1>2. /\ named' = named + 1 /\ named < Len(Functions)
      /\ contextCount' = contextCount + N!Upto(Cur, N!All(Cur), "call") + Len(Cur.loops)
      /\ basicBlockCount' = basicBlockCount + Len(Cur.blocks)
      /\ loadCount' = loadCount + N!Upto(Cur, N!All(Cur), "load")
      /\ storeCount' = storeCount + N!Upto(Cur, N!All(Cur), "store")
      /\ unit' = unit
  BY DEF NameFunction, N!runOnFunction, Cur
<1>3. named \in Nat /\ unit \in Units /\ Len(Functions) \in Nat
  BY SequenceFacts, UnitsAssumption DEF NamerInv, Functions
<1>4. unit' \in Units /\ named' \in 0 .. Len(Functions)'
  BY <1>2, <1>3 DEF Functions
<1>5. \A p \in DOMAIN namer' : p[1] \in 1 .. named'
  <2>1. \A p \in Here : p[1] = named + 1
    BY DEF Here, PlaceOf
  <2>2. \A p \in DOMAIN namer : p[1] \in 1 .. named
    BY DEF NamerInv
  <2> QED
    BY <1>1, <1>2, <1>3, <2>1, <2>2
<1>6. contextCount' \in Nat /\ basicBlockCount' \in Nat
  <2>1. N!Upto(Cur, N!All(Cur), "call") \in Nat
    BY <1>1, AllCounted
  <2>2. Len(Cur.loops) \in Nat /\ Len(Cur.blocks) \in Nat
    BY <1>1, SequenceFacts DEF IsFunction
  <2>3. contextCount \in Nat /\ basicBlockCount \in Nat
    BY DEF NamerInv
  <2>4. PICK u \in Nat, l \in Nat, b \in Nat :
          u = N!Upto(Cur, N!All(Cur), "call") /\ l = Len(Cur.loops) /\ b = Len(Cur.blocks)
    BY <2>1, <2>2
  <2>5. contextCount' = contextCount + u + l /\ basicBlockCount' = basicBlockCount + b
    BY <1>2, <2>4
  <2> QED
    BY <2>3, <2>5
<1>7. KindNumbered("load", loadCount)'
  <2>1. PICK c, t : c = loadCount /\ t = loadCount'
    OBVIOUS
  <2>2. KindNumbered("load", c)
    BY <2>1 DEF NamerInv
  <2>3. \A n \in 1 .. N!All(Cur) :
           /\ N!IdOf(Cur, N!IdNamed(Cur.name), n).type = "load" <=> n \in OfOp(Cur, "load")
           /\ n \in OfOp(Cur, "load") =>
                N!IdOf(Cur, N!IdNamed(Cur.name), n).instr
                  = NumberOf("load", c + Cardinality(Before(OfOp(Cur, "load"), n))) % IdMod
    BY <1>1, <2>1, IdOfFacts DEF NumberOf
  <2>4. t = c + N!Upto(Cur, N!All(Cur), "load")
    BY <1>2, <2>1
  <2>5. KindNumbered("load", t)'
    BY <2>2, <2>3, <2>4, KindStaysNumbered
  <2> QED
    BY <2>1, <2>5
<1>8. KindNumbered("store", storeCount)'
  <2>1. PICK c, t : c = storeCount /\ t = storeCount'
    OBVIOUS
  <2>2. KindNumbered("store", c)
    BY <2>1 DEF NamerInv
  <2>3. \A n \in 1 .. N!All(Cur) :
           /\ N!IdOf(Cur, N!IdNamed(Cur.name), n).type = "store" <=> n \in OfOp(Cur, "store")
           /\ n \in OfOp(Cur, "store") =>
                N!IdOf(Cur, N!IdNamed(Cur.name), n).instr
                  = NumberOf("store", c + Cardinality(Before(OfOp(Cur, "store"), n))) % IdMod
    BY <1>1, <2>1, IdOfFacts DEF NumberOf
  <2>4. t = c + N!Upto(Cur, N!All(Cur), "store")
    BY <1>2, <2>1
  <2>5. KindNumbered("store", t)'
    BY <2>2, <2>3, <2>4, KindStaysNumbered
  <2> QED
    BY <2>1, <2>5
<1> QED
  BY <1>4, <1>5, <1>6, <1>7, <1>8, AllStayNumbered DEF NamerInv

LEMMA NamerStep == NamerInv /\ [Next]_vars => NamerInv'
<1> SUFFICES ASSUME NamerInv, [Next]_vars PROVE NamerInv'
  OBVIOUS
<1>1. CASE NameFunction
  BY <1>1, NamingKeepsNumbers
<1>2. CASE UNCHANGED <<unit, countVars>>
  BY <1>2 DEF NamerInv, countVars, KindNumbered, AllNumbered, Of, KindOf, Functions
<1>3. NameFunction \/ UNCHANGED <<unit, countVars>>
  BY DEF Next, vars, LoadMetadata, recordLoopIDforEachLoop, FindDependences, GiveDevices,
         AddInitAndFini, RunConstructors, RunMain, RunDestructors
<1> QED
  BY <1>1, <1>2, <1>3

(***************************************************************************)
(* The numbers Namer gives instructions tell loads from stores, and two    *)
(* accesses of a kind or two allocations from each other as long as their  *)
(* 16 bits last, whatever is compiled.                                     *)
(***************************************************************************)
THEOREM InstructionNumbers == Spec => []InstructionIdsUnique
<1>1. Spec => []NamerInv
  BY NamerInit, NamerStep, PTL DEF Spec
<1> QED
  BY <1>1, IdsAreUnique, PTL

-----------------------------------------------------------------------------
(***************************************************************************)
(* The ids of loops.  Below 2^16 contexts nothing wraps: every loop named  *)
(* so far has a context id, and loopTable has its entry there.             *)
(***************************************************************************)
LoopsUpto(n) == {x \in AllLoops : x[1] <= n}
EntryOf(x)   == [name |-> LoopAt(x).header, functionId |-> x[1]]

LoopsNumbered ==
  contextCount < IdMod =>
    \E ctx : /\ IsNumbering(ctx, LoopsUpto(named), contextCount)
             /\ DOMAIN loopTable = {ctx[x] : x \in LoopsUpto(named)}
             /\ \A x \in LoopsUpto(named) : loopTable[ctx[x]] = EntryOf(x)

File0 == [functionTable |-> functionTable, loopTable |-> loopTable]

LoopIdsRecorded ==
  /\ loopIdOf = [x \in AllLoops |-> ContextIdOf(x)]
  /\ loopOfCntxID = [id \in {ContextIdOf(x) : x \in AllLoops} |->
                       CHOOSE x \in AllLoops : ContextIdOf(x) = id
                         /\ \A y \in AllLoops : ContextIdOf(y) = id => y = x \/ ComesBefore(y, x)]

LoopInv ==
  /\ NamerInv
  /\ functionTable = [i \in DOMAIN Functions |-> Functions[i].name]
  /\ LoopsNumbered
  /\ stage # "name" => named = Len(Functions) /\ meta = N!loadMetadata(File0)
  /\ IF stage \in {"dependences", "link", "run", "too big"} THEN LoopIdsRecorded ELSE loopIdOf = <<>>

LEMMA LoopFacts ==
  ASSUME unit \in Units, NEW x \in AllLoops
  PROVE  /\ x[1] \in 1 .. Len(Functions) /\ Len(Functions) \in Nat /\ x = <<x[1], x[2]>>
         /\ x[2] \in 1 .. Len(Functions[x[1]].loops) /\ Len(Functions[x[1]].loops) \in Nat
         /\ IsFunction(Functions[x[1]])
<1>1. IsSequence(Functions) /\ DOMAIN Functions = 1 .. Len(Functions) /\ Len(Functions) \in Nat
  BY SequenceFacts, UnitsAssumption DEF Functions
<1>2. PICK k \in DOMAIN Functions : x \in {<<k, l>> : l \in DOMAIN Functions[k].loops}
  BY DEF AllLoops
<1>3. PICK l \in DOMAIN Functions[k].loops : x = <<k, l>>
  BY <1>2
<1>4. IsFunction(Functions[k])
  BY UnitsAssumption DEF Functions
<1>5. DOMAIN Functions[k].loops = 1 .. Len(Functions[k].loops) /\ Len(Functions[k].loops) \in Nat
  BY <1>4, SequenceFacts DEF IsFunction
<1> QED
  BY <1>1, <1>3, <1>4, <1>5

LEMMA LoopIsIn ==
  ASSUME unit \in Units, NEW k \in 1 .. Len(Functions), NEW l \in 1 .. Len(Functions[k].loops)
  PROVE  <<k, l>> \in AllLoops
<1>1. DOMAIN Functions = 1 .. Len(Functions)
  BY SequenceFacts, UnitsAssumption DEF Functions
<1>2. IsFunction(Functions[k])
  BY <1>1, UnitsAssumption DEF Functions
<1>3. DOMAIN Functions[k].loops = 1 .. Len(Functions[k].loops)
  BY <1>2, SequenceFacts DEF IsFunction
<1> QED
  BY <1>1, <1>3 DEF AllLoops

LEMMA FunctionsHaveIds ==
  ASSUME LoopInv, NEW k \in 1 .. Len(Functions)
  PROVE  /\ N!IdNamed(Functions[k].name) = k
         /\ meta.functionTable = functionTable => N!getFunctionId(meta, Functions[k].name) = k
<1>1. DOMAIN Functions = 1 .. Len(Functions) /\ Len(Functions) \in Nat
  BY SequenceFacts, UnitsAssumption DEF LoopInv, NamerInv, Functions
<1>2. \A i \in DOMAIN Functions : Functions[i].name = Functions[k].name <=> i = k
  BY <1>1, UnitsAssumption DEF LoopInv, NamerInv, Functions
<1>3. {i \in DOMAIN functionTable : functionTable[i] = Functions[k].name} = {k}
  BY <1>1, <1>2 DEF LoopInv
<1>4. N!IdNamed(Functions[k].name) = k
  BY <1>3 DEF N!IdNamed, N!IdsOf
<1>5. ASSUME meta.functionTable = functionTable
      PROVE  N!getFunctionId(meta, Functions[k].name) = k
  <2>1. N!getFunctionId(meta, Functions[k].name) = N!FirstOr0({k})
    BY <1>3, <1>5 DEF N!getFunctionId
  <2>2. \A y \in {k} : k <= y
    BY <1>1
  <2>3. N!Smallest({k}) \in {k}
    BY <2>2 DEF N!Smallest
  <2> QED
    BY <2>1, <2>3 DEF N!FirstOr0
<1> QED
  BY <1>4, <1>5

LEMMA LoopsStayNumbered ==
  ASSUME LoopInv, NameFunction
  PROVE  LoopsNumbered'
<1> SUFFICES ASSUME contextCount' < IdMod
             PROVE  \E ctx : /\ IsNumbering(ctx, LoopsUpto(named)', contextCount')
                             /\ DOMAIN loopTable' = {ctx[x] : x \in LoopsUpto(named)'}
                             /\ \A x \in LoopsUpto(named)' : loopTable'[ctx[x]] = EntryOf(x)'
  BY DEF LoopsNumbered
<1> DEFINE k == named + 1
           f == Cur
           first == contextCount + N!Upto(f, N!All(f), "call")
<1>1. /\ k \in 1 .. Len(Functions) /\ named \in Nat /\ named' = k /\ unit' = unit /\ unit \in Units
      /\ f = Functions[k]
  BY SequenceFacts, UnitsAssumption DEF LoopInv, NamerInv, NameFunction, Functions, Cur
<1>2. IsFunction(f) /\ N!All(f) \in Nat
  BY FunctionNamed DEF LoopInv
<1>3. /\ Len(f.loops) \in Nat /\ DOMAIN f.loops = 1 .. Len(f.loops)
  BY <1>2, SequenceFacts DEF IsFunction
<1>4. contextCount \in Nat /\ first \in Nat /\ first >= contextCount
  <2>1. N!Upto(f, N!All(f), "call") \in Nat
    BY <1>2, AllCounted
  <2>2. PICK u \in Nat : u = N!Upto(f, N!All(f), "call")
    BY <2>1
  <2>3. contextCount \in Nat
    BY DEF LoopInv, NamerInv
  <2>4. PICK c \in Nat : c = contextCount
    BY <2>3
  <2>5. first = c + u
    BY <2>2, <2>4
  <2> QED
    BY <2>4, <2>5
<1>5. N!IdNamed(f.name) = k
  BY <1>1, FunctionsHaveIds
<1>6. contextCount' = first + Len(f.loops) /\ loopTable' = N!LoopEntries(f, k)
  BY <1>5 DEF NameFunction, N!runOnFunction, Cur
<1> HIDE DEF first, f, k
<1>7. IdMod \in Nat /\ \A l \in 1 .. Len(f.loops) : (first + l) % IdMod = first + l
  <2>1. PICK n \in Nat, a \in Nat, m \in Nat :
          n = Len(f.loops) /\ a = first /\ m = IdMod
    BY <1>3, <1>4, UnitsAssumption
  <2>2. a + n < m
    BY <1>6, <2>1
  <2>3. \A l \in 1 .. n : (a + l) % m = a + l
    BY <2>2
  <2> QED
    BY <2>1, <2>3
<1>8. contextCount < IdMod
  <2>1. PICK n \in Nat, a \in Nat, c \in Nat :
          n = Len(f.loops) /\ a = first /\ c = contextCount
    BY <1>3, <1>4
  <2>2. a + n < IdMod /\ a >= c
    BY <1>4, <1>6, <2>1
  <2> QED
    BY <1>7, <2>1, <2>2
<1>9. PICK ctx : /\ IsNumbering(ctx, LoopsUpto(named), contextCount)
                 /\ DOMAIN loopTable = {ctx[x] : x \in LoopsUpto(named)}
                 /\ \A x \in LoopsUpto(named) : loopTable[ctx[x]] = EntryOf(x)
  BY <1>8 DEF LoopInv, LoopsNumbered
<1>10. LoopsUpto(named)' = LoopsUpto(k) /\ \A x \in AllLoops : EntryOf(x)' = EntryOf(x)
  BY <1>1 DEF LoopsUpto, AllLoops, EntryOf, LoopAt, Functions
<1>11. \A x \in LoopsUpto(k) :
          \/ x \in LoopsUpto(named) /\ x[1] # k
          \/ x \notin LoopsUpto(named) /\ x = <<k, x[2]>> /\ x[2] \in 1 .. Len(f.loops)
  <2> SUFFICES ASSUME NEW x \in LoopsUpto(k)
               PROVE  \/ x \in LoopsUpto(named) /\ x[1] # k
                      \/ x \notin LoopsUpto(named) /\ x = <<k, x[2]>> /\ x[2] \in 1 .. Len(f.loops)
    OBVIOUS
  <2>1. x \in AllLoops /\ x[1] <= k
    BY DEF LoopsUpto
  <2>2. /\ x[1] \in 1 .. Len(Functions) /\ Len(Functions) \in Nat
        /\ x = <<x[1], x[2]>> /\ x[2] \in 1 .. Len(Functions[x[1]].loops)
    BY <1>1, <2>1, LoopFacts
  <2>3. CASE x[1] = k
    BY <1>1, <2>1, <2>2, <2>3 DEF LoopsUpto, k
  <2>4. CASE x[1] # k
    BY <1>1, <2>1, <2>2, <2>4 DEF LoopsUpto, k
  <2> QED
    BY <2>3, <2>4
<1>12. LoopsUpto(named) \subseteq LoopsUpto(k)
  <2>1. \A x \in LoopsUpto(named) : x \in AllLoops /\ x[1] <= named /\ x[1] \in Nat
    BY <1>1, LoopFacts DEF LoopsUpto
  <2> QED
    BY <1>1, <2>1 DEF LoopsUpto, k
<1>13. \A l \in 1 .. Len(f.loops) : <<k, l>> \in LoopsUpto(k)
  <2>1. \A l \in 1 .. Len(f.loops) : <<k, l>> \in AllLoops
    BY <1>1, LoopIsIn
  <2> QED
    BY <1>1, <2>1 DEF LoopsUpto
<1> DEFINE new == [x \in LoopsUpto(k) |-> IF x \in LoopsUpto(named) THEN ctx[x] ELSE first + x[2]]
<1>14. \A x \in LoopsUpto(named) : new[x] = ctx[x] /\ ctx[x] \in 1 .. contextCount
  BY <1>9, <1>12 DEF IsNumbering
<1>15. \A l \in 1 .. Len(f.loops) : new[<<k, l>>] = first + l
  <2>1. \A l \in 1 .. Len(f.loops) : <<k, l>> \in LoopsUpto(k) /\ <<k, l>> \notin LoopsUpto(named)
    BY <1>11, <1>13
  <2> QED
    BY <2>1
<1>16. DOMAIN new = LoopsUpto(k)
  OBVIOUS
<1> HIDE DEF new
<1>17. IsNumbering(new, LoopsUpto(k), contextCount')
  <2>1. \A x \in LoopsUpto(k) : new[x] \in 1 .. contextCount'
    <3>1. \A x \in LoopsUpto(named) : new[x] \in 1 .. contextCount'
      BY <1>3, <1>4, <1>6, <1>14
    <3>2. \A l \in 1 .. Len(f.loops) : first + l \in 1 .. contextCount'
      BY <1>3, <1>4, <1>6
    <3> QED
      BY <1>11, <1>15, <3>1, <3>2
  <2>2. ASSUME NEW x \in LoopsUpto(k), NEW y \in LoopsUpto(k), new[x] = new[y]
        PROVE  x = y
    <3>1. CASE x \in LoopsUpto(named) /\ y \in LoopsUpto(named)
      BY <1>9, <1>14, <2>2, <3>1 DEF IsNumbering
    <3>2. CASE x \in LoopsUpto(named) /\ y \notin LoopsUpto(named)
      <4>1. new[x] \in 1 .. contextCount /\ new[y] = first + y[2] /\ y[2] \in 1 .. Len(f.loops)
        BY <1>11, <1>14, <1>15, <3>2
      <4> QED
        BY <1>3, <1>4, <2>2, <4>1
    <3>3. CASE x \notin LoopsUpto(named) /\ y \in LoopsUpto(named)
      <4>1. new[y] \in 1 .. contextCount /\ new[x] = first + x[2] /\ x[2] \in 1 .. Len(f.loops)
        BY <1>11, <1>14, <1>15, <3>3
      <4> QED
        BY <1>3, <1>4, <2>2, <4>1
    <3>4. CASE x \notin LoopsUpto(named) /\ y \notin LoopsUpto(named)
      <4>1. /\ new[x] = first + x[2] /\ x[2] \in 1 .. Len(f.loops) /\ x = <<k, x[2]>>
            /\ new[y] = first + y[2] /\ y[2] \in 1 .. Len(f.loops) /\ y = <<k, y[2]>>
        BY <1>11, <1>15, <3>4
      <4>2. x[2] = y[2]
        <5>1. first + x[2] = first + y[2]
          BY <2>2, <4>1
        <5>2. x[2] \in Nat /\ y[2] \in Nat
          BY <1>3, <4>1
        <5> QED
          BY <1>4, <5>1, <5>2
      <4> QED
        BY <4>1, <4>2
    <3> QED
      BY <3>1, <3>2, <3>3, <3>4
  <2>3. new = [x \in LoopsUpto(k) |-> new[x]]
    BY DEF new
  <2> QED
    BY <2>1, <2>2, <2>3 DEF IsNumbering
<1>18. /\ DOMAIN loopTable' = {first + l : l \in 1 .. Len(f.loops)} \cup DOMAIN loopTable
       /\ \A l \in 1 .. Len(f.loops) : loopTable'[first + l] = [name |-> f.loops[l].header, functionId |-> k]
       /\ \A c \in DOMAIN loopTable : c \notin {first + l : l \in 1 .. Len(f.loops)} => loopTable'[c] = loopTable[c]
  <2> DEFINE LoopsWith(c) == {l \in DOMAIN f.loops : (first + l) % IdMod = c}
             ids == {(first + l) % IdMod : l \in DOMAIN f.loops}
  <2>1. loopTable' = [c \in ids \cup DOMAIN loopTable |->
                        IF c \in ids
                        THEN [name |-> f.loops[N!Max(LoopsWith(c))].header, functionId |-> k]
                        ELSE loopTable[c]]
    BY <1>6 DEF N!LoopEntries, first
  <2>2. ids = {first + l : l \in 1 .. Len(f.loops)}
    BY <1>3, <1>7
  <2>3. ASSUME NEW l \in 1 .. Len(f.loops)
        PROVE  N!Max(LoopsWith(first + l)) = l
    <3>1. LoopsWith(first + l) = {l}
      <4>1. \A i \in DOMAIN f.loops : (first + i) % IdMod = first + i /\ i \in Nat
        BY <1>3, <1>7
      <4>2. \A i \in DOMAIN f.loops : first + i = first + l => i = l
        <5>1. PICK n, a \in Nat : n = Len(f.loops) /\ a = first /\ n \in Nat
          BY <1>3, <1>4
        <5>2. \A i, j \in 1 .. n : a + i = a + j => i = j
          BY <5>1
        <5> QED
          BY <1>3, <5>1, <5>2
      <4> QED
        BY <1>3, <4>1, <4>2
    <3>2. \A y \in {l} : l >= y
      BY <1>3
    <3>3. N!Max({l}) \in {l}
      BY <3>2 DEF N!Max
    <3> QED
      BY <3>1, <3>3
  <2> HIDE DEF LoopsWith, ids
  <2>4. ASSUME NEW l \in 1 .. Len(f.loops)
        PROVE  loopTable'[first + l] = [name |-> f.loops[l].header, functionId |-> k]
    <3>1. first + l \in ids
      BY <2>2
    <3> QED
      BY <2>1, <2>3, <3>1
  <2> QED
    BY <2>1, <2>2, <2>4
<1>19. DOMAIN loopTable' = {new[x] : x \in LoopsUpto(k)}
  <2>1. \A x \in LoopsUpto(k) : new[x] \in DOMAIN loopTable'
    <3>1. \A x \in LoopsUpto(named) : ctx[x] \in DOMAIN loopTable'
      BY <1>9, <1>18
    <3>2. \A l \in 1 .. Len(f.loops) : first + l \in DOMAIN loopTable'
      BY <1>18
    <3> QED
      BY <1>11, <1>14, <1>15, <3>1, <3>2
  <2>2. ASSUME NEW c \in DOMAIN loopTable'
        PROVE  \E x \in LoopsUpto(k) : c = new[x]
    <3>1. CASE c \in DOMAIN loopTable
      BY <1>9, <1>12, <1>14, <3>1
    <3>2. CASE c \notin DOMAIN loopTable
      <4>1. PICK l \in 1 .. Len(f.loops) : c = first + l
        BY <1>18, <3>2
      <4> QED
        BY <1>13, <1>15, <4>1
    <3> QED
      BY <3>1, <3>2
  <2> QED
    BY <2>1, <2>2
<1>20. ASSUME NEW x \in LoopsUpto(k)
       PROVE  loopTable'[new[x]] = EntryOf(x)
  <2>1. CASE x \in LoopsUpto(named)
    <3>1. new[x] = ctx[x] /\ ctx[x] \in DOMAIN loopTable /\ ctx[x] \in 1 .. contextCount
      BY <1>9, <1>14, <2>1
    <3>2. \A l \in 1 .. Len(f.loops) : first + l # ctx[x]
      BY <1>3, <1>4, <3>1
    <3> QED
      BY <1>9, <1>18, <2>1, <3>1, <3>2
  <2>2. CASE x \notin LoopsUpto(named)
    <3>1. x = <<k, x[2]>> /\ x[2] \in 1 .. Len(f.loops) /\ new[x] = first + x[2]
      BY <1>11, <1>15, <2>2
    <3>2. LoopAt(x) = f.loops[x[2]] /\ x[1] = k
      BY <1>1, <3>1 DEF LoopAt
    <3> QED
      BY <1>18, <3>1, <3>2 DEF EntryOf
  <2> QED
    BY <2>1, <2>2
<1>21. \A x \in LoopsUpto(k) : EntryOf(x)' = EntryOf(x)
  BY <1>10 DEF LoopsUpto
<1> QED
  BY <1>10, <1>17, <1>19, <1>20, <1>21


LEMMA LoopInit == Init => LoopInv
<1> SUFFICES ASSUME Init PROVE LoopInv
  OBVIOUS
<1>1. /\ functionTable = [i \in DOMAIN Functions |-> Functions[i].name]
      /\ loopTable = <<>> /\ named = 0 /\ contextCount = 0 /\ stage = "name" /\ loopIdOf = <<>>
      /\ unit \in Units
  BY DEF Init, N!initialize, N!makeFunctionTable
<1>2. LoopsUpto(0) = {}
  <2>1. \A x \in AllLoops : x[1] \in Nat /\ x[1] >= 1
    BY <1>1, LoopFacts
  <2> QED
    BY <2>1 DEF LoopsUpto
<1>3. IsNumbering([x \in {} |-> 1], {}, 0)
  BY DEF IsNumbering
<1>4. DOMAIN loopTable = {}
  BY <1>1
<1>5. LoopsNumbered
  BY <1>1, <1>2, <1>3, <1>4 DEF LoopsNumbered
<1> QED
  BY <1>1, <1>5, NamerInit DEF LoopInv

LEMMA LoopStep == LoopInv /\ [Next]_vars => LoopInv'
<1> SUFFICES ASSUME LoopInv, [Next]_vars PROVE LoopInv'
  OBVIOUS
<1>1. NamerInv'
  BY NamerStep DEF LoopInv
<1>2. CASE NameFunction
  <2>1. LoopsNumbered'
    BY <1>2, LoopsStayNumbered
  <2>2. /\ stage = "name" /\ stage' = stage /\ functionTable' = functionTable /\ unit' = unit
        /\ loopIdOf' = loopIdOf
    BY <1>2 DEF NameFunction, N!runOnFunction, loopVars
  <2> QED
    BY <1>1, <2>1, <2>2 DEF LoopInv, Functions
<1>3. ASSUME UNCHANGED <<unit, countVars>>
      PROVE  /\ UNCHANGED <<unit, named, functionTable, loopTable, contextCount>>
             /\ LoopsNumbered' /\ (functionTable = [i \in DOMAIN Functions |-> Functions[i].name])'
             /\ N!loadMetadata(File0)' = N!loadMetadata(File0) /\ Functions' = Functions
  <2>1. UNCHANGED <<unit, named, functionTable, loopTable, contextCount>>
    BY <1>3 DEF countVars
  <2>2. Functions' = Functions /\ AllLoops' = AllLoops
    BY <2>1 DEF Functions, AllLoops
  <2>3. LoopsNumbered'
    <3>1. LoopsUpto(named)' = LoopsUpto(named) /\ \A x : EntryOf(x)' = EntryOf(x)
      BY <2>1, <2>2 DEF LoopsUpto, EntryOf, LoopAt
    <3> QED
      BY <2>1, <3>1 DEF LoopInv, LoopsNumbered
  <2> QED
    BY <2>1, <2>2, <2>3 DEF LoopInv, File0, N!loadMetadata, N!Scanned
<1>4. ASSUME UNCHANGED unit, UNCHANGED meta
       PROVE  /\ AllLoops' = AllLoops
              /\ \A x : ContextIdOf(x)' = ContextIdOf(x)
              /\ \A x, y : ComesBefore(x, y)' <=> ComesBefore(x, y)
  BY <1>4 DEF AllLoops, ContextIdOf, LoopAt, ComesBefore, Functions
<1>5. ASSUME UNCHANGED <<unit, countVars, meta>>, LoopIdsRecorded, UNCHANGED <<loopIdOf, loopOfCntxID>>
      PROVE  LoopIdsRecorded'
  <2>1. UNCHANGED unit /\ UNCHANGED meta /\ UNCHANGED <<loopIdOf, loopOfCntxID>>
    BY <1>5
  <2> QED
    BY <1>5, <1>4, <2>1 DEF LoopIdsRecorded
<1>6. CASE LoadMetadata
  <2>1. /\ UNCHANGED <<unit, countVars>> /\ meta' = N!loadMetadata(File0) /\ named = Len(Functions)
        /\ stage = "name" /\ stage' = "loops" /\ loopIdOf' = loopIdOf
    BY <1>6 DEF LoadMetadata, File0
  <2> QED
    BY <1>1, <1>3, <2>1 DEF LoopInv
<1>7. CASE recordLoopIDforEachLoop
  <2>1. /\ UNCHANGED <<unit, countVars, meta>> /\ stage = "loops" /\ stage' = "dependences"
    BY <1>7 DEF recordLoopIDforEachLoop
  <2>2. LoopIdsRecorded'
    <3>1. UNCHANGED unit /\ UNCHANGED meta
      BY <2>1
    <3> QED
      BY <1>7, <1>4, <3>1 DEF recordLoopIDforEachLoop, LoopIdsRecorded
  <2> QED
    BY <1>1, <1>3, <2>1, <2>2 DEF LoopInv
<1>8. CASE FindDependences \/ AddInitAndFini
  <2>1. /\ UNCHANGED <<unit, countVars, meta>> /\ UNCHANGED <<loopIdOf, loopOfCntxID>>
        /\ stage \in {"dependences", "link"} /\ stage' \in {"link", "run", "too big"}
    BY <1>8 DEF FindDependences, AddInitAndFini, loopVars
  <2>2. LoopIdsRecorded'
    BY <1>5, <2>1 DEF LoopInv
  <2> QED
    BY <1>1, <1>3, <2>1, <2>2 DEF LoopInv
<1>9. CASE RunConstructors \/ RunMain \/ RunDestructors \/ UNCHANGED vars
  <2>1. UNCHANGED <<unit, countVars, meta>> /\ UNCHANGED <<loopIdOf, loopOfCntxID>> /\ UNCHANGED stage
    BY <1>9 DEF RunConstructors, RunMain, RunDestructors, vars, loopVars
  <2>2. LoopIdsRecorded => LoopIdsRecorded'
    BY <1>5, <2>1
  <2> QED
    BY <1>1, <1>3, <2>1, <2>2 DEF LoopInv
<1>10. CASE GiveDevices
  <2>1. UNCHANGED <<unit, countVars, loopVars>> /\ stage = "loops" /\ stage' \in {"devices", "crashed"}
    BY <1>10 DEF GiveDevices
  <2> QED
    BY <1>1, <1>3, <2>1 DEF LoopInv, loopVars
<1> QED
  BY <1>2, <1>6, <1>7, <1>8, <1>9, <1>10 DEF Next

LEMMA LoopIdsRight == LoopInv => LoopsKeepTheirIds
<1> SUFFICES ASSUME LoopInv, Recorded, contextCount < IdMod, NEW x \in DOMAIN loopIdOf
             PROVE  IF Named(x)
                    THEN /\ loopIdOf[x] \in DOMAIN loopTable
                         /\ loopTable[loopIdOf[x]].name = LoopAt(x).header
                         /\ loopOfCntxID[loopIdOf[x]] = x
                    ELSE loopIdOf[x] = 0
  BY DEF LoopsKeepTheirIds
<1>1. LoopIdsRecorded
  <2>1. CASE loopIdOf = <<>>
    BY <2>1
  <2> QED
    BY <2>1 DEF LoopInv
<1>2. x \in AllLoops /\ loopIdOf[x] = ContextIdOf(x)
  BY <1>1 DEF LoopIdsRecorded
<1>3. /\ unit \in Units /\ named = Len(Functions) /\ meta = N!loadMetadata(File0)
      /\ contextCount \in Nat
  BY DEF LoopInv, NamerInv, Recorded
<1>4. LoopsUpto(named) = AllLoops
  BY <1>3, LoopFacts DEF LoopsUpto
<1>5. PICK ctx : /\ IsNumbering(ctx, AllLoops, contextCount)
                 /\ DOMAIN loopTable = {ctx[y] : y \in AllLoops}
                 /\ \A y \in AllLoops : loopTable[ctx[y]] = EntryOf(y)
  BY <1>4 DEF LoopInv, LoopsNumbered
<1>6. /\ meta.functionTable = functionTable /\ DOMAIN meta.loopTable = DOMAIN loopTable
      /\ \A y \in AllLoops : meta.loopTable[ctx[y]]
           = IF Named(y) THEN EntryOf(y) ELSE [name |-> "in", functionId |-> 0]
  BY <1>3, <1>5 DEF N!loadMetadata, File0, N!Scanned, EntryOf, Named
<1> DEFINE Found(y) == {c \in DOMAIN meta.loopTable :
                          meta.loopTable[c] = [name |-> LoopAt(y).header, functionId |-> y[1]]}
<1>7. \A y \in AllLoops : ContextIdOf(y) = N!FirstOr0(Found(y))
  <2> SUFFICES ASSUME NEW y \in AllLoops PROVE ContextIdOf(y) = N!FirstOr0(Found(y))
    OBVIOUS
  <2>1. y[1] \in 1 .. Len(Functions)
    BY <1>3, LoopFacts
  <2>2. N!getFunctionId(meta, Functions[y[1]].name) = y[1]
    BY <1>6, <2>1, FunctionsHaveIds
  <2> QED
    BY <2>2 DEF ContextIdOf, N!getLoopContextId
<1>8. ASSUME NEW y \in AllLoops, Named(y)
      PROVE  ContextIdOf(y) = ctx[y]
  <2>1. y[1] \in Nat /\ y[1] # 0 /\ y = <<y[1], y[2]>> /\ y[2] \in DOMAIN Functions[y[1]].loops
    BY <1>3, LoopFacts, SequenceFacts DEF IsFunction
  <2>2. ASSUME NEW z \in AllLoops, ctx[z] \in Found(y)
        PROVE  z = y
    <3>1. meta.loopTable[ctx[z]] = [name |-> LoopAt(y).header, functionId |-> y[1]]
      BY <2>2
    <3>2. Named(z)
      BY <1>6, <2>1, <3>1
    <3>3. LoopAt(z).header = LoopAt(y).header /\ z[1] = y[1]
      <4>1. EntryOf(z) = [name |-> LoopAt(y).header, functionId |-> y[1]]
        BY <1>6, <3>1, <3>2
      <4>2. EntryOf(z).name = LoopAt(y).header /\ EntryOf(z).functionId = y[1]
        BY <4>1
      <4> QED
        BY <4>2 DEF EntryOf
    <3>4. z = <<z[1], z[2]>> /\ z[2] \in DOMAIN Functions[z[1]].loops /\ IsFunction(Functions[z[1]])
      BY <1>3, LoopFacts, SequenceFacts DEF IsFunction
    <3>5. z[2] = y[2]
      BY <1>8, <2>1, <3>3, <3>4 DEF IsFunction, LoopAt, Named
    <3> QED
      BY <2>1, <3>3, <3>4, <3>5
  <2>3. ctx[y] \in Found(y)
    BY <1>5, <1>6, <1>8 DEF EntryOf
  <2>4. Found(y) = {ctx[y]}
    BY <1>5, <1>6, <2>2, <2>3
  <2>5. ctx[y] \in Nat
    BY <1>5 DEF IsNumbering
  <2>6. N!Smallest({ctx[y]}) \in {ctx[y]}
    BY <2>5 DEF N!Smallest
  <2> QED
    BY <1>7, <2>4, <2>6 DEF N!FirstOr0
<1>9. ASSUME NEW y \in AllLoops, ~ Named(y)
      PROVE  ContextIdOf(y) = 0
  <2>1. y[1] \in Nat /\ y[1] # 0
    BY <1>3, LoopFacts
  <2>2. ASSUME NEW z \in AllLoops PROVE ctx[z] \notin Found(y)
    <3>1. CASE Named(z)
      <4>1. meta.loopTable[ctx[z]] = EntryOf(z) /\ EntryOf(z).name # LoopAt(y).header
        BY <1>6, <1>9, <3>1 DEF EntryOf, Named
      <4> QED
        BY <4>1
    <3>2. CASE ~ Named(z)
      BY <1>6, <2>1, <3>2
    <3> QED
      BY <3>1, <3>2
  <2>3. Found(y) = {}
    BY <1>5, <1>6, <2>2
  <2> QED
    BY <1>7, <2>3 DEF N!FirstOr0
<1>10. CASE Named(x)
  <2>1. loopIdOf[x] = ctx[x] /\ ctx[x] \in 1 .. contextCount
    BY <1>2, <1>5, <1>8, <1>10 DEF IsNumbering
  <2>2. loopIdOf[x] \in DOMAIN loopTable /\ loopTable[loopIdOf[x]].name = LoopAt(x).header
    <3>1. loopTable[ctx[x]] = EntryOf(x) /\ EntryOf(x).name = LoopAt(x).header
      BY <1>2, <1>5 DEF EntryOf
    <3> QED
      BY <1>2, <1>5, <2>1, <3>1
  <2>3. ASSUME NEW y \in AllLoops, ContextIdOf(y) = ctx[x]
        PROVE  y = x
    <3>1. Named(y)
      BY <1>3, <1>9, <2>1, <2>3
    <3>2. ctx[y] = ctx[x]
      BY <1>8, <2>3, <3>1
    <3> QED
      BY <1>2, <1>5, <3>2 DEF IsNumbering
  <2>4. loopOfCntxID[ctx[x]]
          = CHOOSE z \in AllLoops : ContextIdOf(z) = ctx[x]
              /\ \A y \in AllLoops : ContextIdOf(y) = ctx[x] => y = z \/ ComesBefore(y, z)
    BY <1>1, <1>2, <2>1 DEF LoopIdsRecorded
  <2>5. loopOfCntxID[ctx[x]] = x
    <3>1. ContextIdOf(x) = ctx[x]
      BY <1>8, <1>2, <1>10
    <3> QED
      BY <1>2, <2>3, <2>4, <3>1
  <2> QED
    BY <1>10, <2>1, <2>2, <2>5
<1>11. CASE ~ Named(x)
  BY <1>2, <1>9, <1>11
<1> QED
  BY <1>10, <1>11

(***************************************************************************)
(* A loop with a named header keeps the id Namer wrote through the file    *)
(* and the tables of the later passes; one without gets 0.                 *)
(***************************************************************************)
THEOREM LoopIds == Spec => []LoopsKeepTheirIds
<1>1. Spec => []LoopInv
  BY LoopInit, LoopStep, PTL DEF Spec
<1> QED
  BY <1>1, LoopIdsRight, PTL

-----------------------------------------------------------------------------
(***************************************************************************)
(* The search for an induction variable, and whether it exceeds its limit: *)
(* two recursive functions on <<value, values come through, how many>>.    *)
(* Each exists, as the greatest set of arguments that supports itself.     *)
(* Below the limit the search answers what a set of values that supports   *)
(* itself says; a call at the limit can only answer no.                    *)
(***************************************************************************)
\* The way to answer yes for v, if yes is the answer for the values in A.
Answer(loop, A, v, S) ==
  /\ v \in DOMAIN loop.def
  /\ \/ v = loop.canon
     \/ /\ R!KindOf(loop, v) = "phi"
        /\ R!Operand(loop, v, 1) \in S \/ R!Operand(loop, v, 1) \in A
     \/ /\ R!KindOf(loop, v) = "arith" /\ R!VariantOperands(loop, v) # {}
        /\ R!VariantOperands(loop, v) \subseteq A
     \/ R!KindOf(loop, v) = "cast" /\ R!Operand(loop, v, 1) \in A

LEMMA AnswerMonotone ==
  ASSUME NEW loop, NEW v, NEW S, NEW A, NEW B, A \subseteq B, Answer(loop, A, v, S)
  PROVE  Answer(loop, B, v, S)
BY DEF Answer

\* The values whose call, one deeper, f answers with yes.
YesAfter(loop, f, S, n) == {w \in DOMAIN loop.def : n < SearchLimit /\ f[<<w, S \cup {w}, n + 1>>]}

Body(loop, f, x) ==
  LET v     == x[1]
      Is(w) == /\ ~ R!Invariant(loop, w) /\ x[3] < SearchLimit
               /\ f[<<w, x[2] \cup {w}, x[3] + 1>>]
  IN  CASE R!Invariant(loop, v) -> FALSE
        [] ~ R!Invariant(loop, v) /\ v = loop.canon -> TRUE
        [] OTHER ->
             \/ /\ R!KindOf(loop, v) = "phi"
                /\ R!Operand(loop, v, 1) \in x[2] \/ Is(R!Operand(loop, v, 1))
             \/ /\ R!KindOf(loop, v) = "arith" /\ R!VariantOperands(loop, v) # {}
                /\ \A w \in R!VariantOperands(loop, v) : Is(w)
             \/ R!KindOf(loop, v) = "cast" /\ Is(R!Operand(loop, v, 1))

IsSearch(loop, in, f) == f = [x \in R!Calls(loop, in) |-> Body(loop, f, x)]

LEMMA BodyAnswers ==
  ASSUME NEW loop, NEW f, NEW v, NEW S, NEW n
  PROVE  Body(loop, f, <<v, S, n>>) = Answer(loop, YesAfter(loop, f, S, n), v, S)
<1>1. CASE v \notin DOMAIN loop.def
  BY <1>1 DEF Body, Answer, R!Invariant
<1>2. CASE v \in DOMAIN loop.def /\ v = loop.canon
  BY <1>2 DEF Body, Answer, R!Invariant
<1>3. CASE v \in DOMAIN loop.def /\ v # loop.canon
  <2>1. \A w : w \in YesAfter(loop, f, S, n) <=>
                 /\ ~ R!Invariant(loop, w) /\ n < SearchLimit
                 /\ f[<<w, S \cup {w}, n + 1>>]
    BY DEF YesAfter, R!Invariant
  <2>2. R!VariantOperands(loop, v) \subseteq YesAfter(loop, f, S, n) <=>
          \A w \in R!VariantOperands(loop, v) : /\ ~ R!Invariant(loop, w) /\ n < SearchLimit
                                               /\ f[<<w, S \cup {w}, n + 1>>]
    BY <2>1
  <2> QED
    BY <1>3, <2>1, <2>2 DEF Body, Answer, R!Invariant
<1> QED
  BY <1>1, <1>2, <1>3

\* A function on the arguments from a set of them.
Holds(D, X) == [x \in D |-> x \in X]

LEMMA DeeperCall ==
  ASSUME NEW loop, NEW in, NEW x \in R!Calls(loop, in), NEW w \in DOMAIN loop.def,
         x[3] < SearchLimit
  PROVE  <<w, x[2] \cup {w}, x[3] + 1>> \in R!Calls(loop, in)
BY UnitsAssumption DEF R!Calls

LEMMA SearchExists ==
  ASSUME NEW loop, NEW in
  PROVE  \E f : IsSearch(loop, in, f)
<1> DEFINE D == R!Calls(loop, in)
           F(X) == Holds(D, X)
           Post == {X \in SUBSET D : \A x \in X : Answer(loop, YesAfter(loop, F(X), x[2], x[3]), x[1], x[2])}
           U == UNION Post
<1>1. ASSUME NEW X \in SUBSET D, NEW Y \in SUBSET D, X \subseteq Y, NEW x \in D
      PROVE  YesAfter(loop, F(X), x[2], x[3]) \subseteq YesAfter(loop, F(Y), x[2], x[3])
  <2> SUFFICES ASSUME NEW w \in DOMAIN loop.def, x[3] < SearchLimit,
                      F(X)[<<w, x[2] \cup {w}, x[3] + 1>>]
               PROVE  F(Y)[<<w, x[2] \cup {w}, x[3] + 1>>]
    BY DEF YesAfter
  <2>1. <<w, x[2] \cup {w}, x[3] + 1>> \in D
    BY DeeperCall
  <2> QED
    BY <1>1, <2>1 DEF Holds
<1>2. U \in SUBSET D
  OBVIOUS
<1>3. ASSUME NEW x \in U PROVE Answer(loop, YesAfter(loop, F(U), x[2], x[3]), x[1], x[2])
  <2>1. PICK X \in Post : x \in X
    OBVIOUS
  <2>2. X \subseteq U /\ x \in D /\ Answer(loop, YesAfter(loop, F(X), x[2], x[3]), x[1], x[2])
    BY <2>1
  <2>3. YesAfter(loop, F(X), x[2], x[3]) \subseteq YesAfter(loop, F(U), x[2], x[3])
    BY <1>1, <1>2, <2>2
  <2> QED
    BY <2>2, <2>3, AnswerMonotone
<1>4. ASSUME NEW x \in D, Answer(loop, YesAfter(loop, F(U), x[2], x[3]), x[1], x[2]) PROVE x \in U
  <2> DEFINE Y == U \cup {x}
  <2>1. Y \in SUBSET D /\ U \subseteq Y
    BY <1>2
  <2>2. ASSUME NEW y \in Y PROVE Answer(loop, YesAfter(loop, F(Y), y[2], y[3]), y[1], y[2])
    <3>1. y \in D /\ Answer(loop, YesAfter(loop, F(U), y[2], y[3]), y[1], y[2])
      BY <1>2, <1>3, <1>4
    <3>2. YesAfter(loop, F(U), y[2], y[3]) \subseteq YesAfter(loop, F(Y), y[2], y[3])
      BY <1>1, <1>2, <2>1, <3>1
    <3> HIDE DEF Y, U
    <3> QED
      BY <3>1, <3>2, AnswerMonotone
  <2>3. Y \in Post /\ x \in Y
    BY <2>1, <2>2
  <2> HIDE DEF Y, Post
  <2> QED
    BY <2>3
<1>5. PICK g : g = F(U)
  OBVIOUS
<1>6. ASSUME NEW x \in D PROVE g[x] = Body(loop, g, x)
  <2>1. x = <<x[1], x[2], x[3]>>
    BY DEF R!Calls
  <2>2. Body(loop, g, x) = Answer(loop, YesAfter(loop, g, x[2], x[3]), x[1], x[2])
    BY <2>1, BodyAnswers
  <2>3. g[x] = (x \in U)
    BY <1>5 DEF Holds
  <2>4. Answer(loop, YesAfter(loop, g, x[2], x[3]), x[1], x[2]) \in BOOLEAN
    BY DEF Answer
  <2>5. x \in U <=> Answer(loop, YesAfter(loop, g, x[2], x[3]), x[1], x[2])
    BY <1>3, <1>4, <1>5
  <2> QED
    BY <2>2, <2>3, <2>4, <2>5
<1>7. g = [x \in D |-> g[x]]
  BY <1>5 DEF Holds
<1>8. g = [x \in D |-> Body(loop, g, x)]
  <2> HIDE DEF D
  <2> QED
    BY <1>6, <1>7
<1> QED
  BY <1>8 DEF IsSearch

ExceedsStep(loop, g, x) ==
  \E w \in R!Asked(loop, x[1], x[2]) :
    \/ x[3] = SearchLimit
    \/ ~ R!Invariant(loop, w) /\ x[3] < SearchLimit /\ g[<<w, x[2] \cup {w}, x[3] + 1>>]

IsExceeds(loop, in, g) == g = [x \in R!Calls(loop, in) |-> ExceedsStep(loop, g, x)]

LEMMA ExceedsExists ==
  ASSUME NEW loop, NEW in
  PROVE  \E g : IsExceeds(loop, in, g)
<1> DEFINE D == R!Calls(loop, in)
           F(X) == Holds(D, X)
           Post == {X \in SUBSET D : \A x \in X : ExceedsStep(loop, F(X), x)}
           U == UNION Post
<1>1. ASSUME NEW X \in SUBSET D, NEW Y \in SUBSET D, X \subseteq Y, NEW x \in D,
             ExceedsStep(loop, F(X), x)
      PROVE  ExceedsStep(loop, F(Y), x)
  <2>1. ASSUME NEW w \in DOMAIN loop.def, x[3] < SearchLimit,
               F(X)[<<w, x[2] \cup {w}, x[3] + 1>>]
        PROVE  F(Y)[<<w, x[2] \cup {w}, x[3] + 1>>]
    <3>1. <<w, x[2] \cup {w}, x[3] + 1>> \in D
      BY <2>1, DeeperCall
    <3> QED
      BY <1>1, <2>1, <3>1 DEF Holds
  <2> QED
    BY <1>1, <2>1 DEF ExceedsStep, R!Invariant
<1>2. U \in SUBSET D
  OBVIOUS
<1>3. ASSUME NEW x \in U PROVE ExceedsStep(loop, F(U), x)
  <2>1. PICK X \in Post : x \in X
    OBVIOUS
  <2>2. X \subseteq U /\ X \in SUBSET D /\ x \in D /\ ExceedsStep(loop, F(X), x)
    BY <2>1
  <2> QED
    BY <1>1, <1>2, <2>2
<1>4. ASSUME NEW x \in D, ExceedsStep(loop, F(U), x) PROVE x \in U
  <2> DEFINE Y == U \cup {x}
  <2>1. Y \in SUBSET D /\ U \subseteq Y
    BY <1>2
  <2>2. ASSUME NEW y \in Y PROVE ExceedsStep(loop, F(Y), y)
    BY <1>1, <1>2, <1>3, <1>4, <2>1
  <2>3. Y \in Post /\ x \in Y
    BY <2>1, <2>2
  <2> HIDE DEF Y, Post
  <2> QED
    BY <2>3
<1>5. PICK g : g = F(U)
  OBVIOUS
<1>6. ASSUME NEW x \in D PROVE g[x] = ExceedsStep(loop, g, x)
  <2>1. g[x] = (x \in U)
    BY <1>5 DEF Holds
  <2>2. ExceedsStep(loop, g, x) \in BOOLEAN
    BY DEF ExceedsStep
  <2>3. x \in U <=> ExceedsStep(loop, g, x)
    BY <1>3, <1>4, <1>5
  <2> QED
    BY <2>1, <2>2, <2>3
<1>7. g = [x \in D |-> g[x]]
  BY <1>5 DEF Holds
<1>8. g = [x \in D |-> ExceedsStep(loop, g, x)]
  <2> HIDE DEF D
  <2> QED
    BY <1>6, <1>7
<1> QED
  BY <1>8 DEF IsExceeds

\* X supports itself, with the values in S behind the phis.
Sup(loop, X, S) == \A u \in X : Answer(loop, X, u, S)

Supported(loop, v, S) == \E X \in SUBSET DOMAIN loop.def : v \in X /\ Sup(loop, X, S)

\* The values supported once they are come through themselves.
Inside(loop, S) == {w \in DOMAIN loop.def : Supported(loop, w, S \cup {w})}

LEMMA SupportIsAnswer ==
  ASSUME NEW loop, NEW v, NEW S \in SUBSET DOMAIN loop.def
  PROVE  Supported(loop, v, S) <=> Answer(loop, Inside(loop, S), v, S)
<1> DEFINE V == DOMAIN loop.def
<1>1. ASSUME NEW X \in SUBSET V, v \in X, Sup(loop, X, S)
      PROVE  Answer(loop, Inside(loop, S), v, S)
  <2>1. ASSUME NEW w \in X PROVE w \in Inside(loop, S)
    <3>1. Sup(loop, X, S \cup {w})
      BY <1>1 DEF Sup, Answer
    <3> QED
      BY <3>1 DEF Supported, Inside
  <2>2. X \subseteq Inside(loop, S) /\ Answer(loop, X, v, S)
    BY <1>1, <2>1 DEF Sup
  <2> QED
    BY <2>2, AnswerMonotone
<1>2. ASSUME Answer(loop, Inside(loop, S), v, S)
      PROVE  Supported(loop, v, S)
  <2> DEFINE Xs == {X \in SUBSET V : \E w \in X : Sup(loop, X, S \cup {w})}
             Y  == (UNION Xs) \cup {v}
  <2>1. v \in V
    BY <1>2 DEF Answer
  <2>2. Inside(loop, S) \subseteq Y
    <3> SUFFICES ASSUME NEW w \in Inside(loop, S) PROVE \E X \in Xs : w \in X
      OBVIOUS
    <3> QED
      BY DEF Inside, Supported
  <2>3. Y \in SUBSET V
    BY <2>1
  <2>4. ASSUME NEW u \in UNION Xs PROVE Answer(loop, Y, u, S)
    <3>1. PICK X \in Xs : u \in X
      OBVIOUS
    <3>2. PICK w \in X : Sup(loop, X, S \cup {w})
      BY <3>1
    <3>3. X \subseteq Y /\ Answer(loop, X, u, S \cup {w})
      BY <3>1, <3>2 DEF Sup
    <3> HIDE DEF Xs, Y
    <3> QED
      BY <3>2, <3>3 DEF Answer
  <2>5. Answer(loop, Y, v, S)
    BY <1>2, <2>2, AnswerMonotone
  <2>6. Sup(loop, Y, S)
    <3> HIDE DEF Xs
    <3> QED
      BY <2>4, <2>5 DEF Sup
  <2> QED
    BY <2>3, <2>6 DEF Supported
<1> QED
  BY <1>1, <1>2 DEF Supported

(***************************************************************************)
(* A yes of the search is right, and so is a no if it does not exceed its  *)
(* limit: look at the longest way come through for which it is not.        *)
(***************************************************************************)
LEMMA YesIsRight ==
  ASSUME NEW loop, NEW in, NEW f, IsSearch(loop, in, f),
         NEW x \in R!Calls(loop, in), f[x]
  PROVE  Supported(loop, x[1], x[2])
<1> DEFINE D == R!Calls(loop, in)
           Bad == {y \in D : f[y] /\ ~ Supported(loop, y[1], y[2])}
           T == {y[3] : y \in Bad}
<1>1. SUFFICES ASSUME Bad # {} PROVE FALSE
  OBVIOUS
<1>2. T # {} /\ T \subseteq 0 .. SearchLimit /\ SearchLimit \in Nat
  BY <1>1, UnitsAssumption DEF R!Calls
<1>3. PICK m \in T : \A n \in T : n <= m
  BY <1>2, GreatestOf
<1>4. PICK y \in Bad : y[3] = m
  OBVIOUS
<1>5. /\ y \in D /\ y = <<y[1], y[2], y[3]>> /\ y[2] \in SUBSET DOMAIN loop.def
      /\ m \in Nat /\ f[y] /\ ~ Supported(loop, y[1], y[2])
  BY <1>2, <1>4 DEF R!Calls
<1>6. YesAfter(loop, f, y[2], m) \subseteq Inside(loop, y[2])
  <2> SUFFICES ASSUME NEW w \in DOMAIN loop.def, m < SearchLimit,
                      f[<<w, y[2] \cup {w}, m + 1>>]
               PROVE  Supported(loop, w, y[2] \cup {w})
    BY DEF YesAfter, Inside
  <2> DEFINE z == <<w, y[2] \cup {w}, m + 1>>
  <2>1. z \in D
    BY <1>4, <1>5, DeeperCall
  <2>2. z \notin Bad
    <3>1. z[3] = m + 1 /\ ~ (m + 1 <= m)
      BY <1>5
    <3> QED
      BY <1>3, <3>1
  <2> QED
    BY <2>1, <2>2
<1>7. Answer(loop, YesAfter(loop, f, y[2], m), y[1], y[2])
  <2>1. f[y] = Body(loop, f, y)
    BY <1>5 DEF IsSearch
  <2> QED
    BY <1>4, <1>5, <2>1, BodyAnswers
<1> QED
  BY <1>5, <1>6, <1>7, AnswerMonotone, SupportIsAnswer

\* The operands an answer is made from are asked for.
LEMMA AskedFor ==
  ASSUME NEW loop, NEW v, NEW S, NEW A \in SUBSET DOMAIN loop.def, Answer(loop, A, v, S),
         NEW B, R!Asked(loop, v, S) \cap A \subseteq B
  PROVE  Answer(loop, B, v, S)
<1>1. v \in DOMAIN loop.def
  BY DEF Answer
<1>2. CASE v = loop.canon
  BY <1>1, <1>2 DEF Answer
<1>3. CASE v # loop.canon /\ R!KindOf(loop, v) = "phi"
  <2>1. R!Asked(loop, v, S) = {R!Operand(loop, v, 1)} \ S
    BY <1>3 DEF R!Asked
  <2> QED
    BY <1>1, <1>3, <2>1 DEF Answer
<1>4. CASE v # loop.canon /\ R!KindOf(loop, v) = "arith"
  <2>1. R!VariantOperands(loop, v) \subseteq R!Asked(loop, v, S)
    BY <1>4 DEF R!Asked
  <2>2. R!VariantOperands(loop, v) # {} /\ R!VariantOperands(loop, v) \subseteq A
    BY <1>4 DEF Answer
  <2> QED
    BY <1>1, <1>4, <2>1, <2>2 DEF Answer
<1>5. CASE v # loop.canon /\ R!KindOf(loop, v) = "cast"
  <2>1. R!Asked(loop, v, S) = {R!Operand(loop, v, 1)} \cap DOMAIN loop.def
    BY <1>5 DEF R!Asked
  <2>2. R!Operand(loop, v, 1) \in A
    BY <1>5 DEF Answer
  <2> QED
    BY <1>1, <1>5, <2>1, <2>2 DEF Answer
<1> QED
  BY <1>1, <1>2, <1>3, <1>4, <1>5 DEF Answer

LEMMA NoIsRight ==
  ASSUME NEW loop, NEW in, NEW f, IsSearch(loop, in, f), NEW g, IsExceeds(loop, in, g),
         NEW x \in R!Calls(loop, in), ~ g[x], Supported(loop, x[1], x[2])
  PROVE  f[x]
<1> DEFINE D == R!Calls(loop, in)
           Bad == {y \in D : ~ f[y] /\ ~ g[y] /\ Supported(loop, y[1], y[2])}
           T == {y[3] : y \in Bad}
<1>1. SUFFICES ASSUME Bad # {} PROVE FALSE
  OBVIOUS
<1>2. T # {} /\ T \subseteq 0 .. SearchLimit /\ SearchLimit \in Nat
  BY <1>1, UnitsAssumption DEF R!Calls
<1>3. PICK m \in T : \A n \in T : n <= m
  BY <1>2, GreatestOf
<1>4. PICK y \in Bad : y[3] = m
  OBVIOUS
<1>5. /\ y \in D /\ y = <<y[1], y[2], y[3]>> /\ y[2] \in SUBSET DOMAIN loop.def
      /\ m \in Nat /\ m <= SearchLimit /\ ~ f[y] /\ ~ g[y] /\ Supported(loop, y[1], y[2])
  BY <1>2, <1>4 DEF R!Calls
<1>6. ~ ExceedsStep(loop, g, y)
  BY <1>5 DEF IsExceeds
<1>7. R!Asked(loop, y[1], y[2]) \cap Inside(loop, y[2]) \subseteq YesAfter(loop, f, y[2], m)
  <2> SUFFICES ASSUME NEW w \in R!Asked(loop, y[1], y[2]), w \in Inside(loop, y[2])
               PROVE  w \in YesAfter(loop, f, y[2], m)
    OBVIOUS
  <2> DEFINE z == <<w, y[2] \cup {w}, m + 1>>
  <2>1. w \in DOMAIN loop.def /\ Supported(loop, w, y[2] \cup {w})
    BY DEF Inside
  <2>2. m # SearchLimit /\ m < SearchLimit
    BY <1>2, <1>4, <1>5, <1>6 DEF ExceedsStep
  <2>3. ~ g[z]
    BY <1>4, <1>6, <2>1, <2>2 DEF ExceedsStep, R!Invariant
  <2>4. z \in D
    BY <1>4, <1>5, <2>1, <2>2, DeeperCall
  <2>5. z \notin Bad
    <3>1. z[3] = m + 1 /\ ~ (m + 1 <= m)
      BY <1>5
    <3> QED
      BY <1>3, <3>1
  <2>6. f[z]
    BY <2>1, <2>3, <2>4, <2>5
  <2> QED
    BY <2>1, <2>2, <2>6 DEF YesAfter
<1>8. Answer(loop, YesAfter(loop, f, y[2], m), y[1], y[2])
  <2>1. Answer(loop, Inside(loop, y[2]), y[1], y[2])
    BY <1>5, SupportIsAnswer
  <2>2. Inside(loop, y[2]) \in SUBSET DOMAIN loop.def
    BY DEF Inside
  <2> QED
    BY <1>7, <2>1, <2>2, AskedFor
<1>9. f[y] = Body(loop, f, y)
  BY <1>5 DEF IsSearch
<1>10. f[y]
  BY <1>4, <1>5, <1>8, <1>9, BodyAnswers
<1> QED
  BY <1>5, <1>10

LEMMA SearchFindsInductive ==
  ASSUME NEW loop, NEW v \in DOMAIN loop.def
  PROVE  /\ R!isIndVar(v, {v}, loop) => R!Inductive(loop, v)
         /\ R!Inductive(loop, v) /\ ~ R!ExceedsLimit(v, {v}, loop) => R!isIndVar(v, {v}, loop)
<1> DEFINE F == CHOOSE f : IsSearch(loop, v, f)
           E0 == CHOOSE g : IsExceeds(loop, v, g)
           x == <<v, {v}, 1>>
<1>1. R!isIndVar(v, {v}, loop) = F[x]
  BY DEF R!isIndVar, IsSearch, Body
<1>2. R!ExceedsLimit(v, {v}, loop) = E0[x]
  BY DEF R!ExceedsLimit, IsExceeds, ExceedsStep
<1>3. IsSearch(loop, v, F)
  BY SearchExists, Zenon
<1>4. IsExceeds(loop, v, E0)
  BY ExceedsExists, Zenon
<1>5. x \in R!Calls(loop, v) /\ x[1] = v /\ x[2] = {v}
  BY UnitsAssumption DEF R!Calls
<1>6. ASSUME NEW X \in SUBSET DOMAIN loop.def, v \in X
      PROVE  Sup(loop, X, {v}) <=> R!Supports(loop, X)
  BY <1>6 DEF Sup, Answer, R!Supports, R!VariantOperands
<1>7. Supported(loop, v, {v}) <=> R!Inductive(loop, v)
  BY <1>6 DEF Supported, R!Inductive
<1> HIDE DEF F, E0, x
<1>8. F[x] => Supported(loop, v, {v})
  BY <1>3, <1>5, YesIsRight
<1>9. Supported(loop, v, {v}) /\ ~ E0[x] => F[x]
  BY <1>3, <1>4, <1>5, NoIsRight
<1> QED
  BY <1>1, <1>2, <1>7, <1>8, <1>9

LEMMA FinderIsRight ==
  ASSUME NEW loop, R!IsComputable(loop)
  PROVE  /\ R!CarriesDependence(loop) => R!nLoopCarriedDep(loop) > 0
         /\ R!nLoopCarriedDep(loop) > 0 => R!CarriesDependence(loop) \/ R!TooBig(loop)
<1> DEFINE D == {phi \in loop.phis \ {loop.canon} :
                   LET inValue == R!Operand(loop, phi, 1)
                   IN  ~ R!Invariant(loop, inValue) /\ ~ R!isIndVar(inValue, {inValue}, loop)}
<1>1. IsFiniteSet(D) /\ Cardinality(D) \in Nat
  <2>1. IsFiniteSet(DOMAIN loop.def) /\ D \subseteq DOMAIN loop.def
    BY DEF R!IsComputable, R!IsFiniteSet, IsFiniteSet
  <2> QED
    BY <2>1, FS_Subset, FS_CardinalityType
<1>2. R!nLoopCarriedDep(loop) = Cardinality(D)
  BY DEF R!nLoopCarriedDep, R!Cardinality, Cardinality
<1>3. Cardinality(D) > 0 <=> D # {}
  <2> HIDE DEF D
  <2>1. Cardinality(D) = 0 <=> D = {}
    BY <1>1, FS_EmptySet
  <2> QED
    BY <1>1, <2>1
<1>4. ASSUME R!CarriesDependence(loop) PROVE D # {}
  <2>1. PICK phi \in loop.phis \ {loop.canon} :
          /\ R!Operand(loop, phi, 1) \in DOMAIN loop.def
          /\ ~ R!Inductive(loop, R!Operand(loop, phi, 1))
    BY <1>4 DEF R!CarriesDependence
  <2>2. phi \in D
    BY <2>1, SearchFindsInductive DEF R!Invariant
  <2> QED
    BY <2>2
<1>5. ASSUME NEW phi \in D PROVE R!CarriesDependence(loop) \/ R!TooBig(loop)
  <2>1. PICK v : v = R!Operand(loop, phi, 1)
    OBVIOUS
  <2>2. /\ phi \in loop.phis \ {loop.canon} /\ v \in DOMAIN loop.def
        /\ ~ R!isIndVar(v, {v}, loop)
    BY <2>1 DEF R!Invariant
  <2>3. v \in R!Searched(loop)
    BY <2>1, <2>2 DEF R!Searched
  <2>4. ~ R!Inductive(loop, v) \/ R!ExceedsLimit(v, {v}, loop)
    BY <2>2, SearchFindsInductive
  <2> QED
    BY <2>1, <2>2, <2>3, <2>4 DEF R!CarriesDependence, R!TooBig
<1> QED
  BY <1>2, <1>3, <1>4, <1>5

\* Of the loops with an id, one comes last.
LEMMA LastLoop ==
  ASSUME unit \in Units, NEW T \in SUBSET AllLoops, T # {}
  PROVE  \E x \in T : \A y \in T : y = x \/ ComesBefore(y, x)
<1> DEFINE K == {x[1] : x \in T}
<1>1. \A x \in T : /\ x[1] \in 1 .. Len(Functions) /\ Len(Functions) \in Nat /\ x = <<x[1], x[2]>>
                   /\ x[2] \in 1 .. Len(Functions[x[1]].loops)
                   /\ Len(Functions[x[1]].loops) \in Nat /\ IsFunction(Functions[x[1]])
  BY LoopFacts
<1>2. PICK k \in K : \A n \in K : n <= k
  <2>1. K # {} /\ K \subseteq 0 .. Len(Functions) /\ Len(Functions) \in Nat
    BY <1>1
  <2> QED
    BY <2>1, GreatestOf
<1> DEFINE L == Len(Functions[k].loops)
           U == {x \in T : x[1] = k}
           D == {LoopAt(x).depth : x \in U}
<1>3. k \in Nat /\ U # {} /\ L \in Nat /\ \A x \in T : x[1] \in Nat /\ x[1] <= k
  BY <1>1, <1>2
<1>4. \A x \in U : LoopAt(x).depth \in 1 .. L /\ x[2] \in 1 .. L /\ x = <<k, x[2]>>
  <2> SUFFICES ASSUME NEW x \in U
               PROVE  LoopAt(x).depth \in 1 .. L /\ x[2] \in 1 .. L /\ x = <<k, x[2]>>
    OBVIOUS
  <2>1. IsFunction(Functions[k]) /\ x[2] \in 1 .. L /\ x = <<k, x[2]>> /\ LoopAt(x) = Functions[k].loops[x[2]]
    BY <1>1 DEF LoopAt
  <2>2. x[2] \in DOMAIN Functions[k].loops
    BY <2>1, SequenceFacts DEF IsFunction
  <2> QED
    BY <2>1, <2>2 DEF IsFunction
<1> HIDE DEF L, U, K
<1>5. PICK d \in D : \A n \in D : n <= d
  <2>1. D # {} /\ D \subseteq 0 .. L
    BY <1>3, <1>4
  <2> QED
    BY <1>3, <2>1, GreatestOf
<1> DEFINE W == {x \in U : LoopAt(x).depth = d}
           I == {x[2] : x \in W}
<1>6. PICK i \in I : \A n \in I : n <= i
  <2>1. I # {} /\ I \subseteq 0 .. L
    BY <1>4
  <2> QED
    BY <1>3, <2>1, GreatestOf
<1>7. PICK x \in W : i = x[2]
  OBVIOUS
<1>8. x \in U /\ x \in T /\ LoopAt(x).depth = d /\ d \in Nat /\ i \in Nat /\ x = <<k, i>>
  BY <1>4, <1>7 DEF U
<1>9. ASSUME NEW y \in T PROVE y = x \/ ComesBefore(y, x)
  <2>1. CASE y[1] # k
    BY <1>3, <1>8, <2>1 DEF ComesBefore
  <2>2. CASE y[1] = k
    <3>1. y \in U /\ LoopAt(y).depth \in Nat /\ LoopAt(y).depth <= d /\ y = <<k, y[2]>> /\ y[2] \in Nat
      BY <1>4, <1>5, <2>2 DEF U
    <3>2. CASE LoopAt(y).depth # d
      BY <1>8, <2>2, <3>1, <3>2 DEF ComesBefore
    <3>3. CASE LoopAt(y).depth = d
      <4>1. y[2] <= i
        BY <1>6, <3>1, <3>3
      <4>2. y[2] = i => y = x
        BY <1>8, <3>1
      <4> QED
        BY <1>8, <2>2, <3>1, <3>3, <4>1, <4>2 DEF ComesBefore
    <3> QED
      BY <3>2, <3>3
  <2> QED
    BY <2>1, <2>2
<1> QED
  BY <1>8, <1>9

LoopsById == [id \in DOMAIN loopOfCntxID |-> LoopAt(loopOfCntxID[id])]

FinderInv ==
  /\ LoopInv
  /\ stage \in {"link", "run"} => nonDOALLable = R!NonDOALLable(LoopsById)

LEMMA FinderStep == FinderInv /\ [Next]_vars => FinderInv'
<1> SUFFICES ASSUME FinderInv, [Next]_vars PROVE FinderInv'
  OBVIOUS
<1>1. LoopInv'
  BY LoopStep DEF FinderInv
<1>2. CASE FindDependences
  <2>1. /\ \/ nonDOALLable' = R!NonDOALLable(LoopsById)
           \/ stage' = "too big"
        /\ unit' = unit /\ loopOfCntxID' = loopOfCntxID
    BY <1>2 DEF FindDependences, LoopsById
  <2>2. LoopsById' = LoopsById
    BY <2>1 DEF LoopsById, LoopAt, Functions
  <2> QED
    BY <1>1, <2>1, <2>2 DEF FinderInv
<1>3. CASE AddInitAndFini \/ RunConstructors \/ RunMain \/ RunDestructors \/ UNCHANGED vars
  <2>1. /\ UNCHANGED <<unit, loopOfCntxID, nonDOALLable>>
        /\ stage' \in {"link", "run"} => stage \in {"link", "run"}
    BY <1>3 DEF AddInitAndFini, RunConstructors, RunMain, RunDestructors, vars, loopVars
  <2>2. LoopsById' = LoopsById
    BY <2>1 DEF LoopsById, LoopAt, Functions
  <2> QED
    BY <1>1, <2>1, <2>2 DEF FinderInv
<1>4. CASE NameFunction \/ LoadMetadata \/ recordLoopIDforEachLoop \/ GiveDevices
  <2>1. stage' \notin {"link", "run"}
    BY <1>4 DEF NameFunction, LoadMetadata, recordLoopIDforEachLoop, GiveDevices
  <2> QED
    BY <1>1, <2>1 DEF FinderInv
<1> QED
  BY <1>2, <1>3, <1>4 DEF Next

LEMMA ListIsRight == FinderInv => DependencesListed
<1> DEFINE loop(id) == LoopAt(loopOfCntxID[id])
           carry    == {id \in DOMAIN loopOfCntxID : R!CarriesDependence(loop(id))}
           tooBig   == {id \in DOMAIN loopOfCntxID : R!TooBig(loop(id))}
<1> SUFFICES ASSUME FinderInv, stage \in {"link", "run"}
             PROVE  carry \subseteq nonDOALLable /\ nonDOALLable \subseteq carry \cup tooBig
  BY DEF DependencesListed
<1>1. LoopIdsRecorded /\ unit \in Units
  BY DEF FinderInv, LoopInv, NamerInv
<1>2. ASSUME NEW id \in DOMAIN loopOfCntxID
      PROVE  loopOfCntxID[id] \in AllLoops
  <2> DEFINE T == {x \in AllLoops : ContextIdOf(x) = id}
  <2>1. T # {}
    BY <1>1 DEF LoopIdsRecorded
  <2>2. \E x \in T : \A y \in T : y = x \/ ComesBefore(y, x)
    BY <1>1, <2>1, LastLoop
  <2>3. \E x \in AllLoops : ContextIdOf(x) = id
          /\ \A y \in AllLoops : ContextIdOf(y) = id => y = x \/ ComesBefore(y, x)
    BY <2>2
  <2>4. loopOfCntxID[id] = CHOOSE x \in AllLoops : ContextIdOf(x) = id
          /\ \A y \in AllLoops : ContextIdOf(y) = id => y = x \/ ComesBefore(y, x)
    BY <1>1 DEF LoopIdsRecorded
  <2> QED
    BY <2>3, <2>4, Zenon
<1>3. ASSUME NEW x \in AllLoops
      PROVE  R!IsComputable(LoopAt(x))
  <2>1. /\ IsFunction(Functions[x[1]])
        /\ x[2] \in 1 .. Len(Functions[x[1]].loops)
    BY <1>1, LoopFacts
  <2>2. x[2] \in DOMAIN Functions[x[1]].loops
    BY <2>1, SequenceFacts DEF IsFunction
  <2> QED
    BY <2>1, <2>2 DEF IsFunction, LoopAt
<1>4. nonDOALLable = R!NonDOALLable(LoopsById)
  BY DEF FinderInv
<1>5. R!NonDOALLable(LoopsById)
        = {id \in DOMAIN loopOfCntxID : R!nLoopCarriedDep(LoopAt(loopOfCntxID[id])) > 0}
  BY DEF R!NonDOALLable, LoopsById
<1>6. \A id \in DOMAIN loopOfCntxID :
        /\ R!CarriesDependence(loop(id)) => R!nLoopCarriedDep(loop(id)) > 0
        /\ R!nLoopCarriedDep(loop(id)) > 0 => R!CarriesDependence(loop(id)) \/ R!TooBig(loop(id))
  BY <1>2, <1>3, FinderIsRight
<1> QED
  BY <1>4, <1>5, <1>6

(***************************************************************************)
(* The dependence finder's file lists every loop that carries a dependence *)
(* in a register, and else only loops with a chain of values beyond the    *)
(* limit of the search: every yes of the search is right, and so is every  *)
(* no that no call beyond the limit had a part in.                         *)
(***************************************************************************)
THEOREM RegisterDependences == Spec => []DependencesListed
<1>1. Init => FinderInv
  BY LoopInit DEF FinderInv, Init
<1>2. Spec => []FinderInv
  BY <1>1, FinderStep, PTL DEF Spec
<1> QED
  BY <1>2, ListIsRight, PTL

-----------------------------------------------------------------------------
(***************************************************************************)
(* Lists of constructors and destructors.  Where an element of a joined    *)
(* list comes from: src[m] = <<i, j>> if it is the j-th of the i-th.       *)
(***************************************************************************)
Source(seqs, n, p) == p = <<p[1], p[2]>> /\ p[1] \in 1 .. n /\ p[2] \in 1 .. Len(seqs[p[1]])

AreSources(src, F, seqs, n) ==
  /\ \A m \in 1 .. Len(F) : Source(seqs, n, src[m]) /\ F[m] = seqs[src[m][1]][src[m][2]]
  /\ \A l, m \in 1 .. Len(F) : src[l] = src[m] => l = m
  /\ \A i \in 1 .. n : \A j \in 1 .. Len(seqs[i]) : \E m \in 1 .. Len(F) : src[m] = <<i, j>>

LEMMA FlattenSources ==
  ASSUME NEW S, NEW seqs, NEW n \in Nat, seqs \in [1 .. n -> Seq(S)]
  PROVE  FlattenSeq(seqs) \in Seq(S) /\ \E src : AreSources(src, FlattenSeq(seqs), seqs, n)
<1> DEFINE F == FlattenSeq(seqs)
<1>1. F \in Seq(S) /\ \E st \in [0 .. n -> Nat] : IsLayout(st, seqs, n)
  BY FlattenPlaces
<1>2. PICK st \in [0 .. n -> Nat] : IsLayout(st, seqs, n)
  BY <1>1
<1>3. Len(F) = st[n] /\ Len(F) \in Nat
  BY <1>1, <1>2, LenProperties DEF IsLayout
<1>4. /\ \A i \in 1 .. n : Len(seqs[i]) \in Nat /\ i - 1 \in 0 .. n /\ i \in 0 .. n
                           /\ st[i] = st[i - 1] + Len(seqs[i])
      /\ \A i \in 0 .. n : st[i] \in Nat
      /\ \A i, k \in 0 .. n : i <= k => st[i] <= st[k]
      /\ \A i \in 1 .. n : \A j \in 1 .. Len(seqs[i]) :
           st[i - 1] + j \in 1 .. Len(F) /\ F[st[i - 1] + j] = seqs[i][j]
      /\ \A m \in 1 .. Len(F) : \E i \in 1 .. n : st[i - 1] < m /\ m <= st[i]
  <2>1. \A i \in 1 .. n : Len(seqs[i]) \in Nat
    BY LenProperties
  <2> QED
    BY <1>2, <1>3, <2>1 DEF IsLayout
<1> HIDE DEF F
<1> DEFINE At(m, p) == Source(seqs, n, p) /\ m = st[p[1] - 1] + p[2]
           src == [m \in 1 .. Len(F) |-> CHOOSE p : At(m, p)]
<1>5. ASSUME NEW m \in 1 .. Len(F)
      PROVE  At(m, src[m])
  <2>1. PICK i \in 1 .. n : st[i - 1] < m /\ m <= st[i]
    BY <1>4
  <2>2. PICK a \in Nat, k \in Nat : a = st[i - 1] /\ k = Len(seqs[i]) /\ st[i] = a + k
    BY <1>4
  <2>3. m \in Nat
    BY <1>3
  <2>4. a < m /\ m <= a + k
    BY <2>1, <2>2
  <2>5. m - a \in 1 .. k /\ m = a + (m - a)
    BY <2>3, <2>4
  <2>6. At(m, <<i, m - a>>)
    BY <2>2, <2>5 DEF Source
  <2> HIDE DEF At
  <2>7. At(m, CHOOSE p : At(m, p))
    BY <2>6, Zenon
  <2>8. src[m] = CHOOSE p : At(m, p)
    OBVIOUS
  <2> QED
    BY <2>7, <2>8, Zenon
<1>6. ASSUME NEW m \in 1 .. Len(F)
      PROVE  F[m] = seqs[src[m][1]][src[m][2]]
  <2>1. /\ src[m][1] \in 1 .. n /\ src[m][2] \in 1 .. Len(seqs[src[m][1]])
        /\ m = st[src[m][1] - 1] + src[m][2]
    BY <1>5 DEF Source
  <2> HIDE DEF src
  <2>2. PICK a, b : a = src[m][1] /\ b = src[m][2]
    OBVIOUS
  <2>3. a \in 1 .. n /\ b \in 1 .. Len(seqs[a]) /\ m = st[a - 1] + b
    BY <2>1, <2>2
  <2>4. F[st[a - 1] + b] = seqs[a][b]
    BY <1>4, <2>3
  <2>5. F[m] = seqs[a][b]
    BY <2>3, <2>4
  <2> QED
    BY <2>2, <2>5, Zenon
<1>7. ASSUME NEW l \in 1 .. Len(F), NEW m \in 1 .. Len(F), src[l] = src[m]
      PROVE  l = m
  BY <1>5, <1>7
<1>8. ASSUME NEW i \in 1 .. n, NEW j \in 1 .. Len(seqs[i])
      PROVE  \E m \in 1 .. Len(F) : src[m] = <<i, j>>
  <2>1. PICK m : m = st[i - 1] + j
    OBVIOUS
  <2>2. m \in 1 .. Len(F)
    BY <1>4, <2>1
  <2>3. PICK a, b : src[m] = <<a, b>> /\ a \in 1 .. n /\ b \in 1 .. Len(seqs[a]) /\ m = st[a - 1] + b
    BY <1>5, <2>2 DEF Source
  <2>4. PICK x \in Nat, y \in Nat, p \in Nat, q \in Nat :
          /\ x = st[i - 1] /\ p = Len(seqs[i]) /\ st[i] = x + p
          /\ y = st[a - 1] /\ q = Len(seqs[a]) /\ st[a] = y + q
    <3>1. st[i - 1] \in Nat /\ st[a - 1] \in Nat /\ Len(seqs[i]) \in Nat /\ Len(seqs[a]) \in Nat
      BY <1>4, <2>3
    <3>2. st[i] = st[i - 1] + Len(seqs[i]) /\ st[a] = st[a - 1] + Len(seqs[a])
      BY <1>4, <2>3
    <3> QED
      BY <3>1, <3>2
  <2>5. i \in Nat /\ a \in Nat /\ j \in 1 .. p /\ b \in 1 .. q /\ x + j = y + b
    BY <2>1, <2>3, <2>4
  <2>6. (i < a => x + p <= y) /\ (a < i => y + q <= x)
    <3>1. i - 1 \in 0 .. n /\ a - 1 \in 0 .. n /\ i \in 0 .. n /\ a \in 0 .. n
      BY <2>3
    <3>2. (i < a => st[i] <= st[a - 1]) /\ (a < i => st[a] <= st[i - 1])
      BY <1>4, <2>5, <3>1
    <3> QED
      BY <2>4, <3>2
  <2>7. ~ (i < a) /\ ~ (a < i)
    <3>1. j >= 1 /\ b >= 1 /\ j <= p /\ b <= q /\ j \in Nat /\ b \in Nat
      BY <2>5
    <3>2. ~ (x + p <= y) /\ ~ (y + q <= x)
      BY <2>5, <3>1
    <3> QED
      BY <2>6, <3>2
  <2>8. a = i
    BY <2>5, <2>7
  <2>9. b = j
    <3>1. x = y
      BY <2>4, <2>8
    <3>2. j \in Nat /\ b \in Nat
      BY <2>5
    <3> QED
      BY <2>5, <3>1, <3>2
  <2> QED
    BY <2>2, <2>3, <2>8, <2>9
<1> HIDE DEF src
<1>9. AreSources(src, F, seqs, n)
  <2>1. \A m \in 1 .. Len(F) : Source(seqs, n, src[m])
    BY <1>5
  <2> QED
    BY <1>6, <1>7, <1>8, <2>1 DEF AreSources
<1> QED
  BY <1>1, <1>9 DEF F

(***************************************************************************)
(* A list is well formed: its functions are called at one place each.      *)
(***************************************************************************)
IsPlain(list) ==
  /\ IsSequence(list) /\ Len(list) \in Nat /\ DOMAIN list = 1 .. Len(list)
  /\ \A i \in 1 .. Len(list) : IsSequence(list[i].calls) /\ list[i].priority \in Nat
  /\ \A i, j \in DOMAIN list : \A m \in DOMAIN list[i].calls, n \in DOMAIN list[j].calls :
       list[i].calls[m] = list[j].calls[n] => i = j /\ m = n

LEMMA SequenceOf ==
  ASSUME NEW S, NEW s \in Seq(S)
  PROVE  IsSequence(s)
<1>1. s = [m \in 1 .. Len(s) |-> s[m]] /\ Len(s) \in Nat /\ DOMAIN s = 1 .. Len(s)
  BY LenProperties
<1>2. \A m \in 1 .. Len(s) : s[m] \in ToSet(s)
  BY <1>1 DEF ToSet
<1>3. s \in [1 .. Len(s) -> ToSet(s)]
  BY <1>1, <1>2
<1> QED
  BY <1>1, <1>3, IsASeq DEF IsSequence

LEMMA ListIsPlain ==
  ASSUME NEW list, IsList(list)
  PROVE  IsPlain(list)
<1>1. Len(list) \in Nat /\ DOMAIN list = 1 .. Len(list)
  BY SequenceFacts DEF IsList
<1>2. \A i \in 1 .. Len(list) : IsSequence(list[i].calls) /\ list[i].priority \in Nat
  <2>1. G!DefaultPriority \in Nat
    BY DEF G!DefaultPriority
  <2> QED
    BY <1>1, <2>1 DEF IsList
<1>3. \A i, j \in DOMAIN list : \A m \in DOMAIN list[i].calls, n \in DOMAIN list[j].calls :
        list[i].calls[m] = list[j].calls[n] => i = j /\ m = n
  BY DEF IsList
<1>4. IsSequence(list)
  BY DEF IsList
<1> QED
  BY <1>1, <1>2, <1>3, <1>4 DEF IsPlain

LEMMA InFunctions ==
  ASSUME NEW list, NEW f
  PROVE  f \in FunctionsOf(list)
           <=> \E i \in DOMAIN list : \E m \in DOMAIN list[i].calls : list[i].calls[m] = f
BY DEF FunctionsOf, ToSet

\* What becomes of a list: A has d, which calls f first, and the records that stay.
Appended(A, list, f, priority, T) ==
  /\ IsPlain(A) /\ FunctionsOf(A) = FunctionsOf(list) \cup {f}
  /\ \E d \in DOMAIN A :
       /\ A[d].priority = priority /\ 1 \in DOMAIN A[d].calls /\ A[d].calls[1] = f
       /\ \A a \in DOMAIN A : a # d => \E i \in DOMAIN list : A[a] = list[i]
       /\ \A i \in T : ToSet(list[i].calls) \subseteq ToSet(A[d].calls)
       /\ T = {} => A[d].calls = <<f>>

Moving(list, priority, ascending) ==
  {i \in DOMAIN list : IF ascending THEN list[i].priority > priority
                                    ELSE list[i].priority < priority}

\* The records that stay, and the calls that move.
Stays(list, T) == FlattenSeq([i \in DOMAIN list |-> IF i \in T THEN <<>> ELSE <<list[i]>>])
Moved(list, T) == FlattenSeq([i \in DOMAIN list |-> IF i \in T THEN list[i].calls ELSE <<>>])

\* Where the records that stay, and the calls that move, come from.
Kept(own, list, T) ==
  /\ \A m \in 1 .. Len(Stays(list, T)) :
       own[m] \in DOMAIN list \ T /\ Stays(list, T)[m] = list[own[m]]
  /\ \A l, m \in 1 .. Len(Stays(list, T)) : own[l] = own[m] => l = m
  /\ \A i \in DOMAIN list \ T : \E m \in 1 .. Len(Stays(list, T)) : own[m] = i

Taken(src, list, T) ==
  /\ \A m \in 1 .. Len(Moved(list, T)) :
       /\ src[m] = <<src[m][1], src[m][2]>>
       /\ src[m][1] \in DOMAIN list /\ src[m][1] \in T
       /\ src[m][2] \in DOMAIN list[src[m][1]].calls
       /\ Moved(list, T)[m] = list[src[m][1]].calls[src[m][2]]
  /\ \A l, m \in 1 .. Len(Moved(list, T)) : src[l] = src[m] => l = m
  /\ \A i \in DOMAIN list : i \in T => \A j \in DOMAIN list[i].calls :
       \E m \in 1 .. Len(Moved(list, T)) : src[m] = <<i, j>>

LEMMA StaysFacts ==
  ASSUME NEW list, IsPlain(list), NEW T
  PROVE  /\ Stays(list, T) \in Seq(ToSet(list))
         /\ \E own : Kept(own, list, T)
<1> DEFINE n == Len(list)
           S == ToSet(list)
           seqs == [i \in DOMAIN list |-> IF i \in T THEN <<>> ELSE <<list[i]>>]
           F == Stays(list, T)
<1>1. n \in Nat /\ DOMAIN list = 1 .. n
  BY DEF IsPlain
<1>2. F = FlattenSeq(seqs)
  BY DEF Stays
<1>3. \A i \in 1 .. n : seqs[i] = IF i \in T THEN <<>> ELSE <<list[i]>>
  BY <1>1
<1>4. \A i \in 1 .. n : list[i] \in S
  BY <1>1 DEF ToSet
<1>5. \A i \in 1 .. n : /\ seqs[i] \in Seq(S)
                        /\ i \in T => Len(seqs[i]) = 0
                        /\ i \notin T => Len(seqs[i]) = 1 /\ seqs[i][1] = list[i]
  BY <1>3, <1>4
<1>6. seqs \in [1 .. n -> Seq(S)]
  BY <1>1, <1>5
<1> HIDE DEF seqs, F, S, n
<1>7. F \in Seq(S) /\ \E src : AreSources(src, F, seqs, n)
  BY <1>1, <1>2, <1>6, FlattenSources
<1>8. PICK src : AreSources(src, F, seqs, n)
  BY <1>7
<1> DEFINE own == [m \in 1 .. Len(F) |-> src[m][1]]
<1>9. ASSUME NEW m \in 1 .. Len(F)
      PROVE  own[m] \in DOMAIN list \ T /\ F[m] = list[own[m]] /\ src[m] = <<own[m], 1>>
  <2>1. /\ src[m] = <<src[m][1], src[m][2]>> /\ src[m][1] \in 1 .. n
        /\ src[m][2] \in 1 .. Len(seqs[src[m][1]]) /\ F[m] = seqs[src[m][1]][src[m][2]]
    BY <1>8 DEF AreSources, Source
  <2>2. PICK i, j : src[m] = <<i, j>> /\ i = src[m][1] /\ j = src[m][2]
    BY <2>1
  <2>3. i \in 1 .. n /\ j \in 1 .. Len(seqs[i]) /\ F[m] = seqs[i][j]
    BY <2>1, <2>2
  <2>4. i \notin T /\ j = 1
    BY <1>5, <2>3
  <2> QED
    BY <1>1, <1>5, <2>2, <2>3, <2>4
<1>10. ASSUME NEW l \in 1 .. Len(F), NEW m \in 1 .. Len(F), own[l] = own[m]
       PROVE  l = m
  <2>1. src[l] = src[m]
    BY <1>9, <1>10
  <2> QED
    BY <1>8, <2>1 DEF AreSources
<1>11. ASSUME NEW i \in DOMAIN list \ T
       PROVE  \E m \in 1 .. Len(F) : own[m] = i
  <2>1. 1 \in 1 .. Len(seqs[i]) /\ i \in 1 .. n
    BY <1>1, <1>5
  <2>2. PICK m \in 1 .. Len(F) : src[m] = <<i, 1>>
    BY <1>8, <2>1 DEF AreSources
  <2> QED
    BY <2>2
<1> HIDE DEF own
<1>12. Kept(own, list, T)
  BY <1>9, <1>10, <1>11 DEF F, Kept
<1> QED
  BY <1>7, <1>12 DEF F, S

LEMMA MovedFacts ==
  ASSUME NEW list, IsPlain(list), NEW T
  PROVE  /\ Moved(list, T) \in Seq(FunctionsOf(list))
         /\ \E src : Taken(src, list, T)
<1> DEFINE n == Len(list)
           S == FunctionsOf(list)
           seqs == [i \in DOMAIN list |-> IF i \in T THEN list[i].calls ELSE <<>>]
           F == Moved(list, T)
<1>1. n \in Nat /\ DOMAIN list = 1 .. n
  BY DEF IsPlain
<1>2. F = FlattenSeq(seqs)
  BY DEF Moved
<1>3. \A i \in 1 .. n : seqs[i] = IF i \in T THEN list[i].calls ELSE <<>>
  BY <1>1
<1>4. \A i \in 1 .. n : /\ list[i].calls \in Seq(S)
                        /\ DOMAIN list[i].calls = 1 .. Len(list[i].calls)
  <2> SUFFICES ASSUME NEW i \in 1 .. n
               PROVE  list[i].calls \in Seq(S) /\ DOMAIN list[i].calls = 1 .. Len(list[i].calls)
    OBVIOUS
  <2>1. IsSequence(list[i].calls) /\ ToSet(list[i].calls) \subseteq S
    BY <1>1 DEF IsPlain, FunctionsOf
  <2>2. list[i].calls \in Seq(S)
    BY <2>1 DEF IsSequence
  <2> QED
    BY <2>1, <2>2, SequenceFacts
<1>5. \A i \in 1 .. n : /\ seqs[i] \in Seq(S)
                        /\ i \in T => seqs[i] = list[i].calls
                        /\ i \notin T => Len(seqs[i]) = 0
  BY <1>3, <1>4
<1>6. seqs \in [1 .. n -> Seq(S)]
  BY <1>1, <1>5
<1> HIDE DEF seqs, F, S, n
<1>7. F \in Seq(S) /\ \E src : AreSources(src, F, seqs, n)
  BY <1>1, <1>2, <1>6, FlattenSources
<1>8. PICK src : AreSources(src, F, seqs, n)
  BY <1>7
<1>9. ASSUME NEW m \in 1 .. Len(F)
      PROVE  /\ src[m] = <<src[m][1], src[m][2]>>
             /\ src[m][1] \in DOMAIN list /\ src[m][1] \in T
             /\ src[m][2] \in DOMAIN list[src[m][1]].calls
             /\ F[m] = list[src[m][1]].calls[src[m][2]]
  <2>1. /\ src[m] = <<src[m][1], src[m][2]>> /\ src[m][1] \in 1 .. n
        /\ src[m][2] \in 1 .. Len(seqs[src[m][1]]) /\ F[m] = seqs[src[m][1]][src[m][2]]
    BY <1>8 DEF AreSources, Source
  <2>2. PICK i, j : src[m] = <<i, j>> /\ i = src[m][1] /\ j = src[m][2]
    BY <2>1
  <2>3. i \in 1 .. n /\ j \in 1 .. Len(seqs[i]) /\ F[m] = seqs[i][j]
    BY <2>1, <2>2
  <2>4. i \in T /\ seqs[i] = list[i].calls
    BY <1>5, <2>3
  <2>5. j \in DOMAIN list[i].calls
    BY <1>4, <2>3, <2>4
  <2> QED
    BY <1>1, <2>2, <2>3, <2>4, <2>5
<1>10. \A l, m \in 1 .. Len(F) : src[l] = src[m] => l = m
  BY <1>8 DEF AreSources
<1>11. ASSUME NEW i \in DOMAIN list, i \in T, NEW j \in DOMAIN list[i].calls
       PROVE  \E m \in 1 .. Len(F) : src[m] = <<i, j>>
  <2>1. j \in 1 .. Len(seqs[i]) /\ i \in 1 .. n
    BY <1>1, <1>4, <1>5, <1>11
  <2> QED
    BY <1>8, <2>1 DEF AreSources
<1>12. Taken(src, list, T)
  BY <1>9, <1>10, <1>11 DEF F, Taken
<1> QED
  BY <1>7, <1>12 DEF F, S


LEMMA AppendIs ==
  ASSUME NEW list, NEW f, NEW priority, NEW ascending
  PROVE  G!appendToConstructorArray(list, f, priority, ascending)
           = LET T == Moving(list, priority, ascending)
             IN  Append(Stays(list, T), [priority |-> priority, calls |-> <<f>> \o Moved(list, T)])
<1> DEFINE T == Moving(list, priority, ascending)
           After(r) == IF ascending THEN r.priority > priority ELSE r.priority < priority
           s == [i \in DOMAIN list |-> IF After(list[i]) THEN <<>> ELSE <<list[i]>>]
           c == [i \in DOMAIN list |-> IF After(list[i]) THEN list[i].calls ELSE <<>>]
<1>1. \A i \in DOMAIN list : After(list[i]) <=> i \in T
  BY DEF Moving
<1>2. s = [i \in DOMAIN list |-> IF i \in T THEN <<>> ELSE <<list[i]>>]
  BY <1>1
<1>3. c = [i \in DOMAIN list |-> IF i \in T THEN list[i].calls ELSE <<>>]
  BY <1>1
<1>4. G!appendToConstructorArray(list, f, priority, ascending)
        = Append(G!Joined(s), G!Record(priority, <<f>> \o G!Joined(c)))
  BY DEF G!appendToConstructorArray
<1>5. \A q : G!Joined(q) = FlattenSeq(q)
  BY DEF G!Joined, FlattenSeq
<1> HIDE DEF s, c, T
<1>6. G!Joined(s) = Stays(list, T)
  BY <1>2, <1>5 DEF Stays
<1>7. G!Joined(c) = Moved(list, T)
  BY <1>3, <1>5 DEF Moved
<1>8. G!appendToConstructorArray(list, f, priority, ascending)
        = Append(Stays(list, T), [priority |-> priority, calls |-> <<f>> \o Moved(list, T)])
  BY <1>4, <1>6, <1>7 DEF G!Record
<1> QED
  BY <1>8 DEF T

LEMMA AppendFacts ==
  ASSUME NEW list, IsPlain(list), NEW f, f \notin FunctionsOf(list),
         NEW priority \in Nat, NEW ascending
  PROVE  Appended(G!appendToConstructorArray(list, f, priority, ascending), list, f, priority,
                  Moving(list, priority, ascending))
<1> DEFINE T == Moving(list, priority, ascending)
           st == Stays(list, T)
           mv == Moved(list, T)
           driver == [priority |-> priority, calls |-> <<f>> \o mv]
           A == G!appendToConstructorArray(list, f, priority, ascending)
           d == Len(st) + 1
<1>1. A = Append(st, driver)
  BY AppendIs
<1>2. T \subseteq DOMAIN list
  BY DEF Moving
<1> HIDE DEF T, A
<1>3. st \in Seq(ToSet(list)) /\ mv \in Seq(FunctionsOf(list))
  BY StaysFacts, MovedFacts
<1>4. PICK own : Kept(own, list, T)
  BY StaysFacts
<1>5. /\ \A m \in 1 .. Len(st) : own[m] \in DOMAIN list \ T /\ st[m] = list[own[m]]
      /\ \A l, m \in 1 .. Len(st) : own[l] = own[m] => l = m
      /\ \A i \in DOMAIN list \ T : \E m \in 1 .. Len(st) : own[m] = i
  BY <1>4 DEF Kept
<1>6. PICK src : Taken(src, list, T)
  BY MovedFacts
<1>7. /\ \A m \in 1 .. Len(mv) :
           /\ src[m] = <<src[m][1], src[m][2]>>
           /\ src[m][1] \in DOMAIN list /\ src[m][1] \in T
           /\ src[m][2] \in DOMAIN list[src[m][1]].calls
           /\ mv[m] = list[src[m][1]].calls[src[m][2]]
      /\ \A l, m \in 1 .. Len(mv) : src[l] = src[m] => l = m
      /\ \A i \in DOMAIN list : i \in T => \A j \in DOMAIN list[i].calls :
           \E m \in 1 .. Len(mv) : src[m] = <<i, j>>
  BY <1>6 DEF Taken
<1>8. Len(st) \in Nat /\ Len(mv) \in Nat /\ DOMAIN list = 1 .. Len(list) /\ Len(list) \in Nat
  BY <1>3, LenProperties DEF IsPlain
<1> DEFINE calls == <<f>> \o mv
<1>9. /\ calls \in Seq(FunctionsOf(list) \cup {f}) /\ Len(calls) = 1 + Len(mv)
      /\ DOMAIN calls = 1 .. 1 + Len(mv) /\ calls[1] = f
      /\ \A m \in 2 .. 1 + Len(mv) : calls[m] = mv[m - 1]
  <2> DEFINE U == FunctionsOf(list) \cup {f}
  <2>1. <<f>> \in Seq(U) /\ Len(<<f>>) = 1 /\ <<f>>[1] = f
    OBVIOUS
  <2>2. mv \in Seq(U)
    BY <1>3
  <2>3. /\ calls \in Seq(U) /\ Len(calls) = 1 + Len(mv)
        /\ \A i \in 1 .. 1 + Len(mv) : calls[i] = IF i <= 1 THEN <<f>>[i] ELSE mv[i - 1]
    BY <2>1, <2>2, ConcatProperties
  <2>4. DOMAIN calls = 1 .. 1 + Len(mv)
    BY <2>3, LenProperties
  <2> HIDE DEF calls
  <2> QED
    BY <1>8, <2>1, <2>3, <2>4
<1> HIDE DEF calls, st, mv
<1>10. driver.calls = calls /\ driver.priority = priority
  BY DEF calls
<1> HIDE DEF driver
<1>11. /\ IsSequence(A)
      /\ Len(A) = d /\ DOMAIN A = 1 .. d /\ A[d] = driver
      /\ \A m \in 1 .. Len(st) : A[m] = st[m]
  <2> DEFINE U == ToSet(list) \cup {driver}
  <2>1. st \in Seq(U) /\ driver \in U
    BY <1>3
  <2>2. /\ A \in Seq(U) /\ Len(A) = d /\ A[d] = driver
        /\ \A m \in 1 .. Len(st) : A[m] = st[m]
    BY <1>1, <2>1, AppendProperties
  <2>3. DOMAIN A = 1 .. d /\ IsSequence(A)
    BY <2>2, LenProperties, SequenceOf
  <2> QED
    BY <2>2, <2>3
<1>12. \A a \in 1 .. d : a = d \/ a \in 1 .. Len(st)
  BY <1>8
<1>13. \A a \in 1 .. Len(st) : /\ A[a] = list[own[a]] /\ own[a] \in DOMAIN list /\ own[a] \notin T
  BY <1>5, <1>11
<1>14. A[d].calls = calls /\ A[d].priority = priority
  BY <1>10, <1>11
<1>15. d \in Nat /\ d \in 1 .. d
  BY <1>8
<1> HIDE DEF d
\* Where a call is at home.
<1>16. \A m \in DOMAIN calls : m # 1 =>
         /\ m - 1 \in 1 .. Len(mv) /\ calls[m] = mv[m - 1]
  BY <1>8, <1>9
<1>17. ASSUME NEW x
       PROVE  x \in FunctionsOf(A) <=> x \in FunctionsOf(list) \cup {f}
  <2>1. ASSUME NEW a \in DOMAIN A, NEW m \in DOMAIN A[a].calls, A[a].calls[m] = x
        PROVE  x \in FunctionsOf(list) \cup {f}
    <3>1. CASE a = d
      <4>1. m \in DOMAIN calls /\ calls[m] = x
        BY <1>14, <2>1, <3>1
      <4>2. calls[m] \in FunctionsOf(list) \cup {f}
        BY <1>9, <4>1
      <4> QED
        BY <4>1, <4>2
    <3>2. CASE a # d
      <4>1. A[a] = list[own[a]] /\ own[a] \in DOMAIN list
        BY <1>11, <1>12, <1>13, <3>2
      <4> QED
        BY <2>1, <4>1, InFunctions
    <3> QED
      BY <3>1, <3>2
  <2>2. CASE x = f
    <3>1. d \in DOMAIN A /\ 1 \in DOMAIN A[d].calls /\ A[d].calls[1] = x
      BY <1>8, <1>9, <1>11, <1>14, <1>15, <2>2
    <3> QED
      BY <2>2, <3>1, InFunctions
  <2>3. ASSUME NEW i \in DOMAIN list, NEW j \in DOMAIN list[i].calls, list[i].calls[j] = x
        PROVE  \E a \in DOMAIN A : \E m \in DOMAIN A[a].calls : A[a].calls[m] = x
    <3>1. CASE i \in T
      <4>1. PICK m \in 1 .. Len(mv) : src[m] = <<i, j>>
        BY <1>7, <3>1
      <4>2. mv[m] = x
        <5>1. src[m][1] = i /\ src[m][2] = j
          BY <4>1
        <5> QED
          BY <1>7, <2>3, <5>1
      <4>3. m + 1 \in 2 .. 1 + Len(mv) /\ (m + 1) - 1 = m /\ m + 1 \in 1 .. 1 + Len(mv)
        BY <1>8
      <4>4. calls[m + 1] = x /\ m + 1 \in DOMAIN calls
        BY <1>9, <4>2, <4>3
      <4> QED
        BY <1>11, <1>14, <1>15, <4>4
    <3>2. CASE i \notin T
      <4>1. PICK m \in 1 .. Len(st) : own[m] = i
        BY <1>5, <3>2
      <4>2. A[m] = list[i] /\ m \in 1 .. d
        BY <1>8, <1>13, <4>1 DEF d
      <4> QED
        BY <1>11, <2>3, <4>2
    <3> QED
      BY <3>1, <3>2
  <2> QED
    BY <2>1, <2>2, <2>3, InFunctions
<1>18. FunctionsOf(A) = FunctionsOf(list) \cup {f}
  BY <1>17
<1>19. ASSUME NEW a \in DOMAIN A, NEW b \in DOMAIN A,
              NEW m \in DOMAIN A[a].calls, NEW n \in DOMAIN A[b].calls,
              A[a].calls[m] = A[b].calls[n]
       PROVE  a = b /\ m = n
  <2>1. ASSUME NEW x \in 1 .. Len(st), NEW i \in DOMAIN A[x].calls, NEW k \in DOMAIN calls,
               A[x].calls[i] = calls[k]
        PROVE  FALSE
    <3>1. A[x] = list[own[x]] /\ own[x] \in DOMAIN list /\ own[x] \notin T
      BY <1>13
    <3>2. CASE k = 1
      <4>1. A[x].calls[i] = f
        BY <1>9, <2>1, <3>2
      <4> QED
        BY <3>1, <4>1, InFunctions
    <3>3. CASE k # 1
      <4>1. k - 1 \in 1 .. Len(mv) /\ calls[k] = mv[k - 1]
        BY <1>16, <3>3
      <4>2. PICK p, q : /\ p \in DOMAIN list /\ p \in T /\ q \in DOMAIN list[p].calls
                        /\ mv[k - 1] = list[p].calls[q]
        BY <1>7, <4>1
      <4>3. own[x] = p
        BY <2>1, <3>1, <4>1, <4>2 DEF IsPlain
      <4> QED
        BY <3>1, <4>2, <4>3
    <3> QED
      BY <3>2, <3>3
  <2>2. CASE a = d /\ b = d
    <3>1. m \in DOMAIN calls /\ n \in DOMAIN calls /\ calls[m] = calls[n]
      BY <1>14, <1>19, <2>2
    <3>2. ASSUME NEW k \in DOMAIN calls, k # 1 PROVE calls[k] # f
      <4>1. calls[k] \in FunctionsOf(list)
        <5>1. k - 1 \in 1 .. Len(mv) /\ calls[k] = mv[k - 1]
          BY <1>16, <3>2
        <5> QED
          BY <1>3, <5>1
      <4> QED
        BY <4>1
    <3>3. CASE m = 1 \/ n = 1
      BY <1>9, <2>2, <3>1, <3>2, <3>3
    <3>4. CASE m # 1 /\ n # 1
      <4>1. PICK x, y : x = m - 1 /\ y = n - 1
        OBVIOUS
      <4>2. x \in 1 .. Len(mv) /\ y \in 1 .. Len(mv) /\ mv[x] = mv[y]
        BY <1>16, <3>1, <3>4, <4>1
      <4>3. PICK p, q : /\ p \in DOMAIN list /\ q \in DOMAIN list[p].calls
                        /\ mv[x] = list[p].calls[q] /\ src[x] = <<p, q>>
        BY <1>7, <4>2
      <4>4. PICK r, s : /\ r \in DOMAIN list /\ s \in DOMAIN list[r].calls
                        /\ mv[y] = list[r].calls[s] /\ src[y] = <<r, s>>
        BY <1>7, <4>2
      <4>5. p = r /\ q = s
        <5>1. list[p].calls[q] = list[r].calls[s]
          BY <4>2, <4>3, <4>4
        <5> QED
          BY <4>3, <4>4, <5>1 DEF IsPlain
      <4>6. x = y
        BY <1>7, <4>2, <4>3, <4>4, <4>5
      <4>7. m = n
        BY <1>8, <1>9, <3>1, <4>1, <4>6
      <4> QED
        BY <2>2, <4>7
    <3> QED
      BY <3>3, <3>4
  <2>3. CASE a # d /\ b = d
    <3>1. a \in 1 .. Len(st) /\ n \in DOMAIN calls /\ A[a].calls[m] = calls[n]
      BY <1>11, <1>12, <1>14, <1>19, <2>3
    <3> QED
      BY <2>1, <3>1
  <2>4. CASE a = d /\ b # d
    <3>1. b \in 1 .. Len(st) /\ m \in DOMAIN calls /\ A[b].calls[n] = calls[m]
      BY <1>11, <1>12, <1>14, <1>19, <2>4
    <3> QED
      BY <2>1, <3>1
  <2>5. CASE a # d /\ b # d
    <3>1. a \in 1 .. Len(st) /\ b \in 1 .. Len(st)
      BY <1>11, <1>12, <2>5
    <3>2. A[a] = list[own[a]] /\ own[a] \in DOMAIN list /\ A[b] = list[own[b]] /\ own[b] \in DOMAIN list
      BY <1>13, <3>1
    <3>3. own[a] = own[b] /\ m = n
      BY <1>19, <3>2 DEF IsPlain
    <3> QED
      BY <1>5, <3>1, <3>3
  <2> QED
    BY <2>2, <2>3, <2>4, <2>5
<1>20. IsPlain(A)
  <2>1. \A a \in 1 .. Len(A) : IsSequence(A[a].calls) /\ A[a].priority \in Nat
    <3>1. IsSequence(calls)
      BY <1>9, SequenceOf
    <3>2. \A a \in 1 .. Len(st) : IsSequence(A[a].calls) /\ A[a].priority \in Nat
      BY <1>13, <1>8 DEF IsPlain
    <3> QED
      BY <1>11, <1>12, <1>14, <3>1, <3>2
  <2> QED
    BY <1>11, <1>15, <1>19, <2>1 DEF IsPlain
<1>21. \A i \in T : ToSet(list[i].calls) \subseteq ToSet(A[d].calls)
  <2> SUFFICES ASSUME NEW i \in T, NEW x \in ToSet(list[i].calls) PROVE x \in ToSet(calls)
    BY <1>14
  <2>1. PICK j \in DOMAIN list[i].calls : x = list[i].calls[j]
    BY DEF ToSet
  <2>2. PICK m \in 1 .. Len(mv) : src[m] = <<i, j>>
    BY <1>2, <1>7
  <2>3. mv[m] = x
    <3>1. src[m][1] = i /\ src[m][2] = j
      BY <2>2
    <3> QED
      BY <1>7, <2>1, <3>1
  <2>4. m + 1 \in 2 .. 1 + Len(mv) /\ (m + 1) - 1 = m /\ m + 1 \in 1 .. 1 + Len(mv)
    BY <1>8
  <2>5. calls[m + 1] = x /\ m + 1 \in DOMAIN calls
    BY <1>9, <2>3, <2>4
  <2> QED
    BY <2>5 DEF ToSet
<1>22. T = {} => A[d].calls = <<f>>
  <2> SUFFICES ASSUME T = {} PROVE calls = <<f>>
    BY <1>14
  <2>1. Len(mv) = 0
    BY <1>7, <1>8
  <2>2. calls = [m \in 1 .. 1 |-> f]
    <3>1. DOMAIN calls = 1 .. 1 /\ \A m \in 1 .. 1 : calls[m] = f
      BY <1>9, <2>1
    <3>2. calls = [m \in 1 .. Len(calls) |-> calls[m]]
      BY <1>9
    <3> QED
      BY <1>9, <2>1, <3>1, <3>2
  <2> QED
    BY <2>2
<1>23. \A a \in DOMAIN A : a # d => \E i \in DOMAIN list : A[a] = list[i]
  BY <1>11, <1>12, <1>13
<1>24. d \in DOMAIN A /\ 1 \in DOMAIN A[d].calls /\ A[d].calls[1] = f
  BY <1>8, <1>9, <1>11, <1>14, <1>15
<1>25. Appended(A, list, f, priority, T)
  BY <1>14, <1>18, <1>20, <1>21, <1>22, <1>23, <1>24 DEF Appended
<1> QED
  BY <1>25 DEF A, T

LEMMA WithoutIs ==
  ASSUME NEW list, IsPlain(list), NEW i \in DOMAIN list
  PROVE  /\ IsSequence(Without(list, i)) /\ Len(Without(list, i)) = Len(list) - 1
         /\ DOMAIN Without(list, i) = 1 .. Len(list) - 1
         /\ \A k \in 1 .. Len(list) - 1 :
              Without(list, i)[k] = list[IF k < i THEN k ELSE k + 1]
<1> DEFINE S == ToSet(list)
           n == Len(list)
           l == SubSeq(list, 1, i - 1)
           r == SubSeq(list, i + 1, n)
           W == Without(list, i)
<1>1. n \in Nat /\ i \in 1 .. n /\ \A k \in 1 .. n : list[k] \in S
  BY DEF IsPlain, ToSet
<1>2. /\ i - 1 \in Int /\ i + 1 \in Int /\ n \in Int /\ 1 \in Int
      /\ \A k \in 1 .. i - 1 : list[k] \in S
      /\ \A k \in i + 1 .. n : list[k] \in S
  BY <1>1
<1>3. /\ l \in Seq(S) /\ Len(l) = IF 1 <= i - 1 THEN (i - 1) - 1 + 1 ELSE 0
      /\ \A k \in 1 .. (i - 1) - 1 + 1 : l[k] = list[1 + k - 1]
  <2> HIDE DEF S
  <2> QED
    BY <1>2, SubSeqProperties
<1>4. /\ r \in Seq(S) /\ Len(r) = IF i + 1 <= n THEN n - (i + 1) + 1 ELSE 0
      /\ \A k \in 1 .. n - (i + 1) + 1 : r[k] = list[(i + 1) + k - 1]
  <2> HIDE DEF S, n
  <2> QED
    BY <1>2, SubSeqProperties
<1>5. W = l \o r
  BY DEF Without
<1> HIDE DEF S, n, l, r, W
<1>6. Len(l) = i - 1 /\ Len(r) = n - i
  BY <1>1, <1>3, <1>4
<1>7. /\ W \in Seq(S) /\ Len(W) = Len(l) + Len(r)
      /\ \A k \in 1 .. Len(l) + Len(r) : W[k] = IF k <= Len(l) THEN l[k] ELSE r[k - Len(l)]
  BY <1>3, <1>4, <1>5, ConcatProperties
<1>8. Len(W) = n - 1
  BY <1>1, <1>6, <1>7
<1>9. IsSequence(W) /\ DOMAIN W = 1 .. n - 1
  BY <1>7, <1>8, SequenceOf, LenProperties
<1>10. ASSUME NEW k \in 1 .. n - 1
       PROVE  W[k] = list[IF k < i THEN k ELSE k + 1]
  <2>1. W[k] = IF k <= i - 1 THEN l[k] ELSE r[k - (i - 1)]
    <3>1. Len(l) + Len(r) = n - 1
      BY <1>1, <1>6
    <3>2. k \in 1 .. Len(l) + Len(r)
      BY <3>1
    <3>3. W[k] = IF k <= Len(l) THEN l[k] ELSE r[k - Len(l)]
      BY <1>7, <3>2
    <3> QED
      BY <1>6, <3>3, Zenon
  <2>2. CASE k < i
    <3>1. k \in 1 .. (i - 1) - 1 + 1 /\ k <= i - 1 /\ 1 + k - 1 = k
      BY <1>1, <2>2
    <3> QED
      BY <1>3, <2>1, <2>2, <3>1
  <2>3. CASE ~ (k < i)
    <3>1. PICK m : m = k - (i - 1)
      OBVIOUS
    <3>2. m \in 1 .. n - (i + 1) + 1 /\ ~ (k <= i - 1) /\ (i + 1) + m - 1 = k + 1
      BY <1>1, <2>3, <3>1
    <3>3. r[m] = list[k + 1]
      BY <1>4, <3>2
    <3> QED
      BY <2>1, <2>3, <3>1, <3>2, <3>3
  <2> QED
    BY <2>2, <2>3
<1> QED
  BY <1>8, <1>9, <1>10 DEF W, n

\* The records that are left, and what they call.
Leaves(W, list, i) ==
  /\ IsPlain(W) /\ FunctionsOf(W) = FunctionsOf(list) \ ToSet(list[i].calls)
  /\ \A k \in DOMAIN W : \E l \in DOMAIN list : l # i /\ W[k] = list[l]
  /\ \A l \in DOMAIN list : l # i => \E k \in DOMAIN W : W[k] = list[l]

LEMMA WithoutFacts ==
  ASSUME NEW list, IsPlain(list), NEW i \in DOMAIN list
  PROVE  Leaves(Without(list, i), list, i)
<1> DEFINE W == Without(list, i)
           at(k) == IF k < i THEN k ELSE k + 1
<1>1. Len(list) \in Nat
  BY DEF IsPlain
<1>2. PICK n \in Nat : n = Len(list)
  BY <1>1
<1>3. DOMAIN list = 1 .. n /\ i \in 1 .. n /\ n - 1 \in Nat
  BY <1>2 DEF IsPlain
<1>4. /\ IsSequence(W) /\ Len(W) = n - 1 /\ DOMAIN W = 1 .. n - 1
      /\ \A k \in 1 .. n - 1 : W[k] = list[at(k)]
  BY <1>2, WithoutIs
<1> HIDE DEF W
<1>5. ASSUME NEW k \in 1 .. n - 1
      PROVE  at(k) \in 1 .. n /\ at(k) # i
  BY <1>3
<1>6. ASSUME NEW l \in 1 .. n, l # i
      PROVE  \E k \in 1 .. n - 1 : at(k) = l
  <2>1. CASE l < i
    <3>1. l \in 1 .. n - 1 /\ at(l) = l
      BY <1>3, <2>1
    <3> QED
      BY <3>1
  <2>2. CASE l > i
    <3>1. l - 1 \in 1 .. n - 1 /\ ~ (l - 1 < i) /\ (l - 1) + 1 = l
      BY <1>3, <2>2
    <3>2. at(l - 1) = l
      BY <3>1
    <3> QED
      BY <3>1, <3>2
  <2> QED
    BY <1>3, <1>6, <2>1, <2>2
<1>7. \A j, k \in 1 .. n - 1 : at(j) = at(k) => j = k
  BY <1>3
<1>8. \A k \in 1 .. n - 1 : W[k] = list[at(k)] /\ at(k) \in DOMAIN list /\ at(k) # i
  BY <1>3, <1>4, <1>5
<1>9. \A l \in DOMAIN list : l # i => \E k \in DOMAIN W : at(k) = l /\ W[k] = list[l]
  <2> SUFFICES ASSUME NEW l \in DOMAIN list, l # i
               PROVE  \E k \in DOMAIN W : at(k) = l /\ W[k] = list[l]
    OBVIOUS
  <2>1. PICK k \in 1 .. n - 1 : at(k) = l
    BY <1>3, <1>6
  <2> QED
    BY <1>4, <1>8, <2>1
<1> HIDE DEF at
<1>10. IsPlain(W)
  <2>1. \A k \in 1 .. Len(W) : IsSequence(W[k].calls) /\ W[k].priority \in Nat
    BY <1>2, <1>3, <1>4, <1>8 DEF IsPlain
  <2>2. ASSUME NEW j \in DOMAIN W, NEW k \in DOMAIN W,
               NEW m \in DOMAIN W[j].calls, NEW p \in DOMAIN W[k].calls,
               W[j].calls[m] = W[k].calls[p]
        PROVE  j = k /\ m = p
    <3>1. W[j] = list[at(j)] /\ W[k] = list[at(k)] /\ at(j) \in DOMAIN list /\ at(k) \in DOMAIN list
      BY <1>4, <1>8
    <3>2. at(j) = at(k) /\ m = p
      BY <2>2, <3>1 DEF IsPlain
    <3> QED
      BY <1>4, <1>7, <3>2
  <2> QED
    BY <1>3, <1>4, <2>1, <2>2 DEF IsPlain
<1>11. ASSUME NEW x
       PROVE  x \in FunctionsOf(W) <=> x \in FunctionsOf(list) \ ToSet(list[i].calls)
  <2>1. ASSUME x \in FunctionsOf(W)
        PROVE  x \in FunctionsOf(list) /\ x \notin ToSet(list[i].calls)
    <3>1. PICK k \in DOMAIN W : \E m \in DOMAIN W[k].calls : W[k].calls[m] = x
      BY <2>1, InFunctions
    <3>2. PICK l \in DOMAIN list : l # i /\ W[k] = list[l]
      BY <1>4, <1>8
    <3>3. PICK m \in DOMAIN list[l].calls : list[l].calls[m] = x
      BY <3>1, <3>2
    <3>4. x \in FunctionsOf(list)
      BY <3>3, InFunctions
    <3>5. x \notin ToSet(list[i].calls)
      BY <3>2, <3>3 DEF IsPlain, ToSet
    <3> QED
      BY <3>4, <3>5
  <2>2. ASSUME x \in FunctionsOf(list), x \notin ToSet(list[i].calls)
        PROVE  x \in FunctionsOf(W)
    <3>1. PICK l \in DOMAIN list : \E m \in DOMAIN list[l].calls : list[l].calls[m] = x
      BY <2>2, InFunctions
    <3>2. l # i
      BY <2>2, <3>1 DEF ToSet
    <3>3. PICK k \in DOMAIN W : W[k] = list[l]
      BY <1>9, <3>2
    <3> QED
      BY <3>1, <3>3, InFunctions
  <2> QED
    BY <2>1, <2>2
<1>12. FunctionsOf(W) = FunctionsOf(list) \ ToSet(list[i].calls)
  BY <1>11
<1>13. Leaves(W, list, i)
  BY <1>4, <1>8, <1>9, <1>10, <1>12 DEF Leaves
<1> QED
  BY <1>13 DEF W

(***************************************************************************)
(* What the process has called when it calls some more.                    *)
(***************************************************************************)
Calls(new, old, s) ==
  /\ IsSequence(new) /\ Len(new) = Len(old) + Len(s)
  /\ \A k \in 1 .. Len(old) : new[k] = old[k]
  /\ \A k \in 1 .. Len(s) : new[Len(old) + k] = s[k]

LEMMA CallsMore ==
  ASSUME NEW old, IsSequence(old), NEW s, IsSequence(s)
  PROVE  Calls(old \o s, old, s)
<1> DEFINE S == ToSet(old) \cup ToSet(s)
           new == old \o s
<1>1. old \in Seq(S) /\ s \in Seq(S)
  BY DEF IsSequence
<1>2. Len(old) \in Nat /\ Len(s) \in Nat
  BY SequenceFacts
<1> HIDE DEF S
<1>3. /\ new \in Seq(S) /\ Len(new) = Len(old) + Len(s)
      /\ \A k \in 1 .. Len(old) + Len(s) : new[k] = IF k <= Len(old) THEN old[k] ELSE s[k - Len(old)]
  BY <1>1, ConcatProperties
<1> HIDE DEF new
<1>4. IsSequence(new)
  BY <1>3, SequenceOf
<1>5. \A k \in 1 .. Len(old) : new[k] = old[k]
  BY <1>2, <1>3
<1>6. ASSUME NEW k \in 1 .. Len(s)
      PROVE  new[Len(old) + k] = s[k]
  <2>1. PICK a \in Nat, b \in Nat : a = Len(old) /\ b = Len(s)
    BY <1>2
  <2>2. a + k \in 1 .. a + b /\ ~ (a + k <= a) /\ (a + k) - a = k
    BY <2>1
  <2> QED
    BY <1>3, <2>1, <2>2
<1>7. Calls(new, old, s)
  BY <1>3, <1>4, <1>5, <1>6 DEF Calls
<1> QED
  BY <1>7 DEF new

LEMMA CallsMain ==
  ASSUME NEW old, IsSequence(old), NEW f
  PROVE  Calls(Append(old, f), old, <<f>>)
<1>1. old \in Seq(ToSet(old) \cup {f}) /\ f \in ToSet(old) \cup {f}
  BY DEF IsSequence
<1>2. Append(old, f) = old \o <<f>>
  BY <1>1, AppendIsConcat
<1>3. <<f>> \in Seq({f})
  OBVIOUS
<1>4. IsSequence(<<f>>)
  BY <1>3, SequenceOf
<1> QED
  BY <1>2, <1>4, CallsMore

\* Where a call is: among the old ones or the new ones.
LEMMA CalledWhere ==
  ASSUME NEW old, IsSequence(old), NEW s, IsSequence(s), NEW new, Calls(new, old, s)
  PROVE  /\ Len(old) \in Nat /\ Len(s) \in Nat
         /\ DOMAIN old = 1 .. Len(old) /\ DOMAIN s = 1 .. Len(s)
         /\ DOMAIN new = 1 .. Len(old) + Len(s)
         /\ \A k \in DOMAIN new :
              \/ k \in DOMAIN old /\ new[k] = old[k]
              \/ \E m \in DOMAIN s : k = Len(old) + m /\ new[k] = s[m]
         /\ ToSet(new) = ToSet(old) \cup ToSet(s)
<1>1. PICK a \in Nat, b \in Nat : /\ a = Len(old) /\ b = Len(s)
                                  /\ DOMAIN old = 1 .. a /\ DOMAIN s = 1 .. b
  BY SequenceFacts
<1>2. /\ DOMAIN new = 1 .. a + b
      /\ \A k \in 1 .. a : new[k] = old[k]
      /\ \A k \in 1 .. b : new[a + k] = s[k]
  BY <1>1, SequenceFacts DEF Calls
<1>3. ASSUME NEW k \in DOMAIN new
      PROVE  \/ k \in DOMAIN old /\ new[k] = old[k]
             \/ \E m \in DOMAIN s : k = a + m /\ new[k] = s[m]
  <2>1. CASE k <= a
    BY <1>1, <1>2, <2>1
  <2>2. CASE ~ (k <= a)
    <3>1. PICK m : m = k - a
      OBVIOUS
    <3>2. m \in 1 .. b /\ k = a + m
      BY <1>1, <1>2, <2>2, <3>1
    <3>3. m \in DOMAIN s /\ new[k] = s[m]
      BY <1>1, <1>2, <3>2
    <3> QED
      BY <3>2, <3>3
  <2> QED
    BY <2>1, <2>2
<1>4. \A k \in 1 .. a : k \in DOMAIN new
  BY <1>2
<1>5. \A k \in 1 .. b : a + k \in DOMAIN new
  BY <1>2
<1>6. ToSet(new) = ToSet(old) \cup ToSet(s)
  <2>1. ToSet(new) \subseteq ToSet(old) \cup ToSet(s)
    BY <1>3 DEF ToSet
  <2>2. ToSet(old) \subseteq ToSet(new)
    BY <1>1, <1>2, <1>4 DEF ToSet
  <2>3. ToSet(s) \subseteq ToSet(new)
    BY <1>1, <1>2, <1>5 DEF ToSet
  <2> QED
    BY <2>1, <2>2, <2>3
<1> QED
  BY <1>1, <1>2, <1>3, <1>6

(***************************************************************************)
(* The start and the end.  What is still in the lists and what was called  *)
(* make up what is to be called, nothing is in both; the record that calls *)
(* Finalize first, with all the destructors of low priority behind it,     *)
(* waits until it is taken; and no constructor that waits had to come      *)
(* before one that was called.                                             *)
(***************************************************************************)
Earlier(r, f, g) == \A j \in DOMAIN r : r[j] = g => \E i \in 1 .. j - 1 : r[i] = f

InOrder(list, r) ==
  \A i, j \in DOMAIN r : i < j => ~ G!RunsBefore(list, TRUE, r[j], r[i])

CalledOnce ==
  /\ IsSequence(ran) /\ IsPlain(ctors) /\ IsPlain(dtors)
  /\ \A i, j \in DOMAIN ran : ran[i] = ran[j] => i = j
  /\ ToSet(ran) \cap (FunctionsOf(ctors) \cup FunctionsOf(dtors)) = {}
  /\ \/ /\ phase = "before"
        /\ ToSet(ran) \cup FunctionsOf(ctors) = {Initialize} \cup FunctionsOf(unit.ctors)
        /\ FunctionsOf(dtors) = {Finalize} \cup FunctionsOf(unit.dtors)
     \/ /\ phase = "after" /\ ctors = <<>>
        /\ {Initialize, "main"} \cup FunctionsOf(unit.ctors) \subseteq ToSet(ran)
        /\ ToSet(ran) \cup FunctionsOf(dtors) = ToCall

LowDtors == {i \in DOMAIN unit.dtors : unit.dtors[i].priority < G!DefaultPriority}

IsDriver(r) ==
  /\ 1 \in DOMAIN r.calls /\ r.calls[1] = Finalize
  /\ \A i \in LowDtors : ToSet(unit.dtors[i].calls) \subseteq ToSet(r.calls)

FinalizeFirst ==
  \/ \E d \in DOMAIN dtors : IsDriver(dtors[d])
  \/ /\ Finalize \in ToSet(ran)
     /\ \A i \in LowDtors : \A f \in ToSet(unit.dtors[i].calls) : Earlier(ran, Finalize, f)

CtorsInTurn ==
  /\ InOrder(unit.ctors, ran)
  /\ \A x \in ToSet(ran), y \in FunctionsOf(ctors) : ~ G!RunsBefore(unit.ctors, TRUE, y, x)
  /\ \A i \in DOMAIN ctors : \/ ctors[i].calls = <<Initialize>>
                             \/ \E p \in DOMAIN unit.ctors : ctors[i] = unit.ctors[p]

StartInv ==
  /\ unit \in Units /\ tool \in Tools(unit)
  /\ stage \in {"dependences", "link", "run"} => tool # "EsperantoNamer"
  /\ IF stage = "run"
     THEN /\ CalledOnce /\ FinalizeFirst /\ CtorsInTurn
          /\ Earlier(ran, Initialize, "main") /\ Earlier(ran, "main", Finalize)
     ELSE ctors = unit.ctors /\ dtors = unit.dtors /\ ran = <<>> /\ phase = "before"

LEMMA EarlierKept ==
  ASSUME NEW old, IsSequence(old), NEW s, IsSequence(s), NEW new, Calls(new, old, s),
         NEW f, NEW g, Earlier(old, f, g),
         f \in ToSet(old) \/ g \notin ToSet(s) \/ Earlier(s, f, g)
  PROVE  Earlier(new, f, g)
<1> SUFFICES ASSUME NEW j \in DOMAIN new, new[j] = g
             PROVE  \E i \in 1 .. j - 1 : new[i] = f
  BY DEF Earlier
<1>1. PICK a \in Nat, b \in Nat : a = Len(old) /\ b = Len(s)
  BY CalledWhere
<1>2. /\ DOMAIN old = 1 .. a /\ DOMAIN s = 1 .. b /\ DOMAIN new = 1 .. a + b
      /\ \A k \in 1 .. a : new[k] = old[k]
      /\ \A k \in 1 .. b : new[a + k] = s[k]
  BY <1>1, CalledWhere DEF Calls
<1>3. CASE j \in DOMAIN old /\ new[j] = old[j]
  <2>1. PICK i \in 1 .. j - 1 : old[i] = f
    BY <1>3 DEF Earlier
  <2>2. i \in 1 .. a
    BY <1>2, <1>3
  <2> QED
    BY <1>2, <2>1, <2>2
<1>4. ASSUME NEW m \in DOMAIN s, j = a + m, new[j] = s[m]
      PROVE  \E i \in 1 .. j - 1 : new[i] = f
  <2>1. CASE f \in ToSet(old)
    <3>1. PICK i \in DOMAIN old : old[i] = f
      BY <2>1 DEF ToSet
    <3>2. i \in 1 .. a /\ i \in 1 .. j - 1
      BY <1>2, <1>4, <3>1
    <3> QED
      BY <1>2, <3>1, <3>2
  <2>2. CASE g \notin ToSet(s)
    BY <1>4, <2>2 DEF ToSet
  <2>3. CASE Earlier(s, f, g)
    <3>1. PICK i \in 1 .. m - 1 : s[i] = f
      BY <1>4, <2>3 DEF Earlier
    <3>2. i \in 1 .. b /\ a + i \in 1 .. j - 1
      BY <1>2, <1>4, <3>1
    <3> QED
      BY <1>2, <3>1, <3>2
  <2> QED
    BY <2>1, <2>2, <2>3
<1>5. \/ j \in DOMAIN old /\ new[j] = old[j]
      \/ \E m \in DOMAIN s : j = Len(old) + m /\ new[j] = s[m]
  BY CalledWhere
<1> QED
  BY <1>1, <1>3, <1>4, <1>5

LEMMA OnceKept ==
  ASSUME NEW old, IsSequence(old), NEW s, IsSequence(s), NEW new, Calls(new, old, s),
         ToSet(old) \cap ToSet(s) = {},
         \A i, j \in DOMAIN old : old[i] = old[j] => i = j,
         \A i, j \in DOMAIN s : s[i] = s[j] => i = j
  PROVE  \A i, j \in DOMAIN new : new[i] = new[j] => i = j
<1> SUFFICES ASSUME NEW i \in DOMAIN new, NEW j \in DOMAIN new, new[i] = new[j]
             PROVE  i = j
  OBVIOUS
<1> DEFINE InOld(k) == k \in DOMAIN old /\ new[k] = old[k]
           InNew(k) == \E m \in DOMAIN s : k = Len(old) + m /\ new[k] = s[m]
<1>1. (InOld(i) \/ InNew(i)) /\ (InOld(j) \/ InNew(j))
  BY CalledWhere
<1>2. ASSUME NEW x, NEW y, x \in DOMAIN old, y \in DOMAIN s
      PROVE  old[x] # s[y]
  BY <1>2 DEF ToSet
<1>3. CASE InOld(i) /\ InOld(j)
  BY <1>3
<1>4. CASE InOld(i) /\ InNew(j)
  BY <1>2, <1>4
<1>5. CASE InNew(i) /\ InOld(j)
  BY <1>2, <1>5
<1>6. CASE InNew(i) /\ InNew(j)
  BY <1>6
<1> QED
  BY <1>1, <1>3, <1>4, <1>5, <1>6

LEMMA InOrderKept ==
  ASSUME NEW old, IsSequence(old), NEW s, IsSequence(s), NEW new, Calls(new, old, s),
         NEW list, InOrder(list, old), InOrder(list, s),
         \A x \in ToSet(old), y \in ToSet(s) : ~ G!RunsBefore(list, TRUE, y, x)
  PROVE  InOrder(list, new)
<1> SUFFICES ASSUME NEW i \in DOMAIN new, NEW j \in DOMAIN new, i < j
             PROVE  ~ G!RunsBefore(list, TRUE, new[j], new[i])
  BY DEF InOrder
<1> DEFINE InOld(k) == k \in DOMAIN old /\ new[k] = old[k]
           InNew(k) == \E m \in DOMAIN s : k = Len(old) + m /\ new[k] = s[m]
<1>1. (InOld(i) \/ InNew(i)) /\ (InOld(j) \/ InNew(j))
  BY CalledWhere
<1>2. PICK a \in Nat : a = Len(old)
  BY CalledWhere
<1>3. DOMAIN old = 1 .. a /\ DOMAIN s = 1 .. Len(s) /\ Len(s) \in Nat
  BY <1>2, CalledWhere
<1>4. CASE InOld(i) /\ InOld(j)
  BY <1>4 DEF InOrder
<1>5. CASE InOld(i) /\ InNew(j)
  <2>1. new[i] \in ToSet(old) /\ new[j] \in ToSet(s)
    BY <1>5 DEF ToSet
  <2> QED
    BY <2>1
<1>6. CASE InNew(i) /\ InOld(j)
  BY <1>2, <1>3, <1>6
<1>7. CASE InNew(i) /\ InNew(j)
  <2>1. PICK m \in DOMAIN s : i = a + m /\ new[i] = s[m]
    BY <1>2, <1>7
  <2>2. PICK n \in DOMAIN s : j = a + n /\ new[j] = s[n]
    BY <1>2, <1>7
  <2>3. m < n
    BY <1>3, <2>1, <2>2
  <2> QED
    BY <2>1, <2>2, <2>3 DEF InOrder
<1> QED
  BY <1>1, <1>4, <1>5, <1>6, <1>7

\* RunsBefore, of constructors, with the places.
MustPrecede(list, x, y) ==
  \E i, j \in DOMAIN list :
    /\ x \in ToSet(list[i].calls) /\ y \in ToSet(list[j].calls)
    /\ \/ list[i].priority < list[j].priority
       \/ /\ i = j
          /\ \E m, n \in DOMAIN list[i].calls :
               m < n /\ list[i].calls[m] = x /\ list[i].calls[n] = y

LEMMA SureToComeBefore ==
  ASSUME NEW list, NEW x, NEW y, G!RunsBefore(list, TRUE, x, y)
  PROVE  MustPrecede(list, x, y)
<1>1. PICK i \in DOMAIN list, j \in DOMAIN list :
        /\ x \in G!Range(list[i].calls) /\ y \in G!Range(list[j].calls)
        /\ \/ list[i].priority < list[j].priority
           \/ /\ i = j
              /\ \E m, n \in DOMAIN list[i].calls :
                   m < n /\ list[i].calls[m] = x /\ list[i].calls[n] = y
  BY DEF G!RunsBefore
<1>2. \A s, e : e \in G!Range(s) => e \in ToSet(s)
  BY DEF G!Range, ToSet
<1> QED
  BY <1>1, <1>2 DEF MustPrecede

LEMMA OnlyListedInOrder ==
  ASSUME NEW list, NEW x, NEW y, x \notin FunctionsOf(list) \/ y \notin FunctionsOf(list)
  PROVE  ~ G!RunsBefore(list, TRUE, x, y)
<1> SUFFICES ASSUME G!RunsBefore(list, TRUE, x, y) PROVE FALSE
  OBVIOUS
<1>1. PICK i \in DOMAIN list, j \in DOMAIN list :
        x \in ToSet(list[i].calls) /\ y \in ToSet(list[j].calls)
  BY SureToComeBefore DEF MustPrecede
<1> QED
  BY <1>1 DEF FunctionsOf

\* A call of a plain list is at one place.
LEMMA OnePlace ==
  ASSUME NEW list, IsPlain(list), NEW x, NEW i \in DOMAIN list, NEW j \in DOMAIN list,
         x \in ToSet(list[i].calls), x \in ToSet(list[j].calls)
  PROVE  i = j
BY DEF IsPlain, ToSet

LEMMA RecordInOrder ==
  ASSUME NEW list, IsPlain(list), NEW p \in DOMAIN list
  PROVE  InOrder(list, list[p].calls)
<1> DEFINE s == list[p].calls
<1> SUFFICES ASSUME NEW i \in DOMAIN s, NEW j \in DOMAIN s, i < j,
                    G!RunsBefore(list, TRUE, s[j], s[i])
             PROVE  FALSE
  BY DEF InOrder
<1>1. MustPrecede(list, s[j], s[i])
  BY SureToComeBefore
<1>2. PICK k \in DOMAIN list, l \in DOMAIN list :
        /\ s[j] \in ToSet(list[k].calls) /\ s[i] \in ToSet(list[l].calls)
        /\ \/ list[k].priority < list[l].priority
           \/ /\ k = l
              /\ \E m, n \in DOMAIN list[k].calls :
                   m < n /\ list[k].calls[m] = s[j] /\ list[k].calls[n] = s[i]
  BY <1>1 DEF MustPrecede
<1>3. s[i] \in ToSet(list[p].calls) /\ s[j] \in ToSet(list[p].calls)
  BY DEF ToSet
<1>4. k = p /\ l = p
  BY <1>2, <1>3, OnePlace
<1>5. /\ list[p].priority \in Nat /\ DOMAIN s = 1 .. Len(s) /\ Len(s) \in Nat
      /\ \A m, n \in DOMAIN s : s[m] = s[n] => m = n
  BY SequenceFacts DEF IsPlain
<1>6. ~ (list[k].priority < list[l].priority)
  BY <1>4, <1>5
<1>7. PICK m \in DOMAIN s, n \in DOMAIN s : m < n /\ s[m] = s[j] /\ s[n] = s[i]
  BY <1>2, <1>4, <1>6
<1>8. m = j /\ n = i
  BY <1>5, <1>7
<1> QED
  BY <1>5, <1>7, <1>8

LEMMA LaterRecord ==
  ASSUME NEW list, IsPlain(list), NEW p \in DOMAIN list, NEW q \in DOMAIN list, p # q,
         list[p].priority <= list[q].priority,
         NEW x \in ToSet(list[p].calls), NEW y \in ToSet(list[q].calls)
  PROVE  ~ G!RunsBefore(list, TRUE, y, x)
<1> SUFFICES ASSUME G!RunsBefore(list, TRUE, y, x) PROVE FALSE
  OBVIOUS
<1>1. MustPrecede(list, y, x)
  BY SureToComeBefore
<1>2. PICK k \in DOMAIN list, l \in DOMAIN list :
        /\ y \in ToSet(list[k].calls) /\ x \in ToSet(list[l].calls)
        /\ list[k].priority < list[l].priority \/ k = l
  BY <1>1 DEF MustPrecede
<1>3. k = q /\ l = p
  BY <1>2, OnePlace
<1>4. list[p].priority \in Nat /\ list[q].priority \in Nat
  BY DEF IsPlain
<1> QED
  BY <1>2, <1>3, <1>4

(***************************************************************************)
(* What a pass adds, whichever it is.                                      *)
(***************************************************************************)
LEMMA PassNames ==
  ASSUME unit \in Units, tool \in Tools(unit), tool # "EsperantoNamer"
  PROVE  /\ tool \in DOMAIN SetFunctions
         /\ Initialize # Finalize /\ Initialize # "main" /\ Finalize # "main"
         /\ {Initialize, Finalize, "main"} \cap (FunctionsOf(unit.ctors) \cup FunctionsOf(unit.dtors)) = {}
         /\ FunctionsOf(unit.ctors) \cap FunctionsOf(unit.dtors) = {}
         /\ IsList(unit.ctors) /\ IsList(unit.dtors)
<1>1. /\ tool \in DOMAIN SetFunctions
      /\ IsList(unit.ctors) /\ IsList(unit.dtors)
      /\ FunctionsOf(unit.ctors) \cap FunctionsOf(unit.dtors) = {}
      /\ (FunctionsOf(unit.ctors) \cup FunctionsOf(unit.dtors)) \cap ({"main"} \cup PassFunctions) = {}
  BY UnitsAssumption
<1>2. Initialize \in PassFunctions /\ Finalize \in PassFunctions
  BY <1>1 DEF PassFunctions, Initialize, Finalize
<1>3. \A t \in DOMAIN SetFunctions : /\ SetFunctions[t].Initialize # SetFunctions[t].Finalize
                                     /\ SetFunctions[t].Initialize # "main"
                                     /\ SetFunctions[t].Finalize # "main"
  BY DEF SetFunctions, Camp!setFunctions, Exectime!setFunctions, CtxObj!setFunctions,
         Obj!setFunctions, Qpro!setFunctions, PlainSetFunctions
<1> QED
  BY <1>1, <1>2, <1>3 DEF Initialize, Finalize

LEMMA RecordSet ==
  ASSUME NEW M, M = [ctors |-> M.ctors, dtors |-> M.dtors], NEW x, NEW y
  PROVE  [M EXCEPT !.ctors = x, !.dtors = y] = [ctors |-> x, dtors |-> y]
<1>1. PICK c, d : c = M.ctors /\ d = M.dtors
  OBVIOUS
<1>2. PICK K : K = [ctors |-> x, dtors |-> d]
  OBVIOUS
<1>3. M = [ctors |-> c, dtors |-> d]
  BY <1>1
<1>4. [M EXCEPT !.ctors = x] = K
  BY <1>2, <1>3, SMT
<1>5. [K EXCEPT !.dtors = y] = [ctors |-> x, dtors |-> y]
  BY <1>2, SMT
<1>6. [M EXCEPT !.ctors = x, !.dtors = y] = [[M EXCEPT !.ctors = x] EXCEPT !.dtors = y]
  OBVIOUS
<1> QED
  BY <1>4, <1>5, <1>6

\* What every pass adds to the lists.
Added(M) ==
  [ctors |-> G!callBeforeMain(M.ctors, Initialize, G!DefaultPriority),
   dtors |-> G!callAfterMain(M.dtors, Finalize, G!DefaultPriority)]

LEMMA CampAdds ==
  ASSUME tool = "CAMP", NEW M, M = [ctors |-> M.ctors, dtors |-> M.dtors]
  PROVE  Instrumented(M) = Added(M)
<1>1. \A q : Camp!Joined(q) = G!Joined(q)
  BY DEF Camp!Joined, G!Joined
<1>2. \A l, f, p : Camp!callBeforeMain(l, f, p) = G!callBeforeMain(l, f, p)
  BY <1>1 DEF Camp!appendToConstructorArray, G!appendToConstructorArray, Camp!Record, G!Record,
              Camp!callBeforeMain, G!callBeforeMain
<1>3. \A l, f, p : Camp!callAfterMain(l, f, p) = G!callAfterMain(l, f, p)
  BY <1>1 DEF Camp!appendToConstructorArray, G!appendToConstructorArray, Camp!Record, G!Record,
              Camp!callAfterMain, G!callAfterMain
<1> DEFINE c == Camp!callBeforeMain(M.ctors, Camp!setFunctions.Initialize, Camp!DefaultPriority)
           d == Camp!callAfterMain(M.dtors, Camp!setFunctions.Finalize, Camp!DefaultPriority)
<1>4. Camp!DefaultPriority = G!DefaultPriority
  BY DEF Camp!DefaultPriority, G!DefaultPriority
<1>5. Camp!setFunctions.Initialize = Initialize /\ Camp!setFunctions.Finalize = Finalize
  BY DEF SetFunctions, Initialize, Finalize
<1>6. Instrumented(M) = Camp!setIniFini(M)
  BY DEF Instrumented
<1>7. Camp!setIniFini(M) = [M EXCEPT !.ctors = c, !.dtors = d]
  BY DEF Camp!setIniFini
<1>8. Added(M) = [ctors |-> c, dtors |-> d]
  BY <1>2, <1>3, <1>5, <1>4 DEF Added
<1> HIDE DEF c, d
<1>9. [M EXCEPT !.ctors = c, !.dtors = d] = [ctors |-> c, dtors |-> d]
  BY RecordSet, Zenon
<1> QED
  BY <1>6, <1>7, <1>8, <1>9

LEMMA ExectimeAdds ==
  ASSUME tool = "CampExectime", NEW M, M = [ctors |-> M.ctors, dtors |-> M.dtors]
  PROVE  Instrumented(M) = Added(M)
<1>1. \A q : Exectime!Joined(q) = G!Joined(q)
  BY DEF Exectime!Joined, G!Joined
<1>2. \A l, f, p : Exectime!callBeforeMain(l, f, p) = G!callBeforeMain(l, f, p)
  BY <1>1 DEF Exectime!appendToConstructorArray, G!appendToConstructorArray, Exectime!Record, G!Record,
              Exectime!callBeforeMain, G!callBeforeMain
<1>3. \A l, f, p : Exectime!callAfterMain(l, f, p) = G!callAfterMain(l, f, p)
  BY <1>1 DEF Exectime!appendToConstructorArray, G!appendToConstructorArray, Exectime!Record, G!Record,
              Exectime!callAfterMain, G!callAfterMain
<1> DEFINE c == Exectime!callBeforeMain(M.ctors, Exectime!setFunctions.Initialize, Exectime!DefaultPriority)
           d == Exectime!callAfterMain(M.dtors, Exectime!setFunctions.Finalize, Exectime!DefaultPriority)
<1>4. Exectime!DefaultPriority = G!DefaultPriority
  BY DEF Exectime!DefaultPriority, G!DefaultPriority
<1>5. Exectime!setFunctions.Initialize = Initialize /\ Exectime!setFunctions.Finalize = Finalize
  BY DEF SetFunctions, Initialize, Finalize
<1>6. Instrumented(M) = Exectime!setIniFini(M)
  BY DEF Instrumented
<1>7. Exectime!setIniFini(M) = [M EXCEPT !.ctors = c, !.dtors = d]
  BY DEF Exectime!setIniFini
<1>8. Added(M) = [ctors |-> c, dtors |-> d]
  BY <1>2, <1>3, <1>5, <1>4 DEF Added
<1> HIDE DEF c, d
<1>9. [M EXCEPT !.ctors = c, !.dtors = d] = [ctors |-> c, dtors |-> d]
  BY RecordSet, Zenon
<1> QED
  BY <1>6, <1>7, <1>8, <1>9

LEMMA CtxObjAdds ==
  ASSUME tool = "CtxObjtrace", NEW M, M = [ctors |-> M.ctors, dtors |-> M.dtors]
  PROVE  Instrumented(M) = Added(M)
<1>1. \A q : CtxObj!Joined(q) = G!Joined(q)
  BY DEF CtxObj!Joined, G!Joined
<1>2. \A l, f, p : CtxObj!callBeforeMain(l, f, p) = G!callBeforeMain(l, f, p)
  BY <1>1 DEF CtxObj!appendToConstructorArray, G!appendToConstructorArray, CtxObj!Record, G!Record,
              CtxObj!callBeforeMain, G!callBeforeMain
<1>3. \A l, f, p : CtxObj!callAfterMain(l, f, p) = G!callAfterMain(l, f, p)
  BY <1>1 DEF CtxObj!appendToConstructorArray, G!appendToConstructorArray, CtxObj!Record, G!Record,
              CtxObj!callAfterMain, G!callAfterMain
<1> DEFINE c == CtxObj!callBeforeMain(M.ctors, CtxObj!setFunctions.Initialize, CtxObj!DefaultPriority)
           d == CtxObj!callAfterMain(M.dtors, CtxObj!setFunctions.Finalize, CtxObj!DefaultPriority)
<1>4. CtxObj!DefaultPriority = G!DefaultPriority
  BY DEF CtxObj!DefaultPriority, G!DefaultPriority
<1>5. CtxObj!setFunctions.Initialize = Initialize /\ CtxObj!setFunctions.Finalize = Finalize
  BY DEF SetFunctions, Initialize, Finalize
<1>6. Instrumented(M) = CtxObj!setIniFini(M)
  BY DEF Instrumented
<1>7. CtxObj!setIniFini(M) = [M EXCEPT !.ctors = c, !.dtors = d]
  BY DEF CtxObj!setIniFini
<1>8. Added(M) = [ctors |-> c, dtors |-> d]
  BY <1>2, <1>3, <1>5, <1>4 DEF Added
<1> HIDE DEF c, d
<1>9. [M EXCEPT !.ctors = c, !.dtors = d] = [ctors |-> c, dtors |-> d]
  BY RecordSet, Zenon
<1> QED
  BY <1>6, <1>7, <1>8, <1>9

LEMMA ObjAdds ==
  ASSUME tool = "ObjTrace", NEW M, M = [ctors |-> M.ctors, dtors |-> M.dtors]
  PROVE  Instrumented(M) = Added(M)
<1>1. \A q : Obj!Joined(q) = G!Joined(q)
  BY DEF Obj!Joined, G!Joined
<1>2. \A l, f, p : Obj!callBeforeMain(l, f, p) = G!callBeforeMain(l, f, p)
  BY <1>1 DEF Obj!appendToConstructorArray, G!appendToConstructorArray, Obj!Record, G!Record,
              Obj!callBeforeMain, G!callBeforeMain
<1>3. \A l, f, p : Obj!callAfterMain(l, f, p) = G!callAfterMain(l, f, p)
  BY <1>1 DEF Obj!appendToConstructorArray, G!appendToConstructorArray, Obj!Record, G!Record,
              Obj!callAfterMain, G!callAfterMain
<1> DEFINE c == Obj!callBeforeMain(M.ctors, Obj!setFunctions.Initialize, Obj!DefaultPriority)
           d == Obj!callAfterMain(M.dtors, Obj!setFunctions.Finalize, Obj!DefaultPriority)
<1>4. Obj!DefaultPriority = G!DefaultPriority
  BY DEF Obj!DefaultPriority, G!DefaultPriority
<1>5. Obj!setFunctions.Initialize = Initialize /\ Obj!setFunctions.Finalize = Finalize
  BY DEF SetFunctions, Initialize, Finalize
<1>6. Instrumented(M) = Obj!setIniFini(M)
  BY DEF Instrumented
<1>7. Obj!setIniFini(M) = [M EXCEPT !.ctors = c, !.dtors = d]
  BY DEF Obj!setIniFini
<1>8. Added(M) = [ctors |-> c, dtors |-> d]
  BY <1>2, <1>3, <1>5, <1>4 DEF Added
<1> HIDE DEF c, d
<1>9. [M EXCEPT !.ctors = c, !.dtors = d] = [ctors |-> c, dtors |-> d]
  BY RecordSet, Zenon
<1> QED
  BY <1>6, <1>7, <1>8, <1>9

LEMMA QproAdds ==
  ASSUME tool = "Qprofiler", NEW M, M = [ctors |-> M.ctors, dtors |-> M.dtors]
  PROVE  Instrumented(M) = Added(M)
<1>1. \A q : Qpro!Joined(q) = G!Joined(q)
  BY DEF Qpro!Joined, G!Joined
<1>2. \A l, f, p : Qpro!callBeforeMain(l, f, p) = G!callBeforeMain(l, f, p)
  BY <1>1 DEF Qpro!appendToConstructorArray, G!appendToConstructorArray, Qpro!Record, G!Record,
              Qpro!callBeforeMain, G!callBeforeMain
<1>3. \A l, f, p : Qpro!callAfterMain(l, f, p) = G!callAfterMain(l, f, p)
  BY <1>1 DEF Qpro!appendToConstructorArray, G!appendToConstructorArray, Qpro!Record, G!Record,
              Qpro!callAfterMain, G!callAfterMain
<1> DEFINE c == Qpro!callBeforeMain(M.ctors, Qpro!setFunctions.Initialize, Qpro!DefaultPriority)
           d == Qpro!callAfterMain(M.dtors, Qpro!setFunctions.Finalize, Qpro!DefaultPriority)
<1>4. Qpro!DefaultPriority = G!DefaultPriority
  BY DEF Qpro!DefaultPriority, G!DefaultPriority
<1>5. Qpro!setFunctions.Initialize = Initialize /\ Qpro!setFunctions.Finalize = Finalize
  BY DEF SetFunctions, Initialize, Finalize
<1>6. Instrumented(M) = Qpro!setIniFini(M)
  BY DEF Instrumented
<1>7. Qpro!setIniFini(M) = [M EXCEPT !.ctors = c, !.dtors = d]
  BY DEF Qpro!setIniFini
<1>8. Added(M) = [ctors |-> c, dtors |-> d]
  BY <1>2, <1>3, <1>5, <1>4 DEF Added
<1> HIDE DEF c, d
<1>9. [M EXCEPT !.ctors = c, !.dtors = d] = [ctors |-> c, dtors |-> d]
  BY RecordSet, Zenon
<1> QED
  BY <1>6, <1>7, <1>8, <1>9

LEMMA PlainAdds ==
  ASSUME tool = "CampPlain", NEW M, M = [ctors |-> M.ctors, dtors |-> M.dtors]
  PROVE  Instrumented(M) = Added(M)
<1> DEFINE c == G!callBeforeMain(M.ctors, PlainSetFunctions.Initialize, G!DefaultPriority)
           d == G!callAfterMain(M.dtors, PlainSetFunctions.Finalize, G!DefaultPriority)
<1>4. PlainSetFunctions.Initialize = Initialize /\ PlainSetFunctions.Finalize = Finalize
  BY DEF SetFunctions, Initialize, Finalize
<1>5. Instrumented(M) = PlainSetIniFini(M)
  BY DEF Instrumented
<1>6. PlainSetIniFini(M) = [M EXCEPT !.ctors = c, !.dtors = d]
  BY DEF PlainSetIniFini
<1>7. Added(M) = [ctors |-> c, dtors |-> d]
  BY <1>4 DEF Added
<1> HIDE DEF c, d
<1>8. [M EXCEPT !.ctors = c, !.dtors = d] = [ctors |-> c, dtors |-> d]
  BY RecordSet, Zenon
<1> QED
  BY <1>5, <1>6, <1>7, <1>8

LEMMA PassAdds ==
  ASSUME tool \in DOMAIN SetFunctions, NEW M, M = [ctors |-> M.ctors, dtors |-> M.dtors]
  PROVE  Instrumented(M) = Added(M)
<1>1. tool \in {"CAMP", "CampExectime", "CtxObjtrace", "ObjTrace", "Qprofiler", "CampPlain"}
  BY DEF SetFunctions
<1> QED
  BY <1>1, CampAdds, ExectimeAdds, CtxObjAdds, ObjAdds, QproAdds, PlainAdds

LEMMA BeforeMainFacts ==
  ASSUME NEW list, IsPlain(list), NEW f, f \notin FunctionsOf(list), NEW p \in Nat,
         \A i \in DOMAIN list : list[i].priority <= p
  PROVE  Appended(G!callBeforeMain(list, f, p), list, f, p, {})
<1>1. PICK t : t = TRUE
  OBVIOUS
<1>2. G!callBeforeMain(list, f, p) = G!appendToConstructorArray(list, f, p, t)
  BY <1>1 DEF G!callBeforeMain, G!appendToConstructorArray
<1>3. Moving(list, p, t) = {}
  <2>1. \A i \in DOMAIN list : list[i].priority \in Nat
    BY DEF IsPlain
  <2> QED
    BY <1>1, <2>1 DEF Moving
<1> QED
  BY <1>2, <1>3, AppendFacts

LEMMA AfterMainFacts ==
  ASSUME NEW list, IsPlain(list), NEW f, f \notin FunctionsOf(list), NEW p \in Nat
  PROVE  Appended(G!callAfterMain(list, f, p), list, f, p,
                  {i \in DOMAIN list : list[i].priority < p})
<1>1. PICK t : t = FALSE
  OBVIOUS
<1>2. G!callAfterMain(list, f, p) = G!appendToConstructorArray(list, f, p, t)
  BY <1>1 DEF G!callAfterMain, G!appendToConstructorArray
<1>3. Moving(list, p, t) = {i \in DOMAIN list : list[i].priority < p}
  BY <1>1 DEF Moving
<1> QED
  BY <1>2, <1>3, AppendFacts

(***************************************************************************)
(* What the lists hold after the pass.                                     *)
(***************************************************************************)
LEMMA EmptySequence ==
  DOMAIN <<>> = {} /\ ToSet(<<>>) = {} /\ IsSequence(<<>>)
<1>1. <<>> \in Seq({})
  OBVIOUS
<1>2. IsSequence(<<>>)
  BY <1>1, SequenceOf
<1>3. DOMAIN <<>> = {} /\ ToSet(<<>>) = {}
  BY DEF ToSet
<1> QED
  BY <1>2, <1>3

LEMMA Priorities ==
  ASSUME NEW list, IsList(list)
  PROVE  \A i \in DOMAIN list : list[i].priority \in 0 .. G!DefaultPriority
BY DEF IsList

LEMMA NamesKept ==
  ASSUME unit' = unit, tool' = tool
  PROVE  /\ Initialize' = Initialize /\ Finalize' = Finalize /\ LowDtors' = LowDtors
         /\ ToCall' = ToCall
<1>1. Initialize' = Initialize /\ Finalize' = Finalize
  BY DEF Initialize, Finalize, SetFunctions
<1>2. LowDtors' = LowDtors
  BY DEF LowDtors
<1> QED
  BY <1>1, <1>2 DEF ToCall

LEMMA LinkedRight ==
  ASSUME StartInv, AddInitAndFini
  PROVE  StartInv'
<1>1. /\ unit \in Units /\ tool \in Tools(unit) /\ tool # "EsperantoNamer"
      /\ ctors = unit.ctors /\ dtors = unit.dtors /\ ran = <<>> /\ phase = "before"
  BY DEF StartInv, AddInitAndFini
<1>2. UNCHANGED <<unit, tool, ran, phase>> /\ stage' = "run"
  BY DEF AddInitAndFini
<1>3. /\ tool \in DOMAIN SetFunctions
      /\ Initialize # Finalize /\ Initialize # "main" /\ Finalize # "main"
      /\ {Initialize, Finalize, "main"} \cap (FunctionsOf(unit.ctors) \cup FunctionsOf(unit.dtors)) = {}
      /\ FunctionsOf(unit.ctors) \cap FunctionsOf(unit.dtors) = {}
      /\ IsList(unit.ctors) /\ IsList(unit.dtors)
  BY <1>1, PassNames
<1>4. IsPlain(unit.ctors) /\ IsPlain(unit.dtors)
  BY <1>3, ListIsPlain
<1>5. /\ ctors' = G!callBeforeMain(unit.ctors, Initialize, G!DefaultPriority)
      /\ dtors' = G!callAfterMain(unit.dtors, Finalize, G!DefaultPriority)
  <2>1. PICK M : M = [ctors |-> ctors, dtors |-> dtors]
    OBVIOUS
  <2>2. M.ctors = unit.ctors /\ M.dtors = unit.dtors /\ M = [ctors |-> M.ctors, dtors |-> M.dtors]
    BY <1>1, <2>1
  <2>3. Instrumented(M) = Added(M)
    BY <1>3, <2>2, PassAdds
  <2>4. ctors' = Added(M).ctors /\ dtors' = Added(M).dtors
    BY <2>1, <2>3 DEF AddInitAndFini
  <2> QED
    BY <2>2, <2>4 DEF Added
<1>6. G!DefaultPriority \in Nat
  BY DEF G!DefaultPriority
<1>7. PICK p \in Nat : p = G!DefaultPriority
  BY <1>6
<1>8. /\ Initialize \notin FunctionsOf(unit.ctors) /\ Finalize \notin FunctionsOf(unit.dtors)
      /\ ctors' = G!callBeforeMain(unit.ctors, Initialize, p)
      /\ dtors' = G!callAfterMain(unit.dtors, Finalize, p)
  BY <1>3, <1>5, <1>7
<1>9. Appended(ctors', unit.ctors, Initialize, p, {})
  <2>1. \A i \in DOMAIN unit.ctors : unit.ctors[i].priority <= p
    <3>1. \A i \in DOMAIN unit.ctors : unit.ctors[i].priority \in 0 .. p
      BY <1>3, <1>7, Priorities
    <3> QED
      BY <3>1
  <2>2. Appended(G!callBeforeMain(unit.ctors, Initialize, p), unit.ctors, Initialize, p, {})
    BY <1>4, <1>8, <2>1, BeforeMainFacts
  <2> QED
    BY <1>8, <2>2
<1>10. Appended(dtors', unit.dtors, Finalize, p, LowDtors)
  <2>1. LowDtors = {i \in DOMAIN unit.dtors : unit.dtors[i].priority < p}
    BY <1>7 DEF LowDtors
  <2>2. Appended(G!callAfterMain(unit.dtors, Finalize, p), unit.dtors, Finalize, p,
                 {i \in DOMAIN unit.dtors : unit.dtors[i].priority < p})
    BY <1>4, <1>8, AfterMainFacts
  <2> QED
    BY <1>8, <2>1, <2>2
<1>11. DOMAIN ran' = {} /\ ToSet(ran') = {} /\ IsSequence(ran')
  <2>1. ran' = <<>>
    BY <1>1, <1>2
  <2> QED
    BY <2>1, EmptySequence
<1>12. Initialize' = Initialize /\ Finalize' = Finalize /\ LowDtors' = LowDtors
  <2>1. unit' = unit /\ tool' = tool
    BY <1>2
  <2> QED
    BY <2>1, NamesKept
<1>13. CalledOnce'
  BY <1>1, <1>2, <1>9, <1>10, <1>11, <1>12 DEF CalledOnce, Appended
<1>14. FinalizeFirst'
  <2>1. PICK d \in DOMAIN dtors' : /\ 1 \in DOMAIN dtors'[d].calls /\ dtors'[d].calls[1] = Finalize
                                   /\ \A i \in LowDtors : ToSet(unit.dtors[i].calls) \subseteq ToSet(dtors'[d].calls)
    BY <1>10 DEF Appended
  <2> QED
    BY <1>2, <1>12, <2>1 DEF FinalizeFirst, IsDriver
<1>15. CtorsInTurn'
  <2>1. PICK d \in DOMAIN ctors' : /\ \A a \in DOMAIN ctors' : a # d =>
                                       \E i \in DOMAIN unit.ctors : ctors'[a] = unit.ctors[i]
                                   /\ ctors'[d].calls = <<Initialize>>
    BY <1>9 DEF Appended
  <2>2. \A i \in DOMAIN ctors' : \/ ctors'[i].calls = <<Initialize>>
                                  \/ \E c \in DOMAIN unit.ctors : ctors'[i] = unit.ctors[c]
    BY <2>1
  <2> QED
    BY <1>2, <1>11, <1>12, <2>2 DEF CtorsInTurn, InOrder
<1>16. Earlier(ran, Initialize, "main")' /\ Earlier(ran, "main", Finalize)'
  BY <1>11 DEF Earlier
<1> QED
  BY <1>1, <1>2, <1>13, <1>14, <1>15, <1>16 DEF StartInv

(***************************************************************************)
(* A record whose turn it is.                                              *)
(***************************************************************************)
LEMMA RecordFacts ==
  ASSUME NEW list, IsPlain(list), NEW i \in DOMAIN list
  PROVE  /\ IsSequence(list[i].calls) /\ ToSet(list[i].calls) \subseteq FunctionsOf(list)
         /\ \A m, n \in DOMAIN list[i].calls : list[i].calls[m] = list[i].calls[n] => m = n
BY DEF IsPlain, FunctionsOf

LEMMA AllCtorsCalled ==
  ASSUME CalledOnce, phase = "before", ctors = <<>>
  PROVE  ToSet(ran) = {Initialize} \cup FunctionsOf(unit.ctors)
<1>1. FunctionsOf(<<>>) = {}
  BY EmptySequence DEF FunctionsOf
<1> QED
  BY <1>1 DEF CalledOnce

\* Destructors move in the lists, if at all, with their records.
LEMMA FinalizeStays ==
  ASSUME StartInv, stage = "run", NEW s, IsSequence(s), Calls(ran', ran, s), dtors' = dtors,
         UNCHANGED <<unit, tool>>
  PROVE  FinalizeFirst'
<1>1. IsSequence(ran) /\ FinalizeFirst
  BY DEF StartInv, CalledOnce
<1>2. Finalize' = Finalize /\ LowDtors' = LowDtors
  BY NamesKept
<1>3. CASE \E d \in DOMAIN dtors : IsDriver(dtors[d])
  BY <1>2, <1>3 DEF FinalizeFirst, IsDriver
<1>4. CASE /\ Finalize \in ToSet(ran)
           /\ \A i \in LowDtors : \A f \in ToSet(unit.dtors[i].calls) : Earlier(ran, Finalize, f)
  <2>1. Finalize \in ToSet(ran')
    BY <1>1, <1>4, CalledWhere
  <2>2. \A i \in LowDtors : \A f \in ToSet(unit.dtors[i].calls) : Earlier(ran', Finalize, f)
    BY <1>1, <1>4, EarlierKept
  <2> QED
    BY <1>2, <2>1, <2>2 DEF FinalizeFirst
<1> QED
  BY <1>1, <1>3, <1>4 DEF FinalizeFirst

LEMMA ConstructorsStep ==
  ASSUME StartInv, RunConstructors
  PROVE  StartInv'
<1>1. /\ unit \in Units /\ tool \in Tools(unit) /\ tool # "EsperantoNamer"
      /\ stage = "run" /\ phase = "before"
      /\ UNCHANGED <<unit, tool, stage, dtors, phase>>
  BY DEF StartInv, RunConstructors
<1>2. /\ CalledOnce /\ FinalizeFirst /\ CtorsInTurn
      /\ Earlier(ran, Initialize, "main") /\ Earlier(ran, "main", Finalize)
  BY <1>1 DEF StartInv
<1>3. PICK i \in DOMAIN ctors : /\ \A j \in DOMAIN ctors : ctors[i].priority <= ctors[j].priority
                                /\ ran' = ran \o ctors[i].calls /\ ctors' = Without(ctors, i)
  BY DEF RunConstructors
<1>4. /\ Initialize # Finalize /\ Initialize # "main" /\ Finalize # "main"
      /\ {Initialize, Finalize, "main"} \cap (FunctionsOf(unit.ctors) \cup FunctionsOf(unit.dtors)) = {}
      /\ FunctionsOf(unit.ctors) \cap FunctionsOf(unit.dtors) = {}
      /\ IsPlain(unit.ctors)
  BY <1>1, PassNames, ListIsPlain
<1>5. PICK s : s = ctors[i].calls
  OBVIOUS
<1>6. /\ IsSequence(s) /\ ToSet(s) \subseteq FunctionsOf(ctors)
      /\ \A m, n \in DOMAIN s : s[m] = s[n] => m = n
  BY <1>2, <1>5, RecordFacts DEF CalledOnce
<1>7. IsSequence(ran) /\ IsPlain(ctors) /\ IsPlain(dtors)
  BY <1>2 DEF CalledOnce
<1>8. Calls(ran', ran, s)
  BY <1>3, <1>5, <1>6, <1>7, CallsMore
<1>9. Leaves(ctors', ctors, i)
  BY <1>3, <1>7, WithoutFacts
<1>10. /\ IsPlain(ctors') /\ FunctionsOf(ctors') = FunctionsOf(ctors) \ ToSet(s)
       /\ \A k \in DOMAIN ctors' : \E l \in DOMAIN ctors : l # i /\ ctors'[k] = ctors[l]
  BY <1>5, <1>9 DEF Leaves
<1>11. ToSet(ran') = ToSet(ran) \cup ToSet(s) /\ IsSequence(ran')
  BY <1>6, <1>7, <1>8, CalledWhere DEF Calls
<1>12. /\ ToSet(ran) \cap (FunctionsOf(ctors) \cup FunctionsOf(dtors)) = {}
       /\ \A k, l \in DOMAIN ran : ran[k] = ran[l] => k = l
       /\ ToSet(ran) \cup FunctionsOf(ctors) = {Initialize} \cup FunctionsOf(unit.ctors)
       /\ FunctionsOf(dtors) = {Finalize} \cup FunctionsOf(unit.dtors)
  BY <1>1, <1>2 DEF CalledOnce
<1>13. Initialize' = Initialize /\ Finalize' = Finalize /\ LowDtors' = LowDtors
  BY <1>1, NamesKept
<1>14. CalledOnce'
  <2>1. \A k, l \in DOMAIN ran' : ran'[k] = ran'[l] => k = l
    <3>1. ToSet(ran) \cap ToSet(s) = {}
      BY <1>6, <1>12
    <3> QED
      BY <1>6, <1>7, <1>8, <1>12, <3>1, OnceKept
  <2>2. ToSet(ran') \cap (FunctionsOf(ctors') \cup FunctionsOf(dtors)) = {}
    BY <1>4, <1>6, <1>10, <1>11, <1>12
  <2>3. ToSet(ran') \cup FunctionsOf(ctors') = {Initialize} \cup FunctionsOf(unit.ctors)
    BY <1>6, <1>10, <1>11, <1>12
  <2> QED
    BY <1>1, <1>7, <1>10, <1>11, <1>12, <1>13, <2>1, <2>2, <2>3 DEF CalledOnce
<1>15. FinalizeFirst'
  BY <1>1, <1>6, <1>8, FinalizeStays
\* The order of constructors.
<1>16. \A x, y : x = Initialize \/ y = Initialize => ~ G!RunsBefore(unit.ctors, TRUE, y, x)
  BY <1>4, OnlyListedInOrder
<1>17. \A l \in DOMAIN ctors : \/ ctors[l].calls = <<Initialize>>
                               \/ \E p \in DOMAIN unit.ctors : ctors[l] = unit.ctors[p]
  BY <1>2 DEF CtorsInTurn
<1>18. \A x : x \in ToSet(<<Initialize>>) => x = Initialize
  BY DEF ToSet
<1>19. ASSUME NEW x \in ToSet(s), NEW y \in FunctionsOf(ctors')
       PROVE  ~ G!RunsBefore(unit.ctors, TRUE, y, x)
  <2>1. PICK l \in DOMAIN ctors : l # i /\ y \in ToSet(ctors[l].calls)
    <3>1. PICK k \in DOMAIN ctors' : y \in ToSet(ctors'[k].calls)
      BY DEF FunctionsOf
    <3> QED
      BY <1>10, <3>1
  <2>2. CASE ctors[i].calls = <<Initialize>> \/ ctors[l].calls = <<Initialize>>
    BY <1>5, <1>16, <1>18, <2>1, <2>2
  <2>3. ASSUME NEW p \in DOMAIN unit.ctors, ctors[i] = unit.ctors[p],
               NEW q \in DOMAIN unit.ctors, ctors[l] = unit.ctors[q]
        PROVE  ~ G!RunsBefore(unit.ctors, TRUE, y, x)
    <3>1. x \in ToSet(unit.ctors[p].calls) /\ y \in ToSet(unit.ctors[q].calls)
      BY <1>5, <2>1, <2>3
    <3>2. p # q
      <4>1. p = q => y \in ToSet(ctors[i].calls) /\ y \in ToSet(ctors[l].calls)
        BY <2>1, <2>3
      <4> QED
        BY <1>7, <2>1, <4>1, OnePlace
    <3>3. unit.ctors[p].priority <= unit.ctors[q].priority
      BY <1>3, <2>3
    <3> QED
      BY <1>4, <3>1, <3>2, <3>3, LaterRecord
  <2> QED
    BY <1>17, <2>2, <2>3
<1>20. InOrder(unit.ctors, s)
  <2>1. CASE s = <<Initialize>>
    <3>1. \A k \in DOMAIN s : s[k] = Initialize
      BY <2>1
    <3> QED
      BY <1>16, <3>1 DEF InOrder
  <2>2. CASE \E p \in DOMAIN unit.ctors : ctors[i] = unit.ctors[p]
    BY <1>4, <1>5, <2>2, RecordInOrder
  <2> QED
    BY <1>5, <1>17, <2>1, <2>2
<1>21. CtorsInTurn'
  <2>1. InOrder(unit.ctors, ran')
    <3>1. \A x \in ToSet(ran), y \in ToSet(s) : ~ G!RunsBefore(unit.ctors, TRUE, y, x)
      BY <1>2, <1>6 DEF CtorsInTurn
    <3>2. InOrder(unit.ctors, ran)
      BY <1>2 DEF CtorsInTurn
    <3> QED
      BY <1>6, <1>7, <1>8, <1>20, <3>1, <3>2, InOrderKept
  <2>2. \A x \in ToSet(ran'), y \in FunctionsOf(ctors') : ~ G!RunsBefore(unit.ctors, TRUE, y, x)
    <3>1. \A x \in ToSet(ran), y \in FunctionsOf(ctors) : ~ G!RunsBefore(unit.ctors, TRUE, y, x)
      BY <1>2 DEF CtorsInTurn
    <3> QED
      BY <1>10, <1>11, <1>19, <3>1
  <2>3. \A k \in DOMAIN ctors' : \/ ctors'[k].calls = <<Initialize>>
                                 \/ \E p \in DOMAIN unit.ctors : ctors'[k] = unit.ctors[p]
    BY <1>10, <1>17
  <2> QED
    BY <1>1, <1>13, <2>1, <2>2, <2>3 DEF CtorsInTurn
<1>22. Earlier(ran', Initialize, "main") /\ Earlier(ran', "main", Finalize)
  <2>1. "main" \notin ToSet(s) /\ Finalize \notin ToSet(s)
    BY <1>4, <1>6, <1>12
  <2> QED
    BY <1>2, <1>6, <1>7, <1>8, <2>1, EarlierKept
<1> QED
  BY <1>1, <1>13, <1>14, <1>15, <1>21, <1>22 DEF StartInv

LEMMA MainStep ==
  ASSUME StartInv, RunMain
  PROVE  StartInv'
<1>1. /\ unit \in Units /\ tool \in Tools(unit) /\ tool # "EsperantoNamer"
      /\ stage = "run" /\ phase = "before" /\ ctors = <<>> /\ phase' = "after"
      /\ UNCHANGED <<unit, tool, stage, ctors, dtors>>
      /\ ran' = Append(ran, "main")
  BY DEF StartInv, RunMain
<1>2. /\ CalledOnce /\ FinalizeFirst /\ CtorsInTurn
      /\ Earlier(ran, Initialize, "main") /\ Earlier(ran, "main", Finalize)
  BY <1>1 DEF StartInv
<1>3. /\ Initialize # Finalize /\ Initialize # "main" /\ Finalize # "main"
      /\ {Initialize, Finalize, "main"} \cap (FunctionsOf(unit.ctors) \cup FunctionsOf(unit.dtors)) = {}
  BY <1>1, PassNames
<1>4. PICK s : s = <<"main">>
  OBVIOUS
<1>5. /\ IsSequence(s) /\ ToSet(s) = {"main"} /\ DOMAIN s = {1}
      /\ \A m, n \in DOMAIN s : s[m] = s[n] => m = n
  <2>1. <<"main">> \in Seq({"main"})
    OBVIOUS
  <2>2. IsSequence(<<"main">>)
    BY <2>1, SequenceOf
  <2>3. DOMAIN s = {1} /\ s[1] = "main"
    BY <1>4
  <2> QED
    BY <1>4, <2>2, <2>3 DEF ToSet
<1>6. IsSequence(ran) /\ IsPlain(ctors) /\ IsPlain(dtors)
  BY <1>2 DEF CalledOnce
<1>7. Calls(ran', ran, s)
  BY <1>1, <1>4, <1>6, CallsMain
<1>8. ToSet(ran') = ToSet(ran) \cup {"main"} /\ IsSequence(ran')
  <2>1. ToSet(ran') = ToSet(ran) \cup ToSet(s)
    BY <1>5, <1>6, <1>7, CalledWhere
  <2> QED
    BY <1>5, <1>7, <2>1 DEF Calls
<1>9. /\ ToSet(ran) = {Initialize} \cup FunctionsOf(unit.ctors)
      /\ FunctionsOf(dtors) = {Finalize} \cup FunctionsOf(unit.dtors)
      /\ ToSet(ran) \cap (FunctionsOf(ctors) \cup FunctionsOf(dtors)) = {}
      /\ \A k, l \in DOMAIN ran : ran[k] = ran[l] => k = l
  BY <1>1, <1>2, AllCtorsCalled DEF CalledOnce
<1>10. /\ Initialize' = Initialize /\ Finalize' = Finalize /\ LowDtors' = LowDtors
       /\ ToCall' = ToCall
  BY <1>1, NamesKept
<1>11. CalledOnce'
  <2>1. FunctionsOf(ctors) = {}
    BY <1>1, EmptySequence DEF FunctionsOf
  <2>2. \A k, l \in DOMAIN ran' : ran'[k] = ran'[l] => k = l
    <3>1. ToSet(ran) \cap ToSet(s) = {}
      BY <1>3, <1>5, <1>9
    <3> QED
      BY <1>5, <1>6, <1>7, <1>9, <3>1, OnceKept
  <2>3. ToSet(ran') \cap (FunctionsOf(ctors) \cup FunctionsOf(dtors)) = {}
    BY <1>3, <1>8, <1>9, <2>1
  <2>4. ToSet(ran') \cup FunctionsOf(dtors) = ToCall
    BY <1>8, <1>9 DEF ToCall
  <2>5. {Initialize, "main"} \cup FunctionsOf(unit.ctors) \subseteq ToSet(ran')
    BY <1>8, <1>9
  <2> QED
    BY <1>1, <1>6, <1>8, <1>10, <2>2, <2>3, <2>4, <2>5 DEF CalledOnce
<1>12. FinalizeFirst'
  BY <1>1, <1>5, <1>7, FinalizeStays
<1>13. CtorsInTurn'
  <2>1. \A x : ~ G!RunsBefore(unit.ctors, TRUE, "main", x)
    BY <1>3, OnlyListedInOrder
  <2>2. \A x : ~ G!RunsBefore(unit.ctors, TRUE, x, "main")
    BY <1>3, OnlyListedInOrder
  <2>3. InOrder(unit.ctors, s)
    BY <1>5 DEF InOrder
  <2>4. InOrder(unit.ctors, ran) /\ \A x \in ToSet(ran), y \in ToSet(s) :
                                       ~ G!RunsBefore(unit.ctors, TRUE, y, x)
    BY <1>2, <1>5, <2>1 DEF CtorsInTurn
  <2>5. InOrder(unit.ctors, ran')
    BY <1>5, <1>6, <1>7, <2>3, <2>4, InOrderKept
  <2>6. FunctionsOf(ctors) = {} /\ DOMAIN ctors = {}
    BY <1>1, EmptySequence DEF FunctionsOf
  <2> QED
    BY <1>1, <1>10, <2>5, <2>6 DEF CtorsInTurn
<1>14. Earlier(ran', Initialize, "main") /\ Earlier(ran', "main", Finalize)
  <2>1. Initialize \in ToSet(ran) /\ Finalize \notin ToSet(s)
    BY <1>3, <1>5, <1>9
  <2> QED
    BY <1>2, <1>5, <1>6, <1>7, <2>1, EarlierKept
<1> QED
  BY <1>1, <1>10, <1>11, <1>12, <1>13, <1>14 DEF StartInv

LEMMA DestructorsStep ==
  ASSUME StartInv, RunDestructors
  PROVE  StartInv'
<1>1. /\ unit \in Units /\ tool \in Tools(unit) /\ tool # "EsperantoNamer"
      /\ stage = "run" /\ phase = "after"
      /\ UNCHANGED <<unit, tool, stage, ctors, phase>>
  BY DEF StartInv, RunDestructors
<1>2. /\ CalledOnce /\ FinalizeFirst /\ CtorsInTurn
      /\ Earlier(ran, Initialize, "main") /\ Earlier(ran, "main", Finalize)
  BY <1>1 DEF StartInv
<1>3. PICK i \in DOMAIN dtors : ran' = ran \o dtors[i].calls /\ dtors' = Without(dtors, i)
  BY DEF RunDestructors
<1>4. /\ Initialize # Finalize /\ Initialize # "main" /\ Finalize # "main"
      /\ {Initialize, Finalize, "main"} \cap (FunctionsOf(unit.ctors) \cup FunctionsOf(unit.dtors)) = {}
  BY <1>1, PassNames
<1>5. PICK s : s = dtors[i].calls
  OBVIOUS
<1>6. /\ IsSequence(s) /\ ToSet(s) \subseteq FunctionsOf(dtors)
      /\ \A m, n \in DOMAIN s : s[m] = s[n] => m = n
  BY <1>2, <1>5, RecordFacts DEF CalledOnce
<1>7. IsSequence(ran) /\ IsPlain(ctors) /\ IsPlain(dtors)
  BY <1>2 DEF CalledOnce
<1>8. Calls(ran', ran, s)
  BY <1>3, <1>5, <1>6, <1>7, CallsMore
<1>9. Leaves(dtors', dtors, i)
  BY <1>3, <1>7, WithoutFacts
<1>10. /\ IsPlain(dtors') /\ FunctionsOf(dtors') = FunctionsOf(dtors) \ ToSet(s)
       /\ \A l \in DOMAIN dtors : l # i => \E k \in DOMAIN dtors' : dtors'[k] = dtors[l]
  BY <1>5, <1>9 DEF Leaves
<1>11. ToSet(ran') = ToSet(ran) \cup ToSet(s) /\ IsSequence(ran')
  BY <1>6, <1>7, <1>8, CalledWhere DEF Calls
<1>12. /\ ToSet(ran) \cap (FunctionsOf(ctors) \cup FunctionsOf(dtors)) = {}
       /\ \A k, l \in DOMAIN ran : ran[k] = ran[l] => k = l
       /\ ctors = <<>> /\ {Initialize, "main"} \cup FunctionsOf(unit.ctors) \subseteq ToSet(ran)
       /\ ToSet(ran) \cup FunctionsOf(dtors) = ToCall
  BY <1>1, <1>2 DEF CalledOnce
<1>13. /\ Initialize' = Initialize /\ Finalize' = Finalize /\ LowDtors' = LowDtors
       /\ ToCall' = ToCall
  BY <1>1, NamesKept
<1>14. FunctionsOf(ctors) = {} /\ DOMAIN ctors = {}
  BY <1>12, EmptySequence DEF FunctionsOf
<1>15. ToSet(ran) \cap ToSet(s) = {}
  BY <1>6, <1>12
<1>16. CalledOnce'
  <2>1. \A k, l \in DOMAIN ran' : ran'[k] = ran'[l] => k = l
    BY <1>6, <1>7, <1>8, <1>12, <1>15, OnceKept
  <2>2. ToSet(ran') \cap (FunctionsOf(ctors) \cup FunctionsOf(dtors')) = {}
    BY <1>10, <1>11, <1>12, <1>14
  <2>3. ToSet(ran') \cup FunctionsOf(dtors') = ToCall
    BY <1>6, <1>10, <1>11, <1>12
  <2>4. {Initialize, "main"} \cup FunctionsOf(unit.ctors) \subseteq ToSet(ran')
    BY <1>11, <1>12
  <2> QED
    BY <1>1, <1>7, <1>10, <1>11, <1>12, <1>13, <2>1, <2>2, <2>3, <2>4 DEF CalledOnce
<1>17. FinalizeFirst'
  <2>1. CASE IsDriver(dtors[i])
    <3>1. /\ 1 \in DOMAIN s /\ s[1] = Finalize
          /\ \A k \in LowDtors : ToSet(unit.dtors[k].calls) \subseteq ToSet(s)
      BY <1>5, <2>1 DEF IsDriver
    <3>2. Finalize \in ToSet(ran')
      BY <1>11, <3>1 DEF ToSet
    <3>3. ASSUME NEW k \in LowDtors, NEW f \in ToSet(unit.dtors[k].calls)
          PROVE  Earlier(ran', Finalize, f)
      <4>1. f \in ToSet(s) /\ f \notin ToSet(ran)
        BY <1>15, <3>1
      <4>2. f # Finalize
        <5>1. k \in DOMAIN unit.dtors
          BY DEF LowDtors
        <5>2. f \in FunctionsOf(unit.dtors)
          BY <5>1 DEF FunctionsOf
        <5> QED
          BY <1>4, <5>2
      <4>3. Earlier(s, Finalize, f)
        <5> SUFFICES ASSUME NEW j \in DOMAIN s, s[j] = f
                     PROVE  \E m \in 1 .. j - 1 : s[m] = Finalize
          BY DEF Earlier
        <5>1. j # 1
          BY <3>1, <4>2
        <5>2. DOMAIN s = 1 .. Len(s) /\ Len(s) \in Nat
          BY <1>6, SequenceFacts
        <5>3. 1 \in 1 .. j - 1
          BY <5>1, <5>2
        <5> QED
          BY <3>1, <5>3
      <4>4. Earlier(ran, Finalize, f)
        BY <4>1 DEF Earlier, ToSet
      <4> QED
        BY <1>6, <1>7, <1>8, <4>3, <4>4, EarlierKept
    <3> QED
      BY <1>1, <1>13, <3>2, <3>3 DEF FinalizeFirst
  <2>2. CASE \E d \in DOMAIN dtors : d # i /\ IsDriver(dtors[d])
    <3>1. PICK d \in DOMAIN dtors : d # i /\ IsDriver(dtors[d])
      BY <2>2
    <3>2. PICK k \in DOMAIN dtors' : dtors'[k] = dtors[d]
      BY <1>10, <3>1
    <3> QED
      BY <1>1, <1>13, <3>1, <3>2 DEF FinalizeFirst, IsDriver
  <2>3. CASE /\ Finalize \in ToSet(ran)
             /\ \A k \in LowDtors : \A f \in ToSet(unit.dtors[k].calls) : Earlier(ran, Finalize, f)
    <3>1. Finalize \in ToSet(ran')
      BY <1>11, <2>3
    <3>2. \A k \in LowDtors : \A f \in ToSet(unit.dtors[k].calls) : Earlier(ran', Finalize, f)
      BY <1>6, <1>7, <1>8, <2>3, EarlierKept
    <3> QED
      BY <1>1, <1>13, <3>1, <3>2 DEF FinalizeFirst
  <2> QED
    BY <1>2, <2>1, <2>2, <2>3 DEF FinalizeFirst
<1>18. CtorsInTurn'
  <2>1. \A y \in ToSet(s) : y \notin FunctionsOf(unit.ctors)
    BY <1>12, <1>15
  <2>2. \A x, y : y \in ToSet(s) => ~ G!RunsBefore(unit.ctors, TRUE, y, x)
    BY <2>1, OnlyListedInOrder
  <2>3. InOrder(unit.ctors, s)
    BY <2>2 DEF InOrder, ToSet
  <2>4. InOrder(unit.ctors, ran) /\ \A x \in ToSet(ran), y \in ToSet(s) :
                                       ~ G!RunsBefore(unit.ctors, TRUE, y, x)
    BY <1>2, <2>2 DEF CtorsInTurn
  <2>5. InOrder(unit.ctors, ran')
    BY <1>6, <1>7, <1>8, <2>3, <2>4, InOrderKept
  <2> QED
    BY <1>1, <1>13, <1>14, <2>5 DEF CtorsInTurn
<1>19. Earlier(ran', Initialize, "main") /\ Earlier(ran', "main", Finalize)
  <2>1. Initialize \in ToSet(ran) /\ "main" \in ToSet(ran)
    BY <1>12
  <2> QED
    BY <1>2, <1>6, <1>7, <1>8, <2>1, EarlierKept
<1> QED
  BY <1>1, <1>13, <1>16, <1>17, <1>18, <1>19 DEF StartInv

LEMMA StartInit == Init => StartInv
BY DEF Init, StartInv

LEMMA StartStep == StartInv /\ [Next]_vars => StartInv'
<1> SUFFICES ASSUME StartInv, [Next]_vars PROVE StartInv'
  OBVIOUS
<1>1. CASE NameFunction
  BY <1>1 DEF NameFunction, StartInv, startVars
<1>2. CASE LoadMetadata
  BY <1>2 DEF LoadMetadata, StartInv, startVars
<1>3. CASE recordLoopIDforEachLoop
  BY <1>3 DEF recordLoopIDforEachLoop, StartInv, startVars
<1>4. CASE FindDependences
  BY <1>4 DEF FindDependences, StartInv, startVars
<1>5. CASE GiveDevices
  <2>1. UNCHANGED <<unit, tool, startVars>> /\ stage = "loops" /\ stage' \in {"crashed", "devices"}
    BY <1>5 DEF GiveDevices
  <2> QED
    BY <2>1 DEF StartInv, startVars
<1>6. CASE AddInitAndFini
  BY <1>6, LinkedRight
<1>7. CASE RunConstructors
  BY <1>7, ConstructorsStep
<1>8. CASE RunMain
  BY <1>8, MainStep
<1>9. CASE RunDestructors
  BY <1>9, DestructorsStep
<1>10. CASE UNCHANGED vars
  <2>1. UNCHANGED <<unit, tool, stage, ctors, dtors, ran, phase>>
    BY <1>10 DEF vars, startVars
  <2>2. /\ Initialize' = Initialize /\ Finalize' = Finalize /\ LowDtors' = LowDtors
        /\ ToCall' = ToCall
    BY <2>1, NamesKept
  <2>3. CASE stage = "run"
    <3>1. (CalledOnce <=> CalledOnce') /\ (FinalizeFirst <=> FinalizeFirst')
          /\ (CtorsInTurn <=> CtorsInTurn')
      BY <2>1, <2>2 DEF CalledOnce, FinalizeFirst, IsDriver, CtorsInTurn
    <3> QED
      BY <2>1, <2>2, <2>3, <3>1 DEF StartInv
  <2>4. CASE stage # "run"
    BY <2>1, <2>4 DEF StartInv
  <2> QED
    BY <2>3, <2>4
<1> QED
  BY <1>1, <1>2, <1>3, <1>4, <1>5, <1>6, <1>7, <1>8, <1>9, <1>10 DEF Next

LEMMA StartIsKept == StartInv => StartAndEndKept
<1> SUFFICES ASSUME StartInv, stage = "run"
             PROVE  /\ \A i, j \in DOMAIN ran : ran[i] = ran[j] => i = j
                    /\ ToSet(ran) \subseteq ToCall
                    /\ Precedes(Initialize, "main") /\ Precedes("main", Finalize)
                    /\ \A i \in DOMAIN unit.dtors : unit.dtors[i].priority < G!DefaultPriority =>
                         \A f \in ToSet(unit.dtors[i].calls) : Precedes(Finalize, f)
                    /\ \A i, j \in DOMAIN ran : i < j => ~ G!RunsBefore(unit.ctors, TRUE, ran[j], ran[i])
                    /\ phase = "after" /\ dtors = <<>> => ToCall \subseteq ToSet(ran)
  BY DEF StartAndEndKept
<1>1. /\ CalledOnce /\ FinalizeFirst /\ CtorsInTurn
      /\ Earlier(ran, Initialize, "main") /\ Earlier(ran, "main", Finalize)
  BY DEF StartInv
<1>2. \A f, g : Earlier(ran, f, g) => Precedes(f, g)
  BY DEF Earlier, Precedes
<1>3. ToSet(ran) \subseteq ToCall
  BY <1>1 DEF CalledOnce, ToCall
<1>4. phase = "after" /\ dtors = <<>> => ToCall \subseteq ToSet(ran)
  <2>1. FunctionsOf(<<>>) = {}
    BY EmptySequence DEF FunctionsOf
  <2> QED
    BY <1>1, <2>1 DEF CalledOnce
<1>5. ASSUME NEW i \in LowDtors, NEW f \in ToSet(unit.dtors[i].calls)
      PROVE  Earlier(ran, Finalize, f)
  <2>1. CASE \E d \in DOMAIN dtors : IsDriver(dtors[d])
    <3>1. PICK d \in DOMAIN dtors : IsDriver(dtors[d])
      BY <2>1
    <3>2. f \in FunctionsOf(dtors)
      BY <3>1 DEF IsDriver, FunctionsOf
    <3>3. f \notin ToSet(ran)
      BY <1>1, <3>2 DEF CalledOnce
    <3> QED
      BY <3>3 DEF Earlier, ToSet
  <2>2. CASE \A k \in LowDtors : \A g \in ToSet(unit.dtors[k].calls) : Earlier(ran, Finalize, g)
    BY <2>2
  <2> QED
    BY <1>1, <2>1, <2>2 DEF FinalizeFirst
<1>6. \A i \in DOMAIN unit.dtors : unit.dtors[i].priority < G!DefaultPriority =>
        \A f \in ToSet(unit.dtors[i].calls) : Precedes(Finalize, f)
  BY <1>2, <1>5 DEF LowDtors
<1>7. \A i, j \in DOMAIN ran : ran[i] = ran[j] => i = j
  BY <1>1 DEF CalledOnce
<1>8. \A i, j \in DOMAIN ran : i < j => ~ G!RunsBefore(unit.ctors, TRUE, ran[j], ran[i])
  BY <1>1 DEF CtorsInTurn, InOrder
<1> QED
  BY <1>1, <1>2, <1>3, <1>4, <1>6, <1>7, <1>8

(***************************************************************************)
(* What the loader calls of an instrumented program: what it called before *)
(* and the pass's two functions, each once; Initialize before main,        *)
(* Finalize after it and before the destructors of low priority; and the   *)
(* constructors in an order they could come in before.                     *)
(***************************************************************************)
THEOREM StartAndEnd == Spec => []StartAndEndKept
<1>1. Spec => []StartInv
  BY StartInit, StartStep, PTL DEF Spec
<1> QED
  BY <1>1, StartIsKept, PTL
=============================================================================
