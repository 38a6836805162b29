---------------------------- MODULE AmqpPoolProofs ----------------------------
(***************************************************************************)
(* Theorems of the pool of AMQP requesters, for any number of callers,     *)
(* requests, workers and crashes: its types, the custody of each live worker, that   *)
(* dead workers leave its queue, that none of its workers is uncounted,    *)
(* that the pool lends its workers as WorkerLending says, and that a busy  *)
(* worker hears of the end of its caller.                                  *)
(*                                                                         *)
(* A worker is in custody when the occurrences of it in the queue and the  *)
(* mailboxes, and its own states, number one.  So each step is a sum: what *)
(* it takes from one place it puts in another.                             *)
(***************************************************************************)
EXTENDS AmqpPool, FiniteSetTheorems, SequenceTheorems, TLAPS

-----------------------------------------------------------------------------
(* Sequences without an element, by induction on their length.             *)

LEMMA Least ==
  ASSUME NEW T, T \subseteq Nat, T # {}
  PROVE  \E n \in T : \A m \in T : n <= m
<1>1. PICK k \in T : TRUE OBVIOUS
<1> DEFINE Upto == {1..n : n \in {m \in T : m <= k}}
<1>2. k \in Nat /\ IsFiniteSet(1..k) BY FS_Interval
<1>3. Upto \subseteq FiniteSubsetsOf(1..k)
  <2>1. ASSUME NEW n \in T, n <= k PROVE 1..n \in FiniteSubsetsOf(1..k)
    BY <1>2, <2>1, FS_Interval DEF FiniteSubsetsOf
  <2> QED BY <2>1
<1>4. 1..k \in Upto BY <1>2
<1>5. IsWellFoundedOn(StrictSubsetOrdering(1..k), FiniteSubsetsOf(1..k))
  BY FS_StrictSubsetOrderingWellFounded
<1>6. PICK s \in Upto : \A t \in Upto : <<t, s>> \notin StrictSubsetOrdering(1..k)
  <2> HIDE DEF Upto
  <2> QED BY <1>3, <1>4, <1>5, WFMin
<1>7. PICK n \in T : s = 1..n /\ n <= k BY <1>6
<1>8. ASSUME NEW m \in T, m < n PROVE FALSE
  <2>0. m \in Nat /\ n \in Nat OBVIOUS
  <2>1. m \in Nat /\ n \in Nat /\ m <= k BY <2>0, <1>2, <1>7, <1>8
  <2>2. 1..m \in Upto BY <2>1
  <2>3. 1..m \subseteq 1..n /\ 1..m # 1..n /\ 1..n \subseteq 1..k
    <3>1. n \in 1..n /\ n \notin 1..m BY <2>1, <1>8
    <3> QED BY <3>1, <2>1, <1>7, <1>8
  <2>4. <<1..m, 1..n>> \in StrictSubsetOrdering(1..k) BY <2>3 DEF StrictSubsetOrdering
  <2> QED BY <2>2, <2>4, <1>6, <1>7
<1>9. ASSUME NEW m \in T PROVE n <= m
  <2>1. m \in Nat /\ n \in Nat OBVIOUS
  <2> QED BY <2>1, <1>8
<1> QED BY <1>9

Sieves(f, s, x, n) ==
  f = [i \in 0..n |->
        IF i = 0 THEN <<>> ELSE IF s[i] = x THEN f[i-1] ELSE Append(f[i-1], s[i])]

LEMMA SieveExists ==
  ASSUME NEW s, NEW x, NEW k \in Nat
  PROVE  \E f : Sieves(f, s, x, k)
<1> DEFINE T == {n \in Nat : ~ \E f : Sieves(f, s, x, n)}
<1>1. SUFFICES ASSUME T # {} PROVE FALSE OBVIOUS
<1>2. PICK n \in T : \A m \in T : n <= m BY <1>1, Least
<1>3. n # 0
  <2>1. Sieves([i \in 0..0 |-> <<>>], s, x, 0) BY DEF Sieves
  <2> QED BY <2>1
<1>4. n - 1 \in Nat /\ n - 1 \notin T BY <1>2, <1>3
<1>5. PICK f : Sieves(f, s, x, n-1) BY <1>4
<1> DEFINE e == IF s[n] = x THEN f[n-1] ELSE Append(f[n-1], s[n])
           g == [i \in 0..n |-> IF i = n THEN e ELSE f[i]]
<1>6. Sieves(g, s, x, n)
  <2> DEFINE h == [i \in 0..n |->
        IF i = 0 THEN <<>> ELSE IF s[i] = x THEN g[i-1] ELSE Append(g[i-1], s[i])]
  <2>1. ASSUME NEW i \in 0..n PROVE g[i] = h[i]
    <3>1. CASE i = 0 
      <4>1. f[0] = <<>> /\ 0 \in 0..n /\ 0 # n BY <1>3, <1>5 DEF Sieves
      <4>2. g[0] = f[0] /\ h[0] = <<>> BY <4>1
      <4> QED BY <3>1, <4>1, <4>2
    <3>2. CASE i \in 1..(n-1) 
      <4>1. f[i] = IF s[i] = x THEN f[i-1] ELSE Append(f[i-1], s[i]) 
        <5>1. i \in 0..(n-1) /\ i # 0 BY <3>2
        <5> QED BY <5>1, <1>5 DEF Sieves
      <4>2. g[i-1] = f[i-1] /\ g[i] = f[i] BY <3>2
      <4>3. h[i] = IF s[i] = x THEN g[i-1] ELSE Append(g[i-1], s[i]) BY <3>2
      <4> HIDE DEF g, h
      <4> QED BY <4>1, <4>2, <4>3
    <3>3. CASE i = n 
      <4>2. g[n-1] = f[n-1] /\ g[n] = e BY <1>3
      <4>3. h[n] = IF s[n] = x THEN g[n-1] ELSE Append(g[n-1], s[n]) BY <1>3
      <4> HIDE DEF g, h
      <4> QED BY <3>3, <4>2, <4>3
    <3> QED BY <3>1, <3>2, <3>3
  <2>2. g = h BY <2>1
  <2> QED BY <2>2 DEF Sieves
<1> QED BY <1>6

LEMMA WithoutSieves ==
  ASSUME NEW s, NEW x, Len(s) \in Nat
  PROVE  \E f : Sieves(f, s, x, Len(s)) /\ Without(s, x) = f[Len(s)]
<1> DEFINE F == CHOOSE f : Sieves(f, s, x, Len(s))
<1>1. Sieves(F, s, x, Len(s)) BY SieveExists
<1>2. Without(s, x) = F[Len(s)] BY Zenon DEF Without, Sieves
<1> QED BY <1>1, <1>2

-----------------------------------------------------------------------------
(* Occurrences in sequences.                                               *)

LEMMA Finite ==
  ASSUME NEW a \in Int, NEW b \in Int, NEW T \in SUBSET (a..b)
  PROVE  IsFiniteSet(T) /\ Cardinality(T) \in Nat
BY FS_Interval, FS_Subset, FS_CardinalityType

LEMMA CountIsNat ==
  ASSUME NEW S, NEW s \in Seq(S), NEW set
  PROVE  /\ Count(s, set) \in Nat
         /\ Count(s, set) = 0 <=> \A i \in 1..Len(s) : s[i] \notin set
<1> DEFINE A == {i \in DOMAIN s : s[i] \in set}
<1>1. DOMAIN s = 1..Len(s) /\ Len(s) \in Nat BY LenProperties
<1>2. A \in SUBSET (1..Len(s)) /\ 1 \in Int /\ Len(s) \in Int BY <1>1
<1>3. A = {} <=> \A i \in 1..Len(s) : s[i] \notin set BY <1>1
<1>4. Count(s, set) = Cardinality(A) BY DEF Count
<1> HIDE DEF A
<1>5. IsFiniteSet(A) /\ Cardinality(A) \in Nat BY <1>2, Finite
<1> QED BY <1>3, <1>4, <1>5, FS_EmptySet

LEMMA CountAppend ==
  ASSUME NEW S, NEW s \in Seq(S), NEW e \in S, NEW set
  PROVE  Count(Append(s, e), set) = Count(s, set) + One(e \in set)
<1> DEFINE t == Append(s, e)
           A == {i \in DOMAIN s : s[i] \in set}
           B == {i \in DOMAIN t : t[i] \in set}
<1>1. /\ DOMAIN s = 1..Len(s) /\ Len(s) \in Nat /\ DOMAIN t = 1..(Len(s) + 1)
      /\ \A i \in 1..Len(s) : t[i] = s[i]
      /\ t[Len(s) + 1] = e
  BY LenProperties, AppendProperties
<1> HIDE DEF t
<1>2. A \in SUBSET (1..Len(s)) /\ 1 \in Int /\ Len(s) \in Int BY <1>1
<1>3. e \in set => B = A \cup {Len(s) + 1} /\ Len(s) + 1 \notin A BY <1>1
<1>4. e \notin set => B = A BY <1>1
<1>5. Count(s, set) = Cardinality(A) /\ Count(t, set) = Cardinality(B) BY DEF Count
<1> HIDE DEF A, B
<1>6. IsFiniteSet(A) /\ Cardinality(A) \in Nat BY <1>2, Finite
<1>7. e \in set => Cardinality(B) = Cardinality(A) + 1 BY <1>3, <1>6, FS_AddElement
<1>8. Count(t, set) = Count(s, set) + One(e \in set) BY <1>4, <1>5, <1>6, <1>7 DEF One
<1> QED BY <1>8 DEF t

LEMMA SuffixOf ==
  ASSUME NEW S, NEW s \in Seq(S), NEW n \in 0..Len(s)
  PROVE  /\ SubSeq(s, n + 1, Len(s)) \in Seq(S)
         /\ Len(SubSeq(s, n + 1, Len(s))) = Len(s) - n
         /\ \A i \in 1..(Len(s) - n) : SubSeq(s, n + 1, Len(s))[i] = s[n + i]
<1>1. Len(s) \in Nat /\ n \in Nat /\ n <= Len(s) /\ s \in [1..Len(s) -> S] BY LenProperties
<1> DEFINE m == n + 1
           k == Len(s)
           t == SubSeq(s, m, k)
<1>2. m \in Int /\ k \in Int /\ \A i \in m..k : s[i] \in S BY <1>1
<1> HIDE DEF m, k
<1>3. /\ t \in Seq(S) /\ Len(t) = IF m <= k THEN k - m + 1 ELSE 0
      /\ \A i \in 1..(k - m + 1) : t[i] = s[m + i - 1]
  BY <1>2, SubSeqProperties
<1> HIDE DEF t
<1>4. k - m + 1 = Len(s) - n /\ (m <= k <=> n < Len(s)) BY <1>1 DEF m, k
<1>5. Len(t) = Len(s) - n BY <1>1, <1>3, <1>4
<1>6. \A i \in 1..(Len(s) - n) : m + i - 1 = n + i BY <1>1 DEF m
<1>7. \A i \in 1..(Len(s) - n) : t[i] = s[n + i] BY <1>3, <1>4, <1>6
<1> QED BY <1>3, <1>5, <1>7 DEF t, m, k

LEMMA CountBack ==
  ASSUME NEW S, NEW s \in Seq(S), NEW set, NEW n \in 0..Len(s)
  PROVE  Count(s, set)
           = Cardinality({i \in 1..n : s[i] \in set}) + Count(SubSeq(s, n + 1, Len(s)), set)
<1> DEFINE t == SubSeq(s, n + 1, Len(s))
           A == {i \in 1..n : s[i] \in set}
           B == {i \in (n + 1)..Len(s) : s[i] \in set}
           C == {i \in DOMAIN t : t[i] \in set}
           f == [i \in C |-> i + n]
<1>1. DOMAIN s = 1..Len(s) /\ Len(s) \in Nat /\ n \in Nat /\ n <= Len(s) BY LenProperties
<1>2. t \in Seq(S) /\ Len(t) = Len(s) - n /\ \A i \in 1..(Len(s) - n) : t[i] = s[n + i]
  BY SuffixOf
<1> HIDE DEF t
<1>3. DOMAIN t = 1..(Len(s) - n) BY <1>2, LenProperties
<1>4. A \in SUBSET (1..n) /\ B \in SUBSET ((n + 1)..Len(s)) /\ C \in SUBSET (1..(Len(s) - n))
  BY <1>1, <1>3
<1>5. \A i \in C : i \in Int /\ i + n \in B BY <1>1, <1>2, <1>3
<1>6. \A j \in B : j - n \in C /\ j = (j - n) + n
  <2>1. ASSUME NEW j \in B PROVE j - n \in C /\ j = (j - n) + n
    <3>1. j \in (n + 1)..Len(s) /\ s[j] \in set OBVIOUS
    <3>2. j - n \in 1..(Len(s) - n) /\ n + (j - n) = j /\ j = (j - n) + n BY <1>1, <3>1
    <3>3. t[j - n] = s[j] BY <1>2, <3>2
    <3> QED BY <1>3, <3>1, <3>2, <3>3
  <2> QED BY <2>1
<1>7. {i \in DOMAIN s : s[i] \in set} = A \cup B /\ A \cap B = {} BY <1>1
<1>8. Count(s, set) = Cardinality(A \cup B) /\ Count(t, set) = Cardinality(C)
  BY <1>7 DEF Count
<1> SUFFICES Cardinality(A \cup B) = Cardinality(A) + Cardinality(C) BY <1>8 DEF t
<1> HIDE DEF A, B, C
<1>9. /\ IsFiniteSet(A) /\ Cardinality(A) \in Nat
      /\ IsFiniteSet(B) /\ Cardinality(B) \in Nat
      /\ IsFiniteSet(C) /\ Cardinality(C) \in Nat
  <2>1. 1 \in Int /\ n \in Int /\ n + 1 \in Int /\ Len(s) \in Int /\ Len(s) - n \in Int BY <1>1
  <2> QED BY <1>4, <2>1, Finite
<1>10. f \in Bijection(C, B)
  <2>1. f \in [C -> B] BY <1>5
  <2>2. \A i, j \in C : f[i] = f[j] => i = j BY <1>1, <1>5
  <2>3. \A j \in B : \E i \in C : f[i] = j BY <1>6
  <2> HIDE DEF f
  <2>4. f \in Injection(C, B) BY <2>1, <2>2 DEF Injection, IsInjective
  <2>5. f \in Surjection(C, B) BY <2>1, <2>3 DEF Surjection
  <2> QED BY <2>4, <2>5 DEF Bijection
<1>11. Cardinality(C) = Cardinality(B)
  <2>1. ExistsBijection(C, B) BY <1>10 DEF ExistsBijection
  <2> QED BY <1>9, <2>1, FS_Bijection
<1>12. Cardinality(A \cup B) = Cardinality(A) + Cardinality(B)
  <2>1. Cardinality(A \cup B) = Cardinality(A) + Cardinality(B) - Cardinality(A \cap B)
    BY <1>9, FS_Union
  <2>2. Cardinality(A \cap B) = 0 BY <1>7, FS_EmptySet
  <2> QED BY <1>9, <2>1, <2>2
<1> QED BY <1>11, <1>12

LEMMA CountTail ==
  ASSUME NEW S, NEW s \in Seq(S), s # <<>>, NEW set
  PROVE  Count(s, set) = Count(Tail(s), set) + One(Head(s) \in set)
<1>1. /\ Len(s) \in Nat \ {0} /\ Head(s) = s[1] /\ Tail(s) = SubSeq(s, 2, Len(s))
      /\ Tail(s) \in Seq(S)
  BY EmptySeq, TailIsSubSeq, HeadTailProperties
<1> DEFINE A == {i \in 1..1 : s[i] \in set}
<1>2. Count(s, set) = Cardinality(A) + Count(Tail(s), set)
  <2>1. 1 \in 0..Len(s) /\ 1 + 1 = 2 BY <1>1
  <2>2. Count(s, set) = Cardinality(A) + Count(SubSeq(s, 1 + 1, Len(s)), set)
    BY <2>1, CountBack
  <2> QED BY <1>1, <2>1, <2>2
<1>3. Head(s) \in set => A = {1} BY <1>1
<1>4. Head(s) \notin set => A = {} BY <1>1
<1> HIDE DEF A
<1>5. Head(s) \in set => Cardinality(A) = 1 BY <1>3, FS_Singleton
<1>6. Head(s) \notin set => Cardinality(A) = 0 BY <1>4, FS_EmptySet
<1>7. Count(Tail(s), set) \in Nat BY <1>1, CountIsNat
<1> QED BY <1>2, <1>5, <1>6, <1>7 DEF One

\* The hits among the first n elements.
To(s, set, n) == Cardinality({i \in 1..n : s[i] \in set})

LEMMA ToNext ==
  ASSUME NEW s, NEW set, NEW n \in Nat \ {0}
  PROVE  To(s, set, n) = To(s, set, n - 1) + One(s[n] \in set) /\ To(s, set, n - 1) \in Nat
<1> DEFINE A == {i \in 1..(n - 1) : s[i] \in set}
           B == {i \in 1..n : s[i] \in set}
<1>1. A \in SUBSET (1..(n - 1)) /\ 1 \in Int /\ n - 1 \in Int OBVIOUS
<1>2. s[n] \in set => B = A \cup {n} /\ n \notin A OBVIOUS
<1>3. s[n] \notin set => B = A OBVIOUS
<1>4. To(s, set, n) = Cardinality(B) /\ To(s, set, n - 1) = Cardinality(A) BY DEF To
<1> HIDE DEF A, B
<1>5. IsFiniteSet(A) /\ Cardinality(A) \in Nat BY <1>1, Finite
<1>6. s[n] \in set => Cardinality(B) = Cardinality(A) + 1 BY <1>2, <1>5, FS_AddElement
<1> QED BY <1>3, <1>4, <1>5, <1>6 DEF One

\* What Without has kept of the first n elements.
Kept(S, s, x, f, n) ==
  /\ f[n] \in Seq(S)
  /\ \A set : x \notin set => Count(f[n], set) = To(s, set, n)
  /\ Count(f[n], {x}) = 0

LEMMA KeptNext ==
  ASSUME NEW S, NEW s \in Seq(S), NEW x, NEW f, Sieves(f, s, x, Len(s)),
         NEW n \in 1..Len(s), Kept(S, s, x, f, n - 1)
  PROVE  Kept(S, s, x, f, n)
<1>1. Len(s) \in Nat /\ s \in [1..Len(s) -> S] /\ n \in Nat \ {0} BY LenProperties
<1>2. f[n] = IF s[n] = x THEN f[n - 1] ELSE Append(f[n - 1], s[n])
  <2>1. n \in 0..Len(s) /\ n # 0 BY <1>1
  <2> QED BY <2>1 DEF Sieves
<1>3. s[n] \in S BY <1>1
<1>4. \A set : To(s, set, n) = To(s, set, n - 1) + One(s[n] \in set) /\ To(s, set, n - 1) \in Nat
  BY <1>1, ToNext
<1>5. CASE s[n] = x
  <2>1. \A set : x \notin set => To(s, set, n) = To(s, set, n - 1) BY <1>4, <1>5 DEF One
  <2> QED BY <1>2, <1>5, <2>1 DEF Kept
<1>6. CASE s[n] # x
  <2>1. f[n] = Append(f[n - 1], s[n]) /\ f[n - 1] \in Seq(S) BY <1>2, <1>6 DEF Kept
  <2>2. \A set : Count(f[n], set) = Count(f[n - 1], set) + One(s[n] \in set)
    BY <1>3, <2>1, CountAppend
  <2>3. f[n] \in Seq(S) BY <1>3, <2>1, AppendProperties
  <2>4. s[n] \notin {x} BY <1>6
  <2>5. Count(f[n], {x}) = 0 BY <2>2, <2>4 DEF One, Kept
  <2>6. \A set : x \notin set => Count(f[n], set) = To(s, set, n) BY <1>4, <2>2 DEF Kept
  <2> QED BY <2>3, <2>5, <2>6 DEF Kept
<1> QED BY <1>5, <1>6

LEMMA WithoutKeeps ==
  ASSUME NEW S, NEW s \in Seq(S), NEW x
  PROVE  \E f : Without(s, x) = f[Len(s)] /\ Kept(S, s, x, f, Len(s))
<1>1. Len(s) \in Nat /\ DOMAIN s = 1..Len(s) BY LenProperties
<1>2. PICK f : Sieves(f, s, x, Len(s)) /\ Without(s, x) = f[Len(s)] BY <1>1, WithoutSieves
<1>3. Kept(S, s, x, f, 0)
  <2>1. f[0] = <<>> BY <1>1, <1>2 DEF Sieves
  <2>2. \A u : {i \in DOMAIN <<>> : <<>>[i] \in u} = {} /\ {i \in 1..0 : s[i] \in u} = {}
    OBVIOUS
  <2>3. \A u : Count(<<>>, u) = 0 /\ To(s, u, 0) = 0
    BY <2>2, FS_EmptySet DEF Count, To
  <2> QED BY <2>1, <2>3 DEF Kept
<1> DEFINE T == {n \in 0..Len(s) : ~Kept(S, s, x, f, n)}
<1>4. T = {}
  <2> SUFFICES ASSUME T # {} PROVE FALSE OBVIOUS
  <2>1. PICK n \in T : \A m \in T : n <= m
    <3>1. T \subseteq Nat BY <1>1
    <3> HIDE DEF T
    <3> QED BY <3>1, Least
  <2>2. n \in 1..Len(s) /\ ~Kept(S, s, x, f, n) BY <1>1, <1>3, <2>1
  <2>3. n - 1 \in 0..Len(s) /\ ~(n <= n - 1) BY <1>1, <2>2
  <2>4. Kept(S, s, x, f, n - 1) BY <2>1, <2>3
  <2> QED BY <1>2, <2>2, <2>4, KeptNext
<1>5. Kept(S, s, x, f, Len(s))
  <2>1. Len(s) \in 0..Len(s) BY <1>1
  <2> QED BY <1>4, <2>1
<1> QED BY <1>2, <1>5

LEMMA WithoutProperties ==
  ASSUME NEW S, NEW s \in Seq(S), NEW x
  PROVE  Without(s, x) \in Seq(S) /\ Count(Without(s, x), {x}) = 0
<1>1. PICK f : Without(s, x) = f[Len(s)] /\ Kept(S, s, x, f, Len(s)) BY WithoutKeeps
<1>2. f[Len(s)] \in Seq(S) /\ Count(f[Len(s)], {x}) = 0 BY <1>1 DEF Kept
<1> QED BY <1>1, <1>2

LEMMA WithoutCount ==
  ASSUME NEW S, NEW s \in Seq(S), NEW x, NEW set, x \notin set
  PROVE  Count(Without(s, x), set) = Count(s, set)
<1>1. PICK f : Without(s, x) = f[Len(s)] /\ Kept(S, s, x, f, Len(s)) BY WithoutKeeps
<1>2. x \notin set => Count(f[Len(s)], set) = To(s, set, Len(s)) BY <1>1 DEF Kept
<1>3. Count(f[Len(s)], set) = To(s, set, Len(s)) BY <1>2
<1>4. To(s, set, Len(s)) = Count(s, set)
  <2>1. DOMAIN s = 1..Len(s) BY LenProperties
  <2> QED BY <2>1 DEF To, Count
<1> QED BY <1>1, <1>3, <1>4, Zenon

-----------------------------------------------------------------------------
(* The types of the pool.                                                  *)

LEMMA MessageTypes ==
  /\ \A c \in Requests : /\ [kind |-> "request", who |-> c] \in PoolMessages
                         /\ [kind |-> "employed", who |-> c] \in WorkerMessages
                         /\ [kind |-> "response", who |-> c] \in WorkerMessages
                         /\ [kind |-> "down", who |-> c] \in WorkerMessages
  /\ \A w \in Pids : /\ [kind |-> "exit", who |-> w] \in PoolMessages
                     /\ \A b \in BOOLEAN :
                          [kind |-> "worker_free", who |-> w, timed |-> b] \in PoolMessages
  /\ [kind |-> "stop"] \in WorkerMessages
  /\ \A m \in PoolMessages : /\ m.kind = "request" => m.who \in Requests
                             /\ m.kind # "request" => m.who \in Pids
                             /\ m.kind = "worker_free" => m.timed \in BOOLEAN
  /\ \A m \in WorkerMessages : m.kind # "stop" => m.who \in Requests
BY DEF PoolMessages, WorkerMessages

\* What the head of a mailbox and its rest are.
LEMMA HeadOfMailbox ==
  ASSUME TypeOK, mailbox # <<>>
  PROVE  Head(mailbox) \in PoolMessages /\ Tail(mailbox) \in Seq(PoolMessages)
BY HeadTailProperties DEF TypeOK

LEMMA HeadOfInbox ==
  ASSUME TypeOK, NEW w \in Pids, inbox[w] # <<>>
  PROVE  First(w) \in WorkerMessages /\ Tail(inbox[w]) \in Seq(WorkerMessages)
<1>1. inbox[w] \in Seq(WorkerMessages) BY DEF TypeOK
<1> QED BY <1>1, HeadTailProperties DEF First

LEMMA MailTyped ==
  ASSUME TypeOK, NEW m \in PoolMessages, NEW w
  PROVE  Append(mailbox, m) \in Seq(PoolMessages) /\ ToPool(w, m) \in Seq(PoolMessages)
BY AppendProperties DEF TypeOK, ToPool

LEMMA InboxTyped ==
  ASSUME TypeOK, NEW w \in Pids, NEW m \in WorkerMessages
  PROVE  Append(inbox[w], m) \in Seq(WorkerMessages)
<1>1. inbox[w] \in Seq(WorkerMessages) BY DEF TypeOK
<1> QED BY <1>1, AppendProperties

LEMMA Bounds == MaxWorkers \in Nat /\ MaxCrashes \in Nat /\ OWC \in Nat /\ OWC > 0 /\ NoOne \notin Requests
BY PoolAssumption DEF Requests

\* The answer of count_children is never below the children there are.
LEMMA CountsCover ==
  ASSUME NEW children \in SUBSET Pids, NEW n \in Counts(children)
  PROVE  n \in Nat /\ Cardinality(children) <= n /\ Cardinality(children) \in Nat
<1> DEFINE dying == {w \in Pids : [kind |-> "exit", who |-> w] \in ToSet(mailbox)}
<1>1. dying \in SUBSET Pids OBVIOUS
<1>2. n \in Cardinality(children)..(Cardinality(children) + Cardinality(dying)) BY DEF Counts
<1> HIDE DEF dying
<1>3. MaxWorkers \in Int /\ 1 \in Int BY Bounds
<1>4. Cardinality(children) \in Nat /\ Cardinality(dying) \in Nat
  BY <1>1, <1>3, Finite DEF Pids
<1> QED BY <1>2, <1>4

LEMMA InitTypes == Init => TypeOK
<1> SUFFICES ASSUME Init PROVE TypeOK OBVIOUS
<1>1. OWC \in Nat /\ MaxWorkers \in Nat /\ OWC <= MaxWorkers /\ MaxCrashes \in Nat BY PoolAssumption
<1>2. workers \in Seq(Pids)
  <2>1. \A i \in 1..OWC : i \in Pids BY <1>1 DEF Pids
  <2>2. [i \in 1..OWC |-> i] \in Seq(Pids) BY <1>1, <2>1, IsASeq
  <2> QED BY <2>2 DEF Init
<1>3. <<>> \in Seq(PoolMessages) /\ <<>> \in Seq(WorkerMessages) BY EmptySeq
<1>4. started \in 0..MaxWorkers /\ worker_count \in Nat BY <1>1 DEF Init
<1>5. mailbox \in Seq(PoolMessages) /\ inbox \in [Pids -> Seq(WorkerMessages)]
  BY <1>3 DEF Init
<1>6. linked \subseteq 1..started /\ alive \subseteq 1..started /\ deaf \subseteq alive
  BY DEF Init
<1>7. /\ from \in [Pids -> Requests \cup {NoOne}] /\ monitors \in [Pids -> SUBSET Requests]
      /\ responders \in [Pids -> SUBSET Requests]
      /\ cstate \in [Requests -> {"new", "waiting", "answered", "timedout", "gone"}]
      /\ caller \in [Requests -> Callers \cup {NoOne}]
      /\ got \in [Requests -> Requests \cup {NoOne}]
  BY DEF Init
<1>8. requests_per \in Nat /\ measured \in BOOLEAN /\ crashes \in 0..MaxCrashes
  <2>1. requests_per = 0 /\ measured = FALSE /\ crashes = 0 BY DEF Init
  <2>2. measured \in BOOLEAN BY <2>1, Zenon
  <2> QED BY <1>1, <2>1, <2>2
<1>9. asked \subseteq Pids \X Requests /\ dropped \subseteq Pids
  <2>1. asked = {} /\ dropped = {} BY DEF Init
  <2> QED BY <2>1, Zenon
<1> QED BY <1>2, <1>4, <1>5, <1>6, <1>7, <1>8, <1>9 DEF TypeOK

LEMMA CallerTypes ==
  ASSUME TypeOK, NEW c \in Requests, Ask(c) \/ TimesOut(c) \/ Ends(c)
  PROVE  TypeOK'
<1>1. CASE Ask(c)
  <2>1. mailbox' \in Seq(PoolMessages) BY <1>1, MessageTypes, MailTyped DEF Ask
  <2>2. cstate' \in [Requests -> {"new", "waiting", "answered", "timedout", "gone"}]
    BY <1>1 DEF Ask, TypeOK
  <2>3. caller' \in [Requests -> Callers \cup {NoOne}] BY <1>1 DEF Ask, TypeOK
  <2> QED BY <1>1, <2>1, <2>2, <2>3 DEF Ask, TypeOK, workerVars, restVars
<1>2. CASE TimesOut(c)
  BY <1>2 DEF TimesOut, TypeOK, poolVars, workerVars, restVars
<1>3. CASE Ends(c)
  <2>1. \A w \in Pids : Append(inbox[w], [kind |-> "down", who |-> c]) \in Seq(WorkerMessages)
    BY MessageTypes, InboxTyped
  <2>2. inbox' \in [Pids -> Seq(WorkerMessages)] BY <1>3, <2>1 DEF Ends, TypeOK
  <2>3. monitors' \in [Pids -> SUBSET Requests] BY <1>3 DEF Ends, TypeOK
  <2>4. cstate' \in [Requests -> {"new", "waiting", "answered", "timedout", "gone"}]
    BY <1>3 DEF Ends, TypeOK
  <2> QED BY <1>3, <2>2, <2>3, <2>4 DEF Ends, TypeOK, poolVars, restVars
<1> QED BY <1>1, <1>2, <1>3

LEMMA DiesTypes ==
  ASSUME TypeOK, NEW w \in Pids, Dies(w)
  PROVE  /\ alive' \subseteq 1..started /\ deaf' \subseteq alive'
         /\ from' \in [Pids -> Requests \cup {NoOne}] /\ monitors' \in [Pids -> SUBSET Requests]
         /\ inbox' \in [Pids -> Seq(WorkerMessages)] /\ responders' \in [Pids -> SUBSET Requests]
         /\ mailbox' \in Seq(PoolMessages)
<1>1. mailbox' \in Seq(PoolMessages) BY MessageTypes, MailTyped DEF Dies
<1>2. <<>> \in Seq(WorkerMessages) BY EmptySeq
<1>3. inbox' \in [Pids -> Seq(WorkerMessages)] BY <1>2 DEF Dies, TypeOK
<1> QED BY <1>1, <1>3 DEF Dies, TypeOK

LEMMA WorkerTypes ==
  ASSUME TypeOK, NEW w \in Pids, WorkerStep(w) \/ Crash(w)
  PROVE  TypeOK'
<1>1. CASE Employed(w)
  <2> DEFINE c == First(w).who
  <2>1. inbox[w] # <<>> /\ First(w).kind = "employed" /\ w \in alive BY <1>1 DEF Employed, Has
  <2>2. c \in Requests /\ Tail(inbox[w]) \in Seq(WorkerMessages) BY <2>1, HeadOfInbox, MessageTypes
  <2>3. Append(Tail(inbox[w]), [kind |-> "down", who |-> c]) \in Seq(WorkerMessages)
    BY <2>2, MessageTypes, AppendProperties
  <2> HIDE DEF c
  <2>4. inbox' \in [Pids -> Seq(WorkerMessages)]
    BY <1>1, <2>2, <2>3 DEF Employed, TypeOK, c
  <2>5. monitors' \in [Pids -> SUBSET Requests] BY <1>1, <2>2 DEF Employed, TypeOK, c
  <2>6. /\ from' \in [Pids -> Requests \cup {NoOne}]
        /\ asked' \subseteq Pids \X Requests /\ dropped' \subseteq Pids
    <3>1. CASE from' = [from EXCEPT ![w] = c] /\ asked' = asked \cup {<<w, c>>} /\ dropped' = dropped
      <4>1. asked' \subseteq Pids \X Requests
        <5>1. <<w, c>> \in Pids \X Requests /\ asked \subseteq Pids \X Requests
          BY <2>2 DEF TypeOK, c
        <5> QED BY <3>1, <5>1
      <4>2. from' \in [Pids -> Requests \cup {NoOne}] BY <2>2, <3>1 DEF TypeOK, c
      <4> QED BY <3>1, <4>1, <4>2 DEF TypeOK
    <3>2. CASE dropped' = dropped \cup {w} /\ UNCHANGED <<from, asked>> BY <3>2 DEF TypeOK
    <3> QED BY <1>1, <3>1, <3>2 DEF Employed, c
  <2> QED BY <1>1, <2>4, <2>5, <2>6 DEF Employed, TypeOK, poolVars, callerVars
<1>2. CASE Respond(w)
  <2> DEFINE c == from[w]
  <2>1. inbox[w] # <<>> /\ First(w).kind = "response" /\ c # NoOne
    BY <1>2 DEF Respond, Has
  <2>2. c \in Requests BY <2>1 DEF TypeOK
  <2>3. First(w).who \in Requests /\ Tail(inbox[w]) \in Seq(WorkerMessages)
    BY <2>1, HeadOfInbox, MessageTypes
  <2>4. Without(Tail(inbox[w]), [kind |-> "down", who |-> c]) \in Seq(WorkerMessages)
    BY <2>3, WithoutProperties
  <2>5. inbox' \in [Pids -> Seq(WorkerMessages)] BY <1>2, <2>4 DEF Respond, TypeOK
  <2>6. monitors' \in [Pids -> SUBSET Requests] /\ from' \in [Pids -> Requests \cup {NoOne}]
    BY <1>2 DEF Respond, TypeOK
  <2>7. mailbox' \in Seq(PoolMessages) BY <1>2, MessageTypes, MailTyped DEF Respond
  <2>8. /\ cstate' \in [Requests -> {"new", "waiting", "answered", "timedout", "gone"}]
        /\ got' \in [Requests -> Requests \cup {NoOne}]
        /\ caller' \in [Requests -> Callers \cup {NoOne}]
    BY <1>2, <2>3 DEF Respond, TypeOK, callerVars
  <2> QED BY <1>2, <2>5, <2>6, <2>7, <2>8 DEF Respond, TypeOK, restVars
<1>3. CASE GiveUp(w)
  <2>1. inbox[w] # <<>> BY <1>3 DEF GiveUp, Has
  <2>2. inbox' \in [Pids -> Seq(WorkerMessages)]
    BY <1>3, <2>1, HeadOfInbox DEF GiveUp, Received, TypeOK
  <2>3. mailbox' \in Seq(PoolMessages) BY <1>3, MessageTypes, MailTyped DEF GiveUp
  <2>4. from' \in [Pids -> Requests \cup {NoOne}] BY <1>3 DEF GiveUp, TypeOK
  <2> QED BY <1>3, <2>2, <2>3, <2>4 DEF GiveUp, TypeOK, restVars, callerVars
<1>4. CASE Unhandled(w)
  <2>1. inbox[w] # <<>> BY <1>4 DEF Unhandled, Has
  <2>2. inbox' \in [Pids -> Seq(WorkerMessages)]
    BY <1>4, <2>1, HeadOfInbox DEF Unhandled, Received, TypeOK
  <2> QED BY <1>4, <2>2 DEF Unhandled, TypeOK, poolVars, restVars, callerVars
<1>5. CASE Stop(w)
  <2>1. CASE Dies(w) 
    BY <1>5, <2>1, DiesTypes DEF Stop, Dies, TypeOK, restVars, callerVars
  <2>2. CASE responders[w] # {}
    <3>1. inbox[w] # <<>> /\ w \in alive BY <1>5 DEF Stop, Has
    <3>2. UNCHANGED <<poolVars, started, alive, from, monitors, responders, callerVars>>
          /\ deaf' = deaf \cup {w} /\ inbox' = Received(w)
      BY <1>5, <2>2 DEF Stop
    <3>3. inbox' \in [Pids -> Seq(WorkerMessages)]
      BY <3>1, <3>2, HeadOfInbox DEF Received, TypeOK
    <3> QED BY <1>5, <3>1, <3>2, <3>3 DEF Stop, TypeOK, poolVars, restVars, callerVars
  <2> QED BY <1>5, <2>1, <2>2 DEF Stop
<1>6. CASE Crash(w)
  <2>1. Dies(w) /\ crashes' = crashes + 1 /\ crashes < MaxCrashes BY <1>6 DEF Crash
  <2>2. crashes' \in 0..MaxCrashes BY <2>1, Bounds DEF TypeOK
  <2>3. UNCHANGED <<workers, worker_count, requests_per, measured, linked, started, callerVars,
                    asked, dropped>>
    BY <1>6, <2>1 DEF Crash, Dies
  <2>4. /\ alive' \subseteq 1..started' /\ deaf' \subseteq alive'
        /\ from' \in [Pids -> Requests \cup {NoOne}] /\ monitors' \in [Pids -> SUBSET Requests]
        /\ inbox' \in [Pids -> Seq(WorkerMessages)] /\ responders' \in [Pids -> SUBSET Requests]
        /\ mailbox' \in Seq(PoolMessages)
    BY <2>1, <2>3, DiesTypes
  <2>5. asked' \subseteq Pids \X Requests BY <2>3 DEF TypeOK
  <2> QED BY <2>2, <2>3, <2>4, <2>5 DEF TypeOK, callerVars
<1> QED BY <1>1, <1>2, <1>3, <1>4, <1>5, <1>6 DEF WorkerStep

LEMMA BrokerTypes ==
  ASSUME TypeOK, NEW w \in Pids, NEW c \in Requests, Answer(w, c) \/ ResponderEnds(w, c)
  PROVE  TypeOK'
<1>1. CASE Answer(w, c)
  <2>1. inbox' \in [Pids -> Seq(WorkerMessages)]
    BY <1>1, MessageTypes, InboxTyped DEF Answer, TypeOK
  <2>2. responders' \in [Pids -> SUBSET Requests] BY <1>1 DEF Answer, TypeOK
  <2>3. asked' \subseteq Pids \X Requests
    <3>1. asked \subseteq Pids \X Requests BY DEF TypeOK
    <3> QED BY <1>1, <3>1 DEF Answer
  <2>4. UNCHANGED <<poolVars, started, alive, from, monitors, deaf, callerVars, crashes, dropped>>
    BY <1>1 DEF Answer
  <2>5. /\ workers' \in Seq(Pids) /\ worker_count' \in Nat /\ requests_per' \in Nat
        /\ measured' \in BOOLEAN /\ mailbox' \in Seq(PoolMessages) /\ linked' \subseteq 1..started'
        /\ started' \in 0..MaxWorkers /\ alive' \subseteq 1..started' /\ deaf' \subseteq alive'
    BY <2>4 DEF TypeOK, poolVars
  <2>6. /\ from' \in [Pids -> Requests \cup {NoOne}] /\ monitors' \in [Pids -> SUBSET Requests]
        /\ cstate' \in [Requests -> {"new", "waiting", "answered", "timedout", "gone"}]
        /\ got' \in [Requests -> Requests \cup {NoOne}]
        /\ caller' \in [Requests -> Callers \cup {NoOne}]
        /\ crashes' \in 0..MaxCrashes /\ dropped' \subseteq Pids
    BY <2>4 DEF TypeOK, callerVars
  <2> QED BY <2>1, <2>2, <2>3, <2>5, <2>6 DEF TypeOK
<1>2. CASE ResponderEnds(w, c)
  <2>1. responders' \in [Pids -> SUBSET Requests] BY <1>2 DEF ResponderEnds, TypeOK
  <2> QED BY <1>2, <2>1 DEF ResponderEnds, TypeOK, poolVars, callerVars, restVars
<1> QED BY <1>1, <1>2

LEMMA HireTypes ==
  ASSUME TypeOK, StartWorker
  PROVE  /\ started' = started + 1 /\ started' \in Pids /\ started' \in 0..MaxWorkers
         /\ started' \notin alive /\ started' \notin linked
         /\ alive' = alive \cup {started'} /\ linked' = linked \cup {started'}
         /\ alive' \subseteq 1..started' /\ linked' \subseteq 1..started' /\ alive' \subseteq Pids
<1>1. MaxWorkers \in Nat /\ started \in 0..MaxWorkers /\ started < MaxWorkers
      /\ started' = started + 1 /\ alive' = alive \cup {started'} /\ linked' = linked \cup {started'}
  BY Bounds DEF StartWorker, TypeOK
<1>2. alive \subseteq 1..started /\ linked \subseteq 1..started BY DEF TypeOK
<1>3. started' \in Pids /\ started' \in 0..MaxWorkers /\ 1..started \subseteq 1..started'
      /\ started' \in 1..started' /\ 1..started' \subseteq Pids /\ started' \notin 1..started
  BY <1>1 DEF Pids
<1> QED BY <1>1, <1>2, <1>3

\* The queue without the workers given up.
LEMMA ReduceTypes ==
  ASSUME TypeOK, NEW reduce \in Int, reduce > 0, ReduceWorkers(reduce)
  PROVE  \E n \in 0..Len(workers) :
           /\ workers' = SubSeq(workers, n + 1, Len(workers)) /\ workers' \in Seq(Pids)
           /\ inbox' = [w \in Pids |-> IF w \in {workers[i] : i \in 1..n} \cap alive
                                       THEN Append(inbox[w], [kind |-> "stop"])
                                       ELSE inbox[w]]
           /\ inbox' \in [Pids -> Seq(WorkerMessages)]
           /\ worker_count' \in Counts(alive)
<1> DEFINE spare == IF Len(workers) > OWC THEN Len(workers) - OWC ELSE 0
           n == IF reduce < spare THEN reduce ELSE spare
<1>1. Len(workers) \in Nat /\ workers \in Seq(Pids) BY LenProperties DEF TypeOK
<1>2. n \in 0..Len(workers) BY <1>1, Bounds
<1>3. /\ workers' = SubSeq(workers, n + 1, Len(workers))
      /\ inbox' = [w \in Pids |-> IF w \in {workers[i] : i \in 1..n} \cap alive
                                  THEN Append(inbox[w], [kind |-> "stop"])
                                  ELSE inbox[w]]
      /\ worker_count' \in Counts(alive)
  BY DEF ReduceWorkers
<1> HIDE DEF n
<1>4. workers' \in Seq(Pids) BY <1>1, <1>2, <1>3, SuffixOf
<1>5. inbox' \in [Pids -> Seq(WorkerMessages)]
  <2>1. \A w \in Pids : Append(inbox[w], [kind |-> "stop"]) \in Seq(WorkerMessages)
    BY MessageTypes, InboxTyped
  <2> QED BY <1>3, <2>1 DEF TypeOK
<1> QED BY <1>2, <1>3, <1>4, <1>5

LEMMA RoundIsInt == \A n \in Int : Round(n) \in Int
<1>1. Reluctance \in Nat \ {0} BY PoolAssumption
<1>2. 2 * Reluctance \in Nat \ {0} BY <1>1
<1>3. ASSUME NEW n \in Int PROVE Round(n) \in Int
  <2>1. 2 * n + Reluctance \in Int BY <1>1
  <2> QED BY <1>2, <2>1 DEF Round
<1> QED BY <1>3

\* reduce_labor_force gives some workers up or leaves all where they are.
LEMMA ReducedOrNot ==
  ASSUME TypeOK, ReduceLaborForce
  PROVE  \/ \E reduce \in Int : reduce > 0 /\ ReduceWorkers(reduce)
         \/ UNCHANGED <<inbox, workers, worker_count>>
<1>1. Round(worker_count) \in Int /\ Round(worker_count - requests_per) \in Int
  <2>1. worker_count \in Int /\ worker_count - requests_per \in Int BY DEF TypeOK
  <2> QED BY <2>1, RoundIsInt
<1>2. \A reduce : reduce \in 0..Round(worker_count) \/ reduce \in {Round(worker_count - requests_per)}
                    => reduce \in Int
  BY <1>1
<1> QED BY <1>2 DEF ReduceLaborForce

LEMMA PoolTypes ==
  ASSUME TypeOK, PoolStep \/ ReduceLaborForce
  PROVE  TypeOK'
<1> USE Bounds
<1>1. CASE HandOver
  <2>1. mailbox # <<>> /\ Head(mailbox).kind = "request" /\ workers # <<>>
    BY <1>1 DEF HandOver, Gets
  <2>2. Head(mailbox).who \in Requests /\ Tail(mailbox) \in Seq(PoolMessages)
    BY <2>1, HeadOfMailbox, MessageTypes
  <2>3. Head(workers) \in Pids /\ Tail(workers) \in Seq(Pids)
    BY <2>1, HeadTailProperties DEF TypeOK
  <2>4. inbox' \in [Pids -> Seq(WorkerMessages)]
    BY <1>1, <2>2, <2>3, MessageTypes, InboxTyped DEF HandOver, Cast, TypeOK
  <2> QED BY <1>1, <2>2, <2>3, <2>4 DEF HandOver, TypeOK, callerVars, restVars
<1>2. CASE HireFor
  <2>1. mailbox # <<>> /\ Head(mailbox).kind = "request" /\ StartWorker
    BY <1>2 DEF HireFor, Gets
  <2>2. Head(mailbox).who \in Requests /\ Tail(mailbox) \in Seq(PoolMessages)
    BY <2>1, HeadOfMailbox, MessageTypes
  <2>3. inbox' \in [Pids -> Seq(WorkerMessages)]
    <3>1. started' \in Pids BY <2>1, HireTypes
    <3>2. Append(inbox[started'], [kind |-> "employed", who |-> Head(mailbox).who])
            \in Seq(WorkerMessages)
      BY <2>2, <3>1, MessageTypes, InboxTyped
    <3> QED BY <1>2, <3>1, <3>2 DEF HireFor, Cast, TypeOK
  <2>4. deaf \subseteq alive' BY <2>1, HireTypes DEF TypeOK
  <2>5. worker_count' \in Nat /\ requests_per' \in Nat BY <1>2 DEF HireFor, TypeOK
  <2> QED BY <1>2, <2>1, <2>2, <2>3, <2>4, <2>5, HireTypes DEF HireFor, TypeOK, callerVars, restVars
<1>3. CASE PoolCrash
  <2>1. started' = started + OWC /\ started' <= MaxWorkers BY <1>3 DEF PoolCrash
  <2>2. started \in Nat /\ alive \subseteq 1..started BY DEF TypeOK
  <2>3. linked' = (started + 1)..started' /\ alive' = alive \cup linked' BY <1>3 DEF PoolCrash
  <2>4. linked' \subseteq 1..started' /\ alive' \subseteq 1..started' /\ started' \in 0..MaxWorkers
    BY <2>1, <2>2, <2>3
  <2>5. workers' \in Seq(Pids)
    <3>1. \A i \in 1..OWC : started + i \in Pids BY <2>1, <2>2 DEF Pids
    <3>2. [i \in 1..OWC |-> started + i] \in Seq(Pids) BY <3>1, IsASeq
    <3> QED BY <1>3, <3>2 DEF PoolCrash
  <2>6. inbox' \in [Pids -> Seq(WorkerMessages)]
    <3>1. \A w \in Pids : Append(inbox[w], [kind |-> "stop"]) \in Seq(WorkerMessages)
      BY MessageTypes, InboxTyped
    <3> QED BY <1>3, <3>1 DEF PoolCrash, TypeOK
  <2>7. mailbox' \in Seq(PoolMessages) BY <1>3, EmptySeq DEF PoolCrash
  <2>8. cstate' \in [Requests -> {"new", "waiting", "answered", "timedout", "gone"}]
    BY <1>3 DEF PoolCrash, TypeOK
  <2>9. deaf' \subseteq alive' BY <1>3, <2>3 DEF PoolCrash, TypeOK
  <2>10. worker_count' \in Nat /\ requests_per' \in Nat /\ measured' \in BOOLEAN
    BY <1>3 DEF PoolCrash
  <2> QED BY <1>3, <2>4, <2>5, <2>6, <2>7, <2>8, <2>9, <2>10 DEF PoolCrash, TypeOK, restVars
<1>4. CASE WorkerFree
  <2>1. mailbox # <<>> /\ Head(mailbox).kind = "worker_free" BY <1>4 DEF WorkerFree, Gets
  <2>2. /\ Head(mailbox).who \in Pids /\ Head(mailbox).timed \in BOOLEAN
        /\ Tail(mailbox) \in Seq(PoolMessages)
    BY <2>1, HeadOfMailbox, MessageTypes
  <2>3. workers' \in Seq(Pids) BY <1>4, <2>2, AppendProperties DEF WorkerFree, TypeOK
  <2>4. measured' \in BOOLEAN BY <1>4, <2>2 DEF WorkerFree, TypeOK
  <2> QED BY <1>4, <2>2, <2>3, <2>4 DEF WorkerFree, TypeOK, workerVars, callerVars, restVars
<1>5. CASE WorkerExit
  <2>1. mailbox # <<>> /\ Head(mailbox).kind = "exit" BY <1>5 DEF WorkerExit, Gets
  <2>2. Tail(mailbox) \in Seq(PoolMessages) BY <2>1, HeadOfMailbox
  <2> DEFINE rest == Without(workers, Head(mailbox).who)
  <2>3. rest \in Seq(Pids) BY WithoutProperties DEF TypeOK
  <2>4. \/ StartWorker /\ workers' = Append(rest, started')
        \/ workers' = rest /\ UNCHANGED <<linked, started, alive>>
    BY <1>5 DEF WorkerExit
  <2> HIDE DEF rest
  <2>5. /\ workers' \in Seq(Pids) /\ linked' \subseteq 1..started' /\ started' \in 0..MaxWorkers
        /\ alive' \subseteq 1..started' /\ deaf \subseteq alive'
    <3>1. CASE StartWorker /\ workers' = Append(rest, started')
      <4>1. started' \in Pids BY <3>1, HireTypes
      <4>2. workers' \in Seq(Pids) BY <2>3, <3>1, <4>1, AppendProperties
      <4> QED BY <3>1, <4>2, HireTypes DEF TypeOK
    <3>2. CASE workers' = rest /\ UNCHANGED <<linked, started, alive>> BY <2>3, <3>2 DEF TypeOK
    <3> QED BY <2>4, <3>1, <3>2
  <2>6. worker_count' \in Nat
    <3>1. alive' \in SUBSET Pids /\ worker_count' \in Counts(alive') BY <1>5, <2>5 DEF WorkerExit, Pids
    <3> QED BY <3>1, CountsCover
  <2> QED BY <1>5, <2>2, <2>5, <2>6 DEF WorkerExit, TypeOK, callerVars, restVars
<1>6. CASE ReduceLaborForce
  <2>1. /\ workers' \in Seq(Pids) /\ inbox' \in [Pids -> Seq(WorkerMessages)]
        /\ worker_count' \in Nat
    <3>1. alive \in SUBSET Pids BY DEF TypeOK, Pids
    <3>2. CASE UNCHANGED <<inbox, workers, worker_count>> BY <3>2 DEF TypeOK
    <3>3. ASSUME NEW reduce \in Int, reduce > 0, ReduceWorkers(reduce)
          PROVE  /\ workers' \in Seq(Pids) /\ inbox' \in [Pids -> Seq(WorkerMessages)]
                 /\ worker_count' \in Nat
      BY <3>1, <3>3, ReduceTypes, CountsCover
    <3> QED BY <1>6, <3>2, <3>3, ReducedOrNot
  <2> QED BY <1>6, <2>1 DEF ReduceLaborForce, TypeOK, callerVars, restVars
<1> QED BY <1>1, <1>2, <1>3, <1>4, <1>5, <1>6 DEF PoolStep

LEMMA NextTypes == TypeOK /\ [Next]_vars => TypeOK'
<1>1. TypeOK /\ UNCHANGED vars => TypeOK'
  BY DEF vars, poolVars, workerVars, callerVars, restVars, TypeOK
<1> QED BY <1>1, CallerTypes, WorkerTypes, BrokerTypes, PoolTypes DEF Next

\* The pool, its workers and its callers keep their types; only workers it has
\* started live (ecallmgr_amqp_pool.erl, ecallmgr_amqp_pool_worker.erl).
THEOREM TypesHold == Spec => []TypeOK
<1> QED BY InitTypes, NextTypes, PTL DEF Spec

-----------------------------------------------------------------------------
(* Elements of the queue and of the mailboxes.                             *)

LEMMA ToSetAppend ==
  ASSUME NEW S, NEW s \in Seq(S), NEW e \in S
  PROVE  ToSet(Append(s, e)) = ToSet(s) \cup {e}
<1> DEFINE t == Append(s, e)
<1>1. /\ DOMAIN s = 1..Len(s) /\ Len(s) \in Nat /\ DOMAIN t = 1..(Len(s) + 1)
      /\ \A i \in 1..Len(s) : t[i] = s[i]
      /\ t[Len(s) + 1] = e
  BY LenProperties, AppendProperties
<1> HIDE DEF t
<1>2. ToSet(t) = {t[i] : i \in 1..(Len(s) + 1)} /\ ToSet(s) = {s[i] : i \in 1..Len(s)}
  BY <1>1 DEF ToSet
<1>3. ToSet(t) = ToSet(s) \cup {e}
  <2>1. ASSUME NEW x \in ToSet(t) PROVE x \in ToSet(s) \cup {e}
    <3>1. PICK i \in 1..(Len(s) + 1) : x = t[i] BY <1>2
    <3> QED BY <1>1, <1>2, <3>1
  <2>2. ASSUME NEW x \in ToSet(s) PROVE x \in ToSet(t)
    <3>1. PICK i \in 1..Len(s) : x = s[i] BY <1>2
    <3>2. i \in 1..(Len(s) + 1) /\ x = t[i] BY <1>1, <3>1
    <3> QED BY <1>2, <3>2
  <2>3. Len(s) + 1 \in 1..(Len(s) + 1) BY <1>1
  <2>4. e \in ToSet(t) BY <1>1, <1>2, <2>3
  <2> QED BY <2>1, <2>2, <2>4
<1> QED BY <1>3 DEF t

LEMMA ToSetCount ==
  ASSUME NEW S, NEW s \in Seq(S), NEW set
  PROVE  /\ Count(s, set) = 0 <=> \A e \in ToSet(s) : e \notin set
         /\ ToSet(s) \subseteq S
<1>1. DOMAIN s = 1..Len(s) /\ Len(s) \in Nat /\ \A i \in 1..Len(s) : s[i] \in S
  BY LenProperties
<1>2. ToSet(s) = {s[i] : i \in 1..Len(s)} BY <1>1 DEF ToSet
<1> QED BY <1>1, <1>2, CountIsNat

LEMMA ToSetTail ==
  ASSUME NEW S, NEW s \in Seq(S), s # <<>>
  PROVE  /\ Tail(s) \in Seq(S) /\ Head(s) \in ToSet(s)
         /\ ToSet(s) = {Head(s)} \cup ToSet(Tail(s))
<1>1. Tail(s) \in Seq(S) /\ Head(s) \in S BY HeadTailProperties
<1>2. ASSUME NEW e PROVE e \in ToSet(s) <=> e = Head(s) \/ e \in ToSet(Tail(s))
  <2>1. Count(s, {e}) = Count(Tail(s), {e}) + One(Head(s) \in {e}) BY CountTail
  <2>2. e \in ToSet(s) <=> Count(s, {e}) # 0 BY ToSetCount
  <2>3. e \in ToSet(Tail(s)) <=> Count(Tail(s), {e}) # 0 BY <1>1, ToSetCount
  <2>4. Count(Tail(s), {e}) \in Nat BY <1>1, CountIsNat
  <2> QED BY <2>1, <2>2, <2>3, <2>4 DEF One
<1> QED BY <1>1, <1>2

LEMMA ToSetWithout ==
  ASSUME NEW S, NEW s \in Seq(S), NEW x
  PROVE  Without(s, x) \in Seq(S) /\ ToSet(Without(s, x)) = ToSet(s) \ {x}
<1>1. ASSUME NEW e PROVE e \in ToSet(Without(s, x)) <=> e \in ToSet(s) /\ e # x
  <2>1. Without(s, x) \in Seq(S) /\ Count(Without(s, x), {x}) = 0 BY WithoutProperties
  <2>2. e \in ToSet(Without(s, x)) <=> Count(Without(s, x), {e}) # 0 BY <2>1, ToSetCount
  <2>3. e \in ToSet(s) <=> Count(s, {e}) # 0 BY ToSetCount
  <2>4. CASE e = x BY <2>1, <2>2, <2>4
  <2>5. CASE e # x
    <3>1. x \notin {e} BY <2>5
    <3>2. Count(Without(s, x), {e}) = Count(s, {e}) BY <3>1, WithoutCount
    <3> QED BY <2>2, <2>3, <2>5, <3>2
  <2> QED BY <2>4, <2>5
<1>2. Without(s, x) \in Seq(S) BY WithoutProperties
<1> QED BY <1>1, <1>2

LEMMA ToSetSuffix ==
  ASSUME NEW S, NEW s \in Seq(S), NEW n \in 0..Len(s)
  PROVE  ToSet(SubSeq(s, n + 1, Len(s))) \subseteq ToSet(s)
<1> DEFINE t == SubSeq(s, n + 1, Len(s))
<1>1. t \in Seq(S) /\ Len(t) = Len(s) - n /\ \A i \in 1..(Len(s) - n) : t[i] = s[n + i]
  BY SuffixOf
<1>2. DOMAIN s = 1..Len(s) /\ Len(s) \in Nat /\ n \in Nat /\ n <= Len(s) BY LenProperties
<1> HIDE DEF t
<1>3. DOMAIN t = 1..(Len(s) - n) BY <1>1, LenProperties
<1>4. ASSUME NEW x \in ToSet(t) PROVE x \in ToSet(s)
  <2>1. PICK i \in 1..(Len(s) - n) : x = t[i] BY <1>3 DEF ToSet
  <2>2. n + i \in DOMAIN s /\ x = s[n + i] BY <1>1, <1>2, <2>1
  <2> QED BY <2>2 DEF ToSet
<1> QED BY <1>4 DEF t

-----------------------------------------------------------------------------
(* Who is known to the pool: its queue and its mailbox speak of workers it *)
(* has started, its mailbox of the end of dead ones, and nothing is left of *)
(* a worker that is not alive but what it sent.                            *)

Speaks(m) == /\ m.kind = "worker_free" => m.who \in linked
             /\ m.kind = "exit" => m.who \in linked \ alive
Quiet(w) == from[w] = NoOne /\ monitors[w] = {} /\ inbox[w] = <<>>
Known ==
  /\ ToSet(workers) \subseteq linked
  /\ \A m \in ToSet(mailbox) : Speaks(m)
  /\ \A w \in Pids \ alive : Quiet(w)
  /\ dropped \subseteq 1..started

LEMMA ToPoolSet ==
  ASSUME TypeOK, NEW m \in PoolMessages, NEW w
  PROVE  ToSet(ToPool(w, m)) = IF w \in linked THEN ToSet(mailbox) \cup {m} ELSE ToSet(mailbox)
<1>1. mailbox \in Seq(PoolMessages) BY DEF TypeOK
<1>2. ToSet(Append(mailbox, m)) = ToSet(mailbox) \cup {m} BY <1>1, ToSetAppend
<1> QED BY <1>2 DEF ToPool

LEMMA MailTail ==
  ASSUME TypeOK, mailbox # <<>>
  PROVE  Head(mailbox) \in ToSet(mailbox) /\ ToSet(Tail(mailbox)) \subseteq ToSet(mailbox)
BY ToSetTail DEF TypeOK

LEMMA InitKnown == Init => Known
<1> SUFFICES ASSUME Init PROVE Known OBVIOUS
<1>1. workers = [i \in 1..OWC |-> i] /\ linked = 1..OWC /\ mailbox = <<>> /\ dropped = {}
  BY DEF Init
<1>2. ToSet(workers) \subseteq linked BY <1>1 DEF ToSet
<1>3. ToSet(mailbox) = {} BY <1>1 DEF ToSet
<1>4. \A w \in Pids : Quiet(w) BY DEF Init, Quiet
<1> QED BY <1>1, <1>2, <1>3, <1>4 DEF Known

\* A step that ends and starts no worker.
LEMMA KnownSame ==
  ASSUME TypeOK, Known, UNCHANGED <<linked, alive, started>>,
         dropped' \subseteq 1..started,
         ToSet(workers') \subseteq linked,
         \A m \in ToSet(mailbox') : m \in ToSet(mailbox) \/ Speaks(m),
         \A w \in Pids \ alive : UNCHANGED <<from[w], monitors[w], inbox[w]>>
  PROVE  Known'
<1>1. \A m \in ToSet(mailbox') : Speaks(m)' BY DEF Known, Speaks
<1>2. \A w \in Pids \ alive' : Quiet(w)' BY DEF Known, Quiet
<1> QED BY <1>1, <1>2 DEF Known

LEMMA CallerKnown ==
  ASSUME TypeOK, Known, NEW c \in Requests, Ask(c) \/ TimesOut(c) \/ Ends(c)
  PROVE  Known'
<1>1. CASE Ask(c)
  <2>1. ToSet(mailbox') = ToSet(mailbox) \cup {[kind |-> "request", who |-> c]}
    <3>1. mailbox \in Seq(PoolMessages) BY DEF TypeOK
    <3>2. [kind |-> "request", who |-> c] \in PoolMessages BY MessageTypes
    <3>3. ToSet(Append(mailbox, [kind |-> "request", who |-> c]))
            = ToSet(mailbox) \cup {[kind |-> "request", who |-> c]}
      BY <3>1, <3>2, ToSetAppend
    <3> QED BY <1>1, <3>3 DEF Ask
  <2>2. Speaks([kind |-> "request", who |-> c]) BY DEF Speaks
  <2> QED BY <1>1, <2>1, <2>2, KnownSame DEF Ask, workerVars, restVars, Known
<1>2. CASE TimesOut(c)
  BY <1>2, KnownSame DEF TimesOut, poolVars, workerVars, restVars, Known
<1>3. CASE Ends(c)
  <2>1. \A w \in Pids \ alive : UNCHANGED <<from[w], monitors[w], inbox[w]>>
    BY <1>3 DEF Ends, Known, Quiet, TypeOK
  <2> QED BY <1>3, <2>1, KnownSame DEF Ends, poolVars, restVars, Known
<1> QED BY <1>1, <1>2, <1>3

LEMMA DiesKnown ==
  ASSUME TypeOK, Known, NEW w \in Pids, w \in alive, Dies(w), dropped' = dropped
  PROVE  Known'
<1>1. ToSet(mailbox') \subseteq ToSet(mailbox) \cup {[kind |-> "exit", who |-> w]}
      /\ (w \notin linked => ToSet(mailbox') = ToSet(mailbox))
  <2>1. [kind |-> "exit", who |-> w] \in PoolMessages BY MessageTypes
  <2> QED BY <2>1, ToPoolSet DEF Dies
<1>2. UNCHANGED <<workers, linked, started>> /\ alive' = alive \ {w} BY DEF Dies
<1>3. \A m \in ToSet(mailbox') : Speaks(m)'
  <2>1. \A m \in ToSet(mailbox) : Speaks(m)' BY <1>2 DEF Known, Speaks
  <2>2. w \in linked => Speaks([kind |-> "exit", who |-> w])' BY <1>2 DEF Speaks
  <2> QED BY <1>1, <2>1, <2>2
<1>4. \A v \in Pids \ alive' : Quiet(v)' BY <1>2 DEF Dies, Known, Quiet, TypeOK
<1> QED BY <1>2, <1>3, <1>4 DEF Known

LEMMA WorkerKnown ==
  ASSUME TypeOK, Known, NEW w \in Pids, WorkerStep(w) \/ Crash(w)
  PROVE  Known'
<1>0. w \in alive
  BY DEF WorkerStep, Crash, Employed, Respond, GiveUp, Unhandled, Stop, Has
<1>1. CASE Employed(w)
  <2>1. \A v \in Pids \ alive : UNCHANGED <<from[v], monitors[v], inbox[v]>>
    BY <1>0, <1>1 DEF Employed, TypeOK
  <2>2. dropped' \subseteq 1..started BY <1>0, <1>1 DEF Employed, Known, TypeOK
  <2> QED BY <1>1, <2>1, <2>2, KnownSame DEF Employed, poolVars, Known
<1>2. CASE Respond(w)
  <2>1. \A v \in Pids \ alive : UNCHANGED <<from[v], monitors[v], inbox[v]>>
    BY <1>0, <1>2 DEF Respond, TypeOK
  <2>2. \A m \in ToSet(mailbox') : m \in ToSet(mailbox) \/ Speaks(m)
    <3>1. [kind |-> "worker_free", who |-> w, timed |-> TRUE] \in PoolMessages BY MessageTypes
    <3> QED BY <1>2, <3>1, ToPoolSet DEF Respond, Speaks
  <2> QED BY <1>2, <2>1, <2>2, KnownSame DEF Respond, restVars, Known
<1>3. CASE GiveUp(w)
  <2>1. \A v \in Pids \ alive : UNCHANGED <<from[v], monitors[v], inbox[v]>>
    BY <1>0, <1>3 DEF GiveUp, Received, TypeOK
  <2>2. \A m \in ToSet(mailbox') : m \in ToSet(mailbox) \/ Speaks(m)
    <3>1. [kind |-> "worker_free", who |-> w, timed |-> FALSE] \in PoolMessages BY MessageTypes
    <3> QED BY <1>3, <3>1, ToPoolSet DEF GiveUp, Speaks
  <2> QED BY <1>3, <2>1, <2>2, KnownSame DEF GiveUp, restVars, Known
<1>4. CASE Unhandled(w)
  <2>1. \A v \in Pids \ alive : UNCHANGED <<from[v], monitors[v], inbox[v]>>
    BY <1>0, <1>4 DEF Unhandled, Received, TypeOK
  <2> QED BY <1>4, <2>1, KnownSame DEF Unhandled, poolVars, restVars, Known
<1>5. CASE Stop(w)
  <2>1. CASE Dies(w) BY <1>0, <1>5, <2>1, DiesKnown DEF Stop, restVars
  <2>2. CASE responders[w] # {}
    <3>1. \A v \in Pids \ alive : UNCHANGED <<from[v], monitors[v], inbox[v]>>
      BY <1>0, <1>5, <2>2 DEF Stop, Received, TypeOK
    <3> QED BY <1>5, <2>2, <3>1, KnownSame DEF Stop, poolVars, restVars, Known
  <2> QED BY <1>5, <2>1, <2>2 DEF Stop
<1>6. CASE Crash(w) BY <1>0, <1>6, DiesKnown DEF Crash
<1> QED BY <1>1, <1>2, <1>3, <1>4, <1>5, <1>6 DEF WorkerStep

LEMMA BrokerKnown ==
  ASSUME TypeOK, Known, NEW w \in Pids, NEW c \in Requests, Answer(w, c) \/ ResponderEnds(w, c)
  PROVE  Known'
<1>1. \A v \in Pids \ alive : UNCHANGED <<from[v], monitors[v], inbox[v]>>
  BY DEF Answer, ResponderEnds, TypeOK
<1> QED BY <1>1, KnownSame DEF Answer, ResponderEnds, poolVars, restVars, Known

\* Started workers have said nothing yet.
LEMMA HireKnown ==
  ASSUME TypeOK, Known, StartWorker
  PROVE  /\ Quiet(started') /\ started' \notin ToSet(workers) /\ started' \notin deaf
         /\ started' \notin dropped
         /\ \A m \in ToSet(mailbox) : m.kind # "request" => m.who # started'
         /\ \A m \in ToSet(mailbox) : Speaks(m)'
<1>1. /\ started' = started + 1 /\ started' \in Pids /\ started' \notin alive
      /\ started' \notin linked /\ alive' = alive \cup {started'}
      /\ linked' = linked \cup {started'}
  BY HireTypes
<1>2. Quiet(started') /\ started' \notin ToSet(workers) /\ started' \notin deaf
  BY <1>1 DEF Known, TypeOK
<1>3. started' \notin dropped
  <2>1. started \in Int BY DEF TypeOK
  <2>2. \A i \in 1..started : i # started + 1 BY <2>1
  <2> QED BY <1>1, <2>2 DEF Known
<1>4. \A m \in ToSet(mailbox) : m.kind # "request" => m.who \in linked
  <2>1. \A m \in ToSet(mailbox) : m \in PoolMessages BY ToSetCount DEF TypeOK
  <2> QED BY <2>1 DEF Known, Speaks, PoolMessages
<1>5. \A m \in ToSet(mailbox) : Speaks(m)' BY <1>1 DEF Known, Speaks
<1> QED BY <1>1, <1>2, <1>3, <1>4, <1>5

LEMMA PoolKnown ==
  ASSUME TypeOK, Known, PoolStep \/ ReduceLaborForce
  PROVE  Known'
<1>1. CASE HandOver
  <2>1. mailbox # <<>> /\ workers # <<>> /\ Head(workers) \in alive BY <1>1 DEF HandOver, Gets
  <2>2. ToSet(mailbox') \subseteq ToSet(mailbox) BY <1>1, <2>1, MailTail DEF HandOver
  <2>3. ToSet(workers') \subseteq linked BY <1>1, <2>1, ToSetTail DEF HandOver, Known, TypeOK
  <2>4. \A v \in Pids \ alive : UNCHANGED <<from[v], monitors[v], inbox[v]>>
    BY <1>1, <2>1 DEF HandOver, Cast, TypeOK
  <2> QED BY <1>1, <2>2, <2>3, <2>4, KnownSame DEF HandOver, restVars, Known
<1>2. CASE HireFor
  <2>1. mailbox # <<>> /\ StartWorker /\ mailbox' = Tail(mailbox) BY <1>2 DEF HireFor, Gets
  <2>2. \A m \in ToSet(mailbox') : Speaks(m)' BY <2>1, MailTail, HireKnown
  <2>3. ToSet(workers') \subseteq linked' /\ dropped' \subseteq 1..started'
    <3>1. linked \subseteq linked' /\ 1..started \subseteq 1..started'
      BY <2>1, HireTypes DEF TypeOK
    <3> QED BY <1>2, <3>1 DEF HireFor, Known, restVars
  <2>4. ASSUME NEW v \in Pids \ alive' PROVE Quiet(v)'
    <3>1. v # started' /\ v \notin alive BY <2>1, HireTypes
    <3>2. inbox'[v] = inbox[v] BY <1>2, <3>1 DEF HireFor, Cast, TypeOK
    <3> QED BY <1>2, <3>1, <3>2 DEF HireFor, Known, Quiet
  <2> QED BY <2>2, <2>3, <2>4 DEF Known
<1>3. CASE PoolCrash
  <2>1. /\ started' = started + OWC /\ linked' = (started + 1)..started'
        /\ alive' = alive \cup linked' /\ dropped' = dropped /\ UNCHANGED <<from, monitors>>
        /\ workers' = [i \in 1..OWC |-> started + i] /\ mailbox' = <<>>
        /\ inbox' = [w \in Pids |-> IF w \in alive THEN Append(inbox[w], [kind |-> "stop"])
                                                    ELSE inbox[w]]
    BY <1>3 DEF PoolCrash, restVars
  <2>2. started \in Nat /\ OWC \in Nat BY Bounds DEF TypeOK
  <2>3. ToSet(workers') \subseteq linked' BY <2>1, <2>2 DEF ToSet
  <2>4. ToSet(mailbox') = {} BY <2>1 DEF ToSet
  <2>5. \A v \in Pids \ alive' : Quiet(v)' BY <2>1 DEF Known, Quiet
  <2>6. dropped' \subseteq 1..started' BY <2>1, <2>2 DEF Known
  <2> QED BY <2>3, <2>4, <2>5, <2>6 DEF Known
<1>4. CASE WorkerFree
  <2>1. mailbox # <<>> /\ Head(mailbox).kind = "worker_free" BY <1>4 DEF WorkerFree, Gets
  <2>2. ToSet(mailbox') \subseteq ToSet(mailbox) BY <1>4, <2>1, MailTail DEF WorkerFree
  <2>3. Head(mailbox).who \in linked BY <2>1, MailTail DEF Known, Speaks
  <2>4. Head(mailbox).who \in Pids BY <2>1, HeadOfMailbox, MessageTypes
  <2>5. ToSet(workers') = ToSet(workers) \cup {Head(mailbox).who}
    BY <1>4, <2>4, ToSetAppend DEF WorkerFree, TypeOK
  <2>6. ToSet(workers') \subseteq linked BY <2>3, <2>5 DEF Known
  <2> QED BY <1>4, <2>2, <2>6, KnownSame DEF WorkerFree, workerVars, restVars, Known
<1>5. CASE WorkerExit
  <2>1. mailbox # <<>> /\ mailbox' = Tail(mailbox) BY <1>5 DEF WorkerExit, Gets
  <2> DEFINE rest == Without(workers, Head(mailbox).who)
  <2>2. rest \in Seq(Pids) /\ ToSet(rest) \subseteq ToSet(workers)
    BY ToSetWithout DEF TypeOK
  <2>3. UNCHANGED <<from, monitors, inbox, dropped>> BY <1>5 DEF WorkerExit, restVars
  <2>4. \/ StartWorker /\ workers' = Append(rest, started')
        \/ workers' = rest /\ UNCHANGED <<linked, started, alive>>
    BY <1>5 DEF WorkerExit
  <2> HIDE DEF rest
  <2>5. CASE StartWorker /\ workers' = Append(rest, started')
    <3>1. started' \in Pids /\ linked' = linked \cup {started'} /\ alive' = alive \cup {started'}
      BY <2>5, HireTypes
    <3>2. ToSet(workers') = ToSet(rest) \cup {started'} BY <2>2, <2>5, <3>1, ToSetAppend
    <3>3. ToSet(workers') \subseteq linked' BY <2>2, <3>1, <3>2 DEF Known
    <3>4. \A m \in ToSet(mailbox') : Speaks(m)' BY <2>1, <2>5, MailTail, HireKnown
    <3>5. \A v \in Pids \ alive' : Quiet(v)' BY <2>3, <3>1 DEF Known, Quiet
    <3>6. dropped' \subseteq 1..started' BY <2>3, <2>5, HireTypes DEF Known, TypeOK
    <3> QED BY <3>3, <3>4, <3>5, <3>6 DEF Known
  <2>6. CASE workers' = rest /\ UNCHANGED <<linked, started, alive>>
    BY <2>1, <2>2, <2>3, <2>6, MailTail, KnownSame DEF Known
  <2> QED BY <2>4, <2>5, <2>6
<1>6. CASE ReduceLaborForce
  <2>1. UNCHANGED <<mailbox, linked, started, alive, from, monitors, dropped>>
    BY <1>6 DEF ReduceLaborForce, restVars
  <2>2. CASE UNCHANGED <<inbox, workers, worker_count>>
    BY <2>1, <2>2, KnownSame DEF Known
  <2>3. ASSUME NEW reduce \in Int, reduce > 0, ReduceWorkers(reduce) PROVE Known'
    <3>1. PICK n \in 0..Len(workers) :
           /\ workers' = SubSeq(workers, n + 1, Len(workers))
           /\ inbox' = [w \in Pids |-> IF w \in {workers[i] : i \in 1..n} \cap alive
                                       THEN Append(inbox[w], [kind |-> "stop"])
                                       ELSE inbox[w]]
      BY <2>3, ReduceTypes
    <3>2. ToSet(workers') \subseteq linked BY <3>1, ToSetSuffix DEF Known, TypeOK
    <3>3. \A v \in Pids \ alive : UNCHANGED <<from[v], monitors[v], inbox[v]>> BY <2>1, <3>1
    <3> QED BY <2>1, <3>2, <3>3, KnownSame DEF Known
  <2> QED BY <1>6, <2>2, <2>3, ReducedOrNot
<1> QED BY <1>1, <1>2, <1>3, <1>4, <1>5, <1>6 DEF PoolStep

LEMMA NextKnown == TypeOK /\ Known /\ [Next]_vars => Known'
<1>1. TypeOK /\ Known /\ UNCHANGED vars => Known'
  BY KnownSame DEF vars, poolVars, workerVars, restVars, Known
<1> QED BY <1>1, CallerKnown, WorkerKnown, BrokerKnown, PoolKnown DEF Next

-----------------------------------------------------------------------------
(* The count of the workers.                                               *)

LEMMA OwnFinite ==
  ASSUME TypeOK
  PROVE  /\ linked \cap alive \in SUBSET Pids /\ alive \in SUBSET Pids
         /\ \A T \in SUBSET Pids : IsFiniteSet(T) /\ Cardinality(T) \in Nat
         /\ worker_count \in Nat
<1>1. MaxWorkers \in Int /\ 1 \in Int BY Bounds
<1>2. alive \in SUBSET Pids BY <1>1 DEF TypeOK, Pids
<1> QED BY <1>1, <1>2, Finite DEF Pids, TypeOK

\* A step that counts anew, or leaves the count of workers that only end.
LEMMA Recounts ==
  ASSUME TypeOK, TypeOK', CountCovers,
         \/ worker_count' \in Counts(alive')
         \/ worker_count' = worker_count /\ linked' = linked /\ alive' \subseteq alive
  PROVE  CountCovers'
<1>1. \A T \in SUBSET Pids : IsFiniteSet(T) /\ Cardinality(T) \in Nat BY OwnFinite
<1>2. linked' \cap alive' \subseteq alive' /\ alive' \in SUBSET Pids
  BY Bounds DEF TypeOK, Pids
<1>3. CASE worker_count' \in Counts(alive')
  <2>1. Cardinality(alive') <= worker_count' /\ worker_count' \in Nat BY <1>2, <1>3, CountsCover
  <2>2. Cardinality(linked' \cap alive') <= Cardinality(alive') BY <1>1, <1>2, FS_Subset
  <2>3. Cardinality(linked' \cap alive') \in Nat /\ Cardinality(alive') \in Nat BY <1>1, <1>2
  <2> QED BY <2>1, <2>2, <2>3 DEF CountCovers
<1>4. CASE worker_count' = worker_count /\ linked' = linked /\ alive' \subseteq alive
  <2>1. linked' \cap alive' \subseteq linked \cap alive /\ linked \cap alive \in SUBSET Pids
        /\ linked' \cap alive' \in SUBSET Pids /\ worker_count \in Nat
    BY <1>2, <1>4, OwnFinite
  <2>2. Cardinality(linked' \cap alive') <= Cardinality(linked \cap alive)
    BY <1>1, <2>1, FS_Subset
  <2>3. Cardinality(linked' \cap alive') \in Nat /\ Cardinality(linked \cap alive) \in Nat
    BY <1>1, <2>1
  <2> QED BY <1>4, <2>1, <2>2, <2>3 DEF CountCovers
<1> QED BY <1>3, <1>4

LEMMA CoversStep ==
  ASSUME TypeOK, TypeOK', CountCovers, [Next]_vars
  PROVE  CountCovers'
<1>1. ASSUME NEW c \in Requests, Ask(c) \/ TimesOut(c) \/ Ends(c) PROVE CountCovers'
  BY <1>1, Recounts DEF Ask, TimesOut, Ends, poolVars, workerVars
<1>2. ASSUME NEW w \in Pids, WorkerStep(w) \/ Crash(w) PROVE CountCovers'
  <2>1. CASE Dies(w) BY <2>1, Recounts DEF Dies
  <2>2. CASE UNCHANGED <<worker_count, linked, alive>> BY <2>2, Recounts
  <2> QED BY <1>2, <2>1, <2>2
        DEF WorkerStep, Crash, Employed, Respond, GiveUp, Unhandled, Stop, poolVars
<1>3. ASSUME NEW w \in Pids, NEW c \in Requests, Answer(w, c) \/ ResponderEnds(w, c)
      PROVE  CountCovers'
  BY <1>3, Recounts DEF Answer, ResponderEnds, poolVars
<1>4. CASE HandOver BY <1>4, Recounts DEF HandOver
<1>5. CASE HireFor
  <2>1. /\ started' \notin linked /\ linked' = linked \cup {started'}
        /\ alive' = alive \cup {started'} /\ started' \notin alive
    BY <1>5, HireTypes DEF HireFor
  <2>2. linked' \cap alive' = (linked \cap alive) \cup {started'}
        /\ started' \notin linked \cap alive
    BY <2>1
  <2>3. IsFiniteSet(linked \cap alive) /\ Cardinality(linked \cap alive) \in Nat
        /\ worker_count \in Nat
    BY OwnFinite
  <2>4. Cardinality(linked' \cap alive') = Cardinality(linked \cap alive) + 1
    BY <2>2, <2>3, FS_AddElement
  <2> QED BY <1>5, <2>3, <2>4 DEF HireFor, CountCovers
<1>6. CASE PoolCrash
  <2>1. linked' = (started + 1)..(started + OWC) /\ alive' = alive \cup linked'
        /\ worker_count' = OWC
    BY <1>6 DEF PoolCrash
  <2>2. started \in Nat /\ OWC \in Nat /\ OWC > 0 BY Bounds DEF TypeOK
  <2>3. linked' \cap alive' = linked' BY <2>1
  <2>4. started + 1 \in Int /\ started + OWC \in Int /\ ~(started + 1 > started + OWC)
        /\ (started + OWC) - (started + 1) + 1 = OWC
    BY <2>2
  <2>5. Cardinality(linked') = OWC BY <2>1, <2>4, FS_Interval
  <2>6. Cardinality(linked' \cap alive') = OWC BY <2>3, <2>5, Zenon
  <2> QED BY <2>1, <2>2, <2>6 DEF CountCovers
<1>7. CASE WorkerFree BY <1>7, Recounts DEF WorkerFree, workerVars
<1>8. CASE WorkerExit BY <1>8, Recounts DEF WorkerExit
<1>9. CASE ReduceLaborForce
  <2>1. UNCHANGED <<linked, alive>> BY <1>9 DEF ReduceLaborForce
  <2>2. ASSUME NEW reduce \in Int, ReduceWorkers(reduce) PROVE worker_count' \in Counts(alive')
    BY <2>1, <2>2 DEF ReduceWorkers
  <2> QED BY <1>9, <2>1, <2>2, ReducedOrNot, Recounts
<1>10. CASE UNCHANGED vars BY <1>10, Recounts DEF vars, poolVars, workerVars
<1> QED BY <1>1, <1>2, <1>3, <1>4, <1>5, <1>6, <1>7, <1>8, <1>9, <1>10 DEF Next, PoolStep

LEMMA InitCovers == Init => CountCovers
<1> SUFFICES ASSUME Init PROVE CountCovers OBVIOUS
<1>1. linked \cap alive = 1..OWC /\ worker_count = OWC BY DEF Init
<1>2. OWC \in Int /\ 1 \in Int /\ ~(1 > OWC) /\ OWC - 1 + 1 = OWC BY Bounds
<1>3. Cardinality(1..OWC) = OWC BY <1>2, FS_Interval
<1>4. Cardinality(linked \cap alive) = OWC BY <1>1, <1>3, Zenon
<1> QED BY <1>1, <1>2, <1>4 DEF CountCovers

\* The number the pool decides with is never below the workers it has, through
\* crashes, reductions and restarts (ecallmgr_amqp_pool.erl worker_count).
THEOREM WorkersAreCounted == Spec => []CountCovers
<1> QED BY InitCovers, CoversStep, InitTypes, NextTypes, PTL DEF Spec

-----------------------------------------------------------------------------
(* The dead.                                                               *)

ExitOf(w) == [kind |-> "exit", who |-> w]
Reports(m, w) == m.kind = "worker_free" /\ m.who = w

\* What a dead worker sent is followed by its 'EXIT'.
Followed(s, w) ==
  \A i \in 1..Len(s) : Reports(s[i], w) => \E j \in 1..Len(s) : j > i /\ s[j] = ExitOf(w)
Leaves(w) ==
  /\ w \in ToSet(workers) => ExitOf(w) \in ToSet(mailbox)
  /\ Followed(mailbox, w)

LEMMA LeavesAll ==
  ASSUME TypeOK
  PROVE  DeadOnesLeave <=> \A w \in linked \ alive : Leaves(w)
<1>1. DOMAIN mailbox = 1..Len(mailbox) BY LenProperties DEF TypeOK
<1> QED BY <1>1 DEF DeadOnesLeave, Leaves, Followed, Reports, ExitOf

LEMMA FollowedAppend ==
  ASSUME NEW s \in Seq(PoolMessages), NEW m \in PoolMessages, NEW w,
         m = ExitOf(w) \/ (~Reports(m, w) /\ Followed(s, w))
  PROVE  Followed(Append(s, m), w)
<1> DEFINE t == Append(s, m)
<1>1. /\ Len(s) \in Nat /\ Len(t) = Len(s) + 1 /\ \A i \in 1..Len(s) : t[i] = s[i]
      /\ t[Len(s) + 1] = m
  BY LenProperties, AppendProperties
<1> HIDE DEF t
<1>2. ASSUME NEW i \in 1..Len(t), Reports(t[i], w)
      PROVE  \E j \in 1..Len(t) : j > i /\ t[j] = ExitOf(w)
  <2>1. i # Len(s) + 1
    <3>1. ~Reports(m, w) BY DEF Reports, ExitOf
    <3> QED BY <1>1, <1>2, <3>1
  <2>2. i \in 1..Len(s) /\ t[i] = s[i] BY <1>1, <2>1
  <2>3. CASE m = ExitOf(w)
    <3>1. Len(s) + 1 \in 1..Len(t) /\ Len(s) + 1 > i BY <1>1, <2>2
    <3> QED BY <1>1, <2>3, <3>1
  <2>4. CASE Followed(s, w)
    <3>1. PICK j \in 1..Len(s) : j > i /\ s[j] = ExitOf(w) BY <1>2, <2>2, <2>4 DEF Followed
    <3>2. j \in 1..Len(t) /\ t[j] = s[j] BY <1>1, <3>1
    <3> QED BY <3>1, <3>2
  <2> QED BY <2>3, <2>4
<1> QED BY <1>2 DEF Followed, t

LEMMA FollowedTail ==
  ASSUME NEW s \in Seq(PoolMessages), s # <<>>, NEW w, Followed(s, w)
  PROVE  /\ Followed(Tail(s), w)
         /\ Reports(Head(s), w) => ExitOf(w) \in ToSet(Tail(s))
<1> DEFINE t == Tail(s)
<1>1. /\ Len(s) \in Nat \ {0} /\ Len(t) = Len(s) - 1 /\ \A i \in 1..Len(t) : t[i] = s[i + 1]
      /\ Head(s) = s[1] /\ t \in Seq(PoolMessages)
  BY EmptySeq, HeadTailProperties
<1> HIDE DEF t
<1>2. DOMAIN t = 1..Len(t) BY <1>1, LenProperties
<1>3. ASSUME NEW j \in 1..Len(s), j > 1 PROVE j - 1 \in 1..Len(t) /\ t[j - 1] = s[j]
  <2>1. j - 1 \in 1..Len(t) /\ (j - 1) + 1 = j BY <1>1, <1>3
  <2>2. t[j - 1] = s[(j - 1) + 1] BY <1>1, <2>1
  <2> QED BY <2>1, <2>2
<1>4. ASSUME NEW i \in 1..Len(t), Reports(t[i], w)
      PROVE  \E j \in 1..Len(t) : j > i /\ t[j] = ExitOf(w)
  <2>1. i + 1 \in 1..Len(s) /\ t[i] = s[i + 1] BY <1>1
  <2>2. PICK j \in 1..Len(s) : j > i + 1 /\ s[j] = ExitOf(w) BY <1>4, <2>1 DEF Followed
  <2>3. j > 1 /\ j - 1 > i BY <1>1, <2>2
  <2>4. j - 1 \in 1..Len(t) /\ t[j - 1] = ExitOf(w) BY <1>3, <2>2, <2>3
  <2> QED BY <2>3, <2>4
<1>5. ASSUME Reports(Head(s), w) PROVE ExitOf(w) \in ToSet(t)
  <2>1. 1 \in 1..Len(s) BY <1>1
  <2>2. PICK j \in 1..Len(s) : j > 1 /\ s[j] = ExitOf(w) BY <1>1, <1>5, <2>1 DEF Followed
  <2>3. j - 1 \in DOMAIN t /\ t[j - 1] = ExitOf(w) BY <1>2, <1>3, <2>2
  <2> QED BY <2>3 DEF ToSet
<1> QED BY <1>4, <1>5 DEF Followed, t

\* A message, or none, is added to the mailbox.
LEMMA LeavesAppend ==
  ASSUME TypeOK, NEW w, NEW m \in PoolMessages, Leaves(w),
         ~Reports(m, w), workers' = workers,
         mailbox' = mailbox \/ mailbox' = Append(mailbox, m)
  PROVE  Leaves(w)'
<1>1. mailbox \in Seq(PoolMessages) BY DEF TypeOK
<1>2. ToSet(mailbox) \subseteq ToSet(mailbox')
  <2>1. ToSet(Append(mailbox, m)) = ToSet(mailbox) \cup {m} BY <1>1, ToSetAppend
  <2> QED BY <2>1
<1>3. Followed(mailbox, w) => Followed(Append(mailbox, m), w) BY <1>1, FollowedAppend
<1>4. Followed(mailbox', w) BY <1>3 DEF Leaves
<1> QED BY <1>2, <1>4 DEF Leaves

\* A message that is no 'EXIT' of the worker is taken from the mailbox.
LEMMA LeavesTail ==
  ASSUME TypeOK, NEW w, mailbox # <<>>, mailbox' = Tail(mailbox), Leaves(w),
         Head(mailbox) # ExitOf(w) \/ w \notin ToSet(workers'),
         w \in ToSet(workers') => w \in ToSet(workers) \/ Reports(Head(mailbox), w)
  PROVE  Leaves(w)'
<1>1. mailbox \in Seq(PoolMessages) BY DEF TypeOK
<1>2. Followed(mailbox', w) /\ (Reports(Head(mailbox), w) => ExitOf(w) \in ToSet(mailbox'))
  BY <1>1, FollowedTail DEF Leaves
<1>3. ToSet(mailbox) = {Head(mailbox)} \cup ToSet(mailbox') BY <1>1, ToSetTail
<1> QED BY <1>2, <1>3 DEF Leaves

LEMMA DeadStep ==
  ASSUME TypeOK, TypeOK', Known, DeadOnesLeave, [Next]_vars,
         NEW w \in linked', w \notin alive'
  PROVE  Leaves(w)'
<1>0. \A v \in linked \ alive : Leaves(v) BY LeavesAll
<1>1. ASSUME NEW c \in Requests, Ask(c) \/ TimesOut(c) \/ Ends(c) PROVE Leaves(w)'
  <2>1. UNCHANGED <<workers, linked, alive>>
        /\ (mailbox' = mailbox \/ mailbox' = Append(mailbox, [kind |-> "request", who |-> c]))
    BY <1>1 DEF Ask, TimesOut, Ends, poolVars, workerVars
  <2>2. ~Reports([kind |-> "request", who |-> c], w) BY DEF Reports
  <2>3. [kind |-> "request", who |-> c] \in PoolMessages BY MessageTypes
  <2>4. Leaves(w) BY <1>0, <2>1
  <2> QED BY <2>1, <2>2, <2>3, <2>4, LeavesAppend
<1>2. ASSUME NEW v \in Pids, WorkerStep(v) \/ Crash(v) PROVE Leaves(w)'
  <2>0. v \in alive /\ UNCHANGED <<workers, linked>>
    BY <1>2 DEF WorkerStep, Crash, Employed, Respond, GiveUp, Unhandled, Stop, Has, Dies, poolVars
  <2>1. CASE Dies(v)
    <3>1. alive' = alive \ {v} /\ mailbox' = ToPool(v, ExitOf(v)) BY <2>1 DEF Dies, ExitOf
    <3>2. ExitOf(v) \in PoolMessages BY MessageTypes DEF ExitOf
    <3>3. CASE w = v
      <4>1. mailbox' = Append(mailbox, ExitOf(w)) /\ mailbox \in Seq(PoolMessages)
        BY <2>0, <3>1, <3>3 DEF ToPool, TypeOK
      <4>2. Followed(mailbox', w)
        <5>1. Followed(Append(mailbox, ExitOf(w)), w) BY <3>2, <3>3, <4>1, FollowedAppend
        <5> QED BY <4>1, <5>1
      <4>3. ToSet(Append(mailbox, ExitOf(w))) = ToSet(mailbox) \cup {ExitOf(w)}
        BY <3>2, <3>3, <4>1, ToSetAppend
      <4> QED BY <4>1, <4>2, <4>3 DEF Leaves
    <3>4. CASE w # v
      <4>1. Leaves(w) BY <1>0, <2>0, <3>1, <3>4
      <4>2. ~Reports(ExitOf(v), w) BY DEF Reports, ExitOf
      <4> QED BY <2>0, <3>1, <3>2, <4>1, <4>2, LeavesAppend DEF ToPool
    <3> QED BY <3>3, <3>4
  <2>2. CASE alive' = alive
    <3> DEFINE m(b) == [kind |-> "worker_free", who |-> v, timed |-> b]
    <3>1. \E b \in BOOLEAN : mailbox' = mailbox \/ mailbox' = Append(mailbox, m(b))
      <4>1. CASE UNCHANGED mailbox BY <4>1
      <4>2. CASE mailbox' = ToPool(v, m(TRUE)) BY <4>2 DEF ToPool
      <4>3. CASE mailbox' = ToPool(v, m(FALSE)) BY <4>3 DEF ToPool
      <4>4. CASE Dies(v) BY <2>0, <2>2, <4>4 DEF Dies
      <4> QED BY <1>2, <4>1, <4>2, <4>3, <4>4
            DEF WorkerStep, Crash, Employed, Respond, GiveUp, Unhandled, Stop, poolVars
    <3>2. PICK b \in BOOLEAN : mailbox' = mailbox \/ mailbox' = Append(mailbox, m(b)) BY <3>1
    <3>3. m(b) \in PoolMessages BY MessageTypes
    <3>4. ~Reports(m(b), w) BY <2>0, <2>2 DEF Reports
    <3>5. Leaves(w) BY <1>0, <2>0, <2>2
    <3> HIDE DEF m
    <3> QED BY <2>0, <3>2, <3>3, <3>4, <3>5, LeavesAppend
  <2> QED BY <1>2, <2>1, <2>2
        DEF WorkerStep, Crash, Employed, Respond, GiveUp, Unhandled, Stop, poolVars
<1>3. ASSUME UNCHANGED <<workers, linked, alive, mailbox>> PROVE Leaves(w)'
  BY <1>0, <1>3 DEF Leaves
<1>4. CASE HandOver
  <2>1. /\ mailbox # <<>> /\ mailbox' = Tail(mailbox) /\ Head(mailbox).kind = "request"
        /\ workers # <<>> /\ workers' = Tail(workers) /\ UNCHANGED <<linked, alive>>
    BY <1>4 DEF HandOver, Gets
  <2>2. ToSet(workers') \subseteq ToSet(workers) BY <2>1, ToSetTail DEF TypeOK
  <2>3. Head(mailbox) # ExitOf(w) BY <2>1 DEF ExitOf
  <2>4. Leaves(w) BY <1>0, <2>1
  <2> QED BY <2>1, <2>2, <2>3, <2>4, LeavesTail
<1>5. CASE HireFor
  <2>1. /\ mailbox # <<>> /\ mailbox' = Tail(mailbox) /\ Head(mailbox).kind = "request"
        /\ workers' = workers /\ StartWorker
    BY <1>5 DEF HireFor, Gets
  <2>2. Leaves(w) BY <1>0, <2>1, HireTypes
  <2>3. Head(mailbox) # ExitOf(w) BY <2>1 DEF ExitOf
  <2> QED BY <2>1, <2>2, <2>3, LeavesTail
<1>6. CASE PoolCrash BY <1>6 DEF PoolCrash
<1>7. CASE WorkerFree
  <2>1. /\ mailbox # <<>> /\ mailbox' = Tail(mailbox) /\ Head(mailbox).kind = "worker_free"
        /\ workers' = Append(workers, Head(mailbox).who) /\ UNCHANGED <<linked, alive>>
    BY <1>7 DEF WorkerFree, Gets, workerVars
  <2>2. Head(mailbox).who \in Pids BY <2>1, HeadOfMailbox, MessageTypes
  <2>3. ToSet(workers') = ToSet(workers) \cup {Head(mailbox).who}
    BY <2>1, <2>2, ToSetAppend DEF TypeOK
  <2>4. Head(mailbox) # ExitOf(w) BY <2>1 DEF ExitOf
  <2>5. w \in ToSet(workers') => w \in ToSet(workers) \/ Reports(Head(mailbox), w)
    BY <2>1, <2>3 DEF Reports
  <2>6. Leaves(w) BY <1>0, <2>1
  <2> QED BY <2>1, <2>4, <2>5, <2>6, LeavesTail
<1>8. CASE WorkerExit
  <2>1. mailbox # <<>> /\ mailbox' = Tail(mailbox) BY <1>8 DEF WorkerExit, Gets
  <2> DEFINE rest == Without(workers, Head(mailbox).who)
  <2>2. rest \in Seq(Pids) /\ ToSet(rest) = ToSet(workers) \ {Head(mailbox).who}
    BY ToSetWithout DEF TypeOK
  <2>3. \/ StartWorker /\ workers' = Append(rest, started')
        \/ workers' = rest /\ UNCHANGED <<linked, started, alive>>
    BY <1>8 DEF WorkerExit
  <2> HIDE DEF rest
  <2>4. w \in linked \ alive /\ (w \in ToSet(workers') => w \in ToSet(rest))
    <3>1. CASE StartWorker /\ workers' = Append(rest, started')
      <4>1. started' \in Pids /\ linked' = linked \cup {started'} /\ alive' = alive \cup {started'}
        BY <3>1, HireTypes
      <4>2. ToSet(workers') = ToSet(rest) \cup {started'} BY <2>2, <3>1, <4>1, ToSetAppend
      <4> QED BY <4>1, <4>2
    <3>2. CASE workers' = rest /\ UNCHANGED <<linked, started, alive>> BY <3>2
    <3> QED BY <2>3, <3>1, <3>2
  <2>5. Head(mailbox) # ExitOf(w) \/ w \notin ToSet(workers')
    BY <2>2, <2>4 DEF ExitOf
  <2>6. Leaves(w) BY <1>0, <2>4
  <2> QED BY <2>1, <2>2, <2>4, <2>5, <2>6, LeavesTail
<1>9. CASE ReduceLaborForce
  <2>1. UNCHANGED <<mailbox, linked, alive>> BY <1>9 DEF ReduceLaborForce
  <2>2. ToSet(workers') \subseteq ToSet(workers)
    <3>1. ASSUME NEW reduce \in Int, reduce > 0, ReduceWorkers(reduce)
          PROVE  ToSet(workers') \subseteq ToSet(workers)
      <4>1. PICK n \in 0..Len(workers) : workers' = SubSeq(workers, n + 1, Len(workers))
        BY <3>1, ReduceTypes
      <4> QED BY <4>1, ToSetSuffix DEF TypeOK
    <3> QED BY <1>9, <3>1, ReducedOrNot
  <2> QED BY <1>0, <2>1, <2>2 DEF Leaves
<1>10. ASSUME NEW v \in Pids, NEW c \in Requests, Answer(v, c) \/ ResponderEnds(v, c)
       PROVE  Leaves(w)'
  BY <1>3, <1>10 DEF Answer, ResponderEnds, poolVars
<1>11. CASE UNCHANGED vars BY <1>3, <1>11 DEF vars, poolVars, workerVars
<1> QED BY <1>1, <1>2, <1>4, <1>5, <1>6, <1>7, <1>8, <1>9, <1>10, <1>11 DEF Next, PoolStep

\* The pool never calls a worker whose 'EXIT' it has taken, so what ends it is
\* only a worker that died since (ecallmgr_amqp_pool.erl handle_info 'EXIT').
THEOREM DeadAreRemoved == Spec => []DeadOnesLeave
<1>1. Init => DeadOnesLeave
  <2>1. Init => linked \ alive = {} BY DEF Init
  <2> QED BY <2>1, InitTypes, LeavesAll
<1>2. TypeOK /\ TypeOK' /\ Known /\ DeadOnesLeave /\ [Next]_vars => DeadOnesLeave'
  <2> SUFFICES ASSUME TypeOK, TypeOK', Known, DeadOnesLeave, [Next]_vars PROVE DeadOnesLeave'
    OBVIOUS
  <2>1. \A w \in linked' \ alive' : Leaves(w)' BY DeadStep
  <2>2. DeadOnesLeave' <=> \A w \in linked' \ alive' : Leaves(w)'
    <3>1. DOMAIN mailbox' = 1..Len(mailbox') BY LenProperties DEF TypeOK
    <3> QED BY <3>1 DEF DeadOnesLeave, Leaves, Followed, Reports, ExitOf
  <2> QED BY <2>1, <2>2
<1> QED BY <1>1, <1>2, InitTypes, NextTypes, InitKnown, NextKnown, PTL DEF Spec

-----------------------------------------------------------------------------
(* The custody of each live worker.                                        *)

Halt == [kind |-> "stop"]
Down(c) == [kind |-> "down", who |-> c]
InCustody(w) ==
  IF w \in linked THEN Places(w) = 1 ELSE w \in deaf \/ Count(inbox[w], {Halt}) # 0

LEMMA CustodyAll ==
  ASSUME TypeOK
  PROVE  Custody <=> \A w \in alive : InCustody(w)
<1>1. ASSUME NEW w \in alive PROVE Count(inbox[w], {Halt}) # 0 <=> Halt \in ToSet(inbox[w])
  <2>1. inbox[w] \in Seq(WorkerMessages) BY Bounds DEF TypeOK, Pids
  <2> QED BY <2>1, ToSetCount
<1> QED BY <1>1 DEF Custody, InCustody, Halt

LEMMA Kinds ==
  /\ \A c \in Requests : /\ [kind |-> "response", who |-> c] \notin Jobs
                         /\ [kind |-> "response", who |-> c] # Halt
                         /\ [kind |-> "down", who |-> c] \notin Jobs
                         /\ [kind |-> "down", who |-> c] # Halt
                         /\ [kind |-> "employed", who |-> c] \in Jobs
                         /\ [kind |-> "employed", who |-> c] # Halt
  /\ Halt \in Jobs
  /\ \A m \in WorkerMessages : /\ m \in Jobs <=> m.kind \in {"employed", "stop"}
                               /\ m = Halt <=> m.kind = "stop"
  /\ \A m \in PoolMessages : \A w : m \in Freed(w) <=> m.kind = "worker_free" /\ m.who = w
<1>1. \A c \in Requests : /\ [kind |-> "response", who |-> c] \notin Jobs
                          /\ [kind |-> "response", who |-> c] # Halt
                          /\ [kind |-> "down", who |-> c] \notin Jobs
                          /\ [kind |-> "down", who |-> c] # Halt
                          /\ [kind |-> "employed", who |-> c] \in Jobs
                          /\ [kind |-> "employed", who |-> c] # Halt
  BY DEF Jobs, Halt
<1>2. Halt \in Jobs BY DEF Jobs, Halt
<1>3. ASSUME NEW m \in WorkerMessages
      PROVE  /\ m \in Jobs <=> m.kind \in {"employed", "stop"}
             /\ m = Halt <=> m.kind = "stop"
  BY DEF WorkerMessages, Jobs, Halt
<1>4. ASSUME NEW m \in PoolMessages, NEW w
      PROVE  m \in Freed(w) <=> m.kind = "worker_free" /\ m.who = w
  BY DEF PoolMessages, Freed
<1> QED BY <1>1, <1>2, <1>3, <1>4

\* The places of a worker are numbers.
LEMMA Numbers ==
  ASSUME TypeOK, NEW w \in Pids
  PROVE  /\ Count(workers, {w}) \in Nat /\ Count(mailbox, Freed(w)) \in Nat
         /\ Count(inbox[w], Jobs) \in Nat /\ Count(inbox[w], {Halt}) \in Nat
<1>1. /\ workers \in Seq(Pids) /\ mailbox \in Seq(PoolMessages)
      /\ inbox[w] \in Seq(WorkerMessages)
  BY DEF TypeOK
<1>2. Count(workers, {w}) \in Nat /\ Count(mailbox, Freed(w)) \in Nat BY <1>1, CountIsNat
<1>3. Count(inbox[w], Jobs) \in Nat /\ Count(inbox[w], {Halt}) \in Nat BY <1>1, CountIsNat
<1> QED BY <1>2, <1>3

\* A message to a worker, and the one it takes.
LEMMA Told ==
  ASSUME TypeOK, NEW w \in Pids, NEW m \in WorkerMessages, NEW set
  PROVE  Count(Append(inbox[w], m), set) = Count(inbox[w], set) + One(m \in set)
<1>1. inbox[w] \in Seq(WorkerMessages) BY DEF TypeOK
<1> QED BY <1>1, CountAppend

LEMMA Takes ==
  ASSUME TypeOK, NEW w \in Pids, inbox[w] # <<>>, NEW set
  PROVE  /\ Count(inbox[w], set) = Count(Tail(inbox[w]), set) + One(First(w) \in set)
         /\ Count(Tail(inbox[w]), set) \in Nat
         /\ \A m \in WorkerMessages :
              Count(Append(Tail(inbox[w]), m), set) = Count(Tail(inbox[w]), set) + One(m \in set)
<1>1. inbox[w] \in Seq(WorkerMessages) BY DEF TypeOK
<1>2. Tail(inbox[w]) \in Seq(WorkerMessages) BY HeadOfInbox
<1>3. Count(inbox[w], set) = Count(Tail(inbox[w]), set) + One(First(w) \in set)
  BY <1>1, CountTail DEF First
<1>4. Count(Tail(inbox[w]), set) \in Nat BY <1>2, CountIsNat
<1>5. \A m \in WorkerMessages :
        Count(Append(Tail(inbox[w]), m), set) = Count(Tail(inbox[w]), set) + One(m \in set)
  BY <1>2, CountAppend
<1> QED BY <1>3, <1>4, <1>5

\* A message to the pool, and the one it takes.
LEMMA Mailed ==
  ASSUME TypeOK, NEW m \in PoolMessages, NEW w
  PROVE  Count(Append(mailbox, m), Freed(w))
           = Count(mailbox, Freed(w)) + One(m.kind = "worker_free" /\ m.who = w)
<1>1. mailbox \in Seq(PoolMessages) BY DEF TypeOK
<1>2. Count(Append(mailbox, m), Freed(w)) = Count(mailbox, Freed(w)) + One(m \in Freed(w))
  BY <1>1, CountAppend
<1>3. m \in Freed(w) <=> m.kind = "worker_free" /\ m.who = w BY Kinds
<1> QED BY <1>2, <1>3 DEF One

LEMMA MailTaken ==
  ASSUME TypeOK, mailbox # <<>>, NEW w
  PROVE  /\ Count(mailbox, Freed(w)) = Count(Tail(mailbox), Freed(w))
              + One(Head(mailbox).kind = "worker_free" /\ Head(mailbox).who = w)
         /\ Count(Tail(mailbox), Freed(w)) \in Nat
<1>1. mailbox \in Seq(PoolMessages) BY DEF TypeOK
<1>2. Head(mailbox) \in PoolMessages /\ Tail(mailbox) \in Seq(PoolMessages) BY HeadOfMailbox
<1>3. Count(mailbox, Freed(w)) = Count(Tail(mailbox), Freed(w)) + One(Head(mailbox) \in Freed(w))
  BY <1>1, CountTail
<1>4. Head(mailbox) \in Freed(w) <=> Head(mailbox).kind = "worker_free" /\ Head(mailbox).who = w
  BY <1>2, Kinds
<1>5. Count(Tail(mailbox), Freed(w)) \in Nat BY <1>2, CountIsNat
<1> QED BY <1>3, <1>4, <1>5 DEF One

\* A worker a step leaves where it is.
LEMMA Stays ==
  ASSUME NEW w, InCustody(w), w \in linked' <=> w \in linked,
         Count(workers', {w}) = Count(workers, {w}),
         Count(mailbox', Freed(w)) = Count(mailbox, Freed(w)),
         Count(inbox'[w], Jobs) = Count(inbox[w], Jobs),
         Count(inbox'[w], {Halt}) = Count(inbox[w], {Halt}),
         from'[w] = from[w], w \in deaf' <=> w \in deaf, w \in dropped' <=> w \in dropped
  PROVE  InCustody(w)'
BY DEF InCustody, Places, One

LEMMA CallerCustody ==
  ASSUME TypeOK, NEW w \in alive, InCustody(w), NEW c \in Requests,
         Ask(c) \/ TimesOut(c) \/ Ends(c)
  PROVE  InCustody(w)'
<1>0. w \in Pids BY OwnFinite
<1>1. CASE Ask(c)
  <2>1. [kind |-> "request", who |-> c] \in PoolMessages BY MessageTypes
  <2>2. Count(mailbox', Freed(w)) = Count(mailbox, Freed(w)) + 0
    BY <1>1, <2>1, Mailed DEF Ask, One
  <2>3. Count(mailbox, Freed(w)) \in Nat BY <1>0, Numbers
  <2>4. Count(mailbox', Freed(w)) = Count(mailbox, Freed(w)) BY <2>2, <2>3
  <2> QED BY <1>1, <2>4, Stays DEF Ask, workerVars, restVars
<1>2. CASE TimesOut(c) BY <1>2, Stays DEF TimesOut, poolVars, workerVars, restVars
<1>3. CASE Ends(c)
  <2>1. Down(c) \in WorkerMessages /\ Down(c) \notin Jobs /\ Down(c) \notin {Halt}
    BY MessageTypes, Kinds DEF Down
  <2>2. inbox'[w] = inbox[w] \/ inbox'[w] = Append(inbox[w], Down(c)) BY <1>0, <1>3 DEF Ends, Down
  <2>3. /\ Count(inbox'[w], Jobs) = Count(inbox[w], Jobs)
        /\ Count(inbox'[w], {Halt}) = Count(inbox[w], {Halt})
    <3>1. /\ Count(Append(inbox[w], Down(c)), Jobs) = Count(inbox[w], Jobs) + 0
          /\ Count(Append(inbox[w], Down(c)), {Halt}) = Count(inbox[w], {Halt}) + 0
      BY <1>0, <2>1, Told DEF One
    <3>2. Count(inbox[w], Jobs) \in Nat /\ Count(inbox[w], {Halt}) \in Nat BY <1>0, Numbers
    <3>3. /\ Count(Append(inbox[w], Down(c)), Jobs) = Count(inbox[w], Jobs)
          /\ Count(Append(inbox[w], Down(c)), {Halt}) = Count(inbox[w], {Halt})
      BY <3>1, <3>2
    <3> QED BY <2>2, <3>3, Zenon
  <2> QED BY <1>3, <2>3, Stays DEF Ends, poolVars, restVars
<1> QED BY <1>1, <1>2, <1>3

\* The other workers, when one of them moves.
LEMMA OthersStay ==
  ASSUME TypeOK, NEW v \in Pids, WorkerStep(v) \/ Crash(v),
         NEW w \in alive, w # v, InCustody(w)
  PROVE  InCustody(w)'
<1>0. w \in Pids BY OwnFinite
<1>1. UNCHANGED <<workers, linked>> /\ inbox'[w] = inbox[w] /\ from'[w] = from[w]
      /\ (w \in deaf' <=> w \in deaf) /\ (w \in dropped' <=> w \in dropped)
  <2>1. UNCHANGED <<workers, linked>>
    BY DEF WorkerStep, Crash, Employed, Respond, GiveUp, Unhandled, Stop, Dies, poolVars
  <2>2. inbox'[w] = inbox[w] /\ from'[w] = from[w]
    BY <1>0 DEF WorkerStep, Crash, Employed, Respond, GiveUp, Unhandled, Stop, Dies, Received, TypeOK
  <2>3. (w \in deaf' <=> w \in deaf) /\ (w \in dropped' <=> w \in dropped)
    BY DEF WorkerStep, Crash, Employed, Respond, GiveUp, Unhandled, Stop, Dies, restVars
  <2> QED BY <2>1, <2>2, <2>3
<1>2. \E m \in PoolMessages : /\ mailbox' = mailbox \/ mailbox' = Append(mailbox, m)
                              /\ m.who = v
  <2> DEFINE e == [kind |-> "exit", who |-> v]
             f(b) == [kind |-> "worker_free", who |-> v, timed |-> b]
  <2>1. e \in PoolMessages /\ f(TRUE) \in PoolMessages /\ f(FALSE) \in PoolMessages
    BY MessageTypes
  <2>2. e.who = v /\ f(TRUE).who = v /\ f(FALSE).who = v OBVIOUS
  <2>3. \/ mailbox' = mailbox \/ mailbox' = ToPool(v, e)
        \/ mailbox' = ToPool(v, f(TRUE)) \/ mailbox' = ToPool(v, f(FALSE))
    BY DEF WorkerStep, Crash, Employed, Respond, GiveUp, Unhandled, Stop, Dies, poolVars
  <2> HIDE DEF e, f
  <2> QED BY <2>1, <2>2, <2>3 DEF ToPool
<1>3. Count(mailbox', Freed(w)) = Count(mailbox, Freed(w))
  <2>1. PICK m \in PoolMessages : /\ mailbox' = mailbox \/ mailbox' = Append(mailbox, m)
                                  /\ m.who = v
    BY <1>2
  <2>2. Count(Append(mailbox, m), Freed(w)) = Count(mailbox, Freed(w)) + 0
    BY <2>1, Mailed DEF One
  <2>3. Count(mailbox, Freed(w)) \in Nat BY <1>0, Numbers
  <2>4. Count(Append(mailbox, m), Freed(w)) = Count(mailbox, Freed(w)) BY <2>2, <2>3
  <2> QED BY <2>1, <2>4
<1> QED BY <1>1, <1>3, Stays

LEMMA WorkerCustody ==
  ASSUME TypeOK, NEW w \in Pids, WorkerStep(w), InCustody(w), w \in alive'
  PROVE  InCustody(w)'
<1>0. /\ Count(workers, {w}) \in Nat /\ Count(mailbox, Freed(w)) \in Nat
      /\ Count(inbox[w], Jobs) \in Nat /\ Count(inbox[w], {Halt}) \in Nat
      /\ NoOne \notin Requests
  BY Numbers, Bounds
<1>1. inbox[w] # <<>> /\ First(w) \in WorkerMessages
  <2>1. inbox[w] # <<>> BY DEF WorkerStep, Employed, Respond, GiveUp, Unhandled, Stop, Has
  <2> QED BY <2>1, HeadOfInbox
<1> DEFINE rest == Tail(inbox[w])
<1>2. /\ Count(inbox[w], Jobs) = Count(rest, Jobs) + One(First(w).kind \in {"employed", "stop"})
      /\ Count(inbox[w], {Halt}) = Count(rest, {Halt}) + One(First(w).kind = "stop")
      /\ Count(rest, Jobs) \in Nat /\ Count(rest, {Halt}) \in Nat
  <2>1. /\ Count(inbox[w], Jobs) = Count(rest, Jobs) + One(First(w) \in Jobs)
        /\ Count(inbox[w], {Halt}) = Count(rest, {Halt}) + One(First(w) \in {Halt})
        /\ Count(rest, Jobs) \in Nat /\ Count(rest, {Halt}) \in Nat
    BY <1>1, Takes
  <2>2. /\ First(w) \in Jobs <=> First(w).kind \in {"employed", "stop"}
        /\ First(w) \in {Halt} <=> First(w).kind = "stop"
    BY <1>1, Kinds
  <2> QED BY <2>1, <2>2 DEF One
<1>3. ASSUME NEW c \in Requests
      PROVE  /\ Count(Append(rest, Down(c)), Jobs) = Count(rest, Jobs)
             /\ Count(Append(rest, Down(c)), {Halt}) = Count(rest, {Halt})
             /\ Count(Without(rest, Down(c)), Jobs) = Count(rest, Jobs)
             /\ Count(Without(rest, Down(c)), {Halt}) = Count(rest, {Halt})
  <2>1. Down(c) \in WorkerMessages /\ Down(c) \notin Jobs /\ Down(c) \notin {Halt} BY MessageTypes, Kinds DEF Down
  <2>2. rest \in Seq(WorkerMessages) BY <1>1, HeadOfInbox
  <2> HIDE DEF rest
  <2>3. Count(Append(rest, Down(c)), Jobs) = Count(rest, Jobs)
    <3>1. Count(Append(rest, Down(c)), Jobs) = Count(rest, Jobs) + 0 BY <2>1, <2>2, CountAppend DEF One
    <3> QED BY <1>2, <3>1 DEF rest
  <2>4. Count(Append(rest, Down(c)), {Halt}) = Count(rest, {Halt})
    <3>1. Count(Append(rest, Down(c)), {Halt}) = Count(rest, {Halt}) + 0
      BY <2>1, <2>2, CountAppend DEF One
    <3> QED BY <1>2, <3>1 DEF rest
  <2>5. Count(Without(rest, Down(c)), Jobs) = Count(rest, Jobs) BY <2>1, <2>2, WithoutCount
  <2>6. Count(Without(rest, Down(c)), {Halt}) = Count(rest, {Halt}) BY <2>1, <2>2, WithoutCount
  <2> QED BY <2>3, <2>4, <2>5, <2>6
<1> HIDE DEF rest
<1>4. CASE Employed(w)
  <2> DEFINE c == First(w).who
  <2>1. /\ First(w).kind = "employed" /\ from[w] = NoOne
        /\ UNCHANGED <<workers, mailbox, linked, deaf>>
    BY <1>4 DEF Employed, Has, poolVars
  <2>2. c \in Requests BY <1>1, <2>1, MessageTypes
  <2>3. inbox'[w] = rest \/ inbox'[w] = Append(rest, Down(c))
    BY <1>4 DEF Employed, TypeOK, rest, Down
  <2>4. Count(inbox'[w], Jobs) = Count(rest, Jobs) /\ Count(inbox'[w], {Halt}) = Count(rest, {Halt})
    <3>1. /\ Count(Append(rest, Down(c)), Jobs) = Count(rest, Jobs)
          /\ Count(Append(rest, Down(c)), {Halt}) = Count(rest, {Halt})
      BY <1>3, <2>2
    <3> QED BY <2>3, <3>1, Zenon
  <2>5. /\ Count(inbox[w], Jobs) = Count(inbox'[w], Jobs) + 1
        /\ Count(inbox[w], {Halt}) = Count(inbox'[w], {Halt})
    BY <1>2, <2>1, <2>4 DEF One
  <2>6. \/ from'[w] = c /\ dropped' = dropped
        \/ from'[w] = NoOne /\ dropped' = dropped \cup {w}
    BY <1>4, <2>1 DEF Employed, TypeOK
  <2>7. c # NoOne BY <1>0, <2>2
  <2> HIDE DEF c
  <2> QED BY <1>0, <1>2, <2>1, <2>4, <2>5, <2>6, <2>7 DEF InCustody, Places, One
<1>5. CASE Respond(w)
  <2> DEFINE m == [kind |-> "worker_free", who |-> w, timed |-> TRUE]
  <2>1. /\ First(w).kind = "response" /\ from[w] # NoOne
        /\ UNCHANGED <<workers, linked, deaf, dropped>> /\ mailbox' = ToPool(w, m)
    BY <1>5 DEF Respond, Has, restVars
  <2>2. from[w] \in Requests BY <2>1 DEF TypeOK
  <2>3. inbox'[w] = Without(rest, Down(from[w])) /\ from'[w] = NoOne
    BY <1>5 DEF Respond, TypeOK, rest, Down
  <2>4. /\ Count(inbox'[w], Jobs) = Count(inbox[w], Jobs)
        /\ Count(inbox'[w], {Halt}) = Count(inbox[w], {Halt})
    BY <1>2, <1>3, <2>1, <2>2, <2>3 DEF One
  <2>5. w \in linked => Count(mailbox', Freed(w)) = Count(mailbox, Freed(w)) + 1
    <3>1. m \in PoolMessages BY MessageTypes
    <3>2. Count(Append(mailbox, m), Freed(w)) = Count(mailbox, Freed(w)) + 1
      BY <3>1, Mailed DEF One
    <3> QED BY <2>1, <3>2 DEF ToPool
  <2> HIDE DEF m
  <2> QED BY <1>0, <2>1, <2>3, <2>4, <2>5 DEF InCustody, Places, One
<1>6. CASE GiveUp(w)
  <2> DEFINE m == [kind |-> "worker_free", who |-> w, timed |-> FALSE]
  <2>1. /\ First(w).kind = "down" /\ from[w] = First(w).who
        /\ UNCHANGED <<workers, linked, deaf, dropped>> /\ mailbox' = ToPool(w, m)
    BY <1>6 DEF GiveUp, Has, restVars
  <2>2. from[w] # NoOne BY <1>0, <1>1, <2>1, MessageTypes
  <2>3. inbox'[w] = rest /\ from'[w] = NoOne BY <1>6 DEF GiveUp, Received, TypeOK, rest
  <2>4. /\ Count(inbox'[w], Jobs) = Count(inbox[w], Jobs)
        /\ Count(inbox'[w], {Halt}) = Count(inbox[w], {Halt})
    BY <1>2, <2>1, <2>3 DEF One
  <2>5. w \in linked => Count(mailbox', Freed(w)) = Count(mailbox, Freed(w)) + 1
    <3>1. m \in PoolMessages BY MessageTypes
    <3>2. Count(Append(mailbox, m), Freed(w)) = Count(mailbox, Freed(w)) + 1
      BY <3>1, Mailed DEF One
    <3> QED BY <2>1, <3>2 DEF ToPool
  <2> HIDE DEF m
  <2> QED BY <1>0, <2>1, <2>2, <2>3, <2>4, <2>5 DEF InCustody, Places, One
<1>7. CASE Unhandled(w)
  <2>1. First(w).kind \in {"response", "down"} /\ inbox'[w] = rest
        /\ UNCHANGED <<workers, mailbox, linked, deaf, from, dropped>>
    BY <1>7 DEF Unhandled, Has, Received, TypeOK, poolVars, restVars, rest
  <2>2. /\ Count(inbox'[w], Jobs) = Count(inbox[w], Jobs)
        /\ Count(inbox'[w], {Halt}) = Count(inbox[w], {Halt})
    BY <1>2, <2>1 DEF One
  <2> QED BY <2>1, <2>2, Stays
<1>8. CASE Stop(w)
  <2>1. ~Dies(w) BY DEF Dies
  <2>2. First(w).kind = "stop" /\ inbox'[w] = rest /\ deaf' = deaf \cup {w}
        /\ UNCHANGED <<workers, mailbox, linked, from, dropped>>
    BY <1>8, <2>1 DEF Stop, Has, Received, TypeOK, poolVars, restVars, rest
  <2>3. Count(inbox[w], Jobs) = Count(inbox'[w], Jobs) + 1 /\ Count(inbox'[w], Jobs) \in Nat
    BY <1>2, <2>2 DEF One
  <2> QED BY <1>0, <2>2, <2>3 DEF InCustody, Places, One
<1> QED BY <1>4, <1>5, <1>6, <1>7, <1>8 DEF WorkerStep


LEMMA BrokerCustody ==
  ASSUME TypeOK, NEW w \in alive, InCustody(w), NEW v \in Pids, NEW c \in Requests,
         Answer(v, c) \/ ResponderEnds(v, c)
  PROVE  InCustody(w)'
<1>0. w \in Pids BY OwnFinite
<1>1. CASE Answer(v, c)
  <2> DEFINE m == [kind |-> "response", who |-> c]
  <2>1. m \in WorkerMessages /\ m \notin Jobs /\ m \notin {Halt} BY MessageTypes, Kinds
  <2>2. inbox'[w] = inbox[w] \/ inbox'[w] = Append(inbox[w], m)
    BY <1>0, <1>1 DEF Answer, TypeOK
  <2> HIDE DEF m
  <2>3. /\ Count(Append(inbox[w], m), Jobs) = Count(inbox[w], Jobs) + 0
        /\ Count(Append(inbox[w], m), {Halt}) = Count(inbox[w], {Halt}) + 0
    BY <1>0, <2>1, Told DEF One
  <2>4. Count(inbox[w], Jobs) \in Nat /\ Count(inbox[w], {Halt}) \in Nat BY <1>0, Numbers
  <2>5. /\ Count(Append(inbox[w], m), Jobs) = Count(inbox[w], Jobs)
        /\ Count(Append(inbox[w], m), {Halt}) = Count(inbox[w], {Halt})
    BY <2>3, <2>4
  <2>6. /\ Count(inbox'[w], Jobs) = Count(inbox[w], Jobs)
        /\ Count(inbox'[w], {Halt}) = Count(inbox[w], {Halt})
    BY <2>2, <2>5, Zenon
  <2> QED BY <1>1, <2>6, Stays DEF Answer, poolVars
<1>2. CASE ResponderEnds(v, c) BY <1>2, Stays DEF ResponderEnds, poolVars, restVars
<1> QED BY <1>1, <1>2

\* A worker just started is nowhere but where its start puts it.
LEMMA NewIsNowhere ==
  ASSUME TypeOK, Known, NEW w \in Pids, w > started
  PROVE  /\ Count(workers, {w}) = 0 /\ Count(mailbox, Freed(w)) = 0
         /\ Count(inbox[w], Jobs) = 0 /\ from[w] = NoOne /\ w \notin deaf /\ w \notin dropped
         /\ w \notin alive /\ w \notin linked /\ inbox[w] = <<>>
<1>1. started \in Nat /\ \A i \in 1..started : i # w BY DEF TypeOK
<1>2. w \notin alive /\ w \notin linked /\ w \notin dropped /\ w \notin deaf
  BY <1>1 DEF TypeOK, Known
<1>3. from[w] = NoOne /\ inbox[w] = <<>> BY <1>2 DEF Known, Quiet
<1>4. Count(inbox[w], Jobs) = 0
  <2>1. inbox[w] \in Seq(WorkerMessages) BY DEF TypeOK
  <2>2. ToSet(inbox[w]) = {} BY <1>3 DEF ToSet
  <2> QED BY <2>1, <2>2, ToSetCount
<1>5. Count(workers, {w}) = 0
  <2>1. workers \in Seq(Pids) BY DEF TypeOK
  <2>2. \A e \in ToSet(workers) : e \notin {w} BY <1>2 DEF Known
  <2> QED BY <2>1, <2>2, ToSetCount
<1>6. Count(mailbox, Freed(w)) = 0
  <2>1. mailbox \in Seq(PoolMessages) BY DEF TypeOK
  <2>2. ASSUME NEW m \in ToSet(mailbox) PROVE m \notin Freed(w)
    <3>1. m \in PoolMessages BY <2>1, ToSetCount
    <3>2. m.kind = "worker_free" => m.who # w BY <1>2 DEF Known, Speaks
    <3> QED BY <3>1, <3>2, Kinds
  <2> QED BY <2>1, <2>2, ToSetCount
<1> QED BY <1>2, <1>3, <1>4, <1>5, <1>6

\* The message the pool takes from its mailbox, when it is no worker_free.
LEMMA OtherMail ==
  ASSUME TypeOK, mailbox # <<>>, NEW w, Head(mailbox).kind # "worker_free"
  PROVE  Count(Tail(mailbox), Freed(w)) = Count(mailbox, Freed(w))
<1>1. /\ Count(mailbox, Freed(w)) = Count(Tail(mailbox), Freed(w)) + 0
      /\ Count(Tail(mailbox), Freed(w)) \in Nat
  BY MailTaken DEF One
<1> QED BY <1>1

LEMMA HandOverCustody ==
  ASSUME TypeOK, NEW w \in alive, InCustody(w), HandOver
  PROVE  InCustody(w)'
<1>0. w \in Pids BY OwnFinite
<1> DEFINE h == Head(workers)
           m == [kind |-> "employed", who |-> Head(mailbox).who]
<1>1. mailbox # <<>> /\ Head(mailbox).kind = "request" /\ workers # <<>> BY DEF HandOver, Gets
<1>2. h \in Pids /\ workers \in Seq(Pids) /\ Tail(workers) \in Seq(Pids)
  BY <1>1, HeadTailProperties DEF TypeOK
<1>3. Head(mailbox).who \in Requests BY <1>1, HeadOfMailbox, MessageTypes
<1>4. m \in WorkerMessages /\ m \in Jobs /\ m \notin {Halt} BY <1>3, MessageTypes, Kinds
<1>5. /\ inbox'[w] = IF w = h THEN Append(inbox[w], m) ELSE inbox[w]
      /\ workers' = Tail(workers) /\ mailbox' = Tail(mailbox)
      /\ UNCHANGED <<linked, from, deaf, dropped>>
  BY <1>0, <1>2 DEF HandOver, Cast, TypeOK, restVars
<1> HIDE DEF m
<1>6. Count(mailbox', Freed(w)) = Count(mailbox, Freed(w))
  BY <1>1, <1>5, OtherMail
<1>7. /\ Count(workers, {w}) = Count(Tail(workers), {w}) + One(h \in {w})
      /\ Count(Tail(workers), {w}) \in Nat
  BY <1>1, <1>2, CountTail, CountIsNat
<1> HIDE DEF h
<1>8. CASE w = h
  <2>1. /\ Count(Append(inbox[w], m), Jobs) = Count(inbox[w], Jobs) + 1
        /\ Count(Append(inbox[w], m), {Halt}) = Count(inbox[w], {Halt}) + 0
    BY <1>0, <1>4, Told DEF One
  <2>2. inbox'[w] = Append(inbox[w], m) BY <1>5, <1>8
  <2>3. Count(inbox'[w], Jobs) = Count(Append(inbox[w], m), Jobs)
        /\ Count(inbox'[w], {Halt}) = Count(Append(inbox[w], m), {Halt})
    BY <2>2, Zenon
  <2>4. Count(workers, {w}) = Count(workers', {w}) + 1 BY <1>5, <1>7, <1>8 DEF One
  <2>5. Count(workers', {w}) \in Nat BY <1>5, <1>7
  <2>6. /\ Count(workers, {w}) \in Nat /\ Count(mailbox, Freed(w)) \in Nat
        /\ Count(inbox[w], Jobs) \in Nat /\ Count(inbox[w], {Halt}) \in Nat
    BY <1>0, Numbers
  <2>7. /\ Count(inbox'[w], Jobs) = Count(inbox[w], Jobs) + 1
        /\ Count(inbox'[w], {Halt}) = Count(inbox[w], {Halt})
    BY <2>1, <2>3, <2>6
  <2>8. UNCHANGED <<linked, from, deaf, dropped>> BY <1>5
  <2>9. Places(w)' = Places(w) BY <1>6, <2>4, <2>5, <2>6, <2>7, <2>8 DEF Places, One
  <2> QED BY <2>7, <2>8, <2>9 DEF InCustody
<1>9. CASE w # h
  <2>1. Count(workers', {w}) = Count(workers, {w})
    <3>1. Count(workers, {w}) = Count(Tail(workers), {w}) + 0 BY <1>7, <1>9 DEF One
    <3> QED BY <1>5, <1>7, <3>1
  <2>2. inbox'[w] = inbox[w] BY <1>5, <1>9
  <2> QED BY <1>5, <1>6, <2>1, <2>2, Stays
<1> QED BY <1>8, <1>9

LEMMA HireForCustody ==
  ASSUME TypeOK, Known, NEW w \in alive', w \in alive => InCustody(w), HireFor
  PROVE  InCustody(w)'
<1> DEFINE m == [kind |-> "employed", who |-> Head(mailbox).who]
<1>1. mailbox # <<>> /\ Head(mailbox).kind = "request" /\ StartWorker /\ mailbox' = Tail(mailbox)
      /\ UNCHANGED <<workers, from, deaf, dropped>>
  BY DEF HireFor, Gets, restVars
<1>2. /\ started' = started + 1 /\ started' \in Pids /\ alive' = alive \cup {started'}
      /\ linked' = linked \cup {started'} /\ started' \notin alive
  BY <1>1, HireTypes
<1>3. w \in Pids BY <1>2, OwnFinite
<1>4. Head(mailbox).who \in Requests BY <1>1, HeadOfMailbox, MessageTypes
<1>5. m \in WorkerMessages /\ m \in Jobs BY <1>4, MessageTypes, Kinds
<1>6. inbox'[w] = IF w = started' THEN Append(inbox[w], m) ELSE inbox[w]
  BY <1>2, <1>3 DEF HireFor, Cast, TypeOK
<1> HIDE DEF m
<1>7. Count(mailbox', Freed(w)) = Count(mailbox, Freed(w)) BY <1>1, OtherMail
<1>8. CASE w = started'
  <2>1. w > started BY <1>2, <1>8 DEF TypeOK
  <2>2. /\ Count(workers, {w}) = 0 /\ Count(mailbox, Freed(w)) = 0
        /\ Count(inbox[w], Jobs) = 0 /\ from[w] = NoOne /\ w \notin deaf /\ w \notin dropped
    BY <1>3, <2>1, NewIsNowhere
  <2>3. Count(Append(inbox[w], m), Jobs) = Count(inbox[w], Jobs) + 1
    BY <1>3, <1>5, Told DEF One
  <2>4. inbox'[w] = Append(inbox[w], m) BY <1>6, <1>8
  <2>5. Count(inbox'[w], Jobs) = Count(Append(inbox[w], m), Jobs) BY <2>4, Zenon
  <2>6. Count(workers', {w}) = 0 /\ Count(mailbox', Freed(w)) = 0 /\ Count(inbox'[w], Jobs) = 1
    BY <1>1, <1>7, <2>2, <2>3, <2>5
  <2>7. w \in linked' /\ from'[w] = NoOne /\ w \notin deaf' /\ w \notin dropped'
    BY <1>1, <1>2, <1>8, <2>2
  <2> QED BY <2>6, <2>7 DEF InCustody, Places, One
<1>9. CASE w # started'
  <2>1. w \in alive /\ inbox'[w] = inbox[w] BY <1>2, <1>6, <1>9
  <2>2. w \in linked' <=> w \in linked BY <1>2, <1>9
  <2> QED BY <1>1, <1>7, <2>1, <2>2, Stays
<1> QED BY <1>8, <1>9

LEMMA PoolCrashCustody ==
  ASSUME TypeOK, Known, NEW w \in alive', w \in alive => InCustody(w), PoolCrash
  PROVE  InCustody(w)'
<1>1. /\ started' = started + OWC /\ linked' = (started + 1)..started'
      /\ alive' = alive \cup linked' /\ UNCHANGED <<from, deaf, dropped>>
      /\ workers' = [i \in 1..OWC |-> started + i] /\ mailbox' = <<>>
      /\ inbox' = [v \in Pids |-> IF v \in alive THEN Append(inbox[v], [kind |-> "stop"])
                                                  ELSE inbox[v]]
      /\ started + OWC <= MaxWorkers
  BY DEF PoolCrash, restVars
<1>2. started \in Nat /\ OWC \in Nat /\ MaxWorkers \in Nat /\ alive \subseteq 1..started
      /\ alive \subseteq Pids
  BY Bounds, OwnFinite DEF TypeOK
<1>3. CASE w \in alive
  <2>1. w \in Pids /\ w \notin linked' /\ inbox'[w] = Append(inbox[w], Halt)
    BY <1>1, <1>2, <1>3 DEF Halt
  <2>2. Count(Append(inbox[w], Halt), {Halt}) = Count(inbox[w], {Halt}) + 1
    <3>1. Halt \in WorkerMessages BY MessageTypes DEF Halt
    <3> QED BY <2>1, <3>1, Told DEF One
  <2>3. Count(inbox[w], {Halt}) \in Nat BY <2>1, Numbers
  <2>4. Count(inbox'[w], {Halt}) # 0 BY <2>1, <2>2, <2>3
  <2> QED BY <2>1, <2>4 DEF InCustody
<1>4. CASE w \notin alive
  <2>1. w \in linked' /\ w \in Pids /\ w > started BY <1>1, <1>2, <1>4 DEF Pids
  <2>2. Count(inbox[w], Jobs) = 0 /\ from[w] = NoOne /\ w \notin deaf /\ w \notin dropped
    BY <2>1, NewIsNowhere
  <2>3. inbox'[w] = inbox[w] BY <1>1, <1>4, <2>1
  <2>4. Count(mailbox', Freed(w)) = 0
    <3>1. {i \in DOMAIN <<>> : <<>>[i] \in Freed(w)} = {} OBVIOUS
    <3>2. Count(<<>>, Freed(w)) = 0 BY <3>1, FS_EmptySet DEF Count
    <3> QED BY <1>1, <3>2
  <2>5. Count(workers', {w}) = 1
    <3>1. {i \in DOMAIN workers' : workers'[i] \in {w}} = {w - started}
      <4>1. DOMAIN workers' = 1..OWC /\ \A i \in 1..OWC : workers'[i] = started + i BY <1>1
      <4>2. w - started \in 1..OWC /\ started + (w - started) = w BY <1>1, <1>2, <2>1
      <4>3. \A i \in 1..OWC : started + i = w => i = w - started BY <1>2, <2>1 DEF Pids
      <4> QED BY <4>1, <4>2, <4>3
    <3>2. Cardinality({i \in DOMAIN workers' : workers'[i] \in {w}}) = Cardinality({w - started})
      BY <3>1, Zenon
    <3> QED BY <3>2, FS_Singleton DEF Count
  <2>6. Count(inbox'[w], Jobs) = 0 /\ from'[w] = NoOne /\ w \notin deaf' /\ w \notin dropped'
    BY <1>1, <2>2, <2>3
  <2> QED BY <2>1, <2>4, <2>5, <2>6 DEF InCustody, Places, One
<1> QED BY <1>3, <1>4

LEMMA WorkerFreeCustody ==
  ASSUME TypeOK, NEW w \in alive, InCustody(w), WorkerFree
  PROVE  InCustody(w)'
<1>0. w \in Pids BY OwnFinite
<1> DEFINE v == Head(mailbox).who
<1>1. mailbox # <<>> /\ Head(mailbox).kind = "worker_free"
      /\ workers' = Append(workers, v) /\ mailbox' = Tail(mailbox)
      /\ UNCHANGED <<linked, inbox, from, deaf, dropped>>
  BY DEF WorkerFree, Gets, workerVars, restVars
<1>2. v \in Pids /\ workers \in Seq(Pids) BY <1>1, HeadOfMailbox, MessageTypes DEF TypeOK
<1>3. /\ Count(mailbox, Freed(w)) = Count(mailbox', Freed(w)) + One(v = w)
      /\ Count(mailbox', Freed(w)) \in Nat
  <2>1. /\ Count(mailbox, Freed(w)) = Count(Tail(mailbox), Freed(w))
             + One(Head(mailbox).kind = "worker_free" /\ Head(mailbox).who = w)
        /\ Count(Tail(mailbox), Freed(w)) \in Nat
    BY <1>1, MailTaken
  <2> QED BY <1>1, <2>1 DEF One
<1>4. Count(workers', {w}) = Count(workers, {w}) + One(v = w)
  <2>1. Count(Append(workers, v), {w}) = Count(workers, {w}) + One(v \in {w})
    BY <1>2, CountAppend
  <2> QED BY <1>1, <2>1 DEF One
<1> HIDE DEF v
<1>5. Count(workers, {w}) \in Nat /\ Count(inbox[w], Jobs) \in Nat BY <1>0, Numbers
<1>6. Places(w)' = Places(w) BY <1>1, <1>3, <1>4, <1>5 DEF Places, One
<1> QED BY <1>1, <1>6 DEF InCustody

LEMMA WorkerExitCustody ==
  ASSUME TypeOK, Known, NEW w \in alive', w \in alive => InCustody(w), WorkerExit
  PROVE  InCustody(w)'
<1> DEFINE d == Head(mailbox).who
           rest == Without(workers, d)
<1>1. mailbox # <<>> /\ Head(mailbox).kind = "exit" /\ mailbox' = Tail(mailbox)
      /\ UNCHANGED <<inbox, from, deaf, dropped>>
  BY DEF WorkerExit, Gets, restVars
<1>2. d \notin alive BY <1>1, MailTail DEF Known, Speaks
<1>3. rest \in Seq(Pids) /\ workers \in Seq(Pids) BY WithoutProperties DEF TypeOK
<1>4. d # w => Count(rest, {w}) = Count(workers, {w}) BY <1>3, WithoutCount
<1>5. \/ StartWorker /\ workers' = Append(rest, started')
      \/ workers' = rest /\ UNCHANGED <<linked, started, alive>>
  BY DEF WorkerExit
<1> HIDE DEF rest, d
<1>6. Count(mailbox', Freed(w)) = Count(mailbox, Freed(w)) BY <1>1, OtherMail
<1>7. CASE workers' = rest /\ UNCHANGED <<linked, started, alive>>
  <2>1. Count(workers', {w}) = Count(workers, {w}) BY <1>2, <1>4, <1>7
  <2> QED BY <1>1, <1>6, <1>7, <2>1, Stays
<1>8. CASE StartWorker /\ workers' = Append(rest, started')
  <2>1. /\ started' = started + 1 /\ started' \in Pids /\ alive' = alive \cup {started'}
        /\ linked' = linked \cup {started'} /\ started' \notin alive
    BY <1>8, HireTypes
  <2>2. w \in Pids BY <2>1, OwnFinite
  <2>3. Count(workers', {w}) = Count(rest, {w}) + One(started' \in {w})
    BY <1>3, <1>8, <2>1, CountAppend
  <2>4. Count(workers, {w}) \in Nat /\ Count(rest, {w}) \in Nat BY <1>3, CountIsNat
  <2>5. CASE w = started'
    <3>1. w > started BY <2>1, <2>5 DEF TypeOK
    <3>2. /\ Count(workers, {w}) = 0 /\ Count(mailbox, Freed(w)) = 0
          /\ Count(inbox[w], Jobs) = 0 /\ from[w] = NoOne /\ w \notin deaf /\ w \notin dropped
          /\ w \notin linked
      BY <2>2, <3>1, NewIsNowhere
    <3>3. d # w
      <4>1. d \in linked BY <1>1, MailTail DEF Known, Speaks, d
      <4> QED BY <3>2, <4>1
    <3>4. Count(workers', {w}) = 1 BY <1>4, <2>3, <2>5, <3>2, <3>3 DEF One
    <3>5. w \in linked' /\ Count(mailbox', Freed(w)) = 0 /\ Count(inbox'[w], Jobs) = 0
          /\ from'[w] = NoOne /\ w \notin deaf' /\ w \notin dropped'
      BY <1>1, <1>6, <2>1, <2>5, <3>2
    <3> QED BY <3>4, <3>5 DEF InCustody, Places, One
  <2>6. CASE w # started'
    <3>1. w \in alive /\ (w \in linked' <=> w \in linked) /\ d # w BY <1>2, <2>1, <2>6
    <3>2. Count(workers', {w}) = Count(workers, {w})
      <4>1. Count(workers', {w}) = Count(rest, {w}) + 0 BY <2>3, <2>6 DEF One
      <4>2. Count(rest, {w}) = Count(workers, {w}) BY <1>4, <3>1
      <4> QED BY <2>4, <4>1, <4>2
    <3> QED BY <1>1, <1>6, <3>1, <3>2, Stays
  <2> QED BY <2>5, <2>6
<1> QED BY <1>5, <1>7, <1>8

\* The workers given up are in the queue, once, and are told to stop.
LEMMA ReduceCustody ==
  ASSUME TypeOK, NEW w \in alive, InCustody(w), ReduceLaborForce
  PROVE  InCustody(w)'
<1>0. w \in Pids BY OwnFinite
<1>1. UNCHANGED <<mailbox, linked, from, deaf, dropped>> BY DEF ReduceLaborForce, restVars
<1>2. CASE UNCHANGED <<inbox, workers, worker_count>> BY <1>1, <1>2, Stays
<1>3. ASSUME NEW reduce \in Int, reduce > 0, ReduceWorkers(reduce) PROVE InCustody(w)'
  <2>1. PICK n \in 0..Len(workers) :
          /\ workers' = SubSeq(workers, n + 1, Len(workers))
          /\ inbox' = [v \in Pids |-> IF v \in {workers[i] : i \in 1..n} \cap alive
                                      THEN Append(inbox[v], [kind |-> "stop"])
                                      ELSE inbox[v]]
    BY <1>3, ReduceTypes
  <2>2. workers \in Seq(Pids) /\ workers' \in Seq(Pids) BY <2>1, SuffixOf DEF TypeOK
  <2> DEFINE A == {i \in 1..n : workers[i] \in {w}}
  <2>3. Count(workers, {w}) = Cardinality(A) + Count(workers', {w}) BY <2>1, <2>2, CountBack
  <2>4. Cardinality(A) \in Nat /\ (A = {} <=> Cardinality(A) = 0)
    <3>1. A \in SUBSET (1..n) /\ 1 \in Int /\ n \in Int OBVIOUS
    <3> HIDE DEF A
    <3>2. IsFiniteSet(A) /\ Cardinality(A) \in Nat BY <3>1, Finite
    <3> QED BY <3>2, FS_EmptySet
  <2>5. /\ Count(workers, {w}) \in Nat /\ Count(workers', {w}) \in Nat
        /\ Count(inbox[w], Jobs) \in Nat /\ Count(inbox[w], {Halt}) \in Nat
        /\ Count(mailbox, Freed(w)) \in Nat
    BY <1>0, <2>2, Numbers, CountIsNat
  <2>6. CASE A = {}
    <3>1. w \notin {workers[i] : i \in 1..n} BY <2>6
    <3>2. inbox'[w] = inbox[w] BY <1>0, <2>1, <3>1
    <3> HIDE DEF A
    <3>3. Count(workers', {w}) = Count(workers, {w}) BY <2>3, <2>4, <2>5, <2>6
    <3> QED BY <1>1, <3>2, <3>3, Stays
  <2>7. CASE A # {}
    <3>1. w \in {workers[i] : i \in 1..n} BY <2>7
    <3>2. inbox'[w] = Append(inbox[w], Halt) BY <1>0, <2>1, <3>1 DEF Halt
    <3>3. /\ Count(Append(inbox[w], Halt), Jobs) = Count(inbox[w], Jobs) + 1
          /\ Count(Append(inbox[w], Halt), {Halt}) = Count(inbox[w], {Halt}) + 1
      <4>1. Halt \in WorkerMessages /\ Halt \in Jobs BY MessageTypes, Kinds DEF Halt
      <4> QED BY <1>0, <4>1, Told DEF One
    <3>4. /\ Count(inbox'[w], Jobs) = Count(inbox[w], Jobs) + 1
          /\ Count(inbox'[w], {Halt}) = Count(inbox[w], {Halt}) + 1
      BY <3>2, <3>3
    <3> HIDE DEF A
    <3>5. CASE w \notin linked
      <4>1. Count(inbox'[w], {Halt}) # 0 BY <2>5, <3>4
      <4> QED BY <1>1, <3>5, <4>1 DEF InCustody
    <3>6. CASE w \in linked
      <4>1. Places(w) = 1 BY <3>6 DEF InCustody
      <4>2. Cardinality(A) = 1 /\ Count(workers', {w}) = 0 /\ Count(workers, {w}) = 1
        <5>1. Count(workers, {w}) <= 1 BY <2>5, <4>1 DEF Places, One
        <5>2. Cardinality(A) \in Nat /\ Cardinality(A) # 0 BY <2>4, <2>7
        <5> QED BY <2>3, <2>5, <5>1, <5>2
      <4>3. Places(w)' = 1 BY <1>1, <2>5, <3>4, <4>1, <4>2 DEF Places, One
      <4> QED BY <1>1, <3>6, <4>3 DEF InCustody
    <3> QED BY <3>5, <3>6
  <2> QED BY <2>6, <2>7
<1> QED BY <1>2, <1>3, ReducedOrNot

LEMMA CustodyStep ==
  ASSUME TypeOK, Known, Custody, TypeOK', [Next]_vars
  PROVE  Custody'
<1>1. \A w \in alive : InCustody(w) BY CustodyAll
<1>2. (Custody <=> \A w \in alive : InCustody(w))' BY CustodyAll, PTL
<1>3. SUFFICES ASSUME NEW w \in alive' PROVE InCustody(w)' BY <1>2
<1>4. w \in alive => InCustody(w) BY <1>1
<1>5. ASSUME NEW c \in Requests, Ask(c) \/ TimesOut(c) \/ Ends(c) PROVE InCustody(w)'
  <2>1. w \in alive BY <1>5 DEF Ask, TimesOut, Ends, poolVars, workerVars
  <2> QED BY <1>4, <1>5, <2>1, CallerCustody
<1>6. ASSUME NEW v \in Pids, WorkerStep(v) \/ Crash(v) PROVE InCustody(w)'
  <2>1. alive' \subseteq alive
    BY <1>6 DEF WorkerStep, Crash, Employed, Respond, GiveUp, Unhandled, Stop, Dies
  <2>2. w \in alive BY <2>1
  <2>3. CASE w # v BY <1>4, <1>6, <2>2, <2>3, OthersStay
  <2>4. CASE w = v
    <3>1. ~Dies(v) BY <2>4 DEF Dies
    <3>2. WorkerStep(v) BY <1>6, <3>1 DEF Crash
    <3> QED BY <1>4, <2>2, <2>4, <3>2, WorkerCustody
  <2> QED BY <2>3, <2>4
<1>7. ASSUME NEW v \in Pids, NEW c \in Requests, Answer(v, c) \/ ResponderEnds(v, c)
      PROVE  InCustody(w)'
  <2>1. w \in alive BY <1>7 DEF Answer, ResponderEnds
  <2> QED BY <1>4, <1>7, <2>1, BrokerCustody
<1>8. CASE HandOver
  <2>1. w \in alive BY <1>8 DEF HandOver
  <2> QED BY <1>4, <1>8, <2>1, HandOverCustody
<1>9. CASE HireFor BY <1>4, <1>9, HireForCustody
<1>10. CASE PoolCrash BY <1>4, <1>10, PoolCrashCustody
<1>11. CASE WorkerFree
  <2>1. w \in alive BY <1>11 DEF WorkerFree, workerVars
  <2> QED BY <1>4, <1>11, <2>1, WorkerFreeCustody
<1>12. CASE WorkerExit BY <1>4, <1>12, WorkerExitCustody
<1>13. CASE ReduceLaborForce
  <2>1. w \in alive BY <1>13 DEF ReduceLaborForce
  <2> QED BY <1>4, <1>13, <2>1, ReduceCustody
<1>14. CASE UNCHANGED vars
  <2>1. UNCHANGED <<workers, mailbox, linked, alive, inbox, from, deaf, dropped>>
    BY <1>14 DEF vars, poolVars, workerVars, restVars
  <2>2. w \in alive BY <2>1
  <2> QED BY <1>4, <2>1, <2>2, Stays
<1> QED BY <1>5, <1>6, <1>7, <1>8, <1>9, <1>10, <1>11, <1>12, <1>13, <1>14 DEF Next, PoolStep

LEMMA InitCustody == Init => Custody
<1> SUFFICES ASSUME Init PROVE Custody OBVIOUS
<1>1. /\ workers = [i \in 1..OWC |-> i] /\ mailbox = <<>> /\ linked = 1..OWC /\ alive = 1..OWC
      /\ inbox = [w \in Pids |-> <<>>] /\ from = [w \in Pids |-> NoOne]
      /\ deaf = {} /\ dropped = {}
  BY DEF Init
<1>2. alive \subseteq Pids BY InitTypes, OwnFinite
<1>3. ASSUME NEW set PROVE Count(<<>>, set) = 0
  <2>1. {i \in DOMAIN <<>> : <<>>[i] \in set} = {} OBVIOUS
  <2> QED BY <2>1, FS_EmptySet DEF Count
<1>4. ASSUME NEW w \in alive PROVE w \in linked /\ Places(w) = 1
  <2>1. {i \in DOMAIN workers : workers[i] \in {w}} = {w} BY <1>1
  <2>2. Cardinality({i \in DOMAIN workers : workers[i] \in {w}}) = Cardinality({w})
    BY <2>1, Zenon
  <2>3. Count(workers, {w}) = 1 BY <2>2, FS_Singleton DEF Count
  <2>4. inbox[w] = <<>> /\ from[w] = NoOne BY <1>1, <1>2
  <2>5. Count(mailbox, Freed(w)) = 0 /\ Count(inbox[w], Jobs) = 0 BY <1>1, <1>3, <2>4
  <2> QED BY <1>1, <2>3, <2>4, <2>5 DEF Places, One
<1> QED BY <1>4 DEF Custody

\* A live worker is in one place: free, on its way back, employed, busy, or told
\* to stop (ecallmgr_amqp_pool.erl and ecallmgr_amqp_pool_worker.erl).
THEOREM LiveAreInCustody == Spec => []Custody
<1> QED BY InitCustody, CustodyStep, InitKnown, NextKnown, InitTypes, NextTypes, PTL DEF Spec

-----------------------------------------------------------------------------
(* The lending that is promised.  What the abstract specification speaks   *)
(* of is counted: a request in the mailbox, a job in a worker's.           *)

Request(c) == [kind |-> "request", who |-> c]
Job(c) == [kind |-> "employed", who |-> c]

\* A request is made once, and is in the mailbox at most once.
AsksOnce ==
  \A c \in Requests : /\ Count(mailbox, {Request(c)}) <= 1
                      /\ cstate[c] = "new" => Count(mailbox, {Request(c)}) = 0

\* What is counted in a mailbox, of all that the specification counts there.
LEMMA PostIn ==
  ASSUME TypeOK, NEW m \in PoolMessages, NEW set
  PROVE  /\ Count(Append(mailbox, m), set) = Count(mailbox, set) + One(m \in set)
         /\ Count(mailbox, set) \in Nat
<1>1. mailbox \in Seq(PoolMessages) BY DEF TypeOK
<1> QED BY <1>1, CountAppend, CountIsNat

LEMMA PostOut ==
  ASSUME TypeOK, mailbox # <<>>, NEW set
  PROVE  /\ Count(mailbox, set) = Count(Tail(mailbox), set) + One(Head(mailbox) \in set)
         /\ Count(Tail(mailbox), set) \in Nat
<1>1. mailbox \in Seq(PoolMessages) BY DEF TypeOK
<1>2. Tail(mailbox) \in Seq(PoolMessages) BY HeadOfMailbox
<1> QED BY <1>1, <1>2, CountTail, CountIsNat

LEMMA JobIn ==
  ASSUME TypeOK, NEW w \in Pids, NEW set
  PROVE  Count(inbox[w], set) \in Nat
<1>1. inbox[w] \in Seq(WorkerMessages) BY DEF TypeOK
<1> QED BY <1>1, CountIsNat

LEMMA WaitingIs ==
  TypeOK => Waiting = {c \in Requests : Count(mailbox, {Request(c)}) # 0}
<1> SUFFICES ASSUME TypeOK PROVE Waiting = {c \in Requests : Count(mailbox, {Request(c)}) # 0}
  OBVIOUS
<1>1. mailbox \in Seq(PoolMessages) BY DEF TypeOK
<1>2. \A c : Count(mailbox, {Request(c)}) = 0 <=> Request(c) \notin ToSet(mailbox)
  BY <1>1, ToSetCount
<1> QED BY <1>2 DEF Waiting, Request

LEMMA ReturningIs ==
  TypeOK => Returning = {w \in Own : Count(mailbox, Freed(w)) # 0}
<1> SUFFICES ASSUME TypeOK PROVE Returning = {w \in Own : Count(mailbox, Freed(w)) # 0}
  OBVIOUS
<1>1. mailbox \in Seq(PoolMessages) BY DEF TypeOK
<1>2. ToSet(mailbox) \subseteq PoolMessages BY <1>1, ToSetCount
<1>3. \A w : Count(mailbox, Freed(w)) = 0 <=> \A m \in ToSet(mailbox) : m \notin Freed(w)
  BY <1>1, ToSetCount
<1>4. \A m \in ToSet(mailbox) : \A w : m \in Freed(w) <=> m.kind = "worker_free" /\ m.who = w
  BY <1>2, Kinds
<1> QED BY <1>3, <1>4 DEF Returning

ServedCounted ==
  \A w \in Pids :
    ServedBy(w) = {c \in Requests : from[w] = c \/ Count(inbox[w], {Job(c)}) # 0}

LEMMA ServedAre == TypeOK => ServedCounted
<1> SUFFICES ASSUME TypeOK, NEW w \in Pids
             PROVE  ServedBy(w) = {c \in Requests : from[w] = c \/ Count(inbox[w], {Job(c)}) # 0}
  BY DEF ServedCounted
<1>1. inbox[w] \in Seq(WorkerMessages) BY DEF TypeOK
<1>2. \A c : Count(inbox[w], {Job(c)}) = 0 <=> Job(c) \notin ToSet(inbox[w])
  BY <1>1, ToSetCount
<1> QED BY <1>2 DEF ServedBy, Job

\* No jobs at all, so none of a certain request.
LEMMA NoJobs ==
  ASSUME NEW S, NEW s \in Seq(S), Count(s, Jobs) = 0, NEW c \in Requests
  PROVE  Count(s, {Job(c)}) = 0
<1>1. \A i \in 1..Len(s) : s[i] \notin Jobs BY CountIsNat
<1>2. Job(c) \in Jobs BY Kinds DEF Job
<1>3. \A i \in 1..Len(s) : s[i] \notin {Job(c)} BY <1>1, <1>2
<1> QED BY <1>3, CountIsNat

-----------------------------------------------------------------------------
(* What steps leave as it is.                                              *)

LEMMA CountedNext ==
  ASSUME TypeOK'
  PROVE  /\ Waiting' = {c \in Requests : Count(mailbox', {Request(c)}) # 0}
         /\ Returning' = {w \in Own' : Count(mailbox', Freed(w)) # 0}
         /\ \A w \in Pids :
              ServedBy(w)' = {c \in Requests : from'[w] = c \/ Count(inbox'[w], {Job(c)}) # 0}
<1>1. (Waiting = {c \in Requests : Count(mailbox, {Request(c)}) # 0})' BY WaitingIs, PTL
<1>2. (Returning = {w \in Own : Count(mailbox, Freed(w)) # 0})' BY ReturningIs, PTL
<1>3. ServedCounted' BY ServedAre, PTL
<1> QED BY <1>1, <1>2, <1>3 DEF ServedCounted, Request, Job

\* Requests and returns, by what is counted in the mailbox.
LEMMA WaitingSame ==
  ASSUME TypeOK, TypeOK',
         \A c \in Requests : Count(mailbox', {Request(c)}) = Count(mailbox, {Request(c)})
  PROVE  UNCHANGED Waiting
<1>1. Waiting' = {c \in Requests : Count(mailbox', {Request(c)}) # 0} BY CountedNext
<1>2. Waiting = {c \in Requests : Count(mailbox, {Request(c)}) # 0} BY WaitingIs
<1> QED BY <1>1, <1>2

LEMMA ReturningSame ==
  ASSUME TypeOK, TypeOK', UNCHANGED Own,
         \A w \in Own : Count(mailbox', Freed(w)) = Count(mailbox, Freed(w))
  PROVE  UNCHANGED Returning
<1>1. Returning' = {w \in Own' : Count(mailbox', Freed(w)) # 0} BY CountedNext
<1>2. Returning = {w \in Own : Count(mailbox, Freed(w)) # 0} BY ReturningIs
<1> QED BY <1>1, <1>2

\* The requests of a worker, by what is counted in its mailbox.
LEMMA ServedSame ==
  ASSUME TypeOK, TypeOK', NEW w \in Pids, from'[w] = from[w],
         \A c \in Requests : Count(inbox'[w], {Job(c)}) = Count(inbox[w], {Job(c)})
  PROVE  ServedBy(w)' = ServedBy(w)
<1>1. ServedBy(w)' = {c \in Requests : from'[w] = c \/ Count(inbox'[w], {Job(c)}) # 0}
  BY CountedNext
<1>2. ServedBy(w) = {c \in Requests : from[w] = c \/ Count(inbox[w], {Job(c)}) # 0}
  BY ServedAre DEF ServedCounted
<1> QED BY <1>1, <1>2

LEMMA LentSame ==
  ASSUME UNCHANGED Own, \A w \in Own : ServedBy(w)' = ServedBy(w)
  PROVE  UNCHANGED Lent
BY DEF Lent

-----------------------------------------------------------------------------
(* A request is made once.                                                 *)

\* What a worker sends to the pool is no request, and speaks of itself.
LEMMA WorkerMail ==
  ASSUME TypeOK, NEW v \in Pids, WorkerStep(v) \/ Crash(v)
  PROVE  /\ \A c \in Requests : Count(mailbox', {Request(c)}) = Count(mailbox, {Request(c)})
         /\ \A w \in Pids \ {v} : Count(mailbox', Freed(w)) = Count(mailbox, Freed(w))
<1> DEFINE e == [kind |-> "exit", who |-> v]
           f(b) == [kind |-> "worker_free", who |-> v, timed |-> b]
<1>1. PICK m \in PoolMessages : /\ mailbox' = mailbox \/ mailbox' = Append(mailbox, m)
                                /\ m.who = v /\ m.kind # "request"
  <2>1. e \in PoolMessages /\ f(TRUE) \in PoolMessages /\ f(FALSE) \in PoolMessages
    BY MessageTypes
  <2>2. /\ e.who = v /\ f(TRUE).who = v /\ f(FALSE).who = v
        /\ e.kind # "request" /\ f(TRUE).kind # "request" /\ f(FALSE).kind # "request"
    OBVIOUS
  <2>3. \/ mailbox' = mailbox \/ mailbox' = ToPool(v, e)
        \/ mailbox' = ToPool(v, f(TRUE)) \/ mailbox' = ToPool(v, f(FALSE))
    BY DEF WorkerStep, Crash, Employed, Respond, GiveUp, Unhandled, Stop, Dies, poolVars
  <2> HIDE DEF e, f
  <2> QED BY <2>1, <2>2, <2>3 DEF ToPool
<1>2. ASSUME NEW c \in Requests
      PROVE  Count(mailbox', {Request(c)}) = Count(mailbox, {Request(c)})
  <2>1. m \notin {Request(c)} BY <1>1 DEF Request
  <2>2. Count(Append(mailbox, m), {Request(c)}) = Count(mailbox, {Request(c)})
    <3>1. /\ Count(Append(mailbox, m), {Request(c)}) = Count(mailbox, {Request(c)}) + 0
          /\ Count(mailbox, {Request(c)}) \in Nat
      BY <2>1, PostIn DEF One
    <3> QED BY <3>1
  <2> QED BY <1>1, <2>2
<1>3. ASSUME NEW w \in Pids \ {v} PROVE Count(mailbox', Freed(w)) = Count(mailbox, Freed(w))
  <2>1. m \notin Freed(w) BY <1>1, Kinds
  <2>2. Count(Append(mailbox, m), Freed(w)) = Count(mailbox, Freed(w))
    <3>1. /\ Count(Append(mailbox, m), Freed(w)) = Count(mailbox, Freed(w)) + 0
          /\ Count(mailbox, Freed(w)) \in Nat
      BY <2>1, PostIn DEF One
    <3> QED BY <3>1
  <2> QED BY <1>1, <2>2
<1> QED BY <1>2, <1>3

\* The rest of the mailbox, when its head is taken.
LEMMA RestOfMail ==
  ASSUME TypeOK, mailbox # <<>>, mailbox' = Tail(mailbox)
  PROVE  /\ \A c \in Requests :
              Count(mailbox, {Request(c)})
                = Count(mailbox', {Request(c)}) + One(Head(mailbox) = Request(c))
         /\ \A w \in Pids :
              Count(mailbox, Freed(w))
                = Count(mailbox', Freed(w))
                    + One(Head(mailbox).kind = "worker_free" /\ Head(mailbox).who = w)
         /\ \A set : Count(mailbox', set) \in Nat
<1>1. ASSUME NEW c \in Requests
      PROVE  Count(mailbox, {Request(c)})
               = Count(mailbox', {Request(c)}) + One(Head(mailbox) = Request(c))
  BY PostOut DEF One
<1>2. \A w \in Pids :
        Count(mailbox, Freed(w))
          = Count(mailbox', Freed(w))
              + One(Head(mailbox).kind = "worker_free" /\ Head(mailbox).who = w)
  BY MailTaken
<1>3. \A set : Count(mailbox', set) \in Nat BY PostOut
<1> QED BY <1>1, <1>2, <1>3

LEMMA OnceKept ==
  ASSUME TypeOK, AsksOnce,
         \A c \in Requests : /\ Count(mailbox', {Request(c)}) \in Nat
                             /\ Count(mailbox', {Request(c)}) <= Count(mailbox, {Request(c)})
                             /\ cstate'[c] = "new" => cstate[c] = "new"
  PROVE  AsksOnce'
<1> SUFFICES ASSUME NEW c \in Requests
             PROVE  /\ Count(mailbox', {Request(c)}) <= 1
                    /\ cstate'[c] = "new" => Count(mailbox', {Request(c)}) = 0
  BY DEF AsksOnce, Request
<1>1. Count(mailbox, {Request(c)}) \in Nat BY PostIn, MessageTypes
<1>2. /\ Count(mailbox, {Request(c)}) <= 1
      /\ cstate[c] = "new" => Count(mailbox, {Request(c)}) = 0
  BY DEF AsksOnce
<1> QED BY <1>1, <1>2

\* The count in an empty mailbox.
LEMMA NothingCounted == \A set : Count(<<>>, set) = 0
<1> SUFFICES ASSUME NEW set PROVE Count(<<>>, set) = 0 OBVIOUS
<1>1. {i \in DOMAIN <<>> : <<>>[i] \in set} = {} OBVIOUS
<1> QED BY <1>1, FS_EmptySet DEF Count

LEMMA InitOnce == Init => AsksOnce
<1> SUFFICES ASSUME Init PROVE AsksOnce OBVIOUS
<1>1. mailbox = <<>> BY DEF Init
<1>2. \A c \in Requests : Count(mailbox, {Request(c)}) = 0 BY <1>1, NothingCounted
<1> QED BY <1>2 DEF AsksOnce

LEMMA NextOnce == TypeOK /\ AsksOnce /\ [Next]_vars => AsksOnce'
<1> SUFFICES ASSUME TypeOK, AsksOnce, [Next]_vars PROVE AsksOnce' OBVIOUS
<1>1. \A c \in Requests : Count(mailbox, {Request(c)}) \in Nat BY PostIn, MessageTypes
<1>2. ASSUME NEW c \in Requests, Ask(c) PROVE AsksOnce'
  <2>1. /\ cstate[c] = "new" /\ cstate' = [cstate EXCEPT ![c] = "waiting"]
        /\ mailbox' = Append(mailbox, Request(c))
    BY <1>2 DEF Ask, Request
  <2> SUFFICES ASSUME NEW d \in Requests
               PROVE  /\ Count(mailbox', {Request(d)}) <= 1
                      /\ cstate'[d] = "new" => Count(mailbox', {Request(d)}) = 0
    BY DEF AsksOnce, Request
  <2>2. Request(c) \in PoolMessages BY MessageTypes DEF Request
  <2>3. Count(mailbox', {Request(d)}) = Count(mailbox, {Request(d)}) + One(Request(c) \in {Request(d)})
    BY <2>1, <2>2, PostIn
  <2>4. Request(c) \in {Request(d)} <=> c = d BY DEF Request
  <2>5. /\ Count(mailbox, {Request(d)}) <= 1
        /\ cstate[d] = "new" => Count(mailbox, {Request(d)}) = 0
    BY DEF AsksOnce
  <2>6. CASE d = c
    <3>1. Count(mailbox, {Request(d)}) = 0 BY <2>1, <2>5, <2>6
    <3>2. Count(mailbox', {Request(d)}) = 1 BY <2>3, <2>4, <2>6, <3>1 DEF One
    <3>3. cstate'[d] = "waiting" BY <2>1, <2>6 DEF TypeOK
    <3> QED BY <3>2, <3>3
  <2>7. CASE d # c
    <3>1. Count(mailbox', {Request(d)}) = Count(mailbox, {Request(d)})
      BY <1>1, <2>3, <2>4, <2>7 DEF One
    <3>2. cstate'[d] = cstate[d] BY <2>1, <2>7 DEF TypeOK
    <3> QED BY <2>5, <3>1, <3>2
  <2> QED BY <2>6, <2>7
<1>3. ASSUME NEW c \in Requests, TimesOut(c) \/ Ends(c) PROVE AsksOnce'
  <2>1. mailbox' = mailbox BY <1>3 DEF TimesOut, Ends, poolVars
  <2>2. \A d \in Requests : cstate'[d] = "new" => cstate[d] = "new"
    BY <1>3 DEF TimesOut, Ends, TypeOK
  <2> QED BY <1>1, <2>1, <2>2, OnceKept
<1>4. ASSUME NEW v \in Pids, WorkerStep(v) \/ Crash(v) PROVE AsksOnce'
  <2>1. \A c \in Requests : Count(mailbox', {Request(c)}) = Count(mailbox, {Request(c)})
    BY <1>4, WorkerMail
  <2>2. \A c \in Requests : cstate'[c] = "new" => cstate[c] = "new"
    BY <1>4 DEF WorkerStep, Crash, Employed, Respond, GiveUp, Unhandled, Stop, Dies, callerVars, TypeOK
  <2> QED BY <1>1, <2>1, <2>2, OnceKept
<1>5. ASSUME NEW v \in Pids, NEW c \in Requests, Answer(v, c) \/ ResponderEnds(v, c) PROVE AsksOnce'
  <2>1. UNCHANGED <<mailbox, cstate>> BY <1>5 DEF Answer, ResponderEnds, poolVars, callerVars
  <2> QED BY <1>1, <2>1, OnceKept
<1>6. ASSUME mailbox # <<>>, mailbox' = Tail(mailbox), cstate' = cstate PROVE AsksOnce'
  <2>1. ASSUME NEW c \in Requests
        PROVE  Count(mailbox', {Request(c)}) \in Nat
               /\ Count(mailbox', {Request(c)}) <= Count(mailbox, {Request(c)})
    <3>1. /\ Count(mailbox, {Request(c)})
                = Count(mailbox', {Request(c)}) + One(Head(mailbox) = Request(c))
          /\ Count(mailbox', {Request(c)}) \in Nat
      BY <1>6, RestOfMail
    <3> QED BY <3>1 DEF One
  <2> QED BY <1>6, <2>1, OnceKept
<1>7. CASE HandOver \/ HireFor \/ WorkerFree \/ WorkerExit
  BY <1>6, <1>7 DEF HandOver, HireFor, WorkerFree, WorkerExit, Gets, callerVars
<1>8. CASE PoolCrash
  <2>1. \A c \in Requests : Count(mailbox', {Request(c)}) = 0
    BY <1>8, NothingCounted DEF PoolCrash
  <2>2. \A c \in Requests : cstate'[c] = "new" => cstate[c] = "new" BY <1>8 DEF PoolCrash
  <2> QED BY <1>1, <2>1, <2>2, OnceKept
<1>9. CASE ReduceLaborForce \/ UNCHANGED vars
  <2>1. UNCHANGED <<mailbox, cstate>>
    BY <1>9 DEF ReduceLaborForce, vars, poolVars, callerVars
  <2> QED BY <1>1, <2>1, OnceKept
<1> QED BY <1>2, <1>3, <1>4, <1>5, <1>7, <1>8, <1>9 DEF Next, PoolStep

-----------------------------------------------------------------------------
(* The steps of the workers.                                               *)

LEMMA OwnArePids == TypeOK => Own \subseteq Pids /\ Own \subseteq alive /\ Own \subseteq linked
BY OwnFinite DEF Own

\* What the step of a worker leaves as it is.
LEMMA WorkerFrame ==
  ASSUME TypeOK, TypeOK', NEW v \in Pids, WorkerStep(v) \/ Crash(v)
  PROVE  /\ UNCHANGED <<Silent, Waiting, started, workers, linked>>
         /\ \A w \in Pids \ {v} : /\ ServedBy(w)' = ServedBy(w)
                                  /\ w \in alive' <=> w \in alive
                                  /\ Count(mailbox', Freed(w)) = Count(mailbox, Freed(w))
         /\ v \in alive
<1>1. UNCHANGED <<started, workers, linked>> /\ v \in alive
  BY DEF WorkerStep, Crash, Employed, Respond, GiveUp, Unhandled, Stop, Dies, Has, poolVars
<1>2. UNCHANGED Silent
  <2>1. \A c \in Requests : cstate'[c] = "new" <=> cstate[c] = "new"
    BY DEF WorkerStep, Crash, Employed, Respond, GiveUp, Unhandled, Stop, Dies, callerVars, TypeOK
  <2> QED BY <2>1 DEF Silent
<1>3. UNCHANGED Waiting BY WorkerMail, WaitingSame
<1>4. ASSUME NEW w \in Pids \ {v}
      PROVE  inbox'[w] = inbox[w] /\ from'[w] = from[w] /\ (w \in alive' <=> w \in alive)
  <2>1. inbox'[w] = inbox[w] /\ from'[w] = from[w]
    BY DEF WorkerStep, Crash, Employed, Respond, GiveUp, Unhandled, Stop, Dies, Received, TypeOK
  <2>2. w \in alive' <=> w \in alive
    BY DEF WorkerStep, Crash, Employed, Respond, GiveUp, Unhandled, Stop, Dies
  <2> QED BY <2>1, <2>2
<1>5. \A w \in Pids \ {v} : ServedBy(w)' = ServedBy(w) BY <1>4 DEF ServedBy
<1>6. \A w \in Pids \ {v} : Count(mailbox', Freed(w)) = Count(mailbox, Freed(w)) BY WorkerMail
<1> QED BY <1>1, <1>2, <1>3, <1>4, <1>5, <1>6

\* A worker of an earlier pool is not seen.
LEMMA UnseenLends ==
  ASSUME TypeOK, TypeOK', NEW v \in Pids, WorkerStep(v) \/ Crash(v), v \notin Own
  PROVE  UNCHANGED Lending!lendingVars
<1>1. v \notin linked /\ UNCHANGED linked BY WorkerFrame DEF Own
<1>2. \A w \in Pids \ {v} : w \in alive' <=> w \in alive BY WorkerFrame
<1>3. linked \subseteq Pids BY Bounds DEF TypeOK, Pids
<1>4. UNCHANGED Own BY <1>1, <1>2, <1>3 DEF Own
<1>5. \A w \in Own : w \in Pids \ {v} BY OwnArePids
<1>6. UNCHANGED Lent BY <1>4, <1>5, WorkerFrame, LentSame
<1>7. UNCHANGED Returning BY <1>4, <1>5, WorkerFrame, ReturningSame
<1>8. UNCHANGED <<Silent, Waiting, started, workers>> BY WorkerFrame
<1> QED BY <1>4, <1>6, <1>7, <1>8 DEF Lending!lendingVars, Idle

\* One that ends has failed.
LEMMA EndLends ==
  ASSUME TypeOK, TypeOK', NEW v \in Pids, WorkerStep(v) \/ Crash(v), v \in Own, Dies(v)
  PROVE  Lending!Fail(v)
<1>1. Own' = Own \ {v} BY DEF Dies, Own
<1>2. UNCHANGED <<Silent, Waiting, started, workers>> BY WorkerFrame
<1>3. Idle' = Idle \ {v} BY <1>1, <1>2 DEF Idle
<1>4. \A w \in Own \ {v} : /\ ServedBy(w)' = ServedBy(w)
                           /\ Count(mailbox', Freed(w)) = Count(mailbox, Freed(w))
  BY WorkerFrame, OwnArePids
<1>5. Returning' = Returning \ {v}
  <2>1. Returning' = {w \in Own' : Count(mailbox', Freed(w)) # 0} BY CountedNext
  <2>2. Returning = {w \in Own : Count(mailbox, Freed(w)) # 0} BY ReturningIs
  <2> QED BY <1>1, <1>4, <2>1, <2>2
<1>6. Lent' = {p \in Lent : p[1] # v}
  <2>1. Lent' = {p \in Own' \X Requests : p[2] \in ServedBy(p[1])'} BY DEF Lent
  <2>2. ASSUME NEW p PROVE p \in Lent' <=> p \in Lent /\ p[1] # v
    <3>1. p \in Own' \X Requests <=> p \in Own \X Requests /\ p[1] # v BY <1>1
    <3>2. p \in Own' \X Requests => ServedBy(p[1])' = ServedBy(p[1]) BY <1>1, <1>4
    <3> QED BY <2>1, <3>1, <3>2 DEF Lent
  <2> QED BY <2>2
<1> QED BY <1>2, <1>3, <1>5, <1>6 DEF Lending!Fail

\* One whose request is the same, and that sends nothing, moves nothing.
LEMMA StayLends ==
  ASSUME TypeOK, TypeOK', NEW v \in Pids, WorkerStep(v), UNCHANGED <<alive, mailbox>>,
         ServedBy(v)' = ServedBy(v)
  PROVE  UNCHANGED Lending!lendingVars
<1>1. UNCHANGED <<Silent, Waiting, started, workers, linked>> BY WorkerFrame
<1>2. UNCHANGED Own BY <1>1 DEF Own
<1>3. \A w \in Own : ServedBy(w)' = ServedBy(w) BY WorkerFrame, OwnArePids
<1>4. UNCHANGED Lent BY <1>2, <1>3, LentSame
<1>5. UNCHANGED Returning BY <1>2, ReturningSame
<1> QED BY <1>1, <1>2, <1>4, <1>5 DEF Lending!lendingVars, Idle

\* One that loses its only request returns, or is lost on the way.
LEMMA DoneLends ==
  ASSUME TypeOK, TypeOK', NEW v \in Pids, WorkerStep(v), UNCHANGED alive, v \in Own,
         NEW c \in Requests, ServedBy(v) = {c}, ServedBy(v)' = {},
         \/ Count(mailbox', Freed(v)) = Count(mailbox, Freed(v))
         \/ Count(mailbox', Freed(v)) # 0
  PROVE  Lending!Return(v, c)
<1>1. UNCHANGED <<Silent, Waiting, started, workers, linked>> BY WorkerFrame
<1>2. UNCHANGED Own BY <1>1 DEF Own
<1>3. \A w \in Own \ {v} : /\ ServedBy(w)' = ServedBy(w)
                           /\ Count(mailbox', Freed(w)) = Count(mailbox, Freed(w))
  BY WorkerFrame, OwnArePids
<1>4. <<v, c>> \in Lent BY DEF Lent
<1>5. Lent' = Lent \ {<<v, c>>}
  <2>1. Lent' = {p \in Own' \X Requests : p[2] \in ServedBy(p[1])'} BY DEF Lent
  <2>2. ASSUME NEW w \in Own, NEW d \in Requests
        PROVE  d \in ServedBy(w)' <=> d \in ServedBy(w) /\ <<w, d>> # <<v, c>>
    BY <1>3
  <2>3. ASSUME NEW p \in Own \X Requests PROVE p \in Lent' <=> p \in Lent /\ p # <<v, c>>
    <3>1. PICK w \in Own, d \in Requests : p = <<w, d>> OBVIOUS
    <3>2. p[1] = w /\ p[2] = d BY <3>1
    <3> QED BY <1>2, <2>1, <2>2, <3>1, <3>2 DEF Lent
  <2>4. Lent \subseteq Own \X Requests /\ Lent' \subseteq Own \X Requests BY <1>2, <2>1 DEF Lent
  <2> QED BY <2>3, <2>4
<1>6. Returning' \in {Returning, Returning \cup {v}}
  <2>1. Returning' = {w \in Own : Count(mailbox', Freed(w)) # 0} BY <1>2, CountedNext
  <2>2. Returning = {w \in Own : Count(mailbox, Freed(w)) # 0} BY ReturningIs
  <2>3. CASE Count(mailbox', Freed(v)) = Count(mailbox, Freed(v)) BY <1>3, <2>1, <2>2, <2>3
  <2>4. CASE Count(mailbox', Freed(v)) # 0 BY <1>3, <2>1, <2>2, <2>4
  <2> QED BY <2>3, <2>4
<1> QED BY <1>1, <1>2, <1>4, <1>5, <1>6 DEF Lending!Return, Idle

\* A worker of the pool is in one place.
LEMMA InOnePlace ==
  ASSUME TypeOK, Custody, NEW v \in Own
  PROVE  /\ Count(inbox[v], Jobs) \in Nat /\ Count(inbox[v], Jobs) <= 1
         /\ from[v] # NoOne => Count(inbox[v], Jobs) = 0
         /\ Count(workers, {v}) # 0 \/ Count(mailbox, Freed(v)) # 0 =>
              Count(inbox[v], Jobs) = 0 /\ from[v] = NoOne
         /\ Count(workers, {v}) \in Nat /\ Count(mailbox, Freed(v)) \in Nat
         /\ Count(workers, {v}) + Count(mailbox, Freed(v)) <= 1
<1>1. v \in Pids BY OwnArePids
<1>2. /\ Count(workers, {v}) \in Nat /\ Count(mailbox, Freed(v)) \in Nat
      /\ Count(inbox[v], Jobs) \in Nat
  BY <1>1, Numbers
<1>3. Places(v) = 1 BY DEF Custody, Own
<1> QED BY <1>2, <1>3 DEF Places, One

\* The message a worker takes, and the jobs that are left.
LEMMA JobsLeft ==
  ASSUME TypeOK, NEW v \in Pids, inbox[v] # <<>>
  PROVE  /\ First(v) \in WorkerMessages
         /\ First(v).kind = "employed" => First(v) = Job(First(v).who) /\ First(v).who \in Requests
         /\ Count(inbox[v], Jobs)
              = Count(Tail(inbox[v]), Jobs) + One(First(v).kind \in {"employed", "stop"})
         /\ Count(Tail(inbox[v]), Jobs) \in Nat
         /\ \A c \in Requests : /\ Count(inbox[v], {Job(c)})
                                    = Count(Tail(inbox[v]), {Job(c)}) + One(First(v) = Job(c))
                               /\ Count(Tail(inbox[v]), {Job(c)}) \in Nat
<1>1. First(v) \in WorkerMessages BY HeadOfInbox
<1>2. First(v).kind = "employed" => First(v) = Job(First(v).who) /\ First(v).who \in Requests
  <2> DEFINE m == First(v)
  <2> HIDE DEF m
  <2>1. m \in WorkerMessages BY <1>1 DEF m
  <2>2. m.kind = "employed" => m = [kind |-> "employed", who |-> m.who] /\ m.who \in Requests
    BY <2>1 DEF WorkerMessages
  <2> QED BY <2>2 DEF m, Job
<1>3. First(v) \in Jobs <=> First(v).kind \in {"employed", "stop"} BY <1>1, Kinds
<1>4. /\ Count(inbox[v], Jobs) = Count(Tail(inbox[v]), Jobs) + One(First(v) \in Jobs)
      /\ Count(Tail(inbox[v]), Jobs) \in Nat
  BY Takes
<1>5. \A c \in Requests : /\ Count(inbox[v], {Job(c)})
                              = Count(Tail(inbox[v]), {Job(c)}) + One(First(v) \in {Job(c)})
                         /\ Count(Tail(inbox[v]), {Job(c)}) \in Nat
  BY Takes
<1> QED BY <1>1, <1>2, <1>3, <1>4, <1>5 DEF One

\* A message that says that a caller is down is no job.
LEMMA DownIsNoJob ==
  ASSUME TypeOK, NEW v \in Pids, inbox[v] # <<>>, NEW c \in Requests, NEW set \in SUBSET Jobs
  PROVE  /\ Count(Append(Tail(inbox[v]), Down(c)), set) = Count(Tail(inbox[v]), set)
         /\ Count(Without(Tail(inbox[v]), Down(c)), set) = Count(Tail(inbox[v]), set)
<1>1. Down(c) \in WorkerMessages /\ Down(c) \notin set BY MessageTypes, Kinds DEF Down
<1>2. Tail(inbox[v]) \in Seq(WorkerMessages) BY HeadOfInbox
<1>3. Count(Tail(inbox[v]), set) \in Nat BY <1>2, CountIsNat
<1>4. Count(Append(Tail(inbox[v]), Down(c)), set) = Count(Tail(inbox[v]), set) + 0
  BY <1>1, <1>2, CountAppend DEF One
<1>5. Count(Without(Tail(inbox[v]), Down(c)), set) = Count(Tail(inbox[v]), set)
  BY <1>1, <1>2, WithoutCount
<1> QED BY <1>3, <1>4, <1>5

\* Who takes a request is busy with its request, or has dropped it.
LEMMA EmployedLends ==
  ASSUME TypeOK, TypeOK', Custody, NEW v \in Own, Employed(v)
  PROVE  [Lending!LendingNext]_(Lending!lendingVars)
<1>0. v \in Pids /\ NoOne \notin Requests BY OwnArePids, Bounds
<1> DEFINE c == First(v).who
           rest == Tail(inbox[v])
<1>1. /\ inbox[v] # <<>> /\ First(v).kind = "employed" /\ from[v] = NoOne
      /\ UNCHANGED <<alive, mailbox>>
  BY DEF Employed, Has, poolVars
<1>2. c \in Requests /\ First(v) = Job(c) BY <1>0, <1>1, JobsLeft
<1>3. Count(rest, Jobs) = 0
  <2>1. /\ Count(inbox[v], Jobs) = Count(rest, Jobs) + 1 /\ Count(rest, Jobs) \in Nat
    BY <1>0, <1>1, JobsLeft DEF One
  <2>2. Count(inbox[v], Jobs) <= 1 BY InOnePlace
  <2> QED BY <2>1, <2>2
<1>4. \A d \in Requests : /\ Count(rest, {Job(d)}) = 0
                          /\ Count(inbox[v], {Job(d)}) = 0 + One(First(v) = Job(d))
  <2>1. rest \in Seq(WorkerMessages) BY <1>0, <1>1, HeadOfInbox
  <2> HIDE DEF rest
  <2>2. \A d \in Requests : Count(rest, {Job(d)}) = 0 BY <1>3, <2>1, NoJobs
  <2>3. \A d \in Requests :
          Count(inbox[v], {Job(d)}) = Count(rest, {Job(d)}) + One(First(v) = Job(d))
    BY <1>0, <1>1, JobsLeft DEF rest
  <2> QED BY <2>2, <2>3
<1>5. ServedBy(v) = {c}
  <2>1. ServedBy(v) = {d \in Requests : from[v] = d \/ Count(inbox[v], {Job(d)}) # 0}
    BY <1>0, ServedAre DEF ServedCounted
  <2>2. \A d \in Requests : Count(inbox[v], {Job(d)}) # 0 <=> d = c
    BY <1>2, <1>4 DEF One, Job
  <2> QED BY <1>0, <1>1, <1>2, <2>1, <2>2
<1>6. inbox'[v] = rest \/ inbox'[v] = Append(rest, Down(c))
  BY <1>0 DEF Employed, TypeOK, Down
<1>7. \A d \in Requests : Count(inbox'[v], {Job(d)}) = 0
  <2>1. ASSUME NEW d \in Requests PROVE Count(Append(rest, Down(c)), {Job(d)}) = Count(rest, {Job(d)})
    <3>1. {Job(d)} \in SUBSET Jobs BY Kinds DEF Job
    <3> QED BY <1>0, <1>1, <1>2, <3>1, DownIsNoJob
  <2> HIDE DEF rest, c
  <2> QED BY <1>4, <1>6, <2>1
<1>8. ServedBy(v)' = {d \in Requests : from'[v] = d}
  <2>1. ServedBy(v)' = {d \in Requests : from'[v] = d \/ Count(inbox'[v], {Job(d)}) # 0}
    BY <1>0, CountedNext
  <2> QED BY <1>7, <2>1
<1>9. WorkerStep(v) BY DEF WorkerStep
<1>10. from'[v] = c \/ from'[v] = NoOne BY <1>0, <1>1 DEF Employed, TypeOK
<1> HIDE DEF c, rest
<1>11. CASE from'[v] = c
  <2>1. ServedBy(v)' = ServedBy(v) BY <1>2, <1>5, <1>8, <1>11
  <2>2. UNCHANGED Lending!lendingVars BY <1>0, <1>1, <1>9, <2>1, StayLends
  <2> QED BY <2>2
<1>12. CASE from'[v] = NoOne
  <2>1. ServedBy(v)' = {} BY <1>0, <1>8, <1>12
  <2>2. Lending!Return(v, c) BY <1>0, <1>1, <1>2, <1>5, <1>9, <2>1, DoneLends
  <2> QED BY <1>0, <1>2, <2>2 DEF Lending!LendingNext
<1> QED BY <1>10, <1>11, <1>12

\* Who has answered, or given up, is on its way back.
LEMMA FreedLends ==
  ASSUME TypeOK, TypeOK', Custody, NEW v \in Own, Respond(v) \/ GiveUp(v)
  PROVE  [Lending!LendingNext]_(Lending!lendingVars)
<1>0. v \in Pids /\ NoOne \notin Requests /\ v \in linked BY OwnArePids, Bounds
<1> DEFINE c == from[v]
           rest == Tail(inbox[v])
           f(b) == [kind |-> "worker_free", who |-> v, timed |-> b]
<1>1. /\ inbox[v] # <<>> /\ First(v).kind \in {"response", "down"} /\ UNCHANGED alive
      /\ from'[v] = NoOne
  BY <1>0 DEF Respond, GiveUp, Has, TypeOK
<1>2. First(v) \in WorkerMessages /\ (First(v).kind # "stop" => First(v).who \in Requests)
  BY <1>0, <1>1, HeadOfInbox, MessageTypes
<1>3. c \in Requests BY <1>0, <1>1, <1>2 DEF Respond, GiveUp, Has, TypeOK
<1>4. Count(inbox[v], Jobs) = 0 BY <1>0, <1>3, InOnePlace
<1>5. inbox'[v] = rest \/ inbox'[v] = Without(rest, Down(c))
  BY <1>0 DEF Respond, GiveUp, Received, TypeOK, Down
<1>6. \A d \in Requests : Count(inbox[v], {Job(d)}) = 0 /\ Count(rest, {Job(d)}) = 0
  <2>1. inbox[v] \in Seq(WorkerMessages) /\ rest \in Seq(WorkerMessages)
    BY <1>0, <1>1, HeadOfInbox DEF TypeOK
  <2>2. Count(rest, Jobs) = 0
    <3>1. /\ Count(inbox[v], Jobs) = Count(rest, Jobs) + 0 /\ Count(rest, Jobs) \in Nat
      BY <1>0, <1>1, JobsLeft DEF One
    <3> QED BY <1>4, <3>1
  <2> HIDE DEF rest
  <2> QED BY <1>4, <2>1, <2>2, NoJobs
<1>7. \A d \in Requests : Count(inbox'[v], {Job(d)}) = 0
  <2>1. ASSUME NEW d \in Requests PROVE Count(Without(rest, Down(c)), {Job(d)}) = Count(rest, {Job(d)})
    <3>1. {Job(d)} \in SUBSET Jobs BY Kinds DEF Job
    <3> QED BY <1>0, <1>1, <1>3, <3>1, DownIsNoJob
  <2> HIDE DEF rest, c
  <2> QED BY <1>5, <1>6, <2>1
<1>8. ServedBy(v) = {c}
  <2>1. ServedBy(v) = {d \in Requests : from[v] = d \/ Count(inbox[v], {Job(d)}) # 0}
    BY <1>0, ServedAre DEF ServedCounted
  <2> QED BY <1>3, <1>6, <2>1
<1>9. ServedBy(v)' = {}
  <2>1. ServedBy(v)' = {d \in Requests : from'[v] = d \/ Count(inbox'[v], {Job(d)}) # 0}
    BY <1>0, CountedNext
  <2> QED BY <1>0, <1>1, <1>7, <2>1
<1>10. Count(mailbox', Freed(v)) # 0
  <2>1. PICK b \in BOOLEAN : mailbox' = Append(mailbox, f(b))
    BY <1>0 DEF Respond, GiveUp, ToPool
  <2>2. f(b) \in PoolMessages BY <1>0, MessageTypes
  <2>3. Count(Append(mailbox, f(b)), Freed(v)) = Count(mailbox, Freed(v)) + 1
    BY <2>2, Mailed DEF One
  <2>4. Count(mailbox, Freed(v)) \in Nat BY <1>0, Numbers
  <2> HIDE DEF f
  <2> QED BY <2>1, <2>3, <2>4
<1>11. WorkerStep(v) BY DEF WorkerStep
<1> HIDE DEF c
<1>12. Lending!Return(v, c) BY <1>0, <1>1, <1>3, <1>8, <1>9, <1>10, <1>11, DoneLends
<1> QED BY <1>0, <1>3, <1>12 DEF Lending!LendingNext

\* Who takes no notice, or is to stop and does not, moves nothing.
LEMMA UnmovedLends ==
  ASSUME TypeOK, TypeOK', NEW v \in Own, Unhandled(v) \/ Stop(v), ~Dies(v)
  PROVE  UNCHANGED Lending!lendingVars
<1>0. v \in Pids BY OwnArePids
<1>1. /\ inbox[v] # <<>> /\ First(v).kind # "employed" /\ UNCHANGED <<alive, mailbox>>
      /\ from'[v] = from[v] /\ inbox'[v] = Tail(inbox[v])
  BY <1>0 DEF Unhandled, Stop, Has, Received, TypeOK, poolVars
<1>2. \A d \in Requests : Count(inbox'[v], {Job(d)}) = Count(inbox[v], {Job(d)})
  <2> SUFFICES ASSUME NEW d \in Requests
               PROVE  Count(inbox'[v], {Job(d)}) = Count(inbox[v], {Job(d)})
    OBVIOUS
  <2>1. First(v) # Job(d) BY <1>1 DEF Job
  <2>2. /\ Count(inbox[v], {Job(d)}) = Count(Tail(inbox[v]), {Job(d)}) + 0
        /\ Count(Tail(inbox[v]), {Job(d)}) \in Nat
    BY <1>0, <1>1, <2>1, JobsLeft DEF One
  <2> QED BY <1>1, <2>2
<1>3. ServedBy(v)' = ServedBy(v) BY <1>0, <1>1, <1>2, ServedSame
<1>4. WorkerStep(v) BY DEF WorkerStep
<1> QED BY <1>0, <1>1, <1>3, <1>4, StayLends

LEMMA WorkerLends ==
  ASSUME TypeOK, TypeOK', Custody, NEW v \in Pids, WorkerStep(v) \/ Crash(v)
  PROVE  [Lending!LendingNext]_(Lending!lendingVars)
<1>1. CASE v \notin Own
  <2>1. UNCHANGED Lending!lendingVars BY <1>1, UnseenLends
  <2> QED BY <2>1
<1>2. CASE v \in Own /\ Dies(v)
  <2>1. Lending!Fail(v) BY <1>2, EndLends
  <2> QED BY <2>1 DEF Lending!LendingNext
<1>3. CASE v \in Own /\ ~Dies(v)
  <2>1. WorkerStep(v) BY <1>3 DEF Crash
  <2>2. Unhandled(v) \/ Stop(v) => UNCHANGED Lending!lendingVars BY <1>3, UnmovedLends
  <2>3. Unhandled(v) \/ Stop(v) => [Lending!LendingNext]_(Lending!lendingVars) BY <2>2
  <2> QED BY <1>3, <2>1, <2>3, EmployedLends, FreedLends DEF WorkerStep
<1> QED BY <1>1, <1>2, <1>3

-----------------------------------------------------------------------------
(* The steps of the callers, of the broker and of the pool.                *)

\* Another message to a worker gives it no other request.
LEMMA ToldOther ==
  ASSUME TypeOK, NEW w \in Pids, NEW m \in WorkerMessages, NEW c \in Requests, m # Job(c)
  PROVE  Count(Append(inbox[w], m), {Job(c)}) = Count(inbox[w], {Job(c)})
<1>1. Count(Append(inbox[w], m), {Job(c)}) = Count(inbox[w], {Job(c)}) + 0 BY Told DEF One
<1>2. Count(inbox[w], {Job(c)}) \in Nat BY JobIn
<1> QED BY <1>1, <1>2

\* Workers that are told nothing, or no job, have the requests they had.
LEMMA ServedKept ==
  ASSUME TypeOK, TypeOK', NEW w \in Pids, from'[w] = from[w],
         \/ inbox'[w] = inbox[w]
         \/ \E m \in WorkerMessages : m.kind # "employed" /\ inbox'[w] = Append(inbox[w], m)
  PROVE  ServedBy(w)' = ServedBy(w)
<1>1. CASE inbox'[w] = inbox[w] BY <1>1, ServedSame
<1>2. ASSUME NEW m \in WorkerMessages, m.kind # "employed", inbox'[w] = Append(inbox[w], m)
      PROVE  ServedBy(w)' = ServedBy(w)
  <2>1. \A c \in Requests : m # Job(c) BY <1>2 DEF Job
  <2>2. \A c \in Requests : Count(inbox'[w], {Job(c)}) = Count(inbox[w], {Job(c)})
    BY <1>2, <2>1, ToldOther
  <2> QED BY <2>2, ServedSame
<1> QED BY <1>1, <1>2

LEMMA AskLends ==
  ASSUME TypeOK, TypeOK', NEW c \in Requests, Ask(c)
  PROVE  Lending!Make(c)
<1>1. /\ cstate[c] = "new" /\ cstate' = [cstate EXCEPT ![c] = "waiting"]
      /\ mailbox' = Append(mailbox, Request(c))
      /\ UNCHANGED <<workers, linked, started, alive, from, inbox>>
  BY DEF Ask, Request, workerVars
<1>2. c \in Silent /\ Silent' = Silent \ {c} BY <1>1 DEF Silent, TypeOK
<1>3. Request(c) \in PoolMessages /\ Request(c).kind = "request" BY MessageTypes DEF Request
<1>4. Waiting' = Waiting \cup {c}
  <2>1. Waiting' = {d \in Requests : Count(mailbox', {Request(d)}) # 0} BY CountedNext
  <2>2. Waiting = {d \in Requests : Count(mailbox, {Request(d)}) # 0} BY WaitingIs
  <2>3. ASSUME NEW d \in Requests
        PROVE  Count(mailbox', {Request(d)}) # 0 <=> Count(mailbox, {Request(d)}) # 0 \/ d = c
    <3>1. /\ Count(mailbox', {Request(d)})
                = Count(mailbox, {Request(d)}) + One(Request(c) \in {Request(d)})
          /\ Count(mailbox, {Request(d)}) \in Nat
      BY <1>1, <1>3, PostIn
    <3>2. Request(c) \in {Request(d)} <=> c = d BY DEF Request
    <3> QED BY <3>1, <3>2 DEF One
  <2> QED BY <2>1, <2>2, <2>3
<1>5. UNCHANGED Own BY <1>1 DEF Own
<1>6. UNCHANGED Lent BY <1>1, <1>5, LentSame DEF ServedBy
<1>7. \A w \in Own : Count(mailbox', Freed(w)) = Count(mailbox, Freed(w))
  <2> SUFFICES ASSUME NEW w \in Own PROVE Count(mailbox', Freed(w)) = Count(mailbox, Freed(w))
    OBVIOUS
  <2>1. Count(mailbox', Freed(w)) = Count(mailbox, Freed(w)) + 0
    BY <1>1, <1>3, Mailed DEF One
  <2>2. Count(mailbox, Freed(w)) \in Nat BY Numbers, OwnArePids
  <2> QED BY <2>1, <2>2
<1>8. UNCHANGED Returning BY <1>5, <1>7, ReturningSame
<1>9. UNCHANGED Idle /\ UNCHANGED started BY <1>1, <1>5 DEF Idle
<1> QED BY <1>2, <1>4, <1>6, <1>8, <1>9 DEF Lending!Make

\* A step that leaves the pool and the workers' status as they are.
LEMMA AsideLends ==
  ASSUME TypeOK, TypeOK', UNCHANGED <<mailbox, workers, linked, started, alive, from>>,
         \A c \in Requests : cstate'[c] = "new" <=> cstate[c] = "new",
         \A w \in Pids :
           \/ inbox'[w] = inbox[w]
           \/ \E m \in WorkerMessages : m.kind # "employed" /\ inbox'[w] = Append(inbox[w], m)
  PROVE  UNCHANGED Lending!lendingVars
<1>1. UNCHANGED Own BY DEF Own
<1>2. \A w \in Pids : ServedBy(w)' = ServedBy(w) BY ServedKept
<1>3. UNCHANGED Lent BY <1>1, <1>2, OwnArePids, LentSame
<1>4. UNCHANGED <<Silent, Waiting, Returning, Idle>>
  BY <1>1 DEF Silent, Waiting, Returning, Idle
<1> QED BY <1>3, <1>4 DEF Lending!lendingVars

LEMMA CallerLends ==
  ASSUME TypeOK, TypeOK', NEW c \in Requests, Ask(c) \/ TimesOut(c) \/ Ends(c)
  PROVE  [Lending!LendingNext]_(Lending!lendingVars)
<1>1. CASE Ask(c) BY <1>1, AskLends DEF Lending!LendingNext
<1>2. CASE TimesOut(c) \/ Ends(c)
  <2>1. /\ UNCHANGED <<mailbox, workers, linked, started, alive, from>>
        /\ \A d \in Requests : cstate'[d] = "new" <=> cstate[d] = "new"
    BY <1>2 DEF TimesOut, Ends, poolVars, workerVars, TypeOK
  <2>2. Down(c) \in WorkerMessages /\ Down(c).kind # "employed" BY MessageTypes DEF Down
  <2>3. \A w \in Pids : inbox'[w] = inbox[w] \/ inbox'[w] = Append(inbox[w], Down(c))
    BY <1>2 DEF TimesOut, Ends, workerVars, Down
  <2>4. UNCHANGED Lending!lendingVars BY <2>1, <2>2, <2>3, AsideLends
  <2> QED BY <2>4
<1> QED BY <1>1, <1>2

LEMMA BrokerLends ==
  ASSUME TypeOK, TypeOK', NEW v \in Pids, NEW c \in Requests, Answer(v, c) \/ ResponderEnds(v, c)
  PROVE  UNCHANGED Lending!lendingVars
<1> DEFINE m == [kind |-> "response", who |-> c]
<1>1. UNCHANGED <<mailbox, workers, linked, started, alive, from, cstate>>
  BY DEF Answer, ResponderEnds, poolVars, callerVars
<1>2. m \in WorkerMessages /\ m.kind # "employed" BY MessageTypes
<1>3. \A w \in Pids : inbox'[w] = inbox[w] \/ inbox'[w] = Append(inbox[w], m)
  BY DEF Answer, ResponderEnds, TypeOK
<1> HIDE DEF m
<1> QED BY <1>1, <1>2, <1>3, AsideLends

\* The pool takes a request: there is no second message of it.
LEMMA TakesRequest ==
  ASSUME TypeOK, TypeOK', AsksOnce, Gets("request"), mailbox' = Tail(mailbox)
  PROVE  /\ Head(mailbox).who \in Waiting /\ Waiting' = Waiting \ {Head(mailbox).who}
         /\ Head(mailbox).who \in Requests
         /\ \A w \in Pids : Count(mailbox', Freed(w)) = Count(mailbox, Freed(w))
<1> DEFINE c == Head(mailbox).who
<1>1. mailbox # <<>> /\ Head(mailbox).kind = "request" BY DEF Gets
<1>2. c \in Requests /\ Head(mailbox) = Request(c)
  <2> DEFINE m == Head(mailbox)
  <2>1. m \in PoolMessages /\ m.kind = "request" BY <1>1, HeadOfMailbox
  <2> HIDE DEF m
  <2>2. m.who \in Requests /\ m = [kind |-> "request", who |-> m.who]
    BY <2>1 DEF PoolMessages
  <2> QED BY <2>2 DEF m, Request
<1> HIDE DEF c
<1>3. ASSUME NEW d \in Requests
      PROVE  /\ Count(mailbox, {Request(d)}) # 0 /\ d # c <=> Count(mailbox', {Request(d)}) # 0
             /\ d = c => Count(mailbox, {Request(d)}) # 0
  <2>1. /\ Count(mailbox, {Request(d)}) = Count(mailbox', {Request(d)}) + One(Head(mailbox) = Request(d))
        /\ Count(mailbox', {Request(d)}) \in Nat
    BY <1>1, RestOfMail
  <2>2. Head(mailbox) = Request(d) <=> d = c BY <1>2 DEF Request
  <2>3. Count(mailbox, {Request(d)}) <= 1 BY DEF AsksOnce
  <2> QED BY <2>1, <2>2, <2>3 DEF One
<1>4. Waiting' = {d \in Requests : Count(mailbox', {Request(d)}) # 0} BY CountedNext
<1>5. Waiting = {d \in Requests : Count(mailbox, {Request(d)}) # 0} BY WaitingIs
<1>6. c \in Waiting /\ Waiting' = Waiting \ {c} BY <1>2, <1>3, <1>4, <1>5
<1>7. \A w \in Pids : Count(mailbox', Freed(w)) = Count(mailbox, Freed(w)) BY <1>1, OtherMail
<1> QED BY <1>2, <1>6, <1>7 DEF c

\* A worker that is given its first request.
LEMMA LentOne ==
  ASSUME NEW w, NEW c \in Requests, Own' = Own \cup {w},
         \A u \in Own \ {w} : ServedBy(u)' = ServedBy(u),
         ServedBy(w) = {}, ServedBy(w)' = {c}
  PROVE  Lent' = Lent \cup {<<w, c>>}
<1>1. Lent' = {p \in Own' \X Requests : p[2] \in ServedBy(p[1])'} BY DEF Lent
<1>2. ASSUME NEW u, NEW d PROVE <<u, d>> \in Lent' <=> <<u, d>> \in Lent \/ <<u, d>> = <<w, c>>
  <2>1. <<u, d>> \in Lent' <=> u \in Own' /\ d \in Requests /\ d \in ServedBy(u)' BY <1>1
  <2>2. <<u, d>> \in Lent <=> u \in Own /\ d \in Requests /\ d \in ServedBy(u) BY DEF Lent
  <2>3. CASE u = w BY <2>1, <2>2, <2>3
  <2>4. CASE u # w BY <2>1, <2>2, <2>4
  <2> QED BY <2>3, <2>4
<1>3. /\ \A p \in Lent : p = <<p[1], p[2]>>
      /\ \A p \in Lent' : p = <<p[1], p[2]>>
  BY <1>1 DEF Lent
<1> QED BY <1>2, <1>3

\* A worker that is nobody's, and the job it is given.
LEMMA FirstJob ==
  ASSUME TypeOK, TypeOK', NEW w \in Pids, NEW c \in Requests,
         from[w] = NoOne, Count(inbox[w], Jobs) = 0,
         from'[w] = from[w], inbox'[w] = Append(inbox[w], Job(c))
  PROVE  ServedBy(w) = {} /\ ServedBy(w)' = {c}
<1>1. NoOne \notin Requests /\ inbox[w] \in Seq(WorkerMessages) BY Bounds DEF TypeOK
<1>2. \A d \in Requests : Count(inbox[w], {Job(d)}) = 0 BY <1>1, NoJobs
<1>3. Job(c) \in WorkerMessages BY MessageTypes DEF Job
<1>4. \A d \in Requests : Count(inbox'[w], {Job(d)}) = 0 + One(Job(c) \in {Job(d)})
  BY <1>2, <1>3, Told
<1>5. \A d \in Requests : Count(inbox'[w], {Job(d)}) # 0 <=> d = c
  <2>1. \A d \in Requests : Job(c) \in {Job(d)} <=> d = c BY DEF Job
  <2> QED BY <1>4, <2>1 DEF One
<1>6. ServedBy(w) = {d \in Requests : from[w] = d \/ Count(inbox[w], {Job(d)}) # 0}
  BY ServedAre DEF ServedCounted
<1>7. ServedBy(w)' = {d \in Requests : from'[w] = d \/ Count(inbox'[w], {Job(d)}) # 0}
  BY CountedNext
<1>8. ServedBy(w) = {} BY <1>1, <1>2, <1>6
<1>9. ServedBy(w)' = {c} BY <1>1, <1>5, <1>7
<1> QED BY <1>8, <1>9

LEMMA HandOverLends ==
  ASSUME TypeOK, TypeOK', Known, Custody, AsksOnce, HandOver
  PROVE  Lending!Lend(Head(workers), Head(mailbox).who) /\ Head(workers) \in Pids
<1>0. PICK h, c : h = Head(workers) /\ c = Head(mailbox).who OBVIOUS
<1>1. /\ workers # <<>> /\ h \in alive /\ Gets("request") /\ mailbox' = Tail(mailbox)
      /\ workers' = Tail(workers)
      /\ UNCHANGED <<linked, started, alive, from, cstate>>
      /\ inbox' = [inbox EXCEPT ![h] = Append(@, Job(c))]
  BY <1>0 DEF HandOver, Cast, callerVars, Job
<1>2. /\ c \in Requests /\ c \in Waiting /\ Waiting' = Waiting \ {c}
      /\ \A w \in Pids : Count(mailbox', Freed(w)) = Count(mailbox, Freed(w))
  BY <1>0, <1>1, TakesRequest
<1>3. workers \in Seq(Pids) BY DEF TypeOK
<1>4. ToSet(workers) = {h} \cup ToSet(workers') /\ workers' \in Seq(Pids)
  BY <1>0, <1>1, <1>3, ToSetTail
<1>5. Count(workers, {h}) = Count(workers', {h}) + 1 /\ Count(workers', {h}) \in Nat
  <2>1. /\ Count(workers, {h}) = Count(workers', {h}) + One(h \in {h})
        /\ Count(workers', {h}) \in Nat
    BY <1>0, <1>1, <1>3, <1>4, CountTail, CountIsNat
  <2> QED BY <2>1 DEF One
<1>6. h \in Own /\ UNCHANGED Own
  <2>1. h \in linked BY <1>4 DEF Known
  <2> QED BY <1>1, <2>1 DEF Own
<1>7. h \in Pids /\ h \in 1..started BY <1>6, OwnArePids DEF TypeOK
<1>8. /\ Count(inbox[h], Jobs) = 0 /\ from[h] = NoOne /\ Count(workers', {h}) = 0
  <2>1. Count(workers, {h}) \in Nat /\ Count(workers, {h}) # 0 BY <1>5
  <2>2. Count(inbox[h], Jobs) = 0 /\ from[h] = NoOne BY <1>6, <2>1, InOnePlace
  <2>3. /\ Count(workers, {h}) + Count(mailbox, Freed(h)) <= 1
        /\ Count(mailbox, Freed(h)) \in Nat
    BY <1>6, InOnePlace
  <2> QED BY <1>5, <2>2, <2>3
<1>9. h \notin ToSet(workers') BY <1>4, <1>8, ToSetCount
<1>10. h \in Idle /\ Idle' = Idle \ {h} BY <1>4, <1>6, <1>9 DEF Idle
<1>11. inbox'[h] = Append(inbox[h], Job(c)) /\ \A u \in Pids \ {h} : inbox'[u] = inbox[u]
  BY <1>1, <1>7 DEF TypeOK
<1>12. ServedBy(h) = {} /\ ServedBy(h)' = {c} BY <1>1, <1>2, <1>7, <1>8, <1>11, FirstJob
<1>13. \A u \in Own \ {h} : ServedBy(u)' = ServedBy(u) BY <1>1, <1>11, OwnArePids DEF ServedBy
<1>14. Lent' = Lent \cup {<<h, c>>} BY <1>2, <1>6, <1>12, <1>13, LentOne
<1>15. UNCHANGED Returning BY <1>2, <1>6, OwnArePids, ReturningSame
<1>16. UNCHANGED Silent BY <1>1 DEF Silent
<1>17. (1..started)' = 1..started \cup {h} BY <1>1, <1>7
<1> QED BY <1>0, <1>2, <1>7, <1>10, <1>14, <1>15, <1>16, <1>17 DEF Lending!Lend

\* A new worker is the pool's, and nobody's yet.
LEMMA NewLends ==
  ASSUME TypeOK, TypeOK', Known, StartWorker
  PROVE  /\ started' \in Pids /\ started' \notin 1..started
         /\ (1..started)' = 1..started \cup {started'}
         /\ Own' = Own \cup {started'} /\ started' \notin Own /\ started' \notin ToSet(workers)
         /\ from[started'] = NoOne /\ inbox[started'] = <<>> /\ Count(inbox[started'], Jobs) = 0
         /\ Count(mailbox, Freed(started')) = 0
<1>1. /\ started' = started + 1 /\ started' \in Pids
      /\ started' \notin alive /\ started' \notin linked
      /\ alive' = alive \cup {started'} /\ linked' = linked \cup {started'}
  BY HireTypes
<1>2. started \in Nat BY DEF TypeOK
<1>3. started' \notin 1..started /\ (1..started)' = 1..started \cup {started'} BY <1>1, <1>2
<1>4. Own' = Own \cup {started'} /\ started' \notin Own BY <1>1 DEF Own
<1>5. started' \notin ToSet(workers) /\ from[started'] = NoOne /\ inbox[started'] = <<>>
  BY HireKnown DEF Quiet
<1>6. started' > started BY <1>1, <1>2
<1>7. Count(mailbox, Freed(started')) = 0 /\ Count(inbox[started'], Jobs) = 0
  BY <1>1, <1>6, NewIsNowhere
<1> QED BY <1>1, <1>3, <1>4, <1>5, <1>7

LEMMA HireForLends ==
  ASSUME TypeOK, TypeOK', Known, AsksOnce, HireFor
  PROVE  Lending!Lend(started', Head(mailbox).who)
<1>0. PICK h, c : h = started' /\ c = Head(mailbox).who OBVIOUS
<1>1. /\ StartWorker /\ Gets("request") /\ mailbox' = Tail(mailbox)
      /\ UNCHANGED <<workers, from, cstate>>
      /\ inbox' = [inbox EXCEPT ![h] = Append(@, Job(c))]
  BY <1>0 DEF HireFor, Cast, callerVars, Job
<1>2. /\ c \in Requests /\ c \in Waiting /\ Waiting' = Waiting \ {c}
      /\ \A w \in Pids : Count(mailbox', Freed(w)) = Count(mailbox, Freed(w))
  BY <1>0, <1>1, TakesRequest
<1>3. /\ h \in Pids /\ h \notin 1..started /\ (1..started)' = 1..started \cup {h}
      /\ Own' = Own \cup {h} /\ h \notin Own /\ h \notin ToSet(workers)
      /\ from[h] = NoOne /\ Count(inbox[h], Jobs) = 0 /\ Count(mailbox, Freed(h)) = 0
  BY <1>0, <1>1, NewLends
<1>4. Idle' = Idle \ {h} BY <1>1, <1>3 DEF Idle
<1>5. inbox'[h] = Append(inbox[h], Job(c)) /\ \A u \in Pids \ {h} : inbox'[u] = inbox[u]
  BY <1>1, <1>3 DEF TypeOK
<1>6. ServedBy(h) = {} /\ ServedBy(h)' = {c} BY <1>1, <1>2, <1>3, <1>5, FirstJob
<1>7. \A u \in Own \ {h} : ServedBy(u)' = ServedBy(u) BY <1>1, <1>5, OwnArePids DEF ServedBy
<1>8. Lent' = Lent \cup {<<h, c>>} BY <1>2, <1>3, <1>6, <1>7, LentOne
<1>9. UNCHANGED Returning
  <2>1. Returning' = {w \in Own' : Count(mailbox', Freed(w)) # 0} BY CountedNext
  <2>2. Returning = {w \in Own : Count(mailbox, Freed(w)) # 0} BY ReturningIs
  <2> QED BY <1>2, <1>3, <2>1, <2>2, OwnArePids
<1>10. UNCHANGED Silent BY <1>1 DEF Silent
<1> QED BY <1>0, <1>2, <1>3, <1>4, <1>8, <1>9, <1>10 DEF Lending!Lend

LEMMA PoolCrashLends ==
  ASSUME TypeOK, TypeOK', Known, PoolCrash
  PROVE  Lending!Restart
<1>1. /\ started' = started + OWC /\ linked' = (started + 1)..started'
      /\ alive' = alive \cup linked' /\ from' = from
      /\ workers' = [i \in 1..OWC |-> started + i] /\ mailbox' = <<>>
      /\ inbox' = [v \in Pids |-> IF v \in alive THEN Append(inbox[v], [kind |-> "stop"])
                                                  ELSE inbox[v]]
      /\ cstate' = [c \in Requests |-> IF cstate[c] = "waiting" THEN "timedout" ELSE cstate[c]]
      /\ started + OWC <= MaxWorkers
  BY DEF PoolCrash
<1>2. /\ started \in Nat /\ OWC \in Nat /\ OWC > 0 /\ MaxWorkers \in Nat
      /\ alive \subseteq 1..started /\ NoOne \notin Requests
  BY Bounds DEF TypeOK
<1>3. Own' = linked' BY <1>1 DEF Own
<1>4. ToSet(workers') = linked'
  <2>1. workers' \in Seq(Pids) /\ DOMAIN workers' = 1..OWC /\ \A i \in 1..OWC : workers'[i] = started + i
    BY <1>1, <1>2 DEF TypeOK
  <2>2. ToSet(workers') = {started + i : i \in 1..OWC} BY <2>1 DEF ToSet
  <2>3. ASSUME NEW n \in linked' PROVE \E i \in 1..OWC : n = started + i
    <3>1. n \in Int /\ started + 1 <= n /\ n <= started + OWC BY <1>1, <1>2
    <3>2. n - started \in 1..OWC /\ n = started + (n - started) BY <1>2, <3>1
    <3> QED BY <3>2
  <2>4. \A i \in 1..OWC : started + i \in linked' BY <1>1, <1>2
  <2> QED BY <2>2, <2>3, <2>4
<1>5. Idle' = linked' BY <1>3, <1>4 DEF Idle
<1>6. linked' \cap 1..started = {} /\ (1..started)' = 1..started \cup linked' /\ linked' \subseteq Pids
  BY <1>1, <1>2 DEF Pids
<1>7. Waiting' = {}
  <2>1. Waiting' = {c \in Requests : Count(mailbox', {Request(c)}) # 0} BY CountedNext
  <2> QED BY <1>1, <2>1, NothingCounted
<1>8. Returning' = {}
  <2>1. Returning' = {w \in Own' : Count(mailbox', Freed(w)) # 0} BY CountedNext
  <2> QED BY <1>1, <2>1, NothingCounted
<1>9. Lent' = {}
  <2>1. ASSUME NEW w \in linked' PROVE ServedBy(w)' = {}
    <3>1. w \in Pids /\ w \notin alive BY <1>2, <1>6
    <3>2. from'[w] = NoOne /\ inbox'[w] = <<>> BY <1>1, <3>1 DEF Known, Quiet
    <3>3. ServedBy(w)' = {c \in Requests : from'[w] = c \/ Count(inbox'[w], {Job(c)}) # 0}
      BY <3>1, CountedNext
    <3> QED BY <1>2, <3>2, <3>3, NothingCounted
  <2> QED BY <1>3, <2>1 DEF Lent
<1>10. UNCHANGED Silent BY <1>1 DEF Silent
<1> QED BY <1>5, <1>6, <1>7, <1>8, <1>9, <1>10 DEF Lending!Restart

LEMMA WorkerFreeLends ==
  ASSUME TypeOK, TypeOK', Known, Custody, WorkerFree
  PROVE  [Lending!LendingNext]_(Lending!lendingVars)
<1> DEFINE v == Head(mailbox).who
<1>1. /\ mailbox # <<>> /\ Head(mailbox).kind = "worker_free" /\ mailbox' = Tail(mailbox)
      /\ workers' = Append(workers, v)
      /\ UNCHANGED <<linked, started, alive, from, inbox, cstate>>
  BY DEF WorkerFree, Gets, workerVars, callerVars
<1>2. v \in linked /\ v \in Pids
  <2>1. Head(mailbox) \in ToSet(mailbox) BY <1>1, MailTail
  <2>2. Head(mailbox) \in PoolMessages BY <1>1, HeadOfMailbox
  <2> QED BY <1>1, <2>1, <2>2, MessageTypes DEF Known, Speaks
<1>3. UNCHANGED Own BY <1>1 DEF Own
<1>4. UNCHANGED Lent BY <1>1, <1>3, LentSame DEF ServedBy
<1>5. UNCHANGED Silent BY <1>1 DEF Silent
<1>6. \A c \in Requests : Head(mailbox) # Request(c) BY <1>1 DEF Request
<1>7. UNCHANGED Waiting
  <2>1. ASSUME NEW c \in Requests PROVE Count(mailbox', {Request(c)}) = Count(mailbox, {Request(c)})
    <3>1. /\ Count(mailbox, {Request(c)}) = Count(mailbox', {Request(c)}) + 0
          /\ Count(mailbox', {Request(c)}) \in Nat
      BY <1>1, <1>6, RestOfMail DEF One
    <3> QED BY <3>1
  <2> QED BY <2>1, WaitingSame
<1>8. \A w \in Pids : /\ Count(mailbox, Freed(w)) = Count(mailbox', Freed(w)) + One(v = w)
                      /\ Count(mailbox', Freed(w)) \in Nat
  BY <1>1, RestOfMail DEF One
<1>9. ToSet(workers') = ToSet(workers) \cup {v}
  <2>1. workers \in Seq(Pids) BY DEF TypeOK
  <2> HIDE DEF v
  <2> QED BY <1>1, <1>2, <2>1, ToSetAppend
<1> HIDE DEF v
<1>10. \A w \in Own \ {v} : Count(mailbox', Freed(w)) = Count(mailbox, Freed(w))
  <2> SUFFICES ASSUME NEW w \in Own, w # v
               PROVE  Count(mailbox', Freed(w)) = Count(mailbox, Freed(w))
    OBVIOUS
  <2>1. w \in Pids BY OwnArePids
  <2>2. Count(mailbox, Freed(w)) = Count(mailbox', Freed(w)) + 0 BY <1>8, <2>1 DEF One
  <2> QED BY <1>8, <2>1, <2>2
<1>11. CASE v \in Own
  <2>1. Idle' = Idle \cup {v} BY <1>3, <1>9, <1>11 DEF Idle
  <2>2. Count(mailbox, Freed(v)) = Count(mailbox', Freed(v)) + 1 /\ Count(mailbox', Freed(v)) \in Nat
    BY <1>2, <1>8 DEF One
  <2>3. Count(mailbox, Freed(v)) # 0 /\ Count(mailbox', Freed(v)) = 0
    <3>1. /\ Count(workers, {v}) \in Nat
          /\ Count(workers, {v}) + Count(mailbox, Freed(v)) <= 1
      BY <1>11, InOnePlace
    <3> QED BY <2>2, <3>1
  <2>4. Returning' = {w \in Own : Count(mailbox', Freed(w)) # 0} BY <1>3, CountedNext
  <2>5. Returning = {w \in Own : Count(mailbox, Freed(w)) # 0} BY ReturningIs
  <2>6. v \in Returning /\ Returning' = Returning \ {v}
    BY <1>10, <1>11, <2>3, <2>4, <2>5
  <2>7. Lending!Readmit(v) BY <1>1, <1>4, <1>5, <1>7, <2>1, <2>6 DEF Lending!Readmit
  <2> QED BY <1>2, <2>7 DEF Lending!LendingNext
<1>12. CASE v \notin Own
  <2>1. UNCHANGED Idle BY <1>3, <1>9, <1>12 DEF Idle
  <2>2. UNCHANGED Returning BY <1>3, <1>10, <1>12, ReturningSame
  <2>3. UNCHANGED Lending!lendingVars
    BY <1>1, <1>4, <1>5, <1>7, <2>1, <2>2 DEF Lending!lendingVars
  <2> QED BY <2>3
<1> QED BY <1>11, <1>12

\* The end of a worker is no request and no return.
LEMMA TakesExit ==
  ASSUME TypeOK, TypeOK', Known, Gets("exit"), mailbox' = Tail(mailbox)
  PROVE  /\ Head(mailbox).who \in linked \ alive
         /\ UNCHANGED Waiting
         /\ \A w \in Pids : Count(mailbox', Freed(w)) = Count(mailbox, Freed(w))
<1>1. mailbox # <<>> /\ Head(mailbox).kind = "exit" BY DEF Gets
<1>2. Head(mailbox).who \in linked \ alive BY <1>1, MailTail DEF Known, Speaks
<1>3. ASSUME NEW c \in Requests PROVE Count(mailbox', {Request(c)}) = Count(mailbox, {Request(c)})
  <2>1. Head(mailbox) # Request(c) BY <1>1 DEF Request
  <2>2. /\ Count(mailbox, {Request(c)}) = Count(mailbox', {Request(c)}) + 0
        /\ Count(mailbox', {Request(c)}) \in Nat
    BY <1>1, <2>1, RestOfMail DEF One
  <2> QED BY <2>2
<1>4. UNCHANGED Waiting BY <1>3, WaitingSame
<1>5. \A w \in Pids : Count(mailbox', Freed(w)) = Count(mailbox, Freed(w)) BY <1>1, OtherMail
<1> QED BY <1>2, <1>4, <1>5

LEMMA WorkerExitLends ==
  ASSUME TypeOK, TypeOK', Known, WorkerExit
  PROVE  [Lending!LendingNext]_(Lending!lendingVars)
<1>0. PICK d, rest : d = Head(mailbox).who /\ rest = Without(workers, d) OBVIOUS
<1>1. /\ Gets("exit") /\ mailbox' = Tail(mailbox) /\ UNCHANGED <<from, inbox, cstate>>
      /\ \/ StartWorker /\ workers' = Append(rest, started')
         \/ workers' = rest /\ UNCHANGED <<linked, started, alive>>
  BY <1>0 DEF WorkerExit, callerVars
<1>2. /\ d \in linked \ alive /\ UNCHANGED Waiting
      /\ \A w \in Pids : Count(mailbox', Freed(w)) = Count(mailbox, Freed(w))
  BY <1>0, <1>1, TakesExit
<1>3. rest \in Seq(Pids) /\ ToSet(rest) = ToSet(workers) \ {d}
  <2>1. workers \in Seq(Pids) BY DEF TypeOK
  <2> QED BY <1>0, <2>1, ToSetWithout
<1>4. UNCHANGED Silent BY <1>1 DEF Silent
<1>5. d \notin Own BY <1>2 DEF Own
<1>6. CASE StartWorker /\ workers' = Append(rest, started')
  <2>0. PICK h : h = started' OBVIOUS
  <2>1. /\ h \in Pids /\ h \notin 1..started /\ (1..started)' = 1..started \cup {h}
        /\ Own' = Own \cup {h} /\ h \notin Own /\ h \notin ToSet(workers)
        /\ from[h] = NoOne /\ inbox[h] = <<>> /\ Count(mailbox, Freed(h)) = 0
    BY <1>6, <2>0, NewLends
  <2>2. ToSet(workers') = ToSet(rest) \cup {h}
    BY <1>3, <1>6, <2>0, <2>1, ToSetAppend
  <2>3. Idle' = Idle \cup {h} BY <1>3, <1>5, <2>1, <2>2 DEF Idle
  <2>4. ServedBy(h)' = {}
    <3>1. NoOne \notin Requests BY Bounds
    <3>2. ServedBy(h)' = {c \in Requests : from'[h] = c \/ Count(inbox'[h], {Job(c)}) # 0}
      BY <2>1, CountedNext
    <3>3. from'[h] = NoOne /\ inbox'[h] = <<>> BY <1>1, <2>1
    <3> QED BY <3>1, <3>2, <3>3, NothingCounted
  <2>5. \A u \in Own : ServedBy(u)' = ServedBy(u) BY <1>1 DEF ServedBy
  <2>6. UNCHANGED Lent
    <3>1. Lent' = {p \in Own' \X Requests : p[2] \in ServedBy(p[1])'} BY DEF Lent
    <3>2. ASSUME NEW u, NEW c PROVE <<u, c>> \in Lent' <=> <<u, c>> \in Lent
      <4>1. <<u, c>> \in Lent' <=> u \in Own' /\ c \in Requests /\ c \in ServedBy(u)' BY <3>1
      <4>2. <<u, c>> \in Lent <=> u \in Own /\ c \in Requests /\ c \in ServedBy(u) BY DEF Lent
      <4>3. CASE u = h BY <2>1, <2>4, <4>1, <4>2, <4>3
      <4>4. CASE u # h BY <2>1, <2>5, <4>1, <4>2, <4>4
      <4> QED BY <4>3, <4>4
    <3>3. /\ \A p \in Lent : p = <<p[1], p[2]>>
          /\ \A p \in Lent' : p = <<p[1], p[2]>>
      BY <3>1 DEF Lent
    <3> QED BY <3>2, <3>3
  <2>7. UNCHANGED Returning
    <3>1. Returning' = {w \in Own' : Count(mailbox', Freed(w)) # 0} BY CountedNext
    <3>2. Returning = {w \in Own : Count(mailbox, Freed(w)) # 0} BY ReturningIs
    <3> QED BY <1>2, <2>1, <3>1, <3>2, OwnArePids
  <2>8. Lending!Hire(h) BY <1>2, <1>4, <2>1, <2>3, <2>6, <2>7 DEF Lending!Hire
  <2> QED BY <2>1, <2>8 DEF Lending!LendingNext
<1>7. CASE workers' = rest /\ UNCHANGED <<linked, started, alive>>
  <2>1. UNCHANGED Own BY <1>7 DEF Own
  <2>2. UNCHANGED Idle BY <1>3, <1>5, <1>7, <2>1 DEF Idle
  <2>3. UNCHANGED Lent BY <1>1, <2>1, LentSame DEF ServedBy
  <2>4. UNCHANGED Returning BY <1>2, <2>1, OwnArePids, ReturningSame
  <2>5. UNCHANGED Lending!lendingVars
    BY <1>2, <1>4, <1>7, <2>2, <2>3, <2>4 DEF Lending!lendingVars
  <2> QED BY <2>5
<1> QED BY <1>1, <1>6, <1>7

LEMMA ReduceLends ==
  ASSUME TypeOK, TypeOK', ReduceLaborForce
  PROVE  Lending!Dismiss
<1>1. UNCHANGED <<mailbox, linked, started, alive, from, cstate>>
  BY DEF ReduceLaborForce, callerVars
<1>2. /\ ToSet(workers') \subseteq ToSet(workers)
      /\ \A w \in Pids : inbox'[w] = inbox[w] \/ inbox'[w] = Append(inbox[w], Halt)
  <2>1. ASSUME NEW reduce \in Int, reduce > 0, ReduceWorkers(reduce)
        PROVE  /\ ToSet(workers') \subseteq ToSet(workers)
               /\ \A w \in Pids : inbox'[w] = inbox[w] \/ inbox'[w] = Append(inbox[w], Halt)
    <3>1. PICK n \in 0..Len(workers) :
            /\ workers' = SubSeq(workers, n + 1, Len(workers))
            /\ inbox' = [w \in Pids |-> IF w \in {workers[i] : i \in 1..n} \cap alive
                                        THEN Append(inbox[w], [kind |-> "stop"])
                                        ELSE inbox[w]]
      BY <2>1, ReduceTypes
    <3>2. workers \in Seq(Pids) BY DEF TypeOK
    <3>3. ToSet(workers') \subseteq ToSet(workers) BY <3>1, <3>2, ToSetSuffix
    <3>4. \A w \in Pids : inbox'[w] = inbox[w] \/ inbox'[w] = Append(inbox[w], Halt)
      BY <3>1 DEF Halt
    <3> QED BY <3>3, <3>4
  <2>2. CASE UNCHANGED <<inbox, workers, worker_count>> BY <2>2
  <2> QED BY <2>1, <2>2, ReducedOrNot
<1>3. UNCHANGED Own BY <1>1 DEF Own
<1>4. Idle' \subseteq Idle BY <1>2, <1>3 DEF Idle
<1>5. Halt \in WorkerMessages /\ Halt.kind # "employed" BY MessageTypes DEF Halt
<1>6. \A w \in Pids : ServedBy(w)' = ServedBy(w) BY <1>1, <1>2, <1>5, ServedKept
<1>7. UNCHANGED Lent BY <1>3, <1>6, OwnArePids, LentSame
<1>8. UNCHANGED <<Silent, Waiting, Returning>> BY <1>1, <1>3 DEF Silent, Waiting, Returning
<1> QED BY <1>1, <1>4, <1>7, <1>8 DEF Lending!Dismiss

-----------------------------------------------------------------------------

LEMMA InitLends == Init => Lending!LendingInit
<1> SUFFICES ASSUME Init PROVE Lending!LendingInit OBVIOUS
<1>1. /\ workers = [i \in 1..OWC |-> i] /\ mailbox = <<>> /\ linked = 1..OWC
      /\ started = OWC /\ alive = 1..OWC /\ from = [w \in Pids |-> NoOne]
      /\ inbox = [w \in Pids |-> <<>>] /\ cstate = [c \in Requests |-> "new"]
  BY DEF Init
<1>2. OWC \in Nat /\ MaxWorkers \in Nat /\ OWC <= MaxWorkers /\ NoOne \notin Requests
  BY PoolAssumption DEF Requests
<1>3. 1..OWC \subseteq Pids BY <1>2 DEF Pids
<1>4. Own = 1..OWC BY <1>1 DEF Own
<1>5. ToSet(workers) = 1..OWC BY <1>1 DEF ToSet
<1>6. Idle = 1..started BY <1>1, <1>4, <1>5 DEF Idle
<1>7. ToSet(mailbox) = {} /\ \A w \in Pids : ToSet(inbox[w]) = {} BY <1>1 DEF ToSet
<1>8. Waiting = {} /\ Returning = {} BY <1>7 DEF Waiting, Returning
<1>9. \A w \in Own : ServedBy(w) = {} BY <1>1, <1>2, <1>3, <1>4, <1>7 DEF ServedBy
<1>10. Lent = {} BY <1>9 DEF Lent
<1>11. Silent = Requests BY <1>1 DEF Silent
<1> QED BY <1>1, <1>3, <1>6, <1>8, <1>10, <1>11 DEF Lending!LendingInit

LEMMA NextLends ==
  ASSUME TypeOK, TypeOK', Known, Custody, AsksOnce, [Next]_vars
  PROVE  [Lending!LendingNext]_(Lending!lendingVars)
<1>1. ASSUME NEW c \in Requests, Ask(c) \/ TimesOut(c) \/ Ends(c)
      PROVE  [Lending!LendingNext]_(Lending!lendingVars)
  BY <1>1, CallerLends
<1>2. ASSUME NEW v \in Pids, WorkerStep(v) \/ Crash(v)
      PROVE  [Lending!LendingNext]_(Lending!lendingVars)
  BY <1>2, WorkerLends
<1>3. ASSUME NEW v \in Pids, NEW c \in Requests, Answer(v, c) \/ ResponderEnds(v, c)
      PROVE  [Lending!LendingNext]_(Lending!lendingVars)
  <2>1. UNCHANGED Lending!lendingVars BY <1>3, BrokerLends
  <2> QED BY <2>1
<1>4. CASE HandOver
  <2>1. Head(mailbox).who \in Requests BY <1>4, TakesRequest DEF HandOver
  <2>2. Lending!Lend(Head(workers), Head(mailbox).who) /\ Head(workers) \in Pids
    BY <1>4, HandOverLends
  <2> QED BY <2>1, <2>2 DEF Lending!LendingNext
<1>5. CASE HireFor
  <2>1. Head(mailbox).who \in Requests BY <1>5, TakesRequest DEF HireFor
  <2>2. started' \in Pids BY <1>5, HireTypes DEF HireFor
  <2>3. Lending!Lend(started', Head(mailbox).who) BY <1>5, HireForLends
  <2> QED BY <2>1, <2>2, <2>3 DEF Lending!LendingNext
<1>6. CASE PoolCrash
  <2>1. Lending!Restart BY <1>6, PoolCrashLends
  <2> QED BY <2>1 DEF Lending!LendingNext
<1>7. CASE WorkerFree BY <1>7, WorkerFreeLends
<1>8. CASE WorkerExit BY <1>8, WorkerExitLends
<1>9. CASE ReduceLaborForce
  <2>1. Lending!Dismiss BY <1>9, ReduceLends
  <2> QED BY <2>1 DEF Lending!LendingNext
<1>10. CASE UNCHANGED vars
  <2>1. UNCHANGED Lending!lendingVars
    BY <1>10 DEF vars, poolVars, workerVars, callerVars, Lending!lendingVars, Silent, Waiting,
                 Idle, Lent, Returning, Own, ServedBy
  <2> QED BY <2>1
<1> QED BY <1>1, <1>2, <1>3, <1>4, <1>5, <1>6, <1>7, <1>8, <1>9, <1>10 DEF Next, PoolStep

\* The pool lends its workers as WorkerLending says: each of its steps is a step
\* of that specification or leaves the lending as it is.  That a worker is in one
\* place makes its request unique and its return final, that a request is made
\* once makes its worker unique (ecallmgr_amqp_pool.erl handle_call, handle_info,
\* ecallmgr_amqp_pool_worker.erl).
THEOREM PoolLendsItsWorkers == Spec => ImplementsLending
<1> DEFINE IInv == TypeOK /\ Known /\ Custody /\ AsksOnce
<1>1. Init => IInv BY InitTypes, InitKnown, InitCustody, InitOnce
<1>2. IInv /\ [Next]_vars => IInv' BY NextTypes, NextKnown, CustodyStep, NextOnce
<1>3. IInv /\ IInv' /\ [Next]_vars => [Lending!LendingNext]_(Lending!lendingVars) BY NextLends
<1>4. Init => Lending!LendingInit BY InitLends
<1> HIDE DEF IInv
<1> QED BY <1>1, <1>2, <1>3, <1>4, PTL DEF Spec, ImplementsLending, Lending!LendingSpec

\* What the promise amounts to, from the promise alone.
LEMMA OneEachKept ==
  Lending!OneEach /\ [Lending!LendingNext]_(Lending!lendingVars) => Lending!OneEach'
<1> SUFFICES ASSUME Lending!OneEach, [Lending!LendingNext]_(Lending!lendingVars)
             PROVE  Lending!OneEach'
  OBVIOUS
<1> USE DEF Lending!OneEach
<1>1. ASSUME NEW c \in Requests, Lending!Make(c) PROVE Lending!OneEach'
  BY <1>1 DEF Lending!Make
<1>2. ASSUME NEW w \in Pids, Lending!Readmit(w) PROVE Lending!OneEach'
  BY <1>2 DEF Lending!Readmit
<1>3. ASSUME NEW w \in Pids, Lending!Hire(w) PROVE Lending!OneEach'
  BY <1>3 DEF Lending!Hire
<1>4. ASSUME NEW w \in Pids, Lending!Fail(w) PROVE Lending!OneEach'
  BY <1>4 DEF Lending!Fail
<1>5. ASSUME NEW w \in Pids, NEW c \in Requests, Lending!Lend(w, c) PROVE Lending!OneEach'
  BY <1>5 DEF Lending!Lend
<1>6. ASSUME NEW w \in Pids, NEW c \in Requests, Lending!Return(w, c) PROVE Lending!OneEach'
  BY <1>6 DEF Lending!Return
<1>7. CASE Lending!Dismiss BY <1>7 DEF Lending!Dismiss
<1>8. CASE Lending!Restart BY <1>8 DEF Lending!Restart
<1>9. CASE UNCHANGED Lending!lendingVars BY <1>9 DEF Lending!lendingVars
<1> QED
  BY <1>1, <1>2, <1>3, <1>4, <1>5, <1>6, <1>7, <1>8, <1>9 DEF Lending!LendingNext

\* No request is given to two workers, nor two requests to a worker, and a worker
\* that is lent is not in the pool, also when the process that made the request
\* gave it up, lives on and has made others, for which it may have further workers
\* (ecallmgr_amqp_pool.erl handle_call, ecallmgr_amqp_pool_worker.erl handle_cast
\* employed, ecallmgr_media_registry.erl lookup_remote).
THEOREM OneWorkerToARequest == Spec => []Lending!OneEach
<1>1. Lending!LendingInit => Lending!OneEach BY DEF Lending!LendingInit, Lending!OneEach
<1>2. Lending!LendingSpec => []Lending!OneEach
  BY <1>1, OneEachKept, PTL DEF Lending!LendingSpec
<1>3. Spec => Lending!LendingSpec BY PoolLendsItsWorkers DEF ImplementsLending
<1> QED BY <1>2, <1>3, PTL

-----------------------------------------------------------------------------
(* A busy worker is told of the end of its caller.  No message but a 'DOWN'  *)
(* of its caller ends the worker's custody of it, so it is enough that the   *)
(* 'DOWN' is not lost on its way.                                            *)

Heard(w) ==
  from[w] # NoOne =>
    IF cstate[from[w]] = "gone" THEN Down(from[w]) \in ToSet(inbox[w])
                                ELSE from[w] \in monitors[w]

LEMMA HeardAll == EndIsHeard <=> \A w \in Pids : Heard(w)
BY DEF EndIsHeard, Heard, Down

\* A message to a worker is added to those it has, and it loses but the first.
LEMMA InboxAppend ==
  ASSUME TypeOK, NEW w \in Pids, NEW m \in WorkerMessages
  PROVE  ToSet(Append(inbox[w], m)) = ToSet(inbox[w]) \cup {m}
<1>1. inbox[w] \in Seq(WorkerMessages) BY DEF TypeOK
<1> QED BY <1>1, ToSetAppend

LEMMA InboxTail ==
  ASSUME TypeOK, NEW w \in Pids, inbox[w] # <<>>
  PROVE  /\ ToSet(inbox[w]) = {First(w)} \cup ToSet(Tail(inbox[w]))
         /\ \A m \in WorkerMessages :
              ToSet(Append(Tail(inbox[w]), m)) = ToSet(Tail(inbox[w])) \cup {m}
<1>1. inbox[w] \in Seq(WorkerMessages) BY DEF TypeOK
<1>2. Tail(inbox[w]) \in Seq(WorkerMessages) BY HeadOfInbox
<1>3. ToSet(inbox[w]) = {First(w)} \cup ToSet(Tail(inbox[w])) BY <1>1, ToSetTail DEF First
<1>4. \A m \in WorkerMessages :
        ToSet(Append(Tail(inbox[w]), m)) = ToSet(Tail(inbox[w])) \cup {m}
  BY <1>2, ToSetAppend
<1> QED BY <1>3, <1>4

\* A worker that becomes free, or has the same request and no less mail.
LEMMA HeardKept ==
  ASSUME TypeOK, NEW w \in Pids, Heard(w),
         \A c \in Requests : cstate'[c] = "gone" <=> cstate[c] = "gone",
         \/ from'[w] = NoOne
         \/ /\ from'[w] = from[w] /\ monitors'[w] = monitors[w]
            /\ Down(from[w]) \in ToSet(inbox[w]) => Down(from[w]) \in ToSet(inbox'[w])
  PROVE  Heard(w)'
<1>1. from[w] # NoOne => from[w] \in Requests BY DEF TypeOK
<1>2. CASE from'[w] = NoOne BY <1>2 DEF Heard
<1>3. CASE /\ from'[w] = from[w] /\ monitors'[w] = monitors[w]
           /\ Down(from[w]) \in ToSet(inbox[w]) => Down(from[w]) \in ToSet(inbox'[w])
  BY <1>1, <1>3 DEF Heard, Down
<1> QED BY <1>2, <1>3

LEMMA CallerHeard ==
  ASSUME TypeOK, NEW c \in Requests, Ask(c) \/ TimesOut(c) \/ Ends(c), NEW w \in Pids, Heard(w)
  PROVE  Heard(w)'
<1>1. CASE Ask(c) \/ TimesOut(c)
  <2>1. \A d \in Requests : cstate'[d] = "gone" <=> cstate[d] = "gone"
    BY <1>1 DEF Ask, TimesOut, TypeOK
  <2>2. UNCHANGED <<from, monitors, inbox>> BY <1>1 DEF Ask, TimesOut, workerVars
  <2> QED BY <2>1, <2>2, HeardKept
<1>2. CASE Ends(c)
  <2>1. /\ cstate' = [cstate EXCEPT ![c] = "gone"] /\ cstate[c] # "gone" /\ from' = from
        /\ inbox'[w] = IF c \in monitors[w] THEN Append(inbox[w], Down(c)) ELSE inbox[w]
        /\ monitors'[w] = monitors[w] \ {c}
    BY <1>2 DEF Ends, Down
  <2>2. Down(c) \in WorkerMessages BY MessageTypes DEF Down
  <2>3. ToSet(inbox[w]) \subseteq ToSet(inbox'[w]) BY <2>1, <2>2, InboxAppend
  <2>4. c \in monitors[w] => Down(c) \in ToSet(inbox'[w]) BY <2>1, <2>2, InboxAppend
  <2>5. from[w] = NoOne \/ from[w] \in Requests BY DEF TypeOK
  <2>6. \A d \in Requests : cstate'[d] = IF d = c THEN "gone" ELSE cstate[d]
    BY <2>1 DEF TypeOK
  <2>7. CASE from[w] = NoOne BY <2>1, <2>7 DEF Heard
  <2>8. CASE from[w] # NoOne /\ from[w] = c
    <3>1. c \in monitors[w] BY <2>1, <2>8 DEF Heard
    <3> QED BY <2>1, <2>4, <2>6, <2>8, <3>1 DEF Heard, Down
  <2>9. CASE from[w] # NoOne /\ from[w] # c
    BY <2>1, <2>3, <2>5, <2>6, <2>9 DEF Heard, Down
  <2> QED BY <2>7, <2>8, <2>9
<1> QED BY <1>1, <1>2

\* A worker's own step, seen from another worker.
LEMMA OthersHeard ==
  ASSUME TypeOK, NEW v \in Pids, WorkerStep(v) \/ Crash(v), NEW w \in Pids, w # v, Heard(w)
  PROVE  Heard(w)'
<1>1. from'[w] = from[w] /\ monitors'[w] = monitors[w] /\ inbox'[w] = inbox[w]
  BY DEF WorkerStep, Crash, Employed, Respond, GiveUp, Unhandled, Stop, Dies, Received, TypeOK
<1>2. \A d \in Requests : cstate'[d] = "gone" <=> cstate[d] = "gone"
  BY DEF WorkerStep, Crash, Employed, Respond, GiveUp, Unhandled, Stop, Dies, callerVars, TypeOK
<1> QED BY <1>1, <1>2, HeardKept

LEMMA WorkerHeard ==
  ASSUME TypeOK, NEW w \in Pids, WorkerStep(w) \/ Crash(w), Heard(w)
  PROVE  Heard(w)'
<1>0. \A d \in Requests : cstate'[d] = "gone" <=> cstate[d] = "gone"
  BY DEF WorkerStep, Crash, Employed, Respond, GiveUp, Unhandled, Stop, Dies, callerVars, TypeOK
<1>1. CASE Employed(w)
  <2>1. inbox[w] # <<>> /\ First(w).kind = "employed" /\ from[w] = NoOne
    BY <1>1 DEF Employed, Has
  <2>2. PICK c : c = First(w).who OBVIOUS
  <2>3. c \in Requests BY <2>1, <2>2, HeadOfInbox, MessageTypes
  <2>4. Down(c) \in WorkerMessages BY <2>3, MessageTypes DEF Down
  <2>5. /\ from'[w] \in {c, NoOne} /\ cstate' = cstate
        /\ inbox'[w] = IF cstate[c] = "gone" THEN Append(Tail(inbox[w]), Down(c))
                                             ELSE Tail(inbox[w])
        /\ cstate[c] # "gone" => c \in monitors'[w]
    BY <1>1, <2>1, <2>2 DEF Employed, Down, callerVars, TypeOK
  <2>6. cstate[c] = "gone" => Down(c) \in ToSet(inbox'[w])
    BY <2>1, <2>4, <2>5, InboxTail
  <2> QED BY <2>3, <2>5, <2>6 DEF Heard, Down
<1>2. CASE Respond(w)
  <2>1. from'[w] = NoOne BY <1>2 DEF Respond, TypeOK
  <2> QED BY <1>0, <2>1, HeardKept
<1>3. CASE GiveUp(w)
  <2>1. from'[w] = NoOne BY <1>3 DEF GiveUp, TypeOK
  <2> QED BY <1>0, <2>1, HeardKept
<1>4. CASE Unhandled(w)
  <2>1. inbox[w] # <<>> /\ (First(w).kind = "down" => from[w] # First(w).who)
    BY <1>4 DEF Unhandled, Has
  <2>2. from' = from /\ monitors' = monitors /\ inbox'[w] = Tail(inbox[w])
    BY <1>4 DEF Unhandled, Received, TypeOK
  <2>3. First(w) # Down(from[w]) BY <2>1 DEF Down
  <2>4. Down(from[w]) \in ToSet(inbox[w]) => Down(from[w]) \in ToSet(inbox'[w])
    BY <2>1, <2>2, <2>3, InboxTail
  <2> QED BY <1>0, <2>2, <2>4, HeardKept
<1>5. CASE Stop(w) \/ Crash(w)
  <2>1. CASE Dies(w)
    <3>1. from'[w] = NoOne BY <2>1 DEF Dies, TypeOK
    <3> QED BY <1>0, <3>1, HeardKept
  <2>2. CASE ~Dies(w)
    <3>1. /\ inbox[w] # <<>> /\ First(w).kind = "stop"
          /\ from' = from /\ monitors' = monitors /\ inbox'[w] = Tail(inbox[w])
      BY <1>5, <2>2 DEF Stop, Crash, Has, Received, TypeOK
    <3>2. First(w) # Down(from[w]) BY <3>1 DEF Down
    <3>3. Down(from[w]) \in ToSet(inbox[w]) => Down(from[w]) \in ToSet(inbox'[w])
      BY <3>1, <3>2, InboxTail
    <3> QED BY <1>0, <3>1, <3>3, HeardKept
  <2> QED BY <2>1, <2>2
<1> QED BY <1>1, <1>2, <1>3, <1>4, <1>5 DEF WorkerStep

LEMMA BrokerHeard ==
  ASSUME TypeOK, NEW v \in Pids, NEW c \in Requests, Answer(v, c) \/ ResponderEnds(v, c),
         NEW w \in Pids, Heard(w)
  PROVE  Heard(w)'
<1>1. /\ UNCHANGED <<from, monitors, cstate>>
      /\ inbox'[w] = inbox[w] \/ inbox'[w] = Append(inbox[w], [kind |-> "response", who |-> c])
  BY DEF Answer, ResponderEnds, callerVars, TypeOK
<1>2. ToSet(inbox[w]) \subseteq ToSet(inbox'[w]) BY <1>1, MessageTypes, InboxAppend
<1> QED BY <1>1, <1>2, HeardKept

\* The pool only adds to what a worker has to do.
LEMMA PoolHeard ==
  ASSUME TypeOK, PoolStep \/ ReduceLaborForce, NEW w \in Pids, Heard(w)
  PROVE  Heard(w)'
<1>1. UNCHANGED <<from, monitors>>
  BY DEF PoolStep, HandOver, HireFor, PoolCrash, WorkerFree, WorkerExit, ReduceLaborForce, workerVars
<1>2. \A d \in Requests : cstate'[d] = "gone" <=> cstate[d] = "gone"
  BY DEF PoolStep, HandOver, HireFor, PoolCrash, WorkerFree, WorkerExit, ReduceLaborForce,
         callerVars, TypeOK
<1>3. \/ inbox'[w] = inbox[w]
      \/ \E m \in WorkerMessages : inbox'[w] = Append(inbox[w], m)
  <2>1. [kind |-> "stop"] \in WorkerMessages BY MessageTypes
  <2>2. CASE HandOver \/ HireFor
    <3>1. mailbox # <<>> /\ Head(mailbox).kind = "request"
      BY <2>2 DEF HandOver, HireFor, Gets
    <3>2. [kind |-> "employed", who |-> Head(mailbox).who] \in WorkerMessages
      BY <3>1, HeadOfMailbox, MessageTypes
    <3>3. \/ inbox'[w] = inbox[w]
          \/ inbox'[w] = Append(inbox[w], [kind |-> "employed", who |-> Head(mailbox).who])
      BY <2>2 DEF HandOver, HireFor, Cast, TypeOK
    <3> QED BY <3>2, <3>3
  <2>3. CASE PoolCrash BY <2>1, <2>3 DEF PoolCrash
  <2>4. CASE WorkerFree \/ WorkerExit BY <2>4 DEF WorkerFree, WorkerExit, workerVars
  <2>5. CASE ReduceLaborForce
    <3>1. CASE UNCHANGED <<inbox, workers, worker_count>> BY <3>1
    <3>2. ASSUME NEW reduce \in Int, reduce > 0, ReduceWorkers(reduce)
          PROVE  inbox'[w] = inbox[w] \/ inbox'[w] = Append(inbox[w], [kind |-> "stop"])
      BY <3>2, ReduceTypes
    <3> QED BY <2>1, <2>5, <3>1, <3>2, ReducedOrNot
  <2> QED BY <2>2, <2>3, <2>4, <2>5 DEF PoolStep
<1>4. ToSet(inbox[w]) \subseteq ToSet(inbox'[w]) BY <1>3, InboxAppend
<1> QED BY <1>1, <1>2, <1>4, HeardKept

LEMMA HeardStep == TypeOK /\ EndIsHeard /\ [Next]_vars => EndIsHeard'
<1> SUFFICES ASSUME TypeOK, EndIsHeard, [Next]_vars, NEW w \in Pids PROVE Heard(w)'
  BY DEF EndIsHeard, Heard, Down
<1>1. Heard(w) BY HeardAll
<1>2. ASSUME NEW v \in Pids, WorkerStep(v) \/ Crash(v) PROVE Heard(w)'
  BY <1>1, <1>2, OthersHeard, WorkerHeard
<1>3. CASE UNCHANGED vars BY <1>1, <1>3 DEF vars, workerVars, callerVars, Heard, Down
<1> QED BY <1>1, <1>2, <1>3, CallerHeard, BrokerHeard, PoolHeard DEF Next

\* A busy worker monitors its caller, or has the 'DOWN' of it, whether the caller
\* times out, asks again, ends before or after it is employed for, or the pool is restarted:
\* what makes WorkersReturn hold when no answer comes (worker.erl:115-124, 150-153).
THEOREM BusyHearOfTheEnd == Spec => []EndIsHeard
<1>1. Init => EndIsHeard BY DEF Init, EndIsHeard
<1>2. TypeOK /\ EndIsHeard /\ [Next]_vars => EndIsHeard' BY HeardStep
<1> QED BY <1>1, <1>2, TypesHold, PTL DEF Spec

=============================================================================
