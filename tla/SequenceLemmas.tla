---------------------------- MODULE SequenceLemmas ----------------------------
(***************************************************************************)
(* What taking elements out of a sequence and adding one at its end do,    *)
(* for the queues of this project, and what Selection computes.            *)
(***************************************************************************)
EXTENDS SequencesExt, Selection, SequenceTheorems, FiniteSetTheorems, TLAPS

(* Removing position k of a sequence moves the later elements down by one. *)
LEMMA RemoveAtElements ==
  ASSUME NEW S, NEW s \in Seq(S), NEW k \in 1..Len(s)
  PROVE  LET t == RemoveAt(s, k)
         IN  /\ t \in Seq(S)
             /\ Len(t) = Len(s) - 1
             /\ \A j \in 1..Len(t) : t[j] = IF j < k THEN s[j] ELSE s[j + 1]
<1> DEFINE a == SubSeq(s, 1, k - 1)
           b == SubSeq(s, k + 1, Len(s))
<1>1. /\ a \in Seq(S) /\ Len(a) = k - 1
      /\ \A j \in 1..(k - 1) : a[j] = s[j]
  BY SubSeqProperties
<1>2. /\ b \in Seq(S) /\ Len(b) = Len(s) - k
      /\ \A j \in 1..(Len(s) - k) : b[j] = s[k + j]
  BY SubSeqProperties
<1>3. RemoveAt(s, k) = a \o b
  BY DEF RemoveAt
<1> HIDE DEF a, b
<1>4. /\ a \o b \in Seq(S)
      /\ Len(a \o b) = Len(a) + Len(b)
      /\ \A i \in 1..(Len(a) + Len(b)) :
           (a \o b)[i] = IF i <= Len(a) THEN a[i] ELSE b[i - Len(a)]
  BY <1>1, <1>2, ConcatProperties
<1>5. Len(s) \in Nat
  BY LenProperties
<1>6. ASSUME NEW j \in 1..(Len(s) - 1)
      PROVE  (a \o b)[j] = IF j < k THEN s[j] ELSE s[j + 1]
  <2>1. CASE j < k
    BY <2>1, <1>1, <1>2, <1>4, <1>5
  <2>2. CASE ~(j < k)
    <3>1. j - (k - 1) \in 1..(Len(s) - k) /\ k + (j - (k - 1)) = j + 1
      BY <2>2, <1>5
    <3>2. (a \o b)[j] = b[j - (k - 1)]
      BY <2>2, <1>1, <1>2, <1>4, <1>5
    <3> QED BY <2>2, <3>1, <3>2, <1>2
  <2> QED BY <2>1, <2>2
<1>7. Len(a \o b) = Len(s) - 1
  BY <1>1, <1>2, <1>4, <1>5
<1> QED BY <1>3, <1>4, <1>6, <1>7, Zenon

(* All the elements of a sequence are in S, and no element occurs twice.   *)
OnceFrom(s, S) ==
  /\ \A j \in DOMAIN s : s[j] \in S
  /\ \A j, k \in DOMAIN s : s[j] = s[k] => j = k

(* What is left after element k is taken out occurs once, and is not the   *)
(* element that was taken.                                                 *)
LEMMA RemoveAtOnce ==
  ASSUME NEW T, NEW s \in Seq(T), NEW S, OnceFrom(s, S), NEW k \in DOMAIN s
  PROVE  RemoveAt(s, k) \in Seq(T) /\ OnceFrom(RemoveAt(s, k), S \ {s[k]})
<1> DEFINE t == RemoveAt(s, k)
<1>1. Len(s) \in Nat /\ DOMAIN s = 1..Len(s)
  BY LenProperties
<1>2. /\ t \in Seq(T)
      /\ Len(t) = Len(s) - 1
      /\ \A j \in 1..Len(t) : t[j] = IF j < k THEN s[j] ELSE s[j + 1]
  BY <1>1, RemoveAtElements
<1> HIDE DEF t
<1>3. DOMAIN t = 1..Len(t)
  BY <1>2, LenProperties
<1> DEFINE from(j) == IF j < k THEN j ELSE j + 1
<1>4. ASSUME NEW j \in 1..Len(t)
      PROVE  from(j) \in 1..Len(s) /\ from(j) # k /\ t[j] = s[from(j)]
  BY <1>1, <1>2
<1>5. ASSUME NEW j \in 1..Len(t), NEW l \in 1..Len(t), from(j) = from(l)
      PROVE  j = l
  BY <1>5, <1>1, <1>2
<1> HIDE DEF from
<1>6. OnceFrom(t, S \ {s[k]})
  BY <1>1, <1>3, <1>4, <1>5 DEF OnceFrom
<1> QED BY <1>2, <1>6 DEF t

(* The same for the head of a queue. *)
LEMMA TailOnce ==
  ASSUME NEW T, NEW s \in Seq(T), NEW S, OnceFrom(s, S), s # <<>>
  PROVE  /\ Tail(s) \in Seq(T) /\ Head(s) \in S /\ Head(s) \in T
         /\ OnceFrom(Tail(s), S \ {Head(s)})
<1>1. Len(s) \in Nat \ {0} /\ DOMAIN s = 1..Len(s)
  BY LenProperties, EmptySeq
<1>2. /\ Tail(s) \in Seq(T) /\ Len(Tail(s)) = Len(s) - 1
      /\ \A i \in 1..Len(Tail(s)) : Tail(s)[i] = s[i + 1]
      /\ Head(s) = s[1]
  BY <1>1, HeadTailProperties
<1>3. DOMAIN Tail(s) = 1..(Len(s) - 1)
  BY <1>2, LenProperties
<1> QED BY <1>1, <1>2, <1>3, ElementOfSeq DEF OnceFrom

(* The same for an element that joins at the end. *)
LEMMA AppendOnce ==
  ASSUME NEW T, NEW s \in Seq(T), NEW S, OnceFrom(s, S), NEW e \in T, e \notin S
  PROVE  /\ Append(s, e) \in Seq(T)
         /\ OnceFrom(Append(s, e), S \cup {e})
<1>1. Len(s) \in Nat /\ DOMAIN s = 1..Len(s)
  BY LenProperties
<1>2. /\ Append(s, e) \in Seq(T) /\ Len(Append(s, e)) = Len(s) + 1
      /\ \A i \in 1..Len(s) : Append(s, e)[i] = s[i]
      /\ Append(s, e)[Len(s) + 1] = e
  BY <1>1, AppendProperties
<1>3. DOMAIN Append(s, e) = 1..(Len(s) + 1)
  BY <1>2, LenProperties
<1> QED BY <1>1, <1>2, <1>3 DEF OnceFrom
-----------------------------------------------------------------------------
(* Ascending(K) enumerates K: it is increasing and misses nothing.         *)
LEMMA AscendingEnumerates ==
  ASSUME NEW K \in SUBSET Nat, IsFiniteSet(K)
  PROVE  LET f == Ascending(K)
         IN  /\ Cardinality(K) \in Nat
             /\ f \in [1..Cardinality(K) -> K]
             /\ \A m, n \in 1..Cardinality(K) : m < n => f[m] < f[n]
             /\ \A k \in K : \E n \in 1..Cardinality(K) : f[n] = k
<1> DEFINE N == Cardinality(K)
           below(k) == {j \in K : j < k}
           rank == [k \in K |-> Cardinality(below(k))]
           f == Ascending(K)
<1>0. N \in Nat /\ \A k \in K : k \in Nat
  BY FS_CardinalityType
<1>1. ASSUME NEW k \in K
      PROVE  /\ IsFiniteSet(below(k)) /\ IsFiniteSet(K \ {k})
             /\ Cardinality(K \ {k}) = N - 1
             /\ rank[k] \in 0..(N - 1)
  <2>1. IsFiniteSet(K \ {k}) /\ Cardinality(K \ {k}) = N - 1
    BY FS_RemoveElement
  <2>2. below(k) \in SUBSET (K \ {k})
    OBVIOUS
  <2>3. IsFiniteSet(below(k)) /\ Cardinality(below(k)) <= N - 1
    BY <2>1, <2>2, FS_Subset
  <2>4. Cardinality(below(k)) \in Nat
    BY <2>3, FS_CardinalityType
  <2> QED BY <1>0, <2>1, <2>3, <2>4
<1>2. ASSUME NEW k \in K, NEW l \in K, k < l
      PROVE  rank[k] < rank[l]
  <2>1. IsFiniteSet(below(k)) /\ IsFiniteSet(below(l))
    BY ONLY <1>1
  <2>2. k \notin below(k) /\ below(k) \cup {k} \in SUBSET below(l)
    <3>1. ~(k < k) /\ \A j \in K : j < k => j < l
      BY <1>0, <1>2
    <3> QED BY <1>2, <3>1, Zenon
  <2>3. Cardinality(below(k) \cup {k}) = Cardinality(below(k)) + 1
    BY <2>1, <2>2, FS_AddElement
  <2>4. Cardinality(below(k) \cup {k}) <= Cardinality(below(l))
    BY <2>1, <2>2, FS_Subset
  <2>5. Cardinality(below(k)) \in Nat /\ Cardinality(below(l)) \in Nat
    BY <2>1, FS_CardinalityType
  <2> QED BY <2>3, <2>4, <2>5
<1> HIDE DEF below
<1>3. ASSUME NEW k \in K, NEW l \in K, rank[k] = rank[l]
      PROVE  k = l
  <2>1. rank[k] \in 0..(N - 1) /\ rank[l] \in 0..(N - 1)
    BY <1>1
  <2>2. ~(rank[k] < rank[l]) /\ ~(rank[l] < rank[k])
    BY <1>0, <1>3, <2>1
  <2>3. ~(k < l) /\ ~(l < k)
    BY <1>2, <2>2
  <2> QED BY <1>0, <2>3
<1>4. rank \in Injection(K, 0..(N - 1))
  BY <1>1, <1>3 DEF Injection, IsInjective
<1>5. IsFiniteSet(0..(N - 1)) /\ Cardinality(0..(N - 1)) = N
  <2>1. 0 \in Int /\ N - 1 \in Int /\ (0 > N - 1 => N = 0) /\ N - 1 - 0 + 1 = N
    BY <1>0
  <2> QED BY <2>1, FS_Interval
<1>6. rank \in Surjection(K, 0..(N - 1))
  BY <1>4, <1>5, FS_Injection
<1>7. ASSUME NEW n \in 1..N
      PROVE  f[n] \in K /\ rank[f[n]] = n - 1
  <2>1. n - 1 \in 0..(N - 1)
    BY <1>0
  <2>2. \E k \in K : rank[k] = n - 1
    BY <2>1, <1>6 DEF Surjection
  <2>3. f[n] = CHOOSE k \in K : rank[k] = n - 1
    BY DEF Ascending, below
  <2> HIDE DEF f, rank
  <2> QED BY <2>2, <2>3
<1>8. f \in [1..N -> K]
  BY <1>7 DEF Ascending
<1> HIDE DEF f, rank
<1>9. ASSUME NEW m \in 1..N, NEW n \in 1..N, m < n
      PROVE  f[m] < f[n]
  <2>1. f[m] \in K /\ f[n] \in K /\ f[m] \in Nat /\ f[n] \in Nat
        /\ rank[f[m]] = m - 1 /\ rank[f[n]] = n - 1
    BY <1>7
  <2>2. f[m] # f[n] /\ ~(f[n] < f[m])
    BY <1>0, <1>2, <1>9, <2>1
  <2> QED BY <2>1, <2>2
<1>10. ASSUME NEW k \in K
       PROVE  \E n \in 1..N : f[n] = k
  <2>1. rank[k] \in 0..(N - 1)
    BY <1>1
  <2>2. rank[k] + 1 \in 1..N /\ rank[k] = (rank[k] + 1) - 1
    BY <1>0, <2>1
  <2>3. f[rank[k] + 1] \in K /\ rank[f[rank[k] + 1]] = rank[k]
    BY <2>2, <1>7
  <2> QED BY <2>2, <2>3, <1>3
<1> QED BY <1>0, <1>8, <1>9, <1>10 DEF f

(* Descending(K) enumerates K from its largest number down.                *)
LEMMA DescendingEnumerates ==
  ASSUME NEW K \in SUBSET Nat, IsFiniteSet(K)
  PROVE  LET f == Descending(K)
         IN  /\ Cardinality(K) \in Nat
             /\ f \in [1..Cardinality(K) -> K]
             /\ \A m, n \in 1..Cardinality(K) : m < n => f[m] > f[n]
             /\ \A k \in K : \E n \in 1..Cardinality(K) : f[n] = k
<1> DEFINE N == Cardinality(K)
           up == Ascending(K)
           f == Descending(K)
<1>1. /\ N \in Nat /\ up \in [1..N -> K]
      /\ \A m, n \in 1..N : m < n => up[m] < up[n]
      /\ \A k \in K : \E n \in 1..N : up[n] = k
  BY AscendingEnumerates
<1>2. \A n \in 1..N : N + 1 - n \in 1..N /\ N + 1 - (N + 1 - n) = n
  BY <1>1
<1>3. f = [n \in 1..N |-> up[N + 1 - n]]
  BY <1>1 DEF Descending
<1> HIDE DEF N, up, f
<1>4. f \in [1..N -> K] /\ \A n \in 1..N : f[n] = up[N + 1 - n]
  BY <1>1, <1>2, <1>3
<1>5. ASSUME NEW m \in 1..N, NEW n \in 1..N, m < n
      PROVE  f[m] > f[n]
  <2>1. N + 1 - n < N + 1 - m
    BY <1>1, <1>5
  <2>2. up[N + 1 - n] < up[N + 1 - m]
    BY <1>1, <1>2, <2>1
  <2>3. up[N + 1 - n] \in Nat /\ up[N + 1 - m] \in Nat
    BY <1>1, <1>2
  <2> QED BY <1>4, <2>2, <2>3
<1>6. ASSUME NEW k \in K
      PROVE  \E n \in 1..N : f[n] = k
  <2>1. PICK n \in 1..N : up[n] = k
    BY <1>1
  <2> QED BY <1>2, <1>4, <2>1
<1> QED BY <1>1, <1>4, <1>5, <1>6 DEF N, f

(* A set of numbers that is finite and not empty has a largest one.        *)
LEMMA Largest ==
  ASSUME NEW K \in SUBSET Nat, IsFiniteSet(K), K # {}
  PROVE  \E k \in K : \A j \in K : j <= k
<1> DEFINE N == Cardinality(K)
           up == Ascending(K)
<1>1. /\ N \in Nat /\ up \in [1..N -> K]
      /\ \A m, n \in 1..N : m < n => up[m] < up[n]
      /\ \A k \in K : \E n \in 1..N : up[n] = k
  BY AscendingEnumerates
<1> HIDE DEF N, up
<1>2. N \in 1..N
  <2>1. \E n \in 1..N : TRUE
    BY <1>1
  <2> QED BY <1>1, <2>1
<1>3. ASSUME NEW j \in K
      PROVE  j <= up[N]
  <2>1. PICK n \in 1..N : up[n] = j
    BY <1>1
  <2>2. n = N \/ n < N
    BY <1>1
  <2>3. up[N] \in Nat /\ j \in Nat
    BY <1>1, <1>2
  <2> QED BY <1>1, <1>2, <2>1, <2>2, <2>3
<1> QED BY <1>1, <1>2, <1>3

(* Element a stands before element b in a sequence. *)
Ahead(s, a, b) == \E j, k \in DOMAIN s : j < k /\ s[j] = a /\ s[k] = b

(* What is left of s in t: the elements that are in S, once, as they stood. *)
Keeps(t, s, S) ==
  /\ IsInjective(t)
  /\ Range(t) = Range(s) \cap S
  /\ \A a, b : Ahead(t, a, b) <=> Ahead(s, a, b) /\ a \in S /\ b \in S

(* A sequence made of positions of another one, in increasing order.       *)
LEMMA PartKeeps ==
  ASSUME NEW T, NEW s \in Seq(T), IsInjective(s), NEW t \in Seq(T), NEW S,
         NEW from \in [DOMAIN t -> DOMAIN s],
         \A m, n \in DOMAIN t : m < n => from[m] < from[n],
         \A n \in DOMAIN t : t[n] = s[from[n]],
         \A k \in DOMAIN s : s[k] \in S <=> \E n \in DOMAIN t : from[n] = k
  PROVE  Keeps(t, s, S)
<1>1. DOMAIN s \subseteq Nat /\ DOMAIN t \subseteq Nat
  BY LenProperties
<1>2. ASSUME NEW m \in DOMAIN t, NEW n \in DOMAIN t, from[m] = from[n]
      PROVE  m = n
  <2>1. m \in Nat /\ n \in Nat /\ from[m] \in Nat /\ from[n] \in Nat
    BY <1>1
  <2>2. ~(m < n) /\ ~(n < m)
    BY <1>2, <2>1
  <2> QED BY <2>1, <2>2
<1>3. IsInjective(t)
  BY <1>2 DEF IsInjective
<1>4. Range(t) = Range(s) \cap S
  BY DEF Range
<1>5. ASSUME NEW a, NEW b, Ahead(t, a, b)
      PROVE  Ahead(s, a, b) /\ a \in S /\ b \in S
  <2>1. PICK j, k \in DOMAIN t : j < k /\ t[j] = a /\ t[k] = b
    BY <1>5 DEF Ahead
  <2> QED BY <2>1 DEF Ahead
<1>6. ASSUME NEW a, NEW b, Ahead(s, a, b), a \in S, b \in S
      PROVE  Ahead(t, a, b)
  <2>1. PICK j, k \in DOMAIN s : j < k /\ s[j] = a /\ s[k] = b
    BY <1>6 DEF Ahead
  <2>2. PICK m \in DOMAIN t : from[m] = j
    BY <1>6, <2>1
  <2>3. PICK n \in DOMAIN t : from[n] = k
    BY <1>6, <2>1
  <2>4. m < n
    BY <1>1, <2>1, <2>2, <2>3
  <2> QED BY <2>1, <2>2, <2>3, <2>4 DEF Ahead
<1> QED BY <1>3, <1>4, <1>5, <1>6 DEF Keeps

LEMMA OnlyKeeps ==
  ASSUME NEW T, NEW s \in Seq(T), IsInjective(s), NEW S
  PROVE  Only(s, S) \in Seq(T) /\ Keeps(Only(s, S), s, S)
<1> DEFINE K == {k \in DOMAIN s : s[k] \in S}
           from == Ascending(K)
           t == Only(s, S)
<1>1. Len(s) \in Nat /\ DOMAIN s = 1..Len(s) /\ \A k \in DOMAIN s : s[k] \in T
  BY LenProperties, ElementOfSeq
<1>2. K \in SUBSET Nat /\ IsFiniteSet(K)
  <2>1. IsFiniteSet(1..Len(s))
    BY <1>1, FS_Interval
  <2> QED BY <1>1, <2>1, FS_Subset
<1>3. /\ Cardinality(K) \in Nat
      /\ from \in [1..Cardinality(K) -> K]
      /\ \A m, n \in 1..Cardinality(K) : m < n => from[m] < from[n]
      /\ \A k \in K : \E n \in 1..Cardinality(K) : from[n] = k
  BY <1>2, AscendingEnumerates
<1>4. t = [n \in 1..Cardinality(K) |-> s[from[n]]]
  BY <1>3 DEF Only
<1> HIDE DEF from, t
<1>5. t \in [1..Cardinality(K) -> T]
  BY <1>1, <1>3, <1>4
<1>6. t \in Seq(T) /\ DOMAIN t = 1..Cardinality(K)
  BY <1>3, <1>5, SeqDef
<1>7. Keeps(t, s, S)
  BY <1>3, <1>4, <1>6, PartKeeps
<1> QED BY <1>6, <1>7 DEF t

LEMMA TailKeeps ==
  ASSUME NEW T, NEW s \in Seq(T), IsInjective(s), s # <<>>
  PROVE  /\ Tail(s) \in Seq(T) /\ Head(s) \in T
         /\ Keeps(Tail(s), s, T \ {Head(s)})
<1>1. Len(s) \in Nat \ {0} /\ DOMAIN s = 1..Len(s)
      /\ \A k \in DOMAIN s : s[k] \in T
  BY LenProperties, EmptySeq, ElementOfSeq
<1>2. /\ Tail(s) \in Seq(T) /\ Len(Tail(s)) = Len(s) - 1
      /\ \A i \in 1..Len(Tail(s)) : Tail(s)[i] = s[i + 1]
      /\ Head(s) = s[1]
  BY <1>1, HeadTailProperties
<1>3. DOMAIN Tail(s) = 1..(Len(s) - 1)
  BY <1>2, LenProperties
<1> DEFINE from == [n \in DOMAIN Tail(s) |-> n + 1]
<1>4. from \in [DOMAIN Tail(s) -> DOMAIN s]
  BY <1>1, <1>3
<1>5. \A k \in DOMAIN s :
        s[k] \in T \ {Head(s)} <=> \E n \in DOMAIN Tail(s) : from[n] = k
  <2> SUFFICES ASSUME NEW k \in DOMAIN s
               PROVE  k # 1 <=> \E n \in DOMAIN Tail(s) : n + 1 = k
    BY <1>1, <1>2 DEF IsInjective
  <2>1. k # 1 => k - 1 \in DOMAIN Tail(s) /\ (k - 1) + 1 = k
    BY <1>1, <1>3
  <2>2. \A n \in DOMAIN Tail(s) : n + 1 # 1
    BY <1>1, <1>3
  <2> QED BY <2>1, <2>2
<1>6. /\ \A m, n \in DOMAIN Tail(s) : m < n => from[m] < from[n]
      /\ \A n \in DOMAIN Tail(s) : Tail(s)[n] = s[from[n]]
  BY <1>1, <1>2, <1>3
<1> HIDE DEF from
<1>7. Keeps(Tail(s), s, T \ {Head(s)})
  BY <1>2, <1>4, <1>5, <1>6, PartKeeps
<1> QED BY <1>1, <1>2, <1>7

LEMMA RemoveAtKeeps ==
  ASSUME NEW T, NEW s \in Seq(T), IsInjective(s), NEW k \in DOMAIN s
  PROVE  /\ RemoveAt(s, k) \in Seq(T)
         /\ Keeps(RemoveAt(s, k), s, T \ {s[k]})
<1> DEFINE t == RemoveAt(s, k)
           from == [n \in DOMAIN t |-> IF n < k THEN n ELSE n + 1]
<1>1. Len(s) \in Nat /\ DOMAIN s = 1..Len(s) /\ \A j \in DOMAIN s : s[j] \in T
  BY LenProperties, ElementOfSeq
<1>2. /\ t \in Seq(T) /\ Len(t) = Len(s) - 1
      /\ \A j \in 1..Len(t) : t[j] = IF j < k THEN s[j] ELSE s[j + 1]
  BY <1>1, RemoveAtElements
<1> HIDE DEF t
<1>3. DOMAIN t = 1..(Len(s) - 1)
  BY <1>2, LenProperties
<1>4. from \in [DOMAIN t -> DOMAIN s]
  BY <1>1, <1>3
<1>5. /\ \A m, n \in DOMAIN t : m < n => from[m] < from[n]
      /\ \A n \in DOMAIN t : t[n] = s[from[n]]
  BY <1>1, <1>2, <1>3
<1>6. \A j \in DOMAIN s :
        s[j] \in T \ {s[k]} <=> \E n \in DOMAIN t : from[n] = j
  <2> SUFFICES ASSUME NEW j \in DOMAIN s
               PROVE  j # k <=> \E n \in DOMAIN t : from[n] = j
    BY <1>1 DEF IsInjective
  <2>1. j < k => j \in DOMAIN t /\ from[j] = j
    BY <1>1, <1>3
  <2>2. j > k => j - 1 \in DOMAIN t /\ from[j - 1] = j
    BY <1>1, <1>3
  <2>3. \A n \in DOMAIN t : from[n] # k
    BY <1>1, <1>3
  <2> QED BY <1>1, <2>1, <2>2, <2>3
<1> HIDE DEF from
<1>7. Keeps(t, s, T \ {s[k]})
  BY <1>2, <1>4, <1>5, <1>6, PartKeeps
<1> QED BY <1>2, <1>7 DEF t

(* The position RemoveFirst finds is the only one. *)
LEMMA RemoveFirstKeeps ==
  ASSUME NEW T, NEW s \in Seq(T), IsInjective(s), NEW e
  PROVE  /\ RemoveFirst(s, e) \in Seq(T)
         /\ Keeps(RemoveFirst(s, e), s, T \ {e})
<1>1. Len(s) \in Nat /\ DOMAIN s = 1..Len(s) /\ \A j \in DOMAIN s : s[j] \in T
  BY LenProperties, ElementOfSeq
<1>2. CASE \E i \in 1..Len(s) : s[i] = e
  <2> DEFINE I == {i \in 1..Len(s) : s[i] = e}
  <2>1. PICK k \in 1..Len(s) : s[k] = e
    BY <1>2
  <2>2. I = {k}
    BY <1>1, <2>1 DEF IsInjective
  <2>3. RemoveFirst(s, e) = RemoveAt(s, Min(I))
    BY <1>2 DEF RemoveFirst, SelectInSeq
  <2> HIDE DEF I
  <2>4. Min(I) = k
    BY <2>2 DEF Min
  <2>5. k \in DOMAIN s /\ s[k] = e /\ RemoveFirst(s, e) = RemoveAt(s, k)
    BY <1>1, <2>1, <2>3, <2>4
  <2> QED BY <2>5, RemoveAtKeeps
<1>3. CASE ~\E i \in 1..Len(s) : s[i] = e
  <2>1. RemoveFirst(s, e) = s
    BY <1>3 DEF RemoveFirst
  <2>2. Keeps(s, s, T \ {e})
    BY <1>1, <1>3 DEF Keeps, Range, Ahead
  <2> QED BY <2>1, <2>2
<1> QED BY <1>2, <1>3

(* Appending an element that was not there puts it after all the others.   *)
LEMMA AppendAhead ==
  ASSUME NEW T, NEW s \in Seq(T), IsInjective(s), NEW e \in T, e \notin Range(s)
  PROVE  /\ Append(s, e) \in Seq(T)
         /\ IsInjective(Append(s, e))
         /\ Range(Append(s, e)) = Range(s) \cup {e}
         /\ \A a, b : Ahead(Append(s, e), a, b)
                        <=> Ahead(s, a, b) \/ (a \in Range(s) /\ b = e)
         /\ Append(s, e) # <<>> /\ Head(Append(s, e)) = IF s = <<>> THEN e ELSE Head(s)
<1> DEFINE t == Append(s, e)
<1>1. Len(s) \in Nat /\ DOMAIN s = 1..Len(s)
  BY LenProperties
<1>2. /\ t \in Seq(T) /\ Len(t) = Len(s) + 1
      /\ \A i \in 1..Len(s) : t[i] = s[i]
      /\ t[Len(s) + 1] = e
  BY <1>1, AppendProperties
<1> HIDE DEF t
<1>3. DOMAIN t = 1..(Len(s) + 1) /\ DOMAIN t = DOMAIN s \cup {Len(s) + 1}
  BY <1>1, <1>2, LenProperties
<1>4. IsInjective(t)
  BY <1>1, <1>2, <1>3 DEF IsInjective, Range
<1>5. Range(t) = Range(s) \cup {e}
  BY <1>1, <1>2, <1>3 DEF Range
<1>6. ASSUME NEW a, NEW b, Ahead(t, a, b)
      PROVE  Ahead(s, a, b) \/ (a \in Range(s) /\ b = e)
  <2>1. PICK j, k \in DOMAIN t : j < k /\ t[j] = a /\ t[k] = b
    BY <1>6 DEF Ahead
  <2>2. j \in DOMAIN s /\ s[j] = a
    BY <1>1, <1>2, <1>3, <2>1
  <2>3. CASE k \in DOMAIN s
    BY <1>1, <1>2, <2>1, <2>2, <2>3 DEF Ahead
  <2>4. CASE k = Len(s) + 1
    BY <1>2, <2>1, <2>2, <2>4 DEF Range
  <2> QED BY <1>3, <2>3, <2>4
<1>7. ASSUME NEW a, NEW b, Ahead(s, a, b) \/ (a \in Range(s) /\ b = e)
      PROVE  Ahead(t, a, b)
  <2>1. CASE Ahead(s, a, b)
    BY <1>1, <1>2, <1>3, <2>1 DEF Ahead
  <2>2. CASE a \in Range(s) /\ b = e
    <3>1. PICK j \in DOMAIN s : s[j] = a
      BY <2>2 DEF Range
    <3>2. j \in DOMAIN t /\ Len(s) + 1 \in DOMAIN t /\ j < Len(s) + 1
          /\ t[j] = a /\ t[Len(s) + 1] = b
      BY <1>1, <1>2, <1>3, <2>2, <3>1
    <3> QED BY <3>2 DEF Ahead
  <2> QED BY <1>7, <2>1, <2>2
<1>8. t # <<>> /\ Head(t) = t[1]
  BY <1>1, <1>2, EmptySeq
<1>9. Head(t) = IF s = <<>> THEN e ELSE Head(s)
  <2>1. CASE s = <<>>
    BY <1>2, <1>8, <2>1, EmptySeq
  <2>2. CASE s # <<>>
    <3>1. 1 \in 1..Len(s) /\ Head(s) = s[1]
      BY <1>1, <2>2, EmptySeq
    <3> QED BY <1>2, <1>8, <2>2, <3>1
  <2> QED BY <2>1, <2>2
<1> QED BY <1>2, <1>4, <1>5, <1>6, <1>7, <1>8, <1>9 DEF t

(* Nothing stands before the head, and the head before everything else.    *)
LEMMA HeadFirst ==
  ASSUME NEW T, NEW s \in Seq(T), IsInjective(s)
  PROVE  /\ s = <<>> <=> Range(s) = {}
         /\ s # <<>> => /\ Head(s) \in Range(s)
                        /\ \A a : ~Ahead(s, a, Head(s))
                        /\ \A b \in Range(s) : b = Head(s) \/ Ahead(s, Head(s), b)
         /\ \A a : ~Ahead(s, a, a)
         /\ \A a, b \in Range(s) : a = b \/ Ahead(s, a, b) \/ Ahead(s, b, a)
         /\ \A a, b : Ahead(s, a, b) => ~Ahead(s, b, a) /\ a \in Range(s) /\ b \in Range(s)
<1>1. Len(s) \in Nat /\ DOMAIN s = 1..Len(s)
  BY LenProperties
<1>2. s = <<>> <=> Range(s) = {}
  <2>1. s = <<>> => Range(s) = {}
    BY <1>1, EmptySeq DEF Range
  <2>2. s # <<>> => 1 \in DOMAIN s
    BY <1>1, EmptySeq
  <2> QED BY <2>1, <2>2 DEF Range
<1>3. ASSUME s # <<>>
      PROVE  /\ Head(s) \in Range(s)
             /\ \A a : ~Ahead(s, a, Head(s))
             /\ \A b \in Range(s) : b = Head(s) \/ Ahead(s, Head(s), b)
  <2>1. 1 \in DOMAIN s /\ Head(s) = s[1] /\ \A k \in DOMAIN s : k = 1 \/ 1 < k
    BY <1>1, <1>3, EmptySeq
  <2>2. \A j, k \in DOMAIN s : j < k => k # 1
    BY <1>1
  <2> QED BY <2>1, <2>2 DEF Range, Ahead, IsInjective
<1>4. \A a : ~Ahead(s, a, a)
  BY <1>1 DEF Ahead, IsInjective
<1>5. \A a, b \in Range(s) : a = b \/ Ahead(s, a, b) \/ Ahead(s, b, a)
  <2>1. \A j, k \in DOMAIN s : j = k \/ j < k \/ k < j
    BY <1>1
  <2> QED BY <2>1 DEF Range, Ahead
<1>6. \A a, b : Ahead(s, a, b) => ~Ahead(s, b, a) /\ a \in Range(s) /\ b \in Range(s)
  <2>1. \A j, k \in DOMAIN s : ~(j < k /\ k < j)
    BY <1>1
  <2> QED BY <2>1 DEF Range, Ahead, IsInjective
<1> QED BY <1>2, <1>3, <1>4, <1>5, <1>6

(* The head stays the head as long as it is kept. *)
LEMMA HeadKept ==
  ASSUME NEW T, NEW s \in Seq(T), NEW t \in Seq(T), IsInjective(s), NEW S,
         Keeps(t, s, S), s # <<>>, Head(s) \in S
  PROVE  t # <<>> /\ Head(t) = Head(s)
<1>1. IsInjective(t) /\ Head(s) \in Range(t)
  BY HeadFirst DEF Keeps
<1>2. t # <<>> /\ (Head(s) = Head(t) \/ Ahead(t, Head(t), Head(s)))
  BY <1>1, HeadFirst
<1> QED BY <1>2, HeadFirst DEF Keeps

(* An element of a sequence is known by how many stand before it.          *)
LEMMA PositionOf ==
  ASSUME NEW T, NEW s \in Seq(T), IsInjective(s), NEW n \in DOMAIN s
  PROVE  Cardinality({a \in Range(s) : Ahead(s, a, s[n])}) = n - 1
<1> DEFINE before == {a \in Range(s) : Ahead(s, a, s[n])}
           f == [j \in 1..(n - 1) |-> s[j]]
<1>1. Len(s) \in Nat /\ DOMAIN s = 1..Len(s) /\ n \in Nat \ {0}
      /\ \A j \in 1..(n - 1) : j \in DOMAIN s /\ j < n
  BY LenProperties
<1>2. \A j \in 1..(n - 1) : s[j] \in before
  BY <1>1 DEF Range, Ahead
<1>3. \A j, k \in 1..(n - 1) : s[j] = s[k] => j = k
  BY <1>1 DEF IsInjective
<1>4. ASSUME NEW a \in before
      PROVE  \E j \in 1..(n - 1) : s[j] = a
  <2>1. PICK j, k \in DOMAIN s : j < k /\ s[j] = a /\ s[k] = s[n]
    BY DEF Ahead
  <2>2. k = n
    BY <2>1 DEF IsInjective
  <2>3. j \in 1..(n - 1)
    BY <1>1, <2>1, <2>2
  <2> QED BY <2>1, <2>3
<1> HIDE DEF before
<1>5. f \in Bijection(1..(n - 1), before)
  BY <1>2, <1>3, <1>4 DEF Bijection, Injection, Surjection, IsInjective
<1>6. ExistsBijection(1..(n - 1), before)
  BY <1>5 DEF ExistsBijection
<1>7. n - 1 \in Nat
  BY <1>1
<1>8. Cardinality(before) = n - 1
  BY <1>6, <1>7, FS_CountingElements
<1> QED BY <1>8 DEF before

(* So two sequences of the same elements in the same order are equal.      *)
LEMMA SameOrder ==
  ASSUME NEW T, NEW s \in Seq(T), NEW t \in Seq(T),
         IsInjective(s), IsInjective(t), Range(s) = Range(t),
         \A a, b : Ahead(t, a, b) => Ahead(s, a, b)
  PROVE  s = t
<1>1. \A a, b : Ahead(s, a, b) <=> Ahead(t, a, b)
  BY HeadFirst
<1>2. ASSUME NEW n \in DOMAIN s
      PROVE  n \in DOMAIN t /\ t[n] = s[n]
  <2>1. PICK m \in DOMAIN t : t[m] = s[n]
    BY DEF Range
  <2>2. {a \in Range(s) : Ahead(s, a, s[n])} = {a \in Range(t) : Ahead(t, a, t[m])}
    BY <1>1, <2>1
  <2>3. n - 1 = m - 1
    BY <2>2, PositionOf
  <2>4. n \in Nat /\ m \in Nat
    BY LenProperties
  <2> QED BY <2>1, <2>3, <2>4
<1>3. ASSUME NEW n \in DOMAIN t
      PROVE  n \in DOMAIN s
  <2>1. PICK m \in DOMAIN s : s[m] = t[n]
    BY DEF Range
  <2>2. m \in DOMAIN t /\ t[m] = t[n]
    BY <1>2, <2>1
  <2> QED BY <2>1, <2>2 DEF IsInjective
<1>4. /\ Len(s) \in Nat /\ DOMAIN s = 1..Len(s)
      /\ Len(t) \in Nat /\ DOMAIN t = 1..Len(t)
  BY LenProperties
<1>5. Len(s) = Len(t)
  <2>1. Len(s) = 0 \/ Len(s) \in DOMAIN s
    BY <1>4
  <2>2. Len(s) <= Len(t)
    BY <1>2, <1>4, <2>1
  <2>3. Len(t) = 0 \/ Len(t) \in DOMAIN t
    BY <1>4
  <2>4. Len(t) <= Len(s)
    BY <1>3, <1>4, <2>3
  <2>5. Len(s) \in Nat /\ Len(t) \in Nat
    BY <1>4
  <2> QED BY ONLY <2>2, <2>4, <2>5
<1> QED BY <1>2, <1>4, <1>5, SeqEqual

LEMMA OnlyIsPart ==
  ASSUME NEW T, NEW s \in Seq(T), NEW t \in Seq(T),
         IsInjective(s), IsInjective(t), Range(t) \subseteq Range(s),
         \A a, b : Ahead(t, a, b) => Ahead(s, a, b)
  PROVE  t = Only(s, Range(t))
<1> DEFINE u == Only(s, Range(t))
<1>1. u \in Seq(T) /\ Keeps(u, s, Range(t))
  BY OnlyKeeps
<1>2. IsInjective(u) /\ Range(u) = Range(t)
  BY <1>1 DEF Keeps
<1>3. \A a, b : Ahead(t, a, b) => Ahead(u, a, b)
  <2>1. \A a, b : Ahead(t, a, b) => a \in Range(t) /\ b \in Range(t)
    BY HeadFirst
  <2> QED BY <1>1, <2>1 DEF Keeps
<1> HIDE DEF u
<1>4. u = t
  BY <1>1, <1>2, <1>3, SameOrder
<1> QED BY <1>4 DEF u

LEMMA RemoveHead ==
  ASSUME NEW T, NEW s \in Seq(T), s # <<>>
  PROVE  RemoveAt(s, 1) = Tail(s)
<1>1. Len(s) \in Nat \ {0} /\ 1 \in 1..Len(s)
  BY LenProperties, EmptySeq
<1>2. /\ RemoveAt(s, 1) \in Seq(T)
      /\ Len(RemoveAt(s, 1)) = Len(s) - 1
      /\ \A j \in 1..Len(RemoveAt(s, 1)) :
           RemoveAt(s, 1)[j] = IF j < 1 THEN s[j] ELSE s[j + 1]
  BY <1>1, RemoveAtElements
<1>3. /\ Tail(s) \in Seq(T) /\ Len(Tail(s)) = Len(s) - 1
      /\ \A i \in 1..Len(Tail(s)) : Tail(s)[i] = s[i + 1]
  BY HeadTailProperties
<1>4. \A j \in 1..(Len(s) - 1) : RemoveAt(s, 1)[j] = Tail(s)[j]
  BY <1>1, <1>2, <1>3
<1> QED BY <1>2, <1>3, <1>4, SeqEqual

LEMMA ContainsRange ==
  ASSUME NEW T, NEW s \in Seq(T), NEW e
  PROVE  Contains(s, e) <=> e \in Range(s)
  BY LenProperties DEF Contains, Range
=============================================================================
