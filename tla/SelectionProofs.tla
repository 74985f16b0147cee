--------------------------- MODULE SelectionProofs ---------------------------
(* What the parts of sequences are, for the proofs about queues: Picks says *)
(* that t holds what s holds at the places K, in order, and Only, Tail,     *)
(* SubSeq and RemoveAt are such parts.                                      *)
EXTENDS Selections, SequencesExt, Integers, FiniteSetTheorems, SequenceTheorems, TLAPS

Follows(f, t, s, K) ==
  /\ f \in [1 .. Len(t) -> K]
  /\ \A i, j \in 1 .. Len(t) : i < j => f[i] < f[j]
  /\ \A k \in K : \E i \in 1 .. Len(t) : f[i] = k
  /\ \A i \in 1 .. Len(t) : t[i] = s[f[i]]

Picks(t, s, K) == \E f : Follows(f, t, s, K)

\* The places of a set of positions are counted in order, and each once.
LEMMA PlacesAre ==
  ASSUME NEW n \in Nat, NEW K \in SUBSET (1 .. n)
  PROVE  /\ Cardinality(K) \in Nat /\ Cardinality(K) <= n
         /\ \A i \in 1 .. Cardinality(K) : Place(K, i) \in K
         /\ \A i, j \in 1 .. Cardinality(K) : i < j => Place(K, i) < Place(K, j)
         /\ \A k \in K : \E i \in 1 .. Cardinality(K) : Place(K, i) = k
<1> DEFINE B(k) == {j \in K : j <= k}
           R(k) == Cardinality(B(k))
           N == Cardinality(K)
<1>0. \A k \in K : k \in Nat
  OBVIOUS
<1>1. IsFiniteSet(K) /\ N \in Nat /\ N <= n
  <2>1. IsFiniteSet(1 .. n) /\ Cardinality(1 .. n) = n
    BY FS_Interval
  <2> QED BY <2>1, FS_Subset, FS_CardinalityType
<1>2. \A k \in K : R(k) \in 1 .. N
  <2>1. SUFFICES ASSUME NEW k \in K PROVE R(k) \in 1 .. N
    OBVIOUS
  <2>2. IsFiniteSet(B(k)) /\ R(k) <= N
    BY <1>1, FS_Subset
  <2>3. R(k) \in Nat
    BY <2>2, FS_CardinalityType
  <2>4. k \in B(k)
    OBVIOUS
  <2>5. R(k) # 0
    BY <2>2, <2>4, FS_EmptySet
  <2> QED BY <1>1, <2>2, <2>3, <2>5
<1>3. \A k, l \in K : k < l => R(k) < R(l)
  <2>1. SUFFICES ASSUME NEW k \in K, NEW l \in K, k < l PROVE R(k) < R(l)
    OBVIOUS
  <2>2. B(k) \in SUBSET B(l) /\ l \in B(l) /\ l \notin B(k)
    <3>1. \A j \in K : j <= k => j <= l
      BY <1>0, <2>1
    <3>2. l <= l /\ ~(l <= k)
      BY <1>0, <2>1
    <3> QED BY <3>1, <3>2
  <2>3. IsFiniteSet(B(l))
    BY <1>1, FS_Subset
  <2>4. R(k) <= R(l) /\ R(k) # R(l)
    BY <2>2, <2>3, FS_Subset
  <2> QED BY <1>2, <2>4
<1> DEFINE g == [k \in K |-> R(k)]
<1> HIDE DEF R, B, N
<1>4. g \in Injection(K, 1 .. N)
  <2>1. g \in [K -> 1 .. N]
    BY <1>2
  <2>2. \A k, l \in K : g[k] = g[l] => k = l
    <3>1. SUFFICES ASSUME NEW k \in K, NEW l \in K, g[k] = g[l], k # l PROVE FALSE
      OBVIOUS
    <3>2. k < l \/ l < k
      BY <3>1
    <3>3. R(k) < R(l) \/ R(l) < R(k)
      BY <1>3, <3>2
    <3>4. R(k) \in Nat /\ R(l) \in Nat
      BY <1>2
    <3> QED BY <3>1, <3>3, <3>4
  <2> QED BY <2>1, <2>2 DEF Injection, IsInjective
<1>5. g \in Surjection(K, 1 .. N)
  <2>1. IsFiniteSet(1 .. N) /\ Cardinality(1 .. N) = N
    BY <1>1, FS_Interval
  <2> QED BY <1>4, <2>1, FS_Injection DEF N
<1>6. \A i \in 1 .. N : Place(K, i) \in K /\ R(Place(K, i)) = i
  <2>1. SUFFICES ASSUME NEW i \in 1 .. N PROVE Place(K, i) \in K /\ R(Place(K, i)) = i
    OBVIOUS
  <2>2. \E k \in K : R(k) = i
    BY <1>5 DEF Surjection
  <2> QED BY <2>2 DEF Place, R, B
<1>7. \A i, j \in 1 .. N : i < j => Place(K, i) < Place(K, j)
  <2>1. SUFFICES ASSUME NEW i \in 1 .. N, NEW j \in 1 .. N, i < j,
                        ~(Place(K, i) < Place(K, j))
                 PROVE  FALSE
    OBVIOUS
  <2> DEFINE a == Place(K, i)
             b == Place(K, j)
  <2>2. a \in K /\ b \in K /\ R(a) = i /\ R(b) = j
    BY <1>6
  <2> HIDE DEF a, b
  <2>3. a = b \/ b < a
    <3>1. a \in Nat /\ b \in Nat /\ ~(a < b)
      BY <1>0, <2>1, <2>2 DEF a, b
    <3> QED BY <3>1
  <2> QED BY <1>3, <2>1, <2>2, <2>3
<1>8. \A k \in K : \E i \in 1 .. N : Place(K, i) = k
  <2>1. SUFFICES ASSUME NEW k \in K PROVE \E i \in 1 .. N : Place(K, i) = k
    OBVIOUS
  <2>2. R(k) \in 1 .. N
    BY <1>2
  <2> DEFINE a == Place(K, R(k))
  <2>3. a \in K /\ R(a) = R(k)
    BY <1>6, <2>2
  <2> HIDE DEF a
  <2>4. a = k
    BY <1>4, <2>3 DEF Injection, IsInjective
  <2> QED BY <2>2, <2>4 DEF a
<1> QED BY <1>1, <1>6, <1>7, <1>8 DEF N

\* What is kept of a sequence is as it was.
THEOREM OnlyPicks ==
  ASSUME NEW S, NEW s \in Seq(S), NEW K \in SUBSET (1 .. Len(s))
  PROVE  /\ Only(s, K) \in Seq(S) /\ Len(Only(s, K)) <= Len(s) /\ Picks(Only(s, K), s, K)
         /\ Len(Only(s, K)) = Cardinality(K)
<1> DEFINE N == Cardinality(K)
           f == [i \in 1 .. N |-> Place(K, i)]
           t == Only(s, K)
<1>1. /\ N \in Nat /\ N <= Len(s)
      /\ \A i \in 1 .. N : Place(K, i) \in K
      /\ \A i, j \in 1 .. N : i < j => Place(K, i) < Place(K, j)
      /\ \A k \in K : \E i \in 1 .. N : Place(K, i) = k
  BY PlacesAre
<1> HIDE DEF N
<1>2. t = [i \in 1 .. N |-> s[Place(K, i)]]
  BY DEF Only, N
<1> HIDE DEF t
<1>3. t \in Seq(S) /\ Len(t) = N
  <2>1. \A i \in 1 .. N : s[Place(K, i)] \in S
    <3>1. \A k \in K : s[k] \in S
      OBVIOUS
    <3> QED BY <1>1, <3>1
  <2> QED BY <1>1, <1>2, <2>1
<1>4. Follows(f, t, s, K)
  BY <1>1, <1>2, <1>3 DEF Follows
<1> QED BY <1>1, <1>3, <1>4 DEF Picks, t, N

THEOREM TailPicks ==
  ASSUME NEW S, NEW s \in Seq(S), s # <<>>
  PROVE  /\ Tail(s) \in Seq(S) /\ Len(Tail(s)) = Len(s) - 1 /\ Head(s) = s[1] /\ Len(s) > 0
         /\ \A i \in 1 .. Len(Tail(s)) : Tail(s)[i] = s[i + 1]
         /\ Picks(Tail(s), s, 2 .. Len(s))
<1> DEFINE f == [i \in 1 .. Len(Tail(s)) |-> i + 1]
<1>1. /\ Tail(s) \in Seq(S) /\ Len(Tail(s)) = Len(s) - 1 /\ Head(s) = s[1]
      /\ \A i \in 1 .. Len(Tail(s)) : Tail(s)[i] = s[i + 1]
  BY HeadTailProperties
<1>2. Len(s) > 0
  BY EmptySeq
<1>3. \A k \in 2 .. Len(s) : k - 1 \in 1 .. Len(Tail(s)) /\ f[k - 1] = k
  BY <1>1
<1>4. Follows(f, Tail(s), s, 2 .. Len(s))
  BY <1>1, <1>3 DEF Follows
<1> QED BY <1>1, <1>2, <1>4 DEF Picks

THEOREM PrefixPicks ==
  ASSUME NEW S, NEW s \in Seq(S), NEW n \in 0 .. Len(s)
  PROVE  /\ SubSeq(s, 1, n) \in Seq(S) /\ Len(SubSeq(s, 1, n)) = n
         /\ \A i \in 1 .. n : SubSeq(s, 1, n)[i] = s[i]
         /\ Picks(SubSeq(s, 1, n), s, 1 .. n)
<1> DEFINE f == [i \in 1 .. n |-> i]
           t == SubSeq(s, 1, n)
<1>1. t \in Seq(S) /\ Len(t) = n /\ \A i \in 1 .. n : t[i] = s[i]
  BY SubSeqProperties
<1> HIDE DEF t
<1>2. Follows(f, t, s, 1 .. n)
  BY <1>1 DEF Follows
<1> QED BY <1>1, <1>2 DEF Picks, t

THEOREM RemoveAtPicks ==
  ASSUME NEW S, NEW s \in Seq(S), NEW j \in 1 .. Len(s)
  PROVE  /\ RemoveAt(s, j) \in Seq(S) /\ Len(RemoveAt(s, j)) = Len(s) - 1
         /\ Picks(RemoveAt(s, j), s, (1 .. Len(s)) \ {j})
<1> DEFINE a == SubSeq(s, 1, j - 1)
           b == SubSeq(s, j + 1, Len(s))
           t == RemoveAt(s, j)
           f == [i \in 1 .. Len(s) - 1 |-> IF i < j THEN i ELSE i + 1]
<1>1. a \in Seq(S) /\ Len(a) = j - 1 /\ \A i \in 1 .. j - 1 : a[i] = s[i]
  <2>1. j - 1 \in 0 .. Len(s)
    OBVIOUS
  <2> QED BY <2>1, PrefixPicks
<1>2. b \in Seq(S) /\ Len(b) = Len(s) - j /\ \A i \in 1 .. Len(s) - j : b[i] = s[j + i]
  <2>1. /\ b \in Seq(S) /\ Len(b) = IF j + 1 <= Len(s) THEN Len(s) - (j + 1) + 1 ELSE 0
        /\ \A i \in 1 .. Len(s) - (j + 1) + 1 : b[i] = s[j + 1 + i - 1]
    BY SubSeqProperties
  <2>2. \A i \in 1 .. Len(s) - j : j + 1 + i - 1 = j + i
    OBVIOUS
  <2> QED BY <2>1, <2>2
<1>3. t = a \o b
  BY DEF RemoveAt
<1> HIDE DEF a, b, t
<1>4. /\ t \in Seq(S) /\ Len(t) = Len(s) - 1
      /\ \A i \in 1 .. Len(t) : t[i] = IF i <= Len(a) THEN a[i] ELSE b[i - Len(a)]
  <2>1. /\ a \o b \in Seq(S) /\ Len(a \o b) = Len(a) + Len(b)
        /\ \A i \in 1 .. Len(a) + Len(b) :
             (a \o b)[i] = IF i <= Len(a) THEN a[i] ELSE b[i - Len(a)]
    BY <1>1, <1>2, ConcatProperties
  <2> QED BY <1>1, <1>2, <1>3, <2>1
<1>5. \A i \in 1 .. Len(t) : t[i] = s[f[i]]
  <2>1. SUFFICES ASSUME NEW i \in 1 .. Len(t) PROVE t[i] = s[f[i]]
    OBVIOUS
  <2>2. CASE i < j
    BY <1>1, <1>4, <2>2
  <2>3. CASE ~(i < j)
    <3>1. t[i] = b[i - (j - 1)]
      BY <1>1, <1>4, <2>3
    <3>2. i - (j - 1) \in 1 .. Len(s) - j /\ j + (i - (j - 1)) = i + 1
      BY <1>4, <2>3
    <3>3. b[i - (j - 1)] = s[i + 1]
      BY <1>2, <3>2
    <3> QED BY <1>4, <2>3, <3>1, <3>3
  <2> QED BY <2>2, <2>3
<1>6. f \in [1 .. Len(t) -> (1 .. Len(s)) \ {j}]
  BY <1>4
<1>7. \A k \in (1 .. Len(s)) \ {j} : \E i \in 1 .. Len(t) : f[i] = k
  <2>1. SUFFICES ASSUME NEW k \in (1 .. Len(s)) \ {j} PROVE \E i \in 1 .. Len(t) : f[i] = k
    OBVIOUS
  <2>2. CASE k < j
    BY <1>4, <2>2
  <2>3. CASE k > j
    <3>1. k - 1 \in 1 .. Len(t) /\ f[k - 1] = k
      BY <1>4, <2>3
    <3> QED BY <3>1
  <2>4. k \in Nat /\ j \in Nat /\ k # j
    OBVIOUS
  <2>5. k < j \/ k > j
    BY <2>4
  <2> HIDE DEF f
  <2> QED BY <2>2, <2>3, <2>5
<1>8. \A i, l \in 1 .. Len(t) : i < l => f[i] < f[l]
  BY <1>4
<1>9. Follows(f, t, s, (1 .. Len(s)) \ {j})
  BY <1>5, <1>6, <1>7, <1>8 DEF Follows
<1> QED BY <1>4, <1>9 DEF Picks, t
=============================================================================
