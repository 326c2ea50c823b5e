---------------------------- MODULE SublistProofs ----------------------------
(***************************************************************************)
(* Parts of sequences, for the proofs about modules that use Sublists:     *)
(* which positions a part takes, how often something is in it, and that    *)
(* there is only one way to count positions up.                            *)
(***************************************************************************)
EXTENDS Sublists, FiniteSetTheorems, SequenceTheorems, TLAPS

Hits(q, m) == {i \in 1 .. Len(q) : q[i] = m}
Times(q, m) == Cardinality(Hits(q, m))

Ascends(f) == \A i, j \in DOMAIN f : i < j => f[i] < f[j]

\* Every set of positions can be counted up.
LEMMA CanAscend ==
  ASSUME NEW n \in Nat, NEW S \in SUBSET (1 .. n)
  PROVE  \E f \in [1 .. Cardinality(S) -> S] : Ascends(f)
<1> DEFINE Good(k) == \A R \in SUBSET (1 .. k) : \E f \in [1 .. Cardinality(R) -> R] : Ascends(f)
           Bad == {k \in Nat : ~ Good(k)}
<1>0. Good(n) => \E f \in [1 .. Cardinality(S) -> S] : Ascends(f)
  OBVIOUS
<1>1. SUFFICES ASSUME Bad # {} PROVE FALSE
  <2>1. n \notin Bad => Good(n)
    OBVIOUS
  <2> HIDE DEF Good, Bad
  <2> QED BY <1>0, <2>1
<1>2. IsWellFoundedOn({ss \in Nat \X Nat : ss[1] < ss[2]}, Nat)
  BY NatLessThanWellFounded DEF OpToRel
<1>3. PICK k \in Bad : \A j \in Bad : ~ (<<j, k>> \in {ss \in Nat \X Nat : ss[1] < ss[2]})
  <2>1. Bad \subseteq Nat
    OBVIOUS
  <2> HIDE DEF Bad
  <2>2. \E k \in Bad : \A j \in Bad : ~ (<<j, k>> \in {ss \in Nat \X Nat : ss[1] < ss[2]})
    BY <1>1, <1>2, <2>1, WFMin
  <2> QED BY <2>2
<1>4. PICK R \in SUBSET (1 .. k) : ~ \E f \in [1 .. Cardinality(R) -> R] : Ascends(f)
  OBVIOUS
<1>5. k \in Nat /\ IsFiniteSet(R) /\ Cardinality(R) \in Nat
  <2>1. k \in Nat
    OBVIOUS
  <2> HIDE DEF Bad, Good
  <2>2. IsFiniteSet(1 .. k)
    BY <2>1, FS_Interval
  <2>3. IsFiniteSet(R)
    BY <2>2, FS_Subset
  <2> QED BY <2>1, <2>3, FS_CardinalityType
<1>6. k # 0
  <2> HIDE DEF Bad, Good
  <2>1. ASSUME k = 0 PROVE FALSE
    <3>1. R = {}
      BY <2>1
    <3>2. Cardinality(R) = 0
      BY <3>1, FS_EmptySet
    <3>3. [i \in {} |-> i] \in [1 .. Cardinality(R) -> R]
      BY <3>1, <3>2
    <3>4. Ascends([i \in {} |-> i])
      BY DEF Ascends
    <3> QED BY <1>4, <3>3, <3>4
  <2> QED BY <2>1
<1>7. Good(k - 1)
  <2>1. k - 1 \in Nat /\ k - 1 < k
    BY <1>5, <1>6
  <2>2. <<k - 1, k>> \in {ss \in Nat \X Nat : ss[1] < ss[2]}
    BY <1>5, <2>1
  <2>3. k - 1 \notin Bad
    BY <1>3, <2>2
  <2> QED BY <2>1, <2>3
<1> HIDE DEF Bad
<1>8. k \in R
  <2>1. ASSUME k \notin R PROVE R \in SUBSET (1 .. k - 1)
    BY <1>5, <1>6, <2>1
  <2> QED BY <1>4, <1>7, <2>1
<1> DEFINE Q == R \ {k}
           c == Cardinality(R)
<1>9. Q \in SUBSET (1 .. k - 1) /\ Cardinality(Q) = c - 1 /\ c - 1 \in Nat
  <2>1. Cardinality(Q) = c - 1 /\ Cardinality(Q) \in Nat
    BY <1>5, <1>8, FS_RemoveElement, FS_CardinalityType
  <2> QED BY <1>5, <2>1
<1>10. PICK g \in [1 .. c - 1 -> Q] : Ascends(g)
  BY <1>7, <1>9
<1> DEFINE h == [i \in 1 .. c |-> IF i = c THEN k ELSE g[i]]
<1>11. h \in [1 .. c -> R]
  <2>1. ASSUME NEW i \in 1 .. c PROVE h[i] \in R
    BY <1>5, <1>8, <1>10, <2>1
  <2> HIDE DEF c
  <2> QED BY <2>1
<1>12. Ascends(h)
  <2> SUFFICES ASSUME NEW i \in 1 .. c, NEW j \in 1 .. c, i < j PROVE h[i] < h[j]
    BY DEF Ascends
  <2>0. c \in Nat /\ Q \subseteq 1 .. k - 1
    BY <1>5, <1>9
  <2> HIDE DEF c, Q
  <2>1. i \in 1 .. c - 1 /\ h[i] = g[i] /\ g[i] \in 1 .. k - 1
    <3>1. i \in 1 .. c - 1 /\ i # c
      BY <2>0
    <3>2. g[i] \in Q
      BY <1>10, <3>1
    <3> QED BY <2>0, <3>1, <3>2
  <2>2. CASE j = c
    BY <1>5, <2>0, <2>1, <2>2
  <2>3. CASE j # c
    <3>1. j \in 1 .. c - 1 /\ h[j] = g[j]
      BY <2>0, <2>3
    <3> QED BY <1>10, <2>1, <3>1 DEF Ascends
  <2> QED BY <2>2, <2>3
<1> QED BY <1>4, <1>11, <1>12

\* Counting a set up takes each of its members once.
LEMMA AscendFacts ==
  ASSUME NEW n \in Nat, NEW S \in SUBSET (1 .. n), NEW f \in [1 .. Cardinality(S) -> S], Ascends(f)
  PROVE  /\ \A i, j \in 1 .. Cardinality(S) : f[i] = f[j] => i = j
         /\ \A i, j \in 1 .. Cardinality(S) : f[i] < f[j] => i < j
         /\ \A k \in S : \E i \in 1 .. Cardinality(S) : f[i] = k
<1> DEFINE c == Cardinality(S)
<1>1. IsFiniteSet(1 .. n) /\ Cardinality(1 .. n) = n
  BY FS_Interval
<1>2. IsFiniteSet(S) /\ c \in Nat /\ c <= n
  BY ZenonT(60), <1>1, FS_Subset, FS_CardinalityType
<1>3. f \in [1 .. c -> S] /\ \A i, j \in 1 .. c : i < j => f[i] < f[j]
  BY DEF Ascends
<1> HIDE DEF c
<1>4. ASSUME NEW i \in 1 .. c, NEW j \in 1 .. c, f[i] = f[j] PROVE i = j
  <2>1. f[i] \in S
    BY <1>3
  <2>2. f[i] \in Nat /\ ~ (f[i] < f[j]) /\ ~ (f[j] < f[i])
    <3>1. \A x \in S : x \in Nat /\ ~ (x < x)
      OBVIOUS
    <3> QED BY <1>4, <2>1, <3>1
  <2>3. ~ (i < j) /\ ~ (j < i)
    BY <1>3, <2>2
  <2> QED BY <1>2, <2>3
<1>5. IsFiniteSet(1 .. c) /\ Cardinality(1 .. c) = c
  BY <1>2, FS_Interval
<1>6. f \in Injection(1 .. c, S)
  BY <1>3, <1>4 DEF Injection, IsInjective
<1>7. f \in Surjection(1 .. c, S)
  BY <1>2, <1>5, <1>6, FS_Injection DEF c
<1>8. \A k \in S : \E i \in 1 .. c : f[i] = k
  BY <1>7 DEF Surjection
<1>9. ASSUME NEW i \in 1 .. c, NEW j \in 1 .. c, f[i] < f[j] PROVE i < j
  <2>1. f[i] \in 1 .. n /\ f[j] \in 1 .. n
    BY <1>3
  <2>2. f[i] # f[j] /\ ~ (f[j] < f[i])
    BY <1>9, <2>1
  <2>3. i # j /\ ~ (j < i)
    BY <1>3, <2>2
  <2> QED BY <1>2, <2>3
<1> QED BY <1>4, <1>8, <1>9 DEF c

LEMMA OrderFacts ==
  ASSUME NEW n \in Nat, NEW S \in SUBSET (1 .. n)
  PROVE  /\ Cardinality(S) \in Nat /\ Cardinality(S) <= n
         /\ InOrder(S) \in [1 .. Cardinality(S) -> S]
         /\ Ascends(InOrder(S))
         /\ \A i, j \in 1 .. Cardinality(S) : InOrder(S)[i] = InOrder(S)[j] => i = j
         /\ \A i, j \in 1 .. Cardinality(S) : InOrder(S)[i] < InOrder(S)[j] => i < j
         /\ \A k \in S : \E i \in 1 .. Cardinality(S) : InOrder(S)[i] = k
<1>1. IsFiniteSet(1 .. n) /\ Cardinality(1 .. n) = n
  BY FS_Interval
<1>2. Cardinality(S) \in Nat /\ Cardinality(S) <= n
  BY <1>1, FS_Subset, FS_CardinalityType
<1>3. InOrder(S) \in [1 .. Cardinality(S) -> S] /\ Ascends(InOrder(S))
  BY CanAscend DEF Ascends, InOrder
<1> QED BY ZenonT(60), <1>2, <1>3, AscendFacts

\* There is no other way to count a set up.
LEMMA OneOrder ==
  ASSUME NEW n \in Nat, NEW S \in SUBSET (1 .. n), NEW g \in [1 .. Cardinality(S) -> S], Ascends(g)
  PROVE  g = InOrder(S)
<1> DEFINE c == Cardinality(S)
           f == InOrder(S)
           Bad == {i \in 1 .. c : f[i] # g[i]}
<1>1. /\ c \in Nat /\ f \in [1 .. c -> S]
      /\ \A i, j \in 1 .. c : i < j => f[i] < f[j]
      /\ \A i, j \in 1 .. c : f[i] < f[j] => i < j
      /\ \A k \in S : \E i \in 1 .. c : f[i] = k
  BY OrderFacts DEF Ascends
<1>2. /\ g \in [1 .. c -> S]
      /\ \A i, j \in 1 .. c : i < j => g[i] < g[j]
      /\ \A i, j \in 1 .. c : g[i] < g[j] => i < j
      /\ \A k \in S : \E i \in 1 .. c : g[i] = k
  BY AscendFacts DEF Ascends
<1> HIDE DEF c, f
<1>3. SUFFICES ASSUME Bad # {} PROVE FALSE
  <2>1. \A i \in 1 .. c : f[i] = g[i]
    BY <1>3
  <2>2. f = [i \in 1 .. c |-> f[i]] /\ g = [i \in 1 .. c |-> g[i]]
    BY <1>1, <1>2
  <2>3. [i \in 1 .. c |-> f[i]] = [i \in 1 .. c |-> g[i]]
    BY <2>1
  <2> QED BY <2>2, <2>3 DEF f
<1>4. IsWellFoundedOn({ss \in Nat \X Nat : ss[1] < ss[2]}, Nat)
  BY NatLessThanWellFounded DEF OpToRel
<1>5. PICK i \in Bad : \A j \in Bad : ~ (<<j, i>> \in {ss \in Nat \X Nat : ss[1] < ss[2]})
  <2>1. Bad \subseteq Nat
    BY <1>1
  <2> HIDE DEF Bad
  <2>2. \E i \in Bad : \A j \in Bad : ~ (<<j, i>> \in {ss \in Nat \X Nat : ss[1] < ss[2]})
    BY <1>3, <1>4, <2>1, WFMin
  <2> QED BY <2>2
<1>6. i \in 1 .. c /\ f[i] # g[i] /\ f[i] \in 1 .. n /\ g[i] \in 1 .. n
  BY <1>1, <1>2
<1>7. \A j \in 1 .. c : j < i => f[j] = g[j]
  <2> SUFFICES ASSUME NEW j \in 1 .. c, j < i, f[j] # g[j] PROVE FALSE
    OBVIOUS
  <2>1. j \in Bad /\ <<j, i>> \in {ss \in Nat \X Nat : ss[1] < ss[2]}
    BY <1>1, <1>6
  <2> QED BY <1>5, <2>1
<1> HIDE DEF Bad
<1>8. CASE f[i] < g[i]
  <2>1. PICK j \in 1 .. c : g[j] = f[i]
    BY <1>1, <1>2, <1>6
  <2>2. j < i
    BY <1>2, <1>6, <1>8, <2>1
  <2>3. f[j] = f[i] /\ f[j] < f[i]
    BY <1>1, <1>6, <1>7, <2>1, <2>2
  <2> QED BY <1>6, <2>3
<1>9. CASE g[i] < f[i]
  <2>1. PICK j \in 1 .. c : f[j] = g[i]
    BY <1>1, <1>2, <1>6
  <2>2. j < i
    BY <1>1, <1>6, <1>9, <2>1
  <2>3. g[j] = g[i] /\ g[j] < g[i]
    BY <1>2, <1>6, <1>7, <2>1, <2>2
  <2> QED BY <1>6, <2>3
<1> QED BY <1>6, <1>8, <1>9

LEMMA SublistFacts ==
  ASSUME NEW T, NEW q \in Seq(T), NEW S \in SUBSET (1 .. Len(q))
  PROVE  /\ Sublist(q, S) \in Seq(T)
         /\ Len(Sublist(q, S)) = Cardinality(S) /\ Cardinality(S) \in Nat /\ Cardinality(S) <= Len(q)
         /\ \A i \in 1 .. Cardinality(S) : InOrder(S)[i] \in S /\ Sublist(q, S)[i] = q[InOrder(S)[i]]
<1> DEFINE c == Cardinality(S)
<1>1. /\ c \in Nat /\ c <= Len(q) /\ InOrder(S) \in [1 .. c -> S]
  BY OrderFacts, LenProperties
<1>2. \A i \in 1 .. c : InOrder(S)[i] \in 1 .. Len(q) /\ q[InOrder(S)[i]] \in T
  BY <1>1, ElementOfSeq
<1>3. Sublist(q, S) = [i \in 1 .. c |-> q[InOrder(S)[i]]]
  BY DEF Sublist
<1> HIDE DEF c
<1>4. Sublist(q, S) \in [1 .. c -> T]
  BY <1>2, <1>3
<1>5. Sublist(q, S) \in Seq(T) /\ Len(Sublist(q, S)) = c
  BY <1>1, <1>4, SeqDef, LenProperties
<1> QED BY <1>1, <1>3, <1>5 DEF c

LEMMA HitsFinite ==
  ASSUME NEW T, NEW q \in Seq(T), NEW m
  PROVE  IsFiniteSet(Hits(q, m)) /\ Times(q, m) \in Nat /\ (Times(q, m) = 0 <=> \A i \in 1 .. Len(q) : q[i] # m)
<1>1. IsFiniteSet(1 .. Len(q)) /\ Len(q) \in Nat
  BY LenProperties, FS_Interval
<1>2. IsFiniteSet(Hits(q, m)) /\ Cardinality(Hits(q, m)) \in Nat
  BY <1>1, FS_Subset, FS_CardinalityType DEF Hits
<1>3. Cardinality(Hits(q, m)) = 0 <=> Hits(q, m) = {}
  BY <1>2, FS_EmptySet
<1> QED BY <1>2, <1>3 DEF Hits, Times

\* A sublist that leaves out no m has as many of them.
LEMMA SublistTimes ==
  ASSUME NEW T, NEW q \in Seq(T), NEW S \in SUBSET (1 .. Len(q)), NEW m, Hits(q, m) \subseteq S
  PROVE  Times(Sublist(q, S), m) = Times(q, m)
<1> DEFINE p == Sublist(q, S)
           c == Cardinality(S)
           f == [i \in Hits(p, m) |-> InOrder(S)[i]]
<1>1. /\ p \in Seq(T) /\ Len(p) = c /\ c \in Nat
      /\ \A i \in 1 .. c : InOrder(S)[i] \in S /\ p[i] = q[InOrder(S)[i]]
  BY SublistFacts
<1>2. /\ \A i, j \in 1 .. c : InOrder(S)[i] = InOrder(S)[j] => i = j
      /\ \A k \in S : \E i \in 1 .. c : InOrder(S)[i] = k
  BY OrderFacts, LenProperties
<1> HIDE DEF p, c
<1>3. Hits(p, m) \subseteq 1 .. c
  BY <1>1 DEF Hits
<1>4. f \in [Hits(p, m) -> Hits(q, m)]
  BY <1>1, <1>3 DEF Hits
<1>5. \A i, j \in Hits(p, m) : f[i] = f[j] => i = j
  BY <1>2, <1>3
<1>6. \A k \in Hits(q, m) : \E i \in Hits(p, m) : f[i] = k
  <2> SUFFICES ASSUME NEW k \in Hits(q, m) PROVE \E i \in Hits(p, m) : f[i] = k
    OBVIOUS
  <2>1. PICK i \in 1 .. c : InOrder(S)[i] = k
    BY <1>2
  <2>2. i \in Hits(p, m)
    BY <1>1, <2>1 DEF Hits
  <2> QED BY <2>1, <2>2
<1> HIDE DEF f
<1>7. f \in Bijection(Hits(p, m), Hits(q, m))
  BY <1>4, <1>5, <1>6 DEF Bijection, Injection, IsInjective, Surjection
<1>8. IsFiniteSet(Hits(p, m))
  BY <1>1, HitsFinite
<1>9. Cardinality(Hits(q, m)) = Cardinality(Hits(p, m))
  BY <1>7, <1>8, FS_Bijection DEF ExistsBijection
<1> QED BY <1>9 DEF Times, p

LEMMA AppendTimes ==
  ASSUME NEW T, NEW q \in Seq(T), NEW x \in T, NEW m
  PROVE  Times(Append(q, x), m) = Times(q, m) + (IF x = m THEN 1 ELSE 0)
<1> DEFINE n == Len(q) + 1
<1>1. /\ Len(Append(q, x)) = n /\ Len(q) \in Nat /\ Append(q, x)[n] = x
      /\ \A i \in 1 .. Len(q) : Append(q, x)[i] = q[i]
  BY AppendProperties, LenProperties
<1>2. IsFiniteSet(Hits(q, m)) /\ n \notin Hits(q, m) /\ Times(q, m) \in Nat
  BY <1>1, HitsFinite DEF Hits
<1>3. 1 .. n = (1 .. Len(q)) \cup {n}
  BY <1>1
<1>4. CASE x = m
  <2>1. Hits(Append(q, x), m) = Hits(q, m) \cup {n}
    BY <1>1, <1>3, <1>4 DEF Hits
  <2> HIDE DEF n
  <2> QED BY <1>2, <1>4, <2>1, FS_AddElement DEF Times
<1>5. CASE x # m
  <2>1. Hits(Append(q, x), m) = Hits(q, m)
    BY <1>1, <1>3, <1>5 DEF Hits
  <2> QED BY <1>2, <1>5, <2>1 DEF Times
<1> QED BY <1>4, <1>5

LEMMA TailTimes ==
  ASSUME NEW T, NEW q \in Seq(T), q # <<>>, NEW m
  PROVE  Times(q, m) = Times(Tail(q), m) + (IF Head(q) = m THEN 1 ELSE 0)
<1> DEFINE r == Tail(q)
           f == [i \in Hits(r, m) |-> i + 1]
           H == Hits(q, m) \ {1}
<1>1. /\ r \in Seq(T) /\ Len(r) = Len(q) - 1 /\ Len(q) \in Nat /\ Len(r) \in Nat
      /\ \A i \in 1 .. Len(r) : r[i] = q[i + 1]
      /\ Head(q) = q[1]
  BY HeadTailProperties, LenProperties
<1>2. 1 \in 1 .. Len(q)
  BY <1>1
<1> HIDE DEF r
<1>3. f \in [Hits(r, m) -> H]
  <2> SUFFICES ASSUME NEW i \in Hits(r, m) PROVE i + 1 \in H
    OBVIOUS
  <2>1. i \in 1 .. Len(r) /\ r[i] = m
    BY DEF Hits
  <2> QED BY <1>1, <2>1 DEF Hits
<1>4. \A i, j \in Hits(r, m) : f[i] = f[j] => i = j
  BY <1>1 DEF Hits
<1>5. \A k \in H : \E i \in Hits(r, m) : f[i] = k
  <2> SUFFICES ASSUME NEW k \in H PROVE \E i \in Hits(r, m) : f[i] = k
    OBVIOUS
  <2>1. k \in 2 .. Len(q) /\ q[k] = m
    BY <1>1 DEF Hits
  <2>2. k - 1 \in 1 .. Len(r) /\ (k - 1) + 1 = k
    BY <1>1, <2>1
  <2>3. k - 1 \in Hits(r, m)
    BY <1>1, <2>1, <2>2 DEF Hits
  <2> QED BY <2>2, <2>3
<1> HIDE DEF f
<1>6. f \in Bijection(Hits(r, m), H)
  BY <1>3, <1>4, <1>5 DEF Bijection, Injection, IsInjective, Surjection
<1>7. IsFiniteSet(Hits(r, m)) /\ IsFiniteSet(Hits(q, m)) /\ Times(q, m) \in Nat /\ Times(r, m) \in Nat
  BY <1>1, HitsFinite
<1>8. Cardinality(H) = Cardinality(Hits(r, m))
  BY <1>6, <1>7, FS_Bijection DEF ExistsBijection
<1>9. Cardinality(H) = Cardinality(Hits(q, m)) - (IF 1 \in Hits(q, m) THEN 1 ELSE 0)
  <2>1. CASE 1 \in Hits(q, m)
    BY <1>7, <2>1, FS_RemoveElement DEF Times
  <2>2. CASE 1 \notin Hits(q, m)
    <3>1. H = Hits(q, m)
      BY <2>2
    <3> HIDE DEF H
    <3> QED BY <1>7, <2>2, <3>1 DEF Times
  <2> QED BY <2>1, <2>2
<1>10. 1 \in Hits(q, m) <=> Head(q) = m
  BY <1>1, <1>2 DEF Hits
<1> HIDE DEF H
<1> QED BY <1>7, <1>8, <1>9, <1>10 DEF Times, r

=============================================================================
