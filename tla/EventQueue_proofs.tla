--------------------------- MODULE EventQueue_proofs ---------------------------
(***************************************************************************)
(* The pointers of the event queue lead where they say, the order in which *)
(* events are served is the one the comment above QueueEvent promises, and *)
(* no event is freed unserved, for any events and any depth of nested      *)
(* event loops.                                                            *)
(***************************************************************************)
EXTENDS EventQueue, SequenceTheorems, FiniteSetTheorems, WellFoundedInduction, TLAPS

-------------------------------------------------------------------------------
(* Lists.                                                                   *)

Injective(l) == \A i, j \in DOMAIN l : l[i] = l[j] => i = j

\* A set of numbers has a least one.
LEMMA Least ==
  ASSUME NEW T \in SUBSET Nat, T # {}
  PROVE  \E m \in T : \A k \in T : m <= k
<1> DEFINE R == {ss \in Nat \X Nat : ss[1] < ss[2]}
<1>1. IsWellFoundedOn(R, Nat)
  BY NatLessThanWellFounded DEF OpToRel
<1> HIDE DEF R
<1>2. PICK x \in T : \A y \in T : ~(<<y, x>> \in R)
  BY <1>1, WFMin
<1>3. \A y \in T : ~(y < x)
  <2> TAKE y \in T
  <2>1. y \in Nat /\ x \in Nat
    OBVIOUS
  <2> QED
    BY <1>2, <2>1 DEF R
<1> QED
  BY <1>3

\* The positions of a finite set can be put in order: if not, take the least bound of
\* a set for which they cannot, and leave its last element out.
Rising(nth) == \A i, j \in DOMAIN nth : i < j => nth[i] < nth[j]
LEMMA Orders ==
  ASSUME NEW n \in Nat, NEW at \in SUBSET (1..n)
  PROVE  /\ Cardinality(at) \in Nat
         /\ \E nth \in [1..Cardinality(at) -> at] : Rising(nth)
<1> DEFINE Good(s) == \E nth \in [1..Cardinality(s) -> s] : Rising(nth)
           Bad == {m \in Nat : \E s \in SUBSET (1..m) : ~Good(s)}
<1>1. ASSUME NEW m \in Nat, NEW s \in SUBSET (1..m)
      PROVE  IsFiniteSet(s) /\ Cardinality(s) \in Nat
  <2>1. IsFiniteSet(1..m)
    BY FS_Interval
  <2>2. IsFiniteSet(s)
    BY <2>1, FS_Subset
  <2> QED
    BY <2>2, FS_CardinalityType
<1>2. ASSUME Bad # {} PROVE FALSE
  <2> HIDE DEF Good
  <2>1. Bad \in SUBSET Nat
    OBVIOUS
  <2>2. PICK m \in Bad : \A k \in Bad : m <= k
    BY <1>2, <2>1, Least
  <2> m \in Nat
    OBVIOUS
  <2>3. PICK s \in SUBSET (1..m) : ~Good(s)
    BY <2>2
  <2>4. CASE m \notin s
    <3>1. CASE m = 0
      <4>1. s = {}
        BY <3>1
      <4>2. 1..Cardinality(s) = {}
        BY <4>1, FS_EmptySet
      <4>3. [i \in 1..Cardinality(s) |-> 0] \in [1..Cardinality(s) -> s]
        BY <4>2
      <4>4. Rising([i \in 1..Cardinality(s) |-> 0])
        BY <4>2 DEF Rising
      <4> QED
        BY <2>3, <4>3, <4>4 DEF Good
    <3>2. CASE m # 0
      <4>1. m - 1 \in Nat /\ s \in SUBSET (1..(m - 1))
        BY <2>4, <3>2
      <4>2. m - 1 \in Bad
        BY <2>3, <4>1
      <4>3. ~(m <= m - 1)
        OBVIOUS
      <4> QED
        BY <2>2, <4>2, <4>3
    <3> QED
      BY <3>1, <3>2
  <2>5. CASE m \in s
    <3> DEFINE r == s \ {m}
               c == Cardinality(r)
    <3>1. m - 1 \in Nat /\ r \in SUBSET (1..(m - 1)) /\ s = r \cup {m} /\ m \notin r
      BY <2>5
    <3>2. c \in Nat /\ Cardinality(s) = c + 1
      BY <1>1, <3>1, FS_AddElement
    <3>3. Good(r)
      <4>1. ~(m <= m - 1)
        OBVIOUS
      <4> QED
        BY <2>2, <3>1, <4>1
    <3>4. PICK nth \in [1..c -> r] : Rising(nth)
      BY <3>3 DEF Good
    <3> DEFINE all == [i \in 1..(c + 1) |-> IF i <= c THEN nth[i] ELSE m]
    <3> HIDE DEF c, r
    <3>5. all \in [1..(c + 1) -> s]
      <4> SUFFICES ASSUME NEW i \in 1..(c + 1) PROVE all[i] \in s
        OBVIOUS
      <4>1. i <= c => i \in 1..c
        BY <3>2
      <4> QED
        BY <2>5, <3>1, <4>1
    <3>6. Rising(all)
      <4> SUFFICES ASSUME NEW i \in 1..(c + 1), NEW j \in 1..(c + 1), i < j
                   PROVE  all[i] < all[j]
        BY DEF Rising
      <4>1. i \in 1..c /\ all[i] = nth[i]
        BY <3>2
      <4>2. nth[i] \in 1..(m - 1)
        BY <3>1, <4>1
      <4>3. CASE j = c + 1
        <5>1. all[j] = m
          BY <3>2, <4>3
        <5> HIDE DEF all
        <5> QED
          BY <3>1, <4>1, <4>2, <5>1
      <4>4. CASE j # c + 1
        <5>1. j \in 1..c /\ all[j] = nth[j]
          BY <3>2, <4>4
        <5> QED
          BY <3>4, <4>1, <5>1 DEF Rising
      <4> QED
        BY <4>3, <4>4
    <3> QED
      BY <2>3, <3>2, <3>5, <3>6 DEF Good
  <2> QED
    BY <2>4, <2>5
<1> QED
  BY <1>1, <1>2

\* They are, each once.
LEMMA InOrderFacts ==
  ASSUME NEW n \in Nat, NEW at \in SUBSET (1..n)
  PROVE  /\ Cardinality(at) \in Nat
         /\ InOrder(at) \in [1..Cardinality(at) -> at]
         /\ Rising(InOrder(at))
         /\ \A i \in at : \E k \in 1..Cardinality(at) : InOrder(at)[k] = i
<1> DEFINE c == Cardinality(at)
           f == InOrder(at)
<1>1. c \in Nat /\ f \in [1..c -> at] /\ Rising(f)
  BY Orders DEF InOrder, Rising
<1>2. IsFiniteSet(at) /\ IsFiniteSet(1..c) /\ Cardinality(1..c) = c
  <2>1. IsFiniteSet(1..n)
    BY FS_Interval
  <2>2. IsFiniteSet(at)
    BY <2>1, FS_Subset
  <2>3. IsFiniteSet(1..c) /\ Cardinality(1..c) = IF 1 > c THEN 0 ELSE c - 1 + 1
    BY <1>1, FS_Interval
  <2> HIDE DEF c
  <2> QED
    BY <1>1, <2>2, <2>3
<1>3. f \in Injection(1..c, at)
  <2> SUFFICES ASSUME NEW i \in 1..c, NEW j \in 1..c, f[i] = f[j] PROVE i = j
    BY <1>1 DEF Injection, IsInjective
  <2>1. f[i] \in Nat /\ f[j] \in Nat
    <3>1. f[i] \in at /\ f[j] \in at
      BY <1>1
    <3>2. \A k \in at : k \in Nat
      OBVIOUS
    <3> HIDE DEF f
    <3> QED
      BY <3>1, <3>2
  <2>2. i < j => f[i] < f[j]
    BY <1>1 DEF Rising
  <2>3. j < i => f[j] < f[i]
    BY <1>1 DEF Rising
  <2> HIDE DEF f
  <2> QED
    BY <1>1, <2>1, <2>2, <2>3
<1>4. f \in Surjection(1..c, at)
  BY <1>2, <1>3, FS_Injection
<1> QED
  BY <1>1, <1>4 DEF Surjection

\* A list that keeps some elements: where they are now and were before.
KeepsAt(l, U, k, nth) ==
  /\ nth \in [1..Len(k) -> 1..Len(l)] /\ Rising(nth)
  /\ \A i \in 1..Len(k) : k[i] = l[nth[i]] /\ l[nth[i]] \notin U
  /\ \A i \in 1..Len(l) : l[i] \notin U => \E j \in 1..Len(k) : nth[j] = i
LEMMA KeptAt ==
  ASSUME NEW S, NEW l \in Seq(S), NEW U
  PROVE  Kept(l, U) \in Seq(S) /\ \E nth : KeepsAt(l, U, Kept(l, U), nth)
<1> DEFINE n == Len(l)
           at == {i \in DOMAIN l : l[i] \notin U}
           c == Cardinality(at)
           nth == InOrder(at)
           k == Kept(l, U)
<1>1. n \in Nat /\ DOMAIN l = 1..n /\ \A i \in 1..n : l[i] \in S
  BY LenProperties, ElementOfSeq
<1>2. at \in SUBSET (1..n) /\ \A i \in 1..n : i \in at <=> l[i] \notin U
  BY <1>1
<1>3. k = [i \in DOMAIN nth |-> l[nth[i]]]
  BY DEF Kept
<1> HIDE DEF at, k
<1>4. /\ c \in Nat /\ nth \in [1..c -> at] /\ Rising(nth)
      /\ \A i \in at : \E j \in 1..c : nth[j] = i
  BY <1>1, <1>2, InOrderFacts
<1> HIDE DEF c, nth, n
<1>5. \A i \in 1..c : nth[i] \in 1..n /\ l[nth[i]] \notin U
  BY <1>2, <1>4
<1>6. k = [i \in 1..c |-> l[nth[i]]] /\ \A i \in 1..c : l[nth[i]] \in S
  BY <1>1, <1>3, <1>4, <1>5
<1>7. k \in Seq(S) /\ Len(k) = c
  BY <1>4, <1>6
<1>8. \A i \in 1..c : k[i] = l[nth[i]] /\ l[nth[i]] \notin U
  BY <1>5, <1>6
<1>9. \A i \in 1..n : l[i] \notin U => \E j \in 1..c : nth[j] = i
  BY <1>2, <1>4
<1>10. nth \in [1..c -> 1..n]
  BY <1>4, <1>5
<1>11. KeepsAt(l, U, k, nth)
  BY <1>4, <1>7, <1>8, <1>9, <1>10 DEF KeepsAt, n
<1> QED
  BY <1>7, <1>11 DEF k

\* The others stay, in the same order.
LEMMA KeptFacts ==
  ASSUME NEW S, NEW l \in Seq(S), NEW U
  PROVE  /\ Kept(l, U) \in Seq(S)
         /\ \A d : Contains(Kept(l, U), d) <=> Contains(l, d) /\ d \notin U
         /\ \A d, e : Precedes(Kept(l, U), d, e) <=>
                        Precedes(l, d, e) /\ d \notin U /\ e \notin U
<1> DEFINE k == Kept(l, U)
<1>1. k \in Seq(S)
  BY KeptAt
<1>9. \E nth : KeepsAt(l, U, k, nth)
  BY KeptAt
<1> HIDE DEF k
<1>10. PICK nth : KeepsAt(l, U, k, nth)
  BY <1>9
<1>2. /\ nth \in [1..Len(k) -> 1..Len(l)] /\ Rising(nth)
      /\ \A i \in 1..Len(k) : k[i] = l[nth[i]] /\ l[nth[i]] \notin U
      /\ \A i \in 1..Len(l) : l[i] \notin U => \E j \in 1..Len(k) : nth[j] = i
  BY <1>10 DEF KeepsAt
<1>3. Len(k) \in Nat /\ DOMAIN k = 1..Len(k) /\ Len(l) \in Nat /\ DOMAIN l = 1..Len(l)
  BY <1>1, LenProperties
<1>4. \A i, j \in 1..Len(k) : i < j <=> nth[i] < nth[j]
  <2> SUFFICES ASSUME NEW i \in 1..Len(k), NEW j \in 1..Len(k) PROVE i < j <=> nth[i] < nth[j]
    OBVIOUS
  <2>1. i < j => nth[i] < nth[j]
    BY <1>2 DEF Rising
  <2>2. j < i => nth[j] < nth[i]
    BY <1>2 DEF Rising
  <2>3. nth[i] \in Int /\ nth[j] \in Int /\ i \in Int /\ j \in Int
    BY <1>2
  <2>4. i = j => nth[i] = nth[j]
    OBVIOUS
  <2> QED
    BY <2>1, <2>2, <2>3, <2>4
<1>5. ASSUME NEW d PROVE Contains(k, d) <=> Contains(l, d) /\ d \notin U
  <2>1. ASSUME Contains(k, d) PROVE Contains(l, d) /\ d \notin U
    <3>1. PICK i \in 1..Len(k) : k[i] = d
      BY <2>1 DEF Contains
    <3>2. nth[i] \in 1..Len(l) /\ l[nth[i]] = d /\ d \notin U
      BY <1>2, <3>1
    <3> QED
      BY <3>2 DEF Contains
  <2>2. ASSUME Contains(l, d), d \notin U PROVE Contains(k, d)
    <3>1. PICK i \in 1..Len(l) : l[i] = d
      BY <2>2 DEF Contains
    <3>2. PICK j \in 1..Len(k) : nth[j] = i
      BY <1>2, <2>2, <3>1
    <3>3. k[j] = d
      BY <1>2, <3>1, <3>2
    <3> QED
      BY <3>3 DEF Contains
  <2> QED
    BY <2>1, <2>2
<1>6. ASSUME NEW d, NEW e
      PROVE  Precedes(k, d, e) <=> Precedes(l, d, e) /\ d \notin U /\ e \notin U
  <2>1. ASSUME Precedes(k, d, e) PROVE Precedes(l, d, e) /\ d \notin U /\ e \notin U
    <3>1. PICK i \in 1..Len(k), j \in 1..Len(k) : i < j /\ k[i] = d /\ k[j] = e
      BY <1>3, <2>1 DEF Precedes
    <3>2. nth[i] \in 1..Len(l) /\ nth[j] \in 1..Len(l) /\ nth[i] < nth[j]
      BY <1>2, <1>4, <3>1
    <3> QED
      BY <1>2, <1>3, <3>1, <3>2 DEF Precedes
  <2>2. ASSUME Precedes(l, d, e), d \notin U, e \notin U PROVE Precedes(k, d, e)
    <3>1. PICK i \in 1..Len(l), j \in 1..Len(l) : i < j /\ l[i] = d /\ l[j] = e
      BY <1>3, <2>2 DEF Precedes
    <3>2. PICK a \in 1..Len(k), b \in 1..Len(k) : nth[a] = i /\ nth[b] = j
      BY <1>2, <2>2, <3>1
    <3>3. a < b /\ k[a] = d /\ k[b] = e
      BY <1>2, <1>4, <3>1, <3>2
    <3> QED
      BY <1>3, <3>3 DEF Precedes
  <2> QED
    BY <2>1, <2>2
<1> QED
  BY <1>1, <1>5, <1>6 DEF k

\* A list with one more element, at position p.
Wider(l, k, e, p) ==
  /\ p \in 1..(Len(l) + 1) /\ Len(k) = Len(l) + 1
  /\ \A i \in 1..(Len(l) + 1) :
       k[i] = IF i < p THEN l[i] ELSE IF i = p THEN e ELSE l[i - 1]

\* Linking e at position p.
LEMMA InsertFacts ==
  ASSUME NEW S, NEW l \in Seq(S), NEW e \in S, NEW p \in 1..(Len(l) + 1)
  PROVE  InsertAt(l, p, e) \in Seq(S) /\ Wider(l, InsertAt(l, p, e), e, p)
<1> DEFINE n == Len(l)
           a == SubSeq(l, 1, p - 1)
           b == SubSeq(l, p, n)
           c == a \o <<e>>
<1>1. n \in Nat /\ DOMAIN l = 1..n /\ \A i \in 1..n : l[i] \in S
  BY LenProperties, ElementOfSeq
<1>2. p \in Int /\ 1 <= p /\ p <= n + 1
  BY <1>1
<1>3. a \in Seq(S) /\ Len(a) = p - 1 /\ \A i \in 1..(p - 1) : a[i] = l[i]
  <2>1. /\ a \in Seq(S) /\ Len(a) = IF 1 <= p - 1 THEN p - 1 - 1 + 1 ELSE 0
        /\ \A i \in 1..(p - 1 - 1 + 1) : a[i] = l[1 + i - 1]
    <3>1. 1 \in Int /\ p - 1 \in Int /\ \A i \in 1..(p - 1) : l[i] \in S
      BY <1>1, <1>2
    <3> QED
      BY <3>1, SubSeqProperties
  <2> HIDE DEF a
  <2> QED
    BY <1>2, <2>1
<1>4. b \in Seq(S) /\ Len(b) = n + 1 - p /\ \A i \in 1..(n + 1 - p) : b[i] = l[p + i - 1]
  <2>1. /\ b \in Seq(S) /\ Len(b) = IF p <= n THEN n - p + 1 ELSE 0
        /\ \A i \in 1..(n - p + 1) : b[i] = l[p + i - 1]
    <3>1. n \in Int /\ \A i \in p..n : l[i] \in S
      BY <1>1, <1>2
    <3> QED
      BY <1>2, <3>1, SubSeqProperties
  <2> HIDE DEF b, n
  <2>2. n - p + 1 = n + 1 - p /\ (~(p <= n) => n + 1 - p = 0)
    BY <1>1, <1>2
  <2> QED
    BY <2>1, <2>2
<1> HIDE DEF a, b
<1>5. c \in Seq(S) /\ Len(c) = p /\ \A i \in 1..p : c[i] = IF i < p THEN l[i] ELSE e
  <2>1. /\ c \in Seq(S) /\ Len(c) = Len(a) + 1
        /\ \A i \in 1..(Len(a) + 1) : c[i] = IF i <= Len(a) THEN a[i] ELSE <<e>>[i - Len(a)]
    <3>1. <<e>> \in Seq(S) /\ Len(<<e>>) = 1
      OBVIOUS
    <3> QED
      BY <1>3, <3>1, ConcatProperties
  <2>2. Len(a) + 1 = p
    BY <1>2, <1>3
  <2>3. ASSUME NEW i \in 1..p PROVE c[i] = IF i < p THEN l[i] ELSE e
    <3>1. c[i] = IF i <= p - 1 THEN a[i] ELSE <<e>>[i - (p - 1)]
      BY <1>3, <2>1, <2>2
    <3>2. CASE i < p
      BY <1>2, <1>3, <3>1, <3>2
    <3>3. CASE ~(i < p)
      <4>1. i - (p - 1) = 1 /\ ~(i <= p - 1)
        BY <1>2, <3>3
      <4>2. c[i] = <<e>>[1]
        BY <3>1, <4>1
      <4> QED
        BY <3>3, <4>2
    <3> QED
      BY <3>2, <3>3
  <2> QED
    BY <2>1, <2>2, <2>3
<1>6. InsertAt(l, p, e) = c \o b
  BY DEF InsertAt, a, b
<1> HIDE DEF c
<1>7. /\ c \o b \in Seq(S) /\ Len(c \o b) = p + (n + 1 - p)
      /\ \A i \in 1..(p + (n + 1 - p)) : (c \o b)[i] = IF i <= p THEN c[i] ELSE b[i - p]
  BY <1>4, <1>5, ConcatProperties
<1> DEFINE k == c \o b
<1> HIDE DEF k, n
<1>8. k \in Seq(S) /\ Len(k) = n + 1
  BY <1>1, <1>2, <1>7 DEF k
<1>9. ASSUME NEW i \in 1..(n + 1)
      PROVE  k[i] = IF i < p THEN l[i] ELSE IF i = p THEN e ELSE l[i - 1]
  <2>1. k[i] = IF i <= p THEN c[i] ELSE b[i - p]
    BY <1>1, <1>2, <1>7 DEF k
  <2>2. CASE i <= p
    BY <1>2, <1>5, <2>1, <2>2
  <2>3. CASE ~(i <= p)
    <3>1. i - p \in 1..(n + 1 - p) /\ p + (i - p) - 1 = i - 1 /\ ~(i < p) /\ i # p
      BY <1>1, <1>2, <2>3
    <3> QED
      BY <1>4, <2>1, <2>3, <3>1
  <2> QED
    BY <2>2, <2>3
<1>10. Wider(l, k, e, p)
  BY <1>8, <1>9 DEF Wider, n
<1> QED
  BY <1>6, <1>8, <1>10 DEF k

\* The order of a list in which nothing is twice.
LEMMA OrderFacts ==
  ASSUME NEW S, NEW l \in Seq(S), Injective(l)
  PROVE  /\ \A d, e : Precedes(l, d, e) => /\ Contains(l, d) /\ Contains(l, e) /\ d # e
                                           /\ ~Precedes(l, e, d)
         /\ \A d, e : Contains(l, d) /\ Contains(l, e) =>
              d = e \/ Precedes(l, d, e) \/ Precedes(l, e, d)
         /\ \A d, e, f : Precedes(l, d, e) /\ Precedes(l, e, f) => Precedes(l, d, f)
         /\ \A d : Contains(l, d) => d \in S
<1>1. Len(l) \in Nat /\ DOMAIN l = 1..Len(l) /\ \A i \in 1..Len(l) : l[i] \in S
  BY LenProperties, ElementOfSeq
<1>2. ASSUME NEW d, NEW e, Precedes(l, d, e)
      PROVE  Contains(l, d) /\ Contains(l, e) /\ d # e /\ ~Precedes(l, e, d)
  <2>1. PICK i \in 1..Len(l), j \in 1..Len(l) : i < j /\ l[i] = d /\ l[j] = e
    BY <1>1, <1>2 DEF Precedes
  <2>2. d # e
    BY <1>1, <2>1 DEF Injective
  <2>3. ASSUME Precedes(l, e, d) PROVE FALSE
    <3>1. PICK a \in 1..Len(l), b \in 1..Len(l) : a < b /\ l[a] = e /\ l[b] = d
      BY <1>1, <2>3 DEF Precedes
    <3>2. a = j /\ b = i
      BY <1>1, <2>1, <3>1 DEF Injective
    <3> QED
      BY <2>1, <3>1, <3>2
  <2> QED
    BY <2>1, <2>2, <2>3 DEF Contains
<1>3. ASSUME NEW d, NEW e, Contains(l, d), Contains(l, e)
      PROVE  d = e \/ Precedes(l, d, e) \/ Precedes(l, e, d)
  <2>1. PICK i \in 1..Len(l), j \in 1..Len(l) : l[i] = d /\ l[j] = e
    BY <1>3 DEF Contains
  <2>2. i < j \/ j < i \/ i = j
    OBVIOUS
  <2> QED
    BY <1>1, <2>1, <2>2 DEF Precedes
<1>4. ASSUME NEW d, NEW e, NEW f, Precedes(l, d, e), Precedes(l, e, f)
      PROVE  Precedes(l, d, f)
  <2>1. PICK i \in 1..Len(l), j \in 1..Len(l) : i < j /\ l[i] = d /\ l[j] = e
    BY <1>1, <1>4 DEF Precedes
  <2>2. PICK a \in 1..Len(l), b \in 1..Len(l) : a < b /\ l[a] = e /\ l[b] = f
    BY <1>1, <1>4 DEF Precedes
  <2>3. a = j
    BY <1>1, <2>1, <2>2 DEF Injective
  <2>4. i < b
    BY <2>1, <2>2, <2>3
  <2> QED
    BY <1>1, <2>1, <2>2, <2>4 DEF Precedes
<1>5. \A d : Contains(l, d) => d \in S
  BY <1>1 DEF Contains
<1> QED
  BY <1>2, <1>3, <1>4, <1>5

\* A list in which nothing comes before itself has everything once.
LEMMA InjectiveOrder ==
  ASSUME NEW S, NEW l \in Seq(S), \A d : ~Precedes(l, d, d)
  PROVE  Injective(l)
<1> SUFFICES ASSUME NEW i \in DOMAIN l, NEW j \in DOMAIN l, l[i] = l[j], i # j PROVE FALSE
  BY DEF Injective
<1>1. i \in Int /\ j \in Int
  BY LenProperties
<1>2. i < j \/ j < i
  BY <1>1
<1> QED
  BY <1>2 DEF Precedes

\* The last element is the one that none follows.
LEMMA LastFacts ==
  ASSUME NEW S, NEW l \in Seq(S), Injective(l)
  PROVE  /\ \A d : Contains(l, d) => /\ l # <<>> /\ Contains(l, Last(l))
                                     /\ d = Last(l) \/ Precedes(l, d, Last(l))
         /\ \A m : Contains(l, m) /\ (\A d : ~Precedes(l, m, d)) => m = Last(l)
         /\ l # <<>> => Contains(l, Last(l)) /\ Last(l) \in S
<1>1. /\ Len(l) \in Nat /\ DOMAIN l = 1..Len(l) /\ (l # <<>> => Len(l) \in 1..Len(l))
      /\ (Len(l) # 0 => l # <<>>)
  <2>1. Len(l) \in Nat /\ DOMAIN l = 1..Len(l)
    BY LenProperties
  <2>2. l # <<>> => Len(l) \in Nat \ {0}
    BY EmptySeq
  <2>3. Len(<<>>) = 0
    BY EmptySeq
  <2> QED
    BY <2>1, <2>2, <2>3
<1>2. l # <<>> => Contains(l, Last(l)) /\ Last(l) \in S
  BY <1>1, ElementOfSeq DEF Contains, Last
<1>3. ASSUME NEW d, Contains(l, d)
      PROVE  l # <<>> /\ (d = Last(l) \/ Precedes(l, d, Last(l)))
  <2>1. PICK i \in 1..Len(l) : l[i] = d
    BY <1>3 DEF Contains
  <2>2. Len(l) # 0 /\ l # <<>> /\ (i = Len(l) \/ i < Len(l))
    <3>1. Len(l) \in Nat /\ i \in 1..Len(l)
      BY <1>1
    <3>2. Len(l) # 0 /\ (i = Len(l) \/ i < Len(l))
      BY <3>1
    <3> QED
      BY <1>1, <3>2
  <2> QED
    BY <1>1, <2>1, <2>2 DEF Last, Precedes
<1> QED
  BY <1>2, <1>3

\* Where the elements are in a list with one more.
LEMMA WiderFacts ==
  ASSUME NEW S, NEW l \in Seq(S), NEW k \in Seq(S), NEW e, NEW p, Wider(l, k, e, p)
  PROVE  /\ \A d : Contains(k, d) <=> Contains(l, d) \/ d = e
         /\ \A d, f : Precedes(k, d, f) <=>
              \/ Precedes(l, d, f)
              \/ d = e /\ \E j \in p..Len(l) : l[j] = f
              \/ f = e /\ \E i \in 1..(p - 1) : l[i] = d
         /\ Last(k) = (IF p = Len(l) + 1 THEN e ELSE Last(l))
<1> DEFINE n == Len(l)
<1>1. \A i \in 1..(n + 1) : k[i] = IF i < p THEN l[i] ELSE IF i = p THEN e ELSE l[i - 1]
  BY DEF Wider
<1>2. Len(k) = n + 1 /\ p \in 1..(n + 1)
  BY DEF Wider
<1>3. n \in Nat /\ DOMAIN l = 1..n /\ DOMAIN k = 1..(n + 1)
  BY <1>2, LenProperties
<1>4. p \in Int /\ 1 <= p /\ p <= n + 1
  BY <1>3, <1>2
<1> DEFINE new(i) == IF i < p THEN i ELSE i + 1
<1> HIDE DEF n
<1>5. \A i \in 1..n : new(i) \in 1..(n + 1) /\ new(i) # p /\ k[new(i)] = l[i]
  <2> SUFFICES ASSUME NEW i \in 1..n
               PROVE  new(i) \in 1..(n + 1) /\ new(i) # p /\ k[new(i)] = l[i]
    OBVIOUS
  <2>1. CASE i < p
    BY <1>3, <1>4, <1>1, <2>1
  <2>2. CASE ~(i < p)
    <3>1. i + 1 \in 1..(n + 1) /\ ~(i + 1 < p) /\ i + 1 # p /\ i + 1 - 1 = i
      BY <1>3, <1>4, <2>2
    <3> QED
      BY <1>1, <2>2, <3>1
  <2> QED
    BY <2>1, <2>2
<1>6. \A i, j \in 1..n : i < j => new(i) < new(j)
  BY <1>3, <1>4
<1>7. \A i \in 1..(n + 1) : i # p => \E j \in 1..n : new(j) = i
  <2> SUFFICES ASSUME NEW i \in 1..(n + 1), i # p PROVE \E j \in 1..n : new(j) = i
    OBVIOUS
  <2>1. CASE i < p
    <3>1. i \in 1..n /\ new(i) = i
      BY <1>3, <1>4, <2>1
    <3> QED
      BY <3>1
  <2>2. CASE ~(i < p)
    <3>1. i - 1 \in 1..n /\ new(i - 1) = i
      BY <1>3, <1>4, <2>2
    <3> QED
      BY <3>1
  <2> QED
    BY <2>1, <2>2
<1>8. k[p] = e /\ p \in 1..(n + 1)
  BY <1>3, <1>4, <1>1
<1>9. \A i \in 1..n : (new(i) < p <=> i < p) /\ (p < new(i) <=> p <= i)
  BY <1>3, <1>4
<1>10. \A i, j \in 1..n : new(i) < new(j) => i < j
  BY <1>3, <1>4
<1> HIDE DEF new
<1>11. ASSUME NEW d PROVE Contains(k, d) <=> Contains(l, d) \/ d = e
  <2>1. Contains(k, d) <=> \E i \in 1..(n + 1) : k[i] = d
    BY <1>2 DEF Contains
  <2>2. Contains(l, d) <=> \E i \in 1..n : l[i] = d
    BY DEF Contains, n
  <2> QED
    BY <1>5, <1>7, <1>8, <2>1, <2>2
<1>12. ASSUME NEW d, NEW f
       PROVE  Precedes(k, d, f) <=> \/ Precedes(l, d, f)
                                    \/ d = e /\ \E j \in p..n : l[j] = f
                                    \/ f = e /\ \E i \in 1..(p - 1) : l[i] = d
  <2>1. ASSUME Precedes(k, d, f)
        PROVE  \/ Precedes(l, d, f)
               \/ d = e /\ \E j \in p..n : l[j] = f
               \/ f = e /\ \E i \in 1..(p - 1) : l[i] = d
    <3>1. PICK i \in 1..(n + 1), j \in 1..(n + 1) : i < j /\ k[i] = d /\ k[j] = f
      BY <1>3, <2>1 DEF Precedes
    <3>2. CASE i = p
      <4>0. j # p
        BY <1>3, <3>1, <3>2
      <4>1. PICK b \in 1..n : new(b) = j
        BY <1>7, <4>0
      <4>2. p <= b /\ l[b] = f
        BY <1>5, <1>9, <3>1, <3>2, <4>1
      <4>3. b \in p..n
        BY <1>4, <4>2
      <4> QED
        BY <1>8, <3>1, <3>2, <4>2, <4>3
    <3>3. CASE j = p
      <4>0. i # p
        BY <1>3, <3>1, <3>3
      <4>1. PICK a \in 1..n : new(a) = i
        BY <1>7, <4>0
      <4>2. a < p /\ l[a] = d
        BY <1>5, <1>9, <3>1, <3>3, <4>1
      <4>3. a \in 1..(p - 1)
        BY <1>4, <4>2
      <4> QED
        BY <1>8, <3>1, <3>3, <4>2, <4>3
    <3>4. CASE i # p /\ j # p
      <4>1. PICK a \in 1..n, b \in 1..n : new(a) = i /\ new(b) = j
        BY <1>7, <3>4
      <4>2. a < b /\ l[a] = d /\ l[b] = f
        BY <1>5, <1>10, <3>1, <4>1
      <4> QED
        BY <1>3, <4>2 DEF Precedes
    <3> QED
      BY <3>2, <3>3, <3>4
  <2>2. ASSUME Precedes(l, d, f) PROVE Precedes(k, d, f)
    <3>1. PICK a \in 1..n, b \in 1..n : a < b /\ l[a] = d /\ l[b] = f
      BY <1>3, <2>2 DEF Precedes
    <3>2. new(a) \in DOMAIN k /\ new(b) \in DOMAIN k /\ new(a) < new(b)
          /\ k[new(a)] = d /\ k[new(b)] = f
      BY <1>3, <1>5, <1>6, <3>1
    <3> QED
      BY <3>2 DEF Precedes
  <2>3. ASSUME d = e, NEW j \in p..n, l[j] = f PROVE Precedes(k, d, f)
    <3>1. j \in 1..n /\ p <= j
      BY <1>3, <1>4
    <3>2. new(j) \in DOMAIN k /\ p < new(j) /\ k[new(j)] = f
      BY <1>3, <1>5, <1>9, <2>3, <3>1
    <3> QED
      BY <1>3, <1>8, <2>3, <3>2 DEF Precedes
  <2>4. ASSUME f = e, NEW i \in 1..(p - 1), l[i] = d PROVE Precedes(k, d, f)
    <3>1. i \in 1..n /\ i < p
      BY <1>3, <1>4
    <3>2. new(i) \in DOMAIN k /\ new(i) < p /\ k[new(i)] = d
      BY <1>3, <1>5, <1>9, <2>4, <3>1
    <3> QED
      BY <1>3, <1>8, <2>4, <3>2 DEF Precedes
  <2> QED
    BY <2>1, <2>2, <2>3, <2>4
<1>13. Last(k) = IF p = n + 1 THEN e ELSE Last(l)
  <2>1. Last(k) = k[n + 1] /\ Last(l) = l[n]
    BY <1>2 DEF Last, n
  <2>2. PICK m \in 1..(n + 1) : m = n + 1
    BY <1>3
  <2>3. k[m] = IF m < p THEN l[m] ELSE IF m = p THEN e ELSE l[m - 1]
    BY <1>1
  <2>4. ~(m < p) /\ m - 1 = n
    BY <1>3, <1>4, <2>2
  <2> QED
    BY <2>1, <2>2, <2>3, <2>4
<1> QED
  BY <1>11, <1>12, <1>13 DEF n

\* Appending an event keeps the order of the others.
LEMMA AppendWider ==
  ASSUME NEW S, NEW l \in Seq(S), NEW e \in S
  PROVE  Append(l, e) \in Seq(S) /\ Wider(l, Append(l, e), e, Len(l) + 1)
<1> DEFINE n == Len(l)
           k == Append(l, e)
<1>1. n \in Nat /\ k \in Seq(S) /\ Len(k) = n + 1 /\ k[n + 1] = e
      /\ \A i \in 1..n : k[i] = l[i]
  BY LenProperties, AppendProperties
<1> HIDE DEF n, k
<1>2. n + 1 \in 1..(n + 1)
  BY <1>1
<1>3. ASSUME NEW i \in 1..(n + 1)
      PROVE  k[i] = IF i < n + 1 THEN l[i] ELSE IF i = n + 1 THEN e ELSE l[i - 1]
  <2>1. CASE i = n + 1
    BY <1>1, <2>1
  <2>2. CASE i # n + 1
    <3>1. i < n + 1 /\ i \in 1..n
      BY <1>1, <2>2
    <3> QED
      BY <1>1, <3>1
  <2> QED
    BY <2>1, <2>2
<1> QED
  BY <1>1, <1>2, <1>3 DEF Wider, n, k

-------------------------------------------------------------------------------
(* The invariant.                                                           *)

\* Nothing is linked twice, and the list holds what was queued and not taken out.
Lists == /\ Injective(queue) /\ Injective(posted)
         /\ \A e : Contains(queue, e) <=> Contains(posted, e)
Ends == queue # <<>> => last = Last(queue)

\* The marker is not behind the events at the tail, and no event of its kind is
\* behind it.
Marks == /\ marker # NULL => Contains(queue, marker) /\ kind[marker] # "tail"
         /\ \A d : Contains(queue, d) /\ kind[d] = "mark" =>
              marker # NULL /\ (d = marker \/ Precedes(queue, d, marker))

\* A handler that runs has an event of its own in the list, unless that was deleted.
Active == \A k, m \in DOMAIN stack : ~stack[k].stale /\ ~stack[m].stale =>
            Contains(queue, stack[k].ev) /\ (stack[k].ev = stack[m].ev => k = m)
Careful == ~whole => fault = "none" /\ \A k \in DOMAIN stack : ~stack[k].stale

IInv == TypeOK /\ Lists /\ Ends /\ Marks /\ Active /\ Careful /\ Ordered

\* The invariant implies what the runs check.
LEMMA Implied == ASSUME IInv PROVE Linked /\ Ordered /\ NothingLost
<1> USE DEF IInv
<1>1. ToSet(queue) = ToSet(posted)
  <2>1. \A d : d \in ToSet(queue) <=> Contains(queue, d)
    BY LenProperties DEF ToSet, Contains, TypeOK
  <2>2. \A d : d \in ToSet(posted) <=> Contains(posted, d)
    BY LenProperties DEF ToSet, Contains, TypeOK
  <2> QED
    BY <2>1, <2>2 DEF Lists
<1>2. Linked
  BY <1>1 DEF Linked, Lists, Ends, Marks, Active, Injective
<1> QED
  BY <1>2 DEF NothingLost, Careful

\* What comes before an event in the list, and what behind it.
LEMMA Place ==
  ASSUME IInv, NEW e, Contains(queue, e)
  PROVE  /\ At(e) \in 1..Len(queue) /\ queue[At(e)] = e
         /\ \A d : Precedes(queue, d, e) <=> \E i \in 1..(At(e) - 1) : queue[i] = d
         /\ \A f : Precedes(queue, e, f) <=> \E j \in (At(e) + 1)..Len(queue) : queue[j] = f
<1>1. Len(queue) \in Nat /\ DOMAIN queue = 1..Len(queue)
  BY LenProperties DEF IInv, TypeOK
<1>2. At(e) \in 1..Len(queue) /\ queue[At(e)] = e
  BY <1>1 DEF Contains, At
<1> DEFINE a == At(e)
<1>3. \A i \in 1..Len(queue) : queue[i] = e => i = a
  BY <1>1, <1>2 DEF IInv, Lists, Injective
<1>4. ASSUME NEW d PROVE Precedes(queue, d, e) <=> \E i \in 1..(a - 1) : queue[i] = d
  <2>1. ASSUME Precedes(queue, d, e) PROVE \E i \in 1..(a - 1) : queue[i] = d
    <3>1. PICK i \in 1..Len(queue), j \in 1..Len(queue) : i < j /\ queue[i] = d /\ queue[j] = e
      BY <1>1, <2>1 DEF Precedes
    <3>2. j = a
      BY <1>3, <3>1
    <3> HIDE DEF a
    <3>3. i \in 1..(a - 1)
      BY <1>1, <3>1, <3>2
    <3> QED
      BY <3>1, <3>3
  <2>2. ASSUME NEW i \in 1..(a - 1), queue[i] = d PROVE Precedes(queue, d, e)
    <3> HIDE DEF a
    <3>1. i \in 1..Len(queue) /\ i < a
      BY <1>1, <1>2 DEF a
    <3> QED
      BY <1>1, <1>2, <2>2, <3>1 DEF Precedes, a
  <2> QED
    BY <2>1, <2>2
<1>5. ASSUME NEW f PROVE Precedes(queue, e, f) <=> \E j \in (a + 1)..Len(queue) : queue[j] = f
  <2>1. ASSUME Precedes(queue, e, f) PROVE \E j \in (a + 1)..Len(queue) : queue[j] = f
    <3>1. PICK i \in 1..Len(queue), j \in 1..Len(queue) : i < j /\ queue[i] = e /\ queue[j] = f
      BY <1>1, <2>1 DEF Precedes
    <3>2. i = a
      BY <1>3, <3>1
    <3> HIDE DEF a
    <3>3. j \in (a + 1)..Len(queue)
      BY <1>1, <3>1, <3>2
    <3> QED
      BY <3>1, <3>3
  <2>2. ASSUME NEW j \in (a + 1)..Len(queue), queue[j] = f PROVE Precedes(queue, e, f)
    <3> HIDE DEF a
    <3>1. j \in 1..Len(queue) /\ a < j
      BY <1>1, <1>2 DEF a
    <3> QED
      BY <1>1, <1>2, <2>2, <3>1 DEF Precedes, a
  <2> QED
    BY <2>1, <2>2
<1> QED
  BY <1>2, <1>4, <1>5

\* The part of the list before an event.
LEMMA LeftFacts ==
  ASSUME IInv, NEW e, Contains(queue, e)
  PROVE  LET l == SubSeq(queue, 1, At(e) - 1) IN
         /\ l \in Seq(Events) /\ Injective(l)
         /\ \A d : Contains(l, d) <=> Precedes(queue, d, e)
         /\ \A d, f : Precedes(l, d, f) <=> Precedes(queue, d, f) /\ Precedes(queue, f, e)
<1> DEFINE a == At(e)
           l == SubSeq(queue, 1, a - 1)
<1>1. /\ Len(queue) \in Nat /\ DOMAIN queue = 1..Len(queue) /\ queue \in Seq(Events)
      /\ \A i \in 1..Len(queue) : queue[i] \in Events
  BY LenProperties, ElementOfSeq DEF IInv, TypeOK
<1>2. a \in 1..Len(queue) /\ \A d : Precedes(queue, d, e) <=> \E i \in 1..(a - 1) : queue[i] = d
  BY Place
<1> HIDE DEF a
<1>3. l \in Seq(Events) /\ Len(l) = a - 1 /\ \A i \in 1..(a - 1) : l[i] = queue[i]
  <2>1. \A i \in 1..(a - 1) : queue[i] \in Events
    BY <1>1, <1>2
  <2>2. /\ l \in Seq(Events) /\ Len(l) = IF 1 <= a - 1 THEN a - 1 - 1 + 1 ELSE 0
        /\ \A i \in 1..(a - 1 - 1 + 1) : l[i] = queue[1 + i - 1]
    <3>1. 1 \in Int /\ a - 1 \in Int
      BY <1>1, <1>2
    <3> QED
      BY <2>1, <3>1, SubSeqProperties
  <2> HIDE DEF l
  <2> QED
    BY <1>1, <1>2, <2>2
<1> HIDE DEF l
<1>4. DOMAIN l = 1..(a - 1) /\ \A i \in 1..(a - 1) : i \in 1..Len(queue)
  BY <1>1, <1>2, <1>3, LenProperties
<1>5. Injective(l)
  BY <1>1, <1>3, <1>4 DEF Injective, IInv, Lists
<1>6. \A d : Contains(l, d) <=> Precedes(queue, d, e)
  BY <1>2, <1>3 DEF Contains
<1>7. ASSUME NEW d, NEW f
      PROVE  Precedes(l, d, f) <=> Precedes(queue, d, f) /\ Precedes(queue, f, e)
  <2>1. ASSUME Precedes(l, d, f) PROVE Precedes(queue, d, f) /\ Precedes(queue, f, e)
    <3>1. PICK i \in 1..(a - 1), j \in 1..(a - 1) : i < j /\ l[i] = d /\ l[j] = f
      BY <1>4, <2>1 DEF Precedes
    <3>2. queue[i] = d /\ queue[j] = f /\ i \in DOMAIN queue /\ j \in DOMAIN queue
      BY <1>1, <1>3, <1>4, <3>1
    <3> QED
      BY <1>2, <3>1, <3>2 DEF Precedes
  <2>2. ASSUME Precedes(queue, d, f), Precedes(queue, f, e) PROVE Precedes(l, d, f)
    <3>1. PICK i \in 1..Len(queue), j \in 1..Len(queue) : i < j /\ queue[i] = d /\ queue[j] = f
      BY <1>1, <2>2 DEF Precedes
    <3>2. PICK m \in 1..(a - 1) : queue[m] = f
      BY <1>2, <2>2
    <3>3. m = j
      BY <1>1, <1>4, <3>1, <3>2 DEF IInv, Lists, Injective
    <3>4. i \in 1..(a - 1) /\ j \in 1..(a - 1)
      BY <1>1, <1>2, <3>1, <3>2, <3>3
    <3> QED
      BY <1>3, <1>4, <3>1, <3>4 DEF Precedes
  <2> QED
    BY <2>1, <2>2
<1> QED
  BY <1>3, <1>5, <1>6, <1>7 DEF l, a

\* The event just before e.
LEMMA BeforeFacts ==
  ASSUME IInv, NEW e, Contains(queue, e)
  PROVE  \/ Before(e) = NULL /\ \A d : ~Precedes(queue, d, e)
         \/ /\ Before(e) \in Events /\ Precedes(queue, Before(e), e)
            /\ \A d : Precedes(queue, d, e) => d = Before(e) \/ Precedes(queue, d, Before(e))
<1> DEFINE a == At(e)
<1>1. /\ Len(queue) \in Nat /\ DOMAIN queue = 1..Len(queue) /\ queue \in Seq(Events)
      /\ \A i \in 1..Len(queue) : queue[i] \in Events
  BY LenProperties, ElementOfSeq DEF IInv, TypeOK
<1>2. a \in 1..Len(queue) /\ \A d : Precedes(queue, d, e) <=> \E i \in 1..(a - 1) : queue[i] = d
  BY Place
<1>3. Before(e) = IF a = 1 THEN NULL ELSE queue[a - 1]
  BY DEF Before
<1> HIDE DEF a
<1>4. CASE a = 1
  <2>1. 1..(a - 1) = {}
    BY <1>4
  <2> QED
    BY <1>2, <1>3, <1>4, <2>1
<1>5. CASE a # 1
  <2>1. a - 1 \in 1..(a - 1) /\ a - 1 \in 1..Len(queue)
    BY <1>1, <1>2, <1>5
  <2>2. Before(e) \in Events /\ Precedes(queue, Before(e), e)
    BY <1>1, <1>2, <1>3, <1>5, <2>1
  <2>3. ASSUME NEW d, Precedes(queue, d, e) PROVE d = Before(e) \/ Precedes(queue, d, Before(e))
    <3>1. PICK i \in 1..(a - 1) : queue[i] = d
      BY <1>2, <2>3
    <3>2. i = a - 1 \/ (i < a - 1 /\ i \in 1..Len(queue))
      BY <1>1, <1>2
    <3> QED
      BY <1>1, <1>3, <1>5, <2>1, <3>1, <3>2 DEF Precedes
  <2> QED
    BY <2>2, <2>3
<1> QED
  BY <1>4, <1>5

-------------------------------------------------------------------------------
(* Queueing.                                                                *)

\* What is in the list before position p is what is in B.
Splits(p, B) ==
  /\ \A d : (\E i \in 1..(p - 1) : queue[i] = d) <=> d \in B /\ Contains(queue, d)
  /\ \A d : (\E j \in p..Len(queue) : queue[j] = d) <=> d \notin B /\ Contains(queue, d)

\* An event is linked between those of B and the others; it is the youngest.
LEMMA Queueing ==
  ASSUME IInv, NEW e \in Events, Fresh(e), NEW sort \in {"tail", "head", "mark"},
         Queued(e, sort), last' \in Events, marker' \in Events \cup {NULL},
         queue' \in Seq(Events), NEW p, Wider(queue, queue', e, p),
         NEW B, Splits(p, B)
  PROVE  /\ TypeOK' /\ Lists' /\ Active' /\ Careful'
         /\ kind'[e] = sort /\ \A d \in Events \ {e} : kind'[d] = kind[d]
         /\ ~Contains(queue, e)
         /\ \A d : Contains(queue, d)' <=> Contains(queue, d) \/ d = e
         /\ \A d, f : Precedes(queue, d, f)' <=>
              \/ Precedes(queue, d, f)
              \/ d = e /\ f \notin B /\ Contains(queue, f)
              \/ f = e /\ d \in B /\ Contains(queue, d)
         /\ \A d, f : Precedes(posted, d, f)' <=>
              Precedes(posted, d, f) \/ (f = e /\ Contains(queue, d))
         /\ Last(queue') = IF p = Len(queue) + 1 THEN e ELSE Last(queue)
<1>1. /\ TypeOK /\ fault = "none" /\ ~Contains(queue, e)
      /\ kind' = [kind EXCEPT ![e] = sort]
      /\ posted' = Append(posted, e) /\ UNCHANGED <<stack, whole, fault>>
  BY DEF IInv, Fresh, Queued
<1>2. queue \in Seq(Events) /\ posted \in Seq(Events) /\ Injective(queue) /\ Injective(posted)
      /\ \A d : Contains(queue, d) <=> Contains(posted, d)
  BY DEF IInv, TypeOK, Lists
<1>3. /\ \A d : Contains(queue', d) <=> Contains(queue, d) \/ d = e
      /\ \A d, f : Precedes(queue', d, f) <=>
           \/ Precedes(queue, d, f)
           \/ d = e /\ \E j \in p..Len(queue) : queue[j] = f
           \/ f = e /\ \E i \in 1..(p - 1) : queue[i] = d
      /\ Last(queue') = IF p = Len(queue) + 1 THEN e ELSE Last(queue)
  BY <1>2, WiderFacts
<1>4. \A d, f : Precedes(queue', d, f) <=>
        \/ Precedes(queue, d, f)
        \/ d = e /\ f \notin B /\ Contains(queue, f)
        \/ f = e /\ d \in B /\ Contains(queue, d)
  BY <1>3 DEF Splits
<1>5. /\ posted' \in Seq(Events)
      /\ \A d : Contains(posted', d) <=> Contains(posted, d) \/ d = e
      /\ \A d, f : Precedes(posted', d, f) <=>
           Precedes(posted, d, f) \/ (f = e /\ Contains(posted, d))
  <2> DEFINE n == Len(posted)
  <2>1. posted' \in Seq(Events) /\ Wider(posted, posted', e, n + 1) /\ n \in Nat
    BY <1>1, <1>2, LenProperties, AppendWider
  <2>2. \A d : Contains(posted, d) <=> \E i \in 1..n : posted[i] = d
    BY DEF Contains
  <2> HIDE DEF n
  <2>4. n + 1 - 1 = n /\ (n + 1)..n = {}
    BY <2>1
  <2>5. /\ \A d : Contains(posted', d) <=> Contains(posted, d) \/ d = e
        /\ \A d, f : Precedes(posted', d, f) <=>
             \/ Precedes(posted, d, f)
             \/ d = e /\ \E j \in (n + 1)..n : posted[j] = f
             \/ f = e /\ \E i \in 1..(n + 1 - 1) : posted[i] = d
    BY <1>2, <2>1, WiderFacts DEF n
  <2> QED
    BY <2>1, <2>2, <2>4, <2>5
<1>6. /\ \A d : ~Precedes(queue, d, d) /\ ~Precedes(posted, d, d)
  BY <1>2, OrderFacts
<1>7. Lists'
  <2>1. ASSUME NEW d PROVE ~Precedes(queue', d, d) /\ ~Precedes(posted', d, d)
    <3>1. ~Contains(queue, e) /\ ~Contains(posted, e) /\ ~Precedes(queue, d, d)
          /\ ~Precedes(posted, d, d)
      BY <1>1, <1>2, <1>6
    <3>2. ~Precedes(queue', d, d)
      BY <1>4, <3>1
    <3>3. ~Precedes(posted', d, d)
      BY <1>5, <3>1
    <3> QED
      BY <3>2, <3>3
  <2>2. Injective(queue') /\ Injective(posted')
    BY <1>5, <2>1, InjectiveOrder
  <2> QED
    BY <1>2, <1>3, <1>5, <2>2 DEF Lists
<1>8. TypeOK'
  BY <1>1, <1>5 DEF TypeOK
<1>9. Active'
  BY <1>1, <1>3 DEF IInv, Active
<1>10. Careful'
  BY <1>1 DEF IInv, Careful
<1>11. kind'[e] = sort /\ \A d \in Events \ {e} : kind'[d] = kind[d]
  BY <1>1 DEF TypeOK
<1> QED
  BY <1>1, <1>2, <1>3, <1>4, <1>5, <1>7, <1>8, <1>9, <1>10, <1>11

\* What is known of the list an event is added to.
LEMMA ListFacts ==
  ASSUME IInv
  PROVE  /\ queue \in Seq(Events) /\ Injective(queue) /\ Len(queue) \in Nat
         /\ DOMAIN queue = 1..Len(queue)
         /\ \A d : Contains(queue, d) <=> \E i \in 1..Len(queue) : queue[i] = d
         /\ \A d : Contains(queue, d) => d \in Events
         /\ \A d, f : Precedes(queue, d, f) => Contains(queue, d) /\ Contains(queue, f)
         /\ (queue = <<>>) <=> (Len(queue) = 0)
<1>1. queue \in Seq(Events) /\ Injective(queue)
  BY DEF IInv, TypeOK, Lists
<1>2. Len(queue) \in Nat /\ DOMAIN queue = 1..Len(queue)
  BY <1>1, LenProperties
<1>3. /\ \A d : Contains(queue, d) => d \in Events
      /\ \A d, f : Precedes(queue, d, f) => Contains(queue, d) /\ Contains(queue, f)
  BY <1>1, OrderFacts
<1>4. (queue = <<>>) <=> (Len(queue) = 0)
  BY <1>1, EmptySeq
<1> QED
  BY <1>1, <1>2, <1>3, <1>4 DEF Contains

\* At the tail: behind the last event.
LEMMA QueueTailStep ==
  ASSUME IInv, NEW e \in Events, QueueTail(e)
  PROVE  IInv'
<1> DEFINE n == Len(queue)
<1>1. Fresh(e) /\ Queued(e, "tail") /\ last' = e /\ marker' = marker
      /\ queue' = IF queue = <<>> THEN <<e>> ELSE LinkedLast(last, e)
  BY DEF QueueTail
<1>2. /\ queue \in Seq(Events) /\ n \in Nat /\ \A d : Contains(queue, d) => d \in Events
      /\ \A d : Contains(queue, d) <=> \E i \in 1..n : queue[i] = d
      /\ \A d, f : Precedes(queue, d, f) => Contains(queue, d) /\ Contains(queue, f)
  BY ListFacts
<1>3. queue' = Append(queue, e)
  <2>1. CASE queue = <<>>
    BY <1>1, <2>1
  <2>2. CASE queue # <<>>
    <3>1. last = queue[n] /\ n \in 1..n /\ Contains(queue, last)
      BY <1>2, <2>2, ListFacts DEF IInv, Ends, Last, Contains
    <3>2. At(last) = n
      BY <3>1, ListFacts, Place DEF Injective
    <3>3. SubSeq(queue, 1, n) = queue
      BY <1>2, SubSeqFull
    <3> QED
      BY <1>1, <2>2, <3>2, <3>3 DEF LinkedLast
  <2> QED
    BY <2>1, <2>2
<1>5. queue' \in Seq(Events) /\ Wider(queue, queue', e, n + 1)
  BY <1>2, <1>3, AppendWider
<1> HIDE DEF n
<1>6. n + 1 - 1 = n /\ (n + 1)..n = {}
  BY <1>2
<1>7. Splits(n + 1, Events)
  BY <1>2, <1>6 DEF Splits, n
<1>8. /\ TypeOK' /\ Lists' /\ Active' /\ Careful'
      /\ kind'[e] = "tail" /\ \A d \in Events \ {e} : kind'[d] = kind[d]
      /\ ~Contains(queue, e)
      /\ \A d : Contains(queue, d)' <=> Contains(queue, d) \/ d = e
      /\ \A d, f : Precedes(queue, d, f)' <=>
           \/ Precedes(queue, d, f)
           \/ d = e /\ f \notin Events /\ Contains(queue, f)
           \/ f = e /\ d \in Events /\ Contains(queue, d)
      /\ \A d, f : Precedes(posted, d, f)' <=>
           Precedes(posted, d, f) \/ (f = e /\ Contains(queue, d))
      /\ Last(queue') = IF n + 1 = Len(queue) + 1 THEN e ELSE Last(queue)
  <2>1. last' \in Events /\ marker' \in Events \cup {NULL} /\ "tail" \in {"tail", "head", "mark"}
    BY <1>1 DEF IInv, TypeOK
  <2> QED
    BY <1>1, <1>5, <1>7, <2>1, Queueing
<1>9. Ends'
  BY <1>1, <1>8 DEF Ends, n
<1>10. Marks'
  <2>1. ASSUME marker # NULL PROVE Contains(queue, marker)' /\ kind'[marker] # "tail"
    <3>1. Contains(queue, marker) /\ kind[marker] # "tail" /\ marker \in Events /\ marker # e
      BY <1>2, <1>8, <2>1 DEF IInv, Marks
    <3> QED
      BY <1>1, <1>8, <3>1
  <2>2. ASSUME NEW d, Contains(queue, d)', kind'[d] = "mark"
        PROVE  marker # NULL /\ (d = marker \/ Precedes(queue, d, marker)')
    <3>1. d # e
      BY <1>8, <2>2
    <3>2. Contains(queue, d) /\ kind[d] = "mark"
      BY <1>2, <1>8, <2>2, <3>1
    <3> QED
      BY <1>1, <1>8, <3>2 DEF IInv, Marks
  <2> QED
    BY <1>1, <2>1, <2>2 DEF Marks
<1>11. Ordered'
  <2> SUFFICES ASSUME NEW d \in Events, NEW f \in Events, Precedes(queue, d, f)'
               PROVE  /\ kind'[d] = "tail" => kind'[f] = "tail" /\ Precedes(posted, d, f)'
                      /\ kind'[d] = "mark" /\ kind'[f] = "mark" => Precedes(posted, d, f)'
                      /\ kind'[d] = "head" /\ kind'[f] = "head" => Precedes(posted, f, d)'
    BY DEF Ordered
  <2>1. CASE Precedes(queue, d, f)
    <3>1. d # e /\ f # e
      BY <1>2, <1>8, <2>1
    <3> QED
      BY <1>8, <2>1, <3>1 DEF IInv, Ordered
  <2>2. CASE f = e /\ Contains(queue, d)
    BY <1>8, <2>2
  <2> QED
    BY <1>8, <2>1, <2>2
<1> QED
  BY <1>8, <1>9, <1>10, <1>11 DEF IInv

\* At the head: before all others.
LEMMA HeadIs ==
  ASSUME IInv, NEW e \in Events, queue' = <<e>> \o queue
  PROVE  /\ queue' \in Seq(Events) /\ Len(queue') = Len(queue) + 1
         /\ Wider(queue, queue', e, 1)
         /\ Splits(1, {})
<1> DEFINE n == Len(queue)
           one == <<e>>
<1>1. queue \in Seq(Events) /\ n \in Nat /\ one \in Seq(Events) /\ Len(one) = 1 /\ one[1] = e
      /\ \A d : Contains(queue, d) <=> \E i \in 1..n : queue[i] = d
  BY ListFacts
<1> HIDE DEF one
<1>2. /\ queue' \in Seq(Events) /\ Len(queue') = Len(one) + n
      /\ \A i \in 1..(Len(one) + n) :
           queue'[i] = IF i <= Len(one) THEN one[i] ELSE queue[i - Len(one)]
  BY <1>1, ConcatProperties DEF one
<1> HIDE DEF n
<1>3. ASSUME NEW i \in 1..(n + 1)
      PROVE  queue'[i] = IF i < 1 THEN queue[i] ELSE IF i = 1 THEN e ELSE queue[i - 1]
  <2>1. queue'[i] = IF i <= 1 THEN one[i] ELSE queue[i - 1]
    BY <1>1, <1>2
  <2>2. CASE i = 1
    BY <1>1, <2>1, <2>2
  <2>3. CASE i # 1
    <3>1. ~(i <= 1) /\ ~(i < 1)
      BY <1>1, <2>3
    <3> QED
      BY <2>1, <2>3, <3>1
  <2> QED
    BY <2>2, <2>3
<1>4. 1..(1 - 1) = {} /\ 1 \in 1..(n + 1) /\ Len(queue') = n + 1
  BY <1>1, <1>2
<1> QED
  BY <1>1, <1>2, <1>3, <1>4 DEF n, Wider, Splits

\* An event queued in front: the marker stays, and nobody of careful is overtaken.
LEMMA QueueHeadStep ==
  ASSUME IInv, NEW e \in Events, QueueHead(e)
  PROVE  IInv'
<1>1. Fresh(e) /\ Queued(e, "head") /\ marker' = marker /\ queue' = <<e>> \o queue
      /\ last' = IF queue = <<>> THEN e ELSE last
  BY DEF QueueHead
<1>2. /\ \A d : Contains(queue, d) => d \in Events
      /\ \A d, f : Precedes(queue, d, f) => Contains(queue, d) /\ Contains(queue, f)
      /\ Len(queue) \in Nat /\ ((queue = <<>>) <=> (Len(queue) = 0))
  BY ListFacts
<1>3. queue' \in Seq(Events) /\ Wider(queue, queue', e, 1) /\ Splits(1, {})
  BY <1>1, HeadIs
<1>4. /\ TypeOK' /\ Lists' /\ Active' /\ Careful'
      /\ kind'[e] = "head" /\ \A d \in Events \ {e} : kind'[d] = kind[d]
      /\ ~Contains(queue, e)
      /\ \A d : Contains(queue, d)' <=> Contains(queue, d) \/ d = e
      /\ \A d, f : Precedes(queue, d, f)' <=>
           \/ Precedes(queue, d, f)
           \/ d = e /\ f \notin {} /\ Contains(queue, f)
           \/ f = e /\ d \in {} /\ Contains(queue, d)
      /\ \A d, f : Precedes(posted, d, f)' <=>
           Precedes(posted, d, f) \/ (f = e /\ Contains(queue, d))
      /\ Last(queue') = IF 1 = Len(queue) + 1 THEN e ELSE Last(queue)
  <2>1. last' \in Events /\ marker' \in Events \cup {NULL}
    <3>1. queue # <<>> => Last(queue) \in Events
      BY ListFacts, LastFacts
    <3> QED
      BY <1>1, <3>1 DEF IInv, TypeOK, Ends
  <2> QED
    BY <1>1, <1>3, <2>1, Queueing
<1>5. Ends'
  <2>1. queue = <<>> <=> 1 = Len(queue) + 1
    BY <1>2
  <2> QED
    BY <1>1, <1>4, <2>1 DEF IInv, Ends
<1>6. Marks'
  <2>1. ASSUME marker # NULL PROVE Contains(queue, marker)' /\ kind'[marker] # "tail"
    <3>1. Contains(queue, marker) /\ kind[marker] # "tail" /\ marker \in Events /\ marker # e
      BY <1>2, <1>4, <2>1 DEF IInv, Marks
    <3> QED
      BY <1>1, <1>4, <3>1
  <2>2. ASSUME NEW d, Contains(queue, d)', kind'[d] = "mark"
        PROVE  marker # NULL /\ (d = marker \/ Precedes(queue, d, marker)')
    <3>1. d # e
      BY <1>4, <2>2
    <3>2. Contains(queue, d) /\ kind[d] = "mark"
      BY <1>2, <1>4, <2>2, <3>1
    <3> QED
      BY <1>1, <1>4, <3>2 DEF IInv, Marks
  <2> QED
    BY <1>1, <2>1, <2>2 DEF Marks
<1>7. Ordered'
  <2> SUFFICES ASSUME NEW d \in Events, NEW f \in Events, Precedes(queue, d, f)'
               PROVE  /\ kind'[d] = "tail" => kind'[f] = "tail" /\ Precedes(posted, d, f)'
                      /\ kind'[d] = "mark" /\ kind'[f] = "mark" => Precedes(posted, d, f)'
                      /\ kind'[d] = "head" /\ kind'[f] = "head" => Precedes(posted, f, d)'
    BY DEF Ordered
  <2>1. CASE Precedes(queue, d, f)
    <3>1. d # e /\ f # e
      BY <1>2, <1>4, <2>1
    <3> QED
      BY <1>4, <2>1, <3>1 DEF IInv, Ordered
  <2>2. CASE d = e /\ Contains(queue, f)
    BY <1>4, <2>2
  <2> QED
    BY <1>4, <2>1, <2>2
<1> QED
  BY <1>4, <1>5, <1>6, <1>7 DEF IInv

\* Behind the marker, or at the head if there is none.
LEMMA MarkIs ==
  ASSUME IInv, NEW e \in Events, marker # NULL, queue' = LinkedBehind(marker, e)
  PROVE  /\ queue' \in Seq(Events) /\ Wider(queue, queue', e, At(marker) + 1)
         /\ Splits(At(marker) + 1, {marker} \cup {d \in Events : Precedes(queue, d, marker)})
<1> DEFINE n == Len(queue)
           p == At(marker) + 1
           B == {marker} \cup {d \in Events : Precedes(queue, d, marker)}
<1>1. Contains(queue, marker)
  BY DEF IInv, Marks
<1>2. /\ At(marker) \in 1..n /\ queue[At(marker)] = marker
      /\ \A d : Precedes(queue, d, marker) <=> \E i \in 1..(At(marker) - 1) : queue[i] = d
      /\ \A f : Precedes(queue, marker, f) <=> \E j \in (At(marker) + 1)..n : queue[j] = f
  BY <1>1, Place
<1>3. queue \in Seq(Events) /\ n \in Nat
      /\ \A d : Contains(queue, d) <=> \E i \in 1..n : queue[i] = d
  BY ListFacts
<1>4. p \in 1..(n + 1)
  BY <1>2, <1>3
<1>5. queue' \in Seq(Events) /\ Wider(queue, queue', e, p)
  <2>1. queue' = InsertAt(queue, p, e)
    BY DEF LinkedBehind
  <2> HIDE DEF p
  <2> QED
    BY <1>3, <1>4, <2>1, InsertFacts
<1>6. Splits(p, B)
  <2> DEFINE a == At(marker)
  <2> HIDE DEF a
  <2>0. a \in 1..n /\ queue[a] = marker
    BY <1>2 DEF a
  <2>1. ASSUME NEW d
        PROVE  (\E i \in 1..(a + 1 - 1) : queue[i] = d) <=> d \in B /\ Contains(queue, d)
    <3>1. ASSUME NEW i \in 1..(a + 1 - 1), queue[i] = d PROVE d \in B /\ Contains(queue, d)
      <4>1. i = a \/ i \in 1..(a - 1)
        BY <1>3, <2>0
      <4>2. d = marker \/ Precedes(queue, d, marker)
        BY <1>2, <2>0, <3>1, <4>1 DEF a
      <4> QED
        BY <1>1, <4>2, ListFacts
    <3>2. ASSUME d \in B PROVE \E i \in 1..(a + 1 - 1) : queue[i] = d
      <4>1. CASE d = marker
        <5>1. a \in 1..(a + 1 - 1)
          BY <1>3, <2>0
        <5> QED
          BY <2>0, <4>1, <5>1
      <4>2. CASE Precedes(queue, d, marker)
        <5>1. PICK i \in 1..(a - 1) : queue[i] = d
          BY <1>2, <4>2 DEF a
        <5>2. i \in 1..(a + 1 - 1)
          BY <1>3, <2>0
        <5> QED
          BY <5>1, <5>2
      <4> QED
        BY <3>2, <4>1, <4>2
    <3> QED
      BY <3>1, <3>2
  <2>2. ASSUME NEW d
        PROVE  (\E j \in (a + 1)..n : queue[j] = d) <=> d \notin B /\ Contains(queue, d)
    <3>1. (\E j \in (a + 1)..n : queue[j] = d) <=> Precedes(queue, marker, d)
      BY <1>2 DEF a
    <3>2. Precedes(queue, marker, d) => Contains(queue, d) /\ d # marker /\ ~Precedes(queue, d, marker)
      BY ListFacts, OrderFacts
    <3>3. Contains(queue, d) => d \in Events /\ (d = marker \/ Precedes(queue, marker, d)
                                                 \/ Precedes(queue, d, marker))
      BY <1>1, ListFacts, OrderFacts
    <3> QED
      BY <3>1, <3>2, <3>3
  <2> HIDE DEF B, p
  <2>3. p = a + 1
    BY DEF p, a
  <2>4. \A d : (\E i \in 1..(p - 1) : queue[i] = d) <=> d \in B /\ Contains(queue, d)
    <3>1. 1..(p - 1) = 1..(a + 1 - 1)
      BY <1>3, <2>0, <2>3
    <3> QED
      BY <2>1, <3>1, Zenon
  <2>5. \A d : (\E j \in p..Len(queue) : queue[j] = d) <=> d \notin B /\ Contains(queue, d)
    BY <2>2, <2>3
  <2> QED
    BY <2>4, <2>5 DEF Splits
<1> QED
  BY <1>5, <1>6

\* An event queued behind the marker, or in front when there is none.
LEMMA QueueMarkStep ==
  ASSUME IInv, NEW e \in Events, QueueMark(e)
  PROVE  IInv'
<1>1. /\ Fresh(e) /\ Queued(e, "mark") /\ marker' = e
      /\ queue' = IF marker = NULL THEN <<e>> \o queue ELSE LinkedBehind(marker, e)
      /\ last' = IF Last(queue') = e THEN e ELSE last
  BY DEF QueueMark, LastAfter
<1> DEFINE B == IF marker = NULL THEN {}
                ELSE {marker} \cup {d \in Events : Precedes(queue, d, marker)}
           p == IF marker = NULL THEN 1 ELSE At(marker) + 1
<1>2. /\ \A d : Contains(queue, d) => d \in Events
      /\ \A d, f : Precedes(queue, d, f) => Contains(queue, d) /\ Contains(queue, f)
      /\ Len(queue) \in Nat /\ ((queue = <<>>) <=> (Len(queue) = 0))
  BY ListFacts
<1>3. queue' \in Seq(Events) /\ Wider(queue, queue', e, p) /\ Splits(p, B)
  <2>1. CASE marker = NULL
    BY <1>1, <2>1, HeadIs
  <2>2. CASE marker # NULL
    BY <1>1, <2>2, MarkIs
  <2> QED
    BY <2>1, <2>2
<1> HIDE DEF p, B
<1>4. last' \in Events /\ marker' \in Events \cup {NULL}
  <2>1. p \in 1..(Len(queue) + 1)
    BY <1>3 DEF Wider
  <2>2. Last(queue') = IF p = Len(queue) + 1 THEN e ELSE Last(queue)
    BY <1>3, ListFacts, WiderFacts
  <2>3. CASE queue = <<>>
    BY <1>1, <1>2, <2>1, <2>2, <2>3
  <2>4. CASE queue # <<>>
    BY <1>1, <2>4, ListFacts, LastFacts DEF IInv, Ends
  <2> QED
    BY <1>1, <2>3, <2>4
<1>5. /\ TypeOK' /\ Lists' /\ Active' /\ Careful'
      /\ kind'[e] = "mark" /\ \A d \in Events \ {e} : kind'[d] = kind[d]
      /\ ~Contains(queue, e)
      /\ \A d : Contains(queue, d)' <=> Contains(queue, d) \/ d = e
      /\ \A d, f : Precedes(queue, d, f)' <=>
           \/ Precedes(queue, d, f)
           \/ d = e /\ f \notin B /\ Contains(queue, f)
           \/ f = e /\ d \in B /\ Contains(queue, d)
      /\ \A d, f : Precedes(posted, d, f)' <=>
           Precedes(posted, d, f) \/ (f = e /\ Contains(queue, d))
      /\ Last(queue') = IF p = Len(queue) + 1 THEN e ELSE Last(queue)
  BY <1>1, <1>3, <1>4, Queueing
<1>6. Ends'
  <2>1. p \in 1..(Len(queue) + 1)
    BY <1>3 DEF Wider
  <2>2. queue = <<>> => p = Len(queue) + 1
    BY <1>2, <2>1
  <2> QED
    BY <1>1, <1>5, <2>2 DEF IInv, Ends
<1>7. \A d : Contains(queue, d) /\ kind[d] = "mark" => d \in B
  BY <1>2 DEF IInv, Marks, B
<1>8. \A d : Contains(queue, d) /\ d \in B => kind[d] # "tail"
  <2>1. ASSUME NEW d, Precedes(queue, d, marker), marker # NULL PROVE kind[d] # "tail"
    <3>1. d \in Events /\ marker \in Events
      BY <1>2, <2>1
    <3> QED
      BY <2>1, <3>1 DEF IInv, Ordered, Marks
  <2> QED
    BY <2>1 DEF B, IInv, Marks
<1>9. Marks'
  <2>1. Contains(queue, e)' /\ kind'[e] # "tail" /\ e # NULL
    BY <1>5, EventQueueAssumption
  <2>2. ASSUME NEW d, Contains(queue, d)', kind'[d] = "mark"
        PROVE  d = e \/ Precedes(queue, d, e)'
    <3> SUFFICES ASSUME d # e PROVE Precedes(queue, d, e)'
      OBVIOUS
    <3>1. Contains(queue, d) /\ kind[d] = "mark"
      BY <1>2, <1>5, <2>2
    <3> QED
      BY <1>5, <1>7, <3>1
  <2> QED
    BY <1>1, <2>1, <2>2 DEF Marks
<1>10. Ordered'
  <2> SUFFICES ASSUME NEW d \in Events, NEW f \in Events, Precedes(queue, d, f)'
               PROVE  /\ kind'[d] = "tail" => kind'[f] = "tail" /\ Precedes(posted, d, f)'
                      /\ kind'[d] = "mark" /\ kind'[f] = "mark" => Precedes(posted, d, f)'
                      /\ kind'[d] = "head" /\ kind'[f] = "head" => Precedes(posted, f, d)'
    BY DEF Ordered
  <2>1. CASE Precedes(queue, d, f)
    <3>1. d # e /\ f # e
      BY <1>2, <1>5, <2>1
    <3> QED
      BY <1>5, <2>1, <3>1 DEF IInv, Ordered
  <2>2. CASE d = e /\ f \notin B /\ Contains(queue, f)
    <3>1. f # e /\ kind[f] # "mark"
      BY <1>5, <1>7, <2>2
    <3> QED
      BY <1>5, <2>2, <3>1
  <2>3. CASE f = e /\ d \in B /\ Contains(queue, d)
    <3>1. d # e /\ kind[d] # "tail"
      BY <1>5, <1>8, <2>3
    <3> QED
      BY <1>5, <2>3, <3>1
  <2> QED
    BY <1>5, <2>1, <2>2, <2>3
<1> QED
  BY <1>5, <1>6, <1>9, <1>10 DEF IInv

-------------------------------------------------------------------------------
(* Service.                                                                 *)

Frames == [ev : Events, stale : BOOLEAN]

\* What the loop finds is in the list, and nobody handles it.
LEMMA IdleFacts ==
  ASSUME IInv, NEW i \in Nat \ {0}, FirstIdle(i) # NULL
  PROVE  FirstIdle(i) \in Events /\ Contains(queue, FirstIdle(i)) /\ ~Running(FirstIdle(i))
<1> DEFINE idle == {j \in i..Len(queue) : ~Running(queue[j])}
           first == CHOOSE j \in idle : \A l \in idle : j <= l
<1>1. Len(queue) \in Nat /\ \A j \in 1..Len(queue) : queue[j] \in Events
  BY ListFacts, ElementOfSeq
<1>2. FirstIdle(i) = IF idle = {} THEN NULL ELSE queue[first]
  BY DEF FirstIdle
<1>3. \A j \in idle : j \in 1..Len(queue) /\ ~Running(queue[j])
  BY <1>1
<1>4. idle \in SUBSET Nat
  BY <1>3
<1> HIDE DEF idle
<1>5. idle # {}
  BY <1>2
<1>6. \E j \in idle : \A l \in idle : j <= l
  BY <1>4, <1>5, Least
<1>7. first \in idle
  BY <1>6
<1> HIDE DEF first
<1> QED
  BY <1>1, <1>2, <1>3, <1>5, <1>7 DEF Contains

\* A stack without its last activation.
LEMMA FrontFacts ==
  ASSUME NEW S, NEW st \in Seq(S), st # <<>>
  PROVE  /\ Len(st) \in Nat /\ Len(st) >= 1 /\ Last(st) = st[Len(st)] /\ Last(st) \in S
         /\ Front(st) \in Seq(S) /\ Len(Front(st)) = Len(st) - 1
         /\ \A k \in 1..(Len(st) - 1) : Front(st)[k] = st[k] /\ k \in 1..Len(st)
<1> DEFINE n == Len(st)
           l == SubSeq(st, 1, n - 1)
<1>1. n \in Nat \ {0} /\ \A k \in 1..n : st[k] \in S
  BY EmptySeq, LenProperties, ElementOfSeq
<1>2. Front(st) = l
  BY DEF Front
<1>3. l \in Seq(S) /\ Len(l) = n - 1 /\ \A k \in 1..(n - 1) : l[k] = st[k]
  <2>1. /\ l \in Seq(S) /\ Len(l) = IF 1 <= n - 1 THEN n - 1 - 1 + 1 ELSE 0
        /\ \A k \in 1..(n - 1 - 1 + 1) : l[k] = st[1 + k - 1]
    <3>1. 1 \in Int /\ n - 1 \in Int /\ \A k \in 1..(n - 1) : st[k] \in S
      BY <1>1
    <3> QED
      BY <3>1, SubSeqProperties
  <2> HIDE DEF l, n
  <2> QED
    BY <1>1, <2>1
<1>4. Last(st) = st[n] /\ n \in 1..n
  BY <1>1 DEF Last
<1> HIDE DEF l, n
<1>5. \A k \in 1..(n - 1) : k \in 1..n
  BY <1>1
<1> QED
  BY <1>1, <1>2, <1>3, <1>4, <1>5 DEF n

\* A step that changes only the activations.
LEMMA OnlyStack ==
  ASSUME IInv, UNCHANGED <<queue, last, marker, kind, posted, whole, fault>>,
         stack' \in Seq(Frames), Len(stack') <= MaxDepth, Active', Careful'
  PROVE  IInv'
<1>1. TypeOK'
  BY DEF IInv, TypeOK, Frames
<1>2. Lists' /\ Ends' /\ Marks' /\ Ordered'
  BY DEF IInv, Lists, Ends, Marks, Ordered
<1> QED
  BY <1>1, <1>2 DEF IInv

\* The handlers that run are events of the program, no more than MaxDepth.
LEMMA StackFacts ==
  ASSUME IInv
  PROVE  /\ stack \in Seq(Frames) /\ Len(stack) \in Nat /\ DOMAIN stack = 1..Len(stack)
         /\ Len(stack) <= MaxDepth /\ MaxDepth \in Nat
         /\ \A k \in 1..Len(stack) : stack[k] \in Frames /\ stack[k].ev \in Events
                                     /\ stack[k].stale \in BOOLEAN
<1>1. stack \in Seq(Frames) /\ Len(stack) <= MaxDepth
  BY DEF IInv, TypeOK, Frames
<1>2. Len(stack) \in Nat /\ DOMAIN stack = 1..Len(stack)
      /\ \A k \in 1..Len(stack) : stack[k] \in Frames
  BY <1>1, LenProperties, ElementOfSeq
<1> QED
  BY <1>1, <1>2, EventQueueAssumption DEF Frames

\* Serving marks an event and begins its handler.
LEMMA ServiceStep == ASSUME IInv, Service PROVE IInv'
<1> DEFINE n == Len(stack)
           e == FirstIdle(1)
           fr == [ev |-> e, stale |-> FALSE]
<1>1. /\ n < MaxDepth /\ e # NULL /\ stack' = Append(stack, fr)
      /\ UNCHANGED <<queue, last, marker, kind, posted, whole, fault>>
  BY DEF Service
<1>2. e \in Events /\ Contains(queue, e) /\ ~Running(e)
  BY <1>1, IdleFacts
<1> HIDE DEF e
<1>3. fr \in Frames /\ fr.ev = e /\ fr.stale = FALSE
  BY <1>2 DEF Frames
<1> HIDE DEF fr
<1>4. stack \in Seq(Frames) /\ n \in Nat /\ DOMAIN stack = 1..n /\ MaxDepth \in Nat
  BY StackFacts
<1>5. /\ stack' \in Seq(Frames) /\ Len(stack') = n + 1 /\ stack'[n + 1] = fr
      /\ \A k \in 1..n : stack'[k] = stack[k]
  BY <1>1, <1>3, <1>4, AppendProperties
<1> HIDE DEF n
<1>6. DOMAIN stack' = 1..(n + 1) /\ \A k \in 1..(n + 1) : k \in 1..n \/ k = n + 1
  BY <1>4, <1>5, LenProperties
<1>7. Len(stack') <= MaxDepth
  BY <1>1, <1>4, <1>5
<1>8. \A k \in 1..n : ~stack[k].stale => stack[k].ev # e
  BY <1>2, <1>4 DEF Running
<1>9. Active'
  <2> SUFFICES ASSUME NEW k \in 1..(n + 1), NEW m \in 1..(n + 1),
                      ~stack'[k].stale, ~stack'[m].stale
               PROVE  Contains(queue', stack'[k].ev) /\ (stack'[k].ev = stack'[m].ev => k = m)
    BY <1>6 DEF Active
  <2> queue' = queue
    BY <1>1
  <2>1. CASE k \in 1..n /\ m \in 1..n
    BY <1>4, <1>5, <2>1 DEF IInv, Active
  <2>2. CASE k \in 1..n /\ m = n + 1
    <3>1. Contains(queue, stack[k].ev) /\ stack[k].ev # e
      BY <1>4, <1>5, <1>8, <2>2 DEF IInv, Active
    <3> QED
      BY <1>3, <1>5, <2>2, <3>1
  <2>3. CASE k = n + 1 /\ m \in 1..n
    BY <1>2, <1>3, <1>5, <1>8, <2>3
  <2>4. CASE k = n + 1 /\ m = n + 1
    BY <1>2, <1>3, <1>5, <2>4
  <2> QED
    BY <1>6, <2>1, <2>2, <2>3, <2>4
<1>10. Careful'
  <2>1. \A k \in 1..(n + 1) : stack'[k].stale => k \in 1..n /\ stack[k].stale
    BY <1>3, <1>5, <1>6
  <2> QED
    BY <1>1, <1>4, <1>6, <2>1 DEF IInv, Careful
<1> QED
  BY <1>1, <1>5, <1>7, <1>9, <1>10, OnlyStack

LEMMA RefuseStep == ASSUME IInv, Refuse PROVE IInv'
<1> DEFINE n == Len(stack)
           next == FirstIdle(At(Top.ev) + 1)
<1>1. /\ stack # <<>> /\ ~Top.stale
      /\ stack' = IF next = NULL THEN Front(stack) ELSE [stack EXCEPT ![n].ev = next]
      /\ UNCHANGED <<queue, last, marker, kind, posted, whole, fault>>
  BY DEF Refuse
<1>2. /\ stack \in Seq(Frames) /\ n \in Nat /\ DOMAIN stack = 1..n /\ MaxDepth \in Nat
      /\ n <= MaxDepth
      /\ \A k \in 1..n : stack[k] \in Frames /\ stack[k].ev \in Events
                         /\ stack[k].stale \in BOOLEAN
  BY StackFacts
<1>3. /\ n >= 1 /\ Top = stack[n]
      /\ Front(stack) \in Seq(Frames) /\ Len(Front(stack)) = n - 1
      /\ \A k \in 1..(n - 1) : Front(stack)[k] = stack[k] /\ k \in 1..n
  BY <1>1, <1>2, FrontFacts DEF Top
<1>4. n \in 1..n
  BY <1>2, <1>3
<1>5. Contains(queue, Top.ev)
  BY <1>1, <1>2, <1>3, <1>4 DEF IInv, Active
<1>6. At(Top.ev) + 1 \in Nat \ {0}
  <2>1. At(Top.ev) \in 1..Len(queue)
    BY <1>5, Place
  <2> QED
    BY <2>1, ListFacts
<1>7. next # NULL => next \in Events /\ Contains(queue, next) /\ ~Running(next)
  BY <1>6, IdleFacts
<1> HIDE DEF n, next
<1>8. CASE next = NULL
  <2>1. stack' = Front(stack) /\ stack' \in Seq(Frames) /\ Len(stack') = n - 1
    BY <1>1, <1>3, <1>8
  <2>2. DOMAIN stack' = 1..(n - 1) /\ \A k \in 1..(n - 1) : stack'[k] = stack[k] /\ k \in 1..n
    BY <1>3, <2>1, LenProperties
  <2>3. Len(stack') <= MaxDepth
    BY <1>2, <2>1
  <2>4. Active'
    BY <1>1, <1>2, <2>2 DEF IInv, Active
  <2>5. Careful'
    BY <1>1, <1>2, <2>2 DEF IInv, Careful
  <2> QED
    BY <1>1, <2>1, <2>3, <2>4, <2>5, OnlyStack
<1>9. CASE next # NULL
  <2>1. stack' = [stack EXCEPT ![n] = [stack[n] EXCEPT !.ev = next]]
    BY <1>1, <1>9
  <2>2. [stack[n] EXCEPT !.ev = next] \in Frames
        /\ [stack[n] EXCEPT !.ev = next].ev = next
        /\ [stack[n] EXCEPT !.ev = next].stale = stack[n].stale
    BY <1>2, <1>4, <1>7, <1>9 DEF Frames
  <2> DEFINE fr == [stack[n] EXCEPT !.ev = next]
  <2> HIDE DEF fr
  <2>3. /\ stack' \in Seq(Frames) /\ Len(stack') = n /\ DOMAIN stack' = 1..n
        /\ stack'[n] = fr /\ \A k \in 1..n : k # n => stack'[k] = stack[k]
    <3>1. /\ stack' \in Seq(Frames) /\ Len(stack') = n
          /\ \A k \in 1..n : stack'[k] = IF k = n THEN fr ELSE stack[k]
      BY <1>2, <1>4, <2>1, <2>2, ExceptSeq DEF fr, n
    <3> QED
      BY <1>2, <1>4, <3>1, LenProperties
  <2>4. ~stack'[n].stale /\ stack'[n].ev = next
    BY <1>1, <1>3, <2>2, <2>3 DEF fr
  <2>5. \A k \in 1..n : ~stack[k].stale => stack[k].ev # next
    BY <1>2, <1>7, <1>9 DEF Running
  <2>6. Active'
    <3> SUFFICES ASSUME NEW k \in 1..n, NEW m \in 1..n, ~stack'[k].stale, ~stack'[m].stale
                 PROVE  /\ Contains(queue, stack'[k].ev)
                        /\ stack'[k].ev = stack'[m].ev => k = m
      BY <1>1, <2>3 DEF Active
    <3>1. CASE k # n /\ m # n
      BY <1>2, <2>3, <3>1 DEF IInv, Active
    <3>2. CASE k # n /\ m = n
      <4>1. Contains(queue, stack[k].ev) /\ stack[k].ev # next
        BY <1>2, <2>3, <2>5, <3>2 DEF IInv, Active
      <4> QED
        BY <2>3, <2>4, <3>2, <4>1
    <3>3. CASE k = n
      <4>1. Contains(queue, next)
        BY <1>7, <1>9
      <4>2. m # n => stack'[m].ev # next
        BY <2>3, <2>5
      <4> QED
        BY <2>4, <3>3, <4>1, <4>2
    <3> QED
      BY <3>1, <3>2, <3>3
  <2>7. Careful'
    <3>1. \A k \in 1..n : stack'[k].stale => stack[k].stale
      BY <2>3, <2>4
    <3> QED
      BY <1>1, <1>2, <2>3, <3>1 DEF IInv, Careful
  <2> QED
    BY <1>1, <1>2, <2>3, <2>6, <2>7, OnlyStack
<1> QED
  BY <1>8, <1>9

-------------------------------------------------------------------------------
(* Taking events out.                                                       *)

Removed(S) == /\ queue' = Kept(queue, S) /\ posted' = Kept(posted, S) /\ kind' = kind

\* The others keep their places.
LEMMA Removing ==
  ASSUME IInv, NEW S, Removed(S)
  PROVE  /\ queue' \in Seq(Events) /\ posted' \in Seq(Events) /\ Injective(queue')
         /\ \A d : Contains(queue', d) <=> Contains(queue, d) /\ d \notin S
         /\ \A d, f : Precedes(queue', d, f) <=>
              Precedes(queue, d, f) /\ d \notin S /\ f \notin S
         /\ Lists' /\ Ordered'
<1>1. queue \in Seq(Events) /\ posted \in Seq(Events) /\ Injective(queue) /\ Injective(posted)
      /\ \A d : Contains(queue, d) <=> Contains(posted, d)
  BY DEF IInv, TypeOK, Lists
<1>2. /\ queue' \in Seq(Events)
      /\ \A d : Contains(queue', d) <=> Contains(queue, d) /\ d \notin S
      /\ \A d, f : Precedes(queue', d, f) <=>
           Precedes(queue, d, f) /\ d \notin S /\ f \notin S
  BY <1>1, KeptFacts DEF Removed
<1>3. /\ posted' \in Seq(Events)
      /\ \A d : Contains(posted', d) <=> Contains(posted, d) /\ d \notin S
      /\ \A d, f : Precedes(posted', d, f) <=>
           Precedes(posted, d, f) /\ d \notin S /\ f \notin S
  BY <1>1, KeptFacts DEF Removed
<1>4. Injective(queue') /\ Injective(posted')
  <2>1. \A d : ~Precedes(queue, d, d) /\ ~Precedes(posted, d, d)
    BY <1>1, OrderFacts
  <2>2. \A d : ~Precedes(queue', d, d) /\ ~Precedes(posted', d, d)
    BY <1>2, <1>3, <2>1
  <2> QED
    BY <1>2, <1>3, <2>2, InjectiveOrder
<1>5. Lists'
  BY <1>1, <1>2, <1>3, <1>4 DEF Lists
<1>6. Ordered'
  <2> SUFFICES ASSUME NEW d \in Events, NEW f \in Events, Precedes(queue', d, f)
               PROVE  /\ kind[d] = "tail" => kind[f] = "tail" /\ Precedes(posted', d, f)
                      /\ kind[d] = "mark" /\ kind[f] = "mark" => Precedes(posted', d, f)
                      /\ kind[d] = "head" /\ kind[f] = "head" => Precedes(posted', f, d)
    BY DEF Ordered, Removed
  <2>1. Precedes(queue, d, f) /\ d \notin S /\ f \notin S
    BY <1>2
  <2> QED
    BY <1>3, <2>1 DEF IInv, Ordered
<1> QED
  BY <1>2, <1>3, <1>4, <1>5, <1>6

\* The pointer to the last event: it stays, or goes to the last that stays.
LEMMA EndsAfter ==
  ASSUME IInv, NEW S, Removed(S),
         \/ last \notin S /\ last' = last
         \/ Contains(queue, last') /\ last' \notin S
            /\ \A f : Precedes(queue, last', f) => f \in S
         \/ \A d : Contains(queue, d) => d \in S
  PROVE  Ends'
<1> SUFFICES ASSUME queue' # <<>> PROVE last' = Last(queue')
  BY DEF Ends
<1>1. /\ queue' \in Seq(Events) /\ Injective(queue')
      /\ \A d : Contains(queue', d) <=> Contains(queue, d) /\ d \notin S
      /\ \A d, f : Precedes(queue', d, f) <=>
           Precedes(queue, d, f) /\ d \notin S /\ f \notin S
  BY Removing
<1>2. queue \in Seq(Events) /\ Injective(queue)
  BY ListFacts
<1>3. \E d : Contains(queue, d) /\ d \notin S
  <2>1. Contains(queue', Last(queue'))
    BY <1>1, LastFacts
  <2> QED
    BY <1>1, <2>1
<1>4. CASE last \notin S /\ last' = last
  <2>1. queue # <<>> /\ Contains(queue, Last(queue))
        /\ \A d : Contains(queue, d) => d = Last(queue) \/ Precedes(queue, d, Last(queue))
    BY <1>2, <1>3, LastFacts
  <2>2. last = Last(queue)
    BY <2>1 DEF IInv, Ends
  <2>3. \A f : ~Precedes(queue, last, f)
    BY <1>2, <2>1, <2>2, OrderFacts
  <2>4. Contains(queue', last) /\ \A f : ~Precedes(queue', last, f)
    BY <1>1, <1>4, <2>1, <2>2, <2>3
  <2> QED
    BY <1>1, <1>4, <2>4, LastFacts
<1>5. CASE Contains(queue, last') /\ last' \notin S
           /\ \A f : Precedes(queue, last', f) => f \in S
  <2>1. Contains(queue', last') /\ \A f : ~Precedes(queue', last', f)
    BY <1>1, <1>5
  <2> QED
    BY <1>1, <2>1, LastFacts
<1> QED
  BY <1>3, <1>4, <1>5

\* The marker: it stays, or goes to the nearest event before it that stays.
LEMMA MarksAfter ==
  ASSUME IInv, NEW S \in SUBSET Events, Removed(S),
         \/ marker \notin S /\ marker' = marker
         \/ /\ marker \in S /\ marker' = NULL
            /\ \A d : Precedes(queue, d, marker) => d \in S
         \/ /\ marker \in S /\ marker' \notin S /\ Precedes(queue, marker', marker)
            /\ \A d : Precedes(queue, d, marker) /\ d \notin S =>
                 d = marker' \/ Precedes(queue, d, marker')
  PROVE  Marks' /\ marker' \in Events \cup {NULL}
<1>1. /\ \A d : Contains(queue', d) <=> Contains(queue, d) /\ d \notin S
      /\ \A d, f : Precedes(queue', d, f) <=>
           Precedes(queue, d, f) /\ d \notin S /\ f \notin S
  BY Removing
<1>2. kind' = kind
  BY DEF Removed
<1>3. /\ marker # NULL => Contains(queue, marker) /\ kind[marker] # "tail"
      /\ \A d : Contains(queue, d) /\ kind[d] = "mark" =>
           marker # NULL /\ (d = marker \/ Precedes(queue, d, marker))
      /\ marker \in Events \cup {NULL}
  BY DEF IInv, Marks, TypeOK
<1>4. marker \in S => marker # NULL
  BY EventQueueAssumption
<1>5. CASE marker \notin S /\ marker' = marker
  <2>1. marker' # NULL => Contains(queue', marker') /\ kind'[marker'] # "tail"
    BY <1>1, <1>2, <1>3, <1>5
  <2>2. \A d : Contains(queue', d) /\ kind'[d] = "mark" =>
          marker' # NULL /\ (d = marker' \/ Precedes(queue', d, marker'))
    BY <1>1, <1>2, <1>3, <1>5
  <2> QED
    BY <1>3, <1>5, <2>1, <2>2 DEF Marks
<1>6. CASE marker \in S /\ marker' = NULL /\ \A d : Precedes(queue, d, marker) => d \in S
  <2>1. \A d : ~(Contains(queue', d) /\ kind'[d] = "mark")
    BY <1>1, <1>2, <1>3, <1>6
  <2> QED
    BY <1>6, <2>1 DEF Marks
<1>7. CASE /\ marker \in S /\ marker' \notin S /\ Precedes(queue, marker', marker)
           /\ \A d : Precedes(queue, d, marker) /\ d \notin S =>
                d = marker' \/ Precedes(queue, d, marker')
  <2>1. Contains(queue, marker') /\ marker' \in Events /\ marker \in Events
    BY <1>7, ListFacts
  <2>2. kind[marker'] # "tail"
    BY <1>3, <1>4, <1>7, <2>1 DEF IInv, Ordered
  <2>3. marker' # NULL
    BY <2>1, EventQueueAssumption
  <2>4. \A d : Contains(queue', d) /\ kind'[d] = "mark" =>
          d = marker' \/ Precedes(queue', d, marker')
    <3> SUFFICES ASSUME NEW d, Contains(queue', d), kind'[d] = "mark"
                 PROVE  d = marker' \/ Precedes(queue', d, marker')
      OBVIOUS
    <3>1. Contains(queue, d) /\ d \notin S /\ kind[d] = "mark"
      BY <1>1, <1>2
    <3>2. Precedes(queue, d, marker)
      BY <1>3, <1>7, <3>1
    <3> QED
      BY <1>1, <1>7, <3>1, <3>2
  <2>5. Contains(queue', marker') /\ kind'[marker'] # "tail"
    BY <1>1, <1>2, <1>7, <2>1, <2>2
  <2> QED
    BY <2>1, <2>3, <2>4, <2>5 DEF Marks
<1> QED
  BY <1>5, <1>6, <1>7

\* Freeing makes pointers stale and changes nothing else.
FreedBy(S, st, n, to) ==
  /\ to \in Seq(Frames) /\ Len(to) = n /\ DOMAIN to = 1..n
  /\ \A k \in 1..n : /\ to[k].ev = st[k].ev
                     /\ to[k].stale <=> st[k].stale \/ st[k].ev \in S
LEMMA FreedFacts ==
  ASSUME NEW S, NEW st \in Seq(Frames)
  PROVE  FreedBy(S, st, Len(st), Freed(S, st))
<1> DEFINE n == Len(st)
           fr(k) == [st[k] EXCEPT !.stale = @ \/ st[k].ev \in S]
<1>1. n \in Nat /\ DOMAIN st = 1..n /\ \A k \in 1..n : st[k] \in Frames
  BY LenProperties, ElementOfSeq
<1>2. Freed(S, st) = [k \in 1..n |-> fr(k)]
  BY <1>1 DEF Freed
<1>3. ASSUME NEW k \in 1..n
      PROVE  /\ fr(k) \in Frames /\ fr(k).ev = st[k].ev
             /\ fr(k).stale = (st[k].stale \/ st[k].ev \in S)
  <2>1. st[k] \in Frames
    BY <1>1
  <2> DEFINE b == st[k].stale \/ st[k].ev \in S
  <2>2. b \in BOOLEAN
    OBVIOUS
  <2> HIDE DEF b
  <2>3. [st[k] EXCEPT !.stale = b] \in Frames /\ [st[k] EXCEPT !.stale = b].ev = st[k].ev
        /\ [st[k] EXCEPT !.stale = b].stale = b
    BY <2>1, <2>2 DEF Frames
  <2> QED
    BY <2>3 DEF b
<1> HIDE DEF n, fr
<1>4. Freed(S, st) \in Seq(Frames) /\ Len(Freed(S, st)) = n /\ DOMAIN Freed(S, st) = 1..n
  BY <1>1, <1>2, <1>3
<1>5. \A k \in 1..n : /\ Freed(S, st)[k].ev = st[k].ev
                      /\ Freed(S, st)[k].stale <=> st[k].stale \/ st[k].ev \in S
  BY <1>2, <1>3
<1> QED
  BY <1>4, <1>5 DEF FreedBy, n

\* Nothing but the list, the two pointers and the activations are left to look at.
LEMMA AfterRemoval ==
  ASSUME IInv, NEW S \in SUBSET Events, Removed(S), whole' = whole,
         last' \in Events \cup {NULL}, Ends', Marks', marker' \in Events \cup {NULL},
         stack' \in Seq(Frames), Len(stack') <= MaxDepth,
         fault' \in {"none", "lost"}, Active', Careful'
  PROVE  IInv'
<1>1. queue' \in Seq(Events) /\ posted' \in Seq(Events) /\ Lists' /\ Ordered'
  BY Removing
<1>2. TypeOK'
  <2>1. kind' \in [Events -> {"tail", "head", "mark"}] /\ whole' \in BOOLEAN
    BY DEF IInv, TypeOK, Removed
  <2> QED
    BY <1>1, <2>1 DEF TypeOK, Frames
<1> QED
  BY <1>1, <1>2 DEF IInv

\* The event is not in the list any more: somebody deleted it.
LEMMA HandleGone ==
  ASSUME IInv, stack # <<>>, stack' = Front(stack),
         UNCHANGED <<queue, last, marker, kind, posted, whole, fault>>
  PROVE  IInv'
<1> DEFINE n == Len(stack)
<1>1. stack \in Seq(Frames) /\ n \in Nat /\ DOMAIN stack = 1..n /\ MaxDepth \in Nat /\ n <= MaxDepth
  BY StackFacts
<1>2. /\ stack' \in Seq(Frames) /\ Len(stack') = n - 1
      /\ \A k \in 1..(n - 1) : stack'[k] = stack[k] /\ k \in 1..n
  BY <1>1, FrontFacts
<1> HIDE DEF n
<1>3. DOMAIN stack' = 1..(n - 1) /\ Len(stack') <= MaxDepth
  BY <1>1, <1>2, LenProperties
<1>4. Active'
  BY <1>1, <1>2, <1>3 DEF IInv, Active
<1>5. Careful'
  BY <1>1, <1>2, <1>3 DEF IInv, Careful
<1> QED
  BY <1>2, <1>3, <1>4, <1>5, OnlyStack

\* The event is taken out and freed.
LEMMA HandleFound ==
  ASSUME IInv, fault = "none", stack # <<>>, Contains(queue, Top.ev), Unlink(Top.ev),
         stack' = Freed({Top.ev}, Front(stack)),
         fault' = IF Top.stale THEN "lost" ELSE "none", UNCHANGED <<kind, whole>>
  PROVE  IInv'
<1> DEFINE n == Len(stack)
           e == Top.ev
           S == {e}
<1>1. /\ stack \in Seq(Frames) /\ n \in Nat /\ DOMAIN stack = 1..n /\ MaxDepth \in Nat
      /\ n <= MaxDepth
      /\ \A k \in 1..n : stack[k] \in Frames /\ stack[k].ev \in Events
                         /\ stack[k].stale \in BOOLEAN
  BY StackFacts
<1>2. /\ n >= 1 /\ Top = stack[n]
      /\ Front(stack) \in Seq(Frames) /\ Len(Front(stack)) = n - 1
      /\ \A k \in 1..(n - 1) : Front(stack)[k] = stack[k] /\ k \in 1..n
  BY <1>1, FrontFacts DEF Top
<1>3. n \in 1..n /\ e = stack[n].ev /\ e \in Events
  BY <1>1, <1>2
<1>4. /\ queue' = Kept(queue, S) /\ posted' = Kept(posted, S)
      /\ last' = IF e = Last(queue) THEN Before(e) ELSE last
      /\ marker' = IF marker = e THEN Before(e) ELSE marker
  BY DEF Unlink, LastWithout, MarkerWithout
<1>5. Contains(queue, e)
  OBVIOUS
<1> HIDE DEF n, e
<1>6. Removed(S) /\ S \in SUBSET Events
  BY <1>3, <1>4 DEF Removed
<1>7. \/ Before(e) = NULL /\ \A d : ~Precedes(queue, d, e)
      \/ /\ Before(e) \in Events /\ Precedes(queue, Before(e), e)
         /\ \A d : Precedes(queue, d, e) => d = Before(e) \/ Precedes(queue, d, Before(e))
  BY <1>5, BeforeFacts
<1>8. /\ queue \in Seq(Events) /\ Injective(queue)
      /\ \A d, f : Precedes(queue, d, f) => Contains(queue, d) /\ Contains(queue, f)
                                            /\ d # f /\ ~Precedes(queue, f, d)
      /\ \A d : Contains(queue, d) => /\ queue # <<>>
                                      /\ d = Last(queue) \/ Precedes(queue, d, Last(queue))
  BY ListFacts, OrderFacts, LastFacts
<1>9. last' \in Events \cup {NULL}
  BY <1>4, <1>7 DEF IInv, TypeOK
<1>10. Ends'
  <2>1. CASE e # Last(queue)
    <3>1. last = Last(queue)
      BY <1>5, <1>8 DEF IInv, Ends
    <3> QED
      BY <1>4, <1>6, <2>1, <3>1, EndsAfter
  <2>2. CASE e = Last(queue) /\ Before(e) = NULL /\ \A d : ~Precedes(queue, d, e)
    <3>1. \A d : Contains(queue, d) => d \in S
      BY <1>8, <2>2
    <3> QED
      BY <1>6, <3>1, EndsAfter
  <2>3. CASE /\ e = Last(queue) /\ Before(e) \in Events /\ Precedes(queue, Before(e), e)
             /\ \A d : Precedes(queue, d, e) => d = Before(e) \/ Precedes(queue, d, Before(e))
    <3>1. last' = Before(e)
      BY <1>4, <2>3
    <3>2. Contains(queue, last') /\ last' \notin S
      BY <1>8, <2>3, <3>1
    <3>3. ASSUME NEW f, Precedes(queue, last', f) PROVE f \in S
      <4> SUFFICES ASSUME f # e PROVE FALSE
        OBVIOUS
      <4>1. Precedes(queue, f, e)
        BY <1>8, <2>3, <3>3
      <4> QED
        BY <1>8, <2>3, <3>1, <3>3, <4>1
    <3> QED
      BY <1>6, <3>2, <3>3, EndsAfter
  <2> QED
    BY <1>7, <2>1, <2>2, <2>3
<1>11. Marks' /\ marker' \in Events \cup {NULL}
  <2>1. CASE marker # e
    BY <1>4, <1>6, <2>1, MarksAfter
  <2>2. CASE marker = e /\ Before(e) = NULL /\ \A d : ~Precedes(queue, d, e)
    BY <1>4, <1>6, <2>2, MarksAfter
  <2>3. CASE /\ marker = e /\ Before(e) \in Events /\ Precedes(queue, Before(e), e)
             /\ \A d : Precedes(queue, d, e) => d = Before(e) \/ Precedes(queue, d, Before(e))
    <3>1. marker' = Before(e)
      BY <1>4, <2>3
    <3>2. marker \in S /\ marker' \notin S /\ Precedes(queue, marker', marker)
      BY <1>8, <2>3, <3>1
    <3>3. \A d : Precedes(queue, d, marker) /\ d \notin S =>
            d = marker' \/ Precedes(queue, d, marker')
      BY <2>3, <3>1
    <3> QED
      BY <1>6, <3>2, <3>3, MarksAfter
  <2> QED
    BY <1>7, <2>1, <2>2, <2>3
<1>12. /\ stack' \in Seq(Frames) /\ Len(stack') = n - 1 /\ DOMAIN stack' = 1..(n - 1)
       /\ \A k \in 1..(n - 1) : /\ k \in 1..n /\ stack'[k].ev = stack[k].ev
                                /\ stack'[k].stale <=> stack[k].stale \/ stack[k].ev \in S
  <2>1. stack' = Freed(S, Front(stack))
    BY DEF e
  <2> DEFINE st == Front(stack)
  <2>2. st \in Seq(Frames) /\ Len(st) = n - 1
        /\ \A k \in 1..(n - 1) : st[k] = stack[k] /\ k \in 1..n
    BY <1>2
  <2> HIDE DEF S, st
  <2>3. stack' = Freed(S, st)
    BY <2>1 DEF st
  <2>4. FreedBy(S, st, n - 1, stack')
    BY <2>2, <2>3, FreedFacts
  <2>5. stack' \in Seq(Frames) /\ Len(stack') = n - 1 /\ DOMAIN stack' = 1..(n - 1)
    BY <2>4 DEF FreedBy
  <2>6. ASSUME NEW k \in 1..(n - 1)
        PROVE  /\ k \in 1..n /\ stack'[k].ev = stack[k].ev
               /\ stack'[k].stale <=> stack[k].stale \/ stack[k].ev \in S
    BY <2>2, <2>4 DEF FreedBy
  <2> QED
    BY <2>5, <2>6
<1>13. Len(stack') <= MaxDepth
  BY <1>1, <1>12
<1>14. Active'
  <2> SUFFICES ASSUME NEW k \in 1..(n - 1), NEW m \in 1..(n - 1),
                      ~stack'[k].stale, ~stack'[m].stale
               PROVE  Contains(queue', stack'[k].ev) /\ (stack'[k].ev = stack'[m].ev => k = m)
    BY <1>12 DEF Active
  <2>1. ~stack[k].stale /\ ~stack[m].stale /\ stack[k].ev # e /\ k \in 1..n /\ m \in 1..n
    BY <1>12
  <2>2. Contains(queue, stack[k].ev) /\ (stack[k].ev = stack[m].ev => k = m)
    BY <1>1, <2>1 DEF IInv, Active
  <2>3. \A d : Contains(queue', d) <=> Contains(queue, d) /\ d \notin S
    BY <1>6, Removing
  <2>4. stack[k].ev \notin S
    BY <2>1
  <2> HIDE DEF S
  <2> QED
    BY <1>12, <2>2, <2>3, <2>4
<1>15. Careful'
  <2> SUFFICES ASSUME ~whole PROVE fault' = "none" /\ \A k \in 1..(n - 1) : ~stack'[k].stale
    BY <1>12 DEF Careful
  <2>1. \A k \in 1..n : ~stack[k].stale
    BY <1>1 DEF IInv, Careful
  <2>2. fault' = "none"
    BY <1>2, <1>3, <2>1
  <2>3. ASSUME NEW k \in 1..(n - 1) PROVE stack[k].ev # e
    <3>1. k \in 1..n /\ k # n
      BY <1>1, <1>12
    <3> QED
      BY <1>1, <1>3, <2>1, <3>1 DEF IInv, Active
  <2> QED
    BY <1>12, <2>1, <2>2, <2>3
<1>16. fault' \in {"none", "lost"} /\ whole' = whole
  OBVIOUS
<1> HIDE DEF S
<1> QED
  BY <1>6, <1>9, <1>10, <1>11, <1>12, <1>13, <1>14, <1>15, <1>16, AfterRemoval

LEMMA HandleStep == ASSUME IInv, Handle PROVE IInv'
  BY HandleGone, HandleFound DEF Handle

LEMMA DeleteStep == ASSUME IInv, NEW S \in SUBSET Events, Delete(S) PROVE IInv'
<1> DEFINE n == Len(stack)
           kept == Kept(queue, S)
           left(e) == Kept(SubSeq(queue, 1, At(e) - 1), S)
<1>1. /\ fault = "none" /\ \A e \in S : Contains(queue, e)
      /\ whole \/ \A e \in S : ~Running(e)
      /\ queue' = kept /\ posted' = Kept(posted, S)
      /\ last' = IF last \notin S THEN last ELSE IF kept = <<>> THEN NULL ELSE Last(kept)
      /\ marker' = IF marker \notin S THEN marker
                   ELSE IF left(marker) = <<>> THEN NULL ELSE Last(left(marker))
      /\ stack' = Freed(S, stack)
      /\ UNCHANGED <<kind, whole, fault>>
  BY DEF Delete
<1>2. Removed(S)
  BY <1>1 DEF Removed
<1>3. /\ queue' \in Seq(Events) /\ Injective(queue')
      /\ \A d : Contains(queue', d) <=> Contains(queue, d) /\ d \notin S
      /\ \A d, f : Precedes(queue', d, f) <=>
           Precedes(queue, d, f) /\ d \notin S /\ f \notin S
  BY <1>2, Removing
<1>4. queue' # <<>> => /\ Last(queue') \in Events /\ Contains(queue', Last(queue'))
                       /\ \A f : ~Precedes(queue', Last(queue'), f)
  <2>1. queue' # <<>> => Last(queue') \in Events /\ Contains(queue', Last(queue'))
    BY <1>3, LastFacts
  <2>2. \A d, f : Precedes(queue', d, f) => Contains(queue', f) /\ d # f /\ ~Precedes(queue', f, d)
    BY <1>3, OrderFacts
  <2>3. \A d : Contains(queue', d) => d = Last(queue') \/ Precedes(queue', d, Last(queue'))
    BY <1>3, LastFacts
  <2> QED
    BY <2>1, <2>2, <2>3
<1>5. queue' = <<>> => \A d : ~Contains(queue', d)
  BY <1>3, LastFacts
<1>6. last' \in Events \cup {NULL}
  BY <1>1, <1>4 DEF IInv, TypeOK
<1>7. Ends'
  <2>1. CASE last \notin S
    BY <1>1, <1>2, <2>1, EndsAfter
  <2>2. CASE last \in S /\ queue' = <<>>
    BY <1>2, <1>3, <1>5, <2>2, EndsAfter
  <2>3. CASE last \in S /\ queue' # <<>>
    <3>1. last' = Last(queue')
      BY <1>1, <2>3
    <3>2. Contains(queue, last') /\ last' \notin S /\ \A f : Precedes(queue, last', f) => f \in S
      BY <1>3, <1>4, <2>3, <3>1
    <3> QED
      BY <1>2, <3>2, EndsAfter
  <2> QED
    BY <2>1, <2>2, <2>3
<1>8. Marks' /\ marker' \in Events \cup {NULL}
  <2>1. CASE marker \notin S
    BY <1>1, <1>2, <2>1, MarksAfter
  <2>2. CASE marker \in S
    <3> DEFINE l == SubSeq(queue, 1, At(marker) - 1)
               k == Kept(l, S)
    <3>1. Contains(queue, marker)
      BY <1>1, <2>2
    <3>2. /\ l \in Seq(Events) /\ Injective(l)
          /\ \A d : Contains(l, d) <=> Precedes(queue, d, marker)
          /\ \A d, f : Precedes(l, d, f) <=> Precedes(queue, d, f) /\ Precedes(queue, f, marker)
      BY <3>1, LeftFacts
    <3>3. marker' = IF k = <<>> THEN NULL ELSE Last(k)
      BY <1>1, <2>2
    <3> HIDE DEF l
    <3>4. /\ k \in Seq(Events)
          /\ \A d : Contains(k, d) <=> Contains(l, d) /\ d \notin S
          /\ \A d, f : Precedes(k, d, f) <=> Precedes(l, d, f) /\ d \notin S /\ f \notin S
      BY <3>2, KeptFacts
    <3> HIDE DEF k
    <3>5. Injective(k)
      <4>1. \A d : ~Precedes(l, d, d)
        BY <3>2, OrderFacts
      <4>2. \A d : ~Precedes(k, d, d)
        BY <3>4, <4>1
      <4> QED
        BY <3>4, <4>2, InjectiveOrder
    <3>6. /\ \A d : Contains(k, d) => k # <<>> /\ (d = Last(k) \/ Precedes(k, d, Last(k)))
          /\ k # <<>> => Contains(k, Last(k))
      BY <3>4, <3>5, LastFacts
    <3>7. CASE k = <<>>
      <4>1. \A d : Precedes(queue, d, marker) => d \in S
        BY <3>2, <3>4, <3>6, <3>7
      <4> QED
        BY <1>2, <2>2, <3>3, <3>7, <4>1, MarksAfter
    <3>8. CASE k # <<>>
      <4>1. marker' = Last(k) /\ marker' \notin S /\ Precedes(queue, marker', marker)
        BY <3>2, <3>3, <3>4, <3>6, <3>8
      <4>2. \A d : Precedes(queue, d, marker) /\ d \notin S =>
              d = marker' \/ Precedes(queue, d, marker')
        BY <3>2, <3>4, <3>6, <4>1
      <4> QED
        BY <1>2, <2>2, <4>1, <4>2, MarksAfter
    <3> QED
      BY <3>7, <3>8
  <2> QED
    BY <2>1, <2>2
<1>9. /\ stack \in Seq(Frames) /\ n \in Nat /\ DOMAIN stack = 1..n /\ n <= MaxDepth
  BY StackFacts
<1>10. /\ stack' \in Seq(Frames) /\ Len(stack') = n /\ DOMAIN stack' = 1..n
       /\ \A k \in 1..n : /\ stack'[k].ev = stack[k].ev
                          /\ stack'[k].stale <=> stack[k].stale \/ stack[k].ev \in S
  BY <1>1, <1>9, FreedFacts DEF FreedBy
<1> HIDE DEF n
<1>11. Active'
  <2> SUFFICES ASSUME NEW k \in 1..n, NEW m \in 1..n, ~stack'[k].stale, ~stack'[m].stale
               PROVE  Contains(queue', stack'[k].ev) /\ (stack'[k].ev = stack'[m].ev => k = m)
    BY <1>10 DEF Active
  <2>1. ~stack[k].stale /\ ~stack[m].stale /\ stack[k].ev \notin S
    BY <1>10
  <2>2. Contains(queue, stack[k].ev) /\ (stack[k].ev = stack[m].ev => k = m)
    BY <1>9, <2>1 DEF IInv, Active
  <2> QED
    BY <1>3, <1>10, <2>1, <2>2
<1>12. Careful'
  <2> SUFFICES ASSUME ~whole PROVE fault' = "none" /\ \A k \in 1..n : ~stack'[k].stale
    BY <1>1, <1>10 DEF Careful
  <2>1. \A k \in 1..n : ~stack[k].stale
    BY <1>9 DEF IInv, Careful
  <2>2. \A k \in 1..n : stack[k].ev \notin S
    BY <1>1, <1>9, <2>1 DEF Running
  <2> QED
    BY <1>1, <1>10, <2>1, <2>2
<1>13. fault' \in {"none", "lost"} /\ whole' = whole /\ Len(stack') <= MaxDepth
  BY <1>1, <1>9, <1>10
<1> QED
  BY <1>2, <1>6, <1>7, <1>8, <1>10, <1>11, <1>12, <1>13, AfterRemoval

-------------------------------------------------------------------------------
(* The theorems.                                                            *)

LEMMA Initially == ASSUME Init PROVE IInv
<1>1. /\ queue = <<>> /\ last = NULL /\ marker = NULL /\ posted = <<>> /\ stack = <<>>
      /\ kind = [e \in Events |-> "tail"] /\ whole \in BOOLEAN /\ fault = "none"
  BY DEF Init
<1>2. <<>> \in Seq(Events) /\ Len(<<>>) = 0 /\ <<>> \in Seq(Frames) /\ DOMAIN <<>> = {}
  OBVIOUS
<1>3. TypeOK
  BY <1>1, <1>2, EventQueueAssumption DEF TypeOK, Frames
<1>4. \A e : ~Contains(queue, e) /\ ~Contains(posted, e)
  BY <1>1, <1>2 DEF Contains
<1>5. \A d, e : ~Precedes(queue, d, e)
  BY <1>1, <1>2 DEF Precedes
<1>6. Lists /\ Ends /\ Marks /\ Ordered
  BY <1>1, <1>2, <1>4, <1>5 DEF Lists, Injective, Ends, Marks, Ordered
<1>7. Active /\ Careful
  BY <1>1, <1>2 DEF Active, Careful
<1> QED
  BY <1>3, <1>6, <1>7 DEF IInv

LEMMA Stuttering == ASSUME IInv, UNCHANGED vars PROVE IInv'
  BY DEF vars, IInv, TypeOK, Lists, Ends, Marks, Active, Careful, Ordered

\* The invariant is inductive: it holds at first, and every operation on the queue
\* keeps it.
THEOREM Inductive == Spec => []IInv
<1>1. Init => IInv
  BY Initially
<1>2. IInv /\ [Next]_vars => IInv'
  BY QueueTailStep, QueueHeadStep, QueueMarkStep, ServiceStep, RefuseStep, HandleStep,
     DeleteStep, Stuttering DEF Next
<1> QED
  BY <1>1, <1>2, PTL DEF Spec

\* The list holds events and nothing else, and no more activations of
\* Tcl_ServiceEvent are nested than the model allows.
THEOREM TypeCorrect == Spec => []TypeOK
<1>1. IInv => TypeOK
  BY DEF IInv
<1> QED
  BY <1>1, Inductive, PTL

\* lastEventPtr leads to the end of the list and markerEventPtr into it, whatever is
\* queued, handled and deleted in whatever order; nothing is linked twice, and no
\* event is handled twice.
THEOREM PointersLead == Spec => []Linked
<1>1. IInv => Linked
  BY Implied
<1> QED
  BY <1>1, Inductive, PTL

\* Events are served in the order that the comment above QueueEvent promises.
THEOREM ServedInOrder == Spec => []Ordered
<1>1. IInv => Ordered
  BY Implied
<1> QED
  BY <1>1, Inductive, PTL

\* Tcl_ServiceEvent frees no event whose handler has not run, if those who delete
\* events leave the ones being handled alone.
THEOREM NoEventLost == Spec => []NothingLost
<1>1. IInv => NothingLost
  BY Implied
<1> QED
  BY <1>1, Inductive, PTL
===============================================================================
