----------------------------- MODULE Timers_proofs -----------------------------
(***************************************************************************)
(* There is one timer event at most in the queue and timerPending says so, *)
(* and a pass over the timers or the idle handlers calls what was due when *)
(* it began and nothing else, for any handlers, any nesting of loops and   *)
(* passes, and whatever handlers create and cancel.                        *)
(***************************************************************************)
EXTENDS Timers, SequenceTheorems, FiniteSetTheorems, WellFoundedInduction, TLAPS

-------------------------------------------------------------------------------
(* Lists.  The first lemmas are those of EventQueue_proofs.                 *)

\* A set of numbers has a least one.
LEMMA Least ==
  ASSUME NEW T \in SUBSET Nat, T # {}
  PROVE  \E m \in T : \A k \in T : m <= k
<1> DEFINE R == {ss \in Nat \X Nat : ss[1] < ss[2]}
<1>1. IsWellFoundedOn(R, Nat)
  BY NatLessThanWellFounded DEF OpToRel
<1> HIDE DEF R
<1>2. PICK x \in T : \A y \in T : ~(<<y, x>> \in R)
  BY <1>1, WFMin
<1>3. \A y \in T : ~(y < x)
  <2> TAKE y \in T
  <2>1. y \in Nat /\ x \in Nat
    OBVIOUS
  <2> QED
    BY <1>2, <2>1 DEF R
<1> QED
  BY <1>3

\* The positions of a finite set can be put in order: if not, take the least bound of
\* a set for which they cannot, and leave its last element out.
Rising(nth) == \A i, j \in DOMAIN nth : i < j => nth[i] < nth[j]
LEMMA Orders ==
  ASSUME NEW n \in Nat, NEW at \in SUBSET (1..n)
  PROVE  /\ Cardinality(at) \in Nat
         /\ \E nth \in [1..Cardinality(at) -> at] : Rising(nth)
<1> DEFINE Good(s) == \E nth \in [1..Cardinality(s) -> s] : Rising(nth)
           Bad == {m \in Nat : \E s \in SUBSET (1..m) : ~Good(s)}
<1>1. ASSUME NEW m \in Nat, NEW s \in SUBSET (1..m)
      PROVE  IsFiniteSet(s) /\ Cardinality(s) \in Nat
  <2>1. IsFiniteSet(1..m)
    BY FS_Interval
  <2>2. IsFiniteSet(s)
    BY <2>1, FS_Subset
  <2> QED
    BY <2>2, FS_CardinalityType
<1>2. ASSUME Bad # {} PROVE FALSE
  <2> HIDE DEF Good
  <2>1. Bad \in SUBSET Nat
    OBVIOUS
  <2>2. PICK m \in Bad : \A k \in Bad : m <= k
    BY <1>2, <2>1, Least
  <2> m \in Nat
    OBVIOUS
  <2>3. PICK s \in SUBSET (1..m) : ~Good(s)
    BY <2>2
  <2>4. CASE m \notin s
    <3>1. CASE m = 0
      <4>1. s = {}
        BY <3>1
      <4>2. 1..Cardinality(s) = {}
        BY <4>1, FS_EmptySet
      <4>3. [i \in 1..Cardinality(s) |-> 0] \in [1..Cardinality(s) -> s]
        BY <4>2
      <4>4. Rising([i \in 1..Cardinality(s) |-> 0])
        BY <4>2 DEF Rising
      <4> QED
        BY <2>3, <4>3, <4>4 DEF Good
    <3>2. CASE m # 0
      <4>1. m - 1 \in Nat /\ s \in SUBSET (1..(m - 1))
        BY <2>4, <3>2
      <4>2. m - 1 \in Bad
        BY <2>3, <4>1
      <4>3. ~(m <= m - 1)
        OBVIOUS
      <4> QED
        BY <2>2, <4>2, <4>3
    <3> QED
      BY <3>1, <3>2
  <2>5. CASE m \in s
    <3> DEFINE r == s \ {m}
               c == Cardinality(r)
    <3>1. m - 1 \in Nat /\ r \in SUBSET (1..(m - 1)) /\ s = r \cup {m} /\ m \notin r
      BY <2>5
    <3>2. c \in Nat /\ Cardinality(s) = c + 1
      BY <1>1, <3>1, FS_AddElement
    <3>3. Good(r)
      <4>1. ~(m <= m - 1)
        OBVIOUS
      <4> QED
        BY <2>2, <3>1, <4>1
    <3>4. PICK nth \in [1..c -> r] : Rising(nth)
      BY <3>3 DEF Good
    <3> DEFINE all == [i \in 1..(c + 1) |-> IF i <= c THEN nth[i] ELSE m]
    <3> HIDE DEF c, r
    <3>5. all \in [1..(c + 1) -> s]
      <4> SUFFICES ASSUME NEW i \in 1..(c + 1) PROVE all[i] \in s
        OBVIOUS
      <4>1. i <= c => i \in 1..c
        BY <3>2
      <4> QED
        BY <2>5, <3>1, <4>1
    <3>6. Rising(all)
      <4> SUFFICES ASSUME NEW i \in 1..(c + 1), NEW j \in 1..(c + 1), i < j
                   PROVE  all[i] < all[j]
        BY DEF Rising
      <4>1. i \in 1..c /\ all[i] = nth[i]
        BY <3>2
      <4>2. nth[i] \in 1..(m - 1)
        BY <3>1, <4>1
      <4>3. CASE j = c + 1
        <5>1. all[j] = m
          BY <3>2, <4>3
        <5> HIDE DEF all
        <5> QED
          BY <3>1, <4>1, <4>2, <5>1
      <4>4. CASE j # c + 1
        <5>1. j \in 1..c /\ all[j] = nth[j]
          BY <3>2, <4>4
        <5> QED
          BY <3>4, <4>1, <5>1 DEF Rising
      <4> QED
        BY <4>3, <4>4
    <3> QED
      BY <2>3, <3>2, <3>5, <3>6 DEF Good
  <2> QED
    BY <2>4, <2>5
<1> QED
  BY <1>1, <1>2

\* A list of some elements of another, in the same order.
Within(k, l) == \E nth \in [1..Len(k) -> 1..Len(l)] :
                  Rising(nth) /\ \A i \in 1..Len(k) : k[i] = l[nth[i]]

\* What Kept leaves is one.
LEMMA KeptWithin ==
  ASSUME NEW S, NEW l \in Seq(S), NEW U
  PROVE  Kept(l, U) \in Seq(S) /\ Within(Kept(l, U), l)
<1> DEFINE n == Len(l)
           at == {i \in DOMAIN l : l[i] \notin U}
           c == Cardinality(at)
           nth == InOrder(at)
           k == Kept(l, U)
<1>1. n \in Nat /\ DOMAIN l = 1..n /\ \A i \in 1..n : l[i] \in S
  BY LenProperties, ElementOfSeq
<1>2. at \in SUBSET (1..n)
  BY <1>1
<1>3. k = [i \in DOMAIN nth |-> l[nth[i]]]
  BY DEF Kept
<1> HIDE DEF at, k
<1>4. c \in Nat /\ \E f \in [1..c -> at] : Rising(f)
  BY <1>1, <1>2, Orders
<1>5. nth \in [1..c -> at] /\ Rising(nth)
  BY <1>4 DEF InOrder, Rising
<1> HIDE DEF c, nth, n
<1>6. nth \in [1..c -> 1..n]
  BY <1>2, <1>5
<1>7. k = [i \in 1..c |-> l[nth[i]]] /\ \A i \in 1..c : l[nth[i]] \in S
  BY <1>1, <1>3, <1>6
<1>8. k \in Seq(S) /\ Len(k) = c /\ \A i \in 1..c : k[i] = l[nth[i]]
  BY <1>4, <1>7
<1>9. Within(k, l)
  BY <1>5, <1>6, <1>8 DEF Within, n
<1> QED
  BY <1>8, <1>9 DEF k

\* So is the list without its first element.
LEMMA TailWithin ==
  ASSUME NEW S, NEW l \in Seq(S), l # <<>>
  PROVE  /\ Tail(l) \in Seq(S) /\ Within(Tail(l), l)
         /\ Head(l) = l[1] /\ 1 \in 1..Len(l)
<1> DEFINE n == Len(l)
           k == Tail(l)
<1>1. n \in Nat \ {0}
  BY EmptySeq, LenProperties
<1>2. k \in Seq(S) /\ Len(k) = n - 1 /\ \A i \in 1..(n - 1) : k[i] = l[i + 1]
  BY HeadTailProperties
<1> DEFINE nth == [i \in 1..(n - 1) |-> i + 1]
<1> HIDE DEF n, k
<1>3. nth \in [1..(n - 1) -> 1..n] /\ Rising(nth)
  BY <1>1 DEF Rising
<1>4. \A i \in 1..(n - 1) : k[i] = l[nth[i]]
  BY <1>1, <1>2
<1> HIDE DEF nth
<1>5. Within(k, l)
  BY <1>2, <1>3, <1>4 DEF Within, n
<1>6. Head(l) = l[1] /\ 1 \in 1..n
  BY <1>1 DEF n
<1> QED
  BY <1>2, <1>5, <1>6 DEF k, n

\* A list with one more element, at position p.
Wider(l, k, e, p) ==
  /\ p \in 1..(Len(l) + 1) /\ Len(k) = Len(l) + 1
  /\ \A i \in 1..(Len(l) + 1) :
       k[i] = IF i < p THEN l[i] ELSE IF i = p THEN e ELSE l[i - 1]

\* Linking e at position p.
LEMMA InsertFacts ==
  ASSUME NEW S, NEW l \in Seq(S), NEW e \in S, NEW p \in 1..(Len(l) + 1)
  PROVE  InsertAt(l, p, e) \in Seq(S) /\ Wider(l, InsertAt(l, p, e), e, p)
<1> DEFINE n == Len(l)
           a == SubSeq(l, 1, p - 1)
           b == SubSeq(l, p, n)
           c == a \o <<e>>
<1>1. n \in Nat /\ DOMAIN l = 1..n /\ \A i \in 1..n : l[i] \in S
  BY LenProperties, ElementOfSeq
<1>2. p \in Int /\ 1 <= p /\ p <= n + 1
  BY <1>1
<1>3. a \in Seq(S) /\ Len(a) = p - 1 /\ \A i \in 1..(p - 1) : a[i] = l[i]
  <2>1. /\ a \in Seq(S) /\ Len(a) = IF 1 <= p - 1 THEN p - 1 - 1 + 1 ELSE 0
        /\ \A i \in 1..(p - 1 - 1 + 1) : a[i] = l[1 + i - 1]
    <3>1. 1 \in Int /\ p - 1 \in Int /\ \A i \in 1..(p - 1) : l[i] \in S
      BY <1>1, <1>2
    <3> QED
      BY <3>1, SubSeqProperties
  <2> HIDE DEF a
  <2> QED
    BY <1>2, <2>1
<1>4. b \in Seq(S) /\ Len(b) = n + 1 - p /\ \A i \in 1..(n + 1 - p) : b[i] = l[p + i - 1]
  <2>1. /\ b \in Seq(S) /\ Len(b) = IF p <= n THEN n - p + 1 ELSE 0
        /\ \A i \in 1..(n - p + 1) : b[i] = l[p + i - 1]
    <3>1. n \in Int /\ \A i \in p..n : l[i] \in S
      BY <1>1, <1>2
    <3> QED
      BY <1>2, <3>1, SubSeqProperties
  <2> HIDE DEF b, n
  <2>2. n - p + 1 = n + 1 - p /\ (~(p <= n) => n + 1 - p = 0)
    BY <1>1, <1>2
  <2> QED
    BY <2>1, <2>2
<1> HIDE DEF a, b
<1>5. c \in Seq(S) /\ Len(c) = p /\ \A i \in 1..p : c[i] = IF i < p THEN l[i] ELSE e
  <2>1. /\ c \in Seq(S) /\ Len(c) = Len(a) + 1
        /\ \A i \in 1..(Len(a) + 1) : c[i] = IF i <= Len(a) THEN a[i] ELSE <<e>>[i - Len(a)]
    <3>1. <<e>> \in Seq(S) /\ Len(<<e>>) = 1
      OBVIOUS
    <3> QED
      BY <1>3, <3>1, ConcatProperties
  <2>2. Len(a) + 1 = p
    BY <1>2, <1>3
  <2>3. ASSUME NEW i \in 1..p PROVE c[i] = IF i < p THEN l[i] ELSE e
    <3>1. c[i] = IF i <= p - 1 THEN a[i] ELSE <<e>>[i - (p - 1)]
      BY <1>3, <2>1, <2>2
    <3>2. CASE i < p
      BY <1>2, <1>3, <3>1, <3>2
    <3>3. CASE ~(i < p)
      <4>1. i - (p - 1) = 1 /\ ~(i <= p - 1)
        BY <1>2, <3>3
      <4>2. c[i] = <<e>>[1]
        BY <3>1, <4>1
      <4> QED
        BY <3>3, <4>2
    <3> QED
      BY <3>2, <3>3
  <2> QED
    BY <2>1, <2>2, <2>3
<1>6. InsertAt(l, p, e) = c \o b
  BY DEF InsertAt, a, b
<1> HIDE DEF c
<1>7. /\ c \o b \in Seq(S) /\ Len(c \o b) = p + (n + 1 - p)
      /\ \A i \in 1..(p + (n + 1 - p)) : (c \o b)[i] = IF i <= p THEN c[i] ELSE b[i - p]
  BY <1>4, <1>5, ConcatProperties
<1> DEFINE k == c \o b
<1> HIDE DEF k, n
<1>8. k \in Seq(S) /\ Len(k) = n + 1
  BY <1>1, <1>2, <1>7 DEF k
<1>9. ASSUME NEW i \in 1..(n + 1)
      PROVE  k[i] = IF i < p THEN l[i] ELSE IF i = p THEN e ELSE l[i - 1]
  <2>1. k[i] = IF i <= p THEN c[i] ELSE b[i - p]
    BY <1>1, <1>2, <1>7 DEF k
  <2>2. CASE i <= p
    BY <1>2, <1>5, <2>1, <2>2
  <2>3. CASE ~(i <= p)
    <3>1. i - p \in 1..(n + 1 - p) /\ p + (i - p) - 1 = i - 1 /\ ~(i < p) /\ i # p
      BY <1>1, <1>2, <2>3
    <3> QED
      BY <1>4, <2>1, <2>3, <3>1
  <2> QED
    BY <2>2, <2>3
<1>10. Wider(l, k, e, p)
  BY <1>8, <1>9 DEF Wider, n
<1> QED
  BY <1>6, <1>8, <1>10 DEF k

\* Taking the element at position p out.
LEMMA RemoveFacts ==
  ASSUME NEW S, NEW l \in Seq(S), NEW p \in 1..Len(l)
  PROVE  /\ RemoveAt(l, p) \in Seq(S) /\ Len(RemoveAt(l, p)) = Len(l) - 1
         /\ \A i \in 1..(Len(l) - 1) : RemoveAt(l, p)[i] = IF i < p THEN l[i] ELSE l[i + 1]
<1> DEFINE n == Len(l)
           a == SubSeq(l, 1, p - 1)
           b == SubSeq(l, p + 1, n)
<1>1. n \in Nat /\ DOMAIN l = 1..n /\ \A i \in 1..n : l[i] \in S
  BY LenProperties, ElementOfSeq
<1>2. p \in Int /\ 1 <= p /\ p <= n
  BY <1>1
<1>3. a \in Seq(S) /\ Len(a) = p - 1 /\ \A i \in 1..(p - 1) : a[i] = l[i]
  <2>1. /\ a \in Seq(S) /\ Len(a) = IF 1 <= p - 1 THEN p - 1 - 1 + 1 ELSE 0
        /\ \A i \in 1..(p - 1 - 1 + 1) : a[i] = l[1 + i - 1]
    <3>1. 1 \in Int /\ p - 1 \in Int /\ \A i \in 1..(p - 1) : l[i] \in S
      BY <1>1, <1>2
    <3> QED
      BY <3>1, SubSeqProperties
  <2> HIDE DEF a
  <2> QED
    BY <1>2, <2>1
<1>4. b \in Seq(S) /\ Len(b) = n - p /\ \A i \in 1..(n - p) : b[i] = l[p + i]
  <2>1. /\ b \in Seq(S) /\ Len(b) = IF p + 1 <= n THEN n - (p + 1) + 1 ELSE 0
        /\ \A i \in 1..(n - (p + 1) + 1) : b[i] = l[p + 1 + i - 1]
    <3>1. p + 1 \in Int /\ n \in Int /\ \A i \in (p + 1)..n : l[i] \in S
      BY <1>1, <1>2
    <3> QED
      BY <3>1, SubSeqProperties
  <2> HIDE DEF b, n
  <2>2. n - (p + 1) + 1 = n - p /\ (~(p + 1 <= n) => n - p = 0)
    BY <1>1, <1>2
  <2>3. \A i \in 1..(n - p) : p + 1 + i - 1 = p + i
    BY <1>1, <1>2
  <2> QED
    BY <2>1, <2>2, <2>3
<1>5. RemoveAt(l, p) = a \o b
  BY DEF RemoveAt
<1> HIDE DEF a, b
<1>6. /\ a \o b \in Seq(S) /\ Len(a \o b) = p - 1 + (n - p)
      /\ \A i \in 1..(p - 1 + (n - p)) : (a \o b)[i] = IF i <= p - 1 THEN a[i] ELSE b[i - (p - 1)]
  BY <1>3, <1>4, ConcatProperties
<1> DEFINE k == a \o b
<1> HIDE DEF k, n
<1>7. k \in Seq(S) /\ Len(k) = n - 1
  BY <1>1, <1>2, <1>6 DEF k
<1>8. ASSUME NEW i \in 1..(n - 1) PROVE k[i] = IF i < p THEN l[i] ELSE l[i + 1]
  <2>1. k[i] = IF i <= p - 1 THEN a[i] ELSE b[i - (p - 1)]
    BY <1>1, <1>2, <1>6 DEF k
  <2>2. CASE i < p
    BY <1>1, <1>2, <1>3, <2>1, <2>2
  <2>3. CASE ~(i < p)
    <3>1. i - (p - 1) \in 1..(n - p) /\ p + (i - (p - 1)) = i + 1 /\ ~(i <= p - 1)
      BY <1>1, <1>2, <2>3
    <3> QED
      BY <1>4, <2>1, <2>3, <3>1
  <2> QED
    BY <2>2, <2>3
<1> QED
  BY <1>5, <1>7, <1>8 DEF k, n

\* A stack without its last activation.
LEMMA FrontFacts ==
  ASSUME NEW S, NEW st \in Seq(S), st # <<>>
  PROVE  /\ Len(st) \in Nat /\ Len(st) >= 1 /\ Last(st) = st[Len(st)] /\ Last(st) \in S
         /\ Front(st) \in Seq(S) /\ Len(Front(st)) = Len(st) - 1
         /\ \A k \in 1..(Len(st) - 1) : Front(st)[k] = st[k] /\ k \in 1..Len(st)
<1> DEFINE n == Len(st)
           l == SubSeq(st, 1, n - 1)
<1>1. n \in Nat \ {0} /\ \A k \in 1..n : st[k] \in S
  BY EmptySeq, LenProperties, ElementOfSeq
<1>2. Front(st) = l
  BY DEF Front
<1>3. l \in Seq(S) /\ Len(l) = n - 1 /\ \A k \in 1..(n - 1) : l[k] = st[k]
  <2>1. /\ l \in Seq(S) /\ Len(l) = IF 1 <= n - 1 THEN n - 1 - 1 + 1 ELSE 0
        /\ \A k \in 1..(n - 1 - 1 + 1) : l[k] = st[1 + k - 1]
    <3>1. 1 \in Int /\ n - 1 \in Int /\ \A k \in 1..(n - 1) : st[k] \in S
      BY <1>1
    <3> QED
      BY <3>1, SubSeqProperties
  <2> HIDE DEF l, n
  <2> QED
    BY <1>1, <2>1
<1>4. Last(st) = st[n] /\ n \in 1..n
  BY <1>1 DEF Last
<1> HIDE DEF l, n
<1>5. \A k \in 1..(n - 1) : k \in 1..n
  BY <1>1
<1> QED
  BY <1>1, <1>2, <1>3, <1>4, <1>5 DEF n

-------------------------------------------------------------------------------
(* The invariant.                                                           *)

Timer == [id : Nat, time : Nat]
Idle == [id : Nat, gen : Nat]
Steps == {"queue", "wait", "again", "idle", "done", "check", "drain", "next", "call"}
Frames == [proc : {"loop", "timers", "idle", "other"}, at : Steps, flags : Flags,
           limit : Nat, time : Nat, due : SUBSET Nat]

Types ==
  /\ clock \in Nat /\ timers \in Seq(Timer) /\ lastTimerId \in Nat
  /\ timerPending \in BOOLEAN /\ events \in Seq({"timer", "other"})
  /\ idleList \in Seq(Idle) /\ lastIdleId \in Nat /\ idleGeneration \in Nat
  /\ stack \in Seq(Frames)

\* There is one timer event if timerPending says so, and none if not.
OneTimer == /\ \A i, j \in DOMAIN events : events[i] = "timer" /\ events[j] = "timer" => i = j
            /\ timerPending <=> \E i \in DOMAIN events : events[i] = "timer"

\* The timers are in the order of their times and, at one time, of their creation;
\* tokens are not used again.
Sooner(g, h) == g.time < h.time \/ (g.time = h.time /\ g.id < h.id)
TimerList(list, newest) ==
  /\ \A i, j \in DOMAIN list : i < j => Sooner(list[i], list[j])
  /\ \A i \in DOMAIN list : list[i].id <= newest
  /\ \A i, j \in DOMAIN list : list[i].id = list[j].id => i = j

\* Idle handlers are in the order of their generations.
IdleQueue(list, newest, generation) ==
  /\ \A i, j \in DOMAIN list : i < j => list[i].gen <= list[j].gen
  /\ \A i \in DOMAIN list : list[i].id <= newest /\ list[i].gen <= generation

\* A pass over the timers: what was due and is still there is what has expired and is
\* old enough, and what is too new is not earlier, if nobody sets timers in the past.
TimerPass(f, list, newest, now) ==
  f.proc = "timers" =>
    /\ f.limit <= newest /\ f.time <= now /\ \A i \in f.due : i <= f.limit
    /\ \A i \in DOMAIN list :
         /\ list[i].id \in f.due <=> list[i].id <= f.limit /\ list[i].time <= f.time
         /\ ~Past => list[i].id <= f.limit \/ f.time <= list[i].time

\* A pass over the idle handlers: what was due and is still there is of an older
\* generation.
IdlePass(f, list, newest, generation) ==
  f.proc = "idle" =>
    /\ f.limit < generation /\ \A i \in f.due : i <= newest
    /\ \A i \in DOMAIN list : list[i].id \in f.due <=> list[i].gen <= f.limit

Passes == \A k \in DOMAIN stack :
            /\ TimerPass(stack[k], timers, lastTimerId, clock)
            /\ IdlePass(stack[k], idleList, lastIdleId, idleGeneration)

IInv == /\ Types /\ OneTimer /\ TimerList(timers, lastTimerId)
        /\ IdleQueue(idleList, lastIdleId, idleGeneration) /\ Passes /\ PassExact

-------------------------------------------------------------------------------
(* The lists.                                                               *)

\* What a list of timers is made of.
LEMMA TimersAre ==
  ASSUME NEW list \in Seq(Timer)
  PROVE  /\ Len(list) \in Nat /\ DOMAIN list = 1..Len(list)
         /\ \A i \in 1..Len(list) : list[i] \in Timer /\ list[i].id \in Nat /\ list[i].time \in Nat
<1>1. \A i \in 1..Len(list) : list[i] \in Timer
  BY ElementOfSeq
<1> QED
  BY <1>1, LenProperties DEF Timer

\* What a list of idle calls is made of.
LEMMA IdlesAre ==
  ASSUME NEW list \in Seq(Idle)
  PROVE  /\ Len(list) \in Nat /\ DOMAIN list = 1..Len(list)
         /\ \A i \in 1..Len(list) : list[i] \in Idle /\ list[i].id \in Nat /\ list[i].gen \in Nat
<1>1. \A i \in 1..Len(list) : list[i] \in Idle
  BY ElementOfSeq
<1> QED
  BY <1>1, LenProperties DEF Idle

\* Timers are called and deleted.
LEMMA TimersFewer ==
  ASSUME NEW list \in Seq(Timer), NEW k \in Seq(Timer), Within(k, list),
         NEW n \in Nat, TimerList(list, n)
  PROVE  /\ TimerList(k, n)
         /\ \A f \in Frames, now \in Nat : TimerPass(f, list, n, now) => TimerPass(f, k, n, now)
<1>1. /\ Len(list) \in Nat /\ DOMAIN list = 1..Len(list)
      /\ Len(k) \in Nat /\ DOMAIN k = 1..Len(k)
  BY TimersAre
<1>2. PICK nth \in [1..Len(k) -> 1..Len(list)] :
        Rising(nth) /\ \A i \in 1..Len(k) : k[i] = list[nth[i]]
  BY DEF Within
<1>3. \A i, j \in 1..Len(k) : i < j => nth[i] < nth[j]
  BY <1>2 DEF Rising
<1>4. \A i \in 1..Len(k) : nth[i] \in 1..Len(list) /\ k[i] = list[nth[i]]
  BY <1>2
<1>5. TimerList(k, n)
  <2>1. ASSUME NEW i \in 1..Len(k), NEW j \in 1..Len(k), i < j PROVE Sooner(k[i], k[j])
    <3>1. Sooner(list[nth[i]], list[nth[j]])
      BY <1>1, <1>3, <1>4, <2>1 DEF TimerList
    <3> QED
      BY <1>4, <3>1
  <2>2. ASSUME NEW i \in 1..Len(k) PROVE k[i].id <= n
    BY <1>1, <1>4 DEF TimerList
  <2>3. ASSUME NEW i \in 1..Len(k), NEW j \in 1..Len(k), k[i].id = k[j].id PROVE i = j
    <3>1. nth[i] = nth[j]
      BY <1>1, <1>4, <2>3 DEF TimerList
    <3>2. ~(nth[i] < nth[j]) /\ ~(nth[j] < nth[i])
      <4>1. nth[i] \in Int
        BY <1>4
      <4> QED
        BY <3>1, <4>1
    <3> QED
      BY <1>3, <3>2
  <2> QED
    BY <1>1, <2>1, <2>2, <2>3 DEF TimerList
<1>6. ASSUME NEW f \in Frames, NEW now \in Nat, TimerPass(f, list, n, now)
      PROVE  TimerPass(f, k, n, now)
  BY <1>1, <1>4, <1>6 DEF TimerPass
<1> QED
  BY <1>5, <1>6

\* Idle handlers are called and cancelled.
LEMMA IdlesFewer ==
  ASSUME NEW list \in Seq(Idle), NEW k \in Seq(Idle), Within(k, list),
         NEW n, NEW g, IdleQueue(list, n, g)
  PROVE  /\ IdleQueue(k, n, g)
         /\ \A f \in Frames : IdlePass(f, list, n, g) => IdlePass(f, k, n, g)
<1>1. /\ Len(list) \in Nat /\ DOMAIN list = 1..Len(list)
      /\ Len(k) \in Nat /\ DOMAIN k = 1..Len(k)
  BY IdlesAre
<1>2. PICK nth \in [1..Len(k) -> 1..Len(list)] :
        Rising(nth) /\ \A i \in 1..Len(k) : k[i] = list[nth[i]]
  BY DEF Within
<1>3. \A i, j \in 1..Len(k) : i < j => nth[i] < nth[j]
  BY <1>2 DEF Rising
<1>4. \A i \in 1..Len(k) : nth[i] \in 1..Len(list) /\ k[i] = list[nth[i]]
  BY <1>2
<1>5. IdleQueue(k, n, g)
  <2>1. ASSUME NEW i \in 1..Len(k), NEW j \in 1..Len(k), i < j PROVE k[i].gen <= k[j].gen
    <3>1. list[nth[i]].gen <= list[nth[j]].gen
      BY <1>1, <1>3, <1>4, <2>1 DEF IdleQueue
    <3> QED
      BY <1>4, <3>1
  <2>2. ASSUME NEW i \in 1..Len(k) PROVE k[i].id <= n /\ k[i].gen <= g
    BY <1>1, <1>4 DEF IdleQueue
  <2> QED
    BY <1>1, <2>1, <2>2 DEF IdleQueue
<1>6. ASSUME NEW f \in Frames, IdlePass(f, list, n, g) PROVE IdlePass(f, k, n, g)
  BY <1>1, <1>4, <1>6 DEF IdlePass
<1> QED
  BY <1>5, <1>6

\* The place of a new timer: behind those that are not later, which come first.
LEMMA PlaceOfTimer ==
  ASSUME NEW list \in Seq(Timer), NEW n, TimerList(list, n), NEW time \in Nat
  PROVE  LET c == Cardinality({i \in DOMAIN list : list[i].time <= time}) IN
         /\ c \in 0..Len(list)
         /\ \A i \in 1..Len(list) : list[i].time <= time <=> i <= c
<1> DEFINE m == Len(list)
           T == {i \in 1..(m + 1) : i <= m => ~(list[i].time <= time)}
           at == {i \in DOMAIN list : list[i].time <= time}
<1>1. m \in Nat /\ DOMAIN list = 1..m /\ \A i \in 1..m : list[i].id \in Nat /\ list[i].time \in Nat
  BY TimersAre
<1> HIDE DEF m
<1>2. \A i, j \in 1..m : i < j => list[i].time <= list[j].time
  BY <1>1 DEF TimerList, Sooner
<1>3. m + 1 \in T /\ T \in SUBSET Nat
  BY <1>1
<1> HIDE DEF T
<1>4. PICK p \in T : \A q \in T : p <= q
  BY <1>3, Least
<1>5. p \in 1..(m + 1) /\ (p <= m => ~(list[p].time <= time))
  BY <1>4 DEF T
<1> DEFINE c == p - 1
<1>6. c \in 0..m
  BY <1>1, <1>5
<1>7. ASSUME NEW i \in 1..m PROVE list[i].time <= time <=> i <= c
  <2>1. CASE i < p
    <3>1. i \notin T
      BY <1>1, <1>4, <1>5, <2>1
    <3>2. list[i].time <= time
      BY <1>1, <3>1 DEF T
    <3> QED
      BY <1>1, <1>5, <2>1, <3>2
  <2>2. CASE ~(i < p)
    <3>1. p \in 1..m /\ p <= i
      BY <1>1, <1>5, <2>2
    <3>2. list[p].time <= list[i].time
      BY <1>1, <1>2, <3>1
    <3>3. ~(list[p].time <= time) /\ list[p].time \in Nat /\ list[i].time \in Nat
      BY <1>1, <1>5, <3>1
    <3>4. ~(list[i].time <= time)
      BY <3>2, <3>3
    <3> QED
      BY <1>1, <1>5, <2>2, <3>4
  <2> QED
    BY <2>1, <2>2
<1> HIDE DEF c
<1>8. at = 1..c
  <2>1. at = {i \in 1..m : list[i].time <= time}
    BY <1>1
  <2> HIDE DEF at
  <2> QED
    BY <1>1, <1>6, <1>7, <2>1
<1>9. Cardinality(at) = c
  <2>1. Cardinality(1..c) = IF 1 > c THEN 0 ELSE c - 1 + 1
    BY <1>6, FS_Interval
  <2>2. Cardinality(1..c) = c
    BY <1>1, <1>6, <2>1
  <2> QED
    BY <1>8, <2>2
<1> QED
  BY <1>6, <1>7, <1>9 DEF m

\* A timer is created.
LEMMA TimersMore ==
  ASSUME NEW list \in Seq(Timer), NEW n \in Nat, TimerList(list, n), NEW time \in Nat,
         NEW k, NEW c, c = Cardinality({i \in DOMAIN list : list[i].time <= time}),
         k = InsertAt(list, c + 1, [id |-> n + 1, time |-> time])
  PROVE  /\ k \in Seq(Timer) /\ TimerList(k, n + 1)
         /\ \A f \in Frames, now \in Nat :
              TimerPass(f, list, n, now) /\ (Past \/ now <= time) => TimerPass(f, k, n + 1, now)
<1> DEFINE m == Len(list)
           h == [id |-> n + 1, time |-> time]
<1>1. m \in Nat /\ DOMAIN list = 1..m /\ \A i \in 1..m : list[i].id \in Nat /\ list[i].time \in Nat
  BY TimersAre
<1>2. c \in 0..m /\ \A i \in 1..m : list[i].time <= time <=> i <= c
  BY PlaceOfTimer
<1>3. h \in Timer /\ h.id = n + 1 /\ h.time = time
  BY DEF Timer
<1>4. k = InsertAt(list, c + 1, h)
  OBVIOUS
<1> HIDE DEF h
<1>5. c + 1 \in 1..(m + 1)
  BY <1>1, <1>2
<1>6. k \in Seq(Timer) /\ Wider(list, k, h, c + 1)
  BY <1>3, <1>4, <1>5, InsertFacts
<1> HIDE DEF m
<1>7. /\ DOMAIN k = 1..(m + 1)
      /\ \A i \in 1..(m + 1) :
           k[i] = IF i < c + 1 THEN list[i] ELSE IF i = c + 1 THEN h ELSE list[i - 1]
  BY <1>6, LenProperties DEF Wider, m
\* Where an element comes from.
<1>8. \A i \in 1..(m + 1) :
        \/ i <= c /\ i \in 1..m /\ k[i] = list[i]
        \/ i = c + 1 /\ k[i] = h
        \/ i > c + 1 /\ i - 1 \in 1..m /\ i - 1 > c /\ k[i] = list[i - 1]
  <2> TAKE i \in 1..(m + 1)
  <2>1. CASE i < c + 1
    BY <1>1, <1>2, <1>7, <2>1
  <2>2. CASE i = c + 1
    BY <1>1, <1>2, <1>7, <2>2
  <2>3. CASE i > c + 1
    <3>1. i - 1 \in 1..m /\ i - 1 > c /\ ~(i < c + 1) /\ i # c + 1
      BY <1>1, <1>2, <2>3
    <3> QED
      BY <1>7, <2>3, <3>1
  <2> QED
    BY <1>1, <1>2, <2>1, <2>2, <2>3
<1>8a. \A i \in 1..(m + 1) : i <= c => i \in 1..m /\ k[i] = list[i]
  BY <1>1, <1>2, <1>7
<1>9. \A i \in 1..(m + 1) : k[i] = h \/ \E j \in 1..m : k[i] = list[j]
  BY <1>8
<1>10. \A i \in 1..m : list[i].id <= n
  BY <1>1 DEF TimerList
<1>11. TimerList(k, n + 1)
  <2>1. ASSUME NEW i \in 1..(m + 1), NEW j \in 1..(m + 1), i < j PROVE Sooner(k[i], k[j])
    <3>1. CASE i <= c /\ j <= c
      <4>1. i \in 1..m /\ j \in 1..m /\ k[i] = list[i] /\ k[j] = list[j]
        BY <1>8a, <3>1
      <4> QED
        BY <1>1, <2>1, <4>1 DEF TimerList
    <3>2. CASE i <= c /\ j = c + 1
      <4>1. i \in 1..m /\ k[i] = list[i] /\ k[j] = h /\ list[i].time <= time
        BY <1>2, <1>8, <3>2
      <4>2. list[i].id < n + 1
        BY <1>1, <1>10, <4>1
      <4> QED
        BY <1>1, <1>3, <4>1, <4>2 DEF Sooner
    <3>3. CASE i <= c /\ j > c + 1
      <4>1. i \in 1..m /\ k[i] = list[i] /\ j - 1 \in 1..m /\ j - 1 > c /\ k[j] = list[j - 1]
        BY <1>2, <1>8, <3>3
      <4>2. i < j - 1
        BY <1>2, <3>3, <4>1
      <4> QED
        BY <1>1, <4>1, <4>2 DEF TimerList
    <3>4. CASE i = c + 1
      <4>1. k[i] = h /\ j > c + 1
        BY <1>2, <1>8, <2>1, <3>4
      <4>2. j - 1 \in 1..m /\ j - 1 > c /\ k[j] = list[j - 1]
        BY <1>2, <1>8, <4>1
      <4>3. ~(list[j - 1].time <= time) /\ list[j - 1].time \in Nat
        BY <1>1, <1>2, <4>2
      <4>4. k[j].time > time /\ k[i].time = time
        BY <1>3, <4>1, <4>2, <4>3
      <4> QED
        BY <4>3, <4>4 DEF Sooner
    <3>5. CASE i > c + 1
      <4>1. i - 1 \in 1..m /\ k[i] = list[i - 1] /\ j > c + 1
        BY <1>2, <1>8, <2>1, <3>5
      <4>2. j - 1 \in 1..m /\ k[j] = list[j - 1]
        BY <1>2, <1>8, <4>1
      <4>3. i - 1 < j - 1
        BY <2>1
      <4> QED
        BY <1>1, <4>1, <4>2, <4>3 DEF TimerList
    <3> QED
      BY <1>2, <2>1, <3>1, <3>2, <3>3, <3>4, <3>5
  <2>2. ASSUME NEW i \in 1..(m + 1) PROVE k[i].id <= n + 1
    <3>1. CASE k[i] = h
      BY <1>3, <3>1
    <3>2. ASSUME NEW j \in 1..m, k[i] = list[j] PROVE k[i].id <= n + 1
      <4>1. list[j].id \in Nat /\ list[j].id <= n
        BY <1>1, <1>10
      <4>2. list[j].id <= n + 1
        BY <4>1
      <4> QED
        BY <3>2, <4>2
    <3> QED
      BY <1>9, <3>1, <3>2
  <2>3. ASSUME NEW i \in 1..(m + 1), NEW j \in 1..(m + 1), k[i].id = k[j].id, i < j PROVE FALSE
    <3>1. \A l \in 1..(m + 1) : k[l].id = n + 1 => l = c + 1
      <4> SUFFICES ASSUME NEW l \in 1..(m + 1), l # c + 1 PROVE k[l].id # n + 1
        OBVIOUS
      <4>1. \E q \in 1..m : k[l] = list[q]
        BY <1>8
      <4> QED
        BY <1>1, <1>10, <4>1
    <3>2. i # c + 1 /\ j # c + 1
      <4>0. \A l \in 1..(m + 1) : l = c + 1 => k[l].id = n + 1
        BY <1>2, <1>3, <1>7
      <4>1. i = c + 1 => k[j].id = n + 1
        BY <2>3, <4>0
      <4>2. j = c + 1 => k[i].id = n + 1
        BY <2>3, <4>0
      <4>3. i # j
        BY <2>3
      <4> QED
        BY <3>1, <4>1, <4>2, <4>3
    <3> DEFINE old(l) == IF l <= c THEN l ELSE l - 1
    <3>3. \A l \in 1..(m + 1) : l # c + 1 => old(l) \in 1..m /\ k[l] = list[old(l)]
      BY <1>2, <1>8
    <3>4. old(i) # old(j)
      BY <1>2, <2>3, <3>2
    <3> HIDE DEF old
    <3> QED
      BY <1>1, <2>3, <3>2, <3>3, <3>4 DEF TimerList
  <2>4. ASSUME NEW i \in 1..(m + 1), NEW j \in 1..(m + 1), k[i].id = k[j].id PROVE i = j
    <3>1. ~(i < j) /\ ~(j < i)
      BY <2>3, <2>4
    <3> QED
      BY <3>1
  <2> QED
    BY <1>7, <2>1, <2>2, <2>4 DEF TimerList
<1>12. ASSUME NEW f \in Frames, NEW now \in Nat, TimerPass(f, list, n, now), Past \/ now <= time
       PROVE  TimerPass(f, k, n + 1, now)
  <2> SUFFICES ASSUME f.proc = "timers" PROVE TimerPass(f, k, n + 1, now)
    BY DEF TimerPass
  <2>1. f.limit \in Nat /\ f.time \in Nat /\ f.due \in SUBSET Nat
    BY DEF Frames
  <2>2. f.limit <= n /\ f.time <= now /\ \A i \in f.due : i <= f.limit
    BY <1>12 DEF TimerPass
  <2>3. ASSUME NEW i \in 1..(m + 1)
        PROVE  /\ k[i].id \in f.due <=> k[i].id <= f.limit /\ k[i].time <= f.time
               /\ ~Past => k[i].id <= f.limit \/ f.time <= k[i].time
    <3>1. CASE k[i] = h
      <4>1. ~(n + 1 <= f.limit)
        BY <2>1, <2>2
      <4>2. n + 1 \notin f.due
        BY <2>1, <2>2, <4>1
      <4>3. ~Past => f.time <= time
        BY <1>12, <2>1, <2>2
      <4> QED
        BY <1>3, <3>1, <4>1, <4>2, <4>3
    <3>2. ASSUME NEW j \in 1..m, k[i] = list[j]
          PROVE  /\ k[i].id \in f.due <=> k[i].id <= f.limit /\ k[i].time <= f.time
                 /\ ~Past => k[i].id <= f.limit \/ f.time <= k[i].time
      BY <1>1, <1>12, <3>2 DEF TimerPass
    <3> QED
      BY <1>9, <3>1, <3>2
  <2>4. f.limit <= n + 1
    BY <2>1, <2>2
  <2> QED
    BY <1>7, <2>2, <2>3, <2>4 DEF TimerPass
<1> QED
  BY <1>6, <1>11, <1>12

\* An idle handler is created, in the current generation.
LEMMA IdlesMore ==
  ASSUME NEW list \in Seq(Idle), NEW n \in Nat, NEW g \in Nat, IdleQueue(list, n, g), NEW k,
         k = Append(list, [id |-> n + 1, gen |-> g])
  PROVE  /\ k \in Seq(Idle) /\ IdleQueue(k, n + 1, g)
         /\ \A f \in Frames : IdlePass(f, list, n, g) => IdlePass(f, k, n + 1, g)
<1> DEFINE m == Len(list)
           h == [id |-> n + 1, gen |-> g]
<1>1. m \in Nat /\ DOMAIN list = 1..m /\ \A i \in 1..m : list[i].id \in Nat /\ list[i].gen \in Nat
  BY IdlesAre
<1>2. h \in Idle /\ h.id = n + 1 /\ h.gen = g
  BY DEF Idle
<1>3. k = Append(list, h)
  OBVIOUS
<1> HIDE DEF h
<1>4. k \in Seq(Idle) /\ Len(k) = m + 1 /\ k[m + 1] = h /\ \A i \in 1..m : k[i] = list[i]
  BY <1>1, <1>2, <1>3, AppendProperties
<1>5. DOMAIN k = 1..(m + 1)
  BY <1>4, LenProperties
<1> HIDE DEF m
<1>6. \A i \in 1..(m + 1) : i \in 1..m \/ i = m + 1
  BY <1>1
<1>7. \A i \in 1..m : list[i].id <= n /\ list[i].gen <= g
  BY <1>1 DEF IdleQueue
<1>8. IdleQueue(k, n + 1, g)
  <2>1. ASSUME NEW i \in 1..(m + 1), NEW j \in 1..(m + 1), i < j PROVE k[i].gen <= k[j].gen
    <3>1. i \in 1..m /\ k[i] = list[i]
      BY <1>1, <1>4, <2>1
    <3>2. CASE j \in 1..m
      BY <1>1, <1>4, <2>1, <3>1, <3>2 DEF IdleQueue
    <3>3. CASE j = m + 1
      BY <1>2, <1>4, <1>7, <3>1, <3>3
    <3> QED
      BY <1>6, <3>2, <3>3
  <2>2. ASSUME NEW i \in 1..(m + 1) PROVE k[i].id <= n + 1 /\ k[i].gen <= g
    <3>1. CASE i \in 1..m
      <4>1. list[i].id <= n + 1
        BY <1>1, <1>7, <3>1
      <4> QED
        BY <1>4, <1>7, <3>1, <4>1
    <3>2. CASE i = m + 1
      BY <1>2, <1>4, <3>2
    <3> QED
      BY <1>6, <3>1, <3>2
  <2> QED
    BY <1>5, <2>1, <2>2 DEF IdleQueue
<1>9. ASSUME NEW f \in Frames, IdlePass(f, list, n, g) PROVE IdlePass(f, k, n + 1, g)
  <2> SUFFICES ASSUME f.proc = "idle" PROVE IdlePass(f, k, n + 1, g)
    BY DEF IdlePass
  <2>1. f.limit \in Nat /\ f.due \in SUBSET Nat
    BY DEF Frames
  <2>2. f.limit < g /\ \A i \in f.due : i <= n
    BY <1>9 DEF IdlePass
  <2>3. ASSUME NEW i \in 1..(m + 1) PROVE k[i].id \in f.due <=> k[i].gen <= f.limit
    <3>1. CASE i \in 1..m
      BY <1>1, <1>4, <1>9, <3>1 DEF IdlePass
    <3>2. CASE i = m + 1
      <4>1. n + 1 \notin f.due /\ ~(g <= f.limit)
        BY <2>1, <2>2
      <4> QED
        BY <1>2, <1>4, <3>2, <4>1
    <3> QED
      BY <1>6, <3>1, <3>2
  <2>4. \A i \in f.due : i <= n + 1
    BY <2>1, <2>2
  <2> QED
    BY <1>5, <2>2, <2>3, <2>4 DEF IdlePass
<1> QED
  BY <1>4, <1>8, <1>9

-------------------------------------------------------------------------------
(* The queue.                                                               *)

\* What the event queue is made of.
LEMMA EventsAre ==
  ASSUME Types
  PROVE  Len(events) \in Nat /\ DOMAIN events = 1..Len(events)
         /\ events \in Seq({"timer", "other"})
  BY LenProperties DEF Types

\* The first event that is wanted is one.
LEMMA FirstFacts ==
  ASSUME Types, Found
  PROVE  First \in 1..Len(events)
<1> DEFINE T == {i \in DOMAIN events : Wanted(events[i])}
<1>1. Len(events) \in Nat /\ DOMAIN events = 1..Len(events)
  BY EventsAre
<1>2. T # {} /\ T \in SUBSET Nat
  BY <1>1 DEF Found
<1>3. \A i \in DOMAIN events : i \in T <=> Wanted(events[i])
  OBVIOUS
<1>4. T \in SUBSET DOMAIN events
  OBVIOUS
<1> HIDE DEF T
<1>5. PICK i \in T : \A j \in T : i <= j
  BY <1>2, Least
<1>6. \A j \in 1..(i - 1) : ~Wanted(events[j])
  <2> SUFFICES ASSUME NEW j \in 1..(i - 1), Wanted(events[j]) PROVE FALSE
    OBVIOUS
  <2>1. i \in 1..Len(events)
    BY <1>1, <1>4
  <2>2. j \in 1..Len(events) /\ ~(i <= j)
    BY <1>1, <2>1
  <2> QED
    BY <1>1, <1>3, <1>5, <2>2
<1>7. \E n \in DOMAIN events : Wanted(events[n]) /\ \A j \in 1..(n - 1) : ~Wanted(events[j])
  BY <1>3, <1>4, <1>6
<1> HIDE DEF Wanted
<1> QED
  BY <1>1, <1>7 DEF First

\* An event is taken out: the others are those that were not there.
Taken(old, new, p, from) ==
  /\ from \in [DOMAIN new -> DOMAIN old]
  /\ \A i \in DOMAIN new : new[i] = old[from[i]] /\ from[i] # p
  /\ \A i, j \in DOMAIN new : from[i] = from[j] => i = j
  /\ \A j \in DOMAIN old : j # p => \E i \in DOMAIN new : from[i] = j
LEMMA EventTaken ==
  ASSUME Types, NEW p \in 1..Len(events), events' = RemoveAt(events, p)
  PROVE  events' \in Seq({"timer", "other"}) /\ \E from : Taken(events, events', p, from)
<1> DEFINE n == Len(events)
           from == [i \in 1..(n - 1) |-> IF i < p THEN i ELSE i + 1]
<1>1. n \in Nat /\ DOMAIN events = 1..n
  BY EventsAre
<1>2. /\ events' \in Seq({"timer", "other"}) /\ Len(events') = n - 1
      /\ \A i \in 1..(n - 1) : events'[i] = IF i < p THEN events[i] ELSE events[i + 1]
  BY EventsAre, RemoveFacts
<1>3. DOMAIN events' = 1..(n - 1)
  BY <1>2, LenProperties
<1> HIDE DEF n
<1>4. p \in Int /\ 1 <= p /\ p <= n
  BY <1>1 DEF n
<1>5. from \in [1..(n - 1) -> 1..n]
  BY <1>1, <1>4
<1>6. \A i \in 1..(n - 1) : events'[i] = events[from[i]] /\ from[i] # p
  BY <1>1, <1>2, <1>4
<1>7. \A i, j \in 1..(n - 1) : from[i] = from[j] => i = j
  BY <1>1, <1>4
<1>8. ASSUME NEW j \in 1..n, j # p PROVE \E i \in 1..(n - 1) : from[i] = j
  <2>1. CASE j < p
    <3>1. j \in 1..(n - 1) /\ from[j] = j
      BY <1>1, <1>4, <2>1
    <3> QED
      BY <3>1
  <2>2. CASE ~(j < p)
    <3>1. j - 1 \in 1..(n - 1) /\ ~(j - 1 < p)
      BY <1>1, <1>4, <1>8, <2>2
    <3>2. from[j - 1] = j
      BY <1>1, <3>1
    <3> QED
      BY <3>1, <3>2
  <2> QED
    BY <2>1, <2>2
<1> HIDE DEF from
<1>9. Taken(events, events', p, from)
  BY <1>1, <1>3, <1>5, <1>6, <1>7, <1>8 DEF Taken
<1> QED
  BY <1>2, <1>9

\* The timer event is served.
LEMMA TimerTaken ==
  ASSUME Types, OneTimer, NEW p \in 1..Len(events), events[p] = "timer",
         events' = RemoveAt(events, p), timerPending' = FALSE
  PROVE  events' \in Seq({"timer", "other"}) /\ OneTimer'
<1>0. PICK from : Taken(events, events', p, from)
  BY EventTaken
<1>1. /\ from \in [DOMAIN events' -> DOMAIN events]
      /\ \A i \in DOMAIN events' : events'[i] = events[from[i]] /\ from[i] # p
  BY <1>0 DEF Taken
<1>2. p \in DOMAIN events
  BY EventsAre
<1>3. \A i \in DOMAIN events' : events'[i] # "timer"
  BY <1>1, <1>2 DEF OneTimer
<1> QED
  BY <1>3, EventTaken DEF OneTimer

\* Another event is.
LEMMA OtherTaken ==
  ASSUME Types, OneTimer, NEW p \in 1..Len(events), events[p] = "other",
         events' = RemoveAt(events, p), timerPending' = timerPending
  PROVE  events' \in Seq({"timer", "other"}) /\ OneTimer'
<1>0. PICK from : Taken(events, events', p, from)
  BY EventTaken
<1>1. /\ from \in [DOMAIN events' -> DOMAIN events]
      /\ \A i \in DOMAIN events' : events'[i] = events[from[i]] /\ from[i] # p
      /\ \A i, j \in DOMAIN events' : from[i] = from[j] => i = j
      /\ \A j \in DOMAIN events : j # p => \E i \in DOMAIN events' : from[i] = j
  BY <1>0 DEF Taken
<1>2. \A i, j \in DOMAIN events' : events'[i] = "timer" /\ events'[j] = "timer" => i = j
  BY <1>1 DEF OneTimer
<1>3. (\E i \in DOMAIN events' : events'[i] = "timer") <=> \E i \in DOMAIN events : events[i] = "timer"
  <2>1. ASSUME NEW i \in DOMAIN events', events'[i] = "timer"
        PROVE  \E j \in DOMAIN events : events[j] = "timer"
    BY <1>1, <2>1
  <2>2. ASSUME NEW j \in DOMAIN events, events[j] = "timer"
        PROVE  \E i \in DOMAIN events' : events'[i] = "timer"
    <3>1. j # p
      BY <2>2
    <3> QED
      BY <1>1, <2>2, <3>1
  <2> QED
    BY <2>1, <2>2
<1>4. (timerPending <=> \E i \in DOMAIN events : events[i] = "timer")'
  BY <1>3 DEF OneTimer
<1> QED
  BY <1>2, <1>4, EventTaken DEF OneTimer

\* An event is queued.
LEMMA EventAdded ==
  ASSUME Types, OneTimer, NEW e \in {"timer", "other"}, events' = Append(events, e),
         e = "timer" => ~timerPending,
         timerPending' = (timerPending \/ e = "timer")
  PROVE  events' \in Seq({"timer", "other"}) /\ OneTimer'
<1> DEFINE n == Len(events)
<1>1. n \in Nat /\ DOMAIN events = 1..n
  BY EventsAre
<1>2. /\ events' \in Seq({"timer", "other"}) /\ Len(events') = n + 1 /\ events'[n + 1] = e
      /\ \A i \in 1..n : events'[i] = events[i]
  BY EventsAre, AppendProperties
<1> HIDE DEF n
<1>3. DOMAIN events' = 1..(n + 1) /\ \A i \in 1..(n + 1) : i \in 1..n \/ i = n + 1
  BY <1>1, <1>2, LenProperties
<1>4. n + 1 \in 1..(n + 1) /\ \A i \in 1..n : i \in 1..(n + 1)
  BY <1>1
<1>5. CASE e = "timer"
  <2>1. \A i \in 1..n : events'[i] # "timer"
    BY <1>1, <1>2, <1>5 DEF OneTimer
  <2>2. \A i \in 1..(n + 1) : events'[i] = "timer" <=> i = n + 1
    BY <1>2, <1>3, <1>5, <2>1
  <2>3. timerPending'
    BY <1>5
  <2> QED
    BY <1>2, <1>3, <1>4, <2>2, <2>3 DEF OneTimer
<1>6. CASE e # "timer"
  <2>1. \A i \in 1..(n + 1) : events'[i] = "timer" => i \in 1..n /\ events[i] = "timer"
    BY <1>2, <1>3, <1>6
  <2>2. \A i \in 1..n : events[i] = "timer" => i \in 1..(n + 1) /\ events'[i] = "timer"
    BY <1>2, <1>4
  <2>3. timerPending' <=> timerPending
    BY <1>6
  <2>4. \A i, j \in DOMAIN events' : events'[i] = "timer" /\ events'[j] = "timer" => i = j
    BY <1>1, <1>3, <2>1 DEF OneTimer
  <2>5. timerPending' <=> \E i \in DOMAIN events' : events'[i] = "timer"
    BY <1>1, <1>3, <2>1, <2>2, <2>3 DEF OneTimer
  <2> QED
    BY <1>2, <2>4, <2>5 DEF OneTimer
<1> QED
  BY <1>5, <1>6

-------------------------------------------------------------------------------
(* Activations.                                                             *)

Alike(f, g) == f.proc = g.proc /\ f.limit = g.limit /\ f.time = g.time /\ f.due = g.due

\* Activations as they were, at whatever step, and the new one perhaps.
ComeWith(new, fr) ==
  /\ new \in Seq(Frames)
  /\ \A k \in DOMAIN new : new[k] = fr \/ \E j \in DOMAIN stack : Alike(new[k], stack[j])

\* What the stack of passes is made of.
LEMMA StackIs ==
  ASSUME Types
  PROVE  stack \in Seq(Frames) /\ Len(stack) \in Nat /\ DOMAIN stack = 1..Len(stack)
         /\ \A k \in 1..Len(stack) : stack[k] \in Frames
  BY LenProperties, ElementOfSeq DEF Types

\* The innermost pass.
LEMMA TopIs ==
  ASSUME Types, stack # <<>>
  PROVE  Len(stack) \in 1..Len(stack) /\ Top = stack[Len(stack)] /\ Top \in Frames
<1>1. Len(stack) \in Nat /\ Len(stack) >= 1 /\ Last(stack) = stack[Len(stack)] /\ Last(stack) \in Frames
  BY StackIs, FrontFacts
<1> QED
  BY <1>1 DEF Top

\* An activation goes on.
LEMMA GoIs ==
  ASSUME Types, stack # <<>>, NEW step \in Steps
  PROVE  \A fr : ComeWith(Go(step), fr)
<1> DEFINE n == Len(stack)
           f == [stack[n] EXCEPT !.at = step]
           new == Go(step)
<1>1. n \in 1..n /\ stack \in Seq(Frames) /\ DOMAIN stack = 1..n
      /\ \A k \in 1..n : stack[k] \in Frames
  BY StackIs, TopIs
<1>2. f \in Frames /\ Alike(f, stack[n])
  BY <1>1 DEF Frames, Alike
<1>3. new = [stack EXCEPT ![n] = f]
  BY DEF Go
<1> HIDE DEF f, new
<1>4. new \in Seq(Frames) /\ Len(new) = n /\ \A k \in 1..n : new[k] = IF k = n THEN f ELSE stack[k]
  BY <1>1, <1>2, <1>3, ExceptSeq
<1>5. DOMAIN new = 1..n
  BY <1>4, LenProperties
<1>6. \A k \in 1..n : Alike(new[k], stack[k])
  <2> TAKE k \in 1..n
  <2>1. CASE k = n
    BY <1>2, <1>4, <2>1
  <2>2. CASE k # n
    BY <1>4, <2>2 DEF Alike
  <2> QED
    BY <2>1, <2>2
<1> HIDE DEF n
<1> QED
  BY <1>1, <1>4, <1>5, <1>6 DEF ComeWith, new

\* It ends.
LEMMA FrontIs ==
  ASSUME Types, stack # <<>>
  PROVE  \A fr : ComeWith(Front(stack), fr)
<1> DEFINE n == Len(stack)
           new == Front(stack)
<1>1. stack \in Seq(Frames) /\ n \in Nat /\ DOMAIN stack = 1..n
  BY StackIs
<1>2. /\ new \in Seq(Frames) /\ Len(new) = n - 1
      /\ \A k \in 1..(n - 1) : new[k] = stack[k] /\ k \in 1..n
  BY <1>1, FrontFacts
<1> HIDE DEF n, new
<1>3. DOMAIN new = 1..(n - 1)
  BY <1>2, LenProperties
<1>4. \A k \in DOMAIN new : k \in DOMAIN stack /\ Alike(new[k], stack[k])
  BY <1>1, <1>2, <1>3 DEF Alike
<1> QED
  BY <1>2, <1>4 DEF ComeWith, new

\* Another begins.
LEMMA AppendIs ==
  ASSUME NEW st \in Seq(Frames), NEW fr \in Frames, ComeWith(st, fr)
  PROVE  ComeWith(Append(st, fr), fr)
<1> DEFINE n == Len(st)
           new == Append(st, fr)
<1>1. /\ n \in Nat /\ DOMAIN st = 1..n
      /\ new \in Seq(Frames) /\ Len(new) = n + 1 /\ new[n + 1] = fr
      /\ \A k \in 1..n : new[k] = st[k]
  BY LenProperties, AppendProperties
<1> HIDE DEF n, new
<1>2. DOMAIN new = 1..(n + 1) /\ \A k \in 1..(n + 1) : k \in 1..n \/ k = n + 1
  BY <1>1, LenProperties
<1>3. \A k \in DOMAIN new : new[k] = fr \/ \E j \in DOMAIN stack : Alike(new[k], stack[j])
  <2> SUFFICES ASSUME NEW k \in 1..n
               PROVE  new[k] = fr \/ \E j \in DOMAIN stack : Alike(new[k], stack[j])
    BY <1>1, <1>2
  <2>1. st[k] = fr \/ \E j \in DOMAIN stack : Alike(st[k], stack[j])
    BY <1>1 DEF ComeWith
  <2> QED
    BY <1>1, <2>1
<1> QED
  BY <1>1, <1>3 DEF ComeWith, new

\* Beginning a pass or a call leaves the passes below as they were.
LEMMA PushIs ==
  ASSUME Types, stack # <<>>, NEW step \in Steps, NEW fr \in Frames
  PROVE  ComeWith(Push(step, fr), fr)
<1>1. ComeWith(Go(step), fr) /\ Go(step) \in Seq(Frames)
  BY GoIs DEF ComeWith
<1> QED
  BY <1>1, AppendIs DEF Push

\* The passes go on as they were if the lists leave them alone.
LEMMA PassesAfter ==
  ASSUME IInv, NEW fr, ComeWith(stack', fr),
         TimerPass(fr, timers', lastTimerId', clock'),
         IdlePass(fr, idleList', lastIdleId', idleGeneration'),
         \A f \in Frames : TimerPass(f, timers, lastTimerId, clock) =>
                             TimerPass(f, timers', lastTimerId', clock'),
         \A f \in Frames : IdlePass(f, idleList, lastIdleId, idleGeneration) =>
                             IdlePass(f, idleList', lastIdleId', idleGeneration')
  PROVE  stack' \in Seq(Frames) /\ Passes'
<1>1. stack \in Seq(Frames) /\ DOMAIN stack = 1..Len(stack)
      /\ \A k \in 1..Len(stack) : stack[k] \in Frames
  BY StackIs DEF IInv
<1>2. stack' \in Seq(Frames)
  BY DEF ComeWith
<1>3. ASSUME NEW f, NEW g, Alike(f, g), NEW l, NEW n, NEW t, TimerPass(g, l, n, t)
      PROVE  TimerPass(f, l, n, t)
  BY <1>3 DEF Alike, TimerPass
<1>4. ASSUME NEW f, NEW g, Alike(f, g), NEW l, NEW n, NEW t, IdlePass(g, l, n, t)
      PROVE  IdlePass(f, l, n, t)
  BY <1>4 DEF Alike, IdlePass
<1>5. ASSUME NEW k \in DOMAIN stack'
      PROVE  /\ TimerPass(stack'[k], timers', lastTimerId', clock')
             /\ IdlePass(stack'[k], idleList', lastIdleId', idleGeneration')
  <2>1. CASE stack'[k] = fr
    BY <2>1
  <2>2. ASSUME NEW j \in DOMAIN stack, Alike(stack'[k], stack[j])
        PROVE  /\ TimerPass(stack'[k], timers', lastTimerId', clock')
               /\ IdlePass(stack'[k], idleList', lastIdleId', idleGeneration')
    <3>1. /\ TimerPass(stack[j], timers, lastTimerId, clock)
          /\ IdlePass(stack[j], idleList, lastIdleId, idleGeneration)
      BY DEF IInv, Passes
    <3>2. /\ TimerPass(stack[j], timers', lastTimerId', clock')
          /\ IdlePass(stack[j], idleList', lastIdleId', idleGeneration')
      BY <1>1, <3>1
    <3> QED
      BY <1>3, <1>4, <2>2, <3>2
  <2> QED
    BY <2>1, <2>2 DEF ComeWith
<1> QED
  BY <1>2, <1>5 DEF Passes

\* A step of a loop that leaves the lists alone and begins no pass.
LEMMA LoopStep ==
  ASSUME IInv, UNCHANGED <<clock, timers, lastTimerId, idleVars, left, extra>>,
         NEW fr, ComeWith(stack', fr), fr.proc \in {"loop", "other"},
         events' \in Seq({"timer", "other"}), timerPending' \in BOOLEAN, OneTimer'
  PROVE  IInv'
<1>1. stack' \in Seq(Frames) /\ Passes'
  <2>1. /\ clock' = clock /\ timers' = timers /\ lastTimerId' = lastTimerId
        /\ idleList' = idleList /\ lastIdleId' = lastIdleId /\ idleGeneration' = idleGeneration
    BY DEF idleVars
  <2>2. TimerPass(fr, timers', lastTimerId', clock')
        /\ IdlePass(fr, idleList', lastIdleId', idleGeneration')
    BY DEF TimerPass, IdlePass
  <2> QED
    BY <2>1, <2>2, PassesAfter
<1>2. Types'
  BY <1>1 DEF IInv, Types, idleVars
<1>3. TimerList(timers, lastTimerId)' /\ IdleQueue(idleList, lastIdleId, idleGeneration)' /\ PassExact'
  BY DEF IInv, idleVars, TimerList, IdleQueue, PassExact
<1> QED
  BY <1>1, <1>2, <1>3 DEF IInv

-------------------------------------------------------------------------------
(* Handlers.                                                                *)

\* What a step needs that leaves the activations alone.
LEMMA StackSame ==
  ASSUME IInv, stack' = stack
  PROVE  \A fr : ComeWith(stack', fr)
  BY StackIs DEF IInv, ComeWith, Alike

Nobody == Frame("other", "call", All, 0, 0, {})

\* A frame that makes no pass owes nobody a call.
LEMMA NobodyPasses ==
  /\ \A l, n, t : TimerPass(Nobody, l, n, t) /\ IdlePass(Nobody, l, n, t)
  /\ Nobody.proc = "other"
  BY DEF Nobody, Frame, TimerPass, IdlePass

\* A step that changes the timers or the clock.
LEMMA TimersStep ==
  ASSUME IInv, UNCHANGED <<stack, timerPending, events, idleVars, left, extra>>,
         clock' \in Nat, timers' \in Seq(Timer), lastTimerId' \in Nat,
         TimerList(timers', lastTimerId'),
         \A f \in Frames : TimerPass(f, timers, lastTimerId, clock) =>
                             TimerPass(f, timers', lastTimerId', clock')
  PROVE  IInv'
<1>1. idleList' = idleList /\ lastIdleId' = lastIdleId /\ idleGeneration' = idleGeneration
  BY DEF idleVars
<1>2. stack' \in Seq(Frames) /\ Passes'
  BY <1>1, StackSame, NobodyPasses, PassesAfter
<1>3. Types'
  BY <1>1, <1>2 DEF IInv, Types
<1>4. OneTimer' /\ IdleQueue(idleList, lastIdleId, idleGeneration)' /\ PassExact'
  BY <1>1 DEF IInv, OneTimer, IdleQueue, PassExact
<1>5. TimerList(timers, lastTimerId)'
  BY DEF TimerList
<1> QED
  BY <1>2, <1>3, <1>4, <1>5 DEF IInv

\* One that changes the idle handlers.
LEMMA IdleStep ==
  ASSUME IInv, UNCHANGED <<clock, timerVars, idleGeneration, stack, left, extra>>,
         idleList' \in Seq(Idle), lastIdleId' \in Nat,
         IdleQueue(idleList', lastIdleId', idleGeneration),
         \A f \in Frames : IdlePass(f, idleList, lastIdleId, idleGeneration) =>
                             IdlePass(f, idleList', lastIdleId', idleGeneration)
  PROVE  IInv'
<1>1. timers' = timers /\ lastTimerId' = lastTimerId /\ timerPending' = timerPending
      /\ events' = events
  BY DEF timerVars
<1>2. stack' \in Seq(Frames) /\ Passes'
  BY <1>1, StackSame, NobodyPasses, PassesAfter
<1>3. Types'
  BY <1>1, <1>2 DEF IInv, Types
<1>4. OneTimer' /\ TimerList(timers, lastTimerId)' /\ PassExact'
  BY <1>1 DEF IInv, OneTimer, TimerList, PassExact
<1>5. IdleQueue(idleList, lastIdleId, idleGeneration)'
  BY DEF IdleQueue
<1> QED
  BY <1>2, <1>3, <1>4, <1>5 DEF IInv

\* One step for each operation of the program.
LEMMA CreateStep ==
  ASSUME IInv, NEW time \in 0..MaxTime, TclCreateAbsoluteTimerHandler(time)
  PROVE  IInv'
<1>1. /\ Past \/ clock <= time
      /\ lastTimerId' = lastTimerId + 1
      /\ timers' = InsertAt(timers, Position(time) + 1, [id |-> lastTimerId + 1, time |-> time])
      /\ UNCHANGED <<clock, timerPending, events, idleVars, stack, left, extra>>
  <2>1. time >= clock <=> clock <= time
    BY TimersAssumption DEF IInv, Types
  <2> QED
    BY <2>1 DEF TclCreateAbsoluteTimerHandler
<1>2. time \in Nat /\ timers \in Seq(Timer) /\ lastTimerId \in Nat /\ clock \in Nat
      /\ TimerList(timers, lastTimerId)
  BY TimersAssumption DEF IInv, Types
<1>3. Position(time) = Cardinality({i \in DOMAIN timers : timers[i].time <= time})
  BY DEF Position
<1>4. /\ timers' \in Seq(Timer) /\ TimerList(timers', lastTimerId + 1)
      /\ \A f \in Frames, now \in Nat :
           TimerPass(f, timers, lastTimerId, now) /\ (Past \/ now <= time) =>
             TimerPass(f, timers', lastTimerId + 1, now)
  BY <1>1, <1>2, <1>3, TimersMore
<1>5. lastTimerId' \in Nat /\ clock' \in Nat
  BY <1>1, <1>2
<1>6. \A f \in Frames : TimerPass(f, timers, lastTimerId, clock) =>
                          TimerPass(f, timers', lastTimerId', clock')
  BY <1>1, <1>2, <1>4
<1> QED
  BY <1>1, <1>4, <1>5, <1>6, TimersStep

LEMMA DeleteStep ==
  ASSUME IInv, NEW id, Tcl_DeleteTimerHandler(id)
  PROVE  IInv'
<1>1. /\ timers' = Kept(timers, {h \in ToSet(timers) : h.id = id})
      /\ UNCHANGED <<clock, lastTimerId, timerPending, events, idleVars, stack, left, extra>>
  BY DEF Tcl_DeleteTimerHandler
<1>2. timers \in Seq(Timer) /\ lastTimerId \in Nat /\ clock \in Nat /\ TimerList(timers, lastTimerId)
  BY DEF IInv, Types
<1>3. timers' \in Seq(Timer) /\ Within(timers', timers)
  BY <1>1, <1>2, KeptWithin
<1>4. /\ TimerList(timers', lastTimerId)
      /\ \A f \in Frames, now \in Nat :
           TimerPass(f, timers, lastTimerId, now) => TimerPass(f, timers', lastTimerId, now)
  BY <1>2, <1>3, TimersFewer
<1> QED
  BY <1>1, <1>2, <1>3, <1>4, TimersStep

LEMMA TickStep == ASSUME IInv, Tick PROVE IInv'
<1>1. clock' = clock + 1 /\ UNCHANGED <<timers, lastTimerId>>
      /\ UNCHANGED <<stack, timerPending, events, idleVars, left, extra>>
  BY DEF Tick, timerVars
<1>2. timers \in Seq(Timer) /\ lastTimerId \in Nat /\ clock \in Nat /\ TimerList(timers, lastTimerId)
  BY DEF IInv, Types
<1>3. ASSUME NEW f \in Frames, TimerPass(f, timers, lastTimerId, clock)
      PROVE  TimerPass(f, timers, lastTimerId, clock + 1)
  <2>1. f.time \in Nat
    BY DEF Frames
  <2>2. f.time <= clock => f.time <= clock + 1
    BY <1>2, <2>1
  <2> QED
    BY <1>3, <2>2 DEF TimerPass
<1>4. clock' \in Nat
  BY <1>1, <1>2
<1> QED
  BY <1>1, <1>2, <1>3, <1>4, TimersStep

LEMMA WhenIdleStep == ASSUME IInv, Tcl_DoWhenIdle PROVE IInv'
<1>1. /\ lastIdleId' = lastIdleId + 1
      /\ idleList' = Append(idleList, [id |-> lastIdleId + 1, gen |-> idleGeneration])
      /\ UNCHANGED <<clock, timerVars, idleGeneration, stack, left, extra>>
  BY DEF Tcl_DoWhenIdle
<1>2. idleList \in Seq(Idle) /\ lastIdleId \in Nat /\ idleGeneration \in Nat
      /\ IdleQueue(idleList, lastIdleId, idleGeneration)
  BY DEF IInv, Types
<1>3. /\ idleList' \in Seq(Idle) /\ IdleQueue(idleList', lastIdleId + 1, idleGeneration)
      /\ \A f \in Frames : IdlePass(f, idleList, lastIdleId, idleGeneration) =>
                             IdlePass(f, idleList', lastIdleId + 1, idleGeneration)
  BY <1>1, <1>2, IdlesMore
<1>4. lastIdleId' \in Nat
  BY <1>1, <1>2
<1> QED
  BY <1>1, <1>3, <1>4, IdleStep

LEMMA CancelStep == ASSUME IInv, NEW S, Tcl_CancelIdleCall(S) PROVE IInv'
<1>1. /\ idleList' = Kept(idleList, {h \in ToSet(idleList) : h.id \in S})
      /\ lastIdleId' = lastIdleId
      /\ UNCHANGED <<clock, timerVars, idleGeneration, stack, left, extra>>
  BY DEF Tcl_CancelIdleCall
<1>2. idleList \in Seq(Idle) /\ lastIdleId \in Nat
      /\ IdleQueue(idleList, lastIdleId, idleGeneration)
  BY DEF IInv, Types
<1>3. idleList' \in Seq(Idle) /\ Within(idleList', idleList)
  BY <1>1, <1>2, KeptWithin
<1>4. /\ IdleQueue(idleList', lastIdleId, idleGeneration)
      /\ \A f \in Frames : IdlePass(f, idleList, lastIdleId, idleGeneration) =>
                             IdlePass(f, idleList', lastIdleId, idleGeneration)
  BY <1>2, <1>3, IdlesFewer
<1> QED
  BY <1>1, <1>2, <1>3, <1>4, IdleStep

-------------------------------------------------------------------------------
(* The loops.                                                               *)

\* Only the activations change.
LEMMA StepOnly ==
  ASSUME IInv, UNCHANGED <<clock, timerVars, idleVars, left, extra>>,
         NEW fr, ComeWith(stack', fr), fr.proc \in {"loop", "other"}
  PROVE  IInv'
<1>1. UNCHANGED <<timers, lastTimerId, timerPending, events>>
  BY DEF timerVars
<1>2. events' \in Seq({"timer", "other"}) /\ timerPending' \in BOOLEAN /\ OneTimer'
  BY <1>1 DEF IInv, Types, OneTimer
<1> QED
  BY <1>1, <1>2, LoopStep

LEMMA CallStep ==
  ASSUME IInv, NEW step \in Steps, NEW flags \in Flags, Call(step, flags)
  PROVE  IInv'
<1> DEFINE fr == Frame("loop", step, flags, 0, 0, {})
<1>1. fr \in Frames /\ fr.proc = "loop"
  BY DEF Frame, Frames
<1>2. stack' = Append(stack, fr) /\ UNCHANGED <<clock, timerVars, idleVars, left, extra>>
  BY DEF Call
<1> HIDE DEF fr
<1>3. stack \in Seq(Frames) /\ ComeWith(stack, fr)
  BY StackIs DEF IInv, ComeWith, Alike
<1>4. ComeWith(stack', fr)
  BY <1>1, <1>2, <1>3, AppendIs
<1> QED
  BY <1>1, <1>2, <1>4, StepOnly

\* A loop goes to another step or ends, or a handler does.
LEMMA GoStep ==
  ASSUME IInv, stack # <<>>, NEW step \in Steps, stack' = Go(step) \/ stack' = Front(stack),
         UNCHANGED <<clock, timerVars, idleVars, left, extra>>
  PROVE  IInv'
<1>1. ComeWith(stack', Nobody)
  BY GoIs, FrontIs DEF IInv
<1> QED
  BY <1>1, NobodyPasses, StepOnly

LEMMA ReturnStep == ASSUME IInv, Return PROVE IInv'
<1>1. stack # <<>> /\ (stack' = Go("next") \/ stack' = Front(stack)) /\ "next" \in Steps
      /\ UNCHANGED <<clock, timerVars, idleVars, left, extra>>
  BY DEF Return, At, Steps
<1> QED
  BY <1>1, GoStep

LEMMA NothingStep ==
  ASSUME IInv, NEW step, NEW next \in Steps, Nothing(step, next)
  PROVE  IInv'
<1>1. stack # <<>> /\ stack' = Go(next) /\ UNCHANGED <<clock, timerVars, idleVars, left, extra>>
  BY DEF Nothing, At
<1> QED
  BY <1>1, GoStep

LEMMA NothingIdleStep == ASSUME IInv, NothingIdle PROVE IInv'
<1>1. stack # <<>> /\ (stack' = Go("queue") \/ stack' = Front(stack)) /\ "queue" \in Steps
      /\ UNCHANGED <<clock, timerVars, idleVars, left, extra>>
  BY DEF NothingIdle, At, Steps
<1> QED
  BY <1>1, GoStep

LEMMA DoneStep == ASSUME IInv, Done PROVE IInv'
<1>1. stack # <<>> /\ stack' = Front(stack) /\ "queue" \in Steps
      /\ UNCHANGED <<clock, timerVars, idleVars, left, extra>>
  BY DEF Done, At, Steps
<1> QED
  BY <1>1, GoStep

\* TimerCheckProc queues one event, and no second one.
LEMMA CheckStep ==
  ASSUME IInv, stack # <<>>, NEW step \in Steps, stack' = Go(step), TimerCheckProc
  PROVE  IInv'
<1>1. UNCHANGED <<clock, timers, lastTimerId, idleVars, left, extra>>
  BY DEF TimerCheckProc
<1>2. ComeWith(stack', Nobody)
  BY GoIs DEF IInv
<1>3. CASE QueueOne
  <2>1. /\ events' = Append(events, "timer") /\ timerPending' = (timerPending \/ "timer" = "timer")
        /\ "timer" = "timer" => ~timerPending
    BY <1>3 DEF TimerCheckProc, QueueOne
  <2>2. events' \in Seq({"timer", "other"}) /\ OneTimer'
    BY <2>1, EventAdded DEF IInv
  <2>3. timerPending' \in BOOLEAN
    BY <2>1
  <2> QED
    BY <1>1, <1>2, <2>2, <2>3, NobodyPasses, LoopStep
<1>4. CASE ~QueueOne
  <2>1. UNCHANGED <<timerPending, events>>
    BY <1>4 DEF TimerCheckProc
  <2>2. events' \in Seq({"timer", "other"}) /\ timerPending' \in BOOLEAN /\ OneTimer'
    BY <2>1 DEF IInv, Types, OneTimer
  <2> QED
    BY <1>1, <1>2, <2>2, NobodyPasses, LoopStep
<1> QED
  BY <1>3, <1>4

LEMMA WaitStep == ASSUME IInv, Wait PROVE IInv'
<1>1. stack # <<>> /\ stack' = Go("again") /\ "again" \in Steps /\ TimerCheckProc
  BY DEF Wait, At, Steps
<1> QED
  BY <1>1, CheckStep

LEMMA ServiceAllStep == ASSUME IInv, Check PROVE IInv'
<1>1. stack # <<>> /\ stack' = Go("drain") /\ "drain" \in Steps /\ TimerCheckProc
  BY DEF Check, At, Steps
<1> QED
  BY <1>1, CheckStep

LEMMA OtherStep == ASSUME IInv, Other PROVE IInv'
<1>1. /\ events' = Append(events, "other") /\ timerPending' = timerPending /\ stack' = stack
      /\ UNCHANGED <<clock, timers, lastTimerId, idleVars, left, extra>>
  BY DEF Other
<1>2. timerPending \in BOOLEAN
  BY DEF IInv, Types
<1>3. timerPending' = (timerPending \/ "other" = "timer") /\ ("other" = "timer" => ~timerPending)
  BY <1>1, <1>2
<1>4. events' \in Seq({"timer", "other"}) /\ OneTimer'
  BY <1>1, <1>3, EventAdded DEF IInv
<1> QED
  BY <1>1, <1>2, <1>4, StackSame, NobodyPasses, LoopStep

LEMMA OtherEventStep ==
  ASSUME IInv, NEW step, OtherEventProc(step)
  PROVE  IInv'
<1> DEFINE fr == Frame("other", "call", All, 0, 0, {})
<1>1. /\ stack # <<>> /\ Found /\ events[First] = "other" /\ events' = RemoveAt(events, First)
      /\ stack' = Push(After(step), fr) /\ timerPending' = timerPending
      /\ UNCHANGED <<clock, timers, lastTimerId, idleVars, left, extra>>
  BY DEF OtherEventProc, At
<1>2. fr \in Frames /\ fr.proc = "other"
  BY DEF Frame, Frames, Steps, Flags, All
<1> HIDE DEF fr
<1>3. After(step) \in Steps
  BY DEF After, Steps
<1>4. ComeWith(stack', fr)
  BY <1>1, <1>2, <1>3, PushIs DEF IInv
<1>5. events' \in Seq({"timer", "other"}) /\ OneTimer'
  BY <1>1, FirstFacts, OtherTaken DEF IInv
<1>6. timerPending' \in BOOLEAN
  BY <1>1 DEF IInv, Types
<1> QED
  BY <1>1, <1>2, <1>4, <1>5, <1>6, LoopStep

-------------------------------------------------------------------------------
(* The passes.                                                              *)

\* A pass over the timers begins with what has expired.
LEMMA TimerEventStep ==
  ASSUME IInv, NEW step, TimerHandlerEventProc(step)
  PROVE  IInv'
<1> DEFINE due == {h.id : h \in {x \in ToSet(timers) : x.time <= clock}}
           fr == Frame("timers", "next", All, lastTimerId, clock, due)
<1>1. /\ stack # <<>> /\ Found /\ events[First] = "timer" /\ events' = RemoveAt(events, First)
      /\ stack' = Push(After(step), fr) /\ timerPending' = FALSE
      /\ UNCHANGED <<clock, timers, lastTimerId, idleVars, left, extra>>
  BY DEF TimerHandlerEventProc, At
<1>2. /\ timers \in Seq(Timer) /\ lastTimerId \in Nat /\ clock \in Nat
      /\ TimerList(timers, lastTimerId)
  BY DEF IInv, Types
<1>3. Len(timers) \in Nat /\ DOMAIN timers = 1..Len(timers)
      /\ \A i \in 1..Len(timers) : timers[i].id \in Nat /\ timers[i].time \in Nat
  BY <1>2, TimersAre
<1>4. \A d : d \in due <=> \E i \in 1..Len(timers) : timers[i].time <= clock /\ timers[i].id = d
  BY <1>3 DEF ToSet
<1> HIDE DEF due
<1>5. due \in SUBSET Nat
  BY <1>3, <1>4
<1>6. /\ fr \in Frames /\ fr.proc = "timers" /\ fr.limit = lastTimerId /\ fr.time = clock
      /\ fr.due = due
  BY <1>2, <1>5 DEF Frame, Frames, Steps, Flags, All
<1> HIDE DEF fr
<1>7. TimerPass(fr, timers, lastTimerId, clock)
  <2>1. ASSUME NEW i \in due PROVE i <= lastTimerId
    BY <1>2, <1>3, <1>4 DEF TimerList
  <2>2. ASSUME NEW i \in 1..Len(timers)
        PROVE  /\ timers[i].id \in due <=> timers[i].id <= lastTimerId /\ timers[i].time <= clock
               /\ timers[i].id <= lastTimerId
    <3>1. timers[i].id <= lastTimerId
      BY <1>2, <1>3 DEF TimerList
    <3>2. timers[i].id \in due <=> timers[i].time <= clock
      BY <1>2, <1>3, <1>4 DEF TimerList
    <3> QED
      BY <3>1, <3>2
  <2>3. lastTimerId <= lastTimerId /\ clock <= clock
    BY <1>2
  <2> QED
    BY <1>3, <1>6, <2>1, <2>2, <2>3 DEF TimerPass
<1>8. IdlePass(fr, idleList, lastIdleId, idleGeneration)
  BY <1>6 DEF IdlePass
<1>9. After(step) \in Steps
  BY DEF After, Steps
<1>10. ComeWith(stack', fr)
  BY <1>1, <1>6, <1>9, PushIs DEF IInv
<1>11. /\ clock' = clock /\ timers' = timers /\ lastTimerId' = lastTimerId
       /\ idleList' = idleList /\ lastIdleId' = lastIdleId /\ idleGeneration' = idleGeneration
       /\ left' = left /\ extra' = extra
  BY <1>1 DEF idleVars
<1>12. stack' \in Seq(Frames) /\ Passes'
  BY <1>7, <1>8, <1>10, <1>11, PassesAfter
<1>13. events' \in Seq({"timer", "other"}) /\ OneTimer'
  BY <1>1, FirstFacts, TimerTaken DEF IInv
<1>14. Types'
  BY <1>1, <1>11, <1>12, <1>13 DEF IInv, Types
<1>15. TimerList(timers, lastTimerId)' /\ IdleQueue(idleList, lastIdleId, idleGeneration)' /\ PassExact'
  BY <1>11 DEF IInv, TimerList, IdleQueue, PassExact
<1> QED
  BY <1>12, <1>13, <1>14, <1>15 DEF IInv

\* A pass over the idle handlers begins with all of them, and a new generation.
LEMMA ServiceIdleStep == ASSUME IInv, TclServiceIdle PROVE IInv'
<1> DEFINE due == Ids(idleList)
           fr == Frame("idle", "next", All, idleGeneration, 0, due)
<1>1. /\ stack # <<>> /\ idleGeneration' = idleGeneration + 1
      /\ stack' = Push("done", fr)
      /\ UNCHANGED <<clock, timerVars, idleList, lastIdleId, left, extra>>
  BY DEF TclServiceIdle, At, Generation
<1>2. /\ idleList \in Seq(Idle) /\ lastIdleId \in Nat /\ idleGeneration \in Nat
      /\ IdleQueue(idleList, lastIdleId, idleGeneration)
  BY DEF IInv, Types
<1>3. Len(idleList) \in Nat /\ DOMAIN idleList = 1..Len(idleList)
      /\ \A i \in 1..Len(idleList) : idleList[i].id \in Nat /\ idleList[i].gen \in Nat
                                     /\ idleList[i].id <= lastIdleId
                                     /\ idleList[i].gen <= idleGeneration
  BY <1>2, IdlesAre DEF IdleQueue
<1>4. \A d : d \in due <=> \E i \in 1..Len(idleList) : idleList[i].id = d
  BY <1>3 DEF Ids
<1> HIDE DEF due
<1>5. due \in SUBSET Nat
  BY <1>3, <1>4
<1>6. fr \in Frames /\ fr.proc = "idle" /\ fr.limit = idleGeneration /\ fr.due = due
  BY <1>2, <1>5 DEF Frame, Frames, Steps, Flags, All
<1> HIDE DEF fr
<1>7. IdlePass(fr, idleList, lastIdleId, idleGeneration + 1)
  <2>1. idleGeneration < idleGeneration + 1
    BY <1>2
  <2>2. \A i \in due : i <= lastIdleId
    BY <1>3, <1>4
  <2>3. \A i \in 1..Len(idleList) : idleList[i].id \in due /\ idleList[i].gen <= idleGeneration
    BY <1>3, <1>4
  <2> QED
    BY <1>3, <1>6, <2>1, <2>2, <2>3 DEF IdlePass
<1>8. TimerPass(fr, timers, lastTimerId, clock)
  BY <1>6 DEF TimerPass
<1>9. ComeWith(stack', fr)
  BY <1>1, <1>6, PushIs DEF IInv, Steps
<1>10. ASSUME NEW f \in Frames, IdlePass(f, idleList, lastIdleId, idleGeneration)
       PROVE  IdlePass(f, idleList, lastIdleId, idleGeneration + 1)
  <2>1. f.limit \in Nat
    BY DEF Frames
  <2>2. f.limit < idleGeneration => f.limit < idleGeneration + 1
    BY <1>2, <2>1
  <2> QED
    BY <1>10, <2>2 DEF IdlePass
<1>11. /\ clock' = clock /\ timers' = timers /\ lastTimerId' = lastTimerId
       /\ timerPending' = timerPending /\ events' = events
       /\ idleList' = idleList /\ lastIdleId' = lastIdleId /\ left' = left /\ extra' = extra
  BY <1>1 DEF timerVars
<1>12. stack' \in Seq(Frames) /\ Passes'
  BY <1>1, <1>7, <1>8, <1>9, <1>10, <1>11, PassesAfter
<1>13. Types'
  BY <1>1, <1>2, <1>11, <1>12 DEF IInv, Types
<1>14. OneTimer' /\ TimerList(timers, lastTimerId)' /\ PassExact'
  BY <1>11 DEF IInv, OneTimer, TimerList, PassExact
<1>15. IdleQueue(idleList, lastIdleId, idleGeneration)'
  <2>1. \A i \in 1..Len(idleList) : idleList[i].gen <= idleGeneration + 1
    BY <1>2, <1>3
  <2>2. IdleQueue(idleList, lastIdleId, idleGeneration + 1)
    BY <1>2, <1>3, <2>1 DEF IdleQueue
  <2> QED
    BY <1>1, <1>11, <2>2 DEF IdleQueue
<1> QED
  BY <1>12, <1>13, <1>14, <1>15 DEF IInv

\* When the first timer is not for the pass, none that was due is left.
LEMMA NoTimerLeft ==
  ASSUME NEW list \in Seq(Timer), NEW n \in Nat, TimerList(list, n), NEW now \in Nat,
         NEW f \in Frames, f.proc = "timers", TimerPass(f, list, n, now), ~Past,
         ~(list # <<>> /\ Head(list).time <= f.time /\ Head(list).id <= f.limit)
  PROVE  f.due \cap Ids(list) = {}
<1> DEFINE m == Len(list)
<1>1. m \in Nat /\ DOMAIN list = 1..m /\ \A i \in 1..m : list[i].id \in Nat /\ list[i].time \in Nat
  BY TimersAre
<1>2. f.limit \in Nat /\ f.time \in Nat
  BY DEF Frames
<1>3. \A i \in 1..m : list[i].id \in f.due <=> list[i].id <= f.limit /\ list[i].time <= f.time
  BY <1>1 DEF TimerPass
<1>4. \A i \in 1..m : list[i].id <= f.limit \/ f.time <= list[i].time
  BY <1>1 DEF TimerPass
<1>5. ASSUME NEW i \in 1..m, list[i].id <= f.limit, list[i].time <= f.time PROVE FALSE
  <2>1. list # <<>>
    BY <1>1, <1>5, EmptySeq DEF m
  <2>2. Head(list) = list[1] /\ 1 \in 1..m
    BY <2>1, TailWithin DEF m
  <2> HIDE DEF m
  <2>3. ~(list[1].time <= f.time /\ list[1].id <= f.limit)
    BY <2>1, <2>2
  <2>4. i # 1 /\ 1 < i
    <3>1. i # 1
      BY <1>5, <2>3
    <3> QED
      BY <1>1, <3>1
  <2>5. Sooner(list[1], list[i])
    BY <1>1, <2>2, <2>4 DEF TimerList
  <2>6. list[1].id \in Nat /\ list[1].time \in Nat /\ list[i].id \in Nat /\ list[i].time \in Nat
        /\ (list[1].id <= f.limit \/ f.time <= list[1].time)
    BY <1>1, <1>4, <2>2
  <2>7. list[1].time < list[i].time \/ (list[1].time = list[i].time /\ list[1].id < list[i].id)
    BY <2>5 DEF Sooner
  <2> QED
    BY <1>2, <1>5, <2>3, <2>6, <2>7
<1>6. \A d : d \in Ids(list) => \E i \in 1..m : list[i].id = d
  BY <1>1 DEF Ids
<1> HIDE DEF m
<1> QED
  BY <1>3, <1>5, <1>6

\* A pass that ends owes no idle call.
LEMMA NoIdleLeft ==
  ASSUME NEW list \in Seq(Idle), NEW n, NEW g \in Nat, IdleQueue(list, n, g),
         NEW f \in Frames, f.proc = "idle", IdlePass(f, list, n, g),
         ~(list # <<>> /\ Head(list).gen <= f.limit)
  PROVE  f.due \cap Ids(list) = {}
<1> DEFINE m == Len(list)
<1>1. m \in Nat /\ DOMAIN list = 1..m /\ \A i \in 1..m : list[i].id \in Nat /\ list[i].gen \in Nat
  BY IdlesAre
<1>2. f.limit \in Nat
  BY DEF Frames
<1>3. \A i \in 1..m : list[i].id \in f.due <=> list[i].gen <= f.limit
  BY <1>1 DEF IdlePass
<1>5. ASSUME NEW i \in 1..m, list[i].gen <= f.limit PROVE FALSE
  <2>1. list # <<>>
    BY <1>1, <1>5, EmptySeq DEF m
  <2>2. Head(list) = list[1] /\ 1 \in 1..m
    BY <2>1, TailWithin DEF m
  <2> HIDE DEF m
  <2>3. ~(list[1].gen <= f.limit)
    BY <2>1, <2>2
  <2>4. i = 1 \/ 1 < i
    BY <1>1
  <2>5. list[1].gen \in Nat /\ list[i].gen \in Nat /\ (1 < i => list[1].gen <= list[i].gen)
    BY <1>1, <2>2 DEF IdleQueue
  <2> QED
    BY <1>2, <1>5, <2>3, <2>4, <2>5
<1>6. \A d : d \in Ids(list) => \E i \in 1..m : list[i].id = d
  BY <1>1 DEF Ids
<1> HIDE DEF m
<1> QED
  BY <1>3, <1>5, <1>6

\* The activation at the top is one of the passes.
LEMMA TopPass ==
  ASSUME IInv, stack # <<>>
  PROVE  /\ Top \in Frames
         /\ TimerPass(Top, timers, lastTimerId, clock)
         /\ IdlePass(Top, idleList, lastIdleId, idleGeneration)
  BY StackIs, TopIs DEF IInv, Passes

LEMMA CallTimerStep == ASSUME IInv, CallTimer PROVE IInv'
<1>1. /\ stack # <<>> /\ Top.proc = "timers"
      /\ UNCHANGED <<clock, lastTimerId, timerPending, events, idleVars>>
      /\ \/ /\ timers # <<>> /\ Head(timers).time <= Top.time /\ Head(timers).id <= Top.limit
            /\ timers' = Tail(timers) /\ stack' = Go("call")
            /\ extra' = extra \cup ({Head(timers).id} \ Top.due) /\ left' = left
         \/ /\ ~(timers # <<>> /\ Head(timers).time <= Top.time /\ Head(timers).id <= Top.limit)
            /\ stack' = Front(stack) /\ left' = left \cup (Top.due \cap Ids(timers))
            /\ timers' = timers /\ extra' = extra
  BY DEF CallTimer, At, Mine
<1>2. /\ timers \in Seq(Timer) /\ lastTimerId \in Nat /\ clock \in Nat
      /\ TimerList(timers, lastTimerId) /\ Types
  BY DEF IInv, Types
<1>3. Top \in Frames /\ TimerPass(Top, timers, lastTimerId, clock)
  BY <1>1, TopPass
<1>4. ComeWith(stack', Nobody)
  <2>1. "call" \in Steps
    BY DEF Steps
  <2> QED
    BY <1>1, <1>2, <2>1, GoIs, FrontIs
<1>5. /\ timers' \in Seq(Timer) /\ TimerList(timers', lastTimerId)
      /\ \A f \in Frames : TimerPass(f, timers, lastTimerId, clock) =>
                             TimerPass(f, timers', lastTimerId, clock)
  <2>1. CASE timers' = timers
    BY <1>2, <2>1
  <2>2. CASE timers # <<>> /\ timers' = Tail(timers)
    <3>1. timers' \in Seq(Timer) /\ Within(timers', timers)
      BY <1>2, <2>2, TailWithin
    <3> QED
      BY <1>2, <3>1, TimersFewer
  <2> QED
    BY <1>1, <2>1, <2>2
<1>6. PassExact'
  <2>1. CASE /\ timers # <<>> /\ Head(timers).time <= Top.time /\ Head(timers).id <= Top.limit
             /\ extra' = extra \cup ({Head(timers).id} \ Top.due) /\ left' = left
    <3>1. Head(timers) = timers[1] /\ 1 \in DOMAIN timers
      BY <1>2, <2>1, TailWithin, TimersAre
    <3>2. Head(timers).id \in Top.due
      BY <1>1, <1>3, <2>1, <3>1 DEF TimerPass
    <3> QED
      BY <2>1, <3>2 DEF IInv, PassExact
  <2>2. CASE /\ ~(timers # <<>> /\ Head(timers).time <= Top.time /\ Head(timers).id <= Top.limit)
             /\ left' = left \cup (Top.due \cap Ids(timers)) /\ extra' = extra
    <3>1. ~Past => Top.due \cap Ids(timers) = {}
      BY <1>1, <1>2, <1>3, <2>2, NoTimerLeft
    <3> QED
      BY <2>2, <3>1 DEF IInv, PassExact
  <2> QED
    BY <1>1, <2>1, <2>2
<1>7. /\ clock' = clock /\ lastTimerId' = lastTimerId /\ timerPending' = timerPending
      /\ events' = events /\ idleList' = idleList /\ lastIdleId' = lastIdleId
      /\ idleGeneration' = idleGeneration
  BY <1>1 DEF idleVars
<1>8. stack' \in Seq(Frames) /\ Passes'
  BY <1>4, <1>5, <1>7, NobodyPasses, PassesAfter
<1>9. Types'
  BY <1>5, <1>7, <1>8 DEF IInv, Types
<1>10. OneTimer' /\ IdleQueue(idleList, lastIdleId, idleGeneration)'
  BY <1>7 DEF IInv, OneTimer, IdleQueue
<1>11. TimerList(timers, lastTimerId)'
  BY <1>5, <1>7 DEF TimerList
<1> QED
  BY <1>6, <1>8, <1>9, <1>10, <1>11 DEF IInv

LEMMA CallIdleStep == ASSUME IInv, CallIdle PROVE IInv'
<1>1. /\ stack # <<>> /\ Top.proc = "idle"
      /\ UNCHANGED <<clock, timerVars, lastIdleId, idleGeneration>>
      /\ \/ /\ idleList # <<>> /\ Head(idleList).gen <= Top.limit
            /\ idleList' = Tail(idleList) /\ stack' = Go("call")
            /\ extra' = extra \cup ({-Head(idleList).id} \ {-i : i \in Top.due}) /\ left' = left
         \/ /\ ~(idleList # <<>> /\ Head(idleList).gen <= Top.limit)
            /\ stack' = Front(stack)
            /\ left' = left \cup {-i : i \in Top.due \cap Ids(idleList)}
            /\ idleList' = idleList /\ extra' = extra
  BY DEF CallIdle, At
<1>2. /\ idleList \in Seq(Idle) /\ lastIdleId \in Nat /\ idleGeneration \in Nat
      /\ IdleQueue(idleList, lastIdleId, idleGeneration) /\ Types
  BY DEF IInv, Types
<1>3. Top \in Frames /\ IdlePass(Top, idleList, lastIdleId, idleGeneration)
  BY <1>1, TopPass
<1>4. ComeWith(stack', Nobody)
  <2>1. "call" \in Steps
    BY DEF Steps
  <2> QED
    BY <1>1, <1>2, <2>1, GoIs, FrontIs
<1>5. /\ idleList' \in Seq(Idle) /\ IdleQueue(idleList', lastIdleId, idleGeneration)
      /\ \A f \in Frames : IdlePass(f, idleList, lastIdleId, idleGeneration) =>
                             IdlePass(f, idleList', lastIdleId, idleGeneration)
  <2>1. CASE idleList' = idleList
    BY <1>2, <2>1
  <2>2. CASE idleList # <<>> /\ idleList' = Tail(idleList)
    <3>1. idleList' \in Seq(Idle) /\ Within(idleList', idleList)
      BY <1>2, <2>2, TailWithin
    <3> QED
      BY <1>2, <3>1, IdlesFewer
  <2> QED
    BY <1>1, <2>1, <2>2
<1>6. PassExact'
  <2>1. CASE /\ idleList # <<>> /\ Head(idleList).gen <= Top.limit
             /\ extra' = extra \cup ({-Head(idleList).id} \ {-i : i \in Top.due}) /\ left' = left
    <3>1. Head(idleList) = idleList[1] /\ 1 \in DOMAIN idleList
      BY <1>2, <2>1, TailWithin, IdlesAre
    <3>2. Head(idleList).id \in Top.due
      BY <1>1, <1>3, <2>1, <3>1 DEF IdlePass
    <3>3. -Head(idleList).id \in {-i : i \in Top.due}
      BY <3>2
    <3> QED
      BY <2>1, <3>3 DEF IInv, PassExact
  <2>2. CASE /\ ~(idleList # <<>> /\ Head(idleList).gen <= Top.limit)
             /\ left' = left \cup {-i : i \in Top.due \cap Ids(idleList)} /\ extra' = extra
    <3>1. Top.due \cap Ids(idleList) = {}
      BY <1>1, <1>2, <1>3, <2>2, NoIdleLeft
    <3>2. {-i : i \in Top.due \cap Ids(idleList)} = {}
      BY <3>1
    <3> QED
      BY <2>2, <3>2 DEF IInv, PassExact
  <2> QED
    BY <1>1, <2>1, <2>2
<1>7. /\ clock' = clock /\ timers' = timers /\ lastTimerId' = lastTimerId
      /\ timerPending' = timerPending /\ events' = events /\ lastIdleId' = lastIdleId
      /\ idleGeneration' = idleGeneration
  BY <1>1 DEF timerVars
<1>8. stack' \in Seq(Frames) /\ Passes'
  BY <1>4, <1>5, <1>7, NobodyPasses, PassesAfter
<1>9. Types'
  BY <1>5, <1>7, <1>8 DEF IInv, Types
<1>10. OneTimer' /\ TimerList(timers, lastTimerId)'
  BY <1>7 DEF IInv, OneTimer, TimerList
<1>11. IdleQueue(idleList, lastIdleId, idleGeneration)'
  BY <1>5, <1>7 DEF IdleQueue
<1> QED
  BY <1>6, <1>8, <1>9, <1>10, <1>11 DEF IInv

-------------------------------------------------------------------------------
(* The theorems.                                                            *)

LEMMA Initially == ASSUME Init PROVE IInv
<1>1. /\ clock = 0 /\ timers = <<>> /\ lastTimerId = 0 /\ timerPending = FALSE /\ events = <<>>
      /\ idleList = <<>> /\ lastIdleId = 0 /\ idleGeneration = 0 /\ stack = <<>>
      /\ left = {} /\ extra = {}
  BY DEF Init
<1>2. /\ <<>> \in Seq(Timer) /\ <<>> \in Seq(Idle) /\ <<>> \in Seq(Frames)
      /\ <<>> \in Seq({"timer", "other"}) /\ DOMAIN <<>> = {}
  OBVIOUS
<1>3. Types
  BY <1>1, <1>2 DEF Types
<1>4. OneTimer /\ TimerList(timers, lastTimerId) /\ IdleQueue(idleList, lastIdleId, idleGeneration)
  BY <1>1, <1>2 DEF OneTimer, TimerList, IdleQueue
<1>5. Passes /\ PassExact
  BY <1>1, <1>2 DEF Passes, PassExact
<1> QED
  BY <1>3, <1>4, <1>5 DEF IInv

LEMMA Stuttering == ASSUME IInv, UNCHANGED vars PROVE IInv'
  BY DEF vars, timerVars, idleVars, IInv, Types, OneTimer, TimerList, IdleQueue, Passes,
         TimerPass, IdlePass, PassExact

LEMMA LoopSteps == ASSUME IInv, Loop PROVE IInv'
<1>1. "wait" \in Steps /\ "idle" \in Steps
  BY DEF Steps
<1> QED
  BY <1>1, TimerEventStep, OtherEventStep, NothingStep, ServiceAllStep, WaitStep,
     ServiceIdleStep, NothingIdleStep, DoneStep, CallTimerStep, CallIdleStep DEF Loop

LEMMA NextStep == ASSUME IInv, Next PROVE IInv'
<1>1. /\ "queue" \in Steps /\ "idle" \in Steps /\ "check" \in Steps
      /\ [timer |-> FALSE, wait |-> FALSE] \in Flags /\ Poll \in Flags
  BY DEF Steps, Flags, Poll
<1>2. ASSUME NEW flags \in Flags, Tcl_DoOneEvent(flags) PROVE IInv'
  BY <1>1, <1>2, CallStep DEF Tcl_DoOneEvent
<1>3. ASSUME UpdateIdletasks PROVE IInv'
  BY <1>1, <1>3, CallStep DEF UpdateIdletasks
<1>4. ASSUME Tcl_ServiceAll PROVE IInv'
  BY <1>1, <1>4, CallStep DEF Tcl_ServiceAll
<1> QED
  BY <1>2, <1>3, <1>4, CreateStep, DeleteStep, WhenIdleStep, CancelStep, ReturnStep, LoopSteps,
     TickStep, OtherStep DEF Next

\* The invariant is inductive: whatever handlers do and however loops are nested.
THEOREM Inductive == Spec => []IInv
<1>1. Init => IInv
  BY Initially
<1>2. IInv /\ [Next]_vars => IInv'
  BY NextStep, Stuttering
<1> QED
  BY <1>1, <1>2, PTL DEF Spec

\* timerPending and the queue agree, and there is one timer event at most.
THEOREM OnePending == Spec => []PendingExact
<1>1. IInv => PendingExact
  <2> SUFFICES ASSUME IInv PROVE PendingExact
    OBVIOUS
  <2> DEFINE T == {i \in DOMAIN events : events[i] = "timer"}
  <2>1. timerPending \in BOOLEAN
    BY DEF IInv, Types
  <2>2. CASE timerPending
    <3>1. PICK i \in DOMAIN events : events[i] = "timer"
      BY <2>2 DEF IInv, OneTimer
    <3>2. T = {i}
      BY <3>1 DEF IInv, OneTimer
    <3>3. Cardinality(T) = 1
      BY <3>2, FS_Singleton
    <3> QED
      BY <2>2, <3>3 DEF PendingExact
  <2>3. CASE ~timerPending
    <3>1. T = {}
      BY <2>3 DEF IInv, OneTimer
    <3>2. Cardinality(T) = 0
      BY <3>1, FS_EmptySet
    <3> QED
      BY <2>3, <3>2 DEF PendingExact
  <2> QED
    BY <2>2, <2>3
<1> QED
  BY <1>1, Inductive, PTL

\* A pass calls nothing that was not due when it began, and leaves nothing that was
\* due, if timers are set for the future.
THEOREM PassesExact == Spec => []PassExact
<1>1. IInv => PassExact
  BY DEF IInv
<1> QED
  BY <1>1, Inductive, PTL
===============================================================================
