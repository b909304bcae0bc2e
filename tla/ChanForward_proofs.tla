-------------------------- MODULE ChanForward_proofs --------------------------
(***************************************************************************)
(* Operations on reflected channels of other threads are answered or       *)
(* cancelled, their structures are neither leaked nor freed twice, and     *)
(* careful owners hurt nobody, for any threads, interpreters, channels and *)
(* depth of nested scripts.                                                *)
(***************************************************************************)
EXTENDS ChanForward, SequenceTheorems, TLAPS

Injective(l) == \A i, j \in DOMAIN l : l[i] = l[j] => i = j

\* A thread is in an operation on the channel; nobody has answered it yet.
Busy(c) == call[User[c]] # NULL /\ call[User[c]].chan = c
Res(c) == call[User[c]].res
Unanswered(c) == /\ Busy(c)
                 /\ call[User[c]].at = "send" \/ result[Res(c)].val = "pending"

\* A thread in ForwardOpToOwnerThread holds the mutex or has a result of its own, which
\* is on the list while it waits.  Only it can close its channel.
Calls ==
  \A t \in Threads : call[t] # NULL =>
    /\ User[call[t].chan] = t /\ chan[call[t].chan] = "open"
    /\ call[t].at = "send" => /\ call[t].res = NULL /\ lock = t
                              /\ phase[Owner(call[t].chan)] = "running"
    /\ call[t].at # "send" =>
         /\ call[t].res # NULL /\ result[call[t].res] # NULL
         /\ result[call[t].res].dst = Owner(call[t].chan)
         /\ result[call[t].res].dsti \in {Handler[call[t].chan], NULL}
    /\ call[t].at = "wait" => call[t].res \in list
    /\ call[t].at = "free" => result[call[t].res].val # "pending"
Locked == lock # NULL => call[lock] # NULL /\ call[lock].at = "send"

\* Each result belongs to one call.
Owned ==
  /\ \A r \in Results : result[r] # NULL =>
       /\ \E t \in Threads : call[t] # NULL /\ call[t].res = r
       /\ result[r].val # "pending" => result[r].notified
  /\ \A r \in list : \E t \in Threads :
       call[t] # NULL /\ call[t].at = "wait" /\ call[t].res = r
  /\ \A t, v \in Threads :
       call[t] # NULL /\ call[v] # NULL /\ call[t].res = call[v].res =>
         t = v \/ call[t].res = NULL

\* An event is allocated while it is in a queue: its owner's, once.
Queues ==
  /\ \A e \in Events : event[e] # NULL => Contains(queue[Owner(event[e].chan)], e)
  /\ \A t \in Threads :
       /\ \A e \in Events : Contains(queue[t], e) =>
            event[e] # NULL /\ Owner(event[e].chan) = t
       /\ Injective(queue[t])
       /\ phase[t] = "gone" => queue[t] = <<>>

\* A result nobody has answered and its event name each other.
Pairs ==
  /\ \A r \in Results : result[r] # NULL /\ result[r].val = "pending" =>
       /\ phase[result[r].dst] = "running" /\ result[r].ev # NULL
       /\ event[result[r].ev] # NULL /\ event[result[r].ev].res = r
       /\ Owner(event[result[r].ev].chan) = result[r].dst
  /\ \A e \in Events : event[e] # NULL /\ event[e].res # NULL =>
       LET r == event[e].res IN
       /\ result[r] # NULL /\ result[r].val = "pending" /\ result[r].ev = e
       /\ Busy(event[e].chan) /\ Res(event[e].chan) = r
       /\ call[User[event[e].chan]].op = event[e].op

\* An activation of ForwardProc works on an event of its thread, and has the event's
\* result unless it was cancelled; the result is still there unless it is stale.
Works(t, f) ==
  /\ event[f.ev] # NULL /\ Owner(event[f.ev].chan) = t
  /\ event[f.ev].res # NULL => event[f.ev].res = f.res /\ ~f.stale
  /\ ~f.stale => /\ Busy(event[f.ev].chan) /\ Res(event[f.ev].chan) = f.res
                 /\ call[User[event[f.ev].chan]].op = event[f.ev].op
                 /\ event[f.ev].res = NULL => result[f.res].val # "pending"
Activations ==
  \A t \in Threads :
    /\ phase[t] # "running" => stack[t] = <<>>
    /\ \A k \in DOMAIN stack[t] :
         /\ Works(t, stack[t][k])
         /\ \A l \in DOMAIN stack[t] : stack[t][l].ev = stack[t][k].ev => k = l

\* A channel that is alive is on the books of its interpreter and its owner, until
\* the answer to a close is on its way.
Closing(c) == /\ Busy(c) /\ call[User[c]].op = "close" /\ ~Unanswered(c)
Mapped ==
  /\ \A c \in Chans :
       /\ interp[c] \in {Handler[c], NULL}
       /\ chan[c] = "open" /\ interp[c] # NULL =>
            Closing(c) \/ (c \in threadMap[Owner(c)] /\ c \in interpMap[Handler[c]])
  /\ \A t \in Threads : /\ \A c \in threadMap[t] : Owner(c) = t
                        /\ phase[t] # "running" => threadMap[t] = {}
  /\ \A i \in Interps : /\ \A c \in interpMap[i] : Handler[c] = i
                        /\ life[i] \in {"cancelling", "gone"} => interpMap[i] = {}

\* With careful owners nothing is cancelled but by an exit, and interpreters end when
\* they have nothing to do with channels any more.
Prudent ==
  /\ \A t \in Threads : \A k \in DOMAIN stack[t] :
       ~stack[t][k].stale /\ event[stack[t][k].ev].res # NULL
  /\ \A c \in Chans :
       /\ interp[c] = NULL => phase[Owner(c)] # "running"
       /\ life[Handler[c]] # "live" =>
            /\ interpMap[Handler[c]] = {}
            /\ chan[c] = "open" => Closing(c) /\ call[User[c]].at = "free"

\* An answer of "ok" comes from a handler that has run to its end.
Answered ==
  /\ \A t \in Threads : \A k \in DOMAIN stack[t] :
       /\ k # Len(stack[t]) => stack[t][k].at = "method"
       /\ stack[t][k].ok => stack[t][k].at = "reply"
       /\ stack[t][k].ok /\ ~stack[t][k].stale => ran[event[stack[t][k].ev].chan]
  /\ \A c \in Chans : /\ answer[c] = "ok" => ran[c] \/ Unanswered(c)
                      /\ Unanswered(c) => answer[c] # "lost"

\* What an exit cancels has not been run.
Replying(c) == \E k \in DOMAIN stack[Owner(c)] :
                 stack[Owner(c)][k].at = "reply" /\ event[stack[Owner(c)][k].ev].chan = c
Frank == \A c \in Chans : /\ ran[c] /\ Unanswered(c) => Replying(c)
                          /\ answer[c] = "lost" => ~ran[c]

Sane == /\ Calls /\ Locked /\ Owned /\ Queues /\ Pairs /\ Activations /\ Mapped /\ Answered
        /\ careful => Prudent /\ Frank
IInv == TypeOK /\ CarefulIsSafe /\ (Sound => Sane)

-------------------------------------------------------------------------------
(* Sequences.                                                               *)

Removed(l, t) == RemoveAt(l, CHOOSE i \in DOMAIN l : l[i] = t)

\* Taking an element off a list leaves the others.
LEMMA RemovedFacts ==
  ASSUME NEW S, NEW l \in Seq(S), Injective(l), NEW t, Contains(l, t)
  PROVE  /\ Removed(l, t) \in Seq(S) /\ Injective(Removed(l, t))
         /\ \A v : Contains(Removed(l, t), v) <=> Contains(l, v) /\ v # t
<1> DEFINE k == CHOOSE i \in DOMAIN l : l[i] = t
           n == Len(l)
           w == SubSeq(l, 1, k - 1) \o SubSeq(l, k + 1, n)
<1>1. n \in Nat /\ DOMAIN l = 1..n /\ \A i \in 1..n : l[i] \in S
  BY LenProperties, ElementOfSeq
<1>2. k \in 1..n /\ l[k] = t
  BY <1>1 DEF Contains
<1>3. Removed(l, t) = w
  BY DEF Removed, RemoveAt
<1> HIDE DEF k
<1> DEFINE a == SubSeq(l, 1, k - 1)
           b == SubSeq(l, k + 1, n)
<1>4. a \in Seq(S) /\ Len(a) = k - 1 /\ \A i \in 1..(k - 1) : a[i] = l[1 + i - 1]
  BY <1>1, <1>2, SubSeqProperties
<1>5. b \in Seq(S) /\ Len(b) = n - k /\ \A i \in 1..(n - k) : b[i] = l[k + 1 + i - 1]
  <2>1. k + 1 \in Int /\ n \in Int /\ \A i \in (k + 1)..n : l[i] \in S
    BY <1>1, <1>2
  <2>2. /\ b \in Seq(S) /\ Len(b) = IF k + 1 <= n THEN n - (k + 1) + 1 ELSE 0
        /\ \A i \in 1..(n - (k + 1) + 1) : b[i] = l[k + 1 + i - 1]
    BY <2>1, SubSeqProperties
  <2>3. n \in Nat /\ k \in Int /\ 1 <= k /\ k <= n
    BY <1>1, <1>2
  <2> HIDE DEF n
  <2>4. n - (k + 1) + 1 = n - k
    BY <2>3
  <2>5. ~(k + 1 <= n) => n - k = 0
    BY <2>3
  <2> QED
    BY <2>2, <2>3, <2>4, <2>5
<1> HIDE DEF a, b
<1>6. /\ a \o b \in Seq(S) /\ Len(a \o b) = Len(a) + Len(b)
      /\ \A i \in 1..(Len(a) + Len(b)) :
           (a \o b)[i] = IF i <= Len(a) THEN a[i] ELSE b[i - Len(a)]
  BY <1>4, <1>5, ConcatProperties
<1> DEFINE c == a \o b
<1>7. w = c
  BY DEF a, b
<1> HIDE DEF c, w
<1>8. c \in Seq(S) /\ Len(c) = n - 1 /\ DOMAIN c = 1..(n - 1)
  <2>1. c \in Seq(S) /\ Len(c) = n - 1
    BY <1>1, <1>2, <1>4, <1>5, <1>6 DEF c
  <2> QED
    BY <2>1, LenProperties
<1>9. \A i \in 1..(n - 1) : c[i] = IF i < k THEN l[i] ELSE l[i + 1]
  <2> SUFFICES ASSUME NEW i \in 1..(n - 1)
               PROVE  c[i] = IF i < k THEN l[i] ELSE l[i + 1]
    OBVIOUS
  <2>1. c[i] = IF i <= k - 1 THEN a[i] ELSE b[i - (k - 1)]
    BY <1>1, <1>2, <1>4, <1>5, <1>6 DEF c
  <2>2. CASE i < k
    BY <1>1, <1>2, <1>4, <2>1, <2>2
  <2>3. CASE ~(i < k)
    <3>1. i - (k - 1) \in 1..(n - k) /\ k + 1 + (i - (k - 1)) - 1 = i + 1 /\ ~(i <= k - 1)
      BY <1>1, <1>2, <2>3
    <3> QED
      BY <1>5, <2>1, <2>3, <3>1
  <2> QED
    BY <2>2, <2>3
<1>10. Injective(c)
  <2> SUFFICES ASSUME NEW i \in 1..(n - 1), NEW j \in 1..(n - 1), c[i] = c[j] PROVE i = j
    BY <1>8 DEF Injective
  <2> DEFINE o(m) == IF m < k THEN m ELSE m + 1
  <2>1. o(i) \in 1..n /\ o(j) \in 1..n /\ (o(i) = o(j) => i = j)
    BY <1>1, <1>2
  <2>2. c[i] = l[o(i)] /\ c[j] = l[o(j)]
    BY <1>9
  <2> HIDE DEF o
  <2> QED
    BY <1>1, <2>1, <2>2 DEF Injective
<1>11. ASSUME NEW v PROVE Contains(c, v) <=> Contains(l, v) /\ v # t
  <2>1. ASSUME Contains(c, v) PROVE Contains(l, v) /\ v # t
    <3>1. PICK i \in 1..(n - 1) : c[i] = v
      BY <1>8, <2>1 DEF Contains
    <3>2. PICK j \in 1..n : l[j] = v /\ j # k
      <4>1. CASE i < k
        BY <1>1, <1>2, <1>9, <3>1, <4>1
      <4>2. CASE ~(i < k)
        BY <1>1, <1>2, <1>9, <3>1, <4>2
      <4> QED
        BY <4>1, <4>2
    <3> QED
      BY <1>1, <1>2, <3>2 DEF Contains, Injective
  <2>2. ASSUME Contains(l, v), v # t PROVE Contains(c, v)
    <3>1. PICK j \in 1..n : l[j] = v
      BY <2>2 DEF Contains
    <3>2. j # k
      BY <1>2, <2>2, <3>1
    <3>3. PICK i \in 1..(n - 1) : c[i] = l[j]
      <4>1. CASE j < k
        <5>1. j \in 1..(n - 1) /\ c[j] = l[j]
          BY <1>1, <1>2, <1>9, <3>1, <4>1
        <5> QED
          BY <5>1
      <4>2. CASE ~(j < k)
        <5>1. j - 1 \in 1..(n - 1) /\ ~(j - 1 < k) /\ j - 1 + 1 = j
          BY <1>1, <1>2, <3>1, <3>2, <4>2
        <5>2. c[j - 1] = l[j]
          BY <1>9, <5>1
        <5> QED
          BY <5>1, <5>2
      <4> QED
        BY <4>1, <4>2
    <3> QED
      BY <1>8, <3>1, <3>3 DEF Contains
  <2> QED
    BY <2>1, <2>2
<1> QED
  BY <1>3, <1>7, <1>8, <1>10, <1>11

\* What Front returns.
LEMMA FrontFacts ==
  ASSUME NEW S, NEW s \in Seq(S), s # <<>>
  PROVE  /\ Front(s) \in Seq(S) /\ Len(Front(s)) = Len(s) - 1 /\ Len(s) \in Nat \ {0}
         /\ DOMAIN Front(s) = 1..(Len(s) - 1) /\ DOMAIN s = 1..Len(s)
         /\ \A i \in DOMAIN Front(s) : i \in DOMAIN s /\ Front(s)[i] = s[i]
         /\ Last(s) = s[Len(s)] /\ Last(s) \in S
<1> DEFINE f == SubSeq(s, 1, Len(s) - 1)
<1>1. Len(s) \in Nat \ {0} /\ DOMAIN s = 1..Len(s)
  BY EmptySeq, LenProperties
<1>2. s[Len(s)] \in S /\ \A i \in 1..(Len(s) - 1) : s[i] \in S
  BY <1>1, ElementOfSeq
<1>3. f \in Seq(S) /\ Len(f) = Len(s) - 1
      /\ \A i \in 1..(Len(s) - 1) : f[i] = s[1 + i - 1]
  BY <1>1, <1>2, SubSeqProperties
<1>4. DOMAIN f = 1..(Len(s) - 1)
  BY <1>3, LenProperties
<1>5. Front(s) = f /\ Last(s) = s[Len(s)]
  BY DEF Front, Last
<1> HIDE DEF f
<1>6. \A i \in 1..(Len(s) - 1) : f[i] = s[i] /\ i \in 1..Len(s)
  BY <1>1, <1>3
<1> QED
  BY <1>1, <1>2, <1>3, <1>4, <1>5, <1>6

\* What Append returns.
LEMMA AppendFacts ==
  ASSUME NEW S, NEW s \in Seq(S), NEW e \in S
  PROVE  /\ Append(s, e) \in Seq(S) /\ Len(s) \in Nat /\ Len(Append(s, e)) = Len(s) + 1
         /\ DOMAIN Append(s, e) = 1..(Len(s) + 1) /\ DOMAIN s = 1..Len(s)
         /\ \A i \in DOMAIN s : Append(s, e)[i] = s[i]
         /\ Append(s, e)[Len(s) + 1] = e
<1>1. Append(s, e) \in Seq(S) /\ Len(Append(s, e)) = Len(s) + 1
      /\ Append(s, e)[Len(s) + 1] = e /\ \A i \in 1..Len(s) : Append(s, e)[i] = s[i]
  BY AppendProperties
<1>2. Len(s) \in Nat /\ DOMAIN s = 1..Len(s)
      /\ DOMAIN Append(s, e) = 1..Len(Append(s, e))
  BY <1>1, LenProperties
<1> QED
  BY <1>1, <1>2

\* Appending an element to a list that does not have it.
LEMMA AddedFacts ==
  ASSUME NEW S, NEW l \in Seq(S), Injective(l), NEW t \in S, ~Contains(l, t)
  PROVE  /\ Append(l, t) \in Seq(S) /\ Injective(Append(l, t))
         /\ \A v : Contains(Append(l, t), v) <=> Contains(l, v) \/ v = t
<1> DEFINE a == Append(l, t)
           n == Len(l)
<1>1. /\ a \in Seq(S) /\ n \in Nat /\ Len(a) = n + 1 /\ DOMAIN a = 1..(n + 1)
      /\ DOMAIN l = 1..n /\ a[n + 1] = t /\ \A i \in 1..n : a[i] = l[i]
  BY AppendFacts
<1>2. \A i \in 1..n : l[i] # t
  BY DEF Contains
<1> HIDE DEF a, n
<1>3. Injective(a)
  <2> SUFFICES ASSUME NEW i \in 1..(n + 1), NEW j \in 1..(n + 1), a[i] = a[j] PROVE i = j
    BY <1>1 DEF Injective
  <2>1. CASE i = n + 1 \/ j = n + 1
    BY <1>1, <1>2, <2>1
  <2>2. CASE i # n + 1 /\ j # n + 1
    <3>1. i \in 1..n /\ j \in 1..n
      BY <1>1, <2>2
    <3>2. l[i] = l[j]
      BY <1>1, <3>1
    <3> QED
      BY <1>1, <3>1, <3>2 DEF Injective
  <2> QED
    BY <2>1, <2>2
<1>4. ASSUME NEW v PROVE Contains(a, v) <=> Contains(l, v) \/ v = t
  <2>1. Contains(a, v) <=> \E i \in 1..(n + 1) : a[i] = v
    BY <1>1 DEF Contains
  <2>2. Contains(l, v) <=> \E i \in 1..n : l[i] = v
    BY DEF Contains, n
  <2>3. n + 1 \in 1..(n + 1) /\ \A i \in 1..(n + 1) : i = n + 1 \/ i \in 1..n
    BY <1>1
  <2>4. \A i \in 1..n : i \in 1..(n + 1)
    BY <1>1
  <2> QED
    BY <1>1, <2>1, <2>2, <2>3, <2>4
<1> QED
  BY <1>1, <1>3, <1>4 DEF a

\* What is on an empty list.
LEMMA EmptyFacts ==
  /\ \A S : <<>> \in Seq(S)
  /\ Injective(<<>>) /\ \A v : ~Contains(<<>>, v)
<1>1. Len(<<>>) = 0 /\ DOMAIN <<>> = {}
  OBVIOUS
<1>2. \A S : <<>> \in Seq(S)
  OBVIOUS
<1>3. 1..0 = {}
  OBVIOUS
<1> QED
  BY <1>1, <1>2, <1>3 DEF Injective, Contains

-------------------------------------------------------------------------------
(* Types.                                                                   *)

\* The parts of the structures.
LEMMA Types ==
  ASSUME TypeOK
  PROVE  /\ \A t \in Threads : call[t] # NULL =>
              /\ call[t].chan \in Chans /\ call[t].op \in Ops
              /\ call[t].res \in Results \cup {NULL}
              /\ call[t].at \in {"send", "wait", "free"}
         /\ \A e \in Events : event[e] # NULL =>
              /\ event[e].chan \in Chans /\ event[e].op \in Ops
              /\ event[e].res \in Results \cup {NULL}
         /\ \A r \in Results : result[r] # NULL =>
              /\ result[r].dst \in Threads /\ result[r].dsti \in Interps \cup {NULL}
              /\ result[r].val \in {"pending", "ok", "error"}
              /\ result[r].ev \in Events \cup {NULL} /\ result[r].notified \in BOOLEAN
         /\ \A t \in Threads :
              /\ queue[t] \in Seq(Events) /\ stack[t] \in Seq(Frame)
              /\ \A k \in DOMAIN stack[t] :
                   /\ stack[t][k].ev \in Events /\ stack[t][k].res \in Results
                   /\ stack[t][k].ok \in BOOLEAN /\ stack[t][k].stale \in BOOLEAN
                   /\ stack[t][k].at \in {"method", "reply"}
<1>1. \A t \in Threads : call[t] # NULL => call[t] \in Call
  BY DEF TypeOK
<1>2. \A e \in Events : event[e] # NULL => event[e] \in EventRec
  BY DEF TypeOK
<1>3. \A r \in Results : result[r] # NULL => result[r] \in ResultRec
  BY DEF TypeOK
<1>4. \A t \in Threads : queue[t] \in Seq(Events) /\ stack[t] \in Seq(Frame)
  BY DEF TypeOK
<1>5. \A t \in Threads : \A k \in DOMAIN stack[t] : stack[t][k] \in Frame
  BY <1>4, ElementOfSeq, LenProperties
<1> QED
  BY <1>1, <1>2, <1>3, <1>4, <1>5 DEF Call, EventRec, ResultRec, Frame

\* NULL is the address of no structure, and no structure.
LEMMA NotNull ==
  /\ NULL \notin Threads /\ NULL \notin Interps /\ NULL \notin Chans
  /\ NULL \notin Events /\ NULL \notin Results
  /\ NULL \notin EventRec /\ NULL \notin ResultRec /\ NULL \notin Call
  /\ \A c \in Chans : /\ Owner(c) \in Threads /\ Handler[c] \in Interps
                      /\ User[c] \in Threads /\ Handler[c] # NULL /\ User[c] # Owner(c)
BY ForwardAssumption DEF Owner

-------------------------------------------------------------------------------
(* What keeps a part as it is.                                              *)

\* The state of a call is in the calls and the results.
LEMMA StatesSame ==
  ASSUME UNCHANGED <<call, result>>
  PROVE  \A c \in Chans : /\ Busy(c)' <=> Busy(c)
                          /\ Res(c)' = Res(c)
                          /\ Unanswered(c)' <=> Unanswered(c)
                          /\ Closing(c)' <=> Closing(c)
BY DEF Busy, Res, Unanswered, Closing

LEMMA WorksSame ==
  ASSUME UNCHANGED <<call, result, event>>, NEW t, NEW f
  PROVE  Works(t, f)' <=> Works(t, f)
BY DEF Works, Busy, Res

LEMMA ActivationsSame ==
  ASSUME UNCHANGED <<call, result, event, stack, phase>>, Activations
  PROVE  Activations'
<1>1. \A t, f : Works(t, f)' <=> Works(t, f)
  BY WorksSame
<1> HIDE DEF Works
<1> QED
  BY <1>1 DEF Activations

LEMMA PairsSame ==
  ASSUME UNCHANGED <<call, result, event, phase>>, Pairs
  PROVE  Pairs'
BY DEF Pairs, Busy, Res

LEMMA QueuesSame ==
  ASSUME UNCHANGED <<event, queue, phase>>, Queues
  PROVE  Queues'
BY DEF Queues

LEMMA OwnedSame ==
  ASSUME UNCHANGED <<call, result, list>>, Owned
  PROVE  Owned'
BY DEF Owned

LEMMA LockedSame ==
  ASSUME UNCHANGED <<call, lock>>, Locked
  PROVE  Locked'
BY DEF Locked

LEMMA CallsSame ==
  ASSUME UNCHANGED <<call, chan, lock, phase, result, list>>, Calls
  PROVE  Calls'
BY DEF Calls

LEMMA MappedSame ==
  ASSUME UNCHANGED <<call, result, chan, interp, threadMap, interpMap, phase, life>>,
         Mapped
  PROVE  Mapped'
<1>1. \A c \in Chans : Closing(c)' <=> Closing(c)
  BY StatesSame
<1> QED
  BY <1>1 DEF Mapped

LEMMA PrudentSame ==
  ASSUME UNCHANGED <<stack, event, interp, phase, life, interpMap, chan, call, result>>,
         Prudent
  PROVE  Prudent'
<1>1. \A c \in Chans : Closing(c)' <=> Closing(c)
  BY StatesSame
<1> QED
  BY <1>1 DEF Prudent

LEMMA FrankSame ==
  ASSUME UNCHANGED <<stack, event, call, result, ran, answer>>, Frank
  PROVE  Frank'
BY DEF Frank, Replying, Unanswered, Busy, Res

LEMMA AnsweredSame ==
  ASSUME UNCHANGED <<stack, event, call, result, ran, answer>>, Answered
  PROVE  Answered'
<1>1. \A c \in Chans : Unanswered(c)' <=> Unanswered(c)
  BY StatesSame
<1> QED
  BY <1>1 DEF Answered

LEMMA ReplyingSame ==
  ASSUME UNCHANGED <<stack, event>>
  PROVE  \A c \in Chans : Replying(c)' <=> Replying(c)
BY DEF Replying

-------------------------------------------------------------------------------
(* The user's steps.                                                        *)

\* RefuseDead: only the user is told; nobody else learns of it.
LEMMA RefuseDeadStep ==
  ASSUME IInv, Sound, NEW t \in Threads, NEW c \in Chans, NEW op \in {"use", "close"},
         RefuseDead(t, c, op)
  PROVE  TypeOK' /\ CarefulIsSafe' /\ Sane'
<1> USE NotNull
<1>1. /\ User[c] = t /\ chan[c] = "open" /\ lock = NULL /\ call[t] = NULL /\ interp[c] = NULL
      /\ answer' = [answer EXCEPT ![c] = "lost"]
      /\ chan' = IF op = "close" THEN [chan EXCEPT ![c] = "closed"] ELSE chan
      /\ ops' = [ops EXCEPT ![c] = IF @ = 0 THEN 0 ELSE @ - 1]
      /\ ran' = [ran EXCEPT ![c] = FALSE]
      /\ UNCHANGED <<interp, interpMap, threadMap, life, phase, event, result, list,
                     queue, stack, call, lock, careful, fault>>
  BY DEF RefuseDead, Driver, InScript
<1>2. TypeOK
  BY DEF IInv
<1>3. TypeOK'
  BY <1>1, <1>2 DEF TypeOK, Answers
<1>4. Calls'
  BY <1>1, <1>2, Types, SMTT(40) DEF IInv, Sane, Calls, TypeOK
<1>5. Locked' /\ Owned' /\ Queues' /\ Pairs' /\ Activations'
  BY <1>1, LockedSame, OwnedSame, QueuesSame, PairsSame, ActivationsSame DEF IInv, Sane
<1>6. Mapped'
  BY <1>1, <1>2 DEF IInv, Sane, Mapped, Closing, Unanswered, Busy, Res, TypeOK
<1>7. Answered'
  <2>1. \A d \in Chans : Unanswered(d)' <=> Unanswered(d)
    BY <1>1 DEF Unanswered, Busy, Res
  <2>2. ~Busy(c) /\ Answered
    BY <1>1 DEF Busy, IInv, Sane
  <2>3. \A v \in Threads : \A k \in DOMAIN stack[v] :
          stack[v][k].ok /\ ~stack[v][k].stale => ran'[event[stack[v][k].ev].chan]
    <3> SUFFICES ASSUME NEW v \in Threads, NEW k \in DOMAIN stack[v], stack[v][k].ok,
                        ~stack[v][k].stale
                 PROVE  ran'[event[stack[v][k].ev].chan]
      OBVIOUS
    <3> DEFINE d == event[stack[v][k].ev].chan
    <3>1. Busy(d) /\ ran[d] /\ d \in Chans
      BY <1>2, Types DEF IInv, Sane, Answered, Activations, Works
    <3>2. d # c
      BY <2>2, <3>1
    <3> QED
      BY <1>1, <1>2, <3>1, <3>2 DEF TypeOK
  <2>4. \A d \in Chans : /\ answer'[d] = "ok" => ran'[d] \/ Unanswered(d)'
                         /\ Unanswered(d)' => answer'[d] # "lost"
    BY <1>1, <1>2, <2>1, <2>2 DEF Answered, Unanswered, TypeOK
  <2> QED
    BY <1>1, <2>2, <2>3, <2>4 DEF Answered
<1>8. careful => Prudent'
  <2>1. \A d \in Chans : chan'[d] = "open" => chan[d] = "open"
    BY <1>1, <1>2 DEF TypeOK
  <2>2. \A d \in Chans : Closing(d)' <=> Closing(d)
    BY <1>1, StatesSame
  <2> QED
    BY <1>1, <2>1, <2>2 DEF IInv, Sane, Prudent
<1>9. careful => Frank'
  BY <1>1, <1>2 DEF IInv, Sane, Frank, Replying, Unanswered, Busy, Res, TypeOK
<1> QED
  BY <1>1, <1>3, <1>4, <1>5, <1>6, <1>7, <1>8, <1>9 DEF IInv, Sane, CarefulIsSafe

\* CheckAlive: the call that starts holds the mutex, and its owner runs.
LEMMA CheckAliveStep ==
  ASSUME IInv, Sound, NEW t \in Threads, NEW c \in Chans, NEW op \in {"use", "close"},
         CheckAlive(t, c, op)
  PROVE  TypeOK' /\ CarefulIsSafe' /\ Sane'
<1> USE NotNull
<1> DEFINE new == [chan |-> c, op |-> op, res |-> NULL, at |-> "send"]
<1>1. /\ User[c] = t /\ chan[c] = "open" /\ lock = NULL /\ call[t] = NULL /\ interp[c] # NULL
      /\ lock' = t
      /\ call' = [call EXCEPT ![t] = new]
      /\ answer' = [answer EXCEPT ![c] = "none"]
      /\ ops' = [ops EXCEPT ![c] = IF @ = 0 THEN 0 ELSE @ - 1]
      /\ ran' = [ran EXCEPT ![c] = FALSE]
      /\ UNCHANGED <<interp, chan, interpMap, threadMap, life, phase, event, result,
                     list, queue, stack, careful, fault>>
  BY DEF CheckAlive, Driver, InScript
<1>2. TypeOK
  BY DEF IInv
<1>3. new \in Call /\ new # NULL
  BY DEF Call, Ops
<1>4. /\ new.chan = c /\ new.op = op /\ new.res = NULL /\ new.at = "send"
      /\ call'[t] = new /\ \A v \in Threads \ {t} : call'[v] = call[v]
  BY <1>1, <1>2 DEF TypeOK
<1> HIDE DEF new
<1>5. TypeOK'
  BY <1>1, <1>2, <1>3 DEF TypeOK, Answers
<1>6. /\ \A d \in Chans : Busy(d)' <=> Busy(d) \/ d = c
      /\ \A d \in Chans : Busy(d) => /\ d # c /\ call'[User[d]] = call[User[d]]
                                     /\ Res(d)' = Res(d)
                                     /\ Unanswered(d)' <=> Unanswered(d)
      /\ Unanswered(c)'
  BY <1>1, <1>2, <1>3, <1>4 DEF Busy, Res, Unanswered
<1>7. \A d \in Chans : (Unanswered(d)' <=> Unanswered(d) \/ d = c)
                       /\ (Closing(d)' <=> Closing(d))
  BY <1>1, <1>4, <1>6 DEF Closing, Unanswered
<1>8. phase[Owner(c)] = "running"
  BY <1>1 DEF IInv, Sane, Mapped, Closing, Busy
<1>9. Calls'
  BY <1>1, <1>2, <1>3, <1>4, <1>8, Types DEF IInv, Sane, Calls
<1>10. Locked' /\ Owned'
  BY <1>1, <1>2, <1>3, <1>4 DEF IInv, Sane, Locked, Owned
<1>11. Queues'
  BY <1>1, QueuesSame DEF IInv, Sane
<1>12. Pairs'
  BY <1>1, <1>2, <1>6, Types DEF IInv, Sane, Pairs
<1>13. \A v \in Threads : \A k \in DOMAIN stack[v] : Works(v, stack[v][k])'
  <2> SUFFICES ASSUME NEW v \in Threads, NEW k \in DOMAIN stack[v]
               PROVE  Works(v, stack[v][k])'
    OBVIOUS
  <2>1. Works(v, stack[v][k]) /\ event[stack[v][k].ev].chan \in Chans
    <3>1. Works(v, stack[v][k])
      BY DEF IInv, Sane, Activations
    <3>2. stack[v][k].ev \in Events
      BY <1>2, Types
    <3>3. event[stack[v][k].ev] # NULL
      BY <3>1 DEF Works
    <3> QED
      BY <1>2, <3>1, <3>2, <3>3, Types
  <2> QED
    BY <1>1, <1>6, <2>1 DEF Works
<1>14. Activations'
  BY <1>1, <1>13 DEF IInv, Sane, Activations
<1>15. Mapped'
  BY <1>1, <1>7 DEF IInv, Sane, Mapped
<1>16. Answered'
  <2>1. \A v \in Threads : \A k \in DOMAIN stack[v] :
          stack[v][k].ok /\ ~stack[v][k].stale => ran'[event[stack[v][k].ev].chan]
    <3> SUFFICES ASSUME NEW v \in Threads, NEW k \in DOMAIN stack[v], stack[v][k].ok,
                        ~stack[v][k].stale
                 PROVE  ran'[event[stack[v][k].ev].chan]
      OBVIOUS
    <3> DEFINE d == event[stack[v][k].ev].chan
    <3>1. Busy(d) /\ ran[d] /\ d \in Chans
      BY <1>2, Types DEF IInv, Sane, Answered, Activations, Works
    <3> QED
      BY <1>1, <1>2, <1>6, <3>1 DEF TypeOK
  <2>2. \A d \in Chans : /\ answer'[d] = "ok" => ran'[d] \/ Unanswered(d)'
                         /\ Unanswered(d)' => answer'[d] # "lost"
    BY <1>1, <1>2, <1>7 DEF IInv, Sane, Answered, TypeOK
  <2> QED
    BY <1>1, <2>1, <2>2 DEF IInv, Sane, Answered
<1>17. careful => Prudent'
  BY <1>1, <1>6, <1>7 DEF IInv, Sane, Prudent, Closing
<1>18. careful => Frank'
  BY <1>1, <1>2, <1>7, ReplyingSame DEF IInv, Sane, Frank, TypeOK
<1> QED
  BY <1>1, <1>5, <1>9, <1>10, <1>11, <1>12, <1>14, <1>15, <1>16, <1>17, <1>18
  DEF IInv, Sane, CarefulIsSafe

\* Send: the owner cannot have gone while the mutex was held, so the event is queued.
LEMMA SendStep ==
  ASSUME IInv, Sound, NEW t \in Threads, Send(t)
  PROVE  TypeOK' /\ CarefulIsSafe' /\ Sane'
<1> USE NotNull
<1>1. PICK c \in Chans : call[t] # NULL /\ call[t].chan = c
  BY Types DEF IInv, Send
<1> DEFINE o == Owner(c)
<1>2. /\ call[t] # NULL /\ call[t].chan = c /\ call[t].at = "send" /\ call[t].res = NULL
      /\ User[c] = t
      /\ lock = t /\ phase[o] = "running" /\ c \in Chans /\ call[t].op \in Ops
      /\ call[t] \in Call /\ o \in Threads
  BY <1>1, Types DEF IInv, Sane, Calls, Send, TypeOK
<1>3. PICK e \in Idle, r \in Spare :
        /\ event' = [event EXCEPT ![e] = [res |-> r, chan |-> c, op |-> call[t].op]]
        /\ queue' = [queue EXCEPT ![o] = Append(@, e)]
        /\ result' = [result EXCEPT ![r] =
              [dst |-> o, dsti |-> interp[c], val |-> "pending", ev |-> e,
               notified |-> FALSE]]
        /\ list' = list \cup {r}
        /\ call' = [call EXCEPT ![t].res = r, ![t].at = "wait"]
  BY <1>2 DEF Send
<1>4. /\ lock' = NULL
      /\ UNCHANGED <<interp, chan, interpMap, threadMap, life, phase, stack, answer,
                     ops, ran, careful, fault>>
  BY DEF Send
<1>5. TypeOK /\ e \in Events /\ event[e] = NULL /\ r \in Results /\ result[r] = NULL
  BY DEF IInv, Idle, Spare
<1>6. o \in Threads /\ o = Owner(c)
  OBVIOUS
<1> HIDE DEF o
<1> DEFINE ne == event'[e]
           nr == result'[r]
           nc == call'[t]
<1>7. /\ ne \in EventRec /\ ne # NULL /\ ne.res = r /\ ne.chan = c /\ ne.op = call[t].op
      /\ \A x \in Events \ {e} : event'[x] = event[x]
  BY <1>2, <1>3, <1>5 DEF EventRec, TypeOK
<1>8. interp[c] \in {Handler[c], NULL}
  BY <1>2 DEF IInv, Sane, Mapped
<1>9. /\ nr \in ResultRec /\ nr # NULL /\ nr.dst = o /\ nr.dsti = interp[c]
      /\ nr.val = "pending" /\ nr.ev = e
      /\ \A x \in Results \ {r} : result'[x] = result[x]
  <2>1. nr = [dst |-> o, dsti |-> interp[c], val |-> "pending", ev |-> e, notified |-> FALSE]
        /\ \A x \in Results \ {r} : result'[x] = result[x]
    BY <1>3, <1>5 DEF TypeOK
  <2>2. nr \in ResultRec
    BY <1>2, <1>5, <1>8, <2>1 DEF ResultRec
  <2> HIDE DEF nr
  <2> QED
    BY <2>1, <2>2
<1>10. /\ nc \in Call /\ nc # NULL /\ nc.chan = c /\ nc.op = call[t].op /\ nc.res = r
      /\ nc.at = "wait" /\ \A v \in Threads \ {t} : call'[v] = call[v]
  <2>1. call[t] \in Call
    BY <1>2, <1>3 DEF TypeOK
  <2>2. nc = [call[t] EXCEPT !.at = "wait", !.res = r] /\ r # NULL /\ r \in Results
        /\ \A v \in Threads \ {t} : call'[v] = call[v]
    BY <1>2, <1>3, <1>5 DEF TypeOK
  <2> HIDE DEF nc
  <2>3. /\ nc.chan = c /\ nc.op = call[t].op /\ nc.res = r /\ nc.at = "wait" /\ nc \in Call
    BY <1>2, <2>1, <2>2 DEF Call
  <2>4. nc # NULL
    BY <2>3, NotNull
  <2> QED
    BY <2>2, <2>3, <2>4
<1> HIDE DEF ne, nr, nc
<1>11. queue[o] \in Seq(Events) /\ Injective(queue[o]) /\ ~Contains(queue[o], e)
  BY <1>2, <1>5, Types DEF IInv, Sane, Queues
<1>12. /\ queue'[o] \in Seq(Events) /\ Injective(queue'[o])
       /\ \A x : Contains(queue'[o], x) <=> Contains(queue[o], x) \/ x = e
       /\ \A v \in Threads \ {o} : queue'[v] = queue[v]
  <2>1. /\ queue'[o] = Append(queue[o], e)
        /\ \A v \in Threads \ {o} : queue'[v] = queue[v]
    BY <1>3, <1>5, <1>6 DEF TypeOK
  <2> QED
    BY <1>5, <1>11, <2>1, AddedFacts
<1>13. TypeOK'
  <2>1. event' \in [Events -> EventRec \cup {NULL}]
    BY <1>3, <1>5, <1>7 DEF TypeOK, ne
  <2>2. result' \in [Results -> ResultRec \cup {NULL}]
    BY <1>3, <1>5, <1>9 DEF TypeOK, nr
  <2>3. call' \in [Threads -> Call \cup {NULL}]
    BY <1>3, <1>5, <1>10 DEF TypeOK, nc
  <2>4. queue' \in [Threads -> Seq(Events)]
    <3>1. queue' = [queue EXCEPT ![o] = queue'[o]]
      BY <1>3, <1>5, <1>6 DEF TypeOK
    <3>2. queue \in [Threads -> Seq(Events)] /\ queue'[o] \in Seq(Events)
      BY <1>5, <1>12 DEF TypeOK
    <3> QED
      BY <3>1, <3>2
  <2>5. list' \subseteq Results /\ lock' \in Threads \cup {NULL}
    BY <1>3, <1>4, <1>5 DEF TypeOK
  <2> QED
    BY <1>4, <1>5, <2>1, <2>2, <2>3, <2>4, <2>5 DEF TypeOK
<1>14. \A v \in Threads \ {t} : call[v] # NULL =>
         call[v].at # "send" /\ call[v].res # r /\ call[v].res # NULL
  BY <1>2, <1>5 DEF IInv, Sane, Calls
<1>15. /\ Busy(c) /\ Busy(c)' /\ Res(c) = NULL /\ Res(c)' = r /\ Unanswered(c)
       /\ Unanswered(c)' /\ ~Closing(c) /\ ~Closing(c)'
  BY <1>2, <1>9, <1>10 DEF Busy, Res, Unanswered, Closing, nc, nr
<1>16. \A d \in Chans \ {c} :
         /\ Busy(d)' <=> Busy(d)
         /\ Busy(d) => User[d] # t /\ Res(d)' = Res(d) /\ Res(d) # r /\ Res(d) # NULL
         /\ Unanswered(d)' <=> Unanswered(d)
         /\ Closing(d)' <=> Closing(d)
  <2> SUFFICES ASSUME NEW d \in Chans \ {c}
               PROVE  /\ Busy(d)' <=> Busy(d)
                      /\ Busy(d) => User[d] # t /\ Res(d)' = Res(d) /\ Res(d) # r /\ Res(d) # NULL
                      /\ Unanswered(d)' <=> Unanswered(d)
                      /\ Closing(d)' <=> Closing(d)
    OBVIOUS
  <2>1. CASE User[d] = t
    BY <1>2, <1>10, <2>1 DEF Busy, Unanswered, Closing, nc
  <2>2. CASE User[d] # t
    <3>1. call'[User[d]] = call[User[d]]
      BY <1>10, <2>2
    <3>2. Busy(d) => Res(d) # r /\ Res(d) # NULL /\ Res(d) \in Results
      BY <1>5, <1>14, <2>2, Types DEF Busy, Res
    <3> QED
      BY <1>9, <2>2, <3>1, <3>2 DEF Busy, Res, Unanswered, Closing
  <2> QED
    BY <2>1, <2>2
<1>17. Calls'
  <2>1. \A v \in Threads \ {t} : call[v] # NULL => call[v].res \in Results \ {r}
    BY <1>5, <1>14, Types
  <2>2. ASSUME NEW v \in Threads \ {t}, call[v] # NULL
        PROVE  /\ call'[v] = call[v] /\ call[v].at # "send" /\ call[v].res \in Results \ {r}
               /\ result'[call[v].res] = result[call[v].res]
    BY <1>9, <1>10, <1>14, <2>1, <2>2
  <2>3. ASSUME NEW v \in Threads \ {t}, call'[v] # NULL
        PROVE
          /\ User[call'[v].chan] = v /\ chan'[call'[v].chan] = "open"
          /\ call'[v].at # "send" /\ call'[v].res # NULL /\ result'[call'[v].res] # NULL
          /\ result'[call'[v].res].dst = Owner(call'[v].chan)
          /\ result'[call'[v].res].dsti \in {Handler[call'[v].chan], NULL}
          /\ call'[v].at = "wait" => call'[v].res \in list'
          /\ call'[v].at = "free" => result'[call'[v].res].val # "pending"
    <3>1. call[v] # NULL /\ call'[v] = call[v]
      BY <1>10, <2>3
    <3>2. /\ call[v].at # "send" /\ result'[call[v].res] = result[call[v].res]
          /\ list \subseteq list' /\ chan' = chan
      BY <1>3, <1>4, <2>2, <3>1
    <3> QED
      BY <3>1, <3>2 DEF IInv, Sane, Calls
  <2>4. /\ call'[t].chan = c /\ chan'[c] = "open" /\ User[c] = t
        /\ call'[t].at = "wait" /\ call'[t].res = r /\ r \in list' /\ r # NULL
        /\ result'[r] # NULL /\ result'[r].dst = Owner(c)
        /\ result'[r].dsti \in {Handler[c], NULL}
    BY <1>2, <1>3, <1>4, <1>5, <1>8, <1>9, <1>10 DEF IInv, Sane, Calls, nc, nr, o
  <2> QED
    BY <2>3, <2>4 DEF Calls
<1>18. Locked'
  BY <1>4 DEF Locked
<1>19. Owned'
  <2>1. \A x \in Results : result'[x] # NULL =>
          /\ \E v \in Threads : call'[v] # NULL /\ call'[v].res = x
          /\ result'[x].val # "pending" => result'[x].notified
    BY <1>2, <1>9, <1>10 DEF IInv, Sane, Owned, nc, nr
  <2>2. \A x \in list' : \E v \in Threads :
          call'[v] # NULL /\ call'[v].at = "wait" /\ call'[v].res = x
    <3>1. call'[t] # NULL /\ call'[t].at = "wait" /\ call'[t].res = r
      BY <1>10 DEF nc
    <3>2. ASSUME NEW x \in list
          PROVE  \E v \in Threads : call'[v] # NULL /\ call'[v].at = "wait" /\ call'[v].res = x
      <4>1. PICK v \in Threads : call[v] # NULL /\ call[v].at = "wait" /\ call[v].res = x
        BY DEF IInv, Sane, Owned
      <4>2. v # t
        BY <1>2, <4>1
      <4> QED
        BY <1>10, <4>1, <4>2
    <3> QED
      BY <1>3, <3>1, <3>2
  <2>3. \A u, v \in Threads :
          call'[u] # NULL /\ call'[v] # NULL /\ call'[u].res = call'[v].res =>
            u = v \/ call'[u].res = NULL
    BY <1>10, <1>14 DEF IInv, Sane, Owned, nc
  <2> QED
    BY <2>1, <2>2, <2>3 DEF Owned
<1>20. Queues'
  <2>1. ASSUME NEW x \in Events, event'[x] # NULL
        PROVE  Contains(queue'[Owner(event'[x].chan)], x)
    <3>1. CASE x = e
      BY <1>7, <1>12, <1>6, <3>1 DEF ne
    <3>2. CASE x # e
      <4>1. PICK v \in Threads : v = Owner(event[x].chan) /\ event'[x] = event[x]
        BY <1>5, <1>7, <2>1, <3>2, Types
      <4> QED
        BY <1>12, <2>1, <4>1 DEF IInv, Sane, Queues
    <3> QED
      BY <3>1, <3>2
  <2>2. ASSUME NEW v \in Threads, NEW x \in Events, Contains(queue'[v], x)
        PROVE  event'[x] # NULL /\ Owner(event'[x].chan) = v
    <3>1. CASE x = e
      <4>1. v = o
        BY <1>5, <1>12, <2>2, <3>1 DEF IInv, Sane, Queues
      <4> QED
        BY <1>7, <1>6, <3>1, <4>1 DEF ne
    <3>2. CASE x # e
      <4>1. Contains(queue[v], x)
        BY <1>12, <2>2, <3>2
      <4> QED
        BY <1>7, <3>2, <4>1 DEF IInv, Sane, Queues
    <3> QED
      BY <3>1, <3>2
  <2>3. \A v \in Threads : Injective(queue'[v]) /\ (phase'[v] = "gone" => queue'[v] = <<>>)
    BY <1>2, <1>4, <1>12 DEF IInv, Sane, Queues
  <2> QED
    BY <2>1, <2>2, <2>3 DEF Queues
<1>21. Pairs'
  <2>1. ASSUME NEW x \in Results, result'[x] # NULL, result'[x].val = "pending"
        PROVE  /\ phase'[result'[x].dst] = "running" /\ result'[x].ev # NULL
               /\ event'[result'[x].ev] # NULL /\ event'[result'[x].ev].res = x
               /\ Owner(event'[result'[x].ev].chan) = result'[x].dst
    <3>1. CASE x = r
      BY <1>2, <1>4, <1>5, <1>7, <1>9, <3>1 DEF ne, nr, o
    <3>2. CASE x # r
      <4>1. result'[x] = result[x] /\ result[x].ev \in Events \cup {NULL}
        BY <1>5, <1>9, <2>1, <3>2, Types
      <4> QED
        BY <1>4, <1>5, <1>7, <2>1, <4>1 DEF IInv, Sane, Pairs
    <3> QED
      BY <3>1, <3>2
  <2>2. ASSUME NEW x \in Events, event'[x] # NULL, event'[x].res # NULL
        PROVE  LET q == event'[x].res IN
               /\ result'[q] # NULL /\ result'[q].val = "pending" /\ result'[q].ev = x
               /\ Busy(event[x].chan)' /\ Res(event[x].chan)' = q
               /\ call'[User[event'[x].chan]].op = event'[x].op
    <3>1. CASE x = e
      <4>1. event'[x].res = r /\ event'[x].chan = c /\ event'[x].op = call[t].op
        BY <1>7, <3>1 DEF ne
      <4>2. Busy(event[x].chan)' /\ Res(event[x].chan)' = r
        BY <1>15, <4>1 DEF Busy, Res
      <4>3. call'[User[c]].op = call[t].op
        BY <1>2, <1>10 DEF nc
      <4> QED
        BY <1>9, <3>1, <4>1, <4>2, <4>3 DEF nr
    <3>2. CASE x # e
      <4>1. PICK d \in Chans, q \in Results :
              /\ event'[x] = event[x] /\ event[x].res = q /\ event[x].chan = d
              /\ result[q] # NULL /\ result[q].val = "pending" /\ result[q].ev = x
              /\ Busy(d) /\ Res(d) = q /\ call[User[d]].op = event[x].op
        BY <1>5, <1>7, <2>2, <3>2, Types DEF IInv, Sane, Pairs
      <4>2. result'[q] = result[q] /\ d # c
        BY <1>5, <1>9, <1>15, <4>1
      <4>3. Busy(d)' /\ Res(d)' = q /\ call'[User[d]] = call[User[d]]
        BY <1>10, <1>16, <4>1, <4>2
      <4>4. Busy(event[x].chan)' /\ Res(event[x].chan)' = q
        BY <4>1, <4>3 DEF Busy, Res
      <4> QED
        BY <4>1, <4>2, <4>3, <4>4
    <3> QED
      BY <3>1, <3>2
  <2> QED
    BY <2>1, <2>2 DEF Pairs, Busy, Res
<1>22. \A v \in Threads : \A k \in DOMAIN stack[v] :
         /\ stack[v][k].ev \in Events \ {e} /\ event'[stack[v][k].ev] = event[stack[v][k].ev]
         /\ Works(v, stack[v][k])'
  <2> SUFFICES ASSUME NEW v \in Threads, NEW k \in DOMAIN stack[v]
               PROVE  /\ stack[v][k].ev \in Events \ {e}
                      /\ event'[stack[v][k].ev] = event[stack[v][k].ev]
                      /\ Works(v, stack[v][k])'
    OBVIOUS
  <2>0. PICK f \in Frame : f = stack[v][k]
    BY <1>5, Types, ElementOfSeq, LenProperties
  <2>1. PICK d \in Chans : event[f.ev].chan = d /\ event[f.ev] # NULL
    BY <1>5, <2>0, Types DEF IInv, Sane, Activations, Works
  <2>2. Works(v, f) /\ f.res \in Results /\ f.ev \in Events \ {e}
        /\ event'[f.ev] = event[f.ev]
    BY <1>5, <1>7, <2>0, <2>1, Types DEF IInv, Sane, Activations
  <2>3. ~f.stale => /\ d # c /\ User[d] # t /\ call'[User[d]] = call[User[d]]
                    /\ result'[f.res] = result[f.res]
                    /\ Busy(d)' /\ Res(d)' = f.res
    BY <1>9, <1>10, <1>15, <1>16, <2>1, <2>2 DEF Works
  <2>4. Works(v, f)'
    <3>1. ~f.stale => Busy(event[f.ev].chan)' /\ Res(event[f.ev].chan)' = f.res
      BY <2>1, <2>2, <2>3 DEF Busy, Res
    <3> QED
      BY <2>1, <2>2, <2>3, <3>1 DEF Works
  <2>5. Works(v, stack[v][k])'
    BY <1>4, <2>0, <2>4 DEF Works, Busy, Res
  <2> QED
    BY <2>0, <2>2, <2>5
<1>23. Activations'
  BY <1>4, <1>22 DEF IInv, Sane, Activations
<1>24. Mapped'
  BY <1>4, <1>15, <1>16 DEF IInv, Sane, Mapped
<1>25. \A d \in Chans : Unanswered(d)' <=> Unanswered(d)
  BY <1>15, <1>16
<1>26. Answered'
  BY <1>4, <1>22, <1>25 DEF IInv, Sane, Answered
<1>27. careful => Prudent'
  <2>1. \A d \in Chans : Closing(d) /\ call[User[d]].at = "free" =>
          Closing(d)' /\ call'[User[d]].at = "free"
    BY <1>2, <1>10, <1>15, <1>16 DEF Closing
  <2> QED
    BY <1>4, <1>22, <2>1 DEF IInv, Sane, Prudent
<1>28. careful => Frank'
  <2>1. \A d \in Chans : Replying(d) => Replying(d)'
    BY <1>4, <1>22 DEF Replying
  <2> QED
    BY <1>4, <1>25, <2>1 DEF IInv, Sane, Frank
<1> QED
  BY <1>4, <1>13, <1>17, <1>18, <1>19, <1>20, <1>21, <1>23, <1>24, <1>26, <1>27, <1>28
  DEF IInv, Sane, CarefulIsSafe


\* Wake: the result leaves the list with the call that owns it.
LEMMA WakeStep ==
  ASSUME IInv, Sound, NEW t \in Threads, Wake(t)
  PROVE  TypeOK' /\ CarefulIsSafe' /\ Sane'
<1> USE NotNull
<1>1. PICK r \in Results :
        /\ call[t] # NULL /\ call[t].at = "wait" /\ call[t].res = r /\ lock = NULL
        /\ result[r] # NULL /\ result[r].val # "pending"
        /\ list' = list \ {r}
        /\ call' = [call EXCEPT ![t].at = "free"]
        /\ UNCHANGED <<interp, chan, interpMap, threadMap, life, phase, event, result,
                       queue, stack, answer, lock, ops, ran, careful, fault>>
  <2>1. call[t] # NULL /\ call[t].at = "wait" /\ call[t].res \in Results
        /\ result[call[t].res] # NULL
    BY Types DEF IInv, Sane, Calls, Wake
  <2> QED
    BY <2>1 DEF Wake
<1>2. TypeOK /\ call[t] \in Call
  BY <1>1 DEF IInv, TypeOK
<1> DEFINE nc == call'[t]
<1>3. /\ nc \in Call /\ nc # NULL /\ nc.chan = call[t].chan /\ nc.op = call[t].op
      /\ nc.res = r /\ nc.at = "free" /\ \A v \in Threads \ {t} : call'[v] = call[v]
  BY <1>1, <1>2 DEF Call, TypeOK
<1> HIDE DEF nc
<1>4. TypeOK'
  <2>1. call' \in [Threads -> Call \cup {NULL}]
    BY <1>1, <1>2, <1>3 DEF TypeOK, nc
  <2>2. list' \subseteq Results
    BY <1>1, <1>2 DEF TypeOK
  <2> QED
    BY <1>1, <1>2, <2>1, <2>2 DEF TypeOK
<1>5. \A v \in Threads :
        /\ call'[v] # NULL <=> call[v] # NULL
        /\ call[v] # NULL => /\ call'[v].chan = call[v].chan /\ call'[v].op = call[v].op
                             /\ call'[v].res = call[v].res
                             /\ v # t => call'[v].at = call[v].at
  BY <1>1, <1>3 DEF nc
<1>6. /\ call'[t].at = "free" /\ call'[t].res = r /\ call'[t] # NULL
  BY <1>3 DEF nc
<1>7. \A c \in Chans : /\ Busy(c)' <=> Busy(c)
                       /\ Busy(c) => Res(c)' = Res(c) /\ call'[User[c]].op = call[User[c]].op
  BY <1>5 DEF Busy, Res
<1>8. \A c \in Chans : /\ Unanswered(c)' <=> Unanswered(c)
                       /\ Closing(c)' <=> Closing(c)
  <2> SUFFICES ASSUME NEW c \in Chans
               PROVE  (Unanswered(c)' <=> Unanswered(c)) /\ (Closing(c)' <=> Closing(c))
    OBVIOUS
  <2>1. Unanswered(c)' <=> Unanswered(c)
    <3>1. CASE User[c] = t
      BY <1>1, <1>5, <1>6, <3>1 DEF Unanswered, Busy, Res
    <3>2. CASE User[c] # t
      BY <1>1, <1>5, <3>2 DEF Unanswered, Busy, Res
    <3> QED
      BY <3>1, <3>2
  <2> QED
    BY <1>7, <2>1 DEF Closing
<1>9. Calls'
  <2>1. ASSUME NEW v \in Threads \ {t}, call[v] # NULL, call[v].at = "wait"
        PROVE  call[v].res \in list'
    BY <1>1, <2>1 DEF IInv, Sane, Owned, Calls
  <2>2. \A v \in Threads \ {t} : call'[v] = call[v]
    BY <1>3
  <2> QED
    BY <1>1, <1>5, <1>6, <2>1, <2>2 DEF IInv, Sane, Calls
<1>10. Locked'
  BY <1>1 DEF Locked
<1>11. Owned'
  <2>1. \A x \in list' : \E v \in Threads :
          call'[v] # NULL /\ call'[v].at = "wait" /\ call'[v].res = x
    BY <1>1, <1>3 DEF IInv, Sane, Owned
  <2> QED
    BY <1>1, <1>5, <2>1 DEF IInv, Sane, Owned
<1>12. Queues'
  BY <1>1, QueuesSame DEF IInv, Sane
<1>13. Pairs'
  BY <1>1, <1>2, <1>7, Types DEF IInv, Sane, Pairs
<1>14. \A v \in Threads : \A k \in DOMAIN stack[v] : Works(v, stack[v][k])'
  <2> SUFFICES ASSUME NEW v \in Threads, NEW k \in DOMAIN stack[v]
               PROVE  Works(v, stack[v][k])'
    OBVIOUS
  <2>1. Works(v, stack[v][k]) /\ event[stack[v][k].ev].chan \in Chans
    <3>1. Works(v, stack[v][k])
      BY DEF IInv, Sane, Activations
    <3>2. stack[v][k].ev \in Events
      BY <1>2, Types
    <3>3. event[stack[v][k].ev] # NULL
      BY <3>1 DEF Works
    <3> QED
      BY <1>2, <3>1, <3>2, <3>3, Types
  <2> QED
    BY <1>1, <1>7, <2>1 DEF Works
<1>15. Activations'
  BY <1>1, <1>14 DEF IInv, Sane, Activations
<1>16. Mapped'
  BY <1>1, <1>8 DEF IInv, Sane, Mapped
<1>17. Answered'
  BY <1>1, <1>8 DEF IInv, Sane, Answered
<1>18. careful => Prudent'
  <2>1. \A c \in Chans : Closing(c) /\ call[User[c]].at = "free" =>
          Closing(c)' /\ call'[User[c]].at = "free"
    BY <1>3, <1>6, <1>8
  <2> QED
    BY <1>1, <2>1 DEF IInv, Sane, Prudent
<1>19. careful => Frank'
  BY <1>1, <1>8, ReplyingSame DEF IInv, Sane, Frank
<1> QED
  BY <1>1, <1>4, <1>9, <1>10, <1>11, <1>12, <1>13, <1>15, <1>16, <1>17, <1>18, <1>19
  DEF IInv, Sane, CarefulIsSafe

\* The stacks when the activations with the result turn stale.
Staled(r) == [u \in Threads |-> [k \in DOMAIN stack[u] |->
               [stack[u][k] EXCEPT !.stale = @ \/ stack[u][k].res = r]]]
LEMMA StaleFacts ==
  ASSUME TypeOK, NEW r, stack' = Staled(r)
  PROVE  /\ stack' \in [Threads -> Seq(Frame)]
         /\ \A u \in Threads :
              /\ Len(stack'[u]) = Len(stack[u]) /\ DOMAIN stack'[u] = DOMAIN stack[u]
              /\ \A k \in DOMAIN stack[u] :
                   /\ stack'[u][k].ev = stack[u][k].ev /\ stack'[u][k].res = stack[u][k].res
                   /\ stack'[u][k].ok = stack[u][k].ok /\ stack'[u][k].at = stack[u][k].at
                   /\ stack'[u][k].stale <=> (stack[u][k].stale \/ stack[u][k].res = r)
<1> DEFINE New(f) == [f EXCEPT !.stale = @ \/ f.res = r]
<1>1. \A f \in Frame : /\ New(f) \in Frame
                       /\ New(f).ev = f.ev /\ New(f).res = f.res /\ New(f).ok = f.ok
                       /\ New(f).at = f.at /\ (New(f).stale <=> (f.stale \/ f.res = r))
  BY DEF Frame
<1>2. ASSUME NEW u \in Threads
      PROVE  /\ stack'[u] \in Seq(Frame)
             /\ Len(stack'[u]) = Len(stack[u]) /\ DOMAIN stack'[u] = DOMAIN stack[u]
             /\ \A k \in DOMAIN stack[u] : /\ stack[u][k] \in Frame
                                           /\ stack'[u][k] = New(stack[u][k])
  <2>1. /\ stack[u] \in Seq(Frame) /\ Len(stack[u]) \in Nat /\ DOMAIN stack[u] = 1..Len(stack[u])
        /\ \A k \in DOMAIN stack[u] : stack[u][k] \in Frame
    BY ElementOfSeq, LenProperties DEF TypeOK
  <2>2. stack'[u] = [k \in 1..Len(stack[u]) |-> New(stack[u][k])]
    BY <2>1 DEF Staled
  <2> HIDE DEF New
  <2>3. \A k \in 1..Len(stack[u]) : New(stack[u][k]) \in Frame
    BY <1>1, <2>1
  <2>4. stack'[u] \in [1..Len(stack[u]) -> Frame]
    BY <2>2, <2>3
  <2>5. stack'[u] \in Seq(Frame)
    BY <2>1, <2>4, SeqDef
  <2>6. Len(stack'[u]) = Len(stack[u]) /\ DOMAIN stack'[u] = DOMAIN stack[u]
    BY <2>1, <2>4, <2>5, LenProperties
  <2> QED
    BY <2>1, <2>2, <2>5, <2>6
<1> HIDE DEF New
<1>3. stack' \in [Threads -> Seq(Frame)]
  <2>1. DOMAIN stack' = Threads /\ stack' = [u \in Threads |-> stack'[u]]
    BY DEF Staled
  <2> QED
    BY <1>2, <2>1
<1>4. ASSUME NEW u \in Threads, NEW k \in DOMAIN stack[u]
      PROVE  /\ stack'[u][k].ev = stack[u][k].ev /\ stack'[u][k].res = stack[u][k].res
             /\ stack'[u][k].ok = stack[u][k].ok /\ stack'[u][k].at = stack[u][k].at
             /\ stack'[u][k].stale <=> (stack[u][k].stale \/ stack[u][k].res = r)
  <2>1. stack[u][k] \in Frame /\ stack'[u][k] = New(stack[u][k])
    BY <1>2
  <2> QED
    BY <1>1, <2>1
<1> QED
  BY <1>2, <1>3, <1>4

\* Collect: only activations that were cancelled can still hold the result.
LEMMA CollectStep ==
  ASSUME IInv, Sound, NEW t \in Threads, Collect(t)
  PROVE  TypeOK' /\ CarefulIsSafe' /\ Sane'
<1> USE NotNull
<1>1. PICK r \in Results, c \in Chans :
        /\ call[t] # NULL /\ call[t].at = "free" /\ call[t].res = r /\ call[t].chan = c
        /\ User[c] = t /\ chan[c] = "open" /\ result[r] # NULL /\ result[r].val # "pending"
        /\ result' = [result EXCEPT ![r] = NULL]
        /\ chan' = IF call[t].op = "close" THEN [chan EXCEPT ![c] = "closed"] ELSE chan
        /\ stack' = [u \in Threads |-> [k \in DOMAIN stack[u] |->
             [stack[u][k] EXCEPT !.stale = @ \/ stack[u][k].res = r]]]
        /\ call' = [call EXCEPT ![t] = NULL]
        /\ UNCHANGED <<interp, interpMap, threadMap, life, phase, event, list, queue,
                       answer, lock, ops, ran, careful, fault>>
  <2>1. call[t] # NULL /\ call[t].at = "free" /\ call[t].res \in Results
        /\ call[t].chan \in Chans /\ User[call[t].chan] = t /\ chan[call[t].chan] = "open"
        /\ result[call[t].res] # NULL /\ result[call[t].res].val # "pending"
    BY Types DEF IInv, Sane, Calls, Collect
  <2> QED
    BY <2>1 DEF Collect
<1>2. TypeOK
  BY DEF IInv
<1>3. /\ stack' \in [Threads -> Seq(Frame)]
      /\ \A u \in Threads :
           /\ Len(stack'[u]) = Len(stack[u]) /\ DOMAIN stack'[u] = DOMAIN stack[u]
           /\ \A k \in DOMAIN stack[u] :
                /\ stack'[u][k].ev = stack[u][k].ev /\ stack'[u][k].res = stack[u][k].res
                /\ stack'[u][k].ok = stack[u][k].ok /\ stack'[u][k].at = stack[u][k].at
                /\ stack'[u][k].stale <=> (stack[u][k].stale \/ stack[u][k].res = r)
  <2>1. stack' = Staled(r)
    BY <1>1 DEF Staled
  <2> QED
    BY <1>2, <2>1, StaleFacts
<1>4. /\ call'[t] = NULL /\ \A v \in Threads \ {t} : call'[v] = call[v]
      /\ result'[r] = NULL /\ \A x \in Results \ {r} : result'[x] = result[x]
  BY <1>1, <1>2 DEF TypeOK
<1>5. \A d \in Chans : chan'[d] = "open" => chan[d] = "open"
  BY <1>1, <1>2 DEF TypeOK
<1>6. TypeOK'
  <2>1. /\ result' \in [Results -> ResultRec \cup {NULL}]
        /\ call' \in [Threads -> Call \cup {NULL}]
        /\ chan' \in [Chans -> {"open", "closed"}]
    BY <1>1, <1>2 DEF TypeOK
  <2> QED
    BY <1>1, <1>2, <1>3, <2>1 DEF TypeOK
<1>7. \A v \in Threads \ {t} : call[v] # NULL => call[v].res # r
  BY <1>1 DEF IInv, Sane, Owned
<1>8. \A d \in Chans :
        /\ Busy(d)' <=> Busy(d) /\ d # c
        /\ Busy(d) /\ d # c => /\ User[d] # t /\ call'[User[d]] = call[User[d]]
                               /\ Res(d)' = Res(d) /\ Res(d) # r
  BY <1>1, <1>4, <1>7 DEF Busy, Res
<1>9. ~Unanswered(c)
  BY <1>1 DEF Unanswered, Busy, Res
<1>10. \A d \in Chans : /\ Unanswered(d)' <=> Unanswered(d)
                        /\ Closing(d)' <=> Closing(d) /\ d # c
  <2> SUFFICES ASSUME NEW d \in Chans
               PROVE  /\ Unanswered(d)' <=> Unanswered(d)
                      /\ Closing(d)' <=> Closing(d) /\ d # c
    OBVIOUS
  <2>1. CASE d = c
    BY <1>8, <1>9, <2>1 DEF Unanswered, Closing
  <2>2. CASE d # c /\ ~Busy(d)
    BY <1>8, <2>2 DEF Unanswered, Closing
  <2>3. CASE d # c /\ Busy(d)
    <3>1. /\ Busy(d)' /\ call'[User[d]] = call[User[d]] /\ call[User[d]] # NULL
          /\ Res(d)' = Res(d) /\ Res(d) # r /\ Res(d) \in Results \cup {NULL}
      BY <1>2, <1>8, <2>3, Types DEF Busy, Res
    <3>2. call[User[d]].at # "send" => Res(d) \in Results
      BY <1>2, <2>3, <3>1 DEF IInv, Sane, Calls, Res
    <3>3. Unanswered(d)' <=> Unanswered(d)
      BY <1>4, <2>3, <3>1, <3>2 DEF Unanswered
    <3> QED
      BY <2>3, <3>1, <3>3 DEF Closing
  <2> QED
    BY <2>1, <2>2, <2>3
<1>11. Calls'
  <2> SUFFICES ASSUME NEW v \in Threads, call'[v] # NULL
      PROVE
        /\ User[call[v].chan] = v /\ chan'[call[v].chan] = "open" /\ call'[v] = call[v]
        /\ call[v].at = "send" => /\ call[v].res = NULL /\ lock' = v
                                  /\ phase'[Owner(call[v].chan)] = "running"
        /\ call[v].at # "send" =>
             /\ call[v].res # NULL /\ result'[call[v].res] # NULL
             /\ result'[call[v].res].dst = Owner(call[v].chan)
             /\ result'[call[v].res].dsti \in {Handler[call[v].chan], NULL}
        /\ call[v].at = "wait" => call[v].res \in list'
        /\ call[v].at = "free" => result'[call[v].res].val # "pending"
    BY DEF Calls
  <2>1. v # t /\ call'[v] = call[v] /\ call[v] # NULL /\ call[v].res # r
    BY <1>4, <1>7
  <2>2. PICK d \in Chans : d = call[v].chan /\ User[d] = v /\ chan[d] = "open" /\ d # c
    BY <1>1, <1>2, <2>1, Types DEF IInv, Sane, Calls
  <2>3. chan'[d] = "open"
    BY <1>1, <1>2, <2>2 DEF TypeOK
  <2>4. call[v].at # "send" => call[v].res \in Results \ {r}
    BY <1>2, <2>1, Types DEF IInv, Sane, Calls
  <2> QED
    BY <1>1, <1>4, <2>1, <2>2, <2>3, <2>4 DEF IInv, Sane, Calls
<1>12. Locked'
  BY <1>1, <1>2, <1>4 DEF IInv, Sane, Locked, TypeOK
<1>13. Owned'
  <2>1. \A x \in list' : \E v \in Threads :
          call'[v] # NULL /\ call'[v].at = "wait" /\ call'[v].res = x
    BY <1>1, <1>4 DEF IInv, Sane, Owned
  <2> QED
    BY <1>1, <1>4, <2>1 DEF IInv, Sane, Owned
<1>14. Queues'
  BY <1>1, QueuesSame DEF IInv, Sane
<1>15. Pairs'
  <2>1. ASSUME NEW x \in Results, result'[x] # NULL, result'[x].val = "pending"
        PROVE  /\ phase'[result'[x].dst] = "running" /\ result'[x].ev # NULL
               /\ event'[result'[x].ev] # NULL /\ event'[result'[x].ev].res = x
               /\ Owner(event'[result'[x].ev].chan) = result'[x].dst
    BY <1>1, <1>4, <2>1 DEF IInv, Sane, Pairs
  <2>2. ASSUME NEW x \in Events, event'[x] # NULL, event'[x].res # NULL
        PROVE  LET q == event'[x].res IN
               /\ result'[q] # NULL /\ result'[q].val = "pending" /\ result'[q].ev = x
               /\ Busy(event[x].chan)' /\ Res(event[x].chan)' = q
               /\ call'[User[event'[x].chan]].op = event'[x].op
    <3>1. PICK d \in Chans, q \in Results :
              /\ event'[x] = event[x] /\ event[x].res = q /\ event[x].chan = d
              /\ result[q] # NULL /\ result[q].val = "pending" /\ result[q].ev = x
              /\ Busy(d) /\ Res(d) = q /\ call[User[d]].op = event[x].op
      BY <1>1, <1>2, <2>2, Types DEF IInv, Sane, Pairs
    <3>2. q # r /\ d # c /\ result'[q] = result[q]
      BY <1>1, <1>4, <3>1 DEF Res
    <3>3. Busy(d)' /\ Res(d)' = q /\ call'[User[d]] = call[User[d]]
      BY <1>8, <3>1, <3>2
    <3>4. Busy(event[x].chan)' /\ Res(event[x].chan)' = q
      BY <3>1, <3>3 DEF Busy, Res
    <3> QED
      BY <3>1, <3>2, <3>3, <3>4
  <2> QED
    BY <2>1, <2>2 DEF Pairs, Busy, Res
<1>16. \A v \in Threads : \A k \in DOMAIN stack[v] : Works(v, stack[v][k])'
  <2> SUFFICES ASSUME NEW v \in Threads, NEW k \in DOMAIN stack[v]
               PROVE  Works(v, stack[v][k])'
    OBVIOUS
  <2>0. PICK f \in Frame : f = stack[v][k]
    BY <1>2, Types, ElementOfSeq, LenProperties
  <2>1. PICK d \in Chans : event[f.ev].chan = d /\ event[f.ev] # NULL
    BY <1>2, <2>0, Types DEF IInv, Sane, Activations, Works
  <2>2. Works(v, f) /\ f.res \in Results /\ f.ev \in Events /\ f.stale \in BOOLEAN
    BY <1>2, <2>0, Types DEF IInv, Sane, Activations
  <2>3. PICK g \in Frame : g = stack'[v][k]
    BY <1>3, ElementOfSeq, LenProperties
  <2>4. g.ev = f.ev /\ g.res = f.res /\ (g.stale <=> (f.stale \/ f.res = r))
    BY <1>3, <2>0, <2>3
  <2>5. event'[g.ev] = event[f.ev] /\ Owner(d) = v
    BY <1>1, <2>1, <2>2, <2>4 DEF Works
  <2>6. event[f.ev].res # NULL => event[f.ev].res = f.res /\ ~g.stale
    <3> SUFFICES ASSUME event[f.ev].res # NULL PROVE event[f.ev].res = f.res /\ ~g.stale
      OBVIOUS
    <3>1. event[f.ev].res = f.res /\ ~f.stale /\ result[f.res].val = "pending"
      BY <2>1, <2>2 DEF Works, IInv, Sane, Pairs
    <3> QED
      BY <1>1, <2>4, <3>1
  <2>7. ~g.stale => /\ d # c /\ result'[f.res] = result[f.res]
                    /\ Busy(d)' /\ Res(d)' = f.res /\ call'[User[d]] = call[User[d]]
    <3> SUFFICES ASSUME ~g.stale
                 PROVE  /\ d # c /\ result'[f.res] = result[f.res]
                        /\ Busy(d)' /\ Res(d)' = f.res /\ call'[User[d]] = call[User[d]]
      OBVIOUS
    <3>1. Busy(d) /\ Res(d) = f.res /\ f.res # r
      BY <2>1, <2>2, <2>4 DEF Works
    <3>2. d # c
      BY <1>1, <3>1 DEF Res
    <3> QED
      BY <1>4, <1>8, <2>2, <3>1, <3>2
  <2>8. Works(v, g)'
    <3>1. ~g.stale => Busy(event[g.ev].chan)' /\ Res(event[g.ev].chan)' = g.res
      BY <2>1, <2>4, <2>5, <2>7 DEF Busy, Res
    <3> QED
      BY <2>1, <2>2, <2>4, <2>5, <2>6, <2>7, <3>1 DEF Works
  <2> QED
    BY <2>3, <2>8 DEF Works, Busy, Res
<1>17. Activations'
  <2>1. \A u \in Threads : phase'[u] # "running" => stack'[u] = <<>>
    <3>1. \A u \in Threads : phase'[u] # "running" =>
            /\ stack'[u] \in Seq(Frame) /\ Len(stack'[u]) = Len(<<>>)
      BY <1>1, <1>3 DEF IInv, Sane, Activations
    <3> QED
      BY <3>1, EmptySeq
  <2>2. ASSUME NEW u \in Threads, NEW k \in DOMAIN stack'[u], NEW l \in DOMAIN stack'[u],
               stack'[u][l].ev = stack'[u][k].ev
        PROVE  k = l
    <3>1. k \in DOMAIN stack[u] /\ l \in DOMAIN stack[u] /\ stack[u][l].ev = stack[u][k].ev
      BY <1>3, <2>2
    <3> QED
      BY <3>1 DEF IInv, Sane, Activations
  <2>3. \A u \in Threads : \A k \in DOMAIN stack'[u] : Works(u, stack[u][k])'
    BY <1>3, <1>16
  <2> HIDE DEF Works
  <2> QED
    BY <2>1, <2>2, <2>3 DEF Activations
<1>18. Mapped'
  <2>1. ASSUME NEW d \in Chans, chan'[d] = "open", interp[d] # NULL
        PROVE  Closing(d)' \/ (d \in threadMap[Owner(d)] /\ d \in interpMap[Handler[d]])
    <3>1. CASE d = c
      <4>1. call[t].op # "close"
        BY <1>1, <1>2, <2>1, <3>1 DEF TypeOK
      <4>2. ~Closing(c)
        BY <1>1, <4>1 DEF Closing
      <4> QED
        BY <1>1, <2>1, <3>1, <4>2 DEF IInv, Sane, Mapped
    <3>2. CASE d # c
      BY <1>5, <1>10, <2>1, <3>2 DEF IInv, Sane, Mapped
    <3> QED
      BY <3>1, <3>2
  <2> QED
    BY <1>1, <2>1 DEF IInv, Sane, Mapped
<1>19. Answered'
  <2>1. ASSUME NEW u \in Threads, NEW k \in DOMAIN stack'[u]
        PROVE  /\ k # Len(stack'[u]) => stack'[u][k].at = "method"
               /\ stack'[u][k].ok => stack'[u][k].at = "reply"
               /\ stack'[u][k].ok /\ ~stack'[u][k].stale =>
                    ran'[event'[stack'[u][k].ev].chan]
    <3>1. /\ k \in DOMAIN stack[u] /\ Len(stack'[u]) = Len(stack[u])
          /\ stack'[u][k].ev = stack[u][k].ev /\ stack'[u][k].ok = stack[u][k].ok
          /\ stack'[u][k].at = stack[u][k].at
      BY <1>3
    <3>2. ~stack'[u][k].stale => ~stack[u][k].stale
      BY <1>3
    <3>3. /\ k # Len(stack[u]) => stack[u][k].at = "method"
          /\ stack[u][k].ok => stack[u][k].at = "reply"
          /\ stack[u][k].ok /\ ~stack[u][k].stale => ran[event[stack[u][k].ev].chan]
      BY <3>1 DEF IInv, Sane, Answered
    <3>4. ran' = ran /\ event' = event
      BY <1>1
    <3> QED
      BY <3>1, <3>2, <3>3, <3>4
  <2>2. \A d \in Chans : /\ answer'[d] = "ok" => ran'[d] \/ Unanswered(d)'
                         /\ Unanswered(d)' => answer'[d] # "lost"
    BY <1>1, <1>10 DEF IInv, Sane, Answered
  <2> QED
    BY <2>1, <2>2 DEF Answered
<1>20. careful => Prudent'
  <2> SUFFICES ASSUME careful PROVE Prudent'
    OBVIOUS
  <2>1. ASSUME NEW v \in Threads, NEW k \in DOMAIN stack[v]
        PROVE  ~stack'[v][k].stale /\ event'[stack'[v][k].ev].res # NULL
    <3>1. ~stack[v][k].stale /\ event[stack[v][k].ev].res # NULL /\ Works(v, stack[v][k])
      BY DEF IInv, Sane, Prudent, Activations
    <3>2. event[stack[v][k].ev].res = stack[v][k].res /\ stack[v][k].ev \in Events
          /\ event[stack[v][k].ev] # NULL
      BY <1>2, <3>1, Types DEF Works
    <3>3. result[stack[v][k].res].val = "pending"
      BY <3>1, <3>2 DEF IInv, Sane, Pairs
    <3>4. stack[v][k].res # r
      BY <1>1, <3>3
    <3>5. stack'[v][k].ev = stack[v][k].ev
          /\ (stack'[v][k].stale <=> (stack[v][k].stale \/ stack[v][k].res = r))
      BY <1>3
    <3>6. ~stack'[v][k].stale
      BY <3>1, <3>4, <3>5
    <3> QED
      BY <1>1, <3>1, <3>5, <3>6
  <2>2. ASSUME NEW d \in Chans, life[Handler[d]] # "live", chan'[d] = "open"
        PROVE  Closing(d)' /\ call'[User[d]].at = "free"
    <3>1. Closing(d) /\ call[User[d]].at = "free"
      BY <1>5, <2>2 DEF IInv, Sane, Prudent
    <3>2. d # c
      BY <1>1, <1>2, <2>2, <3>1 DEF Closing, TypeOK
    <3>3. Closing(d)' /\ Busy(d)
      BY <1>10, <3>1, <3>2 DEF Closing
    <3> QED
      BY <1>8, <3>1, <3>2, <3>3
  <2> QED
    <3>1. \A v \in Threads : DOMAIN stack'[v] = DOMAIN stack[v]
      BY <1>3
    <3>2. \A d \in Chans : interp'[d] = NULL => phase'[Owner(d)] # "running"
      BY <1>1 DEF IInv, Sane, Prudent
    <3>3. \A d \in Chans : life'[Handler[d]] # "live" => interpMap'[Handler[d]] = {}
      BY <1>1 DEF IInv, Sane, Prudent
    <3>4. life' = life
      BY <1>1
    <3> QED
      BY <2>1, <2>2, <3>1, <3>2, <3>3, <3>4 DEF Prudent
<1>21. careful => Frank'
  <2>1. ASSUME NEW d \in Chans, Replying(d) PROVE Replying(d)'
    <3>1. PICK k \in DOMAIN stack[Owner(d)] :
            stack[Owner(d)][k].at = "reply" /\ event[stack[Owner(d)][k].ev].chan = d
      BY <2>1 DEF Replying
    <3>2. /\ DOMAIN stack'[Owner(d)] = DOMAIN stack[Owner(d)]
          /\ stack'[Owner(d)][k].at = stack[Owner(d)][k].at
          /\ stack'[Owner(d)][k].ev = stack[Owner(d)][k].ev
      BY <1>1, <1>3
    <3>3. event' = event
      BY <1>1
    <3> QED
      BY <3>1, <3>2, <3>3 DEF Replying
  <2> QED
    BY <1>1, <1>10, <2>1 DEF IInv, Sane, Frank
<1> QED
  BY <1>1, <1>6, <1>11, <1>12, <1>13, <1>14, <1>15, <1>17, <1>18, <1>19, <1>20, <1>21
  DEF IInv, Sane, CarefulIsSafe

\* An event that was served is freed and leaves the queue.
LEMMA FreedFacts ==
  ASSUME TypeOK, Queues, NEW t \in Threads, NEW e \in Events, Contains(queue[t], e),
         event' = [event EXCEPT ![e] = NULL],
         queue' = [queue EXCEPT ![t] = Unlinked(t, e)], UNCHANGED phase
  PROVE  /\ event[e] # NULL /\ Owner(event[e].chan) = t
         /\ event'[e] = NULL /\ \A x \in Events \ {e} : event'[x] = event[x]
         /\ event' \in [Events -> EventRec \cup {NULL}]
         /\ queue' \in [Threads -> Seq(Events)]
         /\ Queues'
<1> USE NotNull
<1>1. event[e] # NULL /\ Owner(event[e].chan) = t
  BY DEF Queues
<1>2. event'[e] = NULL /\ \A x \in Events \ {e} : event'[x] = event[x]
  BY DEF TypeOK
<1>3. /\ queue'[t] \in Seq(Events) /\ Injective(queue'[t])
      /\ \A x : Contains(queue'[t], x) <=> Contains(queue[t], x) /\ x # e
      /\ \A v \in Threads \ {t} : queue'[v] = queue[v]
  <2>1. queue'[t] = Removed(queue[t], e) /\ \A v \in Threads \ {t} : queue'[v] = queue[v]
    BY DEF TypeOK, Unlinked, Removed
  <2>2. queue[t] \in Seq(Events) /\ Injective(queue[t])
    BY DEF TypeOK, Queues
  <2> QED
    BY <2>1, <2>2, RemovedFacts
<1>4. event' \in [Events -> EventRec \cup {NULL}]
  BY DEF TypeOK
<1>5. queue' \in [Threads -> Seq(Events)]
  <2>1. PICK q \in Seq(Events) : q = queue'[t]
    BY <1>3
  <2>2. queue' = [queue EXCEPT ![t] = q]
    BY <2>1 DEF TypeOK
  <2> QED
    BY <2>2 DEF TypeOK
<1>6. Queues'
  <2>1. ASSUME NEW x \in Events, event'[x] # NULL
        PROVE  Contains(queue'[Owner(event'[x].chan)], x)
    <3>1. x # e /\ event'[x] = event[x]
      BY <1>2, <2>1
    <3>2. PICK v \in Threads : v = Owner(event[x].chan)
      BY <2>1, <3>1, Types
    <3> QED
      BY <1>3, <2>1, <3>1, <3>2 DEF Queues
  <2>2. ASSUME NEW v \in Threads, NEW x \in Events, Contains(queue'[v], x)
        PROVE  event'[x] # NULL /\ Owner(event'[x].chan) = v
    <3>1. Contains(queue[v], x) /\ x # e
      BY <1>1, <1>3, <2>2 DEF Queues
    <3> QED
      BY <1>2, <3>1 DEF Queues
  <2>3. \A v \in Threads : Injective(queue'[v])
    BY <1>3 DEF Queues
  <2>4. \A v \in Threads : phase'[v] = "gone" => queue'[v] = <<>>
    BY <1>3, EmptyFacts DEF Queues
  <2> QED
    BY <2>1, <2>2, <2>3, <2>4 DEF Queues
<1> QED
  BY <1>1, <1>2, <1>4, <1>5, <1>6

\* Ignore: no activation works on the event.
LEMMA IgnoreStep ==
  ASSUME IInv, Sound, NEW t \in Threads, Ignore(t)
  PROVE  TypeOK' /\ CarefulIsSafe' /\ Sane'
<1> USE NotNull
<1>1. PICK e \in Events :
        /\ Waiting(t, e) /\ event[e].res = NULL
        /\ event' = [event EXCEPT ![e] = NULL]
        /\ queue' = [queue EXCEPT ![t] = Unlinked(t, e)]
        /\ UNCHANGED <<interp, chan, interpMap, threadMap, life, phase, result, list,
                       stack, call, answer, lock, ops, ran, careful, fault>>
  BY DEF Ignore, Abandoned
<1>2. TypeOK
  BY DEF IInv
<1>3. Contains(queue[t], e) /\ e \notin InService(t)
  BY <1>1 DEF Waiting, Contains
<1>4. /\ event[e] # NULL /\ Owner(event[e].chan) = t
      /\ event'[e] = NULL /\ \A x \in Events \ {e} : event'[x] = event[x]
      /\ event' \in [Events -> EventRec \cup {NULL}]
      /\ queue' \in [Threads -> Seq(Events)]
      /\ Queues'
  BY <1>1, <1>2, <1>3, FreedFacts DEF IInv, Sane
<1>5. TypeOK'
  BY <1>1, <1>2, <1>4 DEF TypeOK
<1>6. Calls' /\ Locked' /\ Owned' /\ Mapped'
  BY <1>1, CallsSame, LockedSame, OwnedSame, MappedSame DEF IInv, Sane
<1>7. Pairs'
  <2>1. ASSUME NEW x \in Results, result'[x] # NULL, result'[x].val = "pending"
        PROVE  /\ phase'[result'[x].dst] = "running" /\ result'[x].ev # NULL
               /\ event'[result'[x].ev] # NULL /\ event'[result'[x].ev].res = x
               /\ Owner(event'[result'[x].ev].chan) = result'[x].dst
    <3>1. result'[x] = result[x] /\ result[x].ev \in Events \cup {NULL}
      BY <1>1, <1>2, <2>1, Types
    <3>2. result[x].ev # e
      BY <1>1, <2>1, <3>1 DEF IInv, Sane, Pairs
    <3> QED
      BY <1>1, <1>4, <2>1, <3>1, <3>2 DEF IInv, Sane, Pairs
  <2>2. ASSUME NEW x \in Events, event'[x] # NULL, event'[x].res # NULL
        PROVE  LET q == event'[x].res IN
               /\ result'[q] # NULL /\ result'[q].val = "pending" /\ result'[q].ev = x
               /\ Busy(event[x].chan)' /\ Res(event[x].chan)' = q
               /\ call'[User[event'[x].chan]].op = event'[x].op
    <3>1. event'[x] = event[x] /\ result' = result /\ call' = call
      BY <1>1, <1>4, <2>2
    <3> QED
      BY <2>2, <3>1 DEF IInv, Sane, Pairs, Busy, Res
  <2> QED
    BY <2>1, <2>2 DEF Pairs, Busy, Res
<1>8. ASSUME NEW v \in Threads, NEW k \in DOMAIN stack[v]
       PROVE  /\ stack[v][k].ev \in Events /\ event'[stack[v][k].ev] = event[stack[v][k].ev]
              /\ Works(v, stack[v][k])'
  <2>1. Works(v, stack[v][k]) /\ stack[v][k].ev \in Events
    BY <1>2, Types DEF IInv, Sane, Activations
  <2>2. stack[v][k].ev # e
    BY <1>3, <1>4, <2>1 DEF Works, InService
  <2>3. event'[stack[v][k].ev] = event[stack[v][k].ev]
    BY <1>4, <2>1, <2>2
  <2>4. Works(v, stack[v][k])'
    BY <1>1, <2>1, <2>3 DEF Works, Busy, Res
  <2> QED
    BY <2>1, <2>3, <2>4
<1>9. Activations'
  BY <1>1, <1>8 DEF IInv, Sane, Activations
<1>10. \A d \in Chans : (Replying(d)' <=> Replying(d)) /\ (Unanswered(d)' <=> Unanswered(d))
  BY <1>1, <1>8, StatesSame DEF Replying
<1>11. Answered'
  BY <1>1, <1>8, <1>10 DEF IInv, Sane, Answered
<1>12. careful => Prudent'
  <2>1. \A d \in Chans : Closing(d)' <=> Closing(d)
    BY <1>1, StatesSame
  <2> QED
    BY <1>1, <1>8, <2>1 DEF IInv, Sane, Prudent
<1>13. careful => Frank'
  BY <1>1, <1>10 DEF IInv, Sane, Frank
<1> QED
  BY <1>1, <1>4, <1>5, <1>6, <1>7, <1>9, <1>11, <1>12, <1>13
  DEF IInv, Sane, CarefulIsSafe

\* Begin: the new activation works on an event nobody has answered.
LEMMA BeginStep ==
  ASSUME IInv, Sound, NEW t \in Threads, Begin(t)
  PROVE  TypeOK' /\ CarefulIsSafe' /\ Sane'
<1> USE NotNull
<1>1. PICK e \in Events :
        LET c == event[e].chan
            runs == interp[c] # NULL /\ life[Handler[c]] = "live"
        IN /\ Waiting(t, e) /\ event[e].res # NULL
           /\ answer' = [answer EXCEPT ![c] = "ok"]
           /\ stack' = [stack EXCEPT ![t] = Append(@,
                [ev |-> e, res |-> event[e].res, ok |-> FALSE, stale |-> FALSE,
                 at |-> IF runs THEN "method" ELSE "reply"])]
  BY DEF Begin, Abandoned
<1>2. /\ phase[t] = "running" /\ (stack[t] # <<>> => Last(stack[t]).at = "method")
      /\ Len(stack[t]) < MaxDepth
      /\ UNCHANGED <<interp, chan, interpMap, threadMap, life, phase, event, result,
                     list, queue, call, lock, ops, ran, careful, fault>>
  BY DEF Begin, InScript, Top
<1>3. TypeOK
  BY DEF IInv
<1>4. Contains(queue[t], e) /\ e \notin InService(t)
  BY <1>1 DEF Waiting, Contains
<1>5. PICK c \in Chans, r \in Results :
        /\ event[e] # NULL /\ event[e].chan = c /\ event[e].res = r /\ Owner(c) = t
        /\ result[r] # NULL /\ result[r].val = "pending" /\ Busy(c) /\ Res(c) = r
        /\ call[User[c]].op = event[e].op
  <2>1. event[e] # NULL /\ Owner(event[e].chan) = t
    BY <1>4 DEF IInv, Sane, Queues
  <2> QED
    BY <1>1, <1>3, <2>1, Types DEF IInv, Sane, Pairs
<1>6. PICK new \in Frame :
        /\ new.ev = e /\ new.res = r /\ ~new.ok /\ ~new.stale
        /\ stack' = [stack EXCEPT ![t] = Append(@, new)]
        /\ answer' = [answer EXCEPT ![c] = "ok"]
  <2> DEFINE at == IF interp[c] # NULL /\ life[Handler[c]] = "live" THEN "method" ELSE "reply"
             new == [ev |-> e, res |-> r, ok |-> FALSE, stale |-> FALSE, at |-> at]
  <2>1. at \in {"method", "reply"}
    OBVIOUS
  <2>2. /\ stack' = [stack EXCEPT ![t] = Append(@, new)]
        /\ answer' = [answer EXCEPT ![c] = "ok"]
    BY <1>1, <1>5
  <2> HIDE DEF at
  <2>3. new \in Frame /\ new.ev = e /\ new.res = r /\ ~new.ok /\ ~new.stale
    BY <2>1 DEF Frame
  <2> HIDE DEF new
  <2> QED
    BY <2>2, <2>3
<1> DEFINE n == Len(stack[t])
<1>7. /\ stack[t] \in Seq(Frame) /\ n \in Nat /\ DOMAIN stack[t] = 1..n
      /\ stack'[t] \in Seq(Frame) /\ Len(stack'[t]) = n + 1 /\ DOMAIN stack'[t] = 1..(n + 1)
      /\ stack'[t][n + 1] = new /\ \A k \in 1..n : stack'[t][k] = stack[t][k]
      /\ \A v \in Threads \ {t} : stack'[v] = stack[v]
  <2>1. stack[t] \in Seq(Frame)
    BY <1>3 DEF TypeOK
  <2>2. stack'[t] = Append(stack[t], new) /\ \A v \in Threads \ {t} : stack'[v] = stack[v]
    BY <1>3, <1>6 DEF TypeOK
  <2> QED
    BY <2>1, <2>2, AppendFacts
<1> HIDE DEF n
<1>8. TypeOK'
  <2>1. stack' \in [Threads -> Seq(Frame)]
    <3>1. stack' = [stack EXCEPT ![t] = stack'[t]]
      BY <1>3, <1>6 DEF TypeOK
    <3>2. stack \in [Threads -> Seq(Frame)] /\ stack'[t] \in Seq(Frame)
      BY <1>3, <1>7 DEF TypeOK
    <3> QED
      BY <3>1, <3>2
  <2>2. \A v \in Threads : Len(stack'[v]) <= MaxDepth
    <3>1. n + 1 <= MaxDepth
      BY <1>2, <1>7, ForwardAssumption DEF n
    <3> QED
      BY <1>3, <1>7, <3>1 DEF TypeOK
  <2>3. answer' \in [Chans -> Answers]
    BY <1>3, <1>6 DEF TypeOK, Answers
  <2> QED
    BY <1>2, <1>3, <2>1, <2>2, <2>3 DEF TypeOK
<1>9. Calls' /\ Locked' /\ Owned' /\ Mapped' /\ Queues' /\ Pairs'
  BY <1>2, CallsSame, LockedSame, OwnedSame, MappedSame, QueuesSame, PairsSame DEF IInv, Sane
<1>10. ASSUME NEW v \in Threads, NEW k \in DOMAIN stack'[v]
       PROVE  \/ v = t /\ k = n + 1 /\ stack'[v][k] = new
              \/ k \in DOMAIN stack[v] /\ stack'[v][k] = stack[v][k] /\ (v = t => k # n + 1)
  <2>1. CASE v = t
    <3>1. k \in 1..(n + 1)
      BY <1>7, <2>1
    <3>2. k = n + 1 \/ (k \in 1..n /\ k # n + 1)
      BY <1>7, <3>1
    <3> QED
      BY <1>7, <2>1, <3>2
  <2>2. CASE v # t
    BY <1>7, <2>2
  <2> QED
    BY <2>1, <2>2
<1>11. ASSUME NEW v \in Threads, NEW k \in DOMAIN stack'[v]
       PROVE  Works(v, stack'[v][k])
  <2>1. Works(t, new)
    BY <1>5, <1>6 DEF Works
  <2> QED
    BY <1>10, <2>1 DEF IInv, Sane, Activations
<1>12. Activations'
  <2>1. ASSUME NEW v \in Threads, NEW k \in DOMAIN stack'[v], NEW l \in DOMAIN stack'[v],
               stack'[v][l].ev = stack'[v][k].ev
        PROVE  k = l
    <3>1. \A j \in DOMAIN stack[t] : stack[t][j].ev # new.ev
      BY <1>4, <1>6 DEF InService
    <3> QED
      BY <1>10, <2>1, <3>1 DEF IInv, Sane, Activations
  <2>2. \A v \in Threads : phase'[v] # "running" => stack'[v] = <<>>
    BY <1>2, <1>7 DEF IInv, Sane, Activations
  <2>3. ASSUME NEW v \in Threads, NEW k \in DOMAIN stack'[v]
        PROVE  Works(v, stack[v][k])'
    <3>1. PICK f : f = stack'[v][k]
      OBVIOUS
    <3>2. Works(v, f)'
      BY <1>2, <1>11, <3>1, WorksSame
    <3> QED
      BY <3>1, <3>2 DEF Works, Busy, Res
  <2> HIDE DEF Works
  <2> QED
    BY <2>1, <2>2, <2>3 DEF Activations
<1>13. \A d \in Chans : (Unanswered(d)' <=> Unanswered(d)) /\ (Closing(d)' <=> Closing(d))
  BY <1>2, StatesSame
<1>14. Answered'
  <2>1. ASSUME NEW v \in Threads, NEW k \in DOMAIN stack'[v], k # Len(stack'[v])
        PROVE  stack'[v][k].at = "method"
    <3>1. CASE v = t
      <4>1. k \in 1..n /\ stack'[t][k] = stack[t][k] /\ k \in DOMAIN stack[t] /\ n # 0
        BY <1>7, <2>1, <3>1
      <4>2. CASE k = n
        <5>1. stack[t] # <<>>
          BY <4>1, EmptyFacts
        <5> QED
          BY <1>2, <3>1, <4>1, <4>2, <5>1 DEF Last, n
      <4>3. CASE k # n
        BY <3>1, <4>1, <4>3 DEF IInv, Sane, Answered, n
      <4> QED
        BY <4>2, <4>3
    <3>2. CASE v # t
      BY <1>7, <2>1, <3>2 DEF IInv, Sane, Answered
    <3> QED
      BY <3>1, <3>2
  <2>2. ASSUME NEW v \in Threads, NEW k \in DOMAIN stack'[v]
        PROVE  /\ stack'[v][k].ok => stack'[v][k].at = "reply"
               /\ stack'[v][k].ok /\ ~stack'[v][k].stale => ran'[event'[stack'[v][k].ev].chan]
    <3>1. CASE stack'[v][k] = new
      BY <1>6, <3>1
    <3>2. CASE k \in DOMAIN stack[v] /\ stack'[v][k] = stack[v][k]
      BY <1>2, <3>2 DEF IInv, Sane, Answered
    <3> QED
      BY <1>10, <3>1, <3>2
  <2>3. Unanswered(c)
    BY <1>5 DEF Unanswered
  <2>4. ASSUME NEW d \in Chans
        PROVE  /\ answer'[d] = "ok" => ran'[d] \/ Unanswered(d)'
               /\ Unanswered(d)' => answer'[d] # "lost"
    <3>1. answer'[d] = IF d = c THEN "ok" ELSE answer[d]
      BY <1>3, <1>6 DEF TypeOK
    <3> QED
      BY <1>2, <1>13, <2>3, <3>1 DEF IInv, Sane, Answered
  <2> QED
    BY <2>1, <2>2, <2>4 DEF Answered
<1>15. careful => Prudent'
  <2>1. careful => \A v \in Threads : \A k \in DOMAIN stack'[v] :
          ~stack'[v][k].stale /\ event'[stack'[v][k].ev].res # NULL
    BY <1>1, <1>2, <1>6, <1>10 DEF IInv, Sane, Prudent
  <2> QED
    BY <1>2, <1>13, <2>1 DEF IInv, Sane, Prudent
<1>16. careful => Frank'
  <2>1. ASSUME NEW d \in Chans, Replying(d)
        PROVE  Replying(d)'
    <3>1. PICK k \in DOMAIN stack[Owner(d)] :
            stack[Owner(d)][k].at = "reply" /\ event[stack[Owner(d)][k].ev].chan = d
      BY <2>1 DEF Replying
    <3>2. k \in DOMAIN stack'[Owner(d)] /\ stack'[Owner(d)][k] = stack[Owner(d)][k]
      <4>1. CASE Owner(d) = t
        BY <1>7, <4>1
      <4>2. CASE Owner(d) # t
        BY <1>7, <4>2
      <4> QED
        BY <4>1, <4>2
    <3> QED
      BY <1>2, <3>1, <3>2 DEF Replying
  <2>2. \A d \in Chans : answer'[d] = "lost" => answer[d] = "lost"
    BY <1>3, <1>6 DEF TypeOK
  <2> QED
    BY <1>2, <1>13, <2>1, <2>2 DEF IInv, Sane, Frank
<1> QED
  BY <1>2, <1>8, <1>9, <1>12, <1>14, <1>15, <1>16
  DEF IInv, Sane, CarefulIsSafe

\* The newest activation of ForwardProc in a thread.
LEMMA TopFacts ==
  ASSUME TypeOK, NEW t \in Threads, stack[t] # <<>>
  PROVE  /\ Len(stack[t]) \in Nat \ {0} /\ DOMAIN stack[t] = 1..Len(stack[t])
         /\ Len(stack[t]) \in DOMAIN stack[t] /\ Top(t) = stack[t][Len(stack[t])]
         /\ Top(t) \in Frame
<1>1. stack[t] \in Seq(Frame)
  BY DEF TypeOK
<1>2. Len(stack[t]) \in Nat \ {0} /\ DOMAIN stack[t] = 1..Len(stack[t])
  BY <1>1, EmptySeq, LenProperties
<1>3. Len(stack[t]) \in DOMAIN stack[t]
  BY <1>2
<1> QED
  BY <1>1, <1>2, <1>3, ElementOfSeq DEF Top, Last

\* EndMethod: the channel has been run, and an answer is on its way.
LEMMA EndMethodStep ==
  ASSUME IInv, Sound, NEW t \in Threads, EndMethod(t)
  PROVE  TypeOK' /\ CarefulIsSafe' /\ Sane'
<1> USE NotNull
<1> DEFINE n == Len(stack[t])
<1>1. /\ stack[t] # <<>> /\ Top(t).at = "method"
      /\ UNCHANGED <<interp, chan, interpMap, threadMap, phase, event, result, list,
                     queue, call, answer, lock, ops, careful, fault>>
  BY DEF EndMethod, InScript
<1>2. TypeOK
  BY DEF IInv
<1>3. /\ n \in Nat \ {0} /\ DOMAIN stack[t] = 1..n /\ n \in DOMAIN stack[t]
      /\ Top(t) = stack[t][n] /\ Top(t) \in Frame
  BY <1>1, <1>2, TopFacts
<1>4. PICK f \in Frame : f = stack[t][n] /\ f.at = "method"
  BY <1>1, <1>3
<1>5. Works(t, f)
  BY <1>3, <1>4 DEF IInv, Sane, Activations
<1>6. PICK c \in Chans : event[f.ev] # NULL /\ event[f.ev].chan = c /\ Owner(c) = t
  BY <1>2, <1>5, Types DEF Works, Frame
<1>7. /\ ran' = [ran EXCEPT ![c] = TRUE]
      /\ \/ life' = life
         \/ life[Handler[c]] = "doomed" /\ life' = [life EXCEPT ![Handler[c]] = "marking"]
  BY <1>3, <1>4, <1>6 DEF EndMethod
<1>8. PICK new \in Frame :
        /\ new.ev = f.ev /\ new.res = f.res /\ new.stale = f.stale /\ new.at = "reply"
        /\ stack' = [stack EXCEPT ![t][n] = new]
  <2>1. PICK ok \in BOOLEAN : stack' = [stack EXCEPT ![t][n].at = "reply", ![t][n].ok = ok]
    BY DEF EndMethod
  <2> DEFINE new == [f EXCEPT !.at = "reply", !.ok = ok]
  <2>2. new \in Frame /\ new.ev = f.ev /\ new.res = f.res /\ new.stale = f.stale /\ new.at = "reply"
    BY DEF Frame
  <2>3. stack' = [stack EXCEPT ![t][n] = new]
    BY <1>2, <1>3, <1>4, <2>1 DEF TypeOK, Frame
  <2> HIDE DEF new
  <2> QED
    BY <2>2, <2>3
<1>9. /\ \A v \in Threads : /\ stack'[v] \in Seq(Frame) /\ DOMAIN stack'[v] = DOMAIN stack[v]
                            /\ Len(stack'[v]) = Len(stack[v])
      /\ stack'[t][n] = new
      /\ \A v \in Threads : \A k \in DOMAIN stack[v] :
           (v # t \/ k # n) => stack'[v][k] = stack[v][k]
      /\ stack' \in [Threads -> Seq(Frame)]
  <2>1. stack[t] \in [1..n -> Frame]
    BY <1>2, LenProperties DEF TypeOK
  <2> DEFINE s == [stack[t] EXCEPT ![n] = new]
  <2>2. s \in [1..n -> Frame] /\ s[n] = new /\ \A k \in 1..n : k # n => s[k] = stack[t][k]
    BY <1>3, <1>8, <2>1
  <2> HIDE DEF s
  <2>3. s \in Seq(Frame) /\ DOMAIN s = 1..n
    BY <1>3, <2>2, SeqDef
  <2>4. Len(s) = n
    BY <1>3, <2>3, LenProperties
  <2>5. stack' = [stack EXCEPT ![t] = s]
    BY <1>8 DEF s
  <2>6. stack'[t] = s /\ (\A v \in Threads \ {t} : stack'[v] = stack[v])
        /\ stack' \in [Threads -> Seq(Frame)]
    BY <1>2, <2>3, <2>5 DEF TypeOK
  <2>7. \A v \in Threads : stack[v] \in Seq(Frame)
    BY <1>2 DEF TypeOK
  <2> QED
    BY <1>3, <2>2, <2>3, <2>4, <2>6, <2>7
<1> HIDE DEF n
<1>10. \A i \in Interps : \/ life'[i] = life[i]
                          \/ life[i] = "doomed" /\ life'[i] = "marking"
  BY <1>2, <1>7 DEF TypeOK
<1>11. \A d \in Chans : (ran[d] => ran'[d]) /\ (d # c => ran'[d] = ran[d])
  BY <1>2, <1>7 DEF TypeOK
<1>12. ran'[c]
  BY <1>2, <1>7 DEF TypeOK
<1>13. TypeOK'
  <2>1. ran' \in [Chans -> BOOLEAN]
    BY <1>2, <1>7 DEF TypeOK
  <2>2. life' \in [Interps -> {"live", "doomed", "marking", "cancelling", "gone"}]
    <3>1. CASE life' = life
      BY <1>2, <3>1 DEF TypeOK
    <3>2. CASE life' = [life EXCEPT ![Handler[c]] = "marking"]
      BY <1>2, <3>2 DEF TypeOK
    <3> QED
      BY <1>7, <3>1, <3>2
  <2>3. \A v \in Threads : Len(stack'[v]) <= MaxDepth
    BY <1>2, <1>9 DEF TypeOK
  <2> QED
    BY <1>1, <1>2, <1>9, <2>1, <2>2, <2>3 DEF TypeOK
<1>14. Calls' /\ Locked' /\ Owned' /\ Queues' /\ Pairs'
  BY <1>1, CallsSame, LockedSame, OwnedSame, QueuesSame, PairsSame DEF IInv, Sane
<1>15. ASSUME NEW v \in Threads, NEW k \in DOMAIN stack'[v]
       PROVE  /\ k \in DOMAIN stack[v]
              /\ stack'[v][k].ev = stack[v][k].ev /\ stack'[v][k].res = stack[v][k].res
              /\ stack'[v][k].stale = stack[v][k].stale
              /\ stack'[v][k].at = stack[v][k].at \/ (v = t /\ k = n)
  <2>1. CASE v = t /\ k = n
    BY <1>3, <1>4, <1>8, <1>9, <2>1
  <2>2. CASE ~(v = t /\ k = n)
    BY <1>9, <2>2
  <2> QED
    BY <2>1, <2>2
<1>16. Activations'
  <2>1. ASSUME NEW v \in Threads, NEW k \in DOMAIN stack'[v]
        PROVE  Works(v, stack[v][k])'
    <3>1. PICK g, h : g = stack'[v][k] /\ h = stack[v][k]
      OBVIOUS
    <3>2. Works(v, h) /\ g.ev = h.ev /\ g.res = h.res /\ g.stale = h.stale
      BY <1>15, <3>1 DEF IInv, Sane, Activations
    <3>3. Works(v, g)
      BY <3>2 DEF Works
    <3>4. Works(v, g)'
      BY <1>1, <3>3, WorksSame
    <3> QED
      BY <3>1, <3>4 DEF Works, Busy, Res
  <2>2. ASSUME NEW v \in Threads, NEW k \in DOMAIN stack'[v], NEW l \in DOMAIN stack'[v],
               stack'[v][l].ev = stack'[v][k].ev
        PROVE  k = l
    BY <1>15, <2>2 DEF IInv, Sane, Activations
  <2>3. \A v \in Threads : phase'[v] # "running" => stack'[v] = <<>>
    <3>1. \A v \in Threads : phase'[v] # "running" => v # t /\ stack[v] = <<>>
      BY <1>1 DEF IInv, Sane, Activations
    <3>2. \A v \in Threads \ {t} : stack'[v] = stack[v]
      BY <1>2, <1>8 DEF TypeOK
    <3> QED
      BY <3>1, <3>2
  <2> HIDE DEF Works
  <2> QED
    BY <2>1, <2>2, <2>3 DEF Activations
<1>17. \A d \in Chans : (Unanswered(d)' <=> Unanswered(d)) /\ (Closing(d)' <=> Closing(d))
  BY <1>1, StatesSame
<1>18. Mapped'
  BY <1>1, <1>10, <1>17 DEF IInv, Sane, Mapped
<1>19. Answered'
  <2>1. ASSUME NEW v \in Threads, NEW k \in DOMAIN stack'[v]
        PROVE  /\ k # Len(stack'[v]) => stack'[v][k].at = "method"
               /\ stack'[v][k].ok => stack'[v][k].at = "reply"
               /\ stack'[v][k].ok /\ ~stack'[v][k].stale => ran'[event'[stack'[v][k].ev].chan]
    <3>1. CASE v = t /\ k = n
      BY <1>1, <1>6, <1>8, <1>9, <1>12, <3>1 DEF n
    <3>2. CASE ~(v = t /\ k = n)
      <4>1. stack'[v][k] = stack[v][k] /\ k \in DOMAIN stack[v] /\ Len(stack'[v]) = Len(stack[v])
        BY <1>9, <3>2
      <4>2. event[stack[v][k].ev].chan \in Chans
        BY <1>2, <4>1, Types DEF IInv, Sane, Activations, Works
      <4> QED
        BY <1>1, <1>11, <4>1, <4>2 DEF IInv, Sane, Answered
    <3> QED
      BY <3>1, <3>2
  <2>2. \A d \in Chans : /\ answer'[d] = "ok" => ran'[d] \/ Unanswered(d)'
                         /\ Unanswered(d)' => answer'[d] # "lost"
    BY <1>1, <1>11, <1>17 DEF IInv, Sane, Answered
  <2> QED
    BY <2>1, <2>2 DEF Answered
<1>20. careful => Prudent'
  BY <1>1, <1>10, <1>15, <1>17 DEF IInv, Sane, Prudent
<1>21. careful => Frank'
  <2>1. Replying(c)'
    <3>1. n \in DOMAIN stack'[t] /\ stack'[t][n].at = "reply" /\ event'[stack'[t][n].ev].chan = c
      BY <1>1, <1>3, <1>6, <1>8, <1>9
    <3> QED
      BY <1>6, <3>1 DEF Replying
  <2>2. ASSUME NEW d \in Chans, d # c, Replying(d)
        PROVE  Replying(d)'
    <3>1. PICK k \in DOMAIN stack[Owner(d)] :
            stack[Owner(d)][k].at = "reply" /\ event[stack[Owner(d)][k].ev].chan = d
      BY <2>2 DEF Replying
    <3>2. k \in DOMAIN stack'[Owner(d)] /\ stack'[Owner(d)][k] = stack[Owner(d)][k]
      BY <1>4, <1>9, <3>1
    <3> QED
      BY <1>1, <3>1, <3>2 DEF Replying
  <2>3. careful => answer[c] # "lost"
    <3> SUFFICES ASSUME careful PROVE answer[c] # "lost"
      OBVIOUS
    <3>1. ~f.stale /\ event[f.ev].res # NULL /\ f.ev \in Events
      BY <1>3, <1>4 DEF IInv, Sane, Prudent, Frame
    <3>2. Busy(c) /\ Res(c) = f.res /\ event[f.ev].res = f.res
      BY <1>5, <1>6, <3>1 DEF Works
    <3>3. result[f.res].val = "pending"
      BY <1>6, <3>1, <3>2 DEF IInv, Sane, Pairs
    <3>4. Unanswered(c)
      BY <3>2, <3>3 DEF Unanswered
    <3> QED
      BY <3>4 DEF IInv, Sane, Answered
  <2> QED
    BY <1>1, <1>11, <1>17, <2>1, <2>2, <2>3 DEF IInv, Sane, Frank
<1> QED
  BY <1>1, <1>13, <1>14, <1>16, <1>18, <1>19, <1>20, <1>21
  DEF IInv, Sane, CarefulIsSafe

\* Reply: the result was not stale, so it is that of the call the user sleeps in.
LEMMA ReplyStep ==
  ASSUME IInv, Sound, NEW t \in Threads, Reply(t)
  PROVE  TypeOK' /\ CarefulIsSafe' /\ (Sound' => Sane')
<1> USE NotNull
<1> DEFINE n == Len(stack[t])
<1>1. /\ phase[t] = "running" /\ stack[t] # <<>> /\ Top(t).at = "reply" /\ lock = NULL
      /\ UNCHANGED <<interp, chan, life, phase, list, call, lock, ops, ran, careful>>
  BY DEF Reply
<1>2. TypeOK
  BY DEF IInv
<1>3. /\ n \in Nat \ {0} /\ DOMAIN stack[t] = 1..n /\ n \in DOMAIN stack[t]
      /\ Top(t) = stack[t][n] /\ Top(t) \in Frame
  BY <1>1, <1>2, TopFacts
<1>4. PICK f \in Frame : f = Top(t) /\ f = stack[t][n]
  BY <1>3
<1>5. f.ev \in Events /\ f.res \in Results /\ f.stale \in BOOLEAN /\ f.ok \in BOOLEAN
  BY DEF Frame
<1>6. Works(t, f)
  BY <1>3, <1>4 DEF IInv, Sane, Activations
<1>7. PICK e \in Events, r \in Results, c \in Chans :
        /\ f.ev = e /\ f.res = r /\ event[e] # NULL /\ event[e].chan = c /\ Owner(c) = t
  BY <1>2, <1>5, <1>6, Types DEF Works
<1> DEFINE close == event[e].op = "close"
           bad == IF close /\ interp[c] = NULL THEN "dead close"
                  ELSE IF f.stale THEN "late answer" ELSE "none"
<1>8. \/ /\ bad # "none" /\ fault' = bad
         /\ UNCHANGED <<interpMap, threadMap, event, result, queue, stack, answer>>
      \/ /\ bad = "none"
         /\ answer' = [answer EXCEPT ![c] = IF f.ok THEN @ ELSE "failed"]
         /\ interpMap' = [interpMap EXCEPT ![Handler[c]] = IF close THEN @ \ {c} ELSE @]
         /\ threadMap' = [threadMap EXCEPT ![t] = IF close THEN @ \ {c} ELSE @]
         /\ result' = [result EXCEPT ![r].val = "ok", ![r].notified = TRUE]
         /\ event' = [event EXCEPT ![e] = NULL]
         /\ queue' = [queue EXCEPT ![t] = Unlinked(t, e)]
         /\ stack' = [stack EXCEPT ![t] = Front(@)]
         /\ UNCHANGED fault
  <2>1. /\ Top(t).ev = e /\ Top(t).res = r /\ Top(t).stale = f.stale /\ Top(t).ok = f.ok
        /\ event[Top(t).ev].chan = c
    BY <1>4, <1>7
  <2> QED
    BY <2>1 DEF Reply
<1>9. CASE bad # "none"
  <2>1. fault' = bad /\ UNCHANGED <<interpMap, threadMap, event, result, queue, stack, answer>>
        /\ bad \in {"dead close", "late answer"}
    BY <1>8, <1>9
  <2>2. ~careful
    <3> SUFFICES ASSUME careful PROVE FALSE
      OBVIOUS
    <3>1. interp[c] # NULL
      BY <1>1, <1>7 DEF IInv, Sane, Prudent
    <3>2. ~f.stale
      BY <1>3, <1>4 DEF IInv, Sane, Prudent
    <3> QED
      BY <1>9, <3>1, <3>2
  <2> HIDE DEF bad
  <2> QED
    BY <1>1, <1>2, <2>1, <2>2 DEF TypeOK, CarefulIsSafe, Sound, Faults
<1>10. CASE bad = "none"
  <2>1. /\ (close => interp[c] # NULL) /\ ~f.stale
        /\ answer' = [answer EXCEPT ![c] = IF f.ok THEN @ ELSE "failed"]
        /\ interpMap' = [interpMap EXCEPT ![Handler[c]] = IF close THEN @ \ {c} ELSE @]
        /\ threadMap' = [threadMap EXCEPT ![t] = IF close THEN @ \ {c} ELSE @]
        /\ result' = [result EXCEPT ![r].val = "ok", ![r].notified = TRUE]
        /\ event' = [event EXCEPT ![e] = NULL]
        /\ queue' = [queue EXCEPT ![t] = Unlinked(t, e)]
        /\ stack' = [stack EXCEPT ![t] = Front(@)]
        /\ fault' = fault
    BY <1>5, <1>8, <1>10
  <2> HIDE DEF bad, close, n
  <2>2. /\ Busy(c) /\ Res(c) = r /\ call[User[c]].op = event[e].op
        /\ event[e].res \in {r, NULL} /\ (event[e].res = NULL => result[r].val # "pending")
    BY <1>6, <1>7, <2>1 DEF Works
  <2>3. result[r] # NULL /\ call[User[c]].at # "send" /\ result[r] \in ResultRec
    BY <1>2, <2>2 DEF Busy, Res, IInv, Sane, Calls, TypeOK
  <2>4. /\ result'[r] \in ResultRec /\ result'[r] # NULL
        /\ result'[r].dst = result[r].dst /\ result'[r].dsti = result[r].dsti
        /\ result'[r].ev = result[r].ev /\ result'[r].val = "ok" /\ result'[r].notified
        /\ \A x \in Results \ {r} : result'[x] = result[x]
    <3>1. PICK q \in ResultRec : q = result[r]
      BY <2>3
    <3> DEFINE new == [q EXCEPT !.val = "ok", !.notified = TRUE]
    <3>2. /\ new \in ResultRec /\ new.dst = q.dst /\ new.dsti = q.dsti /\ new.ev = q.ev
          /\ new.val = "ok" /\ new.notified
      BY DEF ResultRec
    <3>3. result' = [result EXCEPT ![r] = new]
      BY <1>2, <2>1, <3>1 DEF TypeOK, ResultRec
    <3> HIDE DEF new
    <3>4. result'[r] = new /\ \A x \in Results \ {r} : result'[x] = result[x]
      BY <1>2, <3>3 DEF TypeOK
    <3> QED
      BY <3>1, <3>2, <3>4
  <2>5. Contains(queue[t], e)
    BY <1>7 DEF IInv, Sane, Queues
  <2>6. /\ event'[e] = NULL /\ \A x \in Events \ {e} : event'[x] = event[x]
        /\ event' \in [Events -> EventRec \cup {NULL}]
        /\ queue' \in [Threads -> Seq(Events)]
        /\ Queues'
    BY <1>1, <1>2, <2>1, <2>5, FreedFacts DEF IInv, Sane
  <2>7. /\ stack'[t] \in Seq(Frame) /\ Len(stack'[t]) = n - 1 /\ DOMAIN stack'[t] = 1..(n - 1)
        /\ \A k \in 1..(n - 1) : stack'[t][k] = stack[t][k]
        /\ \A v \in Threads \ {t} : stack'[v] = stack[v]
        /\ stack' \in [Threads -> Seq(Frame)]
    <3>1. stack[t] \in Seq(Frame)
      BY <1>2 DEF TypeOK
    <3>2. PICK s : s = Front(stack[t])
      OBVIOUS
    <3>3. stack' = [stack EXCEPT ![t] = s]
      BY <2>1, <3>2
    <3>4. stack'[t] = s /\ \A v \in Threads \ {t} : stack'[v] = stack[v]
      BY <1>2, <3>3 DEF TypeOK
    <3>5. /\ s \in Seq(Frame) /\ Len(s) = n - 1 /\ DOMAIN s = 1..(n - 1)
          /\ \A k \in 1..(n - 1) : s[k] = stack[t][k]
      BY <1>1, <3>1, <3>2, FrontFacts DEF n
    <3>6. stack' \in [Threads -> Seq(Frame)]
      BY <1>2, <3>3, <3>5 DEF TypeOK
    <3> QED
      BY <3>4, <3>5, <3>6
  <2>8. TypeOK'
    <3>1. result' \in [Results -> ResultRec \cup {NULL}]
      <4>1. PICK x \in ResultRec : x = result'[r]
        BY <2>4
      <4>2. result' = [result EXCEPT ![r] = x]
        BY <1>2, <2>1, <4>1 DEF TypeOK
      <4> QED
        BY <1>2, <4>2 DEF TypeOK
    <3>2. answer' \in [Chans -> Answers]
      BY <1>2, <2>1 DEF TypeOK, Answers
    <3>3. interpMap' \in [Interps -> SUBSET Chans] /\ threadMap' \in [Threads -> SUBSET Chans]
      BY <1>2, <2>1 DEF TypeOK
    <3>4. \A v \in Threads : Len(stack'[v]) <= MaxDepth
      <4>1. n <= MaxDepth
        BY <1>2 DEF TypeOK, n
      <4>2. n - 1 <= MaxDepth
        BY <1>3, <4>1, ForwardAssumption
      <4> QED
        BY <1>2, <2>7, <4>2 DEF TypeOK
    <3> QED
      BY <1>1, <1>2, <2>1, <2>6, <2>7, <3>1, <3>2, <3>3, <3>4 DEF TypeOK
  <2>9. \A x \in Results : /\ result'[x] # NULL <=> result[x] # NULL
                           /\ result[x] # NULL => /\ result'[x].dst = result[x].dst
                                                  /\ result'[x].dsti = result[x].dsti
                           /\ result'[x].val = "pending" => x # r /\ result'[x] = result[x]
                           /\ result[x].val # "pending" => result'[x].val # "pending"
                           /\ x # r => result'[x] = result[x]
    BY <2>3, <2>4
  <2>10. Calls'
    <3> SUFFICES ASSUME NEW v \in Threads, call[v] # NULL
        PROVE
          /\ User[call[v].chan] = v /\ chan[call[v].chan] = "open"
          /\ call[v].at = "send" => /\ call[v].res = NULL /\ lock = v
                                    /\ phase[Owner(call[v].chan)] = "running"
          /\ call[v].at # "send" =>
               /\ call[v].res # NULL /\ result'[call[v].res] # NULL
               /\ result'[call[v].res].dst = Owner(call[v].chan)
               /\ result'[call[v].res].dsti \in {Handler[call[v].chan], NULL}
          /\ call[v].at = "wait" => call[v].res \in list
          /\ call[v].at = "free" => result'[call[v].res].val # "pending"
      BY <1>1 DEF Calls
    <3>1. call[v].at # "send" => call[v].res \in Results
      BY <1>2, Types DEF IInv, Sane, Calls
    <3> QED
      BY <2>9, <3>1 DEF IInv, Sane, Calls
  <2>11. Locked'
    BY <1>1, LockedSame DEF IInv, Sane
  <2>12. Owned'
    <3>1. \A x \in Results : result'[x] # NULL =>
            /\ \E v \in Threads : call'[v] # NULL /\ call'[v].res = x
            /\ result'[x].val # "pending" => result'[x].notified
      BY <1>1, <2>4, <2>9 DEF IInv, Sane, Owned
    <3> QED
      BY <1>1, <3>1 DEF IInv, Sane, Owned
  <2>13. \A d \in Chans : d # c => ~(Busy(d) /\ Res(d) = r)
    <3> SUFFICES ASSUME NEW d \in Chans, Busy(d), Res(d) = r PROVE d = c
      OBVIOUS
    <3>1. User[d] = User[c]
      BY <2>2 DEF IInv, Sane, Owned, Busy, Res
    <3> QED
      BY <2>2, <3>1 DEF Busy
  <2>14. Pairs'
    <3>1. ASSUME NEW x \in Results, result'[x] # NULL, result'[x].val = "pending"
          PROVE  /\ phase'[result'[x].dst] = "running" /\ result'[x].ev # NULL
                 /\ event'[result'[x].ev] # NULL /\ event'[result'[x].ev].res = x
                 /\ Owner(event'[result'[x].ev].chan) = result'[x].dst
      <4>1. x # r /\ result'[x] = result[x] /\ result[x].ev \in Events \cup {NULL}
        BY <1>2, <2>9, <3>1, Types
      <4>2. result[x].ev # e
        BY <2>2, <3>1, <4>1 DEF IInv, Sane, Pairs
      <4> QED
        BY <1>1, <2>6, <3>1, <4>1, <4>2 DEF IInv, Sane, Pairs
    <3>2. ASSUME NEW x \in Events, event'[x] # NULL, event'[x].res # NULL
          PROVE  LET q == event'[x].res IN
                 /\ result'[q] # NULL /\ result'[q].val = "pending" /\ result'[q].ev = x
                 /\ Busy(event[x].chan)' /\ Res(event[x].chan)' = q
                 /\ call'[User[event'[x].chan]].op = event'[x].op
      <4>1. x # e /\ event'[x] = event[x]
        BY <2>6, <3>2
      <4>2. PICK d \in Chans, q \in Results :
              /\ event[x].res = q /\ event[x].chan = d
              /\ result[q] # NULL /\ result[q].val = "pending" /\ result[q].ev = x
              /\ Busy(d) /\ Res(d) = q /\ call[User[d]].op = event[x].op
        BY <1>2, <3>2, <4>1, Types DEF IInv, Sane, Pairs
      <4>3. q # r
        <5> SUFFICES ASSUME q = r PROVE FALSE
          OBVIOUS
        <5>1. event[e].res = r
          BY <2>2, <4>2
        <5>2. result[r].ev = e
          BY <1>7, <5>1 DEF IInv, Sane, Pairs
        <5> QED
          BY <4>1, <4>2, <5>2
      <4>4. result'[q] = result[q] /\ event'[x].chan = d
        BY <2>9, <4>1, <4>2, <4>3
      <4>5. Busy(event[x].chan)' /\ Res(event[x].chan)' = q
        BY <1>1, <4>2, <4>4 DEF Busy, Res
      <4> QED
        BY <1>1, <4>1, <4>2, <4>4, <4>5
    <3> QED
      BY <3>1, <3>2 DEF Pairs, Busy, Res
  <2>15. ASSUME NEW v \in Threads, NEW k \in DOMAIN stack'[v]
         PROVE  /\ k \in DOMAIN stack[v] /\ stack'[v][k] = stack[v][k]
                /\ v = t => k \in 1..(n - 1) /\ k # n
    <3>1. CASE v = t
      <4>1. k \in 1..(n - 1) /\ k \in 1..n /\ k # n
        BY <1>3, <2>7, <3>1
      <4> QED
        BY <1>3, <2>7, <3>1, <4>1 DEF n
    <3>2. CASE v # t
      BY <2>7, <3>2
    <3> QED
      BY <3>1, <3>2
  <2>16. ASSUME NEW v \in Threads, NEW k \in DOMAIN stack'[v]
         PROVE  /\ stack[v][k].ev \in Events \ {e}
                /\ event'[stack[v][k].ev] = event[stack[v][k].ev]
                /\ Works(v, stack[v][k])'
    <3>1. PICK g \in Frame : g = stack'[v][k] /\ g = stack[v][k] /\ k \in DOMAIN stack[v]
      BY <1>2, <2>15, ElementOfSeq, LenProperties DEF TypeOK
    <3>2. Works(v, g) /\ g.ev \in Events /\ g.res \in Results
      BY <3>1 DEF IInv, Sane, Activations, Frame
    <3>3. g.ev # e
      <4>1. CASE v = t
        BY <1>3, <1>4, <1>7, <2>15, <3>1, <4>1 DEF IInv, Sane, Activations
      <4>2. CASE v # t
        BY <1>7, <3>2, <4>2 DEF Works
      <4> QED
        BY <4>1, <4>2
    <3>4. event'[g.ev] = event[g.ev]
      BY <2>6, <3>2, <3>3
    <3>5. Works(v, g)'
      BY <1>1, <2>9, <3>2, <3>4 DEF Works, Busy, Res
    <3>6. Works(v, stack[v][k])'
      BY <3>1, <3>5 DEF Works, Busy, Res
    <3> QED
      BY <3>1, <3>2, <3>3, <3>4, <3>6
  <2>17. Activations'
    <3>1. ASSUME NEW v \in Threads, NEW k \in DOMAIN stack'[v], NEW l \in DOMAIN stack'[v],
                 stack'[v][l].ev = stack'[v][k].ev
          PROVE  k = l
      BY <2>15, <3>1 DEF IInv, Sane, Activations
    <3>2. \A v \in Threads : phase'[v] # "running" => stack'[v] = <<>>
      BY <1>1, <2>7 DEF IInv, Sane, Activations
    <3> HIDE DEF Works
    <3> QED
      BY <2>16, <3>1, <3>2 DEF Activations
  <2>18. ASSUME NEW d \in Chans
         PROVE  /\ Unanswered(d)' <=> Unanswered(d) /\ d # c
                /\ Closing(d) => Closing(d)'
                /\ Busy(d) => Res(d) \in Results \cup {NULL}
    <3>1. Busy(d) => Res(d) \in Results \cup {NULL}
      BY <1>2, Types DEF Busy, Res
    <3>2. ~Unanswered(c)'
      BY <1>1, <2>2, <2>3, <2>4 DEF Unanswered, Busy, Res
    <3>3. d # c => (Unanswered(d)' <=> Unanswered(d))
      <4> SUFFICES ASSUME d # c, Busy(d), call[User[d]].at # "send"
                   PROVE  result'[Res(d)].val = result[Res(d)].val
        BY <1>1 DEF Unanswered, Busy, Res
      <4>1. Res(d) \in Results /\ Res(d) # r
        BY <2>13, <3>1 DEF IInv, Sane, Calls, Busy, Res
      <4> QED
        BY <2>9, <4>1
    <3>4. Unanswered(d)' => Unanswered(d)
      BY <3>2, <3>3
    <3>5. Closing(d) => Closing(d)'
      BY <1>1, <3>4 DEF Closing, Busy
    <3> QED
      BY <3>1, <3>2, <3>3, <3>5
  <2>19. /\ \A i \in Interps : interpMap'[i] \subseteq interpMap[i]
         /\ \A v \in Threads : threadMap'[v] \subseteq threadMap[v]
         /\ \A d \in Chans \ {c} : /\ \A i \in Interps : d \in interpMap'[i] <=> d \in interpMap[i]
                                   /\ \A v \in Threads : d \in threadMap'[v] <=> d \in threadMap[v]
         /\ ~close => interpMap' = interpMap /\ threadMap' = threadMap
    BY <1>2, <2>1 DEF TypeOK
  <2>20. Mapped'
    <3>1. ASSUME NEW d \in Chans, chan'[d] = "open", interp'[d] # NULL
          PROVE  Closing(d)' \/ (d \in threadMap'[Owner(d)] /\ d \in interpMap'[Handler[d]])
      <4>1. CASE d = c /\ close
        BY <1>1, <2>2, <2>18, <4>1 DEF Closing, Busy, close
      <4>2. CASE ~(d = c /\ close)
        <5>1. Closing(d) \/ (d \in threadMap[Owner(d)] /\ d \in interpMap[Handler[d]])
          BY <1>1, <3>1 DEF IInv, Sane, Mapped
        <5>2. /\ d \in threadMap[Owner(d)] => d \in threadMap'[Owner(d)]
              /\ d \in interpMap[Handler[d]] => d \in interpMap'[Handler[d]]
          BY <2>19, <4>2
        <5> QED
          BY <2>18, <5>1, <5>2
      <4> QED
        BY <4>1, <4>2
    <3>2. \A d \in Chans : interp'[d] \in {Handler[d], NULL}
      BY <1>1 DEF IInv, Sane, Mapped
    <3>3. \A v \in Threads : /\ \A d \in threadMap'[v] : Owner(d) = v
                             /\ phase'[v] # "running" => threadMap'[v] = {}
      BY <1>1, <2>19 DEF IInv, Sane, Mapped
    <3>4. \A i \in Interps : /\ \A d \in interpMap'[i] : Handler[d] = i
                             /\ life'[i] \in {"cancelling", "gone"} => interpMap'[i] = {}
      BY <1>1, <2>19 DEF IInv, Sane, Mapped
    <3> QED
      BY <3>1, <3>2, <3>3, <3>4 DEF Mapped
  <2>21. Answered'
    <3>1. ASSUME NEW v \in Threads, NEW k \in DOMAIN stack'[v]
          PROVE  /\ k # Len(stack'[v]) => stack'[v][k].at = "method"
                 /\ stack'[v][k].ok => stack'[v][k].at = "reply"
                 /\ stack'[v][k].ok /\ ~stack'[v][k].stale => ran'[event'[stack'[v][k].ev].chan]
      <4>1. k \in DOMAIN stack[v] /\ stack'[v][k] = stack[v][k]
            /\ event'[stack[v][k].ev] = event[stack[v][k].ev] /\ ran' = ran
        BY <1>1, <2>15, <2>16
      <4>2. k # Len(stack'[v]) => stack[v][k].at = "method"
        <5>1. CASE v = t
          BY <2>15, <5>1 DEF IInv, Sane, Answered, n
        <5>2. CASE v # t
          BY <2>7, <4>1, <5>2 DEF IInv, Sane, Answered
        <5> QED
          BY <5>1, <5>2
      <4>3. /\ stack[v][k].ok => stack[v][k].at = "reply"
            /\ stack[v][k].ok /\ ~stack[v][k].stale => ran[event[stack[v][k].ev].chan]
        BY <4>1 DEF IInv, Sane, Answered
      <4> QED
        BY <4>1, <4>2, <4>3
    <3>2. ASSUME NEW d \in Chans
          PROVE  /\ answer'[d] = "ok" => ran'[d] \/ Unanswered(d)'
                 /\ Unanswered(d)' => answer'[d] # "lost"
      <4>1. CASE d # c
        BY <1>1, <1>2, <2>1, <2>18, <4>1 DEF IInv, Sane, Answered, TypeOK
      <4>2. CASE d = c
        <5>1. f.ok => ran[c]
          BY <1>3, <1>4, <1>7, <2>1 DEF IInv, Sane, Answered
        <5>2. answer'[c] = "ok" => f.ok
          BY <1>2, <2>1 DEF TypeOK
        <5> QED
          BY <1>1, <2>18, <4>2, <5>1, <5>2
      <4> QED
        BY <4>1, <4>2
    <3> QED
      BY <3>1, <3>2 DEF Answered
  <2>22. careful => Prudent'
    <3>1. careful => \A v \in Threads : \A k \in DOMAIN stack'[v] :
            ~stack'[v][k].stale /\ event'[stack'[v][k].ev].res # NULL
      BY <2>15, <2>16 DEF IInv, Sane, Prudent
    <3> QED
      BY <1>1, <2>18, <2>19, <3>1 DEF IInv, Sane, Prudent
  <2>23. careful => Frank'
    <3>1. ASSUME NEW d \in Chans, d # c, Replying(d) PROVE Replying(d)'
      <4>1. PICK k \in DOMAIN stack[Owner(d)] :
              stack[Owner(d)][k].at = "reply" /\ event[stack[Owner(d)][k].ev].chan = d
        BY <3>1 DEF Replying
      <4>2. Owner(d) # t
        <5> SUFFICES ASSUME Owner(d) = t PROVE FALSE
          OBVIOUS
        <5>1. k = n
          BY <4>1 DEF IInv, Sane, Answered, n
        <5> QED
          BY <1>4, <1>7, <3>1, <4>1, <5>1
      <4>3. k \in DOMAIN stack'[Owner(d)] /\ stack'[Owner(d)][k] = stack[Owner(d)][k]
        BY <2>7, <4>2
      <4> QED
        BY <2>16, <4>1, <4>3 DEF Replying
    <3>2. \A d \in Chans : answer'[d] = "lost" => answer[d] = "lost"
      BY <1>2, <2>1 DEF TypeOK
    <3> QED
      BY <1>1, <2>18, <3>1, <3>2 DEF IInv, Sane, Frank
  <2> QED
    BY <1>1, <2>1, <2>6, <2>8, <2>10, <2>11, <2>12, <2>14, <2>17, <2>20, <2>21, <2>22, <2>23
    DEF IInv, Sane, CarefulIsSafe
<1> QED
  BY <1>9, <1>10

\* DeleteInterp: a careful owner has nothing left to answer for the interpreter.
LEMMA DeleteInterpStep ==
  ASSUME IInv, Sound, NEW t \in Threads, NEW i \in Interps, DeleteInterp(t, i)
  PROVE  TypeOK' /\ CarefulIsSafe' /\ Sane'
<1> USE NotNull
<1>1. /\ phase[t] = "running" /\ Home[i] = t
      /\ careful => Settled(t) /\ interpMap[i] = {}
      /\ UNCHANGED <<interp, chan, interpMap, threadMap, phase, event, result, list,
                     queue, stack, call, answer, lock, ops, ran, careful, fault>>
  BY DEF DeleteInterp, InScript
<1>2. TypeOK
  BY DEF IInv
<1>3. PICK l \in {"doomed", "marking"} : life' = [life EXCEPT ![i] = l]
  <2>1. PICK used \in BOOLEAN :
          used = \E k \in DOMAIN stack[t] : Handler[event[stack[t][k].ev].chan] = i
    OBVIOUS
  <2>2. life' = [life EXCEPT ![i] = IF used THEN "doomed" ELSE "marking"]
    BY <2>1 DEF DeleteInterp
  <2> QED
    BY <2>2
<1>4. \A j \in Interps : life'[j] = IF j = i THEN l ELSE life[j]
  BY <1>2, <1>3 DEF TypeOK
<1>5. TypeOK'
  <2>1. life' \in [Interps -> {"live", "doomed", "marking", "cancelling", "gone"}]
    BY <1>2, <1>3 DEF TypeOK
  <2> QED
    BY <1>1, <1>2, <2>1 DEF TypeOK
<1>6. Calls' /\ Locked' /\ Owned' /\ Queues' /\ Pairs' /\ Activations' /\ Answered'
  BY <1>1, CallsSame, LockedSame, OwnedSame, QueuesSame, PairsSame, ActivationsSame,
     AnsweredSame DEF IInv, Sane
<1>7. \A d \in Chans : Closing(d)' <=> Closing(d)
  BY <1>1, StatesSame
<1>8. Mapped'
  BY <1>1, <1>4, <1>7 DEF IInv, Sane, Mapped
<1>9. careful => Prudent'
  <2>1. ASSUME careful, NEW d \in Chans, Handler[d] = i, chan[d] = "open"
        PROVE  Closing(d) /\ call[User[d]].at = "free"
    <3>1. Owner(d) = t
      BY <1>1, <2>1 DEF Owner
    <3>2. interp[d] # NULL /\ interpMap[i] = {}
      BY <1>1, <2>1, <3>1 DEF IInv, Sane, Prudent
    <3>3. Closing(d)
      BY <2>1, <3>2 DEF IInv, Sane, Mapped
    <3>4. call[User[d]].at # "wait"
      <4> SUFFICES ASSUME call[User[d]].at = "wait" PROVE FALSE
        OBVIOUS
      <4>1. Res(d) \in list /\ result[Res(d)].dst = t
        BY <3>1, <3>3 DEF IInv, Sane, Calls, Closing, Busy, Res
      <4>2. result[Res(d)].val = "pending"
        BY <1>1, <2>1, <4>1 DEF Settled
      <4> QED
        BY <3>3, <4>2 DEF Closing, Unanswered
    <3> QED
      BY <1>2, <3>3, <3>4, Types DEF Closing, Unanswered, Busy
  <2> QED
    BY <1>1, <1>4, <1>7, <2>1 DEF IInv, Sane, Prudent
<1>10. careful => Frank'
  BY <1>1, FrankSame DEF IInv, Sane
<1> QED
  BY <1>1, <1>5, <1>6, <1>8, <1>9, <1>10 DEF IInv, Sane, CarefulIsSafe

\* MarkDead: with careful owners there is no channel left to mark.
LEMMA MarkDeadStep ==
  ASSUME IInv, Sound, NEW i \in Interps, MarkDead(i)
  PROVE  TypeOK' /\ CarefulIsSafe' /\ Sane'
<1> USE NotNull
<1>1. /\ life[i] = "marking"
      /\ interp' = [c \in Chans |-> IF c \in interpMap[i] THEN NULL ELSE interp[c]]
      /\ interpMap' = [interpMap EXCEPT ![i] = {}]
      /\ life' = [life EXCEPT ![i] = "cancelling"]
      /\ UNCHANGED <<chan, threadMap, phase, event, result, list, queue, stack, call,
                     answer, lock, ops, ran, careful, fault>>
  BY DEF MarkDead
<1>2. TypeOK
  BY DEF IInv
<1>3. /\ \A j \in Interps : /\ life'[j] = IF j = i THEN "cancelling" ELSE life[j]
                            /\ interpMap'[j] = IF j = i THEN {} ELSE interpMap[j]
      /\ \A d \in Chans : interp'[d] = IF d \in interpMap[i] THEN NULL ELSE interp[d]
  BY <1>1, <1>2 DEF TypeOK
<1>4. TypeOK'
  BY <1>1, <1>2 DEF TypeOK
<1>5. Calls' /\ Locked' /\ Owned' /\ Queues' /\ Pairs' /\ Activations' /\ Answered'
  BY <1>1, CallsSame, LockedSame, OwnedSame, QueuesSame, PairsSame, ActivationsSame,
     AnsweredSame DEF IInv, Sane
<1>6. \A d \in Chans : Closing(d)' <=> Closing(d)
  BY <1>1, StatesSame
<1>7. Mapped'
  BY <1>1, <1>3, <1>6 DEF IInv, Sane, Mapped
<1>8. careful => Prudent'
  <2> SUFFICES ASSUME careful PROVE Prudent'
    OBVIOUS
  <2>1. interpMap[i] = {}
    <3> SUFFICES ASSUME NEW d \in interpMap[i] PROVE FALSE
      OBVIOUS
    <3>1. d \in Chans /\ Handler[d] = i
      BY <1>2 DEF IInv, Sane, Mapped, TypeOK
    <3> QED
      BY <1>1, <3>1 DEF IInv, Sane, Prudent
  <2> QED
    BY <1>1, <1>3, <1>6, <2>1 DEF IInv, Sane, Prudent
<1>9. careful => Frank'
  BY <1>1, FrankSame DEF IInv, Sane
<1> QED
  BY <1>1, <1>4, <1>5, <1>7, <1>8, <1>9 DEF IInv, Sane, CarefulIsSafe

\* Finalize: what is left in the queue of the thread nobody waits for.
LEMMA FinalizeStep ==
  ASSUME IInv, Sound, NEW t \in Threads, Finalize(t)
  PROVE  TypeOK' /\ CarefulIsSafe' /\ Sane'
<1> USE NotNull
<1>1. /\ phase[t] = "exiting" /\ call[t] = NULL
      /\ phase' = [phase EXCEPT ![t] = "gone"]
      /\ event' = [e \in Events |-> IF Contains(queue[t], e) THEN NULL ELSE event[e]]
      /\ queue' = [queue EXCEPT ![t] = <<>>]
      /\ UNCHANGED <<interp, chan, interpMap, threadMap, life, result, list, stack,
                     call, answer, lock, ops, ran, careful, fault>>
  BY DEF Finalize
<1>2. TypeOK
  BY DEF IInv
<1>3. /\ \A v \in Threads : /\ phase'[v] = IF v = t THEN "gone" ELSE phase[v]
                            /\ queue'[v] = IF v = t THEN <<>> ELSE queue[v]
      /\ \A e \in Events : event'[e] = IF Contains(queue[t], e) THEN NULL ELSE event[e]
  BY <1>1, <1>2 DEF TypeOK
<1>4. TypeOK'
  <2>1. phase' \in [Threads -> {"running", "exiting", "gone"}]
    BY <1>1, <1>2 DEF TypeOK
  <2>2. event' \in [Events -> EventRec \cup {NULL}]
    BY <1>1, <1>2 DEF TypeOK
  <2>3. queue' \in [Threads -> Seq(Events)]
    BY <1>1, <1>2, EmptyFacts DEF TypeOK
  <2> QED
    BY <1>1, <1>2, <2>1, <2>2, <2>3 DEF TypeOK
<1>5. Locked' /\ Owned'
  BY <1>1, LockedSame, OwnedSame DEF IInv, Sane
<1>6. Calls'
  BY <1>1, <1>3, Types DEF IInv, Sane, Calls
<1>7. \A e \in Events : Contains(queue[t], e) =>
        event[e] # NULL /\ Owner(event[e].chan) = t /\ event[e].res = NULL
  <2> SUFFICES ASSUME NEW e \in Events, Contains(queue[t], e), event[e].res # NULL
               PROVE  FALSE
    BY DEF IInv, Sane, Queues
  <2>1. event[e] # NULL /\ Owner(event[e].chan) = t
    BY DEF IInv, Sane, Queues
  <2>2. PICK r \in Results : r = event[e].res
    BY <1>2, <2>1, Types
  <2>3. result[r] # NULL /\ result[r].val = "pending" /\ result[r].ev = e
    BY <2>1, <2>2 DEF IInv, Sane, Pairs
  <2>4. phase[t] = "running"
    BY <2>1, <2>3 DEF IInv, Sane, Pairs
  <2> QED
    BY <1>1, <2>4
<1>8. Queues'
  <2>1. ASSUME NEW x \in Events, event'[x] # NULL
        PROVE  Contains(queue'[Owner(event'[x].chan)], x)
    <3>1. event'[x] = event[x] /\ ~Contains(queue[t], x)
      BY <1>3, <2>1
    <3>2. PICK v \in Threads : v = Owner(event[x].chan)
      BY <1>2, <2>1, <3>1, Types
    <3>3. Contains(queue[v], x)
      BY <2>1, <3>1, <3>2 DEF IInv, Sane, Queues
    <3> QED
      BY <1>3, <3>1, <3>2, <3>3
  <2>2. ASSUME NEW v \in Threads, NEW x \in Events, Contains(queue'[v], x)
        PROVE  event'[x] # NULL /\ Owner(event'[x].chan) = v
    <3>1. v # t /\ Contains(queue[v], x)
      BY <1>3, <2>2, EmptyFacts
    <3>2. event[x] # NULL /\ Owner(event[x].chan) = v
      BY <3>1 DEF IInv, Sane, Queues
    <3> QED
      BY <1>3, <1>7, <3>1, <3>2
  <2>3. \A v \in Threads : /\ Injective(queue'[v])
                           /\ phase'[v] = "gone" => queue'[v] = <<>>
    BY <1>3, EmptyFacts DEF IInv, Sane, Queues
  <2> QED
    BY <2>1, <2>2, <2>3 DEF Queues
<1>9. Pairs'
  <2>1. ASSUME NEW x \in Results, result'[x] # NULL, result'[x].val = "pending"
        PROVE  /\ phase'[result'[x].dst] = "running" /\ result'[x].ev # NULL
               /\ event'[result'[x].ev] # NULL /\ event'[result'[x].ev].res = x
               /\ Owner(event'[result'[x].ev].chan) = result'[x].dst
    <3>1. /\ result'[x] = result[x] /\ result[x].ev \in Events /\ result[x].dst \in Threads
          /\ phase[result[x].dst] = "running" /\ event[result[x].ev] # NULL
          /\ event[result[x].ev].res = x
          /\ Owner(event[result[x].ev].chan) = result[x].dst
      BY <1>1, <1>2, <2>1, Types DEF IInv, Sane, Pairs
    <3>2. ~Contains(queue[t], result[x].ev) /\ result[x].dst # t
      BY <1>1, <1>7, <3>1
    <3> QED
      BY <1>3, <3>1, <3>2
  <2>2. ASSUME NEW x \in Events, event'[x] # NULL, event'[x].res # NULL
        PROVE  LET q == event'[x].res IN
               /\ result'[q] # NULL /\ result'[q].val = "pending" /\ result'[q].ev = x
               /\ Busy(event[x].chan)' /\ Res(event[x].chan)' = q
               /\ call'[User[event'[x].chan]].op = event'[x].op
    <3>1. event'[x] = event[x] /\ result' = result /\ call' = call
      BY <1>1, <1>3, <2>2
    <3> QED
      BY <2>2, <3>1 DEF IInv, Sane, Pairs, Busy, Res
  <2> QED
    BY <2>1, <2>2 DEF Pairs, Busy, Res
<1>10. stack[t] = <<>>
  BY <1>1 DEF IInv, Sane, Activations
<1>11. ASSUME NEW v \in Threads, NEW k \in DOMAIN stack[v]
       PROVE  /\ stack[v][k].ev \in Events /\ event'[stack[v][k].ev] = event[stack[v][k].ev]
              /\ Works(v, stack[v][k])'
  <2>1. Works(v, stack[v][k]) /\ stack[v][k].ev \in Events
    BY <1>2, Types DEF IInv, Sane, Activations
  <2>2. v # t
    BY <1>10, EmptyFacts
  <2>3. event'[stack[v][k].ev] = event[stack[v][k].ev]
    BY <1>3, <1>7, <2>1, <2>2 DEF Works
  <2>4. Works(v, stack[v][k])'
    BY <1>1, <2>1, <2>3 DEF Works, Busy, Res
  <2> QED
    BY <2>1, <2>3, <2>4
<1>12. Activations'
  BY <1>1, <1>3, <1>10, <1>11 DEF IInv, Sane, Activations
<1>13. \A d \in Chans : /\ Replying(d)' <=> Replying(d)
                        /\ Unanswered(d)' <=> Unanswered(d)
                        /\ Closing(d)' <=> Closing(d)
  BY <1>1, <1>11, StatesSame DEF Replying
<1>14. Mapped'
  BY <1>1, <1>3, <1>13 DEF IInv, Sane, Mapped
<1>15. Answered'
  BY <1>1, <1>11, <1>13 DEF IInv, Sane, Answered
<1>16. careful => Prudent'
  <2>1. ASSUME careful, NEW v \in Threads, NEW k \in DOMAIN stack[v]
        PROVE  ~stack[v][k].stale /\ event'[stack[v][k].ev].res # NULL
    <3>1. event'[stack[v][k].ev] = event[stack[v][k].ev]
      BY <1>11
    <3> QED
      BY <2>1, <3>1 DEF IInv, Sane, Prudent
  <2>2. \A v \in Threads : phase[v] # "running" => phase'[v] # "running"
    BY <1>3
  <2> QED
    BY <1>1, <1>13, <2>1, <2>2 DEF IInv, Sane, Prudent
<1>17. careful => Frank'
  BY <1>1, <1>13 DEF IInv, Sane, Frank
<1> QED
  BY <1>1, <1>4, <1>5, <1>6, <1>8, <1>9, <1>12, <1>14, <1>15, <1>16, <1>17
  DEF IInv, Sane, CarefulIsSafe

\* The events, results and answers after a cancellation that goes well: what was
\* cancelled had not been answered.
LEMMA CancelFacts ==
  ASSUME IInv, Sound, NEW S, S \subseteq list, Cancel(S), Sound'
  PROVE  /\ event' \in [Events -> EventRec \cup {NULL}]
         /\ result' \in [Results -> ResultRec \cup {NULL}]
         /\ answer' \in [Chans -> Answers] /\ fault' = fault
         /\ \A r \in S : result[r] # NULL /\ result[r].val = "pending"
         /\ \A r \in Results :
              /\ r \notin S => result'[r] = result[r]
              /\ r \in S => /\ result'[r] # NULL /\ result'[r].val = "error"
                            /\ result'[r].notified
                            /\ result'[r].dst = result[r].dst
                            /\ result'[r].dsti = result[r].dsti
         /\ \A e \in Events :
              /\ event'[e] # NULL <=> event[e] # NULL
              /\ event[e] # NULL => /\ event'[e].chan = event[e].chan
                                    /\ event'[e].op = event[e].op
                                    /\ event'[e].res = IF event[e].res \in S THEN NULL
                                                       ELSE event[e].res
         /\ \A c \in Chans :
              \/ answer'[c] = answer[c] /\ ~(Busy(c) /\ Res(c) \in S)
              \/ answer'[c] = "lost" /\ Busy(c) /\ Res(c) \in S
<1> USE NotNull
<1> DEFINE bad == IF \E r \in S : result[r].ev = NULL THEN "cancelled twice"
                  ELSE IF \E r \in S : \/ event[result[r].ev] = NULL
                                       \/ event[result[r].ev].res # r THEN "event freed"
                  ELSE "none"
           hit == {result[r].ev : r \in S}
<1>1. TypeOK /\ S \subseteq Results
  BY DEF IInv, TypeOK
<1>2. /\ bad = "none" /\ fault' = fault
      /\ answer' = Told(hit)
      /\ event' = [e \in Events |-> IF e \in hit THEN [event[e] EXCEPT !.res = NULL]
                                    ELSE event[e]]
      /\ result' = [r \in Results |-> IF r \in S THEN Cancelled(result[r]) ELSE result[r]]
  BY DEF Cancel, Sound
<1>3. \A r \in S : /\ result[r].ev # NULL /\ event[result[r].ev] # NULL
                   /\ event[result[r].ev].res = r
  BY <1>2
<1> HIDE DEF bad
<1>4. \A r \in S : /\ result[r] # NULL /\ result[r] \in ResultRec
                   /\ result[r].ev \in Events /\ result[r].val = "pending"
                   /\ Busy(event[result[r].ev].chan) /\ Res(event[result[r].ev].chan) = r
                   /\ event[result[r].ev].chan \in Chans
  <2> SUFFICES ASSUME NEW r \in S
               PROVE  /\ result[r] # NULL /\ result[r] \in ResultRec
                      /\ result[r].ev \in Events /\ result[r].val = "pending"
                      /\ Busy(event[result[r].ev].chan) /\ Res(event[result[r].ev].chan) = r
                      /\ event[result[r].ev].chan \in Chans
    OBVIOUS
  <2>1. result[r] # NULL
    BY <1>1 DEF IInv, Sane, Owned, Calls
  <2>2. PICK e \in Events : e = result[r].ev
    BY <1>1, <1>3, <2>1, Types
  <2>3. event[e] # NULL /\ event[e].res = r /\ r \in Results
    BY <1>1, <1>3, <2>2
  <2>4. result[r].val = "pending" /\ Busy(event[e].chan) /\ Res(event[e].chan) = r
    BY <2>3 DEF IInv, Sane, Pairs
  <2> QED
    BY <1>1, <2>1, <2>2, <2>3, <2>4, Types DEF TypeOK
<1>5. \A e \in Events : event[e] # NULL => (e \in hit <=> event[e].res \in S)
  <2> SUFFICES ASSUME NEW e \in Events, event[e] # NULL
               PROVE  e \in hit <=> event[e].res \in S
    OBVIOUS
  <2>1. ASSUME e \in hit PROVE event[e].res \in S
    BY <1>3, <2>1
  <2>2. ASSUME event[e].res \in S PROVE e \in hit
    <3>1. result[event[e].res].ev = e
      BY <1>1, <2>2 DEF IInv, Sane, Pairs
    <3> QED
      BY <2>2, <3>1
  <2> QED
    BY <2>1, <2>2
<1>6. \A e \in hit : e \in Events /\ event[e] # NULL
  BY <1>3, <1>4
<1>7. ASSUME NEW e \in Events
      PROVE  /\ event'[e] # NULL <=> event[e] # NULL
             /\ event[e] # NULL => /\ event'[e].chan = event[e].chan
                                   /\ event'[e].op = event[e].op
                                   /\ event'[e].res = IF event[e].res \in S THEN NULL
                                                      ELSE event[e].res
             /\ event'[e] \in EventRec \cup {NULL}
  <2>1. CASE event[e] # NULL /\ event[e].res \in S
    <3>1. PICK x \in EventRec : x = event[e]
      BY <1>1, <2>1 DEF TypeOK
    <3>2. event'[e] = [x EXCEPT !.res = NULL]
      BY <1>2, <1>5, <2>1, <3>1
    <3>3. /\ event'[e] \in EventRec /\ event'[e].chan = x.chan /\ event'[e].op = x.op
          /\ event'[e].res = NULL
      BY <3>2 DEF EventRec
    <3> QED
      BY <2>1, <3>1, <3>3
  <2>2. CASE ~(event[e] # NULL /\ event[e].res \in S)
    <3>1. event'[e] = event[e]
      BY <1>2, <1>5, <1>6, <2>2
    <3> QED
      BY <1>1, <2>2, <3>1 DEF TypeOK
  <2> QED
    BY <2>1, <2>2
<1>8. ASSUME NEW r \in Results
      PROVE  /\ r \notin S => result'[r] = result[r]
             /\ r \in S => /\ result'[r] # NULL /\ result'[r].val = "error"
                           /\ result'[r].notified
                           /\ result'[r].dst = result[r].dst
                           /\ result'[r].dsti = result[r].dsti
             /\ result'[r] \in ResultRec \cup {NULL}
  <2>1. CASE r \notin S
    BY <1>1, <1>2, <2>1 DEF TypeOK
  <2>2. CASE r \in S
    <3>1. PICK x \in ResultRec : x = result[r]
      BY <1>4, <2>2
    <3>2. result'[r] = [x EXCEPT !.ev = NULL, !.val = "error", !.notified = TRUE]
      BY <1>2, <2>2, <3>1 DEF Cancelled
    <3>3. /\ result'[r] \in ResultRec /\ result'[r].val = "error" /\ result'[r].notified
          /\ result'[r].dst = x.dst /\ result'[r].dsti = x.dsti
      BY <3>2 DEF ResultRec
    <3> QED
      BY <2>2, <3>1, <3>3
  <2> QED
    BY <2>1, <2>2
<1>9. ASSUME NEW c \in Chans
      PROVE  \/ answer'[c] = answer[c] /\ ~(Busy(c) /\ Res(c) \in S)
             \/ answer'[c] = "lost" /\ Busy(c) /\ Res(c) \in S
  <2>1. answer'[c] = IF \E e \in hit : event[e].chan = c THEN "lost" ELSE answer[c]
    BY <1>2 DEF Told
  <2>2. ASSUME NEW e \in hit, event[e].chan = c
        PROVE  Busy(c) /\ Res(c) \in S
    <3>1. PICK r \in S : result[r].ev = e
      OBVIOUS
    <3> QED
      BY <1>4, <2>2, <3>1
  <2>3. ASSUME Busy(c), Res(c) \in S
        PROVE  \E e \in hit : event[e].chan = c
    <3>1. PICK r \in S : r = Res(c)
      BY <2>3
    <3>2. PICK e \in hit : e = result[r].ev
      OBVIOUS
    <3>3. PICK d \in Chans : d = event[e].chan
      BY <1>4, <3>2
    <3>4. Busy(d) /\ Res(d) = r
      BY <1>4, <3>2, <3>3
    <3>5. r # NULL
      BY <1>1
    <3>6. User[d] = User[c]
      BY <2>3, <3>1, <3>4, <3>5 DEF IInv, Sane, Owned, Busy, Res
    <3>7. d = c
      BY <2>3, <3>4, <3>6 DEF Busy
    <3> QED
      BY <3>2, <3>3, <3>7
  <2> HIDE DEF hit
  <2> QED
    BY <2>1, <2>2, <2>3
<1>10. /\ event' \in [Events -> EventRec \cup {NULL}]
       /\ result' \in [Results -> ResultRec \cup {NULL}]
       /\ answer' \in [Chans -> Answers]
  <2>1. event' = [e \in Events |-> event'[e]] /\ result' = [r \in Results |-> result'[r]]
    BY <1>2
  <2>2. answer' = [c \in Chans |-> answer'[c]]
    BY <1>2 DEF Told
  <2>3. \A c \in Chans : answer'[c] \in Answers
    BY <1>1, <1>9 DEF TypeOK, Answers
  <2> QED
    BY <1>7, <1>8, <2>1, <2>2, <2>3
<1> QED
  BY <1>2, <1>4, <1>7, <1>8, <1>9, <1>10

\* A cancellation goes wrong only if something it cancels has been answered.
LEMMA CancelFault ==
  ASSUME IInv, Sound, NEW S, S \subseteq list, Cancel(S), ~Sound'
  PROVE  /\ UNCHANGED <<event, result, answer>> /\ fault' \in Faults
         /\ \E r \in S : result[r].val # "pending"
<1> USE NotNull
<1>1. TypeOK /\ S \subseteq Results
  BY DEF IInv, TypeOK
<1> DEFINE bad == IF \E r \in S : result[r].ev = NULL THEN "cancelled twice"
                  ELSE IF \E r \in S : \/ event[result[r].ev] = NULL
                                       \/ event[result[r].ev].res # r THEN "event freed"
                  ELSE "none"
<1>2. bad # "none" /\ fault' = bad /\ UNCHANGED <<event, result, answer>>
  BY DEF Cancel, Sound
<1>3. fault' \in Faults
  BY <1>2 DEF Faults
<1>4. PICK r \in S : \/ result[r].ev = NULL \/ event[result[r].ev] = NULL
                     \/ event[result[r].ev].res # r
  BY <1>2
<1>5. result[r] # NULL
  BY <1>1 DEF IInv, Sane, Owned, Calls
<1>6. result[r].val # "pending"
  BY <1>1, <1>4, <1>5 DEF IInv, Sane, Pairs
<1> QED
  BY <1>2, <1>3, <1>6

\* What a cancellation that goes well leaves true.
LEMMA CancelKeeps ==
  ASSUME IInv, Sound, NEW S, S \subseteq list, Cancel(S), Sound',
         UNCHANGED <<chan, list, queue, call, lock, ops, ran>>, lock = NULL,
         \A v \in Threads : phase'[v] = "gone" => phase[v] = "gone",
         \A r \in Results : result[r] # NULL /\ result[r].val = "pending" /\ r \notin S =>
           phase'[result[r].dst] = "running"
  PROVE  /\ Calls' /\ Locked' /\ Owned' /\ Queues' /\ Pairs'
         /\ \A v \in Threads : \A k \in DOMAIN stack[v] :
              LET f == stack[v][k] IN
              /\ event'[f.ev].chan = event[f.ev].chan
              /\ event[f.ev].res = event'[f.ev].res \/ event[f.ev].res \in S
              /\ stack'[v] = stack[v] => Works(v, stack[v][k])'
         /\ \A d \in Chans :
              /\ Unanswered(d)' <=> Unanswered(d) /\ ~(Busy(d) /\ Res(d) \in S)
              /\ Closing(d) => Closing(d)'
              /\ answer'[d] = "ok" => ran'[d] \/ Unanswered(d)'
              /\ Unanswered(d)' => answer'[d] # "lost"
<1> USE NotNull
<1>1. TypeOK /\ S \subseteq Results
  BY DEF IInv, TypeOK
<1>2. /\ \A r \in S : result[r] # NULL /\ result[r].val = "pending"
      /\ \A r \in Results :
           /\ r \notin S => result'[r] = result[r]
           /\ r \in S => /\ result'[r] # NULL /\ result'[r].val = "error"
                         /\ result'[r].notified
                         /\ result'[r].dst = result[r].dst
                         /\ result'[r].dsti = result[r].dsti
  BY CancelFacts
<1>3. \A e \in Events :
        /\ event'[e] # NULL <=> event[e] # NULL
        /\ event[e] # NULL => /\ event'[e].chan = event[e].chan
                              /\ event'[e].op = event[e].op
                              /\ event'[e].res = IF event[e].res \in S THEN NULL
                                                 ELSE event[e].res
  BY CancelFacts
<1>4. \A c \in Chans :
        \/ answer'[c] = answer[c] /\ ~(Busy(c) /\ Res(c) \in S)
        \/ answer'[c] = "lost" /\ Busy(c) /\ Res(c) \in S
  BY CancelFacts
<1>5. \A v \in Threads : call[v] # NULL => call[v].at # "send" /\ call[v].res \in Results
  BY <1>1, Types DEF IInv, Sane, Calls
<1>6. \A x \in Results : /\ result'[x] # NULL <=> result[x] # NULL
                         /\ result[x] # NULL => /\ result'[x].dst = result[x].dst
                                                /\ result'[x].dsti = result[x].dsti
                         /\ result'[x].val = "pending" => x \notin S /\ result'[x] = result[x]
                         /\ result[x].val # "pending" => result'[x].val # "pending"
  BY <1>2
<1>7. Calls'
  <2> SUFFICES ASSUME NEW v \in Threads, call[v] # NULL
      PROVE
        /\ User[call[v].chan] = v /\ chan[call[v].chan] = "open"
        /\ call[v].at # "send"
        /\ call[v].res # NULL /\ result'[call[v].res] # NULL
        /\ result'[call[v].res].dst = Owner(call[v].chan)
        /\ result'[call[v].res].dsti \in {Handler[call[v].chan], NULL}
        /\ call[v].at = "wait" => call[v].res \in list
        /\ call[v].at = "free" => result'[call[v].res].val # "pending"
    BY DEF Calls
  <2> QED
    BY <1>5, <1>6 DEF IInv, Sane, Calls
<1>8. Locked'
  BY DEF Locked
<1>9. Owned'
  <2>1. \A x \in Results : result'[x] # NULL =>
          /\ \E v \in Threads : call'[v] # NULL /\ call'[v].res = x
          /\ result'[x].val # "pending" => result'[x].notified
    BY <1>2, <1>6 DEF IInv, Sane, Owned
  <2> QED
    BY <2>1 DEF IInv, Sane, Owned
<1>10. Queues'
  BY <1>3 DEF IInv, Sane, Queues
<1>11. ASSUME NEW x \in Results, result'[x] # NULL, result'[x].val = "pending"
       PROVE  /\ phase'[result'[x].dst] = "running" /\ result'[x].ev # NULL
              /\ event'[result'[x].ev] # NULL /\ event'[result'[x].ev].res = x
              /\ Owner(event'[result'[x].ev].chan) = result'[x].dst
  <2>1. /\ x \notin S /\ result'[x] = result[x] /\ result[x].ev \in Events
        /\ event[result[x].ev] # NULL /\ event[result[x].ev].res = x
        /\ Owner(event[result[x].ev].chan) = result[x].dst
    BY <1>1, <1>6, <1>11, Types DEF IInv, Sane, Pairs
  <2> QED
    BY <1>3, <1>11, <2>1
<1>12. ASSUME NEW x \in Events, event'[x] # NULL, event'[x].res # NULL
       PROVE  LET q == event'[x].res IN
              /\ result'[q] # NULL /\ result'[q].val = "pending" /\ result'[q].ev = x
              /\ Busy(event[x].chan)' /\ Res(event[x].chan)' = q
              /\ call'[User[event'[x].chan]].op = event'[x].op
  <2>1. PICK d \in Chans, q \in Results :
          /\ event[x] # NULL /\ event[x].res = q /\ event[x].chan = d /\ q \notin S
          /\ event'[x].res = q /\ event'[x].chan = d /\ event'[x].op = event[x].op
          /\ result[q] # NULL /\ result[q].val = "pending" /\ result[q].ev = x
          /\ Busy(d) /\ Res(d) = q /\ call[User[d]].op = event[x].op
    BY <1>1, <1>3, <1>12, Types DEF IInv, Sane, Pairs
  <2>2. result'[q] = result[q]
    BY <1>2, <2>1
  <2>3. Busy(event[x].chan)' /\ Res(event[x].chan)' = q
    BY <2>1 DEF Busy, Res
  <2> QED
    BY <2>1, <2>2, <2>3
<1>13. Pairs'
  BY <1>11, <1>12 DEF Pairs, Busy, Res
<1>14. ASSUME NEW v \in Threads, NEW k \in DOMAIN stack[v]
       PROVE  LET f == stack[v][k] IN
              /\ event'[f.ev].chan = event[f.ev].chan
              /\ event[f.ev].res = event'[f.ev].res \/ event[f.ev].res \in S
              /\ stack'[v] = stack[v] => Works(v, stack[v][k])'
  <2>1. PICK g \in Frame : g = stack[v][k]
    BY <1>1, ElementOfSeq, LenProperties DEF TypeOK
  <2>2. Works(v, g) /\ g.ev \in Events /\ g.res \in Results /\ event[g.ev] # NULL
    BY <2>1 DEF IInv, Sane, Activations, Frame, Works
  <2>3. PICK d \in Chans : d = event[g.ev].chan
    BY <1>1, <2>2, Types
  <2>4. /\ event'[g.ev] # NULL /\ event'[g.ev].chan = d /\ event'[g.ev].op = event[g.ev].op
        /\ event'[g.ev].res = IF event[g.ev].res \in S THEN NULL ELSE event[g.ev].res
    BY <1>3, <2>2, <2>3
  <2>5. event'[g.ev].res # NULL => event'[g.ev].res = g.res /\ ~g.stale
    BY <2>2, <2>4 DEF Works
  <2>6. ASSUME ~g.stale
        PROVE  /\ Busy(d) /\ Res(d) = g.res /\ call[User[d]].op = event[g.ev].op
               /\ event'[g.ev].res = NULL => result'[g.res].val # "pending"
    <3>1. Busy(d) /\ Res(d) = g.res /\ call[User[d]].op = event[g.ev].op
      BY <2>2, <2>3, <2>6 DEF Works
    <3>2. CASE event[g.ev].res = NULL
      BY <1>6, <2>2, <2>6, <3>1, <3>2 DEF Works
    <3>3. CASE event[g.ev].res \in S
      BY <1>1, <1>2, <2>2, <3>1, <3>3 DEF Works
    <3>4. CASE event[g.ev].res # NULL /\ event[g.ev].res \notin S
      BY <2>4, <3>1, <3>4
    <3> QED
      BY <3>1, <3>2, <3>3, <3>4
  <2>7. Works(v, g)'
    <3>1. ~g.stale => Busy(event[g.ev].chan)' /\ Res(event[g.ev].chan)' = g.res
      BY <2>4, <2>6 DEF Busy, Res
    <3>2. Owner(d) = v
      BY <2>2, <2>3 DEF Works
    <3> QED
      BY <2>4, <2>5, <2>6, <3>1, <3>2 DEF Works
  <2>8. stack'[v] = stack[v] => Works(v, stack[v][k])'
    BY <2>1, <2>7 DEF Works, Busy, Res
  <2> QED
    BY <2>1, <2>3, <2>4, <2>8
<1>15. ASSUME NEW d \in Chans
       PROVE  /\ Unanswered(d)' <=> Unanswered(d) /\ ~(Busy(d) /\ Res(d) \in S)
              /\ Closing(d) => Closing(d)'
              /\ answer'[d] = "ok" => ran'[d] \/ Unanswered(d)'
              /\ Unanswered(d)' => answer'[d] # "lost"
  <2>1. Busy(d) => call[User[d]].at # "send" /\ Res(d) \in Results
    BY <1>5 DEF Busy, Res
  <2>2. Unanswered(d)' <=> Unanswered(d) /\ ~(Busy(d) /\ Res(d) \in S)
    BY <1>2, <2>1 DEF Unanswered, Busy, Res
  <2>3. Closing(d) => Closing(d)'
    BY <2>2 DEF Closing, Busy
  <2>4. /\ answer'[d] = "ok" => ran'[d] \/ Unanswered(d)'
        /\ Unanswered(d)' => answer'[d] # "lost"
    BY <1>4, <2>2 DEF IInv, Sane, Answered
  <2> QED
    BY <2>2, <2>3, <2>4
<1> QED
  BY <1>7, <1>8, <1>9, <1>10, <1>13, <1>14, <1>15

\* CancelInterp: with careful owners there is nothing to cancel.
LEMMA CancelInterpStep ==
  ASSUME IInv, Sound, NEW i \in Interps, CancelInterp(i)
  PROVE  TypeOK' /\ CarefulIsSafe' /\ (Sound' => Sane')
<1> USE NotNull
<1> DEFINE S == {r \in list : result[r].dsti = i}
<1>1. /\ life[i] = "cancelling" /\ lock = NULL
      /\ Cancel(S)
      /\ threadMap' = [threadMap EXCEPT ![Home[i]] = {c \in @ : interp[c] # i}]
      /\ life' = [life EXCEPT ![i] = "gone"]
      /\ UNCHANGED <<interp, chan, interpMap, phase, list, queue, stack, call, lock,
                     ops, ran, careful>>
  BY DEF CancelInterp
<1>2. TypeOK /\ S \subseteq list
  BY DEF IInv
<1>3. careful => S = {}
  <2> SUFFICES ASSUME careful, NEW r \in list, result[r].dsti = i PROVE FALSE
    OBVIOUS
  <2>1. PICK v \in Threads : call[v] # NULL /\ call[v].at = "wait" /\ call[v].res = r
    BY DEF IInv, Sane, Owned
  <2>2. PICK d \in Chans : /\ d = call[v].chan /\ User[d] = v /\ chan[d] = "open"
                           /\ result[r].dsti \in {Handler[d], NULL}
    BY <1>2, <2>1, Types DEF IInv, Sane, Calls
  <2>3. Handler[d] = i
    BY <2>2
  <2>4. call[User[d]].at = "free"
    BY <1>1, <2>2, <2>3 DEF IInv, Sane, Prudent
  <2> QED
    BY <2>1, <2>2, <2>4
<1> HIDE DEF S
<1>4. /\ \A j \in Interps : life'[j] = IF j = i THEN "gone" ELSE life[j]
      /\ \A v \in Threads : threadMap'[v] \subseteq threadMap[v]
      /\ \A d \in Chans : d \in threadMap[Owner(d)] /\ d \notin threadMap'[Owner(d)] =>
                            interp[d] = i
      /\ threadMap' \in [Threads -> SUBSET Chans]
      /\ life' \in [Interps -> {"live", "doomed", "marking", "cancelling", "gone"}]
  BY <1>1, <1>2 DEF TypeOK
<1>5. CASE ~Sound'
  <2>1. UNCHANGED <<event, result, answer>> /\ fault' \in Faults /\ ~careful
    BY <1>1, <1>2, <1>3, <1>5, CancelFault
  <2> QED
    BY <1>1, <1>2, <1>4, <1>5, <2>1 DEF TypeOK, CarefulIsSafe
<1>6. CASE Sound'
  <2>1. /\ event' \in [Events -> EventRec \cup {NULL}]
        /\ result' \in [Results -> ResultRec \cup {NULL}]
        /\ answer' \in [Chans -> Answers] /\ fault' = fault
    BY <1>1, <1>2, <1>6, CancelFacts
  <2>2. TypeOK'
    BY <1>1, <1>2, <1>4, <2>1 DEF TypeOK
  <2>3. \A r \in Results : result[r] # NULL /\ result[r].val = "pending" /\ r \notin S =>
          phase'[result[r].dst] = "running"
    BY <1>1 DEF IInv, Sane, Pairs
  <2>4. /\ Calls' /\ Locked' /\ Owned' /\ Queues' /\ Pairs'
        /\ \A v \in Threads : \A k \in DOMAIN stack[v] :
             LET f == stack[v][k] IN
             /\ event'[f.ev].chan = event[f.ev].chan
             /\ event[f.ev].res = event'[f.ev].res \/ event[f.ev].res \in S
             /\ stack'[v] = stack[v] => Works(v, stack[v][k])'
        /\ \A d \in Chans :
             /\ Unanswered(d)' <=> Unanswered(d) /\ ~(Busy(d) /\ Res(d) \in S)
             /\ Closing(d) => Closing(d)'
             /\ answer'[d] = "ok" => ran'[d] \/ Unanswered(d)'
             /\ Unanswered(d)' => answer'[d] # "lost"
    BY <1>1, <1>2, <1>6, <2>3, CancelKeeps
  <2>5. Activations'
    BY <1>1, <2>4 DEF IInv, Sane, Activations
  <2>6. Mapped'
    <3>1. ASSUME NEW d \in Chans, chan[d] = "open", interp[d] # NULL
          PROVE  Closing(d)' \/ (d \in threadMap'[Owner(d)] /\ d \in interpMap[Handler[d]])
      <4>1. interp[d] = Handler[d]
        BY <3>1 DEF IInv, Sane, Mapped
      <4>2. CASE Handler[d] = i
        BY <1>1, <2>4, <3>1, <4>2 DEF IInv, Sane, Mapped
      <4>3. CASE Handler[d] # i
        BY <1>4, <2>4, <3>1, <4>1, <4>3 DEF IInv, Sane, Mapped
      <4> QED
        BY <4>2, <4>3
    <3> QED
      BY <1>1, <1>4, <3>1 DEF IInv, Sane, Mapped
  <2>7. Answered'
    <3>1. ASSUME NEW v \in Threads, NEW k \in DOMAIN stack[v]
          PROVE  /\ k # Len(stack[v]) => stack[v][k].at = "method"
                 /\ stack[v][k].ok => stack[v][k].at = "reply"
                 /\ stack[v][k].ok /\ ~stack[v][k].stale => ran[event'[stack[v][k].ev].chan]
      BY <2>4 DEF IInv, Sane, Answered
    <3> QED
      BY <1>1, <2>4, <3>1 DEF Answered
  <2>8. careful => Prudent'
    <3> SUFFICES ASSUME careful PROVE Prudent'
      OBVIOUS
    <3>1. ASSUME NEW v \in Threads, NEW k \in DOMAIN stack[v]
          PROVE  ~stack[v][k].stale /\ event'[stack[v][k].ev].res # NULL
      BY <1>3, <2>4 DEF IInv, Sane, Prudent
    <3>2. \A d \in Chans : life'[Handler[d]] # "live" => life[Handler[d]] # "live"
      BY <1>1, <1>4
    <3> QED
      BY <1>1, <2>4, <3>1, <3>2 DEF IInv, Sane, Prudent
  <2>9. careful => Frank'
    <3> SUFFICES ASSUME careful PROVE Frank'
      OBVIOUS
    <3>1. \A d \in Chans : answer'[d] = answer[d]
      BY <1>1, <1>2, <1>3, <1>6, CancelFacts
    <3>2. \A d \in Chans : Replying(d) => Replying(d)'
      BY <1>1, <2>4 DEF Replying
    <3> QED
      BY <1>1, <2>4, <3>1, <3>2 DEF IInv, Sane, Frank
  <2> QED
    BY <1>1, <2>1, <2>2, <2>4, <2>5, <2>6, <2>7, <2>8, <2>9
    DEF IInv, Sane, CarefulIsSafe
<1> QED
  BY <1>5, <1>6

\* ExitThread: what was not answered is cancelled, all of it, and nothing else.
LEMMA ExitThreadStep ==
  ASSUME IInv, Sound, NEW t \in Threads, ExitThread(t)
  PROVE  TypeOK' /\ CarefulIsSafe' /\ (Sound' => Sane')
<1> USE NotNull
<1> DEFINE S == Destined(t)
<1>1. /\ phase[t] = "running" /\ lock = NULL
      /\ stack[t] # <<>> => Top(t).at = "method"
      /\ careful => Settled(t)
      /\ phase' = [phase EXCEPT ![t] = "exiting"]
      /\ UNCHANGED <<chan, interpMap, life, list, queue, call, lock, ops, ran, careful>>
  BY DEF ExitThread, InScript
<1>2. \/ /\ \E c \in threadMap[t] : chan[c] # "open"
         /\ fault' = "channel freed"
         /\ UNCHANGED <<interp, threadMap, event, result, stack, answer>>
      \/ /\ Cancel(S)
         /\ interp' = MarkedDead(t)
         /\ threadMap' = [threadMap EXCEPT ![t] = {}]
         /\ stack' = [stack EXCEPT ![t] = <<>>]
  BY DEF ExitThread
<1>3. TypeOK /\ S \subseteq list
  BY DEF IInv, Destined
<1>4. \A r \in S : r \in list /\ result[r].dst = t
  BY DEF Destined
<1>5. \A r \in list : result[r].dst = t => r \in S
  BY DEF Destined
<1> HIDE DEF S
<1>6. /\ \A v \in Threads : phase'[v] = IF v = t THEN "exiting" ELSE phase[v]
      /\ phase' \in [Threads -> {"running", "exiting", "gone"}]
  BY <1>1, <1>3 DEF TypeOK
<1>7. CASE /\ \E c \in threadMap[t] : chan[c] # "open"
           /\ fault' = "channel freed"
           /\ UNCHANGED <<interp, threadMap, event, result, stack, answer>>
  <2>1. ~careful
    BY <1>1, <1>7 DEF Settled
  <2>2. TypeOK'
    BY <1>1, <1>3, <1>6, <1>7 DEF TypeOK, Faults
  <2> QED
    BY <1>1, <1>7, <2>1, <2>2 DEF CarefulIsSafe, Sound
<1>8. CASE /\ Cancel(S)
           /\ interp' = MarkedDead(t)
           /\ threadMap' = [threadMap EXCEPT ![t] = {}]
           /\ stack' = [stack EXCEPT ![t] = <<>>]
  <2>1. /\ \A v \in Threads : /\ threadMap'[v] = IF v = t THEN {} ELSE threadMap[v]
                              /\ stack'[v] = IF v = t THEN <<>> ELSE stack[v]
        /\ \A d \in Chans : interp'[d] = IF d \in threadMap[t] THEN NULL ELSE interp[d]
    BY <1>3, <1>8 DEF TypeOK, MarkedDead
  <2>2. /\ interp' \in [Chans -> Interps \cup {NULL}]
        /\ threadMap' \in [Threads -> SUBSET Chans]
        /\ stack' \in [Threads -> Seq(Frame)]
        /\ \A v \in Threads : Len(stack'[v]) <= MaxDepth
    <3>1. /\ interp' \in [Chans -> Interps \cup {NULL}]
          /\ threadMap' \in [Threads -> SUBSET Chans]
      BY <1>3, <1>8 DEF TypeOK, MarkedDead
    <3>2. stack' \in [Threads -> Seq(Frame)]
      BY <1>3, <1>8, EmptyFacts DEF TypeOK
    <3>3. Len(<<>>) <= MaxDepth
      BY ForwardAssumption
    <3> QED
      BY <1>3, <2>1, <3>1, <3>2, <3>3 DEF TypeOK
  <2>3. CASE ~Sound'
    <3>1. UNCHANGED <<event, result, answer>> /\ fault' \in Faults
          /\ \E r \in S : result[r].val # "pending"
      BY <1>3, <1>8, <2>3, CancelFault
    <3>2. ~careful
      BY <1>1, <1>4, <3>1 DEF Settled
    <3>3. TypeOK'
      BY <1>1, <1>3, <1>6, <2>2, <3>1 DEF TypeOK
    <3> QED
      BY <1>1, <2>3, <3>2, <3>3 DEF CarefulIsSafe
  <2>4. CASE Sound'
    <3>1. /\ event' \in [Events -> EventRec \cup {NULL}]
          /\ result' \in [Results -> ResultRec \cup {NULL}]
          /\ answer' \in [Chans -> Answers] /\ fault' = fault
          /\ \A r \in S : result[r] # NULL /\ result[r].val = "pending"
          /\ \A c \in Chans :
               \/ answer'[c] = answer[c] /\ ~(Busy(c) /\ Res(c) \in S)
               \/ answer'[c] = "lost" /\ Busy(c) /\ Res(c) \in S
      BY <1>3, <1>8, <2>4, CancelFacts
    <3>2. TypeOK'
      BY <1>1, <1>3, <1>6, <2>2, <3>1 DEF TypeOK
    <3>3. ASSUME NEW r \in Results, result[r] # NULL, result[r].val = "pending", r \notin S
          PROVE  phase'[result[r].dst] = "running"
      <4>1. phase[result[r].dst] = "running" /\ result[r].dst \in Threads
        BY <1>3, <3>3, Types DEF IInv, Sane, Pairs
      <4>2. PICK v \in Threads : call[v] # NULL /\ call[v].res = r
        BY <3>3 DEF IInv, Sane, Owned
      <4>3. call[v].at = "wait"
        BY <1>3, <3>3, <4>2, Types DEF IInv, Sane, Calls
      <4>4. r \in list
        BY <4>2, <4>3 DEF IInv, Sane, Calls
      <4> QED
        BY <1>5, <1>6, <3>3, <4>1, <4>4
    <3>4. /\ Calls' /\ Locked' /\ Owned' /\ Queues' /\ Pairs'
          /\ \A v \in Threads : \A k \in DOMAIN stack[v] :
               LET f == stack[v][k] IN
               /\ event'[f.ev].chan = event[f.ev].chan
               /\ event[f.ev].res = event'[f.ev].res \/ event[f.ev].res \in S
               /\ stack'[v] = stack[v] => Works(v, stack[v][k])'
          /\ \A d \in Chans :
               /\ Unanswered(d)' <=> Unanswered(d) /\ ~(Busy(d) /\ Res(d) \in S)
               /\ Closing(d) => Closing(d)'
               /\ answer'[d] = "ok" => ran'[d] \/ Unanswered(d)'
               /\ Unanswered(d)' => answer'[d] # "lost"
      <4>1. \A v \in Threads : phase'[v] = "gone" => phase[v] = "gone"
        BY <1>6
      <4> QED
        BY <1>1, <1>3, <1>8, <2>4, <3>3, <4>1, CancelKeeps
    <3>5. ASSUME NEW v \in Threads, NEW k \in DOMAIN stack'[v]
          PROVE  v # t /\ stack'[v] = stack[v] /\ k \in DOMAIN stack[v]
      BY <2>1, EmptyFacts
    <3>6. Activations'
      <4>1. \A v \in Threads : phase'[v] # "running" => stack'[v] = <<>>
        BY <1>6, <2>1 DEF IInv, Sane, Activations
      <4>2. ASSUME NEW v \in Threads, NEW k \in DOMAIN stack'[v]
            PROVE  /\ Works(v, stack[v][k])'
                   /\ \A l \in DOMAIN stack'[v] : stack'[v][l].ev = stack'[v][k].ev => k = l
        BY <3>4, <3>5 DEF IInv, Sane, Activations
      <4> HIDE DEF Works
      <4> QED
        BY <4>1, <4>2 DEF Activations
    <3>7. Mapped'
      <4>1. ASSUME NEW d \in Chans, chan[d] = "open", interp'[d] # NULL
            PROVE  Closing(d)' \/ (d \in threadMap'[Owner(d)] /\ d \in interpMap[Handler[d]])
        <5>1. d \notin threadMap[t] /\ interp[d] # NULL
          BY <2>1, <4>1
        <5> QED
          BY <2>1, <3>4, <4>1, <5>1 DEF IInv, Sane, Mapped
      <4>2. \A d \in Chans : interp'[d] \in {Handler[d], NULL}
        BY <2>1 DEF IInv, Sane, Mapped
      <4>3. \A v \in Threads : /\ \A d \in threadMap'[v] : Owner(d) = v
                               /\ phase'[v] # "running" => threadMap'[v] = {}
        BY <1>6, <2>1 DEF IInv, Sane, Mapped
      <4> QED
        BY <1>1, <4>1, <4>2, <4>3 DEF IInv, Sane, Mapped
    <3>8. Answered'
      <4>1. ASSUME NEW v \in Threads, NEW k \in DOMAIN stack'[v]
            PROVE  /\ k # Len(stack'[v]) => stack'[v][k].at = "method"
                   /\ stack'[v][k].ok => stack'[v][k].at = "reply"
                   /\ stack'[v][k].ok /\ ~stack'[v][k].stale =>
                        ran'[event'[stack'[v][k].ev].chan]
        BY <1>1, <3>4, <3>5 DEF IInv, Sane, Answered
      <4> QED
        BY <3>4, <4>1 DEF Answered
    <3>9. careful => Prudent'
      <4> SUFFICES ASSUME careful PROVE Prudent'
        OBVIOUS
      <4>1. ASSUME NEW v \in Threads, NEW k \in DOMAIN stack'[v]
            PROVE  ~stack'[v][k].stale /\ event'[stack'[v][k].ev].res # NULL
        <5>1. PICK f : f = stack[v][k] /\ f = stack'[v][k]
          BY <3>5
        <5>2. ~f.stale /\ event[f.ev].res # NULL /\ Works(v, f) /\ f.ev \in Events
          BY <1>3, <3>5, <5>1, Types DEF IInv, Sane, Prudent, Activations
        <5>3. event[f.ev].res \notin S
          <6> SUFFICES ASSUME event[f.ev].res \in S PROVE FALSE
            OBVIOUS
          <6>1. PICK r \in S : r = event[f.ev].res
            OBVIOUS
          <6>2. result[r].val = "pending" /\ result[r].ev = f.ev /\ result[r] # NULL
            BY <5>2, <6>1 DEF IInv, Sane, Pairs, Works
          <6>3. result[r].dst = v
            BY <1>3, <5>2, <6>2 DEF IInv, Sane, Pairs, Works, TypeOK
          <6> QED
            BY <1>4, <3>5, <6>3
        <5> QED
          BY <3>4, <3>5, <5>1, <5>2, <5>3
      <4>2. ASSUME NEW d \in Chans, interp'[d] = NULL
            PROVE  phase'[Owner(d)] # "running"
        BY <1>6, <2>1, <4>2 DEF IInv, Sane, Prudent, Mapped
      <4> QED
        BY <1>1, <3>4, <4>1, <4>2 DEF IInv, Sane, Prudent
    <3>10. careful => Frank'
      <4> SUFFICES ASSUME careful PROVE Frank'
        OBVIOUS
      <4>1. \A k \in DOMAIN stack[t] : stack[t][k].at = "method"
        <5> SUFFICES ASSUME NEW k \in DOMAIN stack[t] PROVE stack[t][k].at = "method"
          OBVIOUS
        <5>1. stack[t] # <<>>
          BY EmptyFacts
        <5>2. Top(t) = stack[t][Len(stack[t])] /\ Top(t).at = "method"
          BY <1>1, <1>3, <5>1, TopFacts
        <5> QED
          BY <5>2 DEF IInv, Sane, Answered
      <4>2. \A d \in Chans : Replying(d) => Owner(d) # t
        BY <4>1 DEF Replying
      <4>3. ASSUME NEW d \in Chans, Replying(d) PROVE Replying(d)'
        <5>1. stack'[Owner(d)] = stack[Owner(d)]
          BY <2>1, <4>2, <4>3
        <5> QED
          BY <3>4, <4>3, <5>1 DEF Replying
      <4>4. ASSUME NEW d \in Chans, answer'[d] = "lost" PROVE ~ran[d]
        <5>1. CASE answer'[d] = answer[d]
          BY <4>4, <5>1 DEF IInv, Sane, Frank
        <5>2. CASE Busy(d) /\ Res(d) \in S
          <6>1. Unanswered(d)
            BY <3>1, <5>2 DEF Unanswered
          <6>2. Owner(d) = t
            <7>1. Res(d) # NULL /\ result[Res(d)].dst = t
              BY <1>3, <1>4, <5>2 DEF TypeOK
            <7>2. call[User[d]].at # "send"
              BY <5>2, <7>1 DEF IInv, Sane, Calls, Busy, Res
            <7>3. result[Res(d)].dst = Owner(d)
              BY <5>2, <7>2 DEF IInv, Sane, Calls, Busy, Res
            <7> QED
              BY <7>1, <7>3
          <6> QED
            BY <4>2, <6>1, <6>2 DEF IInv, Sane, Frank
        <5> QED
          BY <3>1, <5>1, <5>2
      <4> QED
        BY <1>1, <3>4, <4>3, <4>4 DEF IInv, Sane, Frank
    <3> QED
      BY <1>1, <3>1, <3>2, <3>4, <3>6, <3>7, <3>8, <3>9, <3>10
      DEF IInv, Sane, CarefulIsSafe
  <2> QED
    BY <2>3, <2>4
<1> QED
  BY <1>2, <1>7, <1>8

-------------------------------------------------------------------------------
(* The invariant.                                                           *)

\* The initial states satisfy the invariant.
LEMMA Starts == Init => IInv
<1> USE NotNull
<1> SUFFICES ASSUME Init PROVE IInv
  OBVIOUS
<1>1. PICK M \in Moved :
        /\ chan = [c \in Chans |-> IF c \in M THEN "open" ELSE "closed"]
        /\ interpMap = [i \in Interps |-> {c \in M : Handler[c] = i}]
        /\ threadMap = [t \in Threads |-> {c \in M : Owner(c) = t}]
  BY DEF Init
<1>2. /\ M \subseteq Chans /\ Handler \in [Chans -> Interps] /\ MaxOps \in [Chans -> Nat]
      /\ MaxDepth \in Nat
  BY ForwardAssumption
<1>3. TypeOK
  <2>1. /\ interp \in [Chans -> Interps \cup {NULL}] /\ chan \in [Chans -> {"open", "closed"}]
        /\ interpMap \in [Interps -> SUBSET Chans] /\ threadMap \in [Threads -> SUBSET Chans]
    BY <1>1, <1>2 DEF Init
  <2>2. life \in [Interps -> {"live", "doomed", "marking", "cancelling", "gone"}]
    BY DEF Init
  <2>3. queue \in [Threads -> Seq(Events)] /\ stack \in [Threads -> Seq(Frame)]
        /\ \A t \in Threads : Len(stack[t]) <= MaxDepth
    BY <1>2, EmptyFacts, EmptySeq DEF Init
  <2> QED
    BY <1>2, <2>1, <2>2, <2>3 DEF Init, TypeOK, Answers, Faults
<1>4. /\ \A t \in Threads : /\ call[t] = NULL /\ queue[t] = <<>> /\ stack[t] = <<>>
                            /\ phase[t] = "running"
      /\ \A e \in Events : event[e] = NULL
      /\ \A r \in Results : result[r] = NULL
      /\ list = {} /\ lock = NULL /\ \A c \in Chans : answer[c] = "none" /\ ~ran[c]
  BY DEF Init
<1>5. \A c \in Chans : /\ interp[c] = Handler[c] /\ ~Busy(c) /\ ~Unanswered(c)
                       /\ chan[c] = "open" => c \in M
  BY <1>1, <1>4 DEF Init, Busy, Unanswered
<1>6. /\ \A i \in Interps : /\ interpMap[i] = {c \in M : Handler[c] = i}
                            /\ life[i] \in {"live", "gone"}
                            /\ life[i] = "gone" => interpMap[i] = {}
      /\ \A t \in Threads : threadMap[t] = {c \in M : Owner(c) = t}
  BY <1>1 DEF Init
<1>7. Calls /\ Locked /\ Owned /\ Pairs
  BY <1>4 DEF Calls, Locked, Owned, Pairs
<1>8. Queues
  BY <1>4, EmptyFacts DEF Queues
<1>9. Activations /\ Answered
  BY <1>4, <1>5, EmptyFacts DEF Activations, Answered
<1>10. Mapped
  BY <1>2, <1>4, <1>5, <1>6 DEF Mapped
<1>11. Prudent
  BY <1>2, <1>4, <1>5, <1>6, EmptyFacts DEF Prudent
<1>12. Frank
  BY <1>4, <1>5 DEF Frank
<1> QED
  BY <1>3, <1>7, <1>8, <1>9, <1>10, <1>11, <1>12 DEF IInv, Sane, CarefulIsSafe, Init

\* A step that changes nothing preserves the invariant.
LEMMA Stutters == ASSUME IInv, UNCHANGED vars PROVE IInv'
<1> USE DEF vars
<1>1. TypeOK'
  BY DEF IInv, TypeOK
<1>2. CarefulIsSafe' /\ (Sound' <=> Sound)
  BY DEF IInv, CarefulIsSafe, Sound
<1>3. ASSUME Sane PROVE Sane'
  <2>1. Calls' /\ Locked' /\ Owned' /\ Queues' /\ Pairs' /\ Activations' /\ Mapped' /\ Answered'
    BY <1>3, CallsSame, LockedSame, OwnedSame, QueuesSame, PairsSame, ActivationsSame,
       MappedSame, AnsweredSame DEF Sane
  <2>2. careful => Prudent' /\ Frank'
    BY <1>3, PrudentSame, FrankSame DEF Sane
  <2> QED
    BY <2>1, <2>2 DEF Sane
<1> QED
  BY <1>1, <1>2, <1>3 DEF IInv

\* Once memory has been misused the model says no more.
LEMMA Stops == ASSUME Next PROVE Sound
<1> USE DEF Sound
<1>1. \A t \in Threads : InScript(t) => Sound
  BY DEF InScript
<1>2. \A t \in Threads : Deliver(t) => Sound
  BY <1>1 DEF Deliver, Send, Wake, Collect
<1>3. \A t \in Threads : Serve(t) => Sound
  BY <1>1 DEF Serve, Ignore, Begin, EndMethod, Reply
<1>4. \A t \in Threads : ExitThread(t) \/ Finalize(t) => Sound
  BY <1>1 DEF ExitThread, Finalize
<1>5. \A t \in Threads, c \in Chans, op \in {"use", "close"} :
        RefuseDead(t, c, op) \/ CheckAlive(t, c, op) => Sound
  BY <1>1 DEF RefuseDead, CheckAlive, Driver
<1>6. \A t \in Threads, i \in Interps : DeleteInterp(t, i) => Sound
  BY <1>1 DEF DeleteInterp
<1>7. \A i \in Interps : Retire(i) => Sound
  BY DEF Retire, MarkDead, CancelInterp
<1> QED
  BY <1>2, <1>3, <1>4, <1>5, <1>6, <1>7 DEF Next

\* Every step preserves the invariant.
LEMMA Steps == ASSUME IInv, Next PROVE IInv'
<1>1. Sound
  BY Stops
<1>2. ASSUME NEW t \in Threads, Deliver(t) \/ Serve(t) \/ ExitThread(t) \/ Finalize(t)
      PROVE  IInv'
  <2>1. CASE Send(t)
    BY <1>1, <2>1, SendStep DEF IInv
  <2>2. CASE Wake(t)
    BY <1>1, <2>2, WakeStep DEF IInv
  <2>3. CASE Collect(t)
    BY <1>1, <2>3, CollectStep DEF IInv
  <2>4. CASE Ignore(t)
    BY <1>1, <2>4, IgnoreStep DEF IInv
  <2>5. CASE Begin(t)
    BY <1>1, <2>5, BeginStep DEF IInv
  <2>6. CASE EndMethod(t)
    BY <1>1, <2>6, EndMethodStep DEF IInv
  <2>7. CASE Reply(t)
    BY <1>1, <2>7, ReplyStep DEF IInv
  <2>8. CASE ExitThread(t)
    BY <1>1, <2>8, ExitThreadStep DEF IInv
  <2>9. CASE Finalize(t)
    BY <1>1, <2>9, FinalizeStep DEF IInv
  <2> QED
    BY <1>2, <2>1, <2>2, <2>3, <2>4, <2>5, <2>6, <2>7, <2>8, <2>9 DEF Deliver, Serve
<1>3. ASSUME NEW t \in Threads, NEW c \in Chans, NEW op \in {"use", "close"},
             RefuseDead(t, c, op) \/ CheckAlive(t, c, op)
      PROVE  IInv'
  <2>1. CASE RefuseDead(t, c, op)
    BY <1>1, <2>1, RefuseDeadStep DEF IInv
  <2>2. CASE CheckAlive(t, c, op)
    BY <1>1, <2>2, CheckAliveStep DEF IInv
  <2> QED
    BY <1>3, <2>1, <2>2
<1>4. ASSUME NEW t \in Threads, NEW i \in Interps, DeleteInterp(t, i)
      PROVE  IInv'
  BY <1>1, <1>4, DeleteInterpStep DEF IInv
<1>5. ASSUME NEW i \in Interps, Retire(i)
      PROVE  IInv'
  <2>1. CASE MarkDead(i)
    BY <1>1, <2>1, MarkDeadStep DEF IInv
  <2>2. CASE CancelInterp(i)
    BY <1>1, <2>2, CancelInterpStep DEF IInv
  <2> QED
    BY <1>5, <2>1, <2>2 DEF Retire
<1> QED
  BY <1>2, <1>3, <1>4, <1>5 DEF Next

\* The invariant holds throughout.
LEMMA Invariant == Spec => []IInv
<1>1. IInv /\ [Next]_vars => IInv'
  BY Steps, Stutters
<1> QED
  BY Starts, <1>1, PTL DEF Spec

-------------------------------------------------------------------------------
(* What follows.                                                            *)

\* The structures and lists of tclIORChan.c keep their types.
THEOREM TypeCorrect == Spec => []TypeOK
<1>1. IInv => TypeOK
  BY DEF IInv
<1> QED
  BY <1>1, Invariant, PTL

\* Nobody sleeps in vain: what a sleeping user waits for is answered, and it has
\* been woken, or is in the queue of a thread that has not begun to exit.
THEOREM NoneOrphaned == Spec => []NoOrphan
<1>1. IInv => NoOrphan
  <2> SUFFICES ASSUME IInv, Sound, NEW t \in Threads, call[t] # NULL, call[t].at = "wait"
               PROVE  LET r == call[t].res IN
                      /\ r \in list
                      /\ result[r].val # "pending" => result[r].notified
                      /\ result[r].val = "pending" =>
                           /\ phase[result[r].dst] = "running"
                           /\ result[r].ev # NULL
                           /\ Contains(queue[result[r].dst], result[r].ev)
                           /\ event[result[r].ev] # NULL /\ event[result[r].ev].res = r
    BY DEF NoOrphan
  <2>1. PICK r \in Results : r = call[t].res /\ r \in list /\ result[r] # NULL
    BY Types, NotNull DEF IInv, Sane, Calls, TypeOK
  <2>2. result[r].val # "pending" => result[r].notified
    BY <2>1 DEF IInv, Sane, Owned
  <2>3. ASSUME result[r].val = "pending"
        PROVE  /\ phase[result[r].dst] = "running" /\ result[r].ev # NULL
               /\ Contains(queue[result[r].dst], result[r].ev)
               /\ event[result[r].ev] # NULL /\ event[result[r].ev].res = r
    <3>1. /\ phase[result[r].dst] = "running" /\ result[r].ev \in Events
          /\ event[result[r].ev] # NULL /\ event[result[r].ev].res = r
          /\ Owner(event[result[r].ev].chan) = result[r].dst
      BY <2>1, <2>3, Types, NotNull DEF IInv, Sane, Pairs
    <3>2. Contains(queue[result[r].dst], result[r].ev)
      BY <3>1 DEF IInv, Sane, Queues
    <3> QED
      BY <3>1, <3>2, NotNull
  <2> QED
    BY <2>1, <2>2, <2>3
<1> QED
  BY <1>1, Invariant, PTL

\* Nothing leaks and nothing is freed twice: an event lives while it is in a queue,
\* and only one, a result while its user is in the call that made it.
THEOREM AllAccounted == Spec => []Accounted
<1>1. IInv => Accounted
  <2> SUFFICES ASSUME IInv, Sound PROVE Accounted
    BY DEF Accounted
  <2>1. ASSUME NEW e \in Events
        PROVE  (event[e] # NULL) <=> \E t \in Threads : Contains(queue[t], e)
    <3>1. ASSUME event[e] # NULL PROVE \E t \in Threads : Contains(queue[t], e)
      BY <3>1, Types, NotNull DEF IInv, Sane, Queues
    <3>2. ASSUME NEW t \in Threads, Contains(queue[t], e) PROVE event[e] # NULL
      BY <3>2 DEF IInv, Sane, Queues
    <3> QED
      BY <3>1, <3>2
  <2>2. \A e \in Events, t, v \in Threads :
          Contains(queue[t], e) /\ Contains(queue[v], e) => t = v
    BY DEF IInv, Sane, Queues
  <2>3. ASSUME NEW r \in Results
        PROVE  (result[r] # NULL) <=> \E t \in Threads : call[t] # NULL /\ call[t].res = r
    <3>1. ASSUME NEW t \in Threads, call[t] # NULL, call[t].res = r
          PROVE  result[r] # NULL
      BY <3>1, NotNull DEF IInv, Sane, Calls
    <3> QED
      BY <3>1 DEF IInv, Sane, Owned
  <2> QED
    BY <2>1, <2>2, <2>3 DEF Accounted
<1> QED
  BY <1>1, Invariant, PTL

\* An operation reported as done was run to its end by the handler; one reported as
\* lost was not, with careful owners.
THEOREM AllTruthful == Spec => []Truthful
<1>1. IInv => Truthful
  BY DEF IInv, Sane, Truthful, Answered, Frank, Unanswered, Busy
<1> QED
  BY <1>1, Invariant, PTL

\* Once an owner is gone its channels are dead, closed, or in their last operation.
THEOREM DeadStayDead == Spec => []DeadForGood
<1>1. IInv => DeadForGood
  <2> SUFFICES ASSUME IInv, Sound, NEW c \in Chans,
                      phase[Owner(c)] # "running" \/ life[Handler[c]] \in {"cancelling", "gone"}
               PROVE  interp[c] = NULL \/ chan[c] = "closed" \/ call[User[c]] # NULL
    BY DEF DeadForGood
  <2>1. chan[c] \in {"open", "closed"}
    BY DEF IInv, TypeOK
  <2>2. c \notin threadMap[Owner(c)] \/ c \notin interpMap[Handler[c]]
    BY NotNull DEF IInv, Sane, Mapped
  <2> QED
    BY <2>1, <2>2 DEF IInv, Sane, Mapped, Closing, Busy
<1> QED
  BY <1>1, Invariant, PTL

\* Careful owners never make anybody touch memory that has been freed.
THEOREM CarefulOwnersAreSafe == Spec => []CarefulIsSafe
<1>1. IInv => CarefulIsSafe
  BY DEF IInv
<1> QED
  BY <1>1, Invariant, PTL
=============================================================================
