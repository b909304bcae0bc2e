-------------------------- MODULE Preserve_proofs --------------------------
(***************************************************************************)
(* The table of tclPreserve.c is exact, blocks end once, and the table     *)
(* implements Lifetime, for any threads, blocks and uses.                  *)
(***************************************************************************)
EXTENDS Preserve, FiniteSetTheorems, SequenceTheorems, TLAPS

Slot == [data : Blocks, count : Nat, must : BOOLEAN]

\* What the callers' rules give: an ending block is used only inside its own
\* freeProc, a free one not at all, and a doomed one still has a use.
Rules == \A b \in Blocks :
           /\ life[b] = "free" => UsersOf(b) = {}
           /\ life[b] = "doomed" => UsersOf(b) # {}
           /\ life[b] = "ending" => \A u \in UsersOf(b) : Running(Of[u], b)

IInv == TypeOK /\ Books /\ EndsOnce /\ Rules

-------------------------------------------------------------------------------
(* Sequences.                                                               *)

\* What Front returns.
LEMMA FrontFacts ==
  ASSUME NEW S, NEW s \in Seq(S), s # <<>>
  PROVE  /\ Front(s) \in Seq(S) /\ Len(Front(s)) = Len(s) - 1 /\ Len(s) \in Nat \ {0}
         /\ DOMAIN Front(s) = 1..(Len(s) - 1) /\ DOMAIN s = 1..Len(s)
         /\ \A i \in DOMAIN Front(s) : i \in DOMAIN s /\ Front(s)[i] = s[i]
         /\ Last(s) = s[Len(s)] /\ Last(s) \in S
<1> DEFINE f == SubSeq(s, 1, Len(s) - 1)
<1>1. Len(s) \in Nat \ {0} /\ DOMAIN s = 1..Len(s)
  BY EmptySeq, LenProperties
<1>2. s[Len(s)] \in S /\ \A i \in 1..(Len(s) - 1) : s[i] \in S
  BY <1>1, ElementOfSeq
<1>3. f \in Seq(S) /\ Len(f) = Len(s) - 1
      /\ \A i \in 1..(Len(s) - 1) : f[i] = s[1 + i - 1]
  BY <1>1, <1>2, SubSeqProperties
<1>4. DOMAIN f = 1..(Len(s) - 1)
  BY <1>3, LenProperties
<1>5. Front(s) = f /\ Last(s) = s[Len(s)]
  BY DEF Front, Last
<1> HIDE DEF f
<1>6. \A i \in 1..(Len(s) - 1) : f[i] = s[i] /\ i \in 1..Len(s)
  BY <1>1, <1>3
<1> QED
  BY <1>1, <1>2, <1>3, <1>4, <1>5, <1>6

\* What Append returns.
LEMMA AppendFacts ==
  ASSUME NEW S, NEW s \in Seq(S), NEW e \in S
  PROVE  /\ Append(s, e) \in Seq(S) /\ Len(s) \in Nat /\ Len(Append(s, e)) = Len(s) + 1
         /\ DOMAIN Append(s, e) = 1..(Len(s) + 1) /\ DOMAIN s = 1..Len(s)
         /\ \A i \in DOMAIN s : Append(s, e)[i] = s[i]
         /\ Append(s, e)[Len(s) + 1] = e
<1>1. Append(s, e) \in Seq(S) /\ Len(Append(s, e)) = Len(s) + 1
      /\ Append(s, e)[Len(s) + 1] = e /\ \A i \in 1..Len(s) : Append(s, e)[i] = s[i]
  BY AppendProperties
<1>2. Len(s) \in Nat /\ DOMAIN s = 1..Len(s)
      /\ DOMAIN Append(s, e) = 1..Len(Append(s, e))
  BY <1>1, LenProperties
<1> QED
  BY <1>1, <1>2

-------------------------------------------------------------------------------
(* The uses of a block.                                                     *)

\* A block has finitely many uses.
LEMMA UsersFinite ==
  ASSUME NEW b
  PROVE  IsFiniteSet(UsersOf(b)) /\ Cardinality(UsersOf(b)) \in Nat
         /\ (Cardinality(UsersOf(b)) = 0 <=> UsersOf(b) = {})
<1>1. UsersOf(b) \subseteq Uses /\ IsFiniteSet(Uses)
  BY PreserveAssumption DEF UsersOf
<1>2. IsFiniteSet(UsersOf(b))
  BY <1>1, FS_Subset
<1> QED
  BY <1>2, FS_CardinalityType, FS_EmptySet

\* A use that begins is counted for its block and for no other.
LEMMA UsersTake ==
  ASSUME TypeOK, NEW u \in Uses, NEW b \in Blocks, user[u] = NULL,
         user' = [user EXCEPT ![u] = b]
  PROVE  /\ UsersOf(b)' = UsersOf(b) \cup {u} /\ u \notin UsersOf(b)
         /\ Cardinality(UsersOf(b)') = Cardinality(UsersOf(b)) + 1
         /\ \A c \in Blocks \ {b} : UsersOf(c)' = UsersOf(c)
<1>1. NULL \notin Blocks
  BY PreserveAssumption
<1>2. UsersOf(b)' = UsersOf(b) \cup {u} /\ u \notin UsersOf(b)
  BY <1>1 DEF UsersOf, TypeOK
<1>3. \A c \in Blocks \ {b} : UsersOf(c)' = UsersOf(c)
  BY <1>1 DEF UsersOf, TypeOK
<1>4. Cardinality(UsersOf(b) \cup {u}) = Cardinality(UsersOf(b)) + 1
  BY <1>2, UsersFinite, FS_AddElement
<1> QED
  BY <1>2, <1>3, <1>4

\* A use that is over is counted no more.
LEMMA UsersDrop ==
  ASSUME TypeOK, NEW u \in Uses, NEW b \in Blocks, user[u] = b,
         user' = [user EXCEPT ![u] = NULL]
  PROVE  /\ u \in UsersOf(b) /\ UsersOf(b)' = UsersOf(b) \ {u}
         /\ Cardinality(UsersOf(b)') = Cardinality(UsersOf(b)) - 1
         /\ \A c \in Blocks \ {b} : UsersOf(c)' = UsersOf(c)
<1>1. NULL \notin Blocks
  BY PreserveAssumption
<1>2. u \in UsersOf(b) /\ UsersOf(b)' = UsersOf(b) \ {u}
  BY <1>1 DEF UsersOf, TypeOK
<1>3. \A c \in Blocks \ {b} : UsersOf(c)' = UsersOf(c)
  BY <1>1 DEF UsersOf, TypeOK
<1>4. Cardinality(UsersOf(b) \ {u}) = Cardinality(UsersOf(b)) - 1
  BY <1>2, UsersFinite, FS_RemoveElement
<1> QED
  BY <1>2, <1>3, <1>4

\* Uses and blocks that did not change are counted as before.
LEMMA UsersSame ==
  ASSUME user' = user
  PROVE  \A b \in Blocks : UsersOf(b)' = UsersOf(b)
BY DEF UsersOf

-------------------------------------------------------------------------------
(* The table.                                                               *)

\* There is at most one slot for a block, and it is the one the loops find.
LEMMA OneSlot ==
  ASSUME TypeOK, Books, NEW b \in Blocks, NEW i \in DOMAIN ref, ref[i].data = b
  PROVE  IsSlot(i, b) /\ \A j \in DOMAIN ref : j # i => ref[j].data # b
<1>1. \A j \in DOMAIN ref : ref[j].data = ref[i].data => i = j
  BY DEF Books
<1>2. DOMAIN ref = 1..Len(ref) /\ Len(ref) \in Nat
  BY LenProperties DEF TypeOK
<1> QED
  BY <1>1, <1>2 DEF IsSlot

\* The table without slot i holds the other slots.
LEMMA VacatedFacts ==
  ASSUME TypeOK, NEW i \in DOMAIN ref
  PROVE  /\ Vacated(i) \in Seq(Slot)
         /\ Len(Vacated(i)) = Len(ref) - 1 /\ Len(ref) \in Nat
         /\ DOMAIN Vacated(i) = 1..(Len(ref) - 1) /\ DOMAIN ref = 1..Len(ref)
         /\ \A j \in DOMAIN Vacated(i) :
              Vacated(i)[j] = ref[IF j = i THEN Len(ref) ELSE j]
<1> DEFINE r == [ref EXCEPT ![i] = Last(ref)]
<1>1. ref \in Seq(Slot) /\ ref # <<>>
  BY EmptySeq DEF TypeOK, Slot
<1>2. /\ Len(ref) \in Nat \ {0} /\ DOMAIN ref = 1..Len(ref)
      /\ Last(ref) = ref[Len(ref)] /\ Last(ref) \in Slot
  BY <1>1, FrontFacts
<1>3. r \in Seq(Slot) /\ Len(r) = Len(ref)
  BY <1>1, <1>2, ExceptSeq
<1>4. r # <<>> /\ DOMAIN r = 1..Len(ref)
  BY <1>2, <1>3, EmptySeq, LenProperties
<1>5. \A j \in DOMAIN r : r[j] = IF j = i THEN ref[Len(ref)] ELSE ref[j]
  BY <1>2, <1>4
<1>6. Vacated(i) = Front(r)
  BY DEF Vacated
<1> HIDE DEF r
<1>7. /\ Front(r) \in Seq(Slot) /\ Len(Front(r)) = Len(r) - 1
      /\ DOMAIN Front(r) = 1..(Len(r) - 1)
      /\ \A j \in DOMAIN Front(r) : j \in DOMAIN r /\ Front(r)[j] = r[j]
  BY <1>3, <1>4, FrontFacts
<1> QED
  BY <1>2, <1>3, <1>5, <1>6, <1>7

-------------------------------------------------------------------------------
(* Blocks that end.                                                         *)

\* A thread that does not begin or finish a freeProc runs the same ones.
LEMMA RunSame ==
  ASSUME run' = run
  PROVE  \A t \in Threads, b \in Blocks : Running(t, b)' = Running(t, b)
BY DEF Running

\* While no block begins to end or is freed, EndsOnce stays as it is.
LEMMA EndsOnceSame ==
  ASSUME EndsOnce, run' = run,
         \A b \in Blocks : (life[b] = "ending") = (life'[b] = "ending")
  PROVE  EndsOnce'
BY RunSame DEF EndsOnce

\* A block that begins to end was not ending before, and it is run once.
LEMMA DisposeFacts ==
  ASSUME TypeOK, EndsOnce, NEW t \in Threads, NEW b \in Blocks, life[b] # "ending",
         Dispose(t, b)
  PROVE  /\ life' \in [Blocks -> {"free", "live", "doomed", "ending"}]
         /\ run' \in [Threads -> Seq(Blocks)]
         /\ life'[b] = "ending" /\ \A c \in Blocks \ {b} : life'[c] = life[c]
         /\ \A v \in Threads, c \in Blocks : Running(v, c) => Running(v, c)'
         /\ EndsOnce'
<1>1. run \in [Threads -> Seq(Blocks)]
      /\ life \in [Blocks -> {"free", "live", "doomed", "ending"}]
  BY DEF TypeOK
<1>2. run' = [run EXCEPT ![t] = Append(run[t], b)]
      /\ life' = [life EXCEPT ![b] = "ending"]
  BY DEF Dispose
<1>3. /\ Append(run[t], b) \in Seq(Blocks) /\ Len(run[t]) \in Nat
      /\ DOMAIN Append(run[t], b) = 1..(Len(run[t]) + 1)
      /\ DOMAIN run[t] = 1..Len(run[t])
      /\ \A k \in DOMAIN run[t] : Append(run[t], b)[k] = run[t][k]
      /\ Append(run[t], b)[Len(run[t]) + 1] = b
  BY <1>1, AppendFacts
<1>4. run' \in [Threads -> Seq(Blocks)]
      /\ life' \in [Blocks -> {"free", "live", "doomed", "ending"}]
  BY <1>1, <1>2, <1>3
<1>5. life'[b] = "ending" /\ \A c \in Blocks \ {b} : life'[c] = life[c]
  BY <1>1, <1>2
<1>6. run'[t] = Append(run[t], b) /\ \A v \in Threads \ {t} : run'[v] = run[v]
  BY <1>1, <1>2
<1>7. \A v \in Threads : \A k \in DOMAIN run[v] : k \in DOMAIN run'[v] /\ run'[v][k] = run[v][k]
  BY <1>3, <1>6, SMTT(40)
<1>8. \A v \in Threads, c \in Blocks : Running(v, c) => Running(v, c)'
  BY <1>7 DEF Running
<1>9. Running(t, b)'
  BY <1>3, <1>6 DEF Running
<1>10. \A v \in Threads : \A k \in DOMAIN run'[v] :
         \/ k \in DOMAIN run[v] /\ run'[v][k] = run[v][k]
         \/ v = t /\ k = Len(run[t]) + 1 /\ run'[v][k] = b
  BY <1>3, <1>6, SMTT(40)
<1>11. \A v \in Threads : ~Running(v, b)
  BY DEF EndsOnce, Running
<1>12. ASSUME NEW c \in Blocks, c # b, NEW v \in Threads, NEW w \in Threads,
              NEW k \in DOMAIN run'[v], NEW l \in DOMAIN run'[w],
              run'[v][k] = c, run'[w][l] = c
       PROVE  v = w /\ k = l /\ life'[c] = "ending"
  BY <1>5, <1>10, <1>12 DEF EndsOnce
<1>13. ASSUME NEW v \in Threads, NEW w \in Threads,
              NEW k \in DOMAIN run'[v], NEW l \in DOMAIN run'[w],
              run'[v][k] = b, run'[w][l] = b
       PROVE  v = w /\ k = l /\ life'[b] = "ending"
  BY <1>5, <1>10, <1>11, <1>13 DEF Running
<1>14. ASSUME NEW c \in Blocks, life'[c] = "ending"
       PROVE  \E v \in Threads : Running(v, c)'
  BY <1>5, <1>8, <1>9, <1>14 DEF EndsOnce
<1>15. EndsOnce'
  BY <1>12, <1>13, <1>14 DEF EndsOnce
<1> QED
  BY <1>4, <1>5, <1>8, <1>15

\* A freeProc that returns ended a block nobody uses.
LEMMA FreedFacts ==
  ASSUME IInv, NEW t \in Threads, Freed(t)
  PROVE  /\ Last(run[t]) \in Blocks /\ life[Last(run[t])] = "ending"
         /\ UsersOf(Last(run[t])) = {}
         /\ life' = [life EXCEPT ![Last(run[t])] = "free"]
         /\ run' \in [Threads -> Seq(Blocks)]
         /\ \A v \in Threads, c \in Blocks :
              c # Last(run[t]) /\ Running(v, c) => Running(v, c)'
         /\ EndsOnce'
<1>1. run \in [Threads -> Seq(Blocks)]
      /\ life \in [Blocks -> {"free", "live", "doomed", "ending"}]
  BY DEF IInv, TypeOK
<1>2. /\ run[t] # <<>> /\ run' = [run EXCEPT ![t] = Front(run[t])]
      /\ life' = [life EXCEPT ![Last(run[t])] = "free"]
      /\ \A u \in Uses : Of[u] = t => user[u] # Last(run[t])
  BY DEF Freed
<1>3. /\ Front(run[t]) \in Seq(Blocks) /\ Len(run[t]) \in Nat \ {0}
      /\ DOMAIN Front(run[t]) = 1..(Len(run[t]) - 1) /\ DOMAIN run[t] = 1..Len(run[t])
      /\ \A k \in DOMAIN Front(run[t]) : k \in DOMAIN run[t] /\ Front(run[t])[k] = run[t][k]
      /\ Last(run[t]) = run[t][Len(run[t])] /\ Last(run[t]) \in Blocks
  BY <1>1, <1>2, FrontFacts
<1>4. PICK b \in Blocks : b = Last(run[t])
  BY <1>3
<1>5. Running(t, b) /\ Len(run[t]) \in DOMAIN run[t] /\ run[t][Len(run[t])] = b
  BY <1>3, <1>4 DEF Running
<1>6. life[b] = "ending"
  BY <1>5 DEF IInv, EndsOnce
<1>7. \A v \in Threads : \A k \in DOMAIN run[v] :
        run[v][k] = b => v = t /\ k = Len(run[t])
  BY <1>5 DEF IInv, EndsOnce
<1>8. UsersOf(b) = {}
  <2>1. \A u \in UsersOf(b) : u \in Uses /\ user[u] = b /\ Of[u] \in Threads
    BY PreserveAssumption DEF UsersOf
  <2>2. \A u \in UsersOf(b) : Running(Of[u], b)
    BY <1>6 DEF IInv, Rules
  <2>3. \A u \in UsersOf(b) : Of[u] = t
    BY <1>7, <2>1, <2>2 DEF Running
  <2> QED
    BY <1>2, <1>4, <2>1, <2>3
<1>9. run'[t] = Front(run[t]) /\ \A v \in Threads \ {t} : run'[v] = run[v]
  BY <1>1, <1>2
<1>10. run' \in [Threads -> Seq(Blocks)]
  BY <1>1, <1>2, <1>3
<1>11. \A v \in Threads : \A k \in DOMAIN run'[v] :
         /\ k \in DOMAIN run[v] /\ run'[v][k] = run[v][k]
         /\ v = t => k # Len(run[t])
  BY <1>3, <1>9
<1>12. \A v \in Threads : \A k \in DOMAIN run[v] :
         run[v][k] # b => k \in DOMAIN run'[v] /\ run'[v][k] = run[v][k]
  BY <1>3, <1>4, <1>9
<1>13. \A v \in Threads, c \in Blocks : c # b /\ Running(v, c) => Running(v, c)'
  BY <1>12 DEF Running
<1>14. life'[b] = "free" /\ \A c \in Blocks \ {b} : life'[c] = life[c]
  BY <1>1, <1>2, <1>4
<1>15. \A v \in Threads : \A k \in DOMAIN run'[v] : run'[v][k] # b
  BY <1>7, <1>11
<1>16. ASSUME NEW c \in Blocks, NEW v \in Threads, NEW w \in Threads,
              NEW k \in DOMAIN run'[v], NEW l \in DOMAIN run'[w],
              run'[v][k] = c, run'[w][l] = c
       PROVE  v = w /\ k = l /\ life'[c] = "ending"
  <2>1. c # b
    BY <1>15, <1>16
  <2>2. run[v][k] = c /\ run[w][l] = c /\ k \in DOMAIN run[v] /\ l \in DOMAIN run[w]
    BY <1>11, <1>16
  <2>3. v = w /\ k = l /\ life[c] = "ending"
    BY <2>2 DEF IInv, EndsOnce
  <2> QED
    BY <1>14, <2>1, <2>3
<1>17. ASSUME NEW c \in Blocks, life'[c] = "ending"
       PROVE  \E v \in Threads : Running(v, c)'
  BY <1>13, <1>14, <1>17 DEF IInv, EndsOnce
<1>18. EndsOnce'
  BY <1>16, <1>17 DEF EndsOnce
<1> QED
  BY <1>2, <1>4, <1>6, <1>8, <1>10, <1>13, <1>18

-------------------------------------------------------------------------------
(* The steps.                                                               *)

\* What the slot says, if it is the block's.
Exact(i, b) == ref[i].data = b =>
                 /\ ref[i].count = Cardinality(UsersOf(b)) /\ ref[i].count # 0
                 /\ ref[i].must <=> life[b] = "doomed"

\* Books, put together from its parts after a step.
LEMMA BooksNext ==
  ASSUME TypeOK', ~panic', Len(ref') <= space',
         \A b \in Blocks : UsersOf(b)' # {} => ~NoSlot(b)',
         \A i \in DOMAIN ref', b \in Blocks : Exact(i, b)',
         \A i, j \in DOMAIN ref' : ref'[i].data = ref'[j].data => i = j
  PROVE  Books'
<1>1. ref' \in Seq(Slot)
  BY DEF TypeOK, Slot
<1>2. \A i \in DOMAIN ref' : ref'[i] \in Slot
  BY <1>1, LenProperties, ElementOfSeq
<1>3. \A i \in DOMAIN ref' : ref'[i].data \in Blocks
  BY <1>2 DEF Slot
<1>4. \A i \in DOMAIN ref' :
        /\ ref'[i].count = Cardinality({u \in Uses : user'[u] = ref'[i].data})
        /\ ref'[i].count # 0
        /\ ref'[i].must <=> life'[ref'[i].data] = "doomed"
  <2>1. ASSUME NEW i \in DOMAIN ref', NEW b \in Blocks, ref'[i].data = b
        PROVE  /\ ref'[i].count = Cardinality({u \in Uses : user'[u] = b})
               /\ ref'[i].count # 0
               /\ ref'[i].must <=> life'[b] = "doomed"
    BY <2>1 DEF Exact, UsersOf
  <2> QED
    BY <1>3, <2>1
<1> QED
  BY <1>4 DEF Books, UsersOf

\* The parts of Books that a step is shown to keep, for the table as it is.
LEMMA BooksParts ==
  ASSUME TypeOK, Books
  PROVE  /\ ref \in Seq(Slot) /\ Len(ref) \in Nat /\ DOMAIN ref = 1..Len(ref)
         /\ ~panic /\ Len(ref) <= space /\ space \in Nat
         /\ \A b \in Blocks : NoSlot(b) => UsersOf(b) = {}
         /\ \A i \in DOMAIN ref :
              /\ ref[i] \in Slot /\ ref[i].data \in Blocks
              /\ UsersOf(ref[i].data) # {}
         /\ \A i \in DOMAIN ref, b \in Blocks : Exact(i, b)
<1>1. ref \in Seq(Slot) /\ space \in Nat
  BY DEF TypeOK, Slot
<1>2. Len(ref) \in Nat /\ DOMAIN ref = 1..Len(ref)
  BY <1>1, LenProperties
<1>3. \A i \in DOMAIN ref : ref[i] \in Slot
  BY <1>1, <1>2, ElementOfSeq
<1>4. \A i \in DOMAIN ref : ref[i].data \in Blocks
  BY <1>3 DEF Slot
<1>5. \A i \in DOMAIN ref : UsersOf(ref[i].data) # {}
  BY UsersFinite DEF Books
<1>6. \A i \in DOMAIN ref, b \in Blocks : Exact(i, b)
  BY DEF Books, Exact
<1> QED
  BY <1>1, <1>2, <1>3, <1>4, <1>5, <1>6 DEF Books

\* Tcl_Preserve counts the use in the block's slot, or in a new one.
LEMMA PreserveBooks ==
  ASSUME IInv, NEW u \in Uses, NEW b \in Blocks, Tcl_Preserve(u, b)
  PROVE  TypeOK' /\ Books'
<1> USE DEF IInv
<1>1. /\ user[u] = NULL /\ user' = [user EXCEPT ![u] = b]
      /\ life' = life /\ run' = run /\ panic' = panic /\ Knows(Of[u], b)
  BY DEF Tcl_Preserve
<1>2. /\ UsersOf(b)' = UsersOf(b) \cup {u}
      /\ Cardinality(UsersOf(b)') = Cardinality(UsersOf(b)) + 1
      /\ \A c \in Blocks \ {b} : UsersOf(c)' = UsersOf(c)
  BY <1>1, UsersTake
<1>3. user' \in [Uses -> Blocks \cup {NULL}]
  BY <1>1 DEF TypeOK
<1>4. /\ ref \in Seq(Slot) /\ Len(ref) \in Nat /\ DOMAIN ref = 1..Len(ref)
      /\ ~panic /\ Len(ref) <= space /\ space \in Nat
      /\ \A i \in DOMAIN ref : ref[i] \in Slot /\ ref[i].data \in Blocks
      /\ \A i \in DOMAIN ref, c \in Blocks : Exact(i, c)
  BY BooksParts
<1>5. CASE \E i \in DOMAIN ref :
             IsSlot(i, b) /\ ref' = [ref EXCEPT ![i].count = @ + 1] /\ UNCHANGED space
  <2>1. PICK i \in DOMAIN ref :
          IsSlot(i, b) /\ ref' = [ref EXCEPT ![i].count = @ + 1] /\ space' = space
    BY <1>5
  <2>2. ref[i].data = b /\ \A j \in DOMAIN ref : j # i => ref[j].data # b
    BY <2>1, OneSlot DEF IsSlot
  <2>3. [ref[i] EXCEPT !.count = ref[i].count + 1] \in Slot
    BY <1>4 DEF Slot
  <2>4. ref' = [ref EXCEPT ![i] = [ref[i] EXCEPT !.count = ref[i].count + 1]]
    BY <1>4, <2>1
  <2>5. /\ ref' \in Seq(Slot) /\ Len(ref') = Len(ref) /\ DOMAIN ref' = DOMAIN ref
    BY <1>4, <2>3, <2>4, ExceptSeq, LenProperties
  <2>6. /\ ref'[i].data = b /\ ref'[i].count = ref[i].count + 1
        /\ ref'[i].must = ref[i].must
        /\ \A j \in DOMAIN ref : j # i => ref'[j] = ref[j]
    BY <1>4, <2>2, <2>3, <2>4 DEF Slot
  <2>7. TypeOK'
    BY <1>1, <1>3, <2>1, <2>5 DEF TypeOK, Slot
  <2>8. \A c \in Blocks : NoSlot(c)' => NoSlot(c)
    BY <2>2, <2>5, <2>6 DEF NoSlot
  <2>9. ASSUME NEW c \in Blocks, UsersOf(c)' # {} PROVE ~NoSlot(c)'
    <3>1. CASE c = b
      BY <2>5, <2>6, <3>1 DEF NoSlot
    <3>2. CASE c # b
      BY <1>2, <2>8, <2>9, <3>2 DEF Books
    <3> QED
      BY <3>1, <3>2
  <2>10. ASSUME NEW j \in DOMAIN ref', NEW c \in Blocks, ref'[j].data = c
         PROVE  /\ ref'[j].count = Cardinality(UsersOf(c)') /\ ref'[j].count # 0
                /\ ref'[j].must <=> life'[c] = "doomed"
    <3>1. CASE j = i
      <4>1. c = b /\ ref[i].count = Cardinality(UsersOf(b))
            /\ (ref[i].must <=> life[b] = "doomed")
        BY <1>4, <2>2, <2>6, <2>10, <3>1 DEF Exact
      <4>2. ref[i].count \in Nat
        BY <1>4 DEF Slot
      <4> QED
        BY <1>1, <1>2, <2>6, <3>1, <4>1, <4>2
    <3>2. CASE j # i
      <4>1. j \in DOMAIN ref /\ ref'[j] = ref[j] /\ c # b
        BY <2>2, <2>5, <2>6, <2>10, <3>2
      <4>2. UsersOf(c)' = UsersOf(c)
        BY <1>2, <4>1
      <4>3. Exact(j, c) /\ ref[j].data = c
        BY <1>4, <2>10, <4>1
      <4> QED
        BY <1>1, <4>1, <4>2, <4>3 DEF Exact
    <3> QED
      BY <3>1, <3>2
  <2>11. \A j, k \in DOMAIN ref' : ref'[j].data = ref'[k].data => j = k
    BY <2>2, <2>5, <2>6 DEF Books
  <2> QED
    BY <1>1, <1>4, <2>1, <2>5, <2>7, <2>9, <2>10, <2>11, BooksNext DEF Exact
<1>6. CASE NoSlot(b) /\ ref' = Append(ref, NewSlot(b)) /\ space' = Grown
  <2>1. UsersOf(b) = {} /\ life[b] # "doomed"
    BY <1>6, BooksParts DEF Rules
  <2>2. NewSlot(b) \in Slot
    BY DEF NewSlot, Slot
  <2>3. /\ ref' \in Seq(Slot) /\ Len(ref') = Len(ref) + 1
        /\ DOMAIN ref' = 1..(Len(ref) + 1)
        /\ \A j \in DOMAIN ref : ref'[j] = ref[j]
        /\ ref'[Len(ref) + 1] = NewSlot(b)
    BY <1>4, <1>6, <2>2, AppendFacts
  <2>4. space' \in Nat /\ Len(ref') <= space'
    <3>1. \/ Len(ref) # space /\ space' = space
          \/ Len(ref) = space /\ space = 0 /\ space' = 2
          \/ Len(ref) = space /\ space # 0 /\ space' = 2 * space
      BY <1>6 DEF Grown, INITIAL_SIZE
    <3>2. Len(ref) \in Nat /\ space \in Nat /\ Len(ref) <= space /\ Len(ref') = Len(ref) + 1
      BY <1>4, <2>3
    <3>3. \A l, k, n \in Nat : k <= l /\ n = k + 1 =>
            /\ k # l => n <= l
            /\ k = l /\ l = 0 => n <= 2
            /\ k = l /\ l # 0 => n <= 2 * l /\ 2 * l \in Nat
      OBVIOUS
    <3>4. Len(ref') \in Nat
      BY <3>2
    <3> QED
      BY <3>1, <3>2, <3>3, <3>4
  <2>5. TypeOK'
    BY <1>1, <1>3, <2>3, <2>4 DEF TypeOK, Slot
  <2>6. ASSUME NEW c \in Blocks, UsersOf(c)' # {} PROVE ~NoSlot(c)'
    <3>1. CASE c = b
      BY <1>4, <2>3, <3>1 DEF NoSlot, NewSlot
    <3>2. CASE c # b
      <4>1. ~NoSlot(c)
        BY <1>2, <2>6, <3>2 DEF Books
      <4> QED
        BY <1>4, <2>3, <4>1 DEF NoSlot
    <3> QED
      BY <3>1, <3>2
  <2>7. \A j \in DOMAIN ref : ref[j].data # b
    BY <1>6 DEF NoSlot
  <2>8. ASSUME NEW j \in DOMAIN ref', NEW c \in Blocks, ref'[j].data = c
        PROVE  /\ ref'[j].count = Cardinality(UsersOf(c)') /\ ref'[j].count # 0
               /\ ref'[j].must <=> life'[c] = "doomed"
    <3>1. CASE j = Len(ref) + 1
      <4>1. Cardinality(UsersOf(b)') = 1
        <5>1. Cardinality(UsersOf(b)) = 0
          BY <2>1, FS_EmptySet
        <5> QED
          BY <1>2, <5>1
      <4>2. ref'[j] = NewSlot(b)
        BY <2>3, <3>1
      <4>3. c = b /\ ref'[j].count = 1 /\ ref'[j].must = FALSE
        BY <2>8, <4>2 DEF NewSlot
      <4> QED
        BY <1>1, <2>1, <4>1, <4>3
    <3>2. CASE j # Len(ref) + 1
      <4>1. j \in DOMAIN ref /\ ref'[j] = ref[j] /\ c # b
        BY <1>4, <2>3, <2>7, <2>8, <3>2
      <4>2. UsersOf(c)' = UsersOf(c)
        BY <1>2, <4>1
      <4>3. Exact(j, c) /\ ref[j].data = c
        BY <1>4, <2>8, <4>1
      <4> QED
        BY <1>1, <4>1, <4>2, <4>3 DEF Exact
    <3> QED
      BY <3>1, <3>2
  <2>9. \A j, k \in DOMAIN ref' : ref'[j].data = ref'[k].data => j = k
    <3>1. \A j, k \in DOMAIN ref : ref[j].data = ref[k].data => j = k
      BY DEF Books
    <3>2. ref'[Len(ref) + 1].data = b
      BY <2>3 DEF NewSlot
    <3>3. \A j \in DOMAIN ref' : j = Len(ref) + 1 \/ j \in DOMAIN ref
      BY <1>4, <2>3
    <3> QED
      BY <2>3, <2>7, <3>1, <3>2, <3>3
  <2> QED
    BY <1>1, <1>4, <2>4, <2>5, <2>6, <2>8, <2>9, BooksNext DEF Exact
<1> QED
  BY <1>5, <1>6 DEF Tcl_Preserve

\* The uses that begin are uses of live blocks, or inside a freeProc.
LEMMA PreserveRules ==
  ASSUME IInv, NEW u \in Uses, NEW b \in Blocks, Tcl_Preserve(u, b)
  PROVE  EndsOnce' /\ Rules'
<1> USE DEF IInv
<1>1. /\ user[u] = NULL /\ user' = [user EXCEPT ![u] = b]
      /\ life' = life /\ run' = run /\ Knows(Of[u], b)
  BY DEF Tcl_Preserve
<1>2. /\ UsersOf(b)' = UsersOf(b) \cup {u}
      /\ \A c \in Blocks \ {b} : UsersOf(c)' = UsersOf(c)
  BY <1>1, UsersTake
<1>3. EndsOnce'
  BY <1>1, EndsOnceSame
<1>4. Of[u] \in Threads /\ \A v \in Uses : Of[v] \in Threads
  BY PreserveAssumption
<1>5. life[b] # "free" /\ (life[b] = "ending" => Running(Of[u], b))
  <2>1. CASE Running(Of[u], b)
    BY <1>4, <2>1 DEF EndsOnce, Running
  <2>2. CASE \E v \in Uses : Of[v] = Of[u] /\ user[v] = b
    BY <2>2 DEF Rules, UsersOf
  <2> QED
    BY <1>1, <2>1, <2>2 DEF Knows
<1>6. \A t \in Threads, c \in Blocks : Running(t, c)' = Running(t, c)
  BY <1>1, RunSame
<1>7. \A v \in UsersOf(b) : v \in Uses
  BY DEF UsersOf
<1>8. /\ life'[b] = "free" => UsersOf(b)' = {}
      /\ life'[b] = "doomed" => UsersOf(b)' # {}
      /\ life'[b] = "ending" => \A v \in UsersOf(b)' : Running(Of[v], b)'
  <2>1. life[b] = "ending" => \A v \in UsersOf(b) \cup {u} : Running(Of[v], b)
    BY <1>5 DEF Rules
  <2>2. \A v \in UsersOf(b) \cup {u} : Of[v]' = Of[v] /\ Of[v] \in Threads
    BY <1>4, <1>7
  <2> QED
    BY <1>1, <1>2, <1>5, <1>6, <2>1, <2>2
<1>9. ASSUME NEW c \in Blocks \ {b}
      PROVE  /\ life'[c] = "free" => UsersOf(c)' = {}
             /\ life'[c] = "doomed" => UsersOf(c)' # {}
             /\ life'[c] = "ending" => \A v \in UsersOf(c)' : Running(Of[v], c)'
  <2>1. \A v \in UsersOf(c) : Of[v] \in Threads
    BY <1>4 DEF UsersOf
  <2> QED
    BY <1>1, <1>2, <1>6, <2>1 DEF Rules
<1>10. Rules'
  BY <1>8, <1>9 DEF Rules
<1> QED
  BY <1>3, <1>10

\* A use gives its slot one less, or its slot away.
LEMMA ReleaseBooks ==
  ASSUME IInv, NEW u \in Uses, NEW b \in Blocks, user[u] = b,
         user' = [user EXCEPT ![u] = NULL], NEW i \in DOMAIN ref, IsSlot(i, b),
         space' = space, panic' = panic, TypeOK',
         \A c \in Blocks \ {b} : life'[c] = life[c],
         \/ ~LastUse(i) /\ ref' = [ref EXCEPT ![i].count = @ - 1] /\ life'[b] = life[b]
         \/ LastUse(i) /\ ref' = Vacated(i)
  PROVE  Books'
<1> USE DEF IInv
<1>1. /\ u \in UsersOf(b) /\ UsersOf(b)' = UsersOf(b) \ {u}
      /\ Cardinality(UsersOf(b)') = Cardinality(UsersOf(b)) - 1
      /\ \A c \in Blocks \ {b} : UsersOf(c)' = UsersOf(c)
  BY UsersDrop
<1>2. /\ ref \in Seq(Slot) /\ Len(ref) \in Nat /\ DOMAIN ref = 1..Len(ref)
      /\ ~panic /\ Len(ref) <= space /\ space \in Nat
      /\ \A j \in DOMAIN ref : ref[j] \in Slot /\ ref[j].data \in Blocks
      /\ \A j \in DOMAIN ref, c \in Blocks : Exact(j, c)
  BY BooksParts
<1>3. ref[i].data = b /\ \A j \in DOMAIN ref : j # i => ref[j].data # b
  BY OneSlot DEF IsSlot
<1>4. /\ ref[i].count = Cardinality(UsersOf(b)) /\ ref[i].count # 0
      /\ ref[i].must <=> life[b] = "doomed"
      /\ ref[i].count \in Nat
  BY <1>2, <1>3 DEF Exact, Slot
<1>5. \A j, k \in DOMAIN ref : ref[j].data = ref[k].data => j = k
  BY DEF Books
<1>6. \A c \in Blocks : UsersOf(c) # {} => ~NoSlot(c)
  BY DEF Books
<1>7. ASSUME NEW c \in Blocks \ {b}, NEW j \in DOMAIN ref, NEW k \in DOMAIN ref',
             ref'[k] = ref[j]
      PROVE  Exact(k, c)'
  BY <1>1, <1>2, <1>7 DEF Exact
<1>8. CASE ~LastUse(i) /\ ref' = [ref EXCEPT ![i].count = @ - 1] /\ life'[b] = life[b]
  <2>1. ref' = [ref EXCEPT ![i] = [ref[i] EXCEPT !.count = ref[i].count - 1]]
    BY <1>2, <1>8
  <2>2. ref[i].count - 1 \in Nat /\ ref[i].count - 1 # 0
    BY <1>4, <1>8 DEF LastUse
  <2>3. [ref[i] EXCEPT !.count = ref[i].count - 1] \in Slot
    BY <1>2, <2>2 DEF Slot
  <2>4. /\ ref' \in Seq(Slot) /\ Len(ref') = Len(ref) /\ DOMAIN ref' = DOMAIN ref
    BY <1>2, <2>1, <2>3, ExceptSeq, LenProperties
  <2>5. /\ ref'[i].data = b /\ ref'[i].count = ref[i].count - 1
        /\ ref'[i].must = ref[i].must
        /\ \A j \in DOMAIN ref : j # i => ref'[j] = ref[j]
    BY <1>2, <1>3, <2>1, <2>3 DEF Slot
  <2>6. ASSUME NEW c \in Blocks, UsersOf(c)' # {} PROVE ~NoSlot(c)'
    <3>1. CASE c = b
      BY <2>4, <2>5, <3>1 DEF NoSlot
    <3>2. CASE c # b
      <4>1. ~NoSlot(c)
        BY <1>1, <1>6, <2>6, <3>2
      <4> QED
        BY <1>3, <2>4, <2>5, <3>2, <4>1 DEF NoSlot
    <3> QED
      BY <3>1, <3>2
  <2>7. ASSUME NEW j \in DOMAIN ref', NEW c \in Blocks PROVE Exact(j, c)'
    <3>1. CASE c = b
      <4>1. CASE j = i
        BY <1>1, <1>4, <1>8, <2>2, <2>5, <3>1, <4>1 DEF Exact
      <4>2. CASE j # i
        BY <1>3, <2>4, <2>5, <3>1, <4>2 DEF Exact
      <4> QED
        BY <4>1, <4>2
    <3>2. CASE c # b /\ j # i
      BY <1>7, <2>4, <2>5, <3>2
    <3>3. CASE c # b /\ j = i
      BY <2>5, <3>3 DEF Exact
    <3> QED
      BY <3>1, <3>2, <3>3
  <2>8. \A j, k \in DOMAIN ref' : ref'[j].data = ref'[k].data => j = k
    BY <1>3, <1>5, <2>4, <2>5
  <2>9. ~panic' /\ Len(ref') <= space'
    BY <1>2, <2>4
  <2> QED
    BY <2>6, <2>7, <2>8, <2>9, BooksNext
<1>9. CASE LastUse(i) /\ ref' = Vacated(i)
  <2>1. UsersOf(b)' = {}
    <3>1. Cardinality(UsersOf(b)) = 1
      BY <1>4, <1>9 DEF LastUse
    <3>2. UsersOf(b) = {u}
      BY <1>1, <3>1, UsersFinite, FS_Singleton
    <3> QED
      BY <1>1, <3>2
  <2>2. /\ Len(ref') = Len(ref) - 1 /\ DOMAIN ref' = 1..(Len(ref) - 1)
        /\ \A j \in DOMAIN ref' : ref'[j] = ref[IF j = i THEN Len(ref) ELSE j]
    BY <1>9, VacatedFacts
  <2>10. PICK n \in Nat : n = Len(ref) /\ DOMAIN ref = 1..n /\ DOMAIN ref' = 1..(n - 1)
    BY <1>2, <2>2
  <2>11. i \in 1..n /\ n - 1 \in Int
    BY <2>10
  <2>12. \A j \in 1..(n - 1) : j \in 1..n /\ j # n
    BY <2>11
  <2>13. \A j \in 1..n : j # n => j \in 1..(n - 1)
    BY <2>11
  <2>3. \A j \in DOMAIN ref' :
          LET k == IF j = i THEN Len(ref) ELSE j IN k \in DOMAIN ref /\ k # i
    BY <2>10, <2>11, <2>12
  <2>4. \A j \in DOMAIN ref' : ref'[j].data # b
    BY <1>3, <2>2, <2>3
  <2>5. \A j \in DOMAIN ref : j # i => \E k \in DOMAIN ref' : ref'[k] = ref[j]
    <3>1. ASSUME NEW j \in DOMAIN ref, j # i
          PROVE  \E k \in DOMAIN ref' : ref'[k] = ref[j]
      <4>1. CASE j = Len(ref)
        <5>1. i \in DOMAIN ref' /\ ref'[i] = ref[j]
          BY <2>2, <2>10, <2>11, <2>13, <3>1, <4>1
        <5> QED
          BY <5>1
      <4>2. CASE j # Len(ref)
        <5>1. j \in DOMAIN ref' /\ ref'[j] = ref[j]
          BY <2>2, <2>10, <2>13, <3>1, <4>2
        <5> QED
          BY <5>1
      <4> QED
        BY <4>1, <4>2
    <3> QED
      BY <3>1
  <2>6. ASSUME NEW c \in Blocks, UsersOf(c)' # {} PROVE ~NoSlot(c)'
    <3>1. c # b /\ ~NoSlot(c)
      BY <1>1, <1>6, <2>1, <2>6
    <3>2. PICK j \in DOMAIN ref : ref[j].data = c
      BY <3>1 DEF NoSlot
    <3> QED
      BY <1>3, <2>5, <3>1, <3>2 DEF NoSlot
  <2>7. ASSUME NEW j \in DOMAIN ref', NEW c \in Blocks PROVE Exact(j, c)'
    <3>1. CASE c = b
      BY <2>4, <3>1 DEF Exact
    <3>2. CASE c # b
      BY <1>7, <2>2, <2>3, <3>2
    <3> QED
      BY <3>1, <3>2
  <2>8. \A j, k \in DOMAIN ref' : ref'[j].data = ref'[k].data => j = k
    <3>1. ASSUME NEW j \in DOMAIN ref', NEW k \in DOMAIN ref', ref'[j].data = ref'[k].data
          PROVE  j = k
      <4>1. PICK l \in DOMAIN ref : l = IF j = i THEN Len(ref) ELSE j
        BY <2>3
      <4>2. PICK m \in DOMAIN ref : m = IF k = i THEN Len(ref) ELSE k
        BY <2>3
      <4>3. ref'[j] = ref[l] /\ ref'[k] = ref[m]
        BY <2>2, <4>1, <4>2
      <4>4. l = m
        BY <1>5, <3>1, <4>3
      <4> QED
        BY <2>10, <2>12, <4>1, <4>2, <4>4
    <3> QED
      BY <3>1
  <2>14. Len(ref') = n - 1
    BY <2>2, <2>10
  <2>15. n <= space /\ space \in Nat
    BY <1>2, <2>10
  <2>9. ~panic' /\ Len(ref') <= space'
    BY <1>2, <2>14, <2>15
  <2> QED
    BY <2>6, <2>7, <2>8, <2>9, BooksNext
<1> QED
  BY <1>8, <1>9

\* What Tcl_Release does to the block: nothing, or it begins to end it.
LEMMA ReleaseLife ==
  ASSUME IInv, NEW u \in Uses, NEW b \in Blocks, user[u] = b, Tcl_Release(u)
  PROVE  /\ user' = [user EXCEPT ![u] = NULL] /\ panic' = panic /\ space' = space
         /\ \E i \in DOMAIN ref :
              /\ IsSlot(i, b)
              /\ \/ /\ ~LastUse(i) /\ ref' = [ref EXCEPT ![i].count = @ - 1]
                    /\ life' = life /\ run' = run
                 \/ /\ LastUse(i) /\ ref' = Vacated(i) /\ ~ref[i].must
                    /\ life' = life /\ run' = run
                 \/ /\ LastUse(i) /\ ref' = Vacated(i) /\ ref[i].must
                    /\ Dispose(Of[u], b)
<1>1. UsersOf(b) # {}
  BY DEF UsersOf
<1>2. ~NoSlot(b)
  BY <1>1 DEF IInv, Books
<1>3. PICK i \in DOMAIN ref :
        /\ IsSlot(i, b)
        /\ \/ /\ ~LastUse(i) /\ ref' = [ref EXCEPT ![i].count = @ - 1]
              /\ UNCHANGED <<life, run>>
           \/ /\ LastUse(i) /\ ref' = Vacated(i)
              /\ IF ref[i].must THEN Dispose(Of[u], b) ELSE UNCHANGED <<life, run>>
        /\ user' = [user EXCEPT ![u] = NULL] /\ UNCHANGED panic /\ UNCHANGED space
  BY <1>2 DEF Tcl_Release
<1> QED
  BY <1>3

\* Tcl_Release keeps the invariant.
LEMMA ReleaseInv ==
  ASSUME IInv, NEW u \in Uses, Tcl_Release(u)
  PROVE  IInv'
<1>1. PICK b \in Blocks : b = user[u]
  BY DEF IInv, TypeOK, Tcl_Release
<1>2. PICK i \in DOMAIN ref :
        /\ IsSlot(i, b)
        /\ \/ /\ ~LastUse(i) /\ ref' = [ref EXCEPT ![i].count = @ - 1]
              /\ life' = life /\ run' = run
           \/ /\ LastUse(i) /\ ref' = Vacated(i) /\ ~ref[i].must
              /\ life' = life /\ run' = run
           \/ /\ LastUse(i) /\ ref' = Vacated(i) /\ ref[i].must
              /\ Dispose(Of[u], b)
  BY <1>1, ReleaseLife
<1>3. user' = [user EXCEPT ![u] = NULL] /\ panic' = panic /\ space' = space
  BY <1>1, ReleaseLife
<1>4. /\ u \in UsersOf(b) /\ UsersOf(b)' = UsersOf(b) \ {u}
      /\ Cardinality(UsersOf(b)') = Cardinality(UsersOf(b)) - 1
      /\ \A c \in Blocks \ {b} : UsersOf(c)' = UsersOf(c)
  BY <1>1, <1>3, UsersDrop DEF IInv
<1>5. /\ ref \in Seq(Slot) /\ Len(ref) \in Nat /\ DOMAIN ref = 1..Len(ref)
      /\ ref[i] \in Slot /\ ref[i].data = b
      /\ ref[i].count = Cardinality(UsersOf(b)) /\ ref[i].count # 0
      /\ ref[i].must <=> life[b] = "doomed"
  <2>1. ref[i].data = b
    BY <1>2 DEF IsSlot
  <2> QED
    BY <2>1, BooksParts DEF IInv, Exact
<1>6. user' \in [Uses -> Blocks \cup {NULL}]
  BY <1>3 DEF IInv, TypeOK
<1>7. Of[u] \in Threads /\ \A v \in Uses : Of[v] \in Threads
  BY PreserveAssumption
<1>8. /\ ref' \in Seq(Slot)
      /\ ~LastUse(i) => Cardinality(UsersOf(b)') # 0
      /\ LastUse(i) => Cardinality(UsersOf(b)') = 0
  <2>1. CASE ~LastUse(i) /\ ref' = [ref EXCEPT ![i].count = @ - 1]
    <3>1. ref[i].count \in Nat /\ ref[i].count # 0 /\ ref[i].count # 1
      BY <1>5, <2>1 DEF LastUse, Slot
    <3>2. ref[i].count - 1 \in Nat /\ ref[i].count - 1 # 0
      BY <3>1
    <3>3. [ref[i] EXCEPT !.count = ref[i].count - 1] \in Slot
      BY <1>5, <3>2 DEF Slot
    <3>4. ref' = [ref EXCEPT ![i] = [ref[i] EXCEPT !.count = ref[i].count - 1]]
      BY <1>5, <2>1
    <3>5. ref' \in Seq(Slot)
      BY <1>5, <3>3, <3>4, ExceptSeq
    <3> QED
      BY <1>4, <1>5, <2>1, <3>2, <3>5
  <2>2. CASE LastUse(i) /\ ref' = Vacated(i)
    <3>1. ref' \in Seq(Slot)
      BY <2>2, VacatedFacts DEF IInv
    <3>2. Cardinality(UsersOf(b)) = 1
      BY <1>5, <2>2 DEF LastUse
    <3> QED
      BY <1>4, <2>2, <3>1, <3>2
  <2> QED
    BY <1>2, <2>1, <2>2
<1>9. IsFiniteSet(UsersOf(b)')
  BY <1>4, UsersFinite, FS_RemoveElement
<1>10. (Cardinality(UsersOf(b)') = 0) <=> (UsersOf(b)' = {})
  BY <1>9, FS_EmptySet
<1>11. CASE life' = life /\ run' = run
  <2>1. TypeOK'
    BY <1>3, <1>6, <1>8, <1>11 DEF IInv, TypeOK, Slot
  <2>2. Books'
    BY <1>1, <1>2, <1>3, <1>11, <2>1, ReleaseBooks
  <2>3. EndsOnce'
    BY <1>11, EndsOnceSame DEF IInv
  <2>4. \A t \in Threads, c \in Blocks : Running(t, c)' = Running(t, c)
    BY <1>11, RunSame
  <2>5. life[b] = "doomed" => UsersOf(b)' # {}
    <3>1. CASE ~LastUse(i)
      BY <1>8, <1>10, <3>1
    <3>2. CASE LastUse(i) /\ ~ref[i].must
      BY <1>5, <3>2
    <3>3. CASE LastUse(i) /\ ref[i].must /\ Dispose(Of[u], b)
      <4>1. life'[b] = "ending" /\ life[b] = "doomed"
        BY <1>5, <3>3 DEF Dispose, IInv, TypeOK
      <4> QED
        BY <1>11, <4>1
    <3> QED
      BY <1>2, <3>1, <3>2, <3>3
  <2>6. ASSUME NEW c \in Blocks
        PROVE  /\ life'[c] = "free" => UsersOf(c)' = {}
               /\ life'[c] = "doomed" => UsersOf(c)' # {}
               /\ life'[c] = "ending" => \A v \in UsersOf(c)' : Running(Of[v], c)'
    <3>1. \A v \in UsersOf(c) : Of[v] \in Threads
      BY <1>7 DEF UsersOf
    <3>2. CASE c = b
      BY <1>4, <1>11, <2>4, <2>5, <3>1, <3>2 DEF IInv, Rules
    <3>3. CASE c # b
      BY <1>4, <1>11, <2>4, <3>1, <3>3 DEF IInv, Rules
    <3> QED
      BY <3>2, <3>3
  <2>7. Rules'
    BY <2>6 DEF Rules
  <2> QED
    BY <2>1, <2>2, <2>3, <2>7 DEF IInv
<1>12. CASE LastUse(i) /\ ref' = Vacated(i) /\ ref[i].must /\ Dispose(Of[u], b)
  <2>1. life[b] = "doomed"
    BY <1>5, <1>12
  <2>2. /\ life' \in [Blocks -> {"free", "live", "doomed", "ending"}]
        /\ run' \in [Threads -> Seq(Blocks)]
        /\ life'[b] = "ending" /\ \A c \in Blocks \ {b} : life'[c] = life[c]
        /\ \A v \in Threads, c \in Blocks : Running(v, c) => Running(v, c)'
        /\ EndsOnce'
    BY <1>7, <1>12, <2>1, DisposeFacts DEF IInv
  <2>3. TypeOK'
    BY <1>3, <1>6, <1>8, <2>2 DEF IInv, TypeOK, Slot
  <2>4. Books'
    BY <1>1, <1>2, <1>3, <1>12, <2>2, <2>3, ReleaseBooks
  <2>5. UsersOf(b)' = {}
    BY <1>8, <1>10, <1>12
  <2>6. ASSUME NEW c \in Blocks
        PROVE  /\ life'[c] = "free" => UsersOf(c)' = {}
               /\ life'[c] = "doomed" => UsersOf(c)' # {}
               /\ life'[c] = "ending" => \A v \in UsersOf(c)' : Running(Of[v], c)'
    <3>1. \A v \in UsersOf(c) : Of[v] \in Threads
      BY <1>7 DEF UsersOf
    <3>2. CASE c = b
      BY <2>2, <2>5, <3>2
    <3>3. CASE c # b
      BY <1>4, <2>2, <3>1, <3>3 DEF IInv, Rules
    <3> QED
      BY <3>2, <3>3
  <2>7. Rules'
    BY <2>6 DEF Rules
  <2> QED
    BY <2>2, <2>3, <2>4, <2>7 DEF IInv
<1> QED
  BY <1>2, <1>11, <1>12

\* Tcl_EventuallyFree marks the slot, or begins to end a block without one.
LEMMA EventuallyFreeInv ==
  ASSUME IInv, NEW t \in Threads, NEW b \in Blocks, Tcl_EventuallyFree(t, b)
  PROVE  /\ IInv' /\ user' = user
         /\ \/ UsersOf(b) # {} /\ life' = [life EXCEPT ![b] = "doomed"]
            \/ UsersOf(b) = {} /\ life' = [life EXCEPT ![b] = "ending"]
<1> USE DEF IInv
<1>1. life[b] = "live" /\ user' = user /\ space' = space
  BY DEF Tcl_EventuallyFree
<1>2. \A c \in Blocks : UsersOf(c)' = UsersOf(c)
  BY <1>1, UsersSame
<1>3. /\ ref \in Seq(Slot) /\ Len(ref) \in Nat /\ DOMAIN ref = 1..Len(ref)
      /\ ~panic /\ Len(ref) <= space /\ space \in Nat
      /\ \A j \in DOMAIN ref : ref[j] \in Slot /\ UsersOf(ref[j].data) # {}
      /\ \A j \in DOMAIN ref, c \in Blocks : Exact(j, c)
      /\ \A c \in Blocks : NoSlot(c) => UsersOf(c) = {}
  BY BooksParts
<1>4. \A v \in Uses : Of[v] \in Threads
  BY PreserveAssumption
<1>5. CASE \E i \in DOMAIN ref :
             /\ IsSlot(i, b)
             /\ \/ /\ ref[i].must /\ panic' = TRUE
                   /\ UNCHANGED <<ref, life>>
                \/ /\ ~ref[i].must
                   /\ ref' = [ref EXCEPT ![i].must = TRUE]
                   /\ life' = [life EXCEPT ![b] = "doomed"]
                   /\ UNCHANGED panic
             /\ UNCHANGED run
  <2>1. PICK i \in DOMAIN ref :
             /\ IsSlot(i, b)
             /\ \/ /\ ref[i].must /\ panic' = TRUE
                   /\ UNCHANGED <<ref, life>>
                \/ /\ ~ref[i].must
                   /\ ref' = [ref EXCEPT ![i].must = TRUE]
                   /\ life' = [life EXCEPT ![b] = "doomed"]
                   /\ UNCHANGED panic
             /\ UNCHANGED run
    BY <1>5
  <2>2. ref[i].data = b /\ \A j \in DOMAIN ref : j # i => ref[j].data # b
    BY <2>1, OneSlot DEF IsSlot
  <2>3. ~ref[i].must
    BY <1>1, <1>3, <2>2 DEF Exact
  <2>4. /\ ref' = [ref EXCEPT ![i] = [ref[i] EXCEPT !.must = TRUE]]
        /\ life' = [life EXCEPT ![b] = "doomed"] /\ panic' = panic /\ run' = run
    BY <1>3, <2>1, <2>3
  <2>5. [ref[i] EXCEPT !.must = TRUE] \in Slot
    BY <1>3 DEF Slot
  <2>6. ref' \in Seq(Slot) /\ Len(ref') = Len(ref) /\ DOMAIN ref' = DOMAIN ref
    BY <1>3, <2>4, <2>5, ExceptSeq, LenProperties
  <2>7. /\ ref'[i].data = b /\ ref'[i].count = ref[i].count /\ ref'[i].must = TRUE
        /\ \A j \in DOMAIN ref : j # i => ref'[j] = ref[j]
    BY <1>3, <2>2, <2>4, <2>5 DEF Slot
  <2>8. life'[b] = "doomed" /\ \A c \in Blocks \ {b} : life'[c] = life[c]
    BY <2>4 DEF TypeOK
  <2>9. TypeOK'
    BY <1>1, <2>4, <2>6 DEF TypeOK, Slot
  <2>10. UsersOf(b) # {}
    BY <1>3, <2>2
  <2>11. ASSUME NEW c \in Blocks, UsersOf(c)' # {} PROVE ~NoSlot(c)'
    <3>1. ~NoSlot(c)
      BY <1>2, <1>3, <2>11
    <3> QED
      BY <2>2, <2>6, <2>7, <3>1 DEF NoSlot
  <2>12. ASSUME NEW j \in DOMAIN ref', NEW c \in Blocks PROVE Exact(j, c)'
    <3>1. CASE j = i
      BY <1>2, <1>3, <2>2, <2>7, <2>8, <3>1 DEF Exact
    <3>2. CASE j # i
      <4>1. j \in DOMAIN ref /\ ref'[j] = ref[j] /\ ref[j].data # b /\ Exact(j, c)
        BY <1>3, <2>2, <2>6, <2>7, <3>2
      <4> QED
        BY <1>2, <2>8, <4>1 DEF Exact
    <3> QED
      BY <3>1, <3>2
  <2>13. \A j, k \in DOMAIN ref' : ref'[j].data = ref'[k].data => j = k
    BY <2>2, <2>6, <2>7 DEF Books
  <2>14. Books'
    BY <1>1, <1>3, <2>4, <2>6, <2>9, <2>11, <2>12, <2>13, BooksNext
  <2>15. EndsOnce'
    BY <1>1, <2>4, <2>8, EndsOnceSame
  <2>16. \A v \in Threads, c \in Blocks : Running(v, c)' = Running(v, c)
    BY <2>4, RunSame
  <2>17. ASSUME NEW c \in Blocks
         PROVE  /\ life'[c] = "free" => UsersOf(c)' = {}
                /\ life'[c] = "doomed" => UsersOf(c)' # {}
                /\ life'[c] = "ending" => \A v \in UsersOf(c)' : Running(Of[v], c)'
    <3>1. \A v \in UsersOf(c) : Of[v] \in Threads
      BY <1>4 DEF UsersOf
    <3>2. CASE c = b
      BY <1>2, <2>8, <2>10, <3>2
    <3>3. CASE c # b
      BY <1>2, <2>8, <2>16, <3>1, <3>3 DEF Rules
    <3> QED
      BY <3>2, <3>3
  <2>18. Rules'
    BY <2>17 DEF Rules
  <2> QED
    BY <1>1, <2>4, <2>9, <2>10, <2>14, <2>15, <2>18
<1>6. CASE NoSlot(b) /\ Dispose(t, b) /\ UNCHANGED <<ref, panic>>
  <2>1. /\ life' \in [Blocks -> {"free", "live", "doomed", "ending"}]
        /\ run' \in [Threads -> Seq(Blocks)]
        /\ life'[b] = "ending" /\ \A c \in Blocks \ {b} : life'[c] = life[c]
        /\ \A v \in Threads, c \in Blocks : Running(v, c) => Running(v, c)'
        /\ EndsOnce'
    BY <1>1, <1>6, DisposeFacts
  <2>2. TypeOK'
    BY <1>1, <1>6, <2>1 DEF TypeOK, Slot
  <2>3. UsersOf(b) = {}
    BY <1>3, <1>6
  <2>4. \A c \in Blocks : NoSlot(c)' = NoSlot(c)
    BY <1>6 DEF NoSlot
  <2>5. ASSUME NEW j \in DOMAIN ref, NEW c \in Blocks PROVE Exact(j, c)'
    <3>1. ref' = ref /\ UsersOf(c)' = UsersOf(c) /\ Exact(j, c)
      BY <1>2, <1>3, <1>6
    <3>2. life'[c] = "doomed" <=> life[c] = "doomed"
      BY <1>1, <2>1
    <3> QED
      BY <3>1, <3>2 DEF Exact
  <2>6. Books'
    <3>1. ref' = ref /\ panic' = panic
      BY <1>6
    <3>2. \A j, k \in DOMAIN ref' : ref'[j].data = ref'[k].data => j = k
      BY <3>1 DEF Books
    <3>3. \A c \in Blocks : UsersOf(c)' # {} => ~NoSlot(c)'
      BY <1>2, <1>3, <2>4
    <3> QED
      BY <1>1, <1>3, <2>2, <2>5, <3>1, <3>2, <3>3, BooksNext
  <2>7. ASSUME NEW c \in Blocks
        PROVE  /\ life'[c] = "free" => UsersOf(c)' = {}
               /\ life'[c] = "doomed" => UsersOf(c)' # {}
               /\ life'[c] = "ending" => \A v \in UsersOf(c)' : Running(Of[v], c)'
    <3>1. \A v \in UsersOf(c) : Of[v] \in Threads
      BY <1>4 DEF UsersOf
    <3>2. CASE c = b
      BY <1>2, <2>1, <2>3, <3>2
    <3>3. CASE c # b
      BY <1>2, <2>1, <3>1, <3>3 DEF Rules
    <3> QED
      BY <3>2, <3>3
  <2>8. Rules'
    BY <2>7 DEF Rules
  <2>9. life' = [life EXCEPT ![b] = "ending"]
    BY <1>6 DEF Dispose
  <2> QED
    BY <1>1, <2>1, <2>2, <2>3, <2>6, <2>8, <2>9
<1> QED
  BY <1>5, <1>6 DEF Tcl_EventuallyFree

\* A new block has no slot, and one that is freed none either.
LEMMA LifeInv ==
  ASSUME IInv, user' = user, ref' = ref, space' = space, panic' = panic,
         NEW b \in Blocks, NEW s \in {"free", "live"}, life' = [life EXCEPT ![b] = s],
         UsersOf(b) = {}, run' \in [Threads -> Seq(Blocks)], EndsOnce',
         \A v \in Threads, c \in Blocks \ {b} : Running(v, c) => Running(v, c)'
  PROVE  IInv'
<1> USE DEF IInv
<1>1. \A c \in Blocks : UsersOf(c)' = UsersOf(c)
  BY UsersSame
<1>2. life'[b] = s /\ \A c \in Blocks \ {b} : life'[c] = life[c]
  BY DEF TypeOK
<1>3. TypeOK'
  BY DEF TypeOK
<1>4. /\ ~panic /\ Len(ref) <= space
      /\ \A j \in DOMAIN ref : UsersOf(ref[j].data) # {}
      /\ \A j \in DOMAIN ref, c \in Blocks : Exact(j, c)
      /\ \A c \in Blocks : NoSlot(c) => UsersOf(c) = {}
  BY BooksParts
<1>5. ASSUME NEW j \in DOMAIN ref, NEW c \in Blocks PROVE Exact(j, c)'
  <2>1. CASE c = b
    BY <1>4, <2>1 DEF Exact
  <2>2. CASE c # b
    BY <1>1, <1>2, <1>4, <2>2 DEF Exact
  <2> QED
    BY <2>1, <2>2
<1>6. \A c \in Blocks : NoSlot(c)' = NoSlot(c)
  BY DEF NoSlot
<1>7. Books'
  <2>1. \A j, k \in DOMAIN ref' : ref'[j].data = ref'[k].data => j = k
    BY DEF Books
  <2>2. \A c \in Blocks : UsersOf(c)' # {} => ~NoSlot(c)'
    BY <1>1, <1>4, <1>6
  <2> QED
    BY <1>3, <1>4, <1>5, <2>1, <2>2, BooksNext
<1>8. \A v \in Uses : Of[v] \in Threads
  BY PreserveAssumption
<1>9. ASSUME NEW c \in Blocks
      PROVE  /\ life'[c] = "free" => UsersOf(c)' = {}
             /\ life'[c] = "doomed" => UsersOf(c)' # {}
             /\ life'[c] = "ending" => \A v \in UsersOf(c)' : Running(Of[v], c)'
  <2>1. \A v \in UsersOf(c) : Of[v] \in Threads
    BY <1>8 DEF UsersOf
  <2>2. CASE c = b
    BY <1>1, <1>2, <2>2
  <2>3. CASE c # b
    BY <1>1, <1>2, <2>1, <2>3 DEF Rules
  <2> QED
    BY <2>2, <2>3
<1>10. Rules'
  BY <1>9 DEF Rules
<1> QED
  BY <1>3, <1>7, <1>10

\* The invariant holds at the start.
LEMMA InitInv == Init => IInv
<1> SUFFICES ASSUME Init PROVE IInv
  OBVIOUS
<1> USE DEF Init
<1>1. \A b \in Blocks : UsersOf(b) = {}
  BY PreserveAssumption DEF UsersOf
<1>2. TypeOK
  <2>1. ref \in Seq([data : Blocks, count : Nat, must : BOOLEAN]) /\ space \in Nat
    BY EmptySeq
  <2>2. run \in [Threads -> Seq(Blocks)]
    BY EmptySeq
  <2> QED
    BY <2>1, <2>2 DEF TypeOK
<1>3. Books
  <2>1. DOMAIN ref = {} /\ Len(ref) = 0
    BY EmptySeq
  <2> QED
    BY <1>1, <2>1 DEF Books
<1>4. EndsOnce
  <2>1. \A t \in Threads : DOMAIN run[t] = {}
    BY EmptySeq
  <2> QED
    BY <2>1 DEF EndsOnce
<1>5. Rules
  BY <1>1 DEF Rules
<1> QED
  BY <1>2, <1>3, <1>4, <1>5 DEF IInv

\* The table that nothing uses is empty when it is freed.
LEMMA FinalizeInv ==
  ASSUME IInv, TclFinalizePreserve
  PROVE  IInv'
<1> USE DEF IInv
<1>1. /\ ref' = <<>> /\ space' = 0 /\ user' = user /\ life' = life /\ run' = run
      /\ panic' = panic /\ \A u \in Uses : user[u] = NULL
  BY DEF TclFinalizePreserve
<1>2. \A b \in Blocks : UsersOf(b) = {} /\ UsersOf(b)' = {}
  BY <1>1, PreserveAssumption DEF UsersOf
<1>3. DOMAIN ref' = {} /\ Len(ref') = 0 /\ ref' \in Seq(Slot)
  BY <1>1, EmptySeq
<1>4. TypeOK'
  BY <1>1, <1>3 DEF TypeOK, Slot
<1>5. Books'
  BY <1>1, <1>2, <1>3, <1>4, BooksNext DEF Books
<1>6. EndsOnce'
  BY <1>1, EndsOnceSame
<1>7. Rules'
  BY <1>1, <1>2 DEF Rules
<1> QED
  BY <1>4, <1>5, <1>6, <1>7

\* A stutter keeps the invariant.
LEMMA StutterInv ==
  ASSUME IInv, UNCHANGED vars
  PROVE  IInv'
<1>1. /\ ref' = ref /\ space' = space /\ user' = user /\ life' = life /\ run' = run
      /\ panic' = panic
  BY DEF vars
<1>2. TypeOK'
  BY <1>1 DEF IInv, TypeOK
<1>3. EndsOnce'
  BY <1>1, EndsOnceSame DEF IInv
<1>4. Books'
  BY <1>1 DEF IInv, Books, UsersOf, NoSlot
<1>5. Rules'
  BY <1>1 DEF IInv, Rules, UsersOf, Running
<1> QED
  BY <1>2, <1>3, <1>4, <1>5 DEF IInv

\* Every step keeps the invariant.
LEMMA NextInv == IInv /\ [Next]_vars => IInv'
<1> SUFFICES ASSUME IInv, [Next]_vars PROVE IInv'
  OBVIOUS
<1>1. ASSUME NEW b \in Blocks, Alloc(b) PROVE IInv'
  <2>1. /\ life[b] = "free" /\ life' = [life EXCEPT ![b] = "live"]
        /\ ref' = ref /\ space' = space /\ user' = user /\ run' = run /\ panic' = panic
    BY <1>1 DEF Alloc
  <2>2. UsersOf(b) = {} /\ run' \in [Threads -> Seq(Blocks)]
    BY <2>1 DEF IInv, Rules, TypeOK
  <2>3. \A c \in Blocks : (life[c] = "ending") = (life'[c] = "ending")
    BY <2>1 DEF IInv, TypeOK
  <2>4. EndsOnce'
    BY <2>1, <2>3, EndsOnceSame DEF IInv
  <2>5. \A v \in Threads, c \in Blocks : Running(v, c)' = Running(v, c)
    BY <2>1, RunSame
  <2> QED
    BY <2>1, <2>2, <2>4, <2>5, LifeInv
<1>2. ASSUME NEW u \in Uses, NEW b \in Blocks, Tcl_Preserve(u, b) PROVE IInv'
  BY <1>2, PreserveBooks, PreserveRules DEF IInv
<1>3. ASSUME NEW u \in Uses, Tcl_Release(u) PROVE IInv'
  BY <1>3, ReleaseInv
<1>4. ASSUME NEW t \in Threads, NEW b \in Blocks, Tcl_EventuallyFree(t, b) PROVE IInv'
  BY <1>4, EventuallyFreeInv
<1>5. ASSUME NEW t \in Threads, Freed(t) PROVE IInv'
  <2>1. PICK b \in Blocks : b = Last(run[t])
    BY <1>5, FreedFacts
  <2>2. /\ UsersOf(b) = {} /\ life' = [life EXCEPT ![b] = "free"]
        /\ run' \in [Threads -> Seq(Blocks)] /\ EndsOnce'
        /\ \A v \in Threads, c \in Blocks \ {b} : Running(v, c) => Running(v, c)'
    BY <1>5, <2>1, FreedFacts
  <2>3. user' = user /\ ref' = ref /\ space' = space /\ panic' = panic
    BY <1>5 DEF Freed
  <2> QED
    BY <2>2, <2>3, LifeInv
<1>6. ASSUME TclFinalizePreserve PROVE IInv'
  BY <1>6, FinalizeInv
<1>7. ASSUME UNCHANGED vars PROVE IInv'
  BY <1>7, StutterInv
<1> QED
  BY <1>1, <1>2, <1>3, <1>4, <1>5, <1>6, <1>7 DEF Next

-------------------------------------------------------------------------------
(* The theorems.                                                            *)

\* The invariant that carries the others.
THEOREM Inductive == Spec => []IInv
BY InitInv, NextInv, PTL DEF Spec

\* The table and the state of the blocks have the types of tclPreserve.c.
THEOREM TypeCorrect == Spec => []TypeOK
<1>1. IInv => TypeOK
  BY DEF IInv
<1> QED
  BY <1>1, Inductive, PTL

\* One slot for each block in use, with the right count and mark, and no panic.
THEOREM BooksKept == Spec => []Books
<1>1. IInv => Books
  BY DEF IInv
<1> QED
  BY <1>1, Inductive, PTL

\* The procedure that ends a block runs once, in one thread.
THEOREM EndingOnce == Spec => []EndsOnce
<1>1. IInv => EndsOnce
  BY DEF IInv
<1> QED
  BY <1>1, Inductive, PTL

-------------------------------------------------------------------------------
(* The table implements Lifetime.                                           *)

\* Tcl_Preserve begins a use.
LEMMA TakeStep ==
  ASSUME IInv, NEW u \in Uses, NEW b \in Blocks, Tcl_Preserve(u, b)
  PROVE  Promise!Take(u, b)
<1>1. life[b] # "free"
  <2>1. CASE Running(Of[u], b)
    BY <2>1, PreserveAssumption DEF IInv, EndsOnce, Running
  <2>2. CASE \E v \in Uses : Of[v] = Of[u] /\ user[v] = b
    BY <2>2 DEF IInv, Rules, UsersOf
  <2> QED
    BY <2>1, <2>2 DEF Tcl_Preserve, Knows
<1> QED
  BY <1>1 DEF Promise!Take, Tcl_Preserve

\* Tcl_Release ends a use, and the block with it if it is doomed and the last.
LEMMA DropStep ==
  ASSUME IInv, NEW u \in Uses, Tcl_Release(u)
  PROVE  Promise!Drop(u)
<1>1. PICK b \in Blocks : b = user[u]
  BY DEF IInv, TypeOK, Tcl_Release
<1>2. PICK i \in DOMAIN ref :
        /\ IsSlot(i, b)
        /\ \/ ~LastUse(i) /\ life' = life
           \/ LastUse(i) /\ ~ref[i].must /\ life' = life
           \/ LastUse(i) /\ ref[i].must /\ life' = [life EXCEPT ![b] = "ending"]
  BY <1>1, ReleaseLife DEF Dispose
<1>3. user' = [user EXCEPT ![u] = NULL] /\ user[u] # NULL
  BY <1>1, ReleaseLife DEF Tcl_Release
<1>4. /\ ref[i].count = Cardinality(UsersOf(b))
      /\ ref[i].must <=> life[b] = "doomed"
  <2>1. ref[i].data = b
    BY <1>2 DEF IsSlot
  <2> QED
    BY <2>1, BooksParts DEF IInv, Exact
<1>5. LastUse(i) <=> \A v \in Uses \ {u} : user[v] # b
  <2>1. u \in UsersOf(b)
    BY <1>1 DEF UsersOf
  <2>2. Cardinality(UsersOf(b)) = 1 <=> \E x : UsersOf(b) = {x}
    BY UsersFinite, FS_Singleton
  <2>3. (\E x : UsersOf(b) = {x}) <=> UsersOf(b) = {u}
    BY <2>1
  <2>4. UsersOf(b) = {u} <=> \A v \in Uses \ {u} : user[v] # b
    BY <1>1 DEF UsersOf
  <2> QED
    BY <1>4, <2>2, <2>3, <2>4 DEF LastUse
<1>6. life' = IF life[b] = "doomed" /\ \A v \in Uses \ {u} : user[v] # b
                THEN [life EXCEPT ![b] = "ending"] ELSE life
  BY <1>2, <1>4, <1>5
<1> QED
  BY <1>1, <1>3, <1>6 DEF Promise!Drop

\* Every step is a step of Lifetime or changes nothing there.
LEMMA PromiseStep == IInv /\ [Next]_vars => [Promise!Next]_<<user, life>>
<1> SUFFICES ASSUME IInv, [Next]_vars PROVE [Promise!Next]_<<user, life>>
  OBVIOUS
<1>1. ASSUME NEW b \in Blocks, Alloc(b) PROVE Promise!Next
  BY <1>1 DEF Alloc, Promise!Alloc, Promise!Next
<1>2. ASSUME NEW u \in Uses, NEW b \in Blocks, Tcl_Preserve(u, b) PROVE Promise!Next
  BY <1>2, TakeStep DEF Promise!Next
<1>3. ASSUME NEW u \in Uses, Tcl_Release(u) PROVE Promise!Next
  BY <1>3, DropStep DEF Promise!Next
<1>4. ASSUME NEW t \in Threads, NEW b \in Blocks, Tcl_EventuallyFree(t, b)
      PROVE  Promise!Next
  <2>1. /\ user' = user /\ life[b] = "live"
        /\ \/ UsersOf(b) # {} /\ life' = [life EXCEPT ![b] = "doomed"]
           \/ UsersOf(b) = {} /\ life' = [life EXCEPT ![b] = "ending"]
    BY <1>4, EventuallyFreeInv DEF Tcl_EventuallyFree
  <2>2. Promise!Used(b) <=> UsersOf(b) # {}
    BY DEF Promise!Used, UsersOf
  <2>3. Promise!Doom(b)
    BY <2>1, <2>2 DEF Promise!Doom
  <2> QED
    BY <2>3 DEF Promise!Next
<1>5. ASSUME NEW t \in Threads, Freed(t) PROVE Promise!Next
  <2>1. PICK b \in Blocks : b = Last(run[t])
    BY <1>5, FreedFacts
  <2>2. life[b] = "ending" /\ UsersOf(b) = {} /\ life' = [life EXCEPT ![b] = "free"]
    BY <1>5, <2>1, FreedFacts
  <2>3. user' = user
    BY <1>5 DEF Freed
  <2>4. Promise!Gone(b)
    BY <2>2, <2>3 DEF Promise!Gone, Promise!Used, UsersOf
  <2> QED
    BY <2>4 DEF Promise!Next
<1>6. ASSUME TclFinalizePreserve PROVE UNCHANGED <<user, life>>
  BY <1>6 DEF TclFinalizePreserve
<1>7. ASSUME UNCHANGED vars PROVE UNCHANGED <<user, life>>
  BY <1>7 DEF vars
<1> QED
  BY <1>1, <1>2, <1>3, <1>4, <1>5, <1>6, <1>7 DEF Next

\* Blocks end when their last use is over, not before, and once.
THEOREM Implements == Spec => Promised
<1>1. Init => Promise!Init
  BY DEF Init, Promise!Init
<1>2. Promised <=> Promise!Init /\ [][Promise!Next]_<<user, life>>
  BY DEF Promised, Promise!Spec
<1> QED
  BY <1>1, <1>2, Inductive, PromiseStep, PTL DEF Spec
==============================================================================
