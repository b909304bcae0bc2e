------------------------------ MODULE Preserve ------------------------------
(***************************************************************************)
(* Tcl_Preserve, Tcl_Release and Tcl_EventuallyFree (generic/tclPreserve.c)*)
(* One table, refArray, counts the uses of every block in use in the       *)
(* process; slots are found by the address of the block and a slot given   *)
(* up is filled with the last one.  The procedure that ends a block runs   *)
(* without the mutex, while other threads change the table, and may itself *)
(* preserve the block it ends and give up others.                          *)
(***************************************************************************)
EXTENDS Integers, Sequences, FiniteSets, SequencesExt

CONSTANTS Threads, Blocks,
          Uses,   \* the places of the program that preserve a block for a while
          Of,     \* the thread of each use
          NULL

ASSUME PreserveAssumption == /\ Of \in [Uses -> Threads] /\ IsFiniteSet(Uses)
                             /\ NULL \notin Blocks

VARIABLES
  ref,    \* refArray[0 .. inUse-1]
  space,  \* spaceAvl
  user,   \* the block a use preserves, or NULL
  life,   \* of a block: "free", "live", "doomed" (given up, still in use), "ending"
  run,    \* the blocks whose freeProc a thread runs, the innermost last
  panic   \* Tcl_Panic was called

vars == <<ref, space, user, life, run, panic>>

Init == /\ ref = <<>> /\ space = 0
        /\ user = [u \in Uses |-> NULL]
        /\ life = [b \in Blocks |-> "free"]
        /\ run = [t \in Threads |-> <<>>]
        /\ panic = FALSE
-------------------------------------------------------------------------------
INITIAL_SIZE == 2

\* The first slot for the block is i.
IsSlot(i, b) == /\ i \in DOMAIN ref /\ ref[i].data = b
                /\ \A j \in 1..(i - 1) : ref[j].data # b
NoSlot(b) == \A i \in DOMAIN ref : ref[i].data # b

\* Who may call: a thread uses a block that has not been given up, one it uses
\* already, and one whose freeProc it is in.
Running(t, b) == \E k \in DOMAIN run[t] : run[t][k] = b
Knows(t, b) == \/ life[b] = "live" \/ Running(t, b)
               \/ \E v \in Uses : Of[v] = t /\ user[v] = b

\* The owner of a live block is external code; the block is new to the table.
Alloc(b) == /\ ~panic /\ life[b] = "free"
            /\ life' = [life EXCEPT ![b] = "live"]
            /\ UNCHANGED <<ref, space, user, run, panic>>

\* Room for one more slot.
Grown == IF Len(ref) # space THEN space
         ELSE IF space = 0 THEN INITIAL_SIZE ELSE 2 * space

\* A slot for a block that had none.
Uncounted(b) == [data |-> b, count |-> 0, must |-> FALSE]
NewSlot(b) == [data |-> b, count |-> 1, must |-> FALSE]

Tcl_Preserve(u, b) ==
  /\ ~panic /\ user[u] = NULL /\ Knows(Of[u], b)
  /\ \/ \E i \in DOMAIN ref :
          /\ IsSlot(i, b)
          /\ ref' = [ref EXCEPT ![i].count = @ + 1]
          /\ UNCHANGED space
     \/ /\ NoSlot(b)
        /\ ref' = Append(ref, NewSlot(b))
        /\ space' = Grown
  /\ user' = [user EXCEPT ![u] = b]
  /\ UNCHANGED <<life, run, panic>>

\* The call gives back the last use the slot counts.
PastLast(i) == ref[i].count = 0
LastUse(i) == ref[i].count = 1

\* The table without slot i: the last slot takes its place.
Truncated(i) == Front(ref)
LeftInPlace(i) == [ref EXCEPT ![i].count = 0]
Vacated(i) == Front([ref EXCEPT ![i] = Last(ref)])

\* The thread has found the block in nobody's use and calls its freeProc.
Dispose(t, b) == /\ life' = [life EXCEPT ![b] = "ending"]
                 /\ run' = [run EXCEPT ![t] = Append(@, b)]

Tcl_Release(u) ==
  /\ ~panic /\ user[u] # NULL
  /\ \/ \E i \in DOMAIN ref :
          /\ IsSlot(i, user[u])
          /\ \/ /\ ~LastUse(i)
                /\ ref' = [ref EXCEPT ![i].count = @ - 1]
                /\ UNCHANGED <<life, run>>
             \/ /\ LastUse(i)
                /\ ref' = Vacated(i)
                /\ IF ref[i].must THEN Dispose(Of[u], user[u])
                                  ELSE UNCHANGED <<life, run>>
          /\ user' = [user EXCEPT ![u] = NULL]
          /\ UNCHANGED panic
     \/ /\ NoSlot(user[u])
        /\ panic' = TRUE
        /\ UNCHANGED <<ref, user, life, run>>
  /\ UNCHANGED space

\* Called once for a block, as Tcl_DeleteInterp's flag DELETED sees to.
Tcl_EventuallyFree(t, b) ==
  /\ ~panic /\ life[b] = "live"
  /\ \/ \E i \in DOMAIN ref :
          /\ IsSlot(i, b)
          /\ \/ /\ ref[i].must
                /\ panic' = TRUE
                /\ UNCHANGED <<ref, life>>
             \/ /\ ~ref[i].must
                /\ ref' = [ref EXCEPT ![i].must = TRUE]
                /\ life' = [life EXCEPT ![b] = "doomed"]
                /\ UNCHANGED panic
          /\ UNCHANGED run
     \/ /\ NoSlot(b)
        /\ Dispose(t, b)
        /\ UNCHANGED <<ref, panic>>
  /\ UNCHANGED <<space, user>>

\* The innermost freeProc returns.  It has ended the uses it began.
Freed(t) ==
  /\ ~panic /\ run[t] # <<>>
  /\ LET b == Last(run[t]) IN
     /\ \A u \in Uses : Of[u] = t => user[u] # b
     /\ life' = [life EXCEPT ![b] = "free"]
  /\ run' = [run EXCEPT ![t] = Front(@)]
  /\ UNCHANGED <<ref, space, user, panic>>

\* Tcl_Finalize: nothing is in use any more.
TclFinalizePreserve ==
  /\ ~panic /\ space # 0
  /\ \A u \in Uses : user[u] = NULL
  /\ ref' = <<>> /\ space' = 0
  /\ UNCHANGED <<user, life, run, panic>>
-------------------------------------------------------------------------------
Next == \/ \E b \in Blocks : Alloc(b)
        \/ \E u \in Uses, b \in Blocks : Tcl_Preserve(u, b)
        \/ \E u \in Uses : Tcl_Release(u)
        \/ \E t \in Threads, b \in Blocks : Tcl_EventuallyFree(t, b)
        \/ \E t \in Threads : Freed(t)
        \/ TclFinalizePreserve

Spec == Init /\ [][Next]_vars
-------------------------------------------------------------------------------
UsersOf(b) == {u \in Uses : user[u] = b}

\* The types of the table and of the state of the blocks.
TypeOK ==
  /\ ref \in Seq([data : Blocks, count : Nat, must : BOOLEAN])
  /\ space \in Nat
  /\ user \in [Uses -> Blocks \cup {NULL}]
  /\ life \in [Blocks -> {"free", "live", "doomed", "ending"}]
  /\ run \in [Threads -> Seq(Blocks)]
  /\ panic \in BOOLEAN

\* The table is what the callers think it is: one slot for each block in use, that
\* counts its uses and knows whether it has been given up, and room for all of them,
\* after slots have been moved over others in any order.  Nobody who keeps to the
\* rules is told "couldn't find reference" or "called twice".
Books ==
  /\ ~panic
  /\ \A b \in Blocks : UsersOf(b) # {} => ~NoSlot(b)
  /\ \A i \in DOMAIN ref :
       /\ ref[i].count = Cardinality(UsersOf(ref[i].data)) /\ ref[i].count # 0
       /\ ref[i].must <=> life[ref[i].data] = "doomed"
       /\ \A j \in DOMAIN ref : ref[j].data = ref[i].data => i = j
  /\ Len(ref) <= space

\* The procedure that ends a block runs once, in one thread.
EndsOnce ==
  \A b \in Blocks :
    /\ life[b] = "ending" => \E t \in Threads : Running(t, b)
    /\ \A t, v \in Threads : \A k \in DOMAIN run[t], l \in DOMAIN run[v] :
         run[t][k] = b /\ run[v][l] = b => t = v /\ k = l /\ life[b] = "ending"

\* Blocks end when their last use is over, not before, and once: the table
\* implements the promise.
Promise == INSTANCE Lifetime
Promised == Promise!Spec
==============================================================================
