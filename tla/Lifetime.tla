------------------------------ MODULE Lifetime ------------------------------
(***************************************************************************)
(* What Tcl_Preserve, Tcl_Release and Tcl_EventuallyFree promise for a     *)
(* block of memory: once it is given up it ends, at the moment its last    *)
(* use is over and not before, and it ends once.  There is no table here.  *)
(***************************************************************************)
CONSTANTS Blocks,  \* addresses of blocks
          Uses,    \* the places of the program that preserve a block for a while
          NULL

VARIABLES user,  \* the block a use preserves, or NULL
          life   \* "free", "live", "doomed" (given up, still in use), "ending"

Used(b) == \E u \in Uses : user[u] = b

Init == /\ user = [u \in Uses |-> NULL]
        /\ life = [b \in Blocks |-> "free"]

\* malloc hands out the address.
Alloc(b) == /\ life[b] = "free"
            /\ life' = [life EXCEPT ![b] = "live"]
            /\ UNCHANGED user

\* A use begins...
Take(u, b) == /\ user[u] = NULL /\ life[b] # "free"
              /\ user' = [user EXCEPT ![u] = b]
              /\ UNCHANGED life

\* ...and is over; the last use of a doomed block ends the block.
Drop(u) == /\ user[u] # NULL
           /\ user' = [user EXCEPT ![u] = NULL]
           /\ LET b == user[u] IN
              life' = IF life[b] = "doomed" /\ \A v \in Uses \ {u} : user[v] # b
                        THEN [life EXCEPT ![b] = "ending"] ELSE life

\* The owner gives the block up.
Doom(b) == /\ life[b] = "live"
           /\ life' = [life EXCEPT ![b] = IF Used(b) THEN "doomed" ELSE "ending"]
           /\ UNCHANGED user

\* The block's procedure is done with it and nobody has a use for it.
Gone(b) == /\ life[b] = "ending" /\ ~Used(b)
           /\ life' = [life EXCEPT ![b] = "free"]
           /\ UNCHANGED user

Next == \/ \E b \in Blocks : Alloc(b) \/ Doom(b) \/ Gone(b)
        \/ \E u \in Uses, b \in Blocks : Take(u, b)
        \/ \E u \in Uses : Drop(u)

Spec == Init /\ [][Next]_<<user, life>>
==============================================================================
