---------------------------- MODULE MCChanForward ----------------------------
(* Instances of ChanForward for TLC. *)
EXTENDS ChanForward, TLC
CONSTANTS a, b, u, ia, ja, ib, c1, c2, c3

\* Thread a owns the handlers of c1, in ia, and of c3, in ja; b, which uses c1, owns
\* that of c2, in ib; u uses c2 and c3.  With c1 and c2 a handler in b waits for a
\* while u waits for b; with c1 and c3 two users wait for one owner, and one of its
\* interpreters may end while the other goes on.
MCHome == ia :> a @@ ja :> a @@ ib :> b
MCHandler == c1 :> ia @@ c2 :> ib @@ c3 :> ja
MCUser == c1 :> b @@ c2 :> u @@ c3 :> u
MCMoved == {{c1, c2}, {c1, c3}}
MCOps == c1 :> 1 @@ c2 :> 1 @@ c3 :> 0
==============================================================================
