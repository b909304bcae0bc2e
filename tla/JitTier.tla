------------------------------- MODULE JitTier -------------------------------
(***************************************************************************)
(* What the JIT promises about one compiled body, whatever the procedures  *)
(* that own it do: it is interpreted first, gets at most one attempt at    *)
(* native code, and keeps the outcome until the body is thrown away.       *)
(***************************************************************************)
CONSTANT Codes  \* the bodies

VARIABLE tier   \* the stage each body has reached

Tiers == {"none", "cold", "warm", "native", "rejected"}

\* "none" no such body, or one no call can reach any more; "cold" waiting for
\* calls; "warm" due for compilation at the next call.
Climb == {<<"none", "cold">>, <<"cold", "warm">>, <<"cold", "rejected">>,
          <<"warm", "native">>, <<"warm", "rejected">>}

Moves == Climb \cup {<<t, "none">> : t \in Tiers} \cup {<<t, t>> : t \in Tiers}

Init == tier = [k \in Codes |-> "none"]

Next == /\ tier' \in [Codes -> Tiers]
        /\ \A k \in Codes : <<tier[k], tier'[k]>> \in Moves

Spec == Init /\ [][Next]_tier
==============================================================================
