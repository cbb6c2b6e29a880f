----------------------------- MODULE MCDispatch -----------------------------
(* Values for model checking Dispatch.                                     *)
EXTENDS Dispatch, Backoff, TLC

\* One tick after the first attempt, two from then on.
MCBackoff == [n \in 1..MaxAttempt |-> Delay(1, 2, n)]

\* Events, rules and copies are interchangeable; sound without liveness.
MCSymmetry == Permutations(Event) \union Permutations(Rule) \union Permutations(Copy)
=============================================================================
