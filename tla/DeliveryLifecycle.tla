-------------------------- MODULE DeliveryLifecycle --------------------------
(***************************************************************************)
(* What the dispatch machinery promises about a delivery_record row,       *)
(* whoever creates it and however passes, crashes and replays interleave:  *)
(* it opens once, its attempts go up by one at a time, and it ends once,   *)
(* dispatched after an attempt or dead after MaxAttempt of them.           *)
(***************************************************************************)
EXTENDS Naturals

CONSTANTS Row, MaxAttempt

VARIABLES stage,    \* "absent", "open", "dispatched" or "dead_letter"
          attempts  \* the attempts column (a dead row does not count its last)

vars == <<stage, attempts>>

Init == /\ stage    = [x \in Row |-> "absent"]
        /\ attempts = [x \in Row |-> 0]

\* An event is recorded or replayed: some rows open together.
Open(S) == /\ \A x \in S : stage[x] = "absent"
           /\ stage' = [x \in Row |-> IF x \in S THEN "open" ELSE stage[x]]
           /\ UNCHANGED attempts

Retry(x) == /\ stage[x] = "open"
            /\ attempts[x] + 1 < MaxAttempt
            /\ attempts' = [attempts EXCEPT ![x] = attempts[x] + 1]
            /\ UNCHANGED stage

Deliver(x) == /\ stage[x] = "open"
              /\ stage' = [stage EXCEPT ![x] = "dispatched"]
              /\ attempts' = [attempts EXCEPT ![x] = attempts[x] + 1]

Bury(x) == /\ stage[x] = "open"
           /\ attempts[x] + 1 = MaxAttempt
           /\ stage' = [stage EXCEPT ![x] = "dead_letter"]
           /\ UNCHANGED attempts

Next == \/ \E S \in SUBSET Row : Open(S)
        \/ \E x \in Row : Retry(x) \/ Deliver(x) \/ Bury(x)

Spec == Init /\ [][Next]_vars
=============================================================================
