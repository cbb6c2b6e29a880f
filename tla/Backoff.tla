------------------------------- MODULE Backoff -------------------------------
(***************************************************************************)
(* Worker.backoff: how long a delivery waits after its attempt n.          *)
(***************************************************************************)
EXTENDS Naturals

\* A loop that looks at the ceiling only after its last iteration is allowed
\* to go one doubling too far.
DoubledLate(d, ceiling) == IF d > ceiling THEN ceiling ELSE 2 * d

\* One iteration; the code returns the ceiling as soon as d exceeds it, and
\* further doublings of the ceiling come to the same.
Doubled(d, ceiling) == IF 2 * d > ceiling THEN ceiling ELSE 2 * d

\* BaseDelay doubled attempt - 1 times.
Delay(base, ceiling, attempt) ==
    LET d[i \in Nat] == IF i = 0 THEN base ELSE Doubled(d[i - 1], ceiling)
    IN d[attempt - 1]
=============================================================================
