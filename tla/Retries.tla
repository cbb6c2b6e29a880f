------------------------------- MODULE Retries -------------------------------
(***************************************************************************)
(* A delivery that fails again and again, and what Worker.backoff makes it *)
(* wait after each attempt.                                                *)
(***************************************************************************)
EXTENDS Backoff

CONSTANT Duration \* the settings of the base delay and of the ceiling

ASSUME RetriesAssumption == Duration \subseteq Nat \ {0}

VARIABLE delay \* the input of backoff: the settings and the attempt

RetriesInit == delay \in [base : Duration, ceiling : Duration, attempt : {1}]

FailAgain == delay' = [delay EXCEPT !.attempt = delay.attempt + 1]

RetriesSpec == RetriesInit /\ [][FailAgain]_delay

\* Worker.backoff: with a base that is not beyond the ceiling, the loop comes
\* to the base doubled attempt - 1 times, cut off at the ceiling.
IsCappedDoubling ==
    LET exact == delay.base * 2 ^ (delay.attempt - 1) IN
    delay.base <= delay.ceiling =>
        Delay(delay.base, delay.ceiling, delay.attempt)
            = IF exact <= delay.ceiling THEN exact ELSE delay.ceiling
=============================================================================
