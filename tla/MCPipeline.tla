----------------------------- MODULE MCPipeline -----------------------------
(* Values for model checking Pipeline.                                     *)
EXTENDS Pipeline, TLC

CONSTANTS d1, m1

B == INSTANCE Backoff

MCDeviceOf == m1 :> d1

\* One tick after the first attempt, two from then on.
MCBackoff == [n \in 1..MaxAttempt |-> B!Delay(1, 2, n)]
=============================================================================
