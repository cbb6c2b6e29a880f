------------------------------ MODULE MCIngest ------------------------------
(* Values for model checking Ingest.                                       *)
EXTENDS Ingest, TLC

CONSTANTS d1, m1, m2

\* Both messages come from one device, so that transactions of different
\* messages meet on its row.
MCDeviceOf == (m1 :> d1) @@ (m2 :> d1)

\* Requests do the same thing and so do messages; sound without liveness.
MCSymmetry == Permutations(Request) \union Permutations(Message)

\* Only one message, for the runs that need repeats of it.
MCDeviceOfOne == (m1 :> d1)
=============================================================================
