------------------------------- MODULE Intake -------------------------------
(***************************************************************************)
(* What telemetry ingestion promises, whatever the database steps in       *)
(* between: a register per message that is written at most once.  The      *)
(* first request that gets through is the event of the message, for ever;  *)
(* a request that is told "created" is that first one, and a request that  *)
(* is told "duplicate" is told the event the message already has.  A       *)
(* request may also be refused, and a refusal says nothing about whether   *)
(* the message was recorded.                                               *)
(***************************************************************************)

CONSTANTS
    Message,  \* what the dedup key identifies: device, ts, metric, value, unit
    Request,  \* one POST /api/v1/telemetry each, which is also its event id
    None      \* no request

VARIABLES
    accepted, \* Message -> the request whose event stands for it, or None
    asked,    \* Request -> the message it carries, or None
    answer    \* Request -> what its client was told

vars == <<accepted, asked, answer>>

Silent       == [kind |-> "none",      event |-> None]
Refused      == [kind |-> "refused",   event |-> None]
Created(r)   == [kind |-> "created",   event |-> r]
Duplicate(e) == [kind |-> "duplicate", event |-> e]

Init == /\ accepted = [m \in Message |-> None]
        /\ asked    = [r \in Request |-> None]
        /\ answer   = [r \in Request |-> Silent]

Ask(r, m) == /\ asked[r] = None
             /\ answer[r] = Silent
             /\ asked' = [asked EXCEPT ![r] = m]
             /\ UNCHANGED <<accepted, answer>>

\* The message is recorded; the client hears so, unless the answer is lost.
Accept(r) == /\ asked[r] # None
             /\ answer[r] = Silent
             /\ accepted[asked[r]] = None
             /\ accepted' = [accepted EXCEPT ![asked[r]] = r]
             /\ \/ answer' = [answer EXCEPT ![r] = Created(r)]
                \/ answer' = [answer EXCEPT ![r] = Refused]
             /\ UNCHANGED asked

Repeat(r) == /\ asked[r] # None
             /\ answer[r] = Silent
             /\ accepted[asked[r]] # None
             /\ answer' = [answer EXCEPT ![r] = Duplicate(accepted[asked[r]])]
             /\ UNCHANGED <<accepted, asked>>

Refuse(r) == /\ answer[r] = Silent
             /\ answer' = [answer EXCEPT ![r] = Refused]
             /\ UNCHANGED <<accepted, asked>>

Next == \E r \in Request : \/ \E m \in Message : Ask(r, m)
                           \/ Accept(r)
                           \/ Repeat(r)
                           \/ Refuse(r)

Spec == Init /\ [][Next]_vars
=============================================================================
