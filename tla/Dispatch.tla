------------------------------ MODULE Dispatch ------------------------------
(***************************************************************************)
(* The retry worker (internal/worker) and event replay (internal/service)  *)
(* over the delivery_record and event tables.                              *)
(*                                                                         *)
(* One worker goroutine polls: a pass reads the due rows once, with the    *)
(* clock of its start, and then works on what it read.  No statement of a  *)
(* pass shares a transaction with another, rows are not claimed, and the   *)
(* updates address a row by its id without looking at its status; so that  *)
(* each is a step of its own, in between which events are recorded and     *)
(* replayed and the process may stop.                                      *)
(*                                                                         *)
(* The branch of dispatchOne for an event that no longer exists is left    *)
(* out: delivery_record.event_id references event and no statement deletes *)
(* an event, so GetEvent finds it.                                         *)
(***************************************************************************)
EXTENDS Integers, FiniteSets

CONSTANTS
    Event,       \* event ids
    Rule,        \* rules an event can match
    Copy,        \* bound: rows an event can get for one rule
    Replayer,    \* POST /events/{id}/replay requests running at a time
    MaxAttempt,  \* Options.MaxAttempt
    BatchSize,   \* Options.BatchSize
    Backoff,     \* attempt -> delay in ticks (see module Backoff)
    Horizon,     \* bound: the last instant of the clock
    MaxFaults,   \* bound: how many passes end with an error or a crash
    NoRow        \* the worker is between two rows

ASSUME DispatchAssumption == /\ MaxAttempt \in Nat \ {0}
                             /\ BatchSize \in Nat \ {0}
                             /\ Backoff \in [1..MaxAttempt -> Nat]
                             /\ Horizon \in Nat \ {0}
                             /\ MaxFaults \in Nat

Row == Event \X Rule \X Copy

\* A delivery as the worker reads it, when it is due.
Snapshot == [row : Row, attempts : Nat, due : 0..Horizon]

ASSUME NoRowAssumption == NoRow \notin Snapshot \union Event

EventOf(x) == x[1]
RuleOf(x)  == x[2]

VARIABLES
    clock,       \* the database's and the worker's time
    eventStatus, \* event.status, "absent" without a row
    status,      \* delivery_record.status
    attempts,    \* delivery_record.attempts
    due,         \* delivery_record.next_retry_at, NoTime when NULL
    wpc,         \* where the worker is
    wnow,        \* the now of the pass
    batch,       \* rows of the pass still to do, as they were read
    cur,         \* the row being dispatched, as it was read
    rpc,         \* where each replay is
    target,      \* the event it replays
    todo,        \* its matched rules, then those it will create rows for
    sent,        \* ghost: calls of sink.Dispatch for the row
    acked,       \* ghost: those that returned nil
    lost,        \* ghost: those whose outcome was never written
    faults       \* faults so far

table   == <<eventStatus, status, attempts, due>>
worker  == <<wpc, wnow, batch, cur>>
replays == <<rpc, target, todo>>
ghosts  == <<sent, acked, lost>>
vars    == <<clock, table, worker, replays, ghosts, faults>>

NoTime == Horizon + 1

Undispatched == {"pending", "failed"}
Terminal     == {"dispatched", "dead_letter"}

\* Time beyond the horizon is not told apart from the horizon.
Later(t, delay) == IF t + delay < Horizon THEN t + delay ELSE Horizon

-----------------------------------------------------------------------------

Init == /\ clock       = 1
        /\ eventStatus = [e \in Event |-> "absent"]
        /\ status      = [x \in Row |-> "absent"]
        /\ attempts    = [x \in Row |-> 0]
        /\ due         = [x \in Row |-> NoTime]
        /\ wpc         = "idle"
        /\ wnow        = 0
        /\ batch       = {}
        /\ cur         = NoRow
        /\ rpc         = [p \in Replayer |-> "idle"]
        /\ target      = [p \in Replayer |-> NoRow]
        /\ todo        = [p \in Replayer |-> {}]
        /\ sent        = [x \in Row |-> 0]
        /\ acked       = [x \in Row |-> 0]
        /\ lost        = [x \in Row |-> 0]
        /\ faults      = 0

\* CreateDelivery for every row of S: pending, no attempt, due at once.
CreateRows(S, t) ==
    /\ \A x \in S : status[x] = "absent"
    /\ status' = [x \in Row |-> IF x \in S THEN "pending" ELSE status[x]]
    /\ due'    = [x \in Row |-> IF x \in S THEN t ELSE due[x]]
    /\ UNCHANGED attempts

\* The commit of IngestTelemetry: the event and a row per matched rule, due
\* from the time the request read, which is not after the commit.
Accept(e) ==
    /\ eventStatus[e] = "absent"
    /\ eventStatus' = [eventStatus EXCEPT ![e] = "created"]
    /\ \E matched \in SUBSET Rule, first \in Copy, t \in 1..clock :
         CreateRows({e} \X matched \X {first}, t)
    /\ UNCHANGED <<clock, worker, replays, ghosts, faults>>

-----------------------------------------------------------------------------
(* The worker.                                                             *)

\* The WHERE clause without its condition on next_retry_at.
IsDueAnyTime(x, t) == status[x] \in Undispatched

IsDue(x, t) == status[x] \in Undispatched /\ due[x] <= t

\* What LIMIT keeps of the due rows in next_retry_at order; among rows due at
\* one time the id decides, which is any choice here.
Batches(t) ==
    LET D == {x \in Row : IsDue(x, t)} IN
    {S \in SUBSET D : /\ \A x \in S, y \in D \ S : due[x] <= due[y]
                      /\ \/ S = D /\ Cardinality(D) <= BatchSize
                         \/ S # D /\ Cardinality(S) = BatchSize}

\* ListDueDeliveries, once per pass.
ListDue == /\ wpc = "idle"
           /\ \E S \in Batches(clock) :
                batch' = {[row |-> x, attempts |-> attempts[x], due |-> due[x]] : x \in S}
           /\ wnow' = clock
           /\ wpc' = "pass"
           /\ UNCHANGED <<clock, table, cur, replays, ghosts, faults>>

EndPass == /\ wpc = "pass"
           /\ batch = {}
           /\ wpc' = "idle"
           /\ wnow' = 0
           /\ UNCHANGED <<clock, table, batch, cur, replays, ghosts, faults>>

\* A pass that does not move on from the row it dispatches.
SinkCallKeeping(d, answer) ==
    /\ wpc = "pass"
    /\ d \in batch
    /\ cur' = d
    /\ wpc' = answer
    /\ sent' = [sent EXCEPT ![d.row] = sent[d.row] + 1]
    /\ UNCHANGED <<clock, table, wnow, batch, replays, acked, lost, faults>>

\* dispatchOne up to the answer of sink.Dispatch for the next row.
SinkCall(d, answer) ==
    /\ wpc = "pass"
    /\ d \in batch
    /\ \A o \in batch : d.due <= o.due
    /\ batch' = batch \ {d}
    /\ cur' = d
    /\ wpc' = answer
    /\ sent' = [sent EXCEPT ![d.row] = sent[d.row] + 1]
    /\ acked' = IF answer = "delivered"
                  THEN [acked EXCEPT ![d.row] = acked[d.row] + 1] ELSE acked
    /\ UNCHANGED <<clock, table, wnow, replays, lost, faults>>

DispatchOk   == \E d \in batch : SinkCall(d, "delivered")
DispatchFail == \E d \in batch : SinkCall(d, "refused")

\* A worker that does not look at the error of the sink.
MarkAnyDelivered == /\ wpc \in {"delivered", "refused"}
                    /\ status' = [status EXCEPT ![cur.row] = "dispatched"]
                    /\ wpc' = "dispatched"
                    /\ UNCHANGED <<clock, eventStatus, attempts, due, wnow, batch, cur,
                                   replays, ghosts, faults>>

MarkDelivered == /\ wpc = "delivered"
                 /\ status'   = [status EXCEPT ![cur.row] = "dispatched"]
                 /\ attempts' = [attempts EXCEPT ![cur.row] = attempts[cur.row] + 1]
                 /\ due'      = [due EXCEPT ![cur.row] = NoTime]
                 /\ wpc' = "dispatched"
                 /\ UNCHANGED <<clock, eventStatus, wnow, batch, cur, replays, ghosts, faults>>

\* handleFailure: the attempt counts from what the pass read.
Attempt == cur.attempts + 1

ExhaustedLate == Attempt > MaxAttempt

Exhausted == Attempt >= MaxAttempt

\* A retry that is not counted.
MarkFailedUncounted == /\ wpc = "refused"
                       /\ ~Exhausted
                       /\ status' = [status EXCEPT ![cur.row] = "failed"]
                       /\ due'    = [due EXCEPT ![cur.row] = Later(wnow, Backoff[Attempt])]
                       /\ wpc' = "pass"
                       /\ cur' = NoRow
                       /\ UNCHANGED <<clock, eventStatus, attempts, wnow, batch, replays,
                                      ghosts, faults>>

\* A retry that is not given a time: next_retry_at becomes NULL.
MarkFailedUntimed == /\ wpc = "refused"
                     /\ ~Exhausted
                     /\ status'   = [status EXCEPT ![cur.row] = "failed"]
                     /\ attempts' = [attempts EXCEPT ![cur.row] = Attempt]
                     /\ due'      = [due EXCEPT ![cur.row] = NoTime]
                     /\ wpc' = "pass"
                     /\ cur' = NoRow
                     /\ UNCHANGED <<clock, eventStatus, wnow, batch, replays, ghosts, faults>>

MarkFailed == /\ wpc = "refused"
              /\ ~Exhausted
              /\ status'   = [status EXCEPT ![cur.row] = "failed"]
              /\ attempts' = [attempts EXCEPT ![cur.row] = Attempt]
              /\ due'      = [due EXCEPT ![cur.row] = Later(wnow, Backoff[Attempt])]
              /\ wpc' = "pass"
              /\ cur' = NoRow
              /\ UNCHANGED <<clock, eventStatus, wnow, batch, replays, ghosts, faults>>

\* A dead letter that leaves its event alone.
MarkDeadOnly == /\ wpc = "refused"
                /\ Exhausted
                /\ status' = [status EXCEPT ![cur.row] = "dead_letter"]
                /\ wpc' = "pass"
                /\ cur' = NoRow
                /\ UNCHANGED <<clock, eventStatus, attempts, due, wnow, batch, replays,
                               ghosts, faults>>

MarkDead == /\ wpc = "refused"
            /\ Exhausted
            /\ status' = [status EXCEPT ![cur.row] = "dead_letter"]
            /\ due'    = [due EXCEPT ![cur.row] = NoTime]
            /\ wpc' = "dead_letter"
            /\ UNCHANGED <<clock, eventStatus, attempts, wnow, batch, cur, replays, ghosts, faults>>

\* A status that does not tell the outcomes apart.
AdvanceToDispatched == /\ wpc \in Terminal
                       /\ eventStatus' = [eventStatus EXCEPT ![EventOf(cur.row)] = "dispatched"]
                       /\ wpc' = "pass"
                       /\ cur' = NoRow
                       /\ UNCHANGED <<clock, status, attempts, due, wnow, batch, replays,
                                      ghosts, faults>>

\* UpdateEventStatus, after MarkDelivered or MarkDead: the outcome of the row
\* becomes the status of its event, whatever it was.
AdvanceEvent == /\ wpc \in Terminal
                /\ eventStatus' = [eventStatus EXCEPT ![EventOf(cur.row)] = wpc]
                /\ wpc' = "pass"
                /\ cur' = NoRow
                /\ UNCHANGED <<clock, status, attempts, due, wnow, batch, replays, ghosts, faults>>

\* A statement of the pass fails, or the process stops: the rest of the pass
\* is dropped and the next one starts from the table.
WorkerFault == /\ wpc # "idle"
               /\ faults < MaxFaults
               /\ faults' = faults + 1
               /\ wpc' = "idle"
               /\ wnow' = 0
               /\ batch' = {}
               /\ cur' = NoRow
               /\ lost' = IF wpc \in {"delivered", "refused"}
                            THEN [lost EXCEPT ![cur.row] = lost[cur.row] + 1] ELSE lost
               /\ UNCHANGED <<clock, table, replays, sent, acked>>

-----------------------------------------------------------------------------
(* ReplayEvent.                                                            *)

\* GetEvent finds the event; ListRules and Match give its rules of the moment.
StartReplay(p, e) ==
    /\ rpc[p] = "idle"
    /\ eventStatus[e] # "absent"
    /\ target' = [target EXCEPT ![p] = e]
    /\ \E matched \in SUBSET Rule : todo' = [todo EXCEPT ![p] = matched]
    /\ rpc' = [rpc EXCEPT ![p] = "list"]
    /\ UNCHANGED <<clock, table, worker, ghosts, faults>>

\* A check for rows that are pending only, not failed.
OpenPendingOnly(e, r) == \E x \in Row : /\ EventOf(x) = e
                                        /\ RuleOf(x) = r
                                        /\ status[x] = "pending"

Open(e, r) == \E x \in Row : /\ EventOf(x) = e
                             /\ RuleOf(x) = r
                             /\ status[x] \in Undispatched

\* ListDeliveriesByEvent: rules with an undispatched row are skipped.
ListExisting(p) ==
    /\ rpc[p] = "list"
    /\ todo' = [todo EXCEPT ![p] = {r \in todo[p] : ~Open(target[p], r)}]
    /\ rpc' = [rpc EXCEPT ![p] = "create"]
    /\ UNCHANGED <<clock, table, worker, target, ghosts, faults>>

\* One CreateDelivery of the loop, committed on its own.
ReplayCreate(p) ==
    /\ rpc[p] = "create"
    /\ \E r \in todo[p], c \in Copy, t \in 1..clock :
         /\ CreateRows({<<target[p], r, c>>}, t)
         /\ todo' = [todo EXCEPT ![p] = todo[p] \ {r}]
    /\ UNCHANGED <<clock, eventStatus, worker, rpc, target, ghosts, faults>>

\* All rows are created, or a statement fails and leaves those created so far.
EndReplay(p) ==
    /\ rpc[p] # "idle"
    /\ rpc' = [rpc EXCEPT ![p] = "idle"]
    /\ target' = [target EXCEPT ![p] = NoRow]
    /\ todo' = [todo EXCEPT ![p] = {}]
    /\ UNCHANGED <<clock, table, worker, ghosts, faults>>

Tick == /\ clock < Horizon
        /\ clock' = clock + 1
        /\ UNCHANGED <<table, worker, replays, ghosts, faults>>

WorkerStep == \/ ListDue \/ EndPass
              \/ DispatchOk \/ DispatchFail
              \/ MarkDelivered \/ MarkFailed \/ MarkDead
              \/ AdvanceEvent

Next == \/ \E e \in Event : Accept(e)
        \/ WorkerStep
        \/ WorkerFault
        \/ \E p \in Replayer : \/ \E e \in Event : StartReplay(p, e)
                               \/ ListExisting(p)
                               \/ ReplayCreate(p)
                               \/ EndReplay(p)
        \/ Tick

Spec == Init /\ [][Next]_vars

\* The ticker of Run fires again and again, a pass runs to its end, and time
\* passes.  Nothing is assumed of replays, nor of what the sink answers.
Fairness == WF_vars(WorkerStep) /\ WF_vars(Tick)

FairSpec == Spec /\ Fairness

-----------------------------------------------------------------------------
(* Safety.                                                                 *)

\* The types of the variables.
TypeOK == /\ clock       \in 1..Horizon
          /\ eventStatus \in [Event -> {"absent", "created"} \union Terminal]
          /\ status      \in [Row -> {"absent"} \union Undispatched \union Terminal]
          /\ attempts    \in [Row -> 0..MaxAttempt]
          /\ due         \in [Row -> 0..NoTime]
          /\ wpc         \in {"idle", "pass", "delivered", "refused"} \union Terminal
          /\ wnow        \in 0..Horizon
          /\ batch       \in SUBSET Snapshot
          /\ cur         \in Snapshot \union {NoRow}
          /\ rpc         \in [Replayer -> {"idle", "list", "create"}]
          /\ target      \in [Replayer -> Event \union {NoRow}]
          /\ todo        \in [Replayer -> SUBSET Rule]
          /\ sent        \in [Row -> Nat]
          /\ acked       \in [Row -> Nat]
          /\ lost        \in [Row -> Nat]
          /\ faults      \in 0..MaxFaults

\* The sink has been called for the current row, nothing is written yet.
InFlight(x) == wpc \in {"delivered", "refused"} /\ cur.row = x

\* What a pass has read and not yet dealt with is still what the table says,
\* whatever was recorded and replayed meanwhile: the updates by id, which look
\* neither at the status nor at the attempts they overwrite, lose nothing.
PassReadsStayCurrent ==
    /\ \A d \in batch : /\ status[d.row] \in Undispatched
                        /\ attempts[d.row] = d.attempts
                        /\ due[d.row] = d.due
                        /\ cur # NoRow => cur.row # d.row
    /\ wpc \in {"delivered", "refused"} =>
           /\ status[cur.row] \in Undispatched
           /\ attempts[cur.row] = cur.attempts

\* Every call of the sink is accounted for: it is in attempts, or it is the
\* last one of a dead row, or its outcome was lost in a fault, or it is the
\* one in flight.  So a row is offered at most MaxAttempt times, plus one for
\* each fault between the call and its mark, and a dead row exactly so often.
SinkCallsAccounted ==
    \A x \in Row :
        sent[x] = attempts[x] + lost[x]
                  + (IF status[x] = "dead_letter" THEN 1 ELSE 0)
                  + (IF InFlight(x) THEN 1 ELSE 0)

\* Deliveries are at least once, and more than once only across faults: a row
\* is "dispatched" only after the sink took it, and the sink takes it again
\* only if the mark of an earlier time was lost.
AtLeastOnce ==
    \A x \in Row : /\ status[x] = "dispatched" => acked[x] >= 1
                   /\ acked[x] <= 1 + lost[x]
                   /\ status[x] = "dead_letter" => acked[x] <= lost[x]

\* An event is dispatched, or dead, only if one of its deliveries is.
EventStatusJustified ==
    \A e \in Event :
        eventStatus[e] \in Terminal =>
            \E x \in Row : EventOf(x) = e /\ status[x] = eventStatus[e]

\* With one replay at a time, an event never has two open rows for a rule.
OneOpenRow ==
    \A x, y \in Row : /\ EventOf(x) = EventOf(y)
                      /\ RuleOf(x) = RuleOf(y)
                      /\ status[x] \in Undispatched
                      /\ status[y] \in Undispatched
                      => x = y

\* The sink is only called for rows that wait for it and whose time has come:
\* never before the backoff has passed, never after an outcome is recorded.
CallsOnlyDue ==
    [][\A x \in Row : sent'[x] # sent[x] =>
           status[x] \in Undispatched /\ due[x] <= clock]_vars

\* The worker and the replays implement the life cycle of a delivery.
Stage(x) == IF status[x] \in Undispatched THEN "open" ELSE status[x]

Lifecycle == INSTANCE DeliveryLifecycle WITH stage <- [x \in Row |-> Stage(x)]

ImplementsLifecycle == Lifecycle!Spec

-----------------------------------------------------------------------------
(* Liveness.                                                               *)

\* Every delivery ends, dispatched or dead: neither LIMIT nor new rows starve
\* it, backoff does not put it off for ever, and a fault does not lose it.
RowsEnd == \A x \in Row : status[x] \in Undispatched ~> status[x] \in Terminal

\* As long as nothing fails, an event leaves "created" once a delivery ended.
EventSettles ==
    \A x \in Row : status[x] \in Terminal /\ faults = 0
                     ~> eventStatus[EventOf(x)] \in Terminal \/ faults > 0

-----------------------------------------------------------------------------
(* What the documents say and the code does not do.                        *)

\* PROJECT_SPEC.md:101: the worker advances the status of the event, too.
EventFollows ==
    \A x \in Row : status[x] \in Terminal ~> eventStatus[EventOf(x)] \in Terminal
=============================================================================
