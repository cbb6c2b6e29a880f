------------------------------- MODULE Server -------------------------------
(***************************************************************************)
(* The process around the services: the chain of handlers that every HTTP  *)
(* request goes through, and the life of the process from main.run to its  *)
(* exit.                                                                   *)
(*                                                                         *)
(* A request is counted, passes the gate of the API keys if it writes, is  *)
(* handled, is answered, with a domain error by way of a value that all    *)
(* requests share, and is counted out.  Next to the requests run main, who *)
(* stops the server and closes the pool without waiting for the worker,    *)
(* and the worker, whose context main cancels.                             *)
(*                                                                         *)
(* What the services do is in Ingest, Dispatch and RuleAdmin; here a       *)
(* handler succeeds, fails with an error, or changes a rule, in one step.  *)
(* An operator stands for the API key that is configured for it.           *)
(***************************************************************************)
EXTENDS Integers, FiniteSets

CONSTANTS
    Request,    \* HTTP requests the process gets
    Operator,   \* operators with a key in API_KEYS
    NoKey,      \* a missing or unknown key
    None,       \* nothing
    Auth,       \* TRUE: API_KEYS is set
    Faults      \* TRUE: statements may fail, clients may go away

\* The domain errors, as far as they differ: with details, without, and the
\* one that starts with a status of 200.
Shared == {"INVALID_FIELD", "RULE_NOT_FOUND", "DUPLICATE_MESSAGE"}

ASSUME ServerAssumption == /\ IsFiniteSet(Request)
                           /\ NoKey \notin Operator
                           /\ None \notin Request
                           /\ None \notin Shared
                           /\ None \notin {0, 1}
                           /\ Auth \in BOOLEAN
                           /\ Faults \in BOOLEAN

VARIABLES
    phase,      \* where main.run is
    exitCode,   \* what it ends with, once it has returned
    pool,       \* the connection pool, "open" or "closed"
    job,        \* where the worker is
    cutOff,     \* ghost: outcomes of the sink the worker could not write
    pc,         \* where each request is
    kind,       \* what it asks for
    key,        \* the key it presents
    operator,   \* the operator in its context, "system" when there is none
    away,       \* requests whose client has gone: the context is cancelled
    audit,      \* api_key_audit: request, action, operator
    unaudited,  \* ghost: requests whose audit insert failed by itself
    changes,    \* route_rule_change_log: request, operator
    status,     \* domain errors: Status
    details,    \* domain errors: Details, as the request that attached them
    raised,     \* the error a request answers with
    reply,      \* its answer
    gauge,      \* telemetry_http_in_flight
    count,      \* the count of telemetry_http_duration_seconds
    seen        \* what a scrape has rendered

process == <<phase, exitCode, pool>>
records == <<audit, unaudited, changes>>
errors  == <<status, details>>
metrics == <<gauge, count, seen>>
context == <<kind, key, operator, away>>

vars == <<process, job, cutOff, pc, context, records, errors, raised, reply, metrics>>

Kind   == {"read", "write", "scrape"}

\* The error values as the package variables initialise them.  One stands for
\* all that are returned without details.
FirstStatus == [INVALID_FIELD |-> 422, RULE_NOT_FOUND |-> 404, DUPLICATE_MESSAGE |-> 200]

NoReply == [status |-> 0, code |-> None, details |-> None]

Answered(r) == reply[r] # NoReply

\* The request has been read from its connection.
Arrived(r) == pc[r] \notin {"away", "connected"}

\* The places of a request between its first and its last change of a metric.
InFlight(r) == Arrived(r) /\ pc[r] \notin {"observe", "gone"}

-----------------------------------------------------------------------------

Init == /\ phase     = "starting"
        /\ exitCode  = None
        /\ pool      = "open"
        /\ job       = "off"
        /\ cutOff    = 0
        /\ pc        = [r \in Request |-> "away"]
        /\ kind      = [r \in Request |-> "read"]
        /\ key       = [r \in Request |-> NoKey]
        /\ operator  = [r \in Request |-> "system"]
        /\ away      = {}
        /\ audit     = {}
        /\ unaudited = {}
        /\ changes   = {}
        /\ status    = FirstStatus
        /\ details   = [e \in Shared |-> None]
        /\ raised    = [r \in Request |-> None]
        /\ reply     = [r \in Request |-> NoReply]
        /\ gauge     = 0
        /\ count     = 0
        /\ seen      = [r \in Request |-> [count |-> 0, gauge |-> 0]]

Goto(r, place) == pc' = [pc EXCEPT ![r] = place]

\* A statement of the request can succeed, outside of a transaction: one that
\* has begun keeps its connection when the pool is closed.
CanQuery(r) == r \notin away /\ pool = "open"

Running == phase # "exited"

-----------------------------------------------------------------------------
(* The chain of handlers.                                                  *)

\* POST, PUT and DELETE below /api/v1/.
RequiresAuth(k) == k = "write"

Route(k) == CASE k = "scrape" -> "duration"
              [] Auth /\ RequiresAuth(k) -> "gate"
              [] OTHER -> "handler"

\* A connection comes in, at a listener that main has not closed.
Connect(r) ==
    /\ phase \in {"serving", "cancelled"}
    /\ pc[r] = "away"
    /\ Goto(r, "connected")
    /\ UNCHANGED <<process, job, cutOff, context, records, errors, raised, reply, metrics>>

\* Shutdown closes a connection on which there is no request.
CloseIdle(r) ==
    /\ phase = "shutdown"
    /\ pc[r] = "connected"
    /\ Goto(r, "away")
    /\ UNCHANGED <<process, job, cutOff, context, records, errors, raised, reply, metrics>>

\* An Arrive that leaves the gauge to the deferred calls.
ArriveUncounted(r, k, presented) ==
    /\ Running
    /\ pc[r] = "connected"
    /\ Route(k) # "gate" => presented = NoKey
    /\ kind' = [kind EXCEPT ![r] = k]
    /\ key'  = [key EXCEPT ![r] = presented]
    /\ Goto(r, Route(k))
    /\ UNCHANGED <<process, job, cutOff, operator, away, records, errors, raised,
                   reply, metrics>>

\* The request is read from its connection, which may be after the listener
\* was closed, counted, and sent to the gate, or past it.  Nothing but the
\* gate looks at a key.
Arrive(r, k, presented) ==
    /\ Running
    /\ pc[r] = "connected"
    /\ Route(k) # "gate" => presented = NoKey
    /\ kind' = [kind EXCEPT ![r] = k]
    /\ key'  = [key EXCEPT ![r] = presented]
    /\ gauge' = gauge + 1
    /\ Goto(r, Route(k))
    /\ UNCHANGED <<process, job, cutOff, operator, away, records, errors, raised,
                   reply, count, seen>>

\* The client goes away.  After the last statement nothing looks at it.
Leave(r) == /\ Faults
            /\ Running
            /\ pc[r] \in {"gate", "handler", "tx"}
            /\ away' = away \union {r}
            /\ UNCHANGED <<process, job, cutOff, pc, kind, key, operator, records, errors,
                           raised, reply, metrics>>

\* RecordAudit, whose error nobody looks at.
Audit(r, entry) ==
    \/ /\ CanQuery(r)
       /\ audit' = audit \union {entry}
       /\ UNCHANGED unaudited
    \/ /\ ~CanQuery(r)
       /\ UNCHANGED <<audit, unaudited>>
    \/ /\ Faults
       /\ CanQuery(r)
       /\ unaudited' = unaudited \union {r}
       /\ UNCHANGED audit

Say(r, rep) == reply' = [reply EXCEPT ![r] = rep]

Plain(s) == [status |-> s, code |-> None, details |-> None]

\* A middleware that does not put the operator into the context it passes on.
GateForgetting(r) ==
    /\ Running
    /\ pc[r] = "gate"
    /\ \/ /\ key[r] \in Operator
          /\ Audit(r, [req |-> r, action |-> "authenticated", operator |-> key[r]])
          /\ Goto(r, "handler")
          /\ UNCHANGED reply
       \/ /\ key[r] \notin Operator
          /\ Audit(r, [req |-> r, action |-> "rejected", operator |-> None])
          /\ Say(r, Plain(401))
          /\ Goto(r, "leave")
    /\ UNCHANGED <<process, job, cutOff, context, changes, errors, raised, metrics>>

\* auth.Middleware: Authenticate, then on with the operator in the context, or
\* a 401.
Gate(r) ==
    /\ Running
    /\ pc[r] = "gate"
    /\ \/ /\ key[r] \in Operator
          /\ Audit(r, [req |-> r, action |-> "authenticated", operator |-> key[r]])
          /\ operator' = [operator EXCEPT ![r] = key[r]]
          /\ Goto(r, "handler")
          /\ UNCHANGED reply
       \/ /\ key[r] \notin Operator
          /\ Audit(r, [req |-> r, action |-> "rejected", operator |-> None])
          /\ Say(r, Plain(401))
          /\ Goto(r, "leave")
          /\ UNCHANGED operator
    /\ UNCHANGED <<process, job, cutOff, kind, key, away, changes, errors, raised, metrics>>

\* InTx of a handler that writes, after the statements before it.
Begin(r) ==
    /\ Running
    /\ pc[r] = "handler"
    /\ kind[r] = "write"
    /\ CanQuery(r)
    /\ Goto(r, "tx")
    /\ UNCHANGED <<process, job, cutOff, context, records, errors, raised, reply, metrics>>

\* A handler that reads has what it asked for; one that writes commits its
\* change with the log entry.  What it answers when the client, or the
\* acknowledgement of the commit, is gone by then is left open.
Succeed(r) ==
    /\ Running
    /\ \/ /\ pc[r] = "handler"
          /\ kind[r] = "read"
          /\ CanQuery(r)
          /\ UNCHANGED changes
       \/ /\ pc[r] = "tx"
          /\ r \notin away
          /\ changes' = changes \union {[req |-> r, operator |-> operator[r]]}
    /\ \/ Say(r, Plain(200))
       \/ Faults /\ Say(r, Plain(500))
    /\ Goto(r, "leave")
    /\ UNCHANGED <<process, job, cutOff, context, audit, unaudited, errors, raised, metrics>>

\* An error that is not a domain error: of a statement, or of the context.
FailInternally(r) ==
    /\ Running
    /\ \/ pc[r] = "handler" /\ (Faults \/ ~CanQuery(r))
       \/ pc[r] = "tx" /\ (Faults \/ r \in away)
    /\ Say(r, Plain(500))
    /\ Goto(r, "leave")
    /\ UNCHANGED <<process, job, cutOff, context, records, errors, raised, metrics>>

\* The handler returns a domain error: invalid input without a statement, with
\* details that WithDetails writes into the one value there is; the others as
\* they are, after a statement.  DUPLICATE_MESSAGE gets out only when the row
\* found in the transaction is not found again, outside of it.
Raise(r, e) ==
    /\ Running
    /\ \/ e = "INVALID_FIELD" /\ pc[r] = "handler" /\ kind[r] = "write"
       \/ e = "RULE_NOT_FOUND" /\ pc[r] = "handler" /\ CanQuery(r)
       \/ e = "DUPLICATE_MESSAGE" /\ pc[r] = "tx" /\ (Faults \/ ~CanQuery(r))
    /\ raised' = [raised EXCEPT ![r] = e]
    /\ details' = IF e = "INVALID_FIELD" THEN [details EXCEPT ![e] = r] ELSE details
    /\ Goto(r, "check")
    /\ UNCHANGED <<process, job, cutOff, context, records, status, reply, metrics>>

\* A writeError without the line that looks for 200.
SendUnchecked(r) ==
    /\ Running
    /\ pc[r] = "check"
    /\ Goto(r, "send")
    /\ UNCHANGED <<process, job, cutOff, context, records, errors, raised, reply, metrics>>

\* writeError: the status is read, written into the shared value when it is
\* 200, and read again for the answer, with no lock.
CheckStatus(r) ==
    /\ Running
    /\ pc[r] = "check"
    /\ Goto(r, IF status[raised[r]] = 200 THEN "mend" ELSE "send")
    /\ UNCHANGED <<process, job, cutOff, context, records, errors, raised, reply, metrics>>

MendStatus(r) ==
    /\ Running
    /\ pc[r] = "mend"
    /\ status' = [status EXCEPT ![raised[r]] = 500]
    /\ Goto(r, "send")
    /\ UNCHANGED <<process, job, cutOff, context, records, details, raised, reply, metrics>>

SendError(r) ==
    /\ Running
    /\ pc[r] = "send"
    /\ Say(r, [status  |-> status[raised[r]],
               code    |-> raised[r],
               details |-> details[raised[r]]])
    /\ Goto(r, "leave")
    /\ UNCHANGED <<process, job, cutOff, context, records, errors, raised, metrics>>

\* A scrape renders the metrics by name, each under its own lock: the
\* histogram of the durations first, then the gauge.
Scrape(r) ==
    /\ Running
    /\ \/ /\ pc[r] = "duration"
          /\ seen' = [seen EXCEPT ![r].count = count]
          /\ Goto(r, "in_flight")
          /\ UNCHANGED reply
       \/ /\ pc[r] = "in_flight"
          /\ seen' = [seen EXCEPT ![r].gauge = gauge]
          /\ Say(r, Plain(200))
          /\ Goto(r, "leave")
    /\ UNCHANGED <<process, job, cutOff, context, records, errors, raised, gauge, count>>

\* The deferred calls the other way round.
CountOutSwapped(r) ==
    /\ Running
    /\ \/ /\ pc[r] = "leave"
          /\ count' = count + 1
          /\ Goto(r, "observe")
          /\ UNCHANGED gauge
       \/ /\ pc[r] = "observe"
          /\ gauge' = gauge - 1
          /\ Goto(r, "gone")
          /\ UNCHANGED count
    /\ UNCHANGED <<process, job, cutOff, context, records, errors, raised, reply, seen>>

\* The deferred calls of instrumentHandler.
CountOut(r) ==
    /\ Running
    /\ \/ /\ pc[r] = "leave"
          /\ gauge' = gauge - 1
          /\ Goto(r, "observe")
          /\ UNCHANGED count
       \/ /\ pc[r] = "observe"
          /\ count' = count + 1
          /\ Goto(r, "gone")
          /\ UNCHANGED gauge
    /\ UNCHANGED <<process, job, cutOff, context, records, errors, raised, reply, seen>>

Handle(r) == \/ Connect(r)
             \/ CloseIdle(r)
             \/ \E k \in Kind, presented \in Operator \union {NoKey} :
                   Arrive(r, k, presented)
             \/ Leave(r)
             \/ Gate(r)
             \/ Begin(r)
             \/ Succeed(r)
             \/ FailInternally(r)
             \/ \E e \in Shared : Raise(r, e)
             \/ CheckStatus(r)
             \/ MendStatus(r)
             \/ SendError(r)
             \/ Scrape(r)
             \/ CountOut(r)

-----------------------------------------------------------------------------
(* The worker, as far as its context and the pool matter (see Dispatch for   *)
(* what it does): a pass reads, per row, the event, calls the sink, which    *)
(* does not look at the context, and writes the outcome.                     *)

Cancelled == phase \notin {"starting", "serving"}

Alive == ~Cancelled /\ pool = "open"

\* Reads that are not given the context of the worker.
CanReadDetached == pool = "open"

CanRead == Alive

Work(from, to) == /\ Running
                  /\ job = from
                  /\ job' = to
                  /\ UNCHANGED <<process, pc, context, records, errors, raised, reply, metrics>>

\* ListDueDeliveries.  Of a tick and a cancelled context that are both there,
\* select takes either.
BeginPass == CanRead /\ Work("idle", "pass") /\ UNCHANGED cutOff

\* GetEvent of the next row.
ReadEvent == CanRead /\ Work("pass", "row") /\ UNCHANGED cutOff

CallSink == Work("row", "called") /\ UNCHANGED cutOff

WriteOutcome == Alive /\ Work("called", "pass") /\ UNCHANGED cutOff

\* The last row is done, or a read fails.
EndPass == Work("pass", "idle") /\ UNCHANGED cutOff

\* The update that writes the outcome fails, with the context, or by itself.
LoseOutcome == /\ Faults \/ ~Alive
               /\ Work("called", "idle")
               /\ cutOff' = IF Alive THEN cutOff ELSE cutOff + 1

EndWorker == Cancelled /\ Work("idle", "off") /\ UNCHANGED cutOff

Worker == \/ BeginPass \/ ReadEvent \/ CallSink \/ WriteOutcome
          \/ EndPass \/ LoseOutcome \/ EndWorker

-----------------------------------------------------------------------------
(* main.run.                                                                 *)

rest == <<cutOff, pc, context, records, errors, raised, reply, metrics>>

To(p) == phase' = p /\ UNCHANGED rest

Return(code) == exitCode' = code /\ To("returned") /\ UNCHANGED <<pool, job>>

\* Configuration, connection, migration and keys are good; the worker may be
\* switched off.
Start == /\ phase = "starting"
         /\ job' \in {"off", "idle"}
         /\ To("serving")
         /\ UNCHANGED <<exitCode, pool>>

StartFails == phase = "starting" /\ Return(1)

ListenerFails == phase = "serving" /\ Return(1)

\* The first SIGINT or SIGTERM, and the cancel() that follows.
Signal == phase = "serving" /\ To("cancelled") /\ UNCHANGED <<exitCode, pool, job>>

\* Shutdown closes the listener.
Shutdown == phase = "cancelled" /\ To("shutdown") /\ UNCHANGED <<exitCode, pool, job>>

\* Shutdown has seen every request end.
Drained == /\ phase = "shutdown"
           /\ \A r \in Request : pc[r] \in {"away", "gone"}
           /\ Return(0)

\* A Shutdown without a deadline: it waits for the requests.
WaitOn == /\ phase = "shutdown"
          /\ \A r \in Request : pc[r] \in {"away", "gone"}
          /\ Return(1)

\* SHUTDOWN_TIMEOUT has passed.
TimedOut == phase = "shutdown" /\ Return(1)

\* The deferred db.Close.
ClosePool == /\ phase = "returned"
             /\ pool' = "closed"
             /\ To("closed")
             /\ UNCHANGED <<exitCode, job>>

Exit == phase = "closed" /\ To("exited") /\ UNCHANGED <<exitCode, pool, job>>

Main == \/ Shutdown \/ Drained \/ TimedOut \/ ClosePool \/ Exit

Next == \/ \E r \in Request : Handle(r)
        \/ Worker
        \/ Start \/ StartFails \/ ListenerFails \/ Signal
        \/ Main

Spec == Init /\ [][Next]_vars

\* The main goroutine goes on and the timer of Shutdown fires.  Of requests,
\* clients and the worker nothing is assumed: a handler may hang.
Fairness == WF_vars(Main)

FairSpec == Spec /\ Fairness

-----------------------------------------------------------------------------
(* Safety.                                                                   *)

Place == {"away", "connected", "gate", "handler", "tx", "check", "mend", "send",
          "duration", "in_flight", "leave", "observe", "gone"}

AuditEntry == [req : Request, action : {"authenticated", "rejected"},
               operator : Operator \union {None}]

LogEntry == [req : Request, operator : Operator \union {"system"}]

Reply == [status  : {0, 200, 401, 404, 422, 500},
          code    : Shared \union {None},
          details : Request \union {None}]

Tally == 0..Cardinality(Request)

\* The types of the variables.
TypeOK ==
    /\ phase     \in {"starting", "serving", "cancelled", "shutdown",
                      "returned", "closed", "exited"}
    /\ exitCode  \in {None, 0, 1}
    /\ pool      \in {"open", "closed"}
    /\ job       \in {"off", "idle", "pass", "row", "called"}
    /\ cutOff    \in Nat
    /\ pc        \in [Request -> Place]
    /\ kind      \in [Request -> Kind]
    /\ key       \in [Request -> Operator \union {NoKey}]
    /\ operator  \in [Request -> Operator \union {"system"}]
    /\ away      \in SUBSET Request
    /\ audit     \in SUBSET AuditEntry
    /\ unaudited \in SUBSET Request
    /\ changes   \in SUBSET LogEntry
    /\ status    \in [Shared -> {200, 404, 422, 500}]
    /\ details   \in [Shared -> Request \union {None}]
    /\ raised    \in [Request -> Shared \union {None}]
    /\ reply     \in [Request -> Reply]
    /\ gauge     \in Tally
    /\ count     \in Tally
    /\ seen      \in [Request -> [count : Tally, gauge : Tally]]

\* A change is logged under the operator whose key its request presented, and
\* never without that key; and whoever left no trace in the audit was not
\* helped by going away: a change by a request that is not audited means that
\* the insert failed with the client there and the pool open.
ChangesAttributed ==
    \A c \in changes :
        IF Auth
          THEN /\ c.operator = key[c.req]
               /\ \/ [req |-> c.req, action |-> "authenticated", operator |-> c.operator]
                         \in audit
                  \/ c.req \in unaudited
          ELSE c.operator = "system"

\* Whatever other requests do to the shared error at the same time, an error
\* is answered with its own status and code, DUPLICATE_MESSAGE with 500, and
\* no error is ever told as a success; only invalid input has details.
ErrorsToldAsTheyAre ==
    \A r \in Request :
        raised[r] # None /\ Answered(r) =>
            /\ reply[r].code = raised[r]
            /\ reply[r].status = IF raised[r] = "DUPLICATE_MESSAGE"
                                   THEN 500 ELSE FirstStatus[raised[r]]
            /\ reply[r].details # None <=> raised[r] = "INVALID_FIELD"

\* A scrape counts no request twice, in flight and as done, although it reads
\* the two one after the other while requests end; and it sees itself.
ScrapeCountsOnce ==
    \A r \in Request :
        kind[r] = "scrape" /\ Answered(r) =>
            /\ seen[r].count + seen[r].gauge <= Cardinality({q \in Request : Arrived(q)})
            /\ seen[r].gauge >= 1

\* Stopping the process, although nobody waits for the worker and its pool is
\* closed under it, loses the outcome of at most one call of the sink, which
\* another process will repeat.
StopLosesOneOutcome == cutOff <= 1

-----------------------------------------------------------------------------
(* Liveness.                                                                 *)

\* A process told to stop ends, with requests that hang, too.
Stops == phase = "cancelled" ~> phase = "exited"

-----------------------------------------------------------------------------
(* What the documents say and the code does not do.                          *)

\* errors.go:27: WithDetails attaches details to the error; so the details of
\* an answer are those of its own failure.
OwnDetails ==
    \A r \in Request : reply[r].code = "INVALID_FIELD" => reply[r].details = r
=============================================================================
