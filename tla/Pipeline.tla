------------------------------ MODULE Pipeline ------------------------------
(***************************************************************************)
(* Ingest and Dispatch over one database: from the report of a device to   *)
(* the answer of the sink.                                                 *)
(*                                                                         *)
(* An event is the request that recorded it.  The commit of an ingest      *)
(* transaction, which Dispatch takes for a step of its environment, is the *)
(* commit of Ingest here, with the rows of the rules that Route has        *)
(* matched; the clock is one for both; everything else is a step of one    *)
(* part that leaves the state of the other alone.                          *)
(***************************************************************************)
EXTENDS Ingest

CONSTANTS
    Copy, FirstCopy,    \* rows an event can get for one rule, the first of them
    Replayer,           \* see Dispatch
    MaxAttempt, BatchSize, Backoff, MaxFaults, NoRow

ASSUME PipelineAssumption ==
    /\ FirstCopy \in Copy
    /\ MaxAttempt \in Nat \ {0}
    /\ BatchSize \in Nat \ {0}
    /\ Backoff \in [1..MaxAttempt -> Nat]
    /\ MaxFaults \in Nat
    /\ NoRow \notin Request \union
           [row : Request \X Rule \X Copy, attempts : Nat, due : 0..MaxClock]

VARIABLES eventStatus, status, attempts, due,
          wpc, wnow, batch, cur, rpc, target, todo,
          sent, acked, lost, faults

D == INSTANCE Dispatch WITH Event <- Request, Horizon <- MaxClock

\* The worker and the replays, with what is counted of them.
work  == <<wpc, wnow, batch, cur, rpc, target, todo, sent, acked, lost, faults>>

queue == <<eventStatus, status, attempts, due, work>>

pipelineVars == <<vars, queue>>

PipelineInit == Init /\ D!Init

-----------------------------------------------------------------------------

RowsOf(r) == {r} \X routed[r] \X {FirstCopy}

\* An ingest transaction that does not insert the deliveries: they would be
\* left to a step of their own, which a crash can prevent.
EnqueueNothing(r) ==
    /\ eventStatus' = [eventStatus EXCEPT ![r] = "created"]
    /\ D!CreateRows({}, now[r])
    /\ UNCHANGED work

\* Rows that wait for a first backoff, too.
EnqueueLater(r) ==
    /\ eventStatus' = [eventStatus EXCEPT ![r] = "created"]
    /\ D!CreateRows(RowsOf(r), now[r] + Backoff[1])
    /\ UNCHANGED work

\* CreateEvent and the CreateDelivery of each match, as the commit shows them.
Enqueue(r) ==
    /\ eventStatus' = [eventStatus EXCEPT ![r] = "created"]
    /\ D!CreateRows(RowsOf(r), now[r])
    /\ UNCHANGED work

Record == \E r \in Request : Commit(r) /\ Enqueue(r)

\* Any other step of a request, or of device administration.
Report == Next /\ UNCHANGED <<clock, event, queue>>

\* The worker and the replays.
Work == /\ \/ D!WorkerStep
           \/ D!WorkerFault
           \/ \E p \in Replayer : \/ \E e \in Request : D!StartReplay(p, e)
                                  \/ D!ListExisting(p)
                                  \/ D!ReplayCreate(p)
                                  \/ D!EndReplay(p)
        /\ UNCHANGED vars

PipelineTick == Tick /\ UNCHANGED queue

PipelineNext == Record \/ Report \/ Work \/ PipelineTick

PipelineSpec == PipelineInit /\ [][PipelineNext]_pipelineVars

\* What the parts assume each, see there.
PipelineFairness == Fairness /\ WF_queue(D!WorkerStep) /\ WF_clock(Tick)

PipelineFairSpec == PipelineSpec /\ PipelineFairness

-----------------------------------------------------------------------------
(* Safety.                                                                 *)

\* Every commit of ingestion is one that Dispatch was designed for: of an event
\* that has no row yet, with rows of that event that are due at once.
ImplementsDispatch == D!Spec

\* What reaches the sink and what clients are told go together: the events of
\* the delivery queue are the recorded ones, no row (hence no call of the sink)
\* is there for a report that was refused or rolled back, and a client that was
\* told "created" has a row for each of the rules it was told, from then on.
QueueMatchesLedger ==
    /\ \A r \in Request : r \in event <=> eventStatus[r] # "absent"
    /\ \A x \in D!Row : status[x] # "absent" => D!EventOf(x) \in event
    /\ \A r \in Request : reply[r].kind = "created" =>
           \A k \in reply[r].rules : status[<<r, k, FirstCopy>>] # "absent"

\* What a client was told and what the sink was offered go together, too: only
\* recorded events are offered, and for each rule a client was told the row
\* ends only after the sink took it, or after as many calls as a delivery has
\* attempts; no report is marked dispatched, or given up, by other means.
PromisesKept ==
    /\ \A x \in D!Row : sent[x] > 0 => D!EventOf(x) \in event
    /\ \A r \in Request : reply[r].kind = "created" =>
           \A k \in reply[r].rules :
               LET x == <<r, k, FirstCopy>> IN
               \/ status[x] \in D!Undispatched
               \/ status[x] = "dispatched" /\ acked[x] >= 1
               \/ status[x] = "dead_letter" /\ sent[x] >= MaxAttempt

-----------------------------------------------------------------------------
(* Liveness.                                                               *)

\* From the report to the sink: a parsed request is answered, and each rule a
\* client was told about ends in a delivery that was dispatched or has died,
\* through waits for the keys and devices of other requests, their rollbacks and
\* faults of the worker.
Settled(r) ==
    /\ pc[r] = "done"
    /\ reply[r].kind = "created" =>
           \A k \in reply[r].rules : status[<<r, k, FirstCopy>>] \in D!Terminal

ReportsSettle == \A r \in Request : pc[r] = "device" ~> Settled(r)
=============================================================================
