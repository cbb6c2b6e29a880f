--------------------------- MODULE PipelineProofs ---------------------------
(***************************************************************************)
(* Proofs about Pipeline, for every value of its constants: the composed   *)
(* system implements Dispatch, and the queue matches the ledger.           *)
(*                                                                         *)
(* That a step of the whole is a step of Ingest, or none, needs no         *)
(* invariant.  For Dispatch a commit must be one it allows, of an event    *)
(* that has no row yet and at a time that is not in the future; that is    *)
(* what Aligned and PastNow are for, and Aligned needs to know that the    *)
(* worker and the replays only touch rows and events that are there        *)
(* (Queue).                                                                *)
(***************************************************************************)
EXTENDS Pipeline, IngestProofs

\* The time a request has read is not in the future.
PastNow == \A r \in Request : Running(r) => now[r] \in 1..clock

\* What the worker and the replays have in hand exists.
Queue ==
    /\ eventStatus \in [Request -> {"absent", "created", "dispatched", "dead_letter"}]
    /\ status \in [D!Row -> {"absent", "pending", "failed", "dispatched", "dead_letter"}]
    /\ \A d \in batch : d.row \in D!Row /\ status[d.row] # "absent"
    /\ wpc \in {"delivered", "refused", "dispatched", "dead_letter"} =>
           cur.row \in D!Row /\ status[cur.row] # "absent"
    /\ rpc \in [Replayer -> {"idle", "list", "create"}]
    /\ target \in [Replayer -> Request \union {NoRow}]
    /\ todo \in [Replayer -> SUBSET Rule]
    /\ \A p \in Replayer : rpc[p] # "idle" =>
           target[p] \in Request /\ eventStatus[target[p]] # "absent"

\* The queue has the recorded events, and rows of these only.
Aligned ==
    /\ \A r \in Request : r \in event <=> eventStatus[r] # "absent"
    /\ \A x \in D!Row : status[x] # "absent" => D!EventOf(x) \in event

\* A client that was told "created" has its rows.
Promised ==
    \A r \in Request : reply[r].kind = "created" =>
        /\ reply[r].rules \subseteq Rule
        /\ \A k \in reply[r].rules : status[<<r, k, FirstCopy>>] # "absent"

PInv == Inv /\ PastNow /\ Queue /\ Aligned /\ Promised

-----------------------------------------------------------------------------
(* Every step is one of ingestion, or leaves it alone.                     *)

LEMMA IngestStep == [PipelineNext]_pipelineVars => [Next]_vars
  BY DEF PipelineNext, Record, Report, Work, PipelineTick, pipelineVars, Next, Step

\* So what is proved of Ingest holds here; it is the form of PipelineNext that
\* says so.
LEMMA IngestKept == PipelineSpec => Spec
  <1>1. PipelineInit => Init
    BY DEF PipelineInit
  <1> QED
    BY <1>1, IngestStep, PTL DEF PipelineSpec, Spec

-----------------------------------------------------------------------------
(* What the worker and the replays can do to rows and events.              *)

\* Rows and events do not vanish, events do not appear, and rows appear for
\* known events only.
Growth ==
    /\ \A r \in Request : eventStatus'[r] # "absent" <=> eventStatus[r] # "absent"
    /\ \A x \in D!Row : status[x] # "absent" => status'[x] # "absent"
    /\ \A x \in D!Row : status'[x] # "absent" =>
           status[x] # "absent" \/ eventStatus[D!EventOf(x)] # "absent"

LEMMA WorkQueue ==
    ASSUME Queue, Aligned, Work
    PROVE  Queue' /\ Growth
  <1> USE DEF Queue
  <1>1. CASE D!ListDue
    <2>1. PICK S \in D!Batches(clock) :
             batch' = {[row |-> x, attempts |-> attempts[x], due |-> due[x]] : x \in S}
      BY <1>1 DEF D!ListDue
    <2>2. \A x \in S : x \in D!Row /\ status[x] # "absent"
      BY <2>1 DEF D!Batches, D!IsDue, D!Undispatched
    <2> QED
      BY <1>1, <2>1, <2>2 DEF D!ListDue, D!table, D!replays, Growth
  <1>2. CASE D!EndPass
    BY <1>2 DEF D!EndPass, D!table, D!replays, Growth
  <1>3. ASSUME NEW d \in batch, NEW answer \in {"delivered", "refused"}, D!SinkCall(d, answer)
        PROVE  Queue' /\ Growth
    BY <1>3 DEF D!SinkCall, D!table, D!replays, Growth
  <1>4. CASE D!MarkDelivered
    BY <1>4 DEF D!MarkDelivered, D!replays, Growth
  <1>5. CASE D!MarkFailed
    BY <1>5 DEF D!MarkFailed, D!replays, Growth
  <1>6. CASE D!MarkDead
    BY <1>6 DEF D!MarkDead, D!replays, Growth
  <1>7. CASE D!AdvanceEvent
    <2>1. eventStatus[D!EventOf(cur.row)] # "absent" /\ D!EventOf(cur.row) \in Request
      BY <1>7 DEF D!AdvanceEvent, D!Terminal, Aligned, D!Row, D!EventOf
    <2> QED
      BY <1>7, <2>1 DEF D!AdvanceEvent, D!Terminal, D!replays, Growth
  <1>8. CASE D!WorkerFault
    BY <1>8 DEF D!WorkerFault, D!table, D!replays, Growth
  <1>9. ASSUME NEW p \in Replayer, NEW e \in Request, D!StartReplay(p, e)
        PROVE  Queue' /\ Growth
    BY <1>9 DEF D!StartReplay, D!table, D!worker, Growth
  <1>10. ASSUME NEW p \in Replayer, D!ListExisting(p)
         PROVE  Queue' /\ Growth
    BY <1>10 DEF D!ListExisting, D!table, D!worker, Growth
  <1>11. ASSUME NEW p \in Replayer, D!ReplayCreate(p)
         PROVE  Queue' /\ Growth
    <2>1. PICK k \in todo[p], c \in Copy, t \in 1..clock :
             /\ D!CreateRows({<<target[p], k, c>>}, t)
             /\ todo' = [todo EXCEPT ![p] = todo[p] \ {k}]
      BY <1>11 DEF D!ReplayCreate
    <2>2. rpc[p] # "idle" /\ target[p] \in Request /\ eventStatus[target[p]] # "absent"
      BY <1>11 DEF D!ReplayCreate
    <2>3. D!EventOf(<<target[p], k, c>>) = target[p]
      BY DEF D!EventOf
    <2> QED
      BY <1>11, <2>1, <2>2, <2>3 DEF D!ReplayCreate, D!CreateRows, D!worker, Growth
  <1>12. ASSUME NEW p \in Replayer, D!EndReplay(p)
         PROVE  Queue' /\ Growth
    BY <1>12 DEF D!EndReplay, D!table, D!worker, Growth
  <1> QED
    BY <1>1, <1>2, <1>3, <1>4, <1>5, <1>6, <1>7, <1>8, <1>9, <1>10, <1>11, <1>12
    DEF Work, D!WorkerStep, D!DispatchOk, D!DispatchFail

-----------------------------------------------------------------------------
(* The invariant of the whole.                                             *)

\* At the start there are no events, no rows and no answers.
LEMMA PInit == PipelineInit => PInv
  <1> SUFFICES ASSUME PipelineInit PROVE PInv
    OBVIOUS
  <1>1. Inv
    BY InitInv DEF PipelineInit
  <1>2. PastNow
    BY DEF PipelineInit, Init, PastNow, Running
  <1>3. Queue
    BY DEF PipelineInit, D!Init, Queue
  <1>4. Aligned /\ Promised
    BY DEF PipelineInit, Init, D!Init, Aligned, Promised, NoReply
  <1> QED
    BY <1>1, <1>2, <1>3, <1>4 DEF PInv

\* What a step of ingestion other than a commit leaves alone: a running
\* request keeps its time, and nobody is told "created".
LEMMA QuietStep ==
    ASSUME Inv, PastNow, [Next]_vars, clock' = clock, event' = event
    PROVE  /\ PastNow'
           /\ \A r \in Request : reply'[r].kind = "created" => reply'[r] = reply[r]
  <1> DEFINE Quiet == /\ PastNow'
                      /\ \A r \in Request : reply'[r].kind = "created" => reply'[r] = reply[r]
  <1>t. /\ pc \in [Request -> Place] /\ now \in [Request -> 0..MaxClock]
        /\ reply \in [Request -> Reply] /\ clock \in 1..MaxClock
    BY DEF Inv, TypeOK
  <1>1. ASSUME NEW r \in Request, NEW rep \in Reply, Answer(r, rep), rep.kind # "created"
        PROVE  Quiet
    BY <1>1, <1>t DEF Answer, Finish, Goto, PastNow, Running
  <1>2. ASSUME NEW r \in Request, NEW place \in Place, Running(r), Move(r, place)
        PROVE  Quiet
    BY <1>2, <1>t DEF Move, Goto, PastNow, Running
  <1>3. ASSUME NEW k \in ReplyKind \ {"created"}
        PROVE  Refusal(k) \in Reply /\ Refusal(k).kind # "created"
    BY <1>3, RefusalType DEF Refusal
  <1>4. ASSUME NEW r \in Request, NEW rules \in SUBSET Rule, Running(r)
        PROVE  /\ DuplicateResult(msg[r], rules) \in Reply
               /\ DuplicateResult(msg[r], rules).kind # "created"
    BY <1>4, DuplicateType DEF Inv, Progress, DuplicateResult
  <1>5. ASSUME NEW r \in Request, RejectMessage(r)
        PROVE  Quiet
    BY <1>5, <1>1, <1>3 DEF RejectMessage, ReplyKind
  <1>6. ASSUME NEW r \in Request, NEW m \in Message, Receive(r, m)
        PROVE  Quiet
    BY <1>6, <1>t DEF Receive, Goto, PastNow, Running
  <1>7. ASSUME NEW r \in Request, CheckDevice(r)
        PROVE  Quiet
    BY <1>7, <1>1, <1>2, <1>3 DEF CheckDevice, ReplyKind, Place, Running
  <1>8. ASSUME NEW r \in Request, FastPath(r)
        PROVE  Quiet
    BY <1>8, <1>1, <1>2, <1>4 DEF FastPath, Place, Running
  <1>9. ASSUME NEW r \in Request, BeginTx(r)
        PROVE  Quiet
    BY <1>9, <1>2 DEF BeginTx, Place, Running
  <1>10. ASSUME NEW r \in Request, InsertRaw(r)
         PROVE  Quiet
    BY <1>10, <1>1, <1>2, <1>3 DEF InsertRaw, ReplyKind, Place, Running
  <1>11. ASSUME NEW r \in Request, TouchSeen(r)
         PROVE  Quiet
    BY <1>11, <1>2 DEF TouchSeen, Place, Running
  <1>12. ASSUME NEW r \in Request, Route(r)
         PROVE  Quiet
    BY <1>12, <1>t DEF Route, Goto, PastNow, Running
  <1>13. ASSUME NEW r \in Request, Commit(r)
         PROVE  FALSE
    BY <1>13 DEF Commit, Publish, Inv, Progress
  <1>14. ASSUME NEW r \in Request, Reread(r)
         PROVE  Quiet
    BY <1>14, <1>1, <1>4 DEF Reread, Running
  <1>15. ASSUME NEW r \in Request, Fail(r)
         PROVE  Quiet
    BY <1>15, <1>1, <1>3 DEF Fail, ReplyKind
  <1>16. ASSUME UNCHANGED <<pc, now, reply>>
         PROVE  Quiet
    BY <1>16 DEF PastNow, Running
  <1>17. CASE \/ UNCHANGED vars
              \/ \E d \in Device : \/ RegisterDevice(d)
                                   \/ \E s \in DeviceStatus : SetDeviceStatus(d, s)
    BY <1>17, <1>16 DEF vars, RegisterDevice, SetDeviceStatus, local
  <1>18. CASE Tick
    BY <1>18, <1>t DEF Tick
  <1> QED
    BY <1>5, <1>6, <1>7, <1>8, <1>9, <1>10, <1>11, <1>12, <1>13, <1>14, <1>15, <1>17, <1>18
    DEF Next, Step

\* What Dispatch calls the rows of an event, and the event of a row.
LEMMA RowsOfEvents ==
    /\ \A r \in Request, k \in Rule : /\ <<r, k, FirstCopy>> \in D!Row
                                      /\ D!EventOf(<<r, k, FirstCopy>>) = r
    /\ \A x \in D!Row : D!EventOf(x) \in Request
  BY PipelineAssumption DEF D!Row, D!EventOf

\* The commit of a request is an Accept: its event is new, and so are its rows.
LEMMA RecordAccepts ==
    ASSUME PInv, NEW r \in Request, Commit(r), Enqueue(r)
    PROVE  /\ D!Accept(r)
           /\ r \notin event
           /\ routed[r] \subseteq Rule
           /\ now[r] \in 1..clock
  <1>1. r \notin event /\ Running(r)
    BY DEF Commit, PInv, Inv, Progress, Running
  <1>2. eventStatus[r] = "absent" /\ now[r] \in 1..clock
    BY <1>1 DEF PInv, Aligned, PastNow
  <1>3. routed[r] \subseteq Rule
    BY DEF PInv, Inv, TypeOK
  <1>4. UNCHANGED <<clock, D!worker, D!replays, D!ghosts, faults>>
    BY DEF Commit, Enqueue, work, D!worker, D!replays, D!ghosts
  <1>5. D!CreateRows({r} \X routed[r] \X {FirstCopy}, now[r])
    BY DEF Enqueue, RowsOf
  <1> QED
    BY <1>1, <1>2, <1>3, <1>4, <1>5, PipelineAssumption DEF D!Accept, Enqueue

\* A commit brings an event and its rows, and may tell the client of them.
LEMMA RecordInv == PInv /\ Record => PInv'
  <1> SUFFICES ASSUME PInv, NEW r \in Request, Commit(r), Enqueue(r)
               PROVE  PInv'
    BY DEF Record
  <1>1. /\ r \notin event
        /\ routed[r] \subseteq Rule
    BY RecordAccepts
  <1>t. /\ pc \in [Request -> Place] /\ reply \in [Request -> Reply]
        /\ event \subseteq Request
    BY DEF PInv, Inv, TypeOK
  <1>2. Inv'
    BY NextInv DEF PInv, Next, Step
  <1>3. PastNow'
    BY <1>t DEF Commit, Finish, Goto, PInv, PastNow, Running
  <1>4. /\ event' = event \union {r}
        /\ eventStatus' = [eventStatus EXCEPT ![r] = "created"]
        /\ status' = [x \in D!Row |-> IF x \in RowsOf(r) THEN "pending" ELSE status[x]]
        /\ UNCHANGED <<wpc, batch, cur, rpc, target, todo>>
    BY DEF Commit, Publish, Enqueue, D!CreateRows, work
  <1>5. Queue'
    BY <1>4 DEF PInv, Queue
  <1>6. \A x \in RowsOf(r) : D!EventOf(x) = r
    BY DEF RowsOf, D!EventOf
  <1>7. Aligned'
    BY <1>4, <1>6, RowsOfEvents DEF PInv, Aligned, Queue
  <1>8. \A q \in Request : reply'[q].kind = "created" =>
           \/ reply'[q] = reply[q]
           \/ q = r /\ reply'[q].rules = routed[r]
    BY <1>t DEF Commit, Finish, Refusal
  <1>9. \A k \in routed[r] : <<r, k, FirstCopy>> \in RowsOf(r)
    BY DEF RowsOf
  <1>10. Promised'
    BY <1>1, <1>4, <1>8, <1>9, RowsOfEvents DEF PInv, Promised
  <1> QED
    BY <1>2, <1>3, <1>5, <1>7, <1>10 DEF PInv

\* The other steps of requests and of administration.
LEMMA ReportInv == PInv /\ Report => PInv'
  <1> SUFFICES ASSUME PInv, Report PROVE PInv'
    OBVIOUS
  <1>1. Inv' /\ PastNow'
        /\ \A r \in Request : reply'[r].kind = "created" => reply'[r] = reply[r]
    BY NextInv, QuietStep DEF PInv, Report
  <1>2. Queue' /\ Aligned'
    BY DEF PInv, Queue, Aligned, Report, queue, work
  <1>3. Promised'
    BY <1>1 DEF PInv, Promised, Report, queue
  <1> QED
    BY <1>1, <1>2, <1>3 DEF PInv

LEMMA TickInv == PInv /\ PipelineTick => PInv'
  <1> SUFFICES ASSUME PInv, PipelineTick PROVE PInv'
    OBVIOUS
  <1>1. Inv'
    BY NextInv DEF PInv, PipelineTick, Next
  <1>2. clock \in Nat /\ clock' = clock + 1
    BY DEF PInv, Inv, TypeOK, PipelineTick, Tick
  <1>3. PastNow'
    BY <1>2 DEF PInv, PastNow, Running, PipelineTick, Tick, local
  <1>4. Queue' /\ Aligned' /\ Promised'
    BY DEF PInv, Queue, Aligned, Promised, PipelineTick, Tick, queue, work, tables, local
  <1> QED
    BY <1>1, <1>3, <1>4 DEF PInv

\* The worker and the replays.
LEMMA WorkInv == PInv /\ Work => PInv'
  <1> SUFFICES ASSUME PInv, Work PROVE PInv'
    OBVIOUS
  <1>1. UNCHANGED vars
    BY DEF Work
  <1>2. Inv'
    BY <1>1, NextInv DEF PInv
  <1>3. Queue' /\ Growth
    BY WorkQueue DEF PInv
  <1>4. PastNow'
    BY <1>1 DEF PInv, PastNow, Running, vars
  <1>5. Aligned'
    BY <1>1, <1>3, RowsOfEvents DEF PInv, Aligned, Growth, vars
  <1>6. Promised'
    BY <1>1, <1>3, RowsOfEvents DEF PInv, Promised, Growth, vars
  <1> QED
    BY <1>2, <1>3, <1>4, <1>5, <1>6 DEF PInv

LEMMA PNext == PInv /\ [PipelineNext]_pipelineVars => PInv'
  <1> SUFFICES ASSUME PInv, [PipelineNext]_pipelineVars PROVE PInv'
    OBVIOUS
  <1>1. CASE UNCHANGED pipelineVars
    BY <1>1, NextInv
    DEF PInv, PastNow, Running, Queue, Aligned, Promised, pipelineVars, vars, queue, work
  <1> QED
    BY <1>1, RecordInv, ReportInv, WorkInv, TickInv DEF PipelineNext

THEOREM PipelineInvariance == PipelineSpec => []PInv
  BY PInit, PNext, PTL DEF PipelineSpec

\* The events the worker works on are the ones that were recorded, its rows are
\* theirs, and no rule that a client was told of is without its row.
THEOREM QueueFollowsLedger == PipelineSpec => []QueueMatchesLedger
  <1>1. PInv => QueueMatchesLedger
    BY DEF PInv, Aligned, Promised, QueueMatchesLedger
  <1> QED
    BY <1>1, PipelineInvariance, PTL

-----------------------------------------------------------------------------
(* The composition implements Dispatch.                                    *)

LEMMA DispatchStep ==
    ASSUME PInv, [PipelineNext]_pipelineVars
    PROVE  [D!Next]_(D!vars)
  <1> USE DEF D!vars, D!table, D!worker, D!replays, D!ghosts
  <1>1. CASE Record
    BY <1>1, RecordAccepts DEF Record, D!Next
  <1>2. CASE Report
    BY <1>2 DEF Report, queue, work
  <1>3. CASE Work
    BY <1>3 DEF Work, D!Next
  <1>4. CASE PipelineTick
    BY <1>4 DEF PipelineTick, Tick, D!Tick, D!Next, queue, work
  <1>5. CASE UNCHANGED pipelineVars
    BY <1>5 DEF pipelineVars, vars, queue, work
  <1> QED
    BY <1>1, <1>2, <1>3, <1>4, <1>5 DEF PipelineNext

\* What Dispatch assumes of the recording of events holds of Ingest: so all
\* that is proved of Dispatch holds of the worker behind real requests.
THEOREM KeepsDispatch == PipelineSpec => ImplementsDispatch
  <1>1. PipelineInit => D!Init
    BY DEF PipelineInit
  <1> QED
    BY <1>1, DispatchStep, PipelineInvariance, PTL DEF PipelineSpec, ImplementsDispatch, D!Spec

-----------------------------------------------------------------------------
(* What is proved of Dispatch, said of the whole.                          *)

\* The module with the theorems about Dispatch, for the Dispatch of Pipeline.
DP == INSTANCE DispatchProofs WITH Event <- Request, Horizon <- MaxClock

\* The two instances of Dispatch are the same.
LEMMA SameListDue == D!ListDue <=> DP!ListDue
  <1>1. D!Batches(clock) = DP!Batches(clock)
    BY DEF D!Batches, DP!Batches, D!IsDue, DP!IsDue, D!Undispatched,
        DP!Undispatched, D!Row, DP!Row, D!Cardinality, DP!Cardinality
  <1> QED
    BY <1>1 DEF D!ListDue, DP!ListDue, D!table, DP!table, D!replays, DP!replays,
        D!ghosts, DP!ghosts

LEMMA SameDispatch ==
    /\ D!Init <=> DP!Init
    /\ [D!Next]_(D!vars) <=> [DP!Next]_(DP!vars)
    /\ D!AtLeastOnce <=> DP!AtLeastOnce
    /\ D!Row = DP!Row
  <1>1. D!Init <=> DP!Init
    BY DEF D!Init, DP!Init, D!Row, DP!Row, D!NoTime, DP!NoTime
  <1>2. /\ D!EndPass <=> DP!EndPass
        /\ D!DispatchOk <=> DP!DispatchOk
        /\ D!DispatchFail <=> DP!DispatchFail
        /\ D!MarkDelivered <=> DP!MarkDelivered
        /\ D!MarkFailed <=> DP!MarkFailed
        /\ D!MarkDead <=> DP!MarkDead
        /\ D!AdvanceEvent <=> DP!AdvanceEvent
        /\ D!WorkerFault <=> DP!WorkerFault
    BY DEF D!EndPass, DP!EndPass, D!DispatchOk, DP!DispatchOk, D!DispatchFail,
        DP!DispatchFail, D!SinkCall, DP!SinkCall, D!MarkDelivered,
        DP!MarkDelivered, D!MarkFailed, DP!MarkFailed, D!MarkDead,
        DP!MarkDead, D!AdvanceEvent, DP!AdvanceEvent, D!WorkerFault,
        DP!WorkerFault, D!table, DP!table, D!replays, DP!replays, D!ghosts,
        DP!ghosts, D!Later, DP!Later, D!NoTime, DP!NoTime, D!Attempt,
        DP!Attempt, D!Exhausted, DP!Exhausted, D!Terminal, DP!Terminal,
        D!EventOf, DP!EventOf
  <1>3. D!WorkerStep <=> DP!WorkerStep
    BY <1>2, SameListDue DEF D!WorkerStep, DP!WorkerStep
  <1>4. /\ \A e \in Request : D!Accept(e) <=> DP!Accept(e)
        /\ \A p \in Replayer :
              /\ \A e \in Request : D!StartReplay(p, e) <=> DP!StartReplay(p, e)
              /\ D!ListExisting(p) <=> DP!ListExisting(p)
              /\ D!ReplayCreate(p) <=> DP!ReplayCreate(p)
              /\ D!EndReplay(p) <=> DP!EndReplay(p)
    BY DEF D!Accept, DP!Accept, D!StartReplay, DP!StartReplay, D!ListExisting,
        DP!ListExisting, D!ReplayCreate, DP!ReplayCreate, D!EndReplay,
        DP!EndReplay, D!CreateRows, DP!CreateRows, D!Open, DP!Open,
        D!Undispatched, DP!Undispatched, D!Row, DP!Row, D!EventOf,
        DP!EventOf, D!RuleOf, DP!RuleOf, D!table, DP!table, D!worker,
        DP!worker, D!replays, DP!replays, D!ghosts, DP!ghosts
  <1>5. D!Tick <=> DP!Tick
    BY DEF D!Tick, DP!Tick, D!table, DP!table, D!worker, DP!worker, D!replays, DP!replays,
        D!ghosts, DP!ghosts
  <1>6. UNCHANGED D!vars <=> UNCHANGED DP!vars
    BY DEF D!vars, DP!vars, D!table, DP!table, D!worker, DP!worker, D!replays,
        DP!replays, D!ghosts, DP!ghosts
  <1>7. D!AtLeastOnce <=> DP!AtLeastOnce
    BY DEF D!AtLeastOnce, DP!AtLeastOnce, D!Row, DP!Row
  <1>8. D!Row = DP!Row
    BY DEF D!Row, DP!Row
  <1> QED
    BY <1>1, <1>2, <1>3, <1>4, <1>5, <1>6, <1>7, <1>8 DEF D!Next, DP!Next

\* So what is proved of Dispatch holds, and its constants are as it asks.
LEMMA DispatchHolds ==
    /\ DP!DispatchAssumption /\ DP!NoRowAssumption
    /\ PipelineSpec => DP!Spec
  <1>1. DP!DispatchAssumption /\ DP!NoRowAssumption
    BY PipelineAssumption, IngestAssumption
    DEF DP!DispatchAssumption, DP!NoRowAssumption, DP!Snapshot, DP!Row
  <1>2. PipelineSpec => DP!Spec
    BY SameDispatch, KeepsDispatch, PTL DEF ImplementsDispatch, D!Spec, DP!Spec
  <1> QED
    BY <1>1, <1>2

\* A delivery of a real report is offered at least once, and again only after a
\* fault of the worker: what is proved of Dispatch, without assuming anything
\* about how events come to be.
THEOREM DeliversAtLeastOnce == PipelineSpec => []D!AtLeastOnce
  <1>1. DP!Spec => []DP!AtLeastOnce
    BY DispatchHolds, DP!DeliveredAtLeastOnce
  <1> QED
    BY <1>1, SameDispatch, DispatchHolds, PTL

\* The deliveries of real reports go through their life cycle: the composition
\* implements the abstract specification of Dispatch as well.
THEOREM KeepsLifecycle == PipelineSpec => DP!ImplementsLifecycle
  <1>1. DP!Spec => DP!ImplementsLifecycle
    BY DispatchHolds, DP!Implements
  <1> QED
    BY <1>1, DispatchHolds, PTL

\* And reports through theirs: next to the worker and the replays, a message is
\* recorded at most once, and every answer is about what is recorded.
THEOREM KeepsRegister == PipelineSpec => ImplementsIntake
  BY IngestKept, Implements, PTL

\* From the report to the sink: the sink is offered recorded events only, and a
\* rule that a client was told of is done with only by the sink, which took the
\* event or was asked as often as a delivery has attempts (IngestTelemetry,
\* dispatchOne, handleFailure).
THEOREM PromisesStayKept == PipelineSpec => []PromisesKept
  <1>1. DP!Spec => []DP!AtLeastOnce
    BY DispatchHolds, DP!DeliveredAtLeastOnce
  <1>2. DP!Spec => []DP!NoneGivenUp
    BY DispatchHolds, DP!NoneGivenUpEarly
  <1>3. DP!Spec => []DP!TypeOK
    BY DispatchHolds, DP!TypeCorrect
  <1>4. PInv /\ DP!AtLeastOnce /\ DP!NoneGivenUp /\ DP!TypeOK => PromisesKept
    <2> SUFFICES ASSUME PInv, DP!AtLeastOnce, DP!NoneGivenUp, DP!TypeOK PROVE PromisesKept
      OBVIOUS
    <2>1. \A x \in D!Row : sent[x] > 0 => D!EventOf(x) \in event
      BY SameDispatch DEF DP!NoneGivenUp, PInv, Aligned
    <2>2. ASSUME NEW r \in Request, reply[r].kind = "created", NEW k \in reply[r].rules,
                 NEW x, x = <<r, k, FirstCopy>>
          PROVE  \/ status[x] \in D!Undispatched
                 \/ status[x] = "dispatched" /\ acked[x] >= 1
                 \/ status[x] = "dead_letter" /\ sent[x] >= MaxAttempt
      <3>1. x \in DP!Row /\ x \in D!Row /\ status[x] # "absent"
        BY <2>2, SameDispatch, RowsOfEvents DEF PInv, Promised
      <3>2. status[x] \in {"pending", "failed", "dispatched", "dead_letter"}
        BY <3>1 DEF PInv, Queue
      <3>3. status[x] = "dispatched" => acked[x] >= 1
        BY <3>1 DEF DP!AtLeastOnce
      <3>4. status[x] = "dead_letter" => sent[x] >= MaxAttempt
        <4>1. status[x] = "dead_letter" => sent[x] = MaxAttempt + lost[x]
          BY <3>1 DEF DP!NoneGivenUp
        <4>2. lost[x] \in Nat /\ MaxAttempt \in Nat
          BY <3>1, PipelineAssumption DEF DP!TypeOK
        <4> QED
          BY <4>1, <4>2
      <3> QED
        BY <3>2, <3>3, <3>4 DEF D!Undispatched
    <2> QED
      BY <2>1, <2>2 DEF PromisesKept
  <1> QED
    BY <1>1, <1>2, <1>3, <1>4, DispatchHolds, PipelineInvariance, PTL
=============================================================================
