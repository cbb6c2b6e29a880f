------------------------------- MODULE Ingest -------------------------------
(***************************************************************************)
(* Service.IngestTelemetry, run by any number of concurrent HTTP requests  *)
(* against one PostgreSQL database, next to the device administration      *)
(* that changes the statuses it reads.                                     *)
(*                                                                         *)
(* A step is one statement of the code that touches the database.  The     *)
(* writes of the ingest transaction stay private to the request until      *)
(* Commit, except for what READ COMMITTED lets others feel: an uncommitted *)
(* row in the unique index on raw_message.dedup_key, and the row lock that *)
(* TouchSeen takes on the device, both kept to the end of the transaction. *)
(* Which of the two a request holds follows from its program counter.      *)
(*                                                                         *)
(* Abstractions: a Message is what the dedup key identifies; event_id is   *)
(* the request that drew it (newEventID is taken to be unique); a client's *)
(* retry is another Request.  The routing rules are abstracted to any set  *)
(* of matches, because rules are edited at any time (see README).          *)
(***************************************************************************)
EXTENDS Integers, FiniteSets

CONSTANTS
    Device,     \* device archives
    Message,    \* dedup keys
    DeviceOf,   \* Message -> Device, the first field of the message
    Rule,       \* routing rules
    Request,    \* POST /api/v1/telemetry requests
    None,       \* no request (a NULL column)
    Window,     \* DEDUP_WINDOW, in ticks of the clock
    MaxClock,   \* bound on the clock
    Faults      \* TRUE: statements may fail, clients may go away

ASSUME IngestAssumption == /\ DeviceOf \in [Message -> Device]
                           /\ None \notin Request \union Message
                           /\ Window \in Nat
                           /\ MaxClock \in Nat \ {0}
                           /\ Faults \in BOOLEAN

VARIABLES
    clock,      \* s.now()
    device,     \* device.status per device_id, "absent" without a row
    lastSeen,   \* device.last_seen_at, Never when NULL
    raw,        \* raw_message: the event_id column per dedup_key
    event,      \* the committed rows of the event table
    delivery,   \* delivery_record: rules of the rows of each event
    pc,         \* where each request is in IngestTelemetry
    msg,        \* its parsed message, once it is parsed
    now,        \* the local now, read at the start of IngestTelemetry
    routed,     \* rules of its uncommitted delivery rows
    reply       \* what its client is told

vars == <<clock, device, lastSeen, raw, event, delivery,
          pc, msg, now, routed, reply>>

local == <<pc, msg, now, routed, reply>>
tables == <<lastSeen, raw, event, delivery>>

Never == 0

DeviceStatus == {"active", "suspended", "deleted"}

\* The points of IngestTelemetry where another request can run.
Place == {"idle", "device", "dedup", "begin", "insert", "touch", "route",
          "commit", "reread", "done"}

ReplyKind == {"none", "created", "duplicate", "invalid", "not_found",
              "inactive", "collision", "error"}

Reply == [kind : ReplyKind, event : Request \union {None}, rules : SUBSET Rule]

NoReply == [kind |-> "none", event |-> None, rules |-> {}]

\* An answer that none of the documented kinds covers.
RefusalUnknown(k) == [kind |-> "conflict", event |-> None, rules |-> {}]

Refusal(k) == [kind |-> k, event |-> None, rules |-> {}]

-----------------------------------------------------------------------------
(* What a transaction in progress holds.                                   *)

\* InsertRaw has put its entry in the unique index, not yet committed.
HoldsKey(r) == pc[r] \in {"touch", "route", "commit"}

\* TouchSeen has updated the device row, not yet committed.
HoldsDevice(r) == pc[r] \in {"route", "commit"}

\* An insert of a key waits for the transaction that inserted the same key.
KeyFree(m) == \A q \in Request : HoldsKey(q) => msg[q] # m

\* An update of a device row waits for the transaction that updated it.
DeviceFree(d) == \A q \in Request : HoldsDevice(q) => DeviceOf[msg[q]] # d

\* The unique index raw_message_dedup_key_idx has a committed entry.
KeyTaken(m) == raw[m] # None

\* dedup.WithinWindow: there is no lower bound, so a row received after this
\* request read its clock is within the window too.
WithinWindow(receivedAt, t) == t - receivedAt <= Window

-----------------------------------------------------------------------------

Init == /\ clock    = 1
        /\ device   \in [Device -> {"absent", "active"}]
        /\ lastSeen = [d \in Device |-> Never]
        /\ raw      = [m \in Message |-> None]
        /\ event    = {}
        /\ delivery = [r \in Request |-> {}]
        /\ pc       = [r \in Request |-> "idle"]
        /\ msg      = [r \in Request |-> None]
        /\ now      = [r \in Request |-> Never]
        /\ routed   = [r \in Request |-> {}]
        /\ reply    = [r \in Request |-> NoReply]

Goto(r, place) == pc' = [pc EXCEPT ![r] = place]

Finish(r, rep) == /\ Goto(r, "done")
                  /\ reply' = [reply EXCEPT ![r] = rep]

\* A request that has not opened its transaction changes no table.
Answer(r, rep) == /\ Finish(r, rep)
                  /\ UNCHANGED <<clock, device, tables, msg, now, routed>>

Move(r, place) == /\ Goto(r, place)
                  /\ UNCHANGED <<clock, device, tables, msg, now, routed, reply>>

\* ParseMessage fails: wrong layout, checksum, metric, value or timestamp.
RejectMessage(r) == /\ pc[r] = "idle"
                    /\ Answer(r, Refusal("invalid"))

\* ParseMessage succeeds.
Receive(r, m) == /\ pc[r] = "idle"
                 /\ msg' = [msg EXCEPT ![r] = m]
                 /\ now' = [now EXCEPT ![r] = clock]
                 /\ Goto(r, "device")
                 /\ UNCHANGED <<clock, device, tables, routed, reply>>

\* GetDevice and the two checks on its result.
CheckDevice(r) ==
    /\ pc[r] = "device"
    /\ LET status == device[DeviceOf[msg[r]]] IN
       \/ status = "absent" /\ Answer(r, Refusal("not_found"))
       \/ status \in {"suspended", "deleted"} /\ Answer(r, Refusal("inactive"))
       \/ status = "active" /\ Move(r, "dedup")

\* A duplicate that does not look up the event of the first report.
DuplicateUnnamed(m, rules) ==
    [kind |-> "duplicate", event |-> None, rules |-> rules]

\* duplicateResult: the event id of the row found; its reads of the event and
\* of the rules are best effort, and the rules are those of the moment.
DuplicateResult(m, rules) ==
    [kind |-> "duplicate", event |-> raw[m], rules |-> rules]

\* The dedup check outside the transaction.
FastPath(r) ==
    /\ pc[r] = "dedup"
    /\ LET m == msg[r] IN
       IF KeyTaken(m) /\ WithinWindow(now[raw[m]], now[r])
         THEN \E rules \in SUBSET Rule : Answer(r, DuplicateResult(m, rules))
         ELSE Move(r, "begin")

\* BEGIN, the dedup check inside the transaction, which does not look at the
\* window, and CreateEvent, whose row only this transaction sees.
BeginTx(r) ==
    /\ pc[r] = "begin"
    /\ IF KeyTaken(msg[r]) THEN Move(r, "reread") ELSE Move(r, "insert")

\* With a lock timeout of zero: a key in use is an error at once.
InsertRawNoWait(r) ==
    /\ pc[r] = "insert"
    /\ IF KeyTaken(msg[r]) \/ ~KeyFree(msg[r])
         THEN Answer(r, Refusal("collision"))
         ELSE Move(r, "touch")

\* With ON CONFLICT DO UPDATE: a committed key is taken over.
InsertRawUpsert(r) == /\ pc[r] = "insert"
                      /\ KeyFree(msg[r])
                      /\ Move(r, "touch")

\* With a retry of the insert after a unique violation.
InsertRawRetry(r) == /\ pc[r] = "insert"
                     /\ KeyFree(msg[r])
                     /\ IF KeyTaken(msg[r]) THEN Move(r, "insert") ELSE Move(r, "touch")

\* InsertRaw: it waits for a concurrent insert of the key; a committed one is
\* a unique violation, which IngestTelemetry returns as it is: a 500, told
\* apart here from those of a failure.
InsertRaw(r) ==
    /\ pc[r] = "insert"
    /\ KeyFree(msg[r])
    /\ IF KeyTaken(msg[r])
         THEN Answer(r, Refusal("collision"))
         ELSE Move(r, "touch")

\* A TouchSeen on the pool: what it writes survives a rollback.
TouchSeenOutsideTx(r) ==
    /\ pc[r] = "touch"
    /\ DeviceFree(DeviceOf[msg[r]])
    /\ lastSeen' = [lastSeen EXCEPT ![DeviceOf[msg[r]]] = now[r]]
    /\ Goto(r, "route")
    /\ UNCHANGED <<clock, device, raw, event, delivery, msg, now, routed, reply>>

\* TouchSeen: it waits for the device row.
TouchSeen(r) == /\ pc[r] = "touch"
                /\ DeviceFree(DeviceOf[msg[r]])
                /\ Move(r, "route")

\* A Route that inserts its rows on the pool instead of the transaction.
RouteOutsideTx(r) == /\ pc[r] = "route"
                     /\ \E matched \in SUBSET Rule :
                          /\ routed' = [routed EXCEPT ![r] = matched]
                          /\ delivery' = [delivery EXCEPT ![r] = matched]
                     /\ Goto(r, "commit")
                     /\ UNCHANGED <<clock, device, lastSeen, raw, event, msg, now, reply>>

\* ListRules, Match and one CreateDelivery per match, inside the transaction.
Route(r) == /\ pc[r] = "route"
            /\ \E matched \in SUBSET Rule :
                 routed' = [routed EXCEPT ![r] = matched]
            /\ Goto(r, "commit")
            /\ UNCHANGED <<clock, device, tables, msg, now, reply>>

\* What COMMIT makes visible.
Publish(r) ==
    /\ raw'      = [raw EXCEPT ![msg[r]] = r]
    /\ event'    = event \union {r}
    /\ delivery' = [delivery EXCEPT ![r] = routed[r]]
    /\ lastSeen' = [lastSeen EXCEPT ![DeviceOf[msg[r]]] = now[r]]

\* COMMIT and the 201 answer.  The acknowledgement of the commit, or the
\* answer on its way to the client, may be lost: a fault like the others.
Commit(r) ==
    /\ pc[r] = "commit"
    /\ Publish(r)
    /\ \/ Finish(r, [kind |-> "created", event |-> r, rules |-> routed[r]])
       \/ Faults /\ Finish(r, Refusal("error"))
    /\ UNCHANGED <<clock, device, msg, now, routed>>

\* errDuplicate: the row is read again on the pool, after the rollback.
Reread(r) ==
    /\ pc[r] = "reread"
    /\ \E rules \in SUBSET Rule : Answer(r, DuplicateResult(msg[r], rules))

\* A statement fails, or the client goes away and the context is cancelled, or
\* the process stops: the transaction, if any, is rolled back and its locks go.
\* (In "reread" the error is errDuplicate itself, which writeError turns into a
\* 500 too.)
Fail(r) == /\ Faults
           /\ pc[r] \notin {"idle", "done"}
           /\ Answer(r, Refusal("error"))

-----------------------------------------------------------------------------
(* Device administration, and the clock.                                   *)

\* A RegisterDevice of a known device_id is a unique violation, a 409.
RegisterDevice(d) == /\ device[d] = "absent"
                     /\ device' = [device EXCEPT ![d] = "active"]
                     /\ UNCHANGED <<clock, tables, local>>

\* Any of the three statuses is accepted, whatever the current one; the
\* UPDATE waits for an ingest transaction that has the row.
SetDeviceStatus(d, status) == /\ device[d] # "absent"
                              /\ DeviceFree(d)
                              /\ device' = [device EXCEPT ![d] = status]
                              /\ UNCHANGED <<clock, tables, local>>

Tick == /\ clock < MaxClock
        /\ clock' = clock + 1
        /\ UNCHANGED <<device, tables, local>>

Step(r) == \/ CheckDevice(r)
           \/ FastPath(r)
           \/ BeginTx(r)
           \/ InsertRaw(r)
           \/ TouchSeen(r)
           \/ Route(r)
           \/ Commit(r)
           \/ Reread(r)

Next == \/ \E r \in Request : \/ RejectMessage(r)
                              \/ \E m \in Message : Receive(r, m)
                              \/ Step(r)
                              \/ Fail(r)
        \/ \E d \in Device : \/ RegisterDevice(d)
                             \/ \E s \in DeviceStatus : SetDeviceStatus(d, s)
        \/ Tick

Spec == Init /\ [][Next]_vars

\* A request is a goroutine of net/http: the runtime runs it when it can run,
\* and PostgreSQL wakes the waiters of a lock that is released.
Fairness == \A r \in Request : WF_vars(Step(r))

FairSpec == Spec /\ Fairness

-----------------------------------------------------------------------------
(* Safety.                                                                 *)

\* The types of the variables.
TypeOK == /\ clock    \in 1..MaxClock
          /\ device   \in [Device -> DeviceStatus \union {"absent"}]
          /\ lastSeen \in [Device -> 0..MaxClock]
          /\ raw      \in [Message -> Request \union {None}]
          /\ event    \in SUBSET Request
          /\ delivery \in [Request -> SUBSET Rule]
          /\ pc       \in [Request -> Place]
          /\ msg      \in [Request -> Message \union {None}]
          /\ now      \in [Request -> 0..MaxClock]
          /\ routed   \in [Request -> SUBSET Rule]
          /\ reply    \in [Request -> Reply]

\* The three tables an ingest transaction writes agree at all times: an event
\* has exactly one raw message and it points back, no message has two events,
\* and no delivery exists without its event (all or nothing, whatever fails).
LedgerConsistent ==
    /\ \A e \in event : msg[e] \in Message /\ raw[msg[e]] = e
    /\ \A m \in Message : raw[m] # None => raw[m] \in event /\ msg[raw[m]] = m
    /\ \A r \in Request : delivery[r] # {} => r \in event

\* What a client is told stays true: "created" names its own committed event
\* and exactly the rules it was queued for; "duplicate" names the committed
\* event of the same message, drawn by another request; after a refusal for
\* any reason but a failure the request itself recorded nothing.
RepliesTruthful ==
    \A r \in Request :
        /\ reply[r].kind = "created" =>
               /\ r \in event
               /\ reply[r].event = r
               /\ reply[r].rules = delivery[r]
        /\ reply[r].kind = "duplicate" =>
               /\ msg[r] \in Message
               /\ reply[r].event = raw[msg[r]]
               /\ reply[r].event \in event \ {r}
        /\ reply[r].kind \in {"invalid", "not_found", "inactive", "collision"} =>
               r \notin event

\* device.last_seen_at is the receipt time of a report of that device that was
\* recorded, and is set as soon as there is one: TouchSeen never outlives a
\* rolled back report and never misses a committed one.
LastSeenIsReceipt ==
    \A d \in Device :
        LET reports == {e \in event : DeviceOf[msg[e]] = d} IN
        IF reports = {} THEN lastSeen[d] = Never
                        ELSE lastSeen[d] \in {now[e] : e \in reports}

\* No two transactions are past InsertRaw with one key, nor past TouchSeen
\* with one device, and none is past InsertRaw with a key already committed.
TransactionsExclude ==
    \A q, r \in Request :
        /\ HoldsKey(r) => ~KeyTaken(msg[r])
        /\ q # r /\ HoldsKey(q) /\ HoldsKey(r) => msg[q] # msg[r]
        /\ q # r /\ HoldsDevice(q) /\ HoldsDevice(r)
               => DeviceOf[msg[q]] # DeviceOf[msg[r]]

\* A valid report of an active device is lost by failures only: whatever the
\* races, by the time it is answered, with the 500 of a lost race too, its
\* message is recorded.
NothingLost ==
    \A r \in Request :
        reply[r].kind \in {"created", "duplicate", "collision"} => KeyTaken(msg[r])

\* The database steps implement the write-once register of Intake.
Told(rep) == CASE rep.kind \in {"none", "created", "duplicate"} ->
                    [kind |-> rep.kind, event |-> rep.event]
               [] OTHER -> [kind |-> "refused", event |-> None]

Register == INSTANCE Intake WITH accepted <- raw,
                                 asked    <- msg,
                                 answer   <- [r \in Request |-> Told(reply[r])]

ImplementsIntake == Register!Spec

-----------------------------------------------------------------------------
(* Liveness.                                                               *)

\* A parsed request is answered: the waits for a key and for a device row, in
\* that order in every transaction, cannot turn into a deadlock.
Answered == \A r \in Request : pc[r] = "device" ~> pc[r] = "done"

-----------------------------------------------------------------------------
(* What the documents say and the code does not do.                        *)

\* README.md:146-147: of concurrent reports of one message, the unique index
\* makes the later one a duplicate.
RepeatAnsweredDuplicate == \A r \in Request : reply[r].kind # "collision"
=============================================================================
