# Device telemetry router: verification

TLA+ models of the device telemetry router (`src/`), the TLC runs that check
them, and TLAPS proofs of the theorems that matter most. Line references are to
files under `src/`; `worker.go` alone means `internal/worker/worker.go`, and so on.

To check: `tlc -config Ingest_safety.cfg MCIngest` (see the table of runs for the
other pairs), and `tlapm` on each of `IngestProofs.tla`, `DispatchProofs.tla`,
`PipelineProofs.tla`, `ServerProofs.tla`, `RuleAdminProofs.tla`, `DataLemmas.tla`,
`PureProofs.tla` and `ExprProofs.tla`.

1. [The system](#1-the-system)
2. [Modules](#2-modules-and-how-they-correspond-to-the-code)
3. [Runs](#3-runs)
4. [Bounds, symmetry and fairness](#4-bounds-symmetry-and-fairness)
5. [Proofs](#5-proofs)
6. [Where the code and its documents differ](#6-where-the-code-and-its-documents-differ)
7. [What is not modelled](#7-what-is-not-modelled)
8. [Plan](#8-plan)

## 1. The system

A Go HTTP service over one PostgreSQL database. Devices report telemetry as text
lines; a report becomes an *event*, at most once per distinct message; routing
rules decide to which topics the event goes; a *delivery record* per matched rule
is worked off by a background worker, which calls a sink and retries. Operators
administer devices and rules, and can have an event routed again (*replay*).

| Component | State | Operations | Hard behaviour | What makes it correct |
|---|---|---|---|---|
| Telemetry ingestion (`service.go`, `pg_device_raw.go`, `pg_event.go`, `dedup`) | tables `raw_message`, `event`, `delivery_record`; `device.last_seen_at` | `POST /telemetry`: parse, check the device, look for a duplicate, one transaction with 5 writes, answer | concurrent reports of one message; lock waits; a statement, the commit or the answer fails | one event per message; all or nothing; a true answer; none waits for ever |
| Device administration (`service.go`, `pg_device_raw.go`) | `device` | register, set status, queries | status changes under running reports | -- |
| Retry worker (`worker.go`, `pg_delivery_retry.go`) | `delivery_record`, `event.status`; the rows a pass has read | a pass per tick: list due rows, call the sink, mark the row, set the event's status | no transaction, no claim on the rows: every statement may interleave with new rows and replays; a crash anywhere | at least once; bounded attempts; never before its time; every delivery ends |
| Event replay (`service/replay.go`) | reads rules and deliveries, inserts deliveries | `POST /events/{id}/replay` | decides on rows it read while others change them | no second open row for a rule |
| Rule administration (`rules.go`, `pg_rule.go`) | `route_rule`, `route_rule_change_log` | create, update, delete | read before the transaction, write inside | the log accounts for the table |
| Rule matching (`router.go`, `expr.go`) | none | `Match`, `matchExpr` | precedence, malformed text, unstable sort | as the grammar says; one order |
| Protocol parser (`parser`) | none | `ParseMessage`, CRC16 | bits that leave the register | the checksum devices compute |
| Error envelope (`domain/errors.go`, `httpapi/server.go`) | global error values | `WithDetails`, `writeError` | the globals are shared by all requests, without a lock | an answer carries its own status, code and details |
| Metrics (`metrics`) | counter, gauge, histogram | `Inc`, `Add`, `Observe`, render | boundaries; a scrape reads one metric after the other | buckets add up; no request is counted twice |
| Authentication and audit (`auth`, `pg_audit.go`, `context.go`) | key hashes, `api_key_audit` | gate of the writing requests | the audit is best effort; the operator travels in a context | no change without a key, and under no other name |
| Process life cycle (`cmd/server`, `config`) | goroutines, pool | start, signal, shut down | shutdown has a deadline, and does not wait for the worker | it ends; little is lost |
| Queries (`events.go`, `pg_event.go`) | none | SELECTs, page by page | the table grows between two pages; events of equal `ts` come in any order, which need not be that of the page before | a walk that misses an event shows another of its `ts` twice |
| Migration, static frontend | schema / none | `Apply` / files | -- | -- |

Interactions. Ingestion and replay *insert* delivery rows; the worker *reads and
updates* them and the event's status; rule administration changes what ingestion
and replay match against; device administration changes the status ingestion
checks. All of it goes through the database, at READ COMMITTED, so the unit of
interleaving is the SQL statement, and what a transaction has written is felt by
others only as a lock. In-process shared state exists only in the error values
and in the metrics; the context of a request or of the worker, and the pool that
`main` closes at the end, reach into every statement.

The hazards of this code, each with its line, are listed in `PROJECT.json`; the
properties below are aimed at them.

## 2. Modules, and how they correspond to the code

| Module | What it is |
|---|---|
| `Intake` | abstract: a register per message, written at most once |
| `Ingest` | `IngestTelemetry` statement by statement, with device administration; implements `Intake` |
| `DeliveryLifecycle` | abstract: a delivery opens once, is tried at most `MaxAttempt` times, ends once |
| `Dispatch` | the worker and replay statement by statement; implements `DeliveryLifecycle` |
| `Backoff` | the delay after the n-th attempt |
| `Retries` | a delivery that fails again and again, and its delays, next to exact doubling |
| `RuleMatch` | the expression parser `matchExpr`, next to the grammar as a reference |
| `RuleOrder` | `Router.Match`: the filter and the sort |
| `RuleAdmin` | create, update, delete of rules, with the change log |
| `Pipeline` | `Ingest` and `Dispatch` over one database; implements `Dispatch` (`Ingest` by its form) |
| `Server` | the chain of handlers around every request, the worker's context, and the life of the process |
| `Checksum` | the CRC16 loop, next to polynomial division |
| `Histogram` | observing and rendering a histogram |
| `EventPages` | paging through the events while events are recorded, some of equal `ts` |
| `MCIngest`, `MCDispatch`, `MCPipeline`, `MCPure`, `MCRuleAdmin` | values for TLC; `MCPure` also grows the inputs of the pure algorithms |
| `IngestProofs`, `DispatchProofs`, `PipelineProofs`, `ServerProofs`, `RuleAdminProofs` | theorems and proofs about the state machines |
| `PureProofs`, `ExprProofs` | theorems and proofs about the pure algorithms; `ExprProofs` is about the expression parser |
| `DataLemmas` | what those two rest on: induction, recursion, and ranks in an order |

Operators that stand before a definition and resemble it (`InsertRawUpsert` before
`InsertRaw`, `ExhaustedLate` before `Exhausted`) are plausible mistakes in that
definition. No specification uses them; `PROJECT.json` ("mutants") says which
property each of them breaks when it takes the definition's place, so that every
property is known to be able to fail.

### Ingest

A *request* is one `POST /telemetry`; a client that retries is another request.
A *message* is what the dedup key identifies (device, ts, metric, value, unit).
`event_id` is the request that drew it: `newEventID` is taken not to repeat.

| Action | Code (`service.go`) |
|---|---|
| `RejectMessage`, `Receive` | `now := s.now()`, `ParseMessage` (107-113); which messages parse is a choice |
| `CheckDevice` | `GetDevice` and the checks of its status (115-124) |
| `FastPath` | `FindByDedupKey` on the pool, `WithinWindow`, `duplicateResult` (126-133) |
| `BeginTx` | BEGIN, the second `FindByDedupKey`, `CreateEvent` (135-159) |
| `InsertRaw` | waits for a transaction that inserted the same key; on a committed key, a unique violation (160-171) |
| `TouchSeen` | waits for the device row (172-174) |
| `Route` | `ListRules`, `Match`, a `CreateDelivery` per match (176-195) |
| `Commit` | COMMIT and the 201; either its acknowledgement or the answer may be lost |
| `Reread` | the `errDuplicate` path (204-209) |
| `Fail` | any statement fails or the context is cancelled: ROLLBACK, 500 |
| `RegisterDevice`, `SetDeviceStatus`, `Tick` | device administration; the clock |

The writes of a transaction are private until `Commit` publishes them together.
What others feel before that are the entry in the unique index on `dedup_key`
(`HoldsKey`) and the lock on the device row (`HoldsDevice`). Both are functions of
the program counter, because the code takes them at fixed places and gives them
back only at the end of the transaction. The foreign key checks of the inserts
lock the device and rule rows in a mode (`FOR KEY SHARE`) that does not conflict
with the updates of non-key columns in this code, so they are not modelled.

Which rules match is any subset of the rules: they are edited at any time between
two reports, and nothing here depends on which they are. `RuleMatch` says what
`Match` does.

### Dispatch

A row is `<<event, rule, copy>>`; ingestion creates the first copy of a rule, each
replay may create another.

| Action | Code |
|---|---|
| `Accept` | the commit of ingestion: the event and its rows |
| `ListDue` | `ListDueDeliveries` with its WHERE, ORDER BY and LIMIT (`worker.go` 122-128, `pg_delivery_retry.go` 18-33) |
| `DispatchOk`, `DispatchFail` | `dispatchOne` up to the answer of the sink (`worker.go` 136-164) |
| `MarkDelivered`, `MarkFailed`, `MarkDead` | the UPDATEs by id (`pg_delivery_retry.go`) and `handleFailure` |
| `AdvanceEvent` | `UpdateEventStatus` after a terminal mark |
| `WorkerFault` | a statement fails or the process stops: the rest of the pass is gone |
| `StartReplay`, `ListExisting`, `ReplayCreate`, `EndReplay` | `ReplayEvent`; `EndReplay` also stands for a failure that leaves the rows created so far |

`sent`, `acked` and `lost` are ghost variables: they count calls of the sink, and
are read by properties only. One worker runs, as `cmd/server` starts one; two
instances of the service on one database would break `PassReadsStayCurrent`, for
the rows are not claimed.

### RuleAdmin

`Request`, then `GetRule` (on the pool), `WriteRow` (BEGIN and the INSERT or UPDATE,
waiting for the row's lock), `CommitChange` (`AppendChange` and COMMIT), with `Fail`
at any point. `EntryOf` computes the change-log entry from the row that was *read*;
`Written` the row that results, column by column as the SQL statements set them.

### The pure algorithms

Each is a module with a small specification of its own, whose only step makes the
input larger: one more failed attempt (`Retries`), one more token (`RuleMatch`), rule
(`RuleOrder`), byte (`Checksum`) or observation (`Histogram`). So a statement about every
input is an invariant, checked up to a bound and proved without one. `EventPages` is
a state machine anyhow. `MCPure` puts them side by side for TLC: a behaviour is about
one of them.

`Delay` is the loop of `Worker.backoff`.

In `RuleMatch` an expression is a sequence of tokens: a comparison is one token, which
stands for what it comes to or for an error, so that what is modelled is the
recursive descent, the evaluation while parsing, and the check for text left over,
not numbers, globs and spelling. The three procedures call each other, and two have
a loop; all of it is one function, `Parser`, of what is called and what has been read
by then, and `Body` has the bodies in terms of the calls in them. `Grammar` gives, for
every segment of the text, the set of values it can have as an `expr`, an `andExpr` or
an `atom`, by the productions in the comment of `matchExpr`.

`Matches` in `RuleOrder` is the set of all sequences an unstable `sort.Slice` may
return; `matchExpr` is its parameter `Accepts`.

In `Checksum` a byte, the register and a polynomial over GF(2) are all sets of bits, so
that the exclusive or is the symmetric difference. `Absorb` is the body of the loop of
`ChecksumHex`, over 16 bits; the reference divides the body by x^16 + x^12 + x^5 + 1.
`Observe` and `Rendered` are the two halves of the histogram, and `BucketsAddUp` is what
Prometheus takes buckets for. `EventPages` walks the pages of `GET /events`, each a query
of its own, while events of any `ts` are recorded. An event is a record with a `ts`, which
is all that ORDER BY looks at: what OFFSET skips, and what LIMIT takes of the rest, is any
set that no event left out is younger than (`Heads`), chosen anew for each page. In this model
a walk does miss events; `MissesShowAsRepeats` says what a client may conclude from
what it was shown.

### Pipeline

The commit of an ingest transaction is one step of both parts: it publishes what
`Ingest` has written and enqueues what `Dispatch` works on, the event of the request
and a row per rule that `Route` matched, due at the time the request was received.
The clock is one. Every other step is one of one part and leaves the state of the
other alone: the code connects them by the tables `event` and `delivery_record` only,
and ingestion never looks at the status columns that the worker sets. So `Dispatch`
taken by itself, with an environment that may accept any event with any rows at any
time, is faithful; `ImplementsDispatch` says so.

### Server

| Action | Code |
|---|---|
| `Connect`, `CloseIdle` | a connection comes in at the open listener; `Shutdown` closes one without a request (`net/http`) |
| `Arrive` | a request on such a connection, which `Shutdown` may not have got to: `instrumentHandler` up to the handler, then `withRecovery`, `withLogging`, `wrapAuth` (`main.go` 144-147, `server.go` 66-102) |
| `Gate` | `auth.Middleware` with `Authenticate` and its audit insert (`auth.go` 54-70, 109-137) |
| `Begin` | `InTx` of a handler that writes: from here on the closing of the pool does not reach it (`pg_device_raw.go` 25-30) |
| `Succeed`, `FailInternally` | the rest of the handler and its service, in one step: a committed change with its log entry, or an error that is no domain error |
| `Raise` | a domain error; for invalid input, what `WithDetails` does to the shared value (`errors.go` 27-31) |
| `CheckStatus`, `MendStatus`, `SendError` | `writeError`: read the status, change it if it is 200, read status, code and details (`server.go` 114-128) |
| `Scrape` | the histogram, then the gauge: names in order, each under its own lock (`metrics.go` 129-190) |
| `CountOut` | the deferred calls: the gauge, then the histogram (`main.go` 148-151) |
| `Leave` | the client goes away: its context is cancelled |
| `BeginPass` ... `EndWorker` | `Worker.Run` and a pass, as far as context and pool matter: a read or write needs both, the sink needs neither |
| `Start` ... `Exit` | `run`, in the order of its statements and of its deferred calls |

The shared error values are the state that matters. Details only ever go into
`ErrInvalidField`; the value with status 200 is the `errDuplicate` of `service.go` 238,
which gets out when the row found in the transaction is not found again (a failing
lookup). Both races on them are data races in Go's terms; the model takes each read
and write of a word as a step. `audit`, `changes` and `reply` record what is kept or
sent, `unaudited` and `cutOff` are ghosts.

## 3. Runs

Expected to pass:

| Run | Shows |
|---|---|
| `ingest_safety` | three requests for two messages of one device, every statement able to fail: the three tables agree (`LedgerConsistent`), answers are true (`RepliesTruthful`), `last_seen_at` is the receipt time of a recorded report (`LastSeenIsReceipt`), transactions exclude each other per key and device (`TransactionsExclude`), a lost race loses no report (`NothingLost`), and the steps implement the write-once register (`ImplementsIntake`) |
| `ingest_live` | the waits for the index entry and the device row end: every parsed report is answered (`Answered`) |
| `dispatch_safety` | what a pass read stays true until it is done with it (`PassReadsStayCurrent`); every sink call is accounted for (`SinkCallsAccounted`); at least once, and twice only across a fault (`AtLeastOnce`); a terminal event has such a delivery (`EventStatusJustified`); one open row per rule when replays do not overlap (`OneOpenRow`); only due rows are offered (`CallsOnlyDue`); the life cycle (`ImplementsLifecycle`) |
| `dispatch_live` | every delivery ends, through LIMIT, backoff and a fault (`RowsEnd`), and, as long as nothing fails, its event leaves `created` (`EventSettles`) |
| `rules_safety` | four overlapping operations on a rule: the log accounts for the table (`LogExplainsTable`) and for the answers (`LogCountsAnswers`); what is deleted stays so (`DeletedStays`) |
| `pure` | backoff is capped doubling (`IsCappedDoubling`), the matcher follows its grammar (`MatcherFollowsGrammar`), the order of the topics is determined (`OneOrder`), the checksum is CRC16-CCITT (`ChecksumIsCrc`), the buckets of the histogram add up (`BucketsAddUp`), and a walk over the pages that misses an event which was there when it began shows another one of the same `ts` twice, so that one over events of different `ts` misses none (`MissesShowAsRepeats`) |
| `pipeline` | the queue is about recorded events only and has a row for every rule a client was told (`QueueMatchesLedger`); the sink is offered recorded events only, and such a row ends only after the sink took it or was called at least `MaxAttempt` times (`PromisesKept`); what ingestion commits is what `Dispatch` takes in (`ImplementsDispatch`); from a report to the end of its deliveries nothing gets stuck (`ReportsSettle`) |
| `server` | changes carry the operator of their key, and are audited unless the insert itself failed (`ChangesAttributed`); errors keep their status and code although all share one value (`ErrorsToldAsTheyAre`); no scrape counts a request twice (`ScrapeCountsOnce`); a stop loses at most one outcome of the sink (`StopLosesOneOutcome`); a process told to stop ends (`Stops`) |

Expected to find a violation, each of one sentence of the documents (section 6):
`ingest_race`, `dispatch_tworeplays`, `dispatch_lostadvance`, `server_details`.

## 4. Bounds, symmetry and fairness

*Ingest.* Three requests: one that holds the key, one that waits for it or for the
device row, one that comes after. Two messages of *one* device, so that requests
wait for each other in both ways; `MaxClock = 2` with `Window = 0` puts a repeat
inside and outside the window, and lets the clock of an older request be behind a
younger commit. Two rules tell "no", "some" and "all" matches apart.
`Faults = TRUE` lets any statement of any request fail.

*Dispatch.* Two rules with two copies: a pass of two rows, and a replay next to the
rows of ingestion. `MaxAttempt = 2` has a failure that is retried and one that is
not. `Horizon = 3` is past every retry time that matters, and time beyond it is
not told apart from it (`Later`). `MaxFaults = 1` places one fault anywhere.
`BatchSize` is 2 in `dispatch_safety` (a pass with a row behind the current one)
and 1 in `dispatch_live`, where two events compete for the LIMIT. `Replayer` is one
in the passing runs and two in `dispatch_tworeplays`. Replays stop when the copies are used up; without
that bound, replays without end would keep the table growing (the worker would
still reach each row, since older rows come first).

*RuleAdmin.* Four operations on one rule: the operations never look at another
rule, and the lock is on the row. One field with two values beside `enabled`.

*Pipeline.* Two requests for one message: one records it and the other meets it, at
any place; a row with two attempts; one replay; a fault of the worker and any
failure of a statement. Larger instances of the parts are those of their own runs;
this one is about the steps they share, and liveness over more than two requests
is beyond a run of minutes. There is one row, so none compete for LIMIT here;
`dispatch_live` is the run about that.

*Server.* Two requests: all that is shared between requests is a word each reads or
writes at a time, so that a pair shows every conflict, and a third would repeat it.
One operator, a wrong key, every kind of request and every failure; a process that
is stopped anywhere. `Auth` is on in `server` and off in `server_details`, which
has no failures either: the finding needs none. The proofs lift all of it to any
number of requests and operators.

*Pure.* Base delay and ceiling to 12, attempt to 6: every position of the ceiling
between two doublings. Expressions of 7 tokens over all tokens, which has a
parenthesised operand beside an operator of each kind. Three rules with two
priorities. Bodies of two bytes out of the extremes and the separators of the
protocol, so that the register has been shifted through once and starts again; four
observations at, between and beyond the bounds, which are small integers; five
events, three of them of one `ts`, on pages of two, so that ties lie on both sides of the end of a
page. The theorems of section 5 lift every one of these bounds.

*Symmetry* is used in safety runs only, and only for sets whose members the
specification does not tell apart.

*Deadlock* is checked wherever a step is always possible (ingest, dispatch: the
administrator or the worker can always act). `Pure` and the `RuleAdmin` runs end
when the inputs or the operations are used up, and the `Server` runs with the process;
they switch it off.

*Fairness.* `Ingest`: weak fairness of the next step of each request. A request is
a goroutine, and PostgreSQL wakes those that wait for a lock when it is released,
so a step that stays possible is taken. A waiter may be overtaken by another, but
only finitely often, since requests end. No step of a client, of the administrator
or of the clock is assumed. `Dispatch`: weak fairness of the worker's next step
(`Run` waits on a ticker that fires for ever, and a pass is a loop over a finite
list) and of the clock. Of the sink no answer is assumed, it may refuse for
ever; nothing is assumed of replays and faults. `Pipeline` assumes what its parts
do. `Server`: weak fairness of `main` from the signal on, whose goroutine never waits
for anything but `Shutdown`, which has a timer; so `Stops` holds with handlers that
hang and clients that never read.

## 5. Proofs

All theorems hold for every value of the constants that satisfies the named
assumptions (`IngestAssumption`, `DispatchAssumption`, `NoRowAssumption`,
`PipelineAssumption`, `ServerAssumption`, `RuleAdminAssumption`, `RetriesAssumption`,
`RuleOrderAssumption`, `ChecksumAssumption`, `HistogramAssumption`, `PagesAssumption`): any
number of requests, messages, devices, rules, rows, replays, faults and operators, any
batch size and any backoff table; any settings of the backoff, expressions, bodies,
observations and tables of any size, any bounds of a histogram that ascend and any size
of a page. (`Server` wants the set of requests to be finite, as it counts them.) The assumptions only give types to the bounds and say that the
"no value" constants are no values.

| Theorem | States |
|---|---|
| `IngestProofs!Invariance` | the inductive invariant |
| `IngestProofs!TypeCorrect`, `LedgerStaysConsistent`, `RepliesStayTruthful`, `RacesAreHarmless`, `TransactionsStayApart`, `LastSeenStaysReceipt` | the invariants of `ingest_safety` |
| `IngestProofs!Implements` | `Spec => ImplementsIntake` |
| `DispatchProofs!Invariance` | the inductive invariant |
| `DispatchProofs!TypeCorrect`, `ReadsStayCurrent`, `CallsStayAccounted`, `DeliveredAtLeastOnce`, `EventStatusStaysJustified` | the invariants of `dispatch_safety` |
| `DispatchProofs!OnlyDueCalled` | `Spec => CallsOnlyDue` |
| `DispatchProofs!NoneGivenUpEarly` | only rows of the table are offered, and a dead one was called for `MaxAttempt` times, lost outcomes not counted |
| `DispatchProofs!Implements` | `Spec => ImplementsLifecycle` |
| `DispatchProofs!OneOpenRowForOneReplay` | `OneOpenRow`, under the assumption that at most one replay runs |
| `PipelineProofs!KeepsDispatch` | `ImplementsDispatch`: the composition implements `Dispatch` |
| `PipelineProofs!QueueFollowsLedger` | `QueueMatchesLedger` |
| `PipelineProofs!DeliversAtLeastOnce`, `KeepsLifecycle` | `AtLeastOnce` and `ImplementsLifecycle` of `Dispatch`, for the composition |
| `PipelineProofs!KeepsRegister` | `ImplementsIntake` of `Ingest`, for the composition |
| `PipelineProofs!PromisesStayKept` | `PromisesKept` |
| `ServerProofs!Invariance` | the inductive invariant |
| `ServerProofs!TypeCorrect`, `ChangesStayAttributed`, `ErrorsStayTold`, `ScrapesCountOnce`, `StopIsCheap` | the invariants of `server` |
| `RuleAdminProofs!Invariance` | the inductive invariant |
| `RuleAdminProofs!TypeCorrect`, `LogStaysTrue`, `AnswersStayLogged`, `DeletedForGood` | all that `rules_safety` checks |
| `PureProofs!BackoffIsCappedDoubling` | `IsCappedDoubling`, for every base, ceiling and attempt |
| `PureProofs!WaitsGrow` | no attempt waits for less than the one before, none beyond the ceiling |
| `PureProofs!MatchIsDetermined`, `OrderIsOne` | a finite table with unique ids has one order, whatever the sort does with ties; `OneOrder` |
| `PureProofs!ChecksumIsRemainder` | `ChecksumIsCrc`, for bodies of any length |
| `PureProofs!HistogramAddsUp` | `BucketsAddUp`, for any ascending bounds and observations |
| `PureProofs!WalkTellsMisses` | `MissesShowAsRepeats`, for tables and pages of any size |
| `ExprProofs!MatcherIsExact` | `MatcherFollowsGrammar`, for expressions of any length and nesting |

*Ingest.* `LedgerConsistent` is not inductive: that `Commit` overwrites no entry of
`raw` follows from the key being held since `InsertRaw`, so the invariant also has
`TransactionsExclude`, and what a program counter says about the request's local
variables (a message from `Receive` on, no event before `Commit`, no answer before
the end). The refinement maps `Commit` to `Accept`, the duplicate answers to
`Repeat`, every other end of a request to `Refuse`, `Receive` to `Ask`, and the rest
to stutters.

*Dispatch.* The argument turns on `PassReadsStayCurrent`: the worker's updates by id
look at nothing, and are right only because nobody else touches a row that exists.
Its induction needs what the worker's counter says about `cur` and `batch`
(`WorkerInv`) and about the columns of a row in each status (`RowInv`: an open row has
a due time and fewer than `MaxAttempt` attempts, an absent one nothing). The
counting invariants follow with it, and the refinement maps each mark to one step
of the life cycle. For `OneOpenRow` the replay's list must stay fresh until its
inserts (`ReplayFresh`), which is where overlapping replays fail. `NoneGivenUpEarly` adds
what a row ends with (`EndInv`): `handleFailure` leaves the last attempt out of
`attempt_count`, so a dead row stands at `MaxAttempt` - 1, and with
`SinkCallsAccounted` this is one call per attempt and one per lost outcome.

*Pipeline.* Each step is a step of `Ingest`, or leaves its variables alone, by the
form of `PipelineNext`; nothing is claimed by that (`IngestKept` is a lemma). For `Dispatch` the one step to argue about is the commit: it is an `Accept`,
which asks that the event be new, that its rows be of this event, and due not later
than now. The invariant (`PInv`) carries that: an event is absent from the queue
exactly as long as it is not in the ledger, and a request's clock is not ahead.
With the refinement, what `IngestProofs` and `DispatchProofs` prove holds of the
composition (`DispatchHolds`), the implementations of `Intake` and
`DeliveryLifecycle` included. `PromisesStayKept` puts the two sides together: what a
client was told is in the queue (`QueueFollowsLedger`), and what is in the queue ends
as `DeliveredAtLeastOnce` and `NoneGivenUpEarly` say.

*Server.* The gauge and the count are counted off against the program counters
(`Counted`: the gauge is the number of requests on their way), which bounds what a
scrape saw, as requests that were counted only ever move on between its two reads. Whoever has
begun a transaction was audited, or its audit failed by itself, as a lost client or
pool would not have let it begin (`Admitted`). An error value can change
only from 200 to 500 and only for the one that starts with 200, so every read
after `CheckStatus` finds the status that is told. A worker's call is lost only
with the context cancelled, after which it can begin neither a pass nor a row.

*RuleAdmin.* What a transaction relies on is not the row it read, which may have
changed, but that rows do not vanish, that the row was not deleted when it was
read, and that nobody else holds its lock (`Ops`, `Exclusive`). Then a `create` is the
first entry of its rule and each entry the last when its row is written. For the
answers, the pairing of "ok" with entries is grown by one pair per commit
(`CommitCounts`).

*Data.* The library's induction theorems take an operator as a parameter, which the
provers cannot instantiate. `DataLemmas` gets induction from a statement about sets
instead: the finite subsets of a set are well-founded under inclusion, so a set of
numbers that is not empty has a least one (`LeastNumber`), so a set that has 0 and
with n also n + 1 has them all (`InductionOnNat`); to prove P(n), take the set of the n
with P(n). From it follow that a recursion on the numbers defines a function
(`Recursion`), and that any recursion does whose calls get smaller by a measure
(`MeasuredRecursion`). The latter is what makes statements about recursive definitions
provable: TLA+ takes `f[x] == ...` for *some* function that satisfies the equation, and says
nothing if there is none.

*Backoff.* The invariant is the type of `delay` and `IsCappedDoubling` itself: `DelayStep`
turns the loop into a step from one attempt to the next, and a delay that has been
cut off stays so. `PowerStep` and `PowerZero` get 2^n, which the provers do not know, by
counting subsets.

*Order.* With unique ids `Before` is a strict total order on the rules, in which the rank
of a rule is the number of those before it. The ranks are a bijection with 0 to n - 1, so
the rules by rank are a sequence that `Matches` has, and in any such sequence a rule is
at its rank.

*Checksum.* `ChecksumInv` says that the register has 16 bits and that body and register
differ by a multiple of the generator, with a quotient of 8 bits for each byte. One
bit of the loop takes a register r to r times x minus, if the bit shifted out is one,
the generator (`ShiftOutStep`, where the cut to 16 bits is exactly the x^16 that the
generator takes away); eight of them give `OneByte`; and the dividend of a longer body
is that of the shorter one times x^8, plus the byte (`DividendStep`, where the inverted
first bits move along).

*Histogram.* `HistogramInv` is `BucketsAddUp` with the types of the counters. With
ascending bounds a value has exactly one bucket (`OneBucket`), so an observation adds
one to what is rendered from this bucket on (`ObserveAddsOne`, by induction on the
bucket), which are the bounds the value is not above.

*Pages.* `WalkInv` looks at the events of one `ts` at a time (`Covered`): one of them was shown
twice, or all that were there at the start have been shown, or so many that, with the
younger ones, they account for all the places the walk has passed. A page that
shows none of them twice keeps this, whatever order it takes them in: it either shows
all that is left of them or is filled up with them and younger ones (`PageShowsTied`).
An event recorded meanwhile only adds to one side. A page that is not full leaves nothing
behind it, so at the end only the first two are left.

*Expressions.* A call of the parser makes calls that are lower in `Height`: three
times the number of tokens left, plus how many procedures may still be entered before
one is read. That a procedure which succeeds has read something is part of the
recursion (`Allowed`), as the loops go on from there. So `Parser` is what `Body` says
(`ParserIs`); the segments of the grammar get shorter likewise (`GrammarIs`). Then the
two are compared. What has a value is read with that value: an `andExpr` up to where
`parseAnd` is in its loop, an `expr` likewise if no `and` follows (`Complete`, by
induction on the length of the segment; without that condition it is false, as
"a or b" before "and c" is no operand). And what is read has the value: a loop that begins with
a value of the text before it ends with one of that and what it read (`Sound`, by
induction on the height). At the end of the text no keyword follows, so the matcher
answers for the whole; and as it is a function, no text has two values.

Only model-checked: liveness (`Answered`, `RowsEnd`, `EventSettles`, `ReportsSettle`,
`Stops`), as fairness is out of the prover's reach. Every invariant and every action
property of a passing run is the subject of a theorem.

## 6. Where the code and its documents differ

With a run that exhibits it:

| Run | Difference |
|---|---|
| `ingest_race` | the loser of two concurrent reports of one message is answered 500 (`service.go` 160: the unique violation is returned as it is), not as a duplicate (`README.md` 147). Nothing is lost: see `NothingLost` |
| `dispatch_tworeplays` | two overlapping replays create two open rows for one rule (`service/replay.go` 27-43 against 10-12) |
| `dispatch_lostadvance` | a fault between the mark of a row and that of its event leaves the event `created` for ever (`worker.go` 169; `PROJECT_SPEC.md` 101) |
| `server_details` | of two invalid requests at once, one is answered with the details of the other (`errors.go` 28: the details go into the one value that all requests share; 27) |

Met while modelling, too plain for a run:

* the device status is checked before the transaction (`service.go` 122), so a report
  may be recorded after the device was suspended (`PROJECT_SPEC.md` 26);
* `SetDeviceStatus` accepts any status from any other (`service.go` 91), so that
  `deleted` is not final;
* a base delay over a minute is not cut off for the first attempt (`worker.go` 187);
* overlapping updates of a rule log the same `before`, so the entries need not form
  a chain (`rules.go` 83);
* no statement ever stores the event status `routed` (`domain.go` 58);
* a failure of the second lookup after `errDuplicate` is answered with that internal
  error, a 500 (`service.go` 204-209; `Fail` in the place `reread`);
* of `telemetry_dispatch_total` only successes are counted (`main.go` 134-141), and
  its label `outcome` is never rendered;
* a message repeated after the dedup window is still a duplicate (`service.go` 151 and
  the unique index know no window; `PROJECT_SPEC.md` 31);
* the status of an event with two rules is that of whichever delivery ended last, and
  goes from `dispatched` to `dead_letter` or back (`worker.go` 178; `PROJECT_SPEC.md` 28);
* an update that read the rule before its deletion leaves the deleted row enabled
  (`pg_rule.go` 70; `PROJECT_SPEC.md` 29). It does not route again: routing reads
  undeleted rules only, and see `DeletedStays`;
* every error of the parser is answered `INVALID_FIELD` (`service.go` 109-113), while
  `PROJECT_SPEC.md` 34 lists `CHECKSUM_MISMATCH`, `UNKNOWN_METRIC` and `TS_OUT_OF_RANGE`;
* the result of an audit insert is dropped (`auth.go` 61-68), so a change may go
  through without its line in `api_key_audit` (`PROJECT_SPEC.md` 103); the change log
  still has the operator;
* the dedup key tells a value of `-0` from `0`;
* `EventPage` repeats the page and size it was asked for, not the ones used
  (`service/events.go` 45, `pg_event.go` 106-111);
* events of one `ts` have no order, and PostgreSQL may put them in another one for each
  page, so that a walk can miss an event that was there all the time and show another
  twice (`pg_event.go` 115; see `MissesShowAsRepeats`). With a status filter, events the
  worker moves on while a client pages shift the offset, so that a walk may miss others,
  and need not show any twice;
* the change log is shown by `changed_at` (`pg_rule.go` 138), which an operation takes before
  it waits for the row: of two overlapping ones the later to commit may be shown as the
  earlier. `LogExplainsTable` is about the order of the commits;
* a report that commits late puts `last_seen_at` back to the time it was received
  (`pg_device_raw.go` 152). No document excludes it; `LastSeenIsReceipt` allows it;
* the topics of a repeat are those of the rules at the moment (`service.go` 220-236), so they
  come in the order of the first answer (`OneOrder`) only while nobody edits the rules.

## 7. What is not modelled

* The parser's splitting and its checks of the fields: a sequence of tests on text
  with one verdict and one answer, which `Ingest` takes as a choice. Its checksum is
  modelled. A stop of the process is a `Fail` or a `WorkerFault` wherever it may
  strike, and `Server` has the stop itself.
* `withRecovery`: no panic was found that a handler could raise. A signal before
  `signal.Notify` simply kills the process. Reading the environment, and parsing the
  keys, are part of `Start` and `StartFails`.
* Queries other than the paging of events are single SELECTs, or several without
  a relation between them (`Stats`), and change nothing. Migration: its unique keys
  and references are in the actions; running it is not modelled, as it runs alone,
  before anything else. The frontend serves files.
* The sum of a histogram and the values of `telemetry_dispatch_total`: additions
  under a lock.
* `dispatchOne`'s branch for an event that does not exist: the foreign key rules it
  out, and no statement deletes an event.
* The best-effort reads of a duplicate answer (`duplicateResult`): its rules are those
  of the moment, so any set.

## 8. Plan

What is left, in this order. A larger `Pipeline`: a second message of another
device, to let deliveries of two events compete while both are still being reported
(the parts have it, the composition does not). Two instances of the service on one
database, where nobody claims the rows a pass has read: what then remains of
`PassReadsStayCurrent` and `AtLeastOnce`. The fields of the parser as sets of intervals
(the window of timestamps, the ranges of the metrics), with the points at their
ends. Theorems for these, as they come; the invariants that
runs check now are all proved.
