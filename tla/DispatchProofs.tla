--------------------------- MODULE DispatchProofs ---------------------------
(***************************************************************************)
(* Proofs about Dispatch, for any number of events, rules and replays, any *)
(* limits and backoff, and any number of faults.                           *)
(*                                                                         *)
(* The updates of the worker address a row by its id, so that everything   *)
(* rests on PassReadsStayCurrent: what a pass has read and not yet dealt   *)
(* with is what the table holds.  It is inductive next to WorkerInv (where *)
(* the worker is says what it has in its hands) because rows that exist    *)
(* are changed by the worker alone.  The accounts of the sink calls then   *)
(* follow one statement at a time.                                         *)
(***************************************************************************)
EXTENDS Dispatch, TLAPS

\* The worker has a row in its hands exactly between the sink call and the
\* last statement for the row; a pass reads each row once, when it is due.
WorkerInv == /\ wpc \in {"idle", "pass"} <=> cur = NoRow
             /\ wpc = "idle" => batch = {}
             /\ wpc \in Terminal => status[cur.row] = wpc
             /\ \A d, o \in batch : d.row = o.row => d = o
             /\ \A d \in batch : d.due <= clock

\* A row starts without an attempt and has one left while it is open.
RowInv == \A x \in Row :
              /\ status[x] = "absent" => attempts[x] = 0
              /\ status[x] \in Undispatched => attempts[x] < MaxAttempt

\* The sink has taken the current row, and the mark is not written.
Taken(x) == wpc = "delivered" /\ cur.row = x

\* The calls that returned nil and left no mark were lost, but for the one in
\* flight.
AckInv == \A x \in Row :
              /\ status[x] # "dispatched" =>
                     acked[x] <= lost[x] + (IF Taken(x) THEN 1 ELSE 0)
              /\ Taken(x) => acked[x] >= 1

Inv == /\ TypeOK
       /\ WorkerInv
       /\ PassReadsStayCurrent
       /\ RowInv
       /\ SinkCallsAccounted
       /\ AckInv
       /\ AtLeastOnce
       /\ EventStatusJustified

\* A replay works on an event that exists, and so does every row.
ReplayInv == /\ \A p \in Replayer : rpc[p] # "idle" =>
                    target[p] \in Event /\ eventStatus[target[p]] # "absent"
             /\ \A x \in Row : status[x] # "absent" => eventStatus[EventOf(x)] # "absent"

-----------------------------------------------------------------------------
(* The invariant, statement by statement.                                  *)

\* Nothing exists at the start and the worker is idle.
LEMMA InitInv == Init => Inv
  <1> USE DispatchAssumption
  <1> SUFFICES ASSUME Init PROVE Inv
    OBVIOUS
  <1>1. TypeOK
    BY DEF Init, TypeOK, NoTime
  <1>2. WorkerInv /\ RowInv
    BY DEF Init, WorkerInv, RowInv, Terminal, Undispatched
  <1>3. PassReadsStayCurrent /\ EventStatusJustified
    BY DEF Init, PassReadsStayCurrent, EventStatusJustified, Terminal
  <1>4. SinkCallsAccounted
    BY DEF Init, SinkCallsAccounted, InFlight
  <1>5. AckInv /\ AtLeastOnce
    BY DEF Init, AckInv, AtLeastOnce, Taken
  <1> QED
    BY <1>1, <1>2, <1>3, <1>4, <1>5 DEF Inv

\* Time passes, and a replay reads: the tables, the worker and the accounts
\* stay, and what was due still is.
LEMMA IdleInv ==
    ASSUME Inv, TypeOK', clock' >= clock, UNCHANGED <<table, worker, ghosts>>
    PROVE  Inv'
  <1> USE DEF Inv, table, worker, ghosts
  <1>1. WorkerInv'
    <2>1. \A d \in batch : d.due \in Int
      BY DEF TypeOK, Snapshot
    <2> QED
      BY <2>1 DEF WorkerInv, TypeOK
  <1>2. PassReadsStayCurrent' /\ RowInv' /\ EventStatusJustified'
    BY DEF PassReadsStayCurrent, RowInv, EventStatusJustified
  <1>3. SinkCallsAccounted' /\ AckInv' /\ AtLeastOnce'
    BY DEF SinkCallsAccounted, InFlight, AckInv, Taken, AtLeastOnce
  <1> QED
    BY <1>1, <1>2, <1>3

\* New rows are nobody's business yet: the worker has read none of them.
LEMMA CreateInv ==
    ASSUME Inv, TypeOK', NEW S \in SUBSET Row, NEW t \in 1..clock, CreateRows(S, t),
           UNCHANGED <<clock, worker, ghosts>>,
           \A e \in Event : eventStatus'[e] \in Terminal => eventStatus[e] = eventStatus'[e]
    PROVE  Inv'
  <1> USE DispatchAssumption DEF Inv, worker, ghosts
  <1>a. \A x \in Row : /\ attempts'[x] = attempts[x]
                       /\ x \in S => /\ status[x] = "absent"
                                     /\ status'[x] = "pending"
                       /\ x \notin S => status'[x] = status[x] /\ due'[x] = due[x]
    BY DEF CreateRows, TypeOK
  <1>b. \A x \in Row : status[x] # "absent" => status'[x] = status[x] /\ due'[x] = due[x]
    BY <1>a
  <1>c. wpc \notin {"idle", "pass"} => cur \in Snapshot /\ cur.row \in Row
    BY DEF WorkerInv, TypeOK, Snapshot
  <1>d. \A d \in batch : d.row \in Row
    BY DEF TypeOK, Snapshot
  <1>1. WorkerInv'
    BY <1>b, <1>c DEF WorkerInv, TypeOK, Terminal
  <1>2. PassReadsStayCurrent'
    BY <1>a, <1>b, <1>c, <1>d DEF PassReadsStayCurrent, Undispatched
  <1>3. RowInv'
    BY <1>a DEF RowInv, Undispatched
  <1>4. SinkCallsAccounted'
    BY <1>a DEF SinkCallsAccounted, InFlight
  <1>5. AckInv' /\ AtLeastOnce'
    BY <1>a DEF AckInv, AtLeastOnce, Taken
  <1>6. EventStatusJustified'
    BY <1>b DEF EventStatusJustified, Terminal
  <1> QED
    BY <1>1, <1>2, <1>3, <1>4, <1>5, <1>6

\* A pass reads the due rows.
LEMMA ListDueInv ==
    ASSUME Inv, ListDue
    PROVE  Inv'
  <1> USE DispatchAssumption DEF Inv, table, replays, ghosts, vars
  <1>a. PICK S \in Batches(clock) :
            batch' = {[row |-> x, attempts |-> attempts[x], due |-> due[x]] : x \in S}
    BY DEF ListDue
  <1>b. \A x \in S : x \in Row /\ IsDue(x, clock)
    BY DEF Batches
  <1>c. \A d \in batch' : /\ d \in Snapshot
                          /\ IsDue(d.row, clock)
                          /\ d.attempts = attempts[d.row]
                          /\ d.due = due[d.row]
    <2> SUFFICES ASSUME NEW x \in S
                 PROVE  [row |-> x, attempts |-> attempts[x], due |-> due[x]] \in Snapshot
      BY <1>a, <1>b
    <2>1. attempts[x] \in Nat /\ due[x] \in 0..Horizon
      BY <1>b DEF TypeOK, IsDue, NoTime
    <2> QED
      BY <1>b, <2>1 DEF Snapshot
  <1>d. \A d, o \in batch' : d.row = o.row => d = o
    BY <1>a
  <1>1. TypeOK'
    BY <1>c DEF ListDue, TypeOK
  <1>2. WorkerInv'
    BY <1>c, <1>d DEF ListDue, WorkerInv, Terminal, IsDue
  <1>3. PassReadsStayCurrent'
    BY <1>c DEF ListDue, PassReadsStayCurrent, WorkerInv, IsDue
  <1>4. RowInv' /\ EventStatusJustified'
    BY DEF ListDue, RowInv, EventStatusJustified
  <1>5. SinkCallsAccounted' /\ AckInv' /\ AtLeastOnce'
    BY DEF ListDue, SinkCallsAccounted, InFlight, AckInv, Taken, AtLeastOnce
  <1> QED
    BY <1>1, <1>2, <1>3, <1>4, <1>5

\* A pass ends.
LEMMA EndPassInv ==
    ASSUME Inv, EndPass
    PROVE  Inv'
  <1> USE DispatchAssumption DEF Inv, table, replays, ghosts
  <1>1. TypeOK'
    BY DEF EndPass, TypeOK
  <1>2. WorkerInv' /\ PassReadsStayCurrent'
    BY DEF EndPass, WorkerInv, PassReadsStayCurrent, Terminal
  <1>3. RowInv' /\ EventStatusJustified'
    BY DEF EndPass, RowInv, EventStatusJustified
  <1>4. SinkCallsAccounted' /\ AckInv' /\ AtLeastOnce'
    BY DEF EndPass, SinkCallsAccounted, InFlight, AckInv, Taken, AtLeastOnce
  <1> QED
    BY <1>1, <1>2, <1>3, <1>4

\* The sink is called for a row of the pass, which nobody has marked.
LEMMA SinkCallInv ==
    ASSUME Inv, NEW d \in batch, NEW answer \in {"delivered", "refused"},
           SinkCall(d, answer)
    PROVE  Inv'
  <1> USE DispatchAssumption, NoRowAssumption DEF Inv, table, replays
  <1>a. /\ wpc = "pass" /\ cur = NoRow
        /\ batch' = batch \ {d}
        /\ cur' = d
        /\ wpc' = answer
        /\ sent' = [sent EXCEPT ![d.row] = sent[d.row] + 1]
        /\ acked' = IF answer = "delivered"
                      THEN [acked EXCEPT ![d.row] = acked[d.row] + 1] ELSE acked
        /\ UNCHANGED <<clock, eventStatus, status, attempts, due, wnow,
                       rpc, target, todo, lost, faults>>
    BY DEF SinkCall, WorkerInv
  <1>b. d \in Snapshot /\ d.row \in Row /\ d # NoRow
    BY DEF TypeOK, Snapshot
  <1>c. status[d.row] \in Undispatched /\ attempts[d.row] = d.attempts
    BY DEF PassReadsStayCurrent
  <1>1. TypeOK'
    <2>1. sent' \in [Row -> Nat] /\ acked' \in [Row -> Nat]
      <3>1. /\ sent \in [Row -> Nat] /\ acked \in [Row -> Nat] /\ d.row \in Row
            /\ sent[d.row] + 1 \in Nat /\ acked[d.row] + 1 \in Nat
        BY <1>b DEF TypeOK
      <3> HIDE DEF Inv
      <3>2. sent' \in [Row -> Nat]
        BY <1>a, <3>1
      <3>3. acked' \in [Row -> Nat]
        BY <1>a, <3>1
      <3> QED
        BY <3>2, <3>3
    <2>2. batch' \in SUBSET Snapshot /\ cur' \in Snapshot \union {NoRow}
      BY <1>a, <1>b DEF TypeOK
    <2>3. wpc' \in {"idle", "pass", "delivered", "refused"} \union Terminal
      BY <1>a
    <2> QED
      BY <1>a, <2>1, <2>2, <2>3 DEF TypeOK
  <1>2. WorkerInv'
    BY <1>a, <1>b DEF WorkerInv, Terminal
  <1>3. PassReadsStayCurrent'
    <2>1. \A o \in batch' : o \in batch /\ o.row # d.row
      BY <1>a DEF WorkerInv
    <2> QED
      BY <1>a, <1>c, <2>1 DEF PassReadsStayCurrent
  <1>4. RowInv' /\ EventStatusJustified'
    BY <1>a DEF RowInv, EventStatusJustified
  <1>5. SinkCallsAccounted'
    <2> SUFFICES ASSUME NEW x \in Row
                 PROVE  sent'[x] = attempts[x] + lost[x]
                                   + (IF status[x] = "dead_letter" THEN 1 ELSE 0)
                                   + (IF d.row = x THEN 1 ELSE 0)
      BY <1>a DEF SinkCallsAccounted, InFlight
    <2>1. sent[x] = attempts[x] + lost[x] + (IF status[x] = "dead_letter" THEN 1 ELSE 0) + 0
      BY <1>a DEF SinkCallsAccounted, InFlight
    <2>2. sent'[x] = IF d.row = x THEN sent[x] + 1 ELSE sent[x]
      BY <1>a, <1>b DEF TypeOK
    <2>3. attempts[x] \in Nat /\ lost[x] \in Nat /\ sent[x] \in Nat
      BY DEF TypeOK
    <2> QED
      BY <2>1, <2>2, <2>3
  <1>6. AckInv' /\ AtLeastOnce'
    <2> SUFFICES ASSUME NEW x \in Row
                 PROVE  /\ status[x] # "dispatched" =>
                               acked'[x] <= lost[x] + (IF Taken(x)' THEN 1 ELSE 0)
                        /\ Taken(x)' => acked'[x] >= 1
                        /\ status[x] = "dispatched" => acked'[x] >= 1
                        /\ acked'[x] <= 1 + lost[x]
                        /\ status[x] = "dead_letter" => acked'[x] <= lost[x]
      BY <1>a DEF AckInv, AtLeastOnce
    <2>1. acked[x] \in Nat /\ lost[x] \in Nat
      BY DEF TypeOK
    <2>2. ~Taken(x) /\ (Taken(x)' <=> answer = "delivered" /\ d.row = x)
      BY <1>a DEF Taken
    <2>3. acked'[x] = IF answer = "delivered" /\ d.row = x THEN acked[x] + 1 ELSE acked[x]
      BY <1>a, <1>b DEF TypeOK
    <2>4. d.row = x => status[x] \notin {"dispatched", "dead_letter"}
      BY <1>c DEF Undispatched
    <2> QED
      BY <2>1, <2>2, <2>3, <2>4 DEF AckInv, AtLeastOnce
  <1> QED
    BY <1>1, <1>2, <1>3, <1>4, <1>5, <1>6

\* What the worker has in its hands when it marks a row: a row of the table
\* that is as it was read, and that the rest of the pass does not hold.
LEMMA Marked ==
    ASSUME Inv, wpc \in {"delivered", "refused"}
    PROVE  /\ cur \in Snapshot
           /\ cur # NoRow
           /\ cur.row \in Row
           /\ status[cur.row] \in Undispatched
           /\ attempts[cur.row] = cur.attempts
           /\ attempts[cur.row] \in Nat
           /\ attempts[cur.row] < MaxAttempt
           /\ \A d \in batch : d.row \in Row /\ d.row # cur.row
  <1>1. cur \in Snapshot /\ cur # NoRow
    BY DEF Inv, WorkerInv, TypeOK
  <1>2. cur.row \in Row /\ \A d \in batch : d.row \in Row
    BY <1>1 DEF Inv, TypeOK, Snapshot
  <1>3. status[cur.row] \in Undispatched /\ attempts[cur.row] = cur.attempts
    BY DEF Inv, PassReadsStayCurrent
  <1>4. attempts[cur.row] \in Nat /\ attempts[cur.row] < MaxAttempt
    BY <1>2, <1>3, DispatchAssumption DEF Inv, TypeOK, RowInv
  <1> QED
    BY <1>1, <1>2, <1>3, <1>4 DEF Inv, PassReadsStayCurrent

\* The parts of the invariant that a mark disturbs in the same way, whatever
\* it writes: only the current row changes, its event is not touched, and the
\* call in flight becomes an attempt or the last one of a dead row.
LEMMA MarkFrame ==
    ASSUME Inv, TypeOK', wpc \in {"delivered", "refused"},
           \A x \in Row : x # cur.row => /\ status'[x] = status[x]
                                         /\ attempts'[x] = attempts[x]
                                         /\ due'[x] = due[x],
           status'[cur.row] # "absent",
           status'[cur.row] \in Undispatched => attempts'[cur.row] < MaxAttempt,
           \/ wpc' = "pass" /\ cur' = NoRow
           \/ wpc' \in Terminal /\ status'[cur.row] = wpc' /\ UNCHANGED cur,
           attempts'[cur.row] = IF status'[cur.row] = "dead_letter"
                                  THEN attempts[cur.row] ELSE attempts[cur.row] + 1,
           UNCHANGED <<clock, eventStatus, batch, sent, lost>>
    PROVE  /\ WorkerInv'
           /\ PassReadsStayCurrent'
           /\ RowInv'
           /\ EventStatusJustified'
           /\ SinkCallsAccounted'
  <1> USE DEF Inv
  <1>a. /\ cur \in Snapshot /\ cur # NoRow /\ cur.row \in Row
        /\ status[cur.row] \in Undispatched
        /\ \A d \in batch : d.row \in Row /\ d.row # cur.row
    BY Marked
  <1>1. WorkerInv'
    BY <1>a DEF WorkerInv, Terminal
  <1>2. PassReadsStayCurrent'
    BY <1>a DEF PassReadsStayCurrent, Terminal
  <1>3. RowInv'
    BY <1>a DEF RowInv, Undispatched
  <1>4. EventStatusJustified'
    <2>1. \A x \in Row : status[x] \in Terminal => status'[x] = status[x]
      BY <1>a DEF Undispatched, Terminal
    <2> QED
      BY <2>1 DEF EventStatusJustified
  <1>5. SinkCallsAccounted'
    <2> SUFFICES ASSUME NEW x \in Row
                 PROVE  sent[x] = attempts'[x] + lost[x]
                                  + (IF status'[x] = "dead_letter" THEN 1 ELSE 0) + 0
      BY DEF SinkCallsAccounted, InFlight, Terminal
    <2>1. attempts[x] \in Nat /\ lost[x] \in Nat
      BY DEF TypeOK
    <2>2. sent[x] = attempts[x] + lost[x] + (IF status[x] = "dead_letter" THEN 1 ELSE 0)
                    + (IF cur.row = x THEN 1 ELSE 0)
      BY DEF SinkCallsAccounted, InFlight
    <2>3. CASE x = cur.row
      <3>1. status[x] # "dead_letter"
        BY <1>a, <2>3 DEF Undispatched
      <3> QED
        BY <2>1, <2>2, <2>3, <3>1
    <2>4. CASE x # cur.row
      BY <2>1, <2>2, <2>4
    <2> QED
      BY <2>3, <2>4
  <1> QED
    BY <1>1, <1>2, <1>3, <1>4, <1>5

\* The mark of a delivery: one attempt more, and the sink has taken it.
LEMMA MarkDeliveredInv ==
    ASSUME Inv, MarkDelivered
    PROVE  Inv'
  <1> USE DispatchAssumption DEF Inv, replays, ghosts
  <1> DEFINE c == cur.row
  <1>a. /\ wpc = "delivered"
        /\ wpc' = "dispatched"
        /\ status'   = [status EXCEPT ![c] = "dispatched"]
        /\ attempts' = [attempts EXCEPT ![c] = attempts[c] + 1]
        /\ due'      = [due EXCEPT ![c] = NoTime]
        /\ UNCHANGED <<clock, eventStatus, wnow, batch, cur, rpc, target, todo,
                       sent, acked, lost, faults>>
    BY DEF MarkDelivered
  <1>b. /\ c \in Row /\ status[c] \in Undispatched
        /\ attempts[c] \in Nat /\ attempts[c] < MaxAttempt
    BY <1>a, Marked
  <1>c. /\ status'[c] = "dispatched" /\ attempts'[c] = attempts[c] + 1
        /\ \A x \in Row : x # c => /\ status'[x] = status[x]
                                   /\ attempts'[x] = attempts[x]
                                   /\ due'[x] = due[x]
    BY <1>a, <1>b DEF TypeOK
  <1>1. TypeOK'
    <2>1. attempts[c] + 1 \in 0..MaxAttempt /\ NoTime \in 0..NoTime
      BY <1>b DEF NoTime
    <2>2. /\ status' \in [Row -> {"absent"} \union Undispatched \union Terminal]
          /\ attempts' \in [Row -> 0..MaxAttempt]
          /\ due' \in [Row -> 0..NoTime]
      BY <1>a, <1>b, <2>1 DEF TypeOK, Terminal
    <2> QED
      BY <1>a, <2>2 DEF TypeOK, Terminal
  <1>2. /\ WorkerInv' /\ PassReadsStayCurrent' /\ RowInv'
        /\ EventStatusJustified' /\ SinkCallsAccounted'
    BY <1>a, <1>c, <1>1, MarkFrame DEF Undispatched, Terminal
  <1>3. AckInv' /\ AtLeastOnce'
    <2>1. \A x \in Row : acked[x] \in Nat /\ lost[x] \in Nat
      BY DEF TypeOK
    <2>2. acked[c] >= 1 /\ acked[c] <= lost[c] + 1
      BY <1>a, <1>b, <2>1 DEF AckInv, Taken, Undispatched
    <2> QED
      BY <1>a, <1>b, <1>c, <2>1, <2>2 DEF AckInv, AtLeastOnce, Taken
  <1> QED
    BY <1>1, <1>2, <1>3

\* The mark of a failure writes the attempt that the pass counted, which is
\* one more than the table has.
LEMMA MarkFailedInv ==
    ASSUME Inv, MarkFailed
    PROVE  Inv'
  <1> USE DispatchAssumption DEF Inv, replays, ghosts
  <1> DEFINE c == cur.row
  <1>a. /\ wpc = "refused"
        /\ wpc' = "pass" /\ cur' = NoRow
        /\ ~Exhausted
        /\ status'   = [status EXCEPT ![c] = "failed"]
        /\ attempts' = [attempts EXCEPT ![c] = Attempt]
        /\ due'      = [due EXCEPT ![c] = Later(wnow, Backoff[Attempt])]
        /\ UNCHANGED <<clock, eventStatus, wnow, batch, rpc, target, todo,
                       sent, acked, lost, faults>>
    BY DEF MarkFailed
  <1>b. /\ c \in Row /\ status[c] \in Undispatched
        /\ attempts[c] \in Nat /\ attempts[c] < MaxAttempt
        /\ Attempt = attempts[c] + 1
    BY <1>a, Marked DEF Attempt
  <1>c. /\ status'[c] = "failed" /\ attempts'[c] = attempts[c] + 1
        /\ \A x \in Row : x # c => /\ status'[x] = status[x]
                                   /\ attempts'[x] = attempts[x]
                                   /\ due'[x] = due[x]
    BY <1>a, <1>b DEF TypeOK
  <1>d. Attempt \in 1..MaxAttempt /\ Attempt < MaxAttempt
    BY <1>a, <1>b DEF Exhausted
  <1>1. TypeOK'
    <2>1. Later(wnow, Backoff[Attempt]) \in 0..NoTime
      <3>1. wnow \in Nat /\ Backoff[Attempt] \in Nat
        BY <1>d DEF TypeOK
      <3> QED
        BY <3>1 DEF Later, NoTime
    <2>2. /\ status' \in [Row -> {"absent"} \union Undispatched \union Terminal]
          /\ attempts' \in [Row -> 0..MaxAttempt]
          /\ due' \in [Row -> 0..NoTime]
      BY <1>a, <1>b, <1>d, <2>1 DEF TypeOK, Undispatched
    <2> QED
      BY <1>a, <2>2 DEF TypeOK
  <1>2. /\ WorkerInv' /\ PassReadsStayCurrent' /\ RowInv'
        /\ EventStatusJustified' /\ SinkCallsAccounted'
    <2>1. attempts'[c] < MaxAttempt
      BY <1>b, <1>c, <1>d
    <2> QED
      BY <1>a, <1>c, <1>1, <2>1, MarkFrame
  <1>3. AckInv' /\ AtLeastOnce'
    <2>1. \A x \in Row : acked[x] \in Nat /\ lost[x] \in Nat
      BY DEF TypeOK
    <2>2. acked[c] <= lost[c]
      BY <1>a, <1>b, <2>1 DEF AckInv, Taken, Undispatched
    <2> QED
      BY <1>a, <1>b, <1>c, <2>1, <2>2 DEF AckInv, AtLeastOnce, Taken
  <1> QED
    BY <1>1, <1>2, <1>3

\* The mark of a dead letter leaves the attempts: its last is the one that
\* SinkCallsAccounted adds for a dead row.
LEMMA MarkDeadInv ==
    ASSUME Inv, MarkDead
    PROVE  Inv'
  <1> USE DispatchAssumption DEF Inv, replays, ghosts
  <1> DEFINE c == cur.row
  <1>a. /\ wpc = "refused"
        /\ wpc' = "dead_letter"
        /\ status' = [status EXCEPT ![c] = "dead_letter"]
        /\ due'    = [due EXCEPT ![c] = NoTime]
        /\ UNCHANGED <<clock, eventStatus, attempts, wnow, batch, cur, rpc, target, todo,
                       sent, acked, lost, faults>>
    BY DEF MarkDead
  <1>b. c \in Row /\ status[c] \in Undispatched
    BY <1>a, Marked
  <1>c. /\ status'[c] = "dead_letter"
        /\ \A x \in Row : x # c => status'[x] = status[x] /\ due'[x] = due[x]
    BY <1>a, <1>b DEF TypeOK
  <1>1. TypeOK'
    <2>1. /\ status' \in [Row -> {"absent"} \union Undispatched \union Terminal]
          /\ due' \in [Row -> 0..NoTime]
      BY <1>a, <1>b DEF TypeOK, Terminal, NoTime
    <2> QED
      BY <1>a, <2>1 DEF TypeOK, Terminal
  <1>2. /\ WorkerInv' /\ PassReadsStayCurrent' /\ RowInv'
        /\ EventStatusJustified' /\ SinkCallsAccounted'
    BY <1>a, <1>c, <1>1, MarkFrame DEF Undispatched, Terminal
  <1>3. AckInv' /\ AtLeastOnce'
    <2>1. \A x \in Row : acked[x] \in Nat /\ lost[x] \in Nat
      BY DEF TypeOK
    <2>2. acked[c] <= lost[c]
      BY <1>a, <1>b, <2>1 DEF AckInv, Taken, Undispatched
    <2> QED
      BY <1>a, <1>b, <1>c, <2>1, <2>2 DEF AckInv, AtLeastOnce, Taken
  <1> QED
    BY <1>1, <1>2, <1>3

\* The event takes the outcome of the row just marked, which justifies it.
LEMMA AdvanceEventInv ==
    ASSUME Inv, AdvanceEvent
    PROVE  Inv'
  <1> USE DispatchAssumption DEF Inv, replays, ghosts
  <1>a. /\ wpc \in Terminal
        /\ eventStatus' = [eventStatus EXCEPT ![EventOf(cur.row)] = wpc]
        /\ wpc' = "pass" /\ cur' = NoRow
        /\ UNCHANGED <<clock, status, attempts, due, wnow, batch, rpc, target, todo,
                       sent, acked, lost, faults>>
    BY DEF AdvanceEvent
  <1>b. cur.row \in Row /\ status[cur.row] = wpc /\ EventOf(cur.row) \in Event
    <2>1. cur \in Snapshot /\ status[cur.row] = wpc
      BY <1>a DEF WorkerInv, TypeOK, Terminal
    <2>2. cur.row \in Row
      BY <2>1 DEF Snapshot
    <2> QED
      BY <2>1, <2>2 DEF Row, EventOf
  <1>1. TypeOK'
    BY <1>a, <1>b DEF TypeOK
  <1>2. WorkerInv' /\ PassReadsStayCurrent'
    BY <1>a DEF WorkerInv, PassReadsStayCurrent, Terminal
  <1>3. RowInv'
    BY <1>a, <1>b DEF RowInv, TypeOK, Terminal
  <1>4. EventStatusJustified'
    <2>1. \A e \in Event : eventStatus'[e] = IF e = EventOf(cur.row) THEN wpc ELSE eventStatus[e]
      BY <1>a DEF TypeOK
    <2> QED
      BY <1>a, <1>b, <2>1 DEF EventStatusJustified
  <1>5. SinkCallsAccounted' /\ AckInv' /\ AtLeastOnce'
    BY <1>a DEF SinkCallsAccounted, InFlight, AckInv, Taken, AtLeastOnce, Terminal
  <1> QED
    BY <1>1, <1>2, <1>3, <1>4, <1>5

\* A fault drops the pass; a call that was in flight is lost.
LEMMA WorkerFaultInv ==
    ASSUME Inv, WorkerFault
    PROVE  Inv'
  <1> USE DispatchAssumption DEF Inv, table, replays
  <1> DEFINE flying == wpc \in {"delivered", "refused"}
  <1>a. /\ wpc' = "idle" /\ wnow' = 0 /\ batch' = {} /\ cur' = NoRow
        /\ lost' = IF flying THEN [lost EXCEPT ![cur.row] = lost[cur.row] + 1] ELSE lost
        /\ faults' = faults + 1 /\ faults < MaxFaults
        /\ UNCHANGED <<clock, eventStatus, status, attempts, due, rpc, target, todo,
                       sent, acked>>
    BY DEF WorkerFault
  <1>b. \A x \in Row : lost'[x] = IF flying /\ cur.row = x THEN lost[x] + 1 ELSE lost[x]
    BY <1>a, Marked DEF TypeOK
  <1>c. \A x \in Row : /\ sent[x] \in Nat /\ acked[x] \in Nat
                       /\ lost[x] \in Nat /\ attempts[x] \in Nat
    BY DEF TypeOK
  <1>1. TypeOK'
    <2>1. lost' \in [Row -> Nat]
      BY <1>a, Marked DEF TypeOK
    <2> QED
      BY <1>a, <2>1 DEF TypeOK
  <1>2. WorkerInv' /\ PassReadsStayCurrent'
    BY <1>a DEF WorkerInv, PassReadsStayCurrent, Terminal
  <1>3. RowInv' /\ EventStatusJustified'
    BY <1>a DEF RowInv, EventStatusJustified
  <1>4. SinkCallsAccounted'
    <2> SUFFICES ASSUME NEW x \in Row
                 PROVE  sent[x] = attempts[x] + lost'[x]
                                  + (IF status[x] = "dead_letter" THEN 1 ELSE 0) + 0
      BY <1>a DEF SinkCallsAccounted, InFlight
    <2> DEFINE dead == IF status[x] = "dead_letter" THEN 1 ELSE 0
    <2> DEFINE inFlight == IF flying /\ cur.row = x THEN 1 ELSE 0
    <2>1. dead \in Nat /\ inFlight \in Nat
      OBVIOUS
    <2>2. sent[x] = attempts[x] + lost[x] + dead + inFlight
      BY DEF SinkCallsAccounted, InFlight
    <2>3. lost'[x] = lost[x] + inFlight
      BY <1>b, <1>c
    <2> HIDE DEF dead, inFlight
    <2>4. sent[x] = attempts[x] + lost'[x] + dead + 0
      BY <1>c, <2>1, <2>2, <2>3
    <2> QED
      BY <2>4 DEF dead
  <1>5. AckInv' /\ AtLeastOnce'
    <2>1. flying => status[cur.row] \notin {"dispatched", "dead_letter"}
      BY Marked DEF Undispatched
    <2>2. \A x \in Row : Taken(x) => flying /\ cur.row = x
      BY DEF Taken
    <2>3. \A x \in Row : lost[x] <= lost'[x]
      BY <1>b, <1>c
    <2>4. \A x \in Row : status[x] # "dispatched" => acked[x] <= lost'[x]
      BY <1>b, <1>c, <2>2 DEF AckInv
    <2> QED
      BY <1>a, <1>c, <2>3, <2>4, <1>b DEF AckInv, Taken, AtLeastOnce
  <1> QED
    BY <1>1, <1>2, <1>3, <1>4, <1>5

\* An event is recorded with its rows.
LEMMA AcceptInv ==
    ASSUME Inv, NEW e \in Event, Accept(e)
    PROVE  Inv'
  <1> USE DispatchAssumption DEF Inv
  <1>a. PICK matched \in SUBSET Rule, first \in Copy, t \in 1..clock :
            CreateRows({e} \X matched \X {first}, t)
    BY DEF Accept
  <1> DEFINE S == {e} \X matched \X {first}
  <1>b. S \in SUBSET Row
    BY <1>a DEF Row
  <1>c. \A f \in Event : eventStatus'[f] = IF f = e THEN "created" ELSE eventStatus[f]
    BY DEF Accept, TypeOK
  <1>1. TypeOK'
    <2>1. t \in 0..NoTime
      BY DEF TypeOK, NoTime
    <2>2. status' \in [Row -> {"absent"} \union Undispatched \union Terminal]
      BY <1>a DEF CreateRows, TypeOK, Undispatched
    <2>3. due' \in [Row -> 0..NoTime]
      BY <1>a, <2>1 DEF CreateRows, TypeOK
    <2>4. eventStatus' \in [Event -> {"absent", "created"} \union Terminal]
      BY DEF Accept, TypeOK
    <2> QED
      BY <1>a, <2>2, <2>3, <2>4 DEF Accept, CreateRows, TypeOK, worker, replays, ghosts
  <1> QED
    BY <1>a, <1>b, <1>c, <1>1, CreateInv DEF Accept, Terminal

\* A replay creates one row for the event it replays.
LEMMA ReplayCreateInv ==
    ASSUME Inv, NEW p \in Replayer, ReplayCreate(p), target[p] \in Event
    PROVE  Inv'
  <1> USE DispatchAssumption DEF Inv
  <1>a. PICK r \in todo[p], c \in Copy, t \in 1..clock :
            /\ CreateRows({<<target[p], r, c>>}, t)
            /\ todo' = [todo EXCEPT ![p] = todo[p] \ {r}]
    BY DEF ReplayCreate
  <1>b. {<<target[p], r, c>>} \in SUBSET Row
    BY DEF TypeOK, Row
  <1>1. TypeOK'
    <2>1. t \in 0..NoTime
      BY DEF TypeOK, NoTime
    <2>2. status' \in [Row -> {"absent"} \union Undispatched \union Terminal]
      BY <1>a DEF CreateRows, TypeOK, Undispatched
    <2>3. due' \in [Row -> 0..NoTime]
      BY <1>a, <2>1 DEF CreateRows, TypeOK
    <2>4. todo' \in [Replayer -> SUBSET Rule]
      BY <1>a DEF TypeOK
    <2> QED
      BY <1>a, <2>2, <2>3, <2>4 DEF ReplayCreate, CreateRows, TypeOK, worker, ghosts
  <1> QED
    BY <1>a, <1>b, <1>1, CreateInv DEF ReplayCreate

\* Every step keeps the invariant.
LEMMA NextInv ==
    ASSUME Inv, ReplayInv, [Next]_vars
    PROVE  Inv'
  <1> USE DispatchAssumption
  <1>1. ASSUME NEW e \in Event, Accept(e)
        PROVE  Inv'
    BY <1>1, AcceptInv
  <1>2. CASE ListDue
    BY <1>2, ListDueInv
  <1>3. CASE EndPass
    BY <1>3, EndPassInv
  <1>4. CASE DispatchOk
    BY <1>4, SinkCallInv DEF DispatchOk
  <1>5. CASE DispatchFail
    BY <1>5, SinkCallInv DEF DispatchFail
  <1>6. CASE MarkDelivered
    BY <1>6, MarkDeliveredInv
  <1>7. CASE MarkFailed
    BY <1>7, MarkFailedInv
  <1>8. CASE MarkDead
    BY <1>8, MarkDeadInv
  <1>9. CASE AdvanceEvent
    BY <1>9, AdvanceEventInv
  <1>10. CASE WorkerFault
    BY <1>10, WorkerFaultInv
  <1>11. ASSUME NEW p \in Replayer, NEW e \in Event, StartReplay(p, e)
         PROVE  Inv'
    <2>1. TypeOK'
      BY <1>11 DEF Inv, TypeOK, StartReplay, table, worker, ghosts
    <2>2. clock' >= clock
      BY <1>11 DEF Inv, TypeOK, StartReplay
    <2> QED
      BY <1>11, <2>1, <2>2, IdleInv DEF StartReplay
  <1>12. ASSUME NEW p \in Replayer, ListExisting(p) \/ EndReplay(p)
         PROVE  Inv'
    <2>1. TypeOK'
      BY <1>12 DEF Inv, TypeOK, ListExisting, EndReplay, table, worker, ghosts
    <2>2. clock' >= clock
      BY <1>12 DEF Inv, TypeOK, ListExisting, EndReplay
    <2> QED
      BY <1>12, <2>1, <2>2, IdleInv DEF ListExisting, EndReplay
  <1>13. ASSUME NEW p \in Replayer, ReplayCreate(p)
         PROVE  Inv'
    BY <1>13, ReplayCreateInv DEF ReplayInv, ReplayCreate
  <1>14. CASE Tick
    <2>1. TypeOK' /\ clock' >= clock
      BY <1>14 DEF Inv, TypeOK, Tick, table, worker, replays, ghosts
    <2> QED
      BY <1>14, <2>1, IdleInv DEF Tick
  <1>15. CASE UNCHANGED vars
    <2>1. TypeOK' /\ clock' >= clock
      BY <1>15 DEF Inv, TypeOK, vars, table, worker, replays, ghosts
    <2> QED
      BY <1>15, <2>1, IdleInv DEF vars
  <1> QED
    BY <1>1, <1>2, <1>3, <1>4, <1>5, <1>6, <1>7, <1>8, <1>9, <1>10, <1>11, <1>12,
       <1>13, <1>14, <1>15
    DEF Next, WorkerStep

\* Events and rows are created and never removed.
LEMMA NothingVanishes ==
    ASSUME TypeOK, WorkerInv, [Next]_vars
    PROVE  /\ \A e \in Event : eventStatus[e] # "absent" => eventStatus'[e] # "absent"
           /\ \A x \in Row : status[x] # "absent" => status'[x] # "absent"
  <1>1. ASSUME NEW S \in SUBSET Row, NEW t, CreateRows(S, t)
        PROVE  \A x \in Row : status[x] # "absent" => status'[x] # "absent"
    BY <1>1 DEF CreateRows
  <1>2. ASSUME NEW e \in Event, Accept(e)
        PROVE  /\ \A f \in Event : eventStatus[f] # "absent" => eventStatus'[f] # "absent"
               /\ \A x \in Row : status[x] # "absent" => status'[x] # "absent"
    <2>1. PICK matched \in SUBSET Rule, first \in Copy, t \in 1..clock :
              CreateRows({e} \X matched \X {first}, t)
      BY <1>2 DEF Accept
    <2>2. {e} \X matched \X {first} \in SUBSET Row
      BY DEF Row
    <2> QED
      BY <1>1, <1>2, <2>1, <2>2 DEF Accept, TypeOK
  <1>3. ASSUME NEW p \in Replayer, ReplayCreate(p)
        PROVE  /\ UNCHANGED eventStatus
               /\ \A x \in Row : status[x] # "absent" => status'[x] # "absent"
    BY <1>3 DEF ReplayCreate, CreateRows
  <1>4. CASE MarkDelivered \/ MarkFailed \/ MarkDead
    BY <1>4 DEF MarkDelivered, MarkFailed, MarkDead, TypeOK
  <1>5. CASE AdvanceEvent
    BY <1>5 DEF AdvanceEvent, TypeOK, Terminal
  <1>6. CASE UNCHANGED table
    BY <1>6 DEF table
  <1> QED
    BY <1>2, <1>3, <1>4, <1>5, <1>6
    DEF Next, WorkerStep, ListDue, EndPass, DispatchOk, DispatchFail, SinkCall,
        WorkerFault, StartReplay, ListExisting, EndReplay, Tick, vars

\* A new row belongs to an event that exists: the one that is accepted with
\* it, or the one that is replayed.
LEMMA ReplayNext ==
    ASSUME Inv, ReplayInv, [Next]_vars
    PROVE  ReplayInv'
  <1>t. TypeOK /\ WorkerInv
    BY DEF Inv
  <1>a. /\ \A e \in Event : eventStatus[e] # "absent" => eventStatus'[e] # "absent"
        /\ \A x \in Row : EventOf(x) \in Event
    BY <1>t, NothingVanishes DEF Row, EventOf
  <1>1. ASSUME \A x \in Row : status[x] = "absent" => status'[x] = "absent",
               UNCHANGED <<rpc, target>>
        PROVE  ReplayInv'
    BY <1>1, <1>a DEF ReplayInv
  <1>2. ASSUME NEW e \in Event, Accept(e)
        PROVE  ReplayInv'
    <2>1. PICK matched \in SUBSET Rule, first \in Copy, t \in 1..clock :
              CreateRows({e} \X matched \X {first}, t)
      BY <1>2 DEF Accept
    <2>2. \A x \in {e} \X matched \X {first} : EventOf(x) = e
      BY DEF EventOf
    <2>3. eventStatus'[e] # "absent"
      BY <1>t, <1>2 DEF Accept, TypeOK
    <2>4. \A x \in Row : status'[x] # "absent" => status[x] # "absent" \/ EventOf(x) = e
      BY <2>1, <2>2 DEF CreateRows
    <2> QED
      BY <1>2, <1>a, <2>3, <2>4 DEF ReplayInv, Accept, replays
  <1>3. ASSUME NEW p \in Replayer, ReplayCreate(p)
        PROVE  ReplayInv'
    <2>1. PICK r \in todo[p], c \in Copy, t \in 1..clock : CreateRows({<<target[p], r, c>>}, t)
      BY <1>3 DEF ReplayCreate
    <2>2. \A x \in Row : status'[x] # "absent" => status[x] # "absent" \/ EventOf(x) = target[p]
      BY <2>1 DEF CreateRows, EventOf
    <2> QED
      BY <1>3, <1>a, <2>2 DEF ReplayInv, ReplayCreate
  <1>4. ASSUME NEW p \in Replayer, NEW e \in Event, StartReplay(p, e)
        PROVE  ReplayInv'
    BY <1>t, <1>4, <1>a DEF StartReplay, ReplayInv, TypeOK, table
  <1>5. ASSUME NEW p \in Replayer, ListExisting(p) \/ EndReplay(p)
        PROVE  ReplayInv'
    BY <1>t, <1>5, <1>a DEF ListExisting, EndReplay, ReplayInv, TypeOK, table
  <1>6. CASE MarkDelivered \/ MarkFailed \/ MarkDead
    <2>1. cur.row \in Row /\ status[cur.row] # "absent"
      BY <1>6, Marked DEF MarkDelivered, MarkFailed, MarkDead, Undispatched
    <2> QED
      BY <1>t, <1>1, <1>6, <2>1 DEF MarkDelivered, MarkFailed, MarkDead, TypeOK, replays
  <1>7. CASE UNCHANGED <<status, replays>>
    BY <1>1, <1>7 DEF replays
  <1> QED
    BY <1>2, <1>3, <1>4, <1>5, <1>6, <1>7
    DEF Next, WorkerStep, ListDue, EndPass, DispatchOk, DispatchFail, SinkCall,
        WorkerFault, AdvanceEvent, Tick, vars, table, replays

-----------------------------------------------------------------------------
(* The theorems.                                                           *)

\* The invariant holds in every state that is reached.
THEOREM Invariance == Spec => [](Inv /\ ReplayInv)
  <1>1. Init => Inv /\ ReplayInv
    BY InitInv DEF Init, ReplayInv
  <1>2. Inv /\ ReplayInv /\ [Next]_vars => Inv' /\ ReplayInv'
    BY NextInv, ReplayNext
  <1> QED
    BY <1>1, <1>2, PTL DEF Spec

\* The variables keep their types: attempts never exceed the maximum.
THEOREM TypeCorrect == Spec => []TypeOK
  <1>1. Inv => TypeOK
    BY DEF Inv
  <1> QED
    BY <1>1, Invariance, PTL

\* The updates by id overwrite nothing that the pass has not seen.
THEOREM ReadsStayCurrent == Spec => []PassReadsStayCurrent
  <1>1. Inv => PassReadsStayCurrent
    BY DEF Inv
  <1> QED
    BY <1>1, Invariance, PTL

\* Every call of the sink is an attempt, a last one, a lost one or in flight.
THEOREM CallsStayAccounted == Spec => []SinkCallsAccounted
  <1>1. Inv => SinkCallsAccounted
    BY DEF Inv
  <1> QED
    BY <1>1, Invariance, PTL

\* A row is taken by the sink before it is dispatched, and again only after a
\* lost mark.
THEOREM DeliveredAtLeastOnce == Spec => []AtLeastOnce
  <1>1. Inv => AtLeastOnce
    BY DEF Inv
  <1> QED
    BY <1>1, Invariance, PTL

\* The status of an event is the outcome of one of its rows.
THEOREM EventStatusStaysJustified == Spec => []EventStatusJustified
  <1>1. Inv => EventStatusJustified
    BY DEF Inv
  <1> QED
    BY <1>1, Invariance, PTL

\* The sink is called for open rows that are due, and for no other.
THEOREM OnlyDueCalled == Spec => CallsOnlyDue
  <1> DEFINE A == \A x \in Row : sent'[x] # sent[x] =>
                      status[x] \in Undispatched /\ due[x] <= clock
  <1>1. Inv /\ [Next]_vars => [A]_vars
    <2> SUFFICES ASSUME Inv, [Next]_vars, NEW x \in Row, sent'[x] # sent[x]
                 PROVE  status[x] \in Undispatched /\ due[x] <= clock
      OBVIOUS
    <2>1. PICK d \in batch : sent' = [sent EXCEPT ![d.row] = sent[d.row] + 1]
      <3>1. \/ DispatchOk \/ DispatchFail
            \/ UNCHANGED sent
        BY DEF Next, WorkerStep, Accept, ListDue, EndPass, MarkDelivered, MarkFailed,
           MarkDead, AdvanceEvent, WorkerFault, StartReplay, ListExisting,
           ReplayCreate, EndReplay, Tick, vars, ghosts
      <3> QED
        BY <3>1 DEF DispatchOk, DispatchFail, SinkCall
    <2>2. d.row = x
      BY <2>1 DEF Inv, TypeOK
    <2> QED
      BY <2>2 DEF Inv, PassReadsStayCurrent, WorkerInv
  <1> QED
    BY <1>1, Invariance, PTL DEF Spec, CallsOnlyDue

-----------------------------------------------------------------------------
(* How a row ends.                                                         *)

\* A row that is not there has not been offered, and a dead one has but its
\* last attempt left out of attempts.
EndInv == \A x \in Row :
              /\ status[x] = "absent" => sent[x] = 0
              /\ status[x] = "dead_letter" => attempts[x] = MaxAttempt - 1

LEMMA EndNext ==
    ASSUME Inv, EndInv, [Next]_vars
    PROVE  EndInv'
  <1>t. /\ status \in [Row -> {"absent"} \union Undispatched \union Terminal]
        /\ attempts \in [Row -> 0..MaxAttempt] /\ sent \in [Row -> Nat]
    BY DEF Inv, TypeOK
  <1>1. ASSUME NEW S, NEW t, CreateRows(S, t), UNCHANGED sent
        PROVE  EndInv'
    BY <1>1, <1>t DEF CreateRows, EndInv
  <1>2. ASSUME NEW d \in batch, NEW answer, SinkCall(d, answer)
        PROVE  EndInv'
    <2>1. status[d.row] # "absent"
      BY DEF Inv, PassReadsStayCurrent, Undispatched
    <2> QED
      BY <1>2, <1>t, <2>1 DEF SinkCall, table, EndInv
  <1>3. CASE MarkDelivered \/ MarkFailed
    <2>1. \A x \in Row : /\ status'[x] = "absent" => status[x] = "absent"
                         /\ status'[x] = "dead_letter" =>
                                status[x] = "dead_letter" /\ attempts'[x] = attempts[x]
      BY <1>3, <1>t DEF MarkDelivered, MarkFailed
    <2> QED
      BY <1>3, <2>1 DEF MarkDelivered, MarkFailed, ghosts, EndInv
  <1>4. CASE MarkDead
    <2>1. cur.row \in Row /\ status[cur.row] \in Undispatched /\ attempts[cur.row] = cur.attempts
      BY <1>4, Marked DEF MarkDead
    <2>2. attempts[cur.row] = MaxAttempt - 1
      <3>1. attempts[cur.row] < MaxAttempt
        BY <2>1 DEF Inv, RowInv
      <3>2. attempts[cur.row] + 1 >= MaxAttempt
        BY <1>4, <2>1 DEF MarkDead, Exhausted, Attempt
      <3>3. attempts[cur.row] \in Nat /\ MaxAttempt \in Nat
        BY <1>t, <2>1, DispatchAssumption
      <3> QED
        BY <3>1, <3>2, <3>3
    <2> QED
      BY <1>4, <1>t, <2>2 DEF MarkDead, ghosts, EndInv
  <1>5. CASE UNCHANGED <<status, attempts, sent>>
    BY <1>5 DEF EndInv
  <1>6. ASSUME NEW e \in Event, Accept(e)
        PROVE  EndInv'
    BY <1>1, <1>6 DEF Accept, ghosts
  <1>7. ASSUME NEW p \in Replayer, ReplayCreate(p)
        PROVE  EndInv'
    BY <1>1, <1>7 DEF ReplayCreate, ghosts
  <1> QED
    BY <1>2, <1>3, <1>4, <1>5, <1>6, <1>7
    DEF Next, WorkerStep, ListDue, EndPass, DispatchOk, DispatchFail, AdvanceEvent,
        WorkerFault, StartReplay, ListExisting, EndReplay, Tick, vars, table, ghosts

\* The sink is offered the rows of the table and no other, and none is given up
\* before it has refused or lost all the attempts there are.
NoneGivenUp == \A x \in Row :
                   /\ sent[x] > 0 => status[x] # "absent"
                   /\ status[x] = "dead_letter" => sent[x] = MaxAttempt + lost[x]

\* handleFailure gives a delivery up with its last attempt and not before, next
\* to any number of replays and faults.
THEOREM NoneGivenUpEarly == Spec => []NoneGivenUp
  <1>1. Init => EndInv
    BY DEF Init, EndInv
  <1>2. Inv /\ EndInv => NoneGivenUp
    <2> SUFFICES ASSUME Inv, EndInv, NEW x \in Row
                 PROVE  /\ sent[x] > 0 => status[x] # "absent"
                        /\ status[x] = "dead_letter" => sent[x] = MaxAttempt + lost[x]
      BY DEF NoneGivenUp
    <2>1. sent[x] > 0 => status[x] # "absent"
      BY DEF EndInv
    <2>2. ASSUME status[x] = "dead_letter" PROVE sent[x] = MaxAttempt + lost[x]
      <3>1. ~InFlight(x)
        BY <2>2 DEF InFlight, Inv, PassReadsStayCurrent, Undispatched
      <3>2. sent[x] = attempts[x] + lost[x] + 1 + 0
        BY <2>2, <3>1 DEF Inv, SinkCallsAccounted
      <3>3. attempts[x] = MaxAttempt - 1 /\ lost[x] \in Nat /\ MaxAttempt \in Nat
        BY <2>2, DispatchAssumption DEF EndInv, Inv, TypeOK
      <3> QED
        BY <3>2, <3>3
    <2> QED
      BY <2>1, <2>2
  <1> QED
    BY <1>1, <1>2, EndNext, Invariance, PTL DEF Spec

-----------------------------------------------------------------------------
(* The refinement of the life cycle of a delivery.                         *)

\* The stage of every row, as DeliveryLifecycle sees it.
Stages == [x \in Row |-> Stage(x)]

\* A change of some statuses, seen as a change of stages.
LEMMA StageOf ==
    ASSUME NEW x \in Row
    PROVE  /\ Stages[x] = Stage(x)
           /\ Stages'[x] = Stage(x)'
           /\ status[x] \in Undispatched => Stage(x) = "open"
           /\ status[x] \notin Undispatched => Stage(x) = status[x]
  BY DEF Stages, Stage

\* Rows that are created open together.
LEMMA RefinesOpen ==
    ASSUME TypeOK, NEW S \in SUBSET Row, NEW t, CreateRows(S, t)
    PROVE  Lifecycle!Next
  <1>1. \A x \in S : Stages[x] = "absent"
    BY DEF CreateRows, Stages, Stage, Undispatched
  <1>2. Stages' = [x \in Row |-> IF x \in S THEN "open" ELSE Stages[x]]
    BY DEF CreateRows, Stages, Stage, Undispatched
  <1>3. Lifecycle!Open(S)
    BY <1>1, <1>2 DEF Lifecycle!Open, Stages, CreateRows
  <1> QED
    BY <1>3 DEF Lifecycle!Next

\* A mark is what the life cycle allows: the attempt it writes is the next of
\* the row, and a row is buried exactly at the last.
LEMMA RefinesMark ==
    ASSUME Inv, MarkDelivered \/ MarkFailed \/ MarkDead
    PROVE  Lifecycle!Next
  <1> USE DispatchAssumption
  <1> DEFINE c == cur.row
  <1>a. /\ c \in Row /\ status[c] \in Undispatched
        /\ attempts[c] = cur.attempts
        /\ attempts[c] \in Nat /\ attempts[c] < MaxAttempt
    BY Marked DEF MarkDelivered, MarkFailed, MarkDead
  <1>b. Stages[c] = "open" /\ status \in [Row -> {"absent"} \union Undispatched \union Terminal]
    BY <1>a DEF Stages, Stage, Inv, TypeOK
  <1>1. CASE MarkDelivered
    <2>1. Stages' = [Stages EXCEPT ![c] = "dispatched"]
      BY <1>1, <1>a, <1>b DEF MarkDelivered, Stages, Stage, Undispatched
    <2>2. Lifecycle!Deliver(c)
      BY <1>1, <1>b, <2>1 DEF Lifecycle!Deliver, Stages, MarkDelivered
    <2> QED
      BY <1>a, <2>2 DEF Lifecycle!Next
  <1>2. CASE MarkFailed
    <2>1. Stages' = Stages
      BY <1>2, <1>a, <1>b DEF MarkFailed, Stages, Stage, Undispatched
    <2>2. attempts[c] + 1 < MaxAttempt /\ attempts' = [attempts EXCEPT ![c] = attempts[c] + 1]
      BY <1>2, <1>a DEF MarkFailed, Exhausted, Attempt
    <2>3. Lifecycle!Retry(c)
      BY <1>b, <2>1, <2>2 DEF Lifecycle!Retry, Stages
    <2> QED
      BY <1>a, <2>3 DEF Lifecycle!Next
  <1>3. CASE MarkDead
    <2>1. Stages' = [Stages EXCEPT ![c] = "dead_letter"]
      BY <1>3, <1>a, <1>b DEF MarkDead, Stages, Stage, Undispatched
    <2>2. attempts[c] + 1 = MaxAttempt
      BY <1>3, <1>a DEF MarkDead, Exhausted, Attempt
    <2>3. Lifecycle!Bury(c)
      BY <1>3, <1>b, <2>1, <2>2 DEF Lifecycle!Bury, Stages, MarkDead
    <2> QED
      BY <1>a, <2>3 DEF Lifecycle!Next
  <1> QED
    BY <1>1, <1>2, <1>3

\* Every step is a step of the life cycle or leaves it as it is.
LEMMA RefinesNext ==
    ASSUME Inv, ReplayInv, [Next]_vars
    PROVE  [Lifecycle!Next]_(Lifecycle!vars)
  <1>t. TypeOK
    BY DEF Inv
  <1>1. ASSUME NEW e \in Event, Accept(e)
        PROVE  Lifecycle!Next
    <2>1. PICK matched \in SUBSET Rule, first \in Copy, t \in 1..clock :
              CreateRows({e} \X matched \X {first}, t)
      BY <1>1 DEF Accept
    <2>2. {e} \X matched \X {first} \in SUBSET Row
      BY DEF Row
    <2> QED
      BY <1>t, <2>1, <2>2, RefinesOpen
  <1>2. ASSUME NEW p \in Replayer, ReplayCreate(p)
        PROVE  Lifecycle!Next
    <2>1. PICK r \in todo[p], c \in Copy, t \in 1..clock : CreateRows({<<target[p], r, c>>}, t)
      BY <1>2 DEF ReplayCreate
    <2>2. {<<target[p], r, c>>} \in SUBSET Row
      BY <1>t, <1>2 DEF ReplayInv, ReplayCreate, TypeOK, Row
    <2> QED
      BY <1>t, <2>1, <2>2, RefinesOpen
  <1>3. CASE MarkDelivered \/ MarkFailed \/ MarkDead
    BY <1>3, RefinesMark
  <1>4. CASE UNCHANGED <<status, attempts>>
    BY <1>4 DEF Lifecycle!vars, Stage
  <1> QED
    BY <1>1, <1>2, <1>3, <1>4
    DEF Next, WorkerStep, ListDue, EndPass, DispatchOk, DispatchFail, SinkCall,
        AdvanceEvent, WorkerFault, StartReplay, ListExisting, EndReplay, Tick, vars, table

\* The worker, the replays and the faults implement the life cycle of a
\* delivery: it opens once, counts one attempt at a time and ends once.
THEOREM Implements == Spec => ImplementsLifecycle
  <1>1. Init => Lifecycle!Init
    BY DEF Init, Lifecycle!Init, Stage, Undispatched
  <1>2. Inv /\ ReplayInv /\ [Next]_vars => [Lifecycle!Next]_(Lifecycle!vars)
    BY RefinesNext
  <1> QED
    BY <1>1, <1>2, Invariance, PTL DEF Spec, ImplementsLifecycle, Lifecycle!Spec

-----------------------------------------------------------------------------
(* One open row per event and rule, when replays do not overlap.           *)

\* A replay that is about to create rows still finds none open for its rules.
ReplayFresh == \A p \in Replayer : rpc[p] = "create" =>
                   \A r \in todo[p] : ~Open(target[p], r)

\* Rows only close, but for those that are created.
LEMMA OpenShrinks ==
    ASSUME Inv, ReplayInv, [Next]_vars,
           ~ \E e \in Event : Accept(e), ~ \E p \in Replayer : ReplayCreate(p)
    PROVE  \A x \in Row : status'[x] \in Undispatched => status[x] \in Undispatched
  <1>1. CASE MarkDelivered \/ MarkFailed \/ MarkDead
    <2>1. cur.row \in Row /\ status[cur.row] \in Undispatched
      BY <1>1, Marked DEF MarkDelivered, MarkFailed, MarkDead
    <2> QED
      BY <1>1, <2>1 DEF MarkDelivered, MarkFailed, MarkDead, Inv, TypeOK
  <1>2. CASE UNCHANGED status
    BY <1>2
  <1> QED
    BY <1>1, <1>2
    DEF Next, WorkerStep, ListDue, EndPass, DispatchOk, DispatchFail, SinkCall,
        AdvanceEvent, WorkerFault, StartReplay, ListExisting, EndReplay, Tick, vars, table

\* An event is accepted when it has no row; a replay creates a row where it
\* found none; and no other replay comes in between.
LEMMA OneOpenNext ==
    ASSUME \A p, q \in Replayer : p = q,
           Inv, ReplayInv, OneOpenRow, ReplayFresh, [Next]_vars
    PROVE  OneOpenRow' /\ ReplayFresh'
  <1>t. TypeOK
    BY DEF Inv
  <1>1. ASSUME NEW e \in Event, Accept(e)
        PROVE  OneOpenRow' /\ ReplayFresh'
    <2>1. PICK matched \in SUBSET Rule, first \in Copy, t \in 1..clock :
              CreateRows({e} \X matched \X {first}, t)
      BY <1>1 DEF Accept
    <2> DEFINE S == {e} \X matched \X {first}
    <2>2. \A x \in Row : status'[x] \in Undispatched =>
              (status[x] \in Undispatched /\ EventOf(x) # e) \/ x \in S
      BY <1>1, <2>1 DEF Accept, CreateRows, ReplayInv, Undispatched
    <2>3. \A x \in S : EventOf(x) = e
      BY DEF EventOf
    <2>4. \A x, y \in S : RuleOf(x) = RuleOf(y) => x = y
      BY DEF RuleOf
    <2>5. OneOpenRow'
      BY <2>2, <2>3, <2>4 DEF OneOpenRow
    <2>6. \A p \in Replayer : rpc[p] = "create" => target[p] # e
      BY <1>1 DEF Accept, ReplayInv
    <2>7. ReplayFresh'
      BY <1>1, <2>2, <2>3, <2>6 DEF Accept, ReplayFresh, Open, replays
    <2> QED
      BY <2>5, <2>7
  <1>2. ASSUME NEW p \in Replayer, ReplayCreate(p)
        PROVE  OneOpenRow' /\ ReplayFresh'
    <2>1. PICK r \in todo[p], c \in Copy, t \in 1..clock :
              /\ CreateRows({<<target[p], r, c>>}, t)
              /\ todo' = [todo EXCEPT ![p] = todo[p] \ {r}]
      BY <1>2 DEF ReplayCreate
    <2> DEFINE new == <<target[p], r, c>>
    <2>2. EventOf(new) = target[p] /\ RuleOf(new) = r
      BY DEF EventOf, RuleOf
    <2>3. \A x \in Row : status'[x] \in Undispatched => status[x] \in Undispatched \/ x = new
      BY <2>1 DEF CreateRows
    <2>4. ~Open(target[p], r)
      BY <1>2, <2>1 DEF ReplayCreate, ReplayFresh
    <2>5. OneOpenRow'
      BY <2>2, <2>3, <2>4 DEF OneOpenRow, Open
    <2>6. todo'[p] = todo[p] \ {r}
      BY <1>t, <2>1 DEF TypeOK
    <2>7. ReplayFresh'
      BY <1>2, <2>2, <2>3, <2>6 DEF ReplayCreate, ReplayFresh, Open
    <2> QED
      BY <2>5, <2>7
  <1>3. ASSUME ~ \E e \in Event : Accept(e), ~ \E p \in Replayer : ReplayCreate(p)
        PROVE  OneOpenRow' /\ ReplayFresh'
    <2>1. \A x \in Row : status'[x] \in Undispatched => status[x] \in Undispatched
      BY <1>3, OpenShrinks
    <2>2. OneOpenRow'
      BY <2>1 DEF OneOpenRow
    <2>3. ASSUME NEW p \in Replayer, NEW e \in Event, StartReplay(p, e)
          PROVE  ReplayFresh'
      BY <1>t, <2>3 DEF StartReplay, ReplayFresh, TypeOK
    <2>4. ASSUME NEW p \in Replayer, ListExisting(p)
          PROVE  ReplayFresh'
      BY <1>t, <2>4 DEF ListExisting, ReplayFresh, Open, TypeOK, table
    <2>5. ASSUME NEW p \in Replayer, EndReplay(p)
          PROVE  ReplayFresh'
      BY <1>t, <2>5 DEF EndReplay, ReplayFresh, TypeOK
    <2>6. ASSUME UNCHANGED replays
          PROVE  ReplayFresh'
      BY <2>1, <2>6 DEF ReplayFresh, Open, replays
    <2>7. ReplayFresh'
      BY <1>3, <2>3, <2>4, <2>5, <2>6
      DEF Next, WorkerStep, ListDue, EndPass, DispatchOk, DispatchFail, SinkCall,
          MarkDelivered, MarkFailed, MarkDead, AdvanceEvent, WorkerFault, Tick, vars
    <2> QED
      BY <2>2, <2>7
  <1> QED
    BY <1>1, <1>2, <1>3

\* With one replay at a time an event has at most one open row for a rule:
\* what the code's list before its inserts is there for.
THEOREM OneOpenRowForOneReplay ==
    ASSUME \A p, q \in Replayer : p = q
    PROVE  Spec => []OneOpenRow
  <1>1. Init => OneOpenRow /\ ReplayFresh
    BY DEF Init, OneOpenRow, ReplayFresh, Undispatched
  <1>2. Inv /\ ReplayInv /\ OneOpenRow /\ ReplayFresh /\ [Next]_vars
            => OneOpenRow' /\ ReplayFresh'
    BY OneOpenNext
  <1> QED
    BY <1>1, <1>2, Invariance, PTL DEF Spec
=============================================================================
