---------------------------- MODULE ServerProofs ----------------------------
(***************************************************************************)
(* Proofs about Server, for any finite number of requests and any number   *)
(* of operators, with and without keys and failures.                       *)
(*                                                                         *)
(* The metrics are the sizes of two disjoint sets of requests (Counted);   *)
(* an error on its way to the client has the status that the code of its   *)
(* answer stands for, or is being mended (OnTheWay); whoever is past the   *)
(* gate is in the audit, or lost its database before it could be           *)
(* (Admitted); and a worker whose outcome was cut off never starts another *)
(* pass (Stopped).  Their conjunction with the safety properties is Inv.   *)
(***************************************************************************)
EXTENDS Server, FiniteSetTheorems, TLAPS

Flight == {q \in Request : InFlight(q)}
Gone   == {q \in Request : pc[q] = "gone"}

Counted == gauge = Cardinality(Flight) /\ count = Cardinality(Gone)

\* Errors from their cause to the answer.
OnTheWay ==
    /\ \A e \in Shared : \/ status[e] = FirstStatus[e]
                         \/ e = "DUPLICATE_MESSAGE" /\ status[e] = 500
    /\ \A e \in Shared : details[e] # None => e = "INVALID_FIELD"
    /\ \A r \in Request :
          /\ pc[r] \in {"away", "connected", "gate", "handler", "tx",
                        "duration", "in_flight"} =>
                 raised[r] = None /\ reply[r] = NoReply
          /\ pc[r] \in {"check", "mend", "send"} =>
                 raised[r] \in Shared /\ reply[r] = NoReply
          /\ pc[r] = "mend" => raised[r] = "DUPLICATE_MESSAGE"
          /\ pc[r] = "send" => status[raised[r]] # 200
          /\ raised[r] = "INVALID_FIELD" => details["INVALID_FIELD"] # None

Entry(r) == [req |-> r, action |-> "authenticated", operator |-> operator[r]]

\* Requests on their way to a change.
Admitted ==
    /\ \A r \in Request :
          /\ pc[r] = "gate" => Auth
          /\ ~Auth => operator[r] = "system"
          /\ Auth /\ pc[r] = "handler" /\ kind[r] # "read" =>
                 /\ operator[r] = key[r]
                 /\ Entry(r) \in audit \/ r \in unaudited \/ ~CanQuery(r)
          /\ Auth /\ pc[r] = "tx" =>
                 /\ operator[r] = key[r]
                 /\ Entry(r) \in audit \/ r \in unaudited
          /\ pc[r] = "tx" => kind[r] = "write"
    /\ \A c \in changes : Arrived(c.req)

\* Scrapes until they answer.
Scraping ==
    \A r \in Request :
        /\ kind[r] = "scrape" =>
               pc[r] \in {"duration", "in_flight", "leave", "observe", "gone"}
        /\ pc[r] = "in_flight" => seen[r].count <= count

\* The order in which main takes things away.
Stopped ==
    /\ pool = "closed" => phase \in {"closed", "exited"}
    /\ cutOff > 0 => cutOff = 1 /\ Cancelled /\ job \in {"off", "idle"}

Inv == /\ TypeOK
       /\ Counted
       /\ OnTheWay
       /\ Admitted
       /\ Scraping
       /\ Stopped
       /\ ChangesAttributed
       /\ ErrorsToldAsTheyAre
       /\ ScrapeCountsOnce

-----------------------------------------------------------------------------
(* What the steps of the worker and of main leave alone.                   *)

Elsewhere == Worker \/ Start \/ StartFails \/ ListenerFails \/ Signal \/ Main

LEMMA ElsewhereFrame ==
    Elsewhere => UNCHANGED <<pc, context, records, errors, raised, reply, metrics>>
  BY DEF Elsewhere, Worker, BeginPass, ReadEvent, CallSink, WriteOutcome, EndPass,
         LoseOutcome, EndWorker, Work, Start, StartFails, ListenerFails, Signal, Main,
         Shutdown, Drained, TimedOut, ClosePool, Exit, Return, To, rest

-----------------------------------------------------------------------------
(* The metrics.                                                            *)

LEMMA FlightFinite == IsFiniteSet(Flight) /\ IsFiniteSet(Gone) /\ IsFiniteSet(Request)
  BY ServerAssumption, FS_Subset DEF Flight, Gone

\* The in-flight and the finished requests are different ones.
LEMMA FlightAndGone ==
    /\ Cardinality(Flight) \in 0..Cardinality(Request)
    /\ Cardinality(Gone) \in 0..Cardinality(Request)
    /\ Cardinality(Gone) + Cardinality(Flight) <= Cardinality({q \in Request : Arrived(q)})
    /\ Cardinality({q \in Request : Arrived(q)}) \in Nat
  <1> DEFINE Here == {q \in Request : Arrived(q)}
  <1>1. /\ IsFiniteSet(Here) /\ Cardinality(Here) \in Nat
        /\ Cardinality(Flight) \in Nat /\ Cardinality(Gone) \in Nat
        /\ Cardinality(Request) \in Nat
    BY FlightFinite, FS_Subset, FS_CardinalityType
  <1>2. /\ Cardinality(Flight) <= Cardinality(Request)
        /\ Cardinality(Gone) <= Cardinality(Request)
    BY FlightFinite, FS_Subset DEF Flight, Gone
  <1>3. Gone \cap Flight = {}
    BY DEF Gone, Flight, InFlight, Arrived
  <1>4. Cardinality(Gone \cup Flight) = Cardinality(Gone) + Cardinality(Flight)
    <2>1. Cardinality(Gone \cup Flight) =
              Cardinality(Gone) + Cardinality(Flight) - Cardinality(Gone \cap Flight)
      BY FlightFinite, FS_Union
    <2>2. Cardinality(Gone \cap Flight) = 0
      BY <1>3, FS_EmptySet
    <2> QED
      BY <1>1, <2>1, <2>2
  <1>5. Gone \cup Flight \in SUBSET Here
    BY DEF Gone, Flight, InFlight, Arrived
  <1>6. Cardinality(Gone \cup Flight) <= Cardinality(Here)
    BY <1>1, <1>5, FS_Subset
  <1> QED
    BY <1>1, <1>2, <1>4, <1>6

\* A request goes from one place to another without passing a counter.
LEMMA CountSame ==
    ASSUME TypeOK, Counted, NEW r \in Request, NEW place, Goto(r, place),
           InFlight(r) <=> place \notin {"away", "connected", "observe", "gone"},
           pc[r] = "gone" <=> place = "gone",
           UNCHANGED <<gauge, count>>
    PROVE  Counted'
  <1>1. pc \in [Request -> Place]
    BY DEF TypeOK
  <1>2. Flight' = Flight
    BY <1>1 DEF Flight, InFlight, Arrived, Goto
  <1>3. Gone' = Gone
    BY <1>1 DEF Gone, Goto
  <1> QED
    BY <1>2, <1>3 DEF Counted

LEMMA CountedNext ==
    ASSUME Inv, [Next]_vars
    PROVE  Counted'
  <1>t. TypeOK /\ Counted /\ pc \in [Request -> Place]
    BY DEF Inv, TypeOK
  <1>1. ASSUME NEW r \in Request, NEW k \in Kind, NEW presented \in Operator \union {NoKey},
               Arrive(r, k, presented)
        PROVE  Counted'
    <2>1. Route(k) \in {"duration", "gate", "handler"}
      BY DEF Route
    <2>2. Flight' = Flight \cup {r} /\ r \notin Flight
      BY <1>1, <1>t, <2>1 DEF Arrive, Goto, Flight, InFlight, Arrived
    <2>3. Gone' = Gone
      BY <1>1, <1>t, <2>1 DEF Arrive, Goto, Gone
    <2>4. Cardinality(Flight') = Cardinality(Flight) + 1
      BY <2>2, FlightFinite, FS_AddElement
    <2> QED
      BY <1>1, <1>t, <2>3, <2>4 DEF Counted, Arrive, metrics
  <1>2. ASSUME NEW r \in Request, CountOut(r), pc[r] = "leave"
        PROVE  Counted'
    <2>1. Flight' = Flight \ {r} /\ r \in Flight
      BY <1>2, <1>t DEF CountOut, Goto, Flight, InFlight, Arrived
    <2>2. Gone' = Gone
      BY <1>2, <1>t DEF CountOut, Goto, Gone
    <2>3. Cardinality(Flight') = Cardinality(Flight) - 1
      BY <2>1, FlightFinite, FS_RemoveElement
    <2> QED
      BY <1>2, <1>t, <2>2, <2>3 DEF Counted, CountOut
  <1>3. ASSUME NEW r \in Request, CountOut(r), pc[r] = "observe"
        PROVE  Counted'
    <2>1. Flight' = Flight
      BY <1>3, <1>t DEF CountOut, Goto, Flight, InFlight, Arrived
    <2>2. Gone' = Gone \cup {r} /\ r \notin Gone
      BY <1>3, <1>t DEF CountOut, Goto, Gone
    <2>3. Cardinality(Gone') = Cardinality(Gone) + 1
      BY <2>2, FlightFinite, FS_AddElement
    <2> QED
      BY <1>3, <1>t, <2>1, <2>3 DEF Counted, CountOut
  <1>4. ASSUME NEW r \in Request,
               \/ Gate(r) \/ Begin(r) \/ Succeed(r) \/ FailInternally(r)
               \/ \E e \in Shared : Raise(r, e)
               \/ CheckStatus(r) \/ MendStatus(r) \/ SendError(r) \/ Scrape(r)
        PROVE  Counted'
    <2>1. PICK place \in {"handler", "tx", "check", "mend", "send", "in_flight", "leave"} :
             Goto(r, place)
      BY <1>4 DEF Gate, Begin, Succeed, FailInternally, Raise, CheckStatus, MendStatus,
                  SendError, Scrape
    <2>2. /\ pc[r] \notin {"away", "connected", "observe", "gone"}
          /\ UNCHANGED <<gauge, count>>
      BY <1>4 DEF Gate, Begin, Succeed, FailInternally, Raise, CheckStatus, MendStatus,
                  SendError, Scrape, metrics
    <2> QED
      BY <1>t, <2>1, <2>2, CountSame DEF InFlight, Arrived
  <1>5. ASSUME UNCHANGED <<pc, gauge, count>>
        PROVE  Counted'
    BY <1>5, <1>t DEF Counted, Flight, Gone, InFlight, Arrived
  <1>6. CASE Elsewhere \/ UNCHANGED vars \/ \E r \in Request : Leave(r)
    BY <1>5, <1>6, ElsewhereFrame DEF vars, metrics, Leave
  <1>7. ASSUME NEW r \in Request, Connect(r) \/ CloseIdle(r)
        PROVE  Counted'
    <2>1. PICK place \in {"away", "connected"} : Goto(r, place)
      BY <1>7 DEF Connect, CloseIdle
    <2>2. pc[r] \in {"away", "connected"} /\ UNCHANGED <<gauge, count>>
      BY <1>7 DEF Connect, CloseIdle, metrics
    <2> QED
      BY <1>t, <2>1, <2>2, CountSame DEF InFlight, Arrived
  <1> QED
    BY <1>1, <1>2, <1>3, <1>4, <1>6, <1>7 DEF Next, Handle, Elsewhere, CountOut

-----------------------------------------------------------------------------
(* Types.                                                                  *)

\* The types of what most steps change.
LEMMA StepTypes ==
    ASSUME TypeOK, NEW r \in Request
    PROVE  /\ \A place \in Place : Goto(r, place) => pc' \in [Request -> Place]
           /\ \A rep \in Reply : Say(r, rep) => reply' \in [Request -> Reply]
           /\ \A s \in {200, 401, 500} : Plain(s) \in Reply
  <1>1. ASSUME NEW place \in Place, Goto(r, place)
        PROVE  pc' \in [Request -> Place]
    BY <1>1 DEF TypeOK, Goto
  <1>2. ASSUME NEW rep \in Reply, Say(r, rep)
        PROVE  reply' \in [Request -> Reply]
    BY <1>2 DEF TypeOK, Say
  <1>3. \A s \in {200, 401, 500} : Plain(s) \in Reply
    BY DEF Plain, Reply
  <1> QED
    BY <1>1, <1>2, <1>3

\* Whatever becomes of an audit entry.
LEMMA AuditTypes ==
    ASSUME TypeOK, NEW r \in Request, NEW entry \in AuditEntry, Audit(r, entry)
    PROVE  audit' \in SUBSET AuditEntry /\ unaudited' \in SUBSET Request
  BY DEF TypeOK, Audit

LEMMA TallyNext ==
    ASSUME Inv, [Next]_vars
    PROVE  gauge' \in Tally /\ count' \in Tally
  <1>1. Counted'
    BY CountedNext
  <1>2. Flight' \in SUBSET Request /\ Gone' \in SUBSET Request
    BY DEF Flight, Gone
  <1>3. /\ Cardinality(Flight') \in Nat /\ Cardinality(Flight') <= Cardinality(Request)
        /\ Cardinality(Gone') \in Nat /\ Cardinality(Gone') <= Cardinality(Request)
        /\ Cardinality(Request) \in Nat
    BY <1>2, FlightFinite, FS_Subset, FS_CardinalityType
  <1> QED
    BY <1>1, <1>3 DEF Counted, Tally

LEMMA TypeNext ==
    ASSUME Inv, [Next]_vars
    PROVE  TypeOK'
  <1>t. TypeOK
    BY DEF Inv
  <1>c. gauge' \in Tally /\ count' \in Tally
    BY TallyNext
  <1>p. Place = {"away", "connected", "gate", "handler", "tx", "check", "mend", "send",
                 "duration", "in_flight", "leave", "observe", "gone"}
    BY DEF Place
  <1> USE <1>t, <1>c, StepTypes
  <1> USE DEF process, context, records, errors, metrics
  <1>1. ASSUME NEW r \in Request, NEW k \in Kind, NEW presented \in Operator \union {NoKey},
               Arrive(r, k, presented)
        PROVE  TypeOK'
    <2>1. Route(k) \in Place
      BY <1>p DEF Route
    <2>2. pc' \in [Request -> Place]
      BY <1>1, <2>1 DEF Arrive
    <2> QED
      BY <1>1, <2>2 DEF Arrive, TypeOK
  <1>2. ASSUME NEW r \in Request, Leave(r)
        PROVE  TypeOK'
    BY <1>2 DEF Leave, TypeOK
  <1>3. ASSUME NEW r \in Request, Gate(r), key[r] \in Operator
        PROVE  TypeOK'
    <2>1. [req |-> r, action |-> "authenticated", operator |-> key[r]] \in AuditEntry
      BY <1>3 DEF AuditEntry
    <2>2. audit' \in SUBSET AuditEntry /\ unaudited' \in SUBSET Request
      BY <1>3, <2>1, AuditTypes DEF Gate
    <2>3. pc' \in [Request -> Place] /\ reply' = reply
      BY <1>3, <1>p DEF Gate
    <2>4. operator' \in [Request -> Operator \union {"system"}]
      BY <1>3 DEF Gate, TypeOK
    <2> QED
      BY <1>3, <2>2, <2>3, <2>4 DEF Gate, TypeOK
  <1>4. ASSUME NEW r \in Request, Gate(r), key[r] \notin Operator
        PROVE  TypeOK'
    <2>1. [req |-> r, action |-> "rejected", operator |-> None] \in AuditEntry
      BY DEF AuditEntry
    <2>2. audit' \in SUBSET AuditEntry /\ unaudited' \in SUBSET Request
      BY <1>4, <2>1, AuditTypes DEF Gate
    <2>3. pc' \in [Request -> Place] /\ reply' \in [Request -> Reply]
      BY <1>4, <1>p DEF Gate
    <2> QED
      BY <1>4, <2>2, <2>3 DEF Gate, TypeOK
  <1>5. ASSUME NEW r \in Request, Succeed(r)
        PROVE  TypeOK'
    <2>1. [req |-> r, operator |-> operator[r]] \in LogEntry
      BY DEF TypeOK, LogEntry
    <2>2. changes' \in SUBSET LogEntry
      BY <1>5, <2>1 DEF Succeed, TypeOK
    <2>3. pc' \in [Request -> Place] /\ reply' \in [Request -> Reply]
      BY <1>5, <1>p DEF Succeed
    <2> QED
      BY <1>5, <2>2, <2>3 DEF Succeed, TypeOK
  <1>6. ASSUME NEW r \in Request, FailInternally(r)
        PROVE  TypeOK'
    <2>1. pc' \in [Request -> Place] /\ reply' \in [Request -> Reply]
      BY <1>6, <1>p DEF FailInternally
    <2> QED
      BY <1>6, <2>1 DEF FailInternally, TypeOK
  <1>7. ASSUME NEW r \in Request, NEW e \in Shared, Raise(r, e)
        PROVE  TypeOK'
    <2>1. pc' \in [Request -> Place]
      BY <1>7, <1>p DEF Raise
    <2>2. /\ raised' \in [Request -> Shared \union {None}]
          /\ details' \in [Shared -> Request \union {None}]
      BY <1>7 DEF Raise, TypeOK
    <2> QED
      BY <1>7, <2>1, <2>2 DEF Raise, TypeOK
  <1>8. ASSUME NEW r \in Request, CheckStatus(r)
        PROVE  TypeOK'
    <2>1. pc' \in [Request -> Place]
      BY <1>8, <1>p DEF CheckStatus
    <2> QED
      BY <1>8, <2>1 DEF CheckStatus, TypeOK
  <1>9. ASSUME NEW r \in Request, MendStatus(r)
        PROVE  TypeOK'
    <2>1. pc' \in [Request -> Place]
      BY <1>9, <1>p DEF MendStatus
    <2>2. status' \in [Shared -> {200, 404, 422, 500}]
      BY <1>9 DEF MendStatus, TypeOK
    <2> QED
      BY <1>9, <2>1, <2>2 DEF MendStatus, TypeOK
  <1>10. ASSUME NEW r \in Request, SendError(r)
         PROVE  TypeOK'
    <2>1. raised[r] \in Shared
      BY <1>10 DEF SendError, Inv, OnTheWay
    <2>2. [status |-> status[raised[r]], code |-> raised[r], details |-> details[raised[r]]]
             \in Reply
      BY <2>1 DEF TypeOK, Reply
    <2>3. pc' \in [Request -> Place] /\ reply' \in [Request -> Reply]
      BY <1>10, <2>2, <1>p DEF SendError
    <2> QED
      BY <1>10, <2>3 DEF SendError, TypeOK
  <1>11. ASSUME NEW r \in Request, Scrape(r)
         PROVE  TypeOK'
    <2>1. pc' \in [Request -> Place] /\ reply' \in [Request -> Reply]
      <3>1. reply \in [Request -> Reply]
        BY DEF TypeOK
      <3> QED
        BY <1>11, <3>1, <1>p DEF Scrape
    <2>2. seen' \in [Request -> [count : Tally, gauge : Tally]]
      <3>1. /\ seen \in [Request -> [count : Tally, gauge : Tally]]
            /\ gauge \in Tally /\ count \in Tally
        BY DEF TypeOK
      <3>2. \/ seen' = [seen EXCEPT ![r].count = count]
            \/ seen' = [seen EXCEPT ![r].gauge = gauge]
        BY <1>11 DEF Scrape
      <3>3. \A n \in Tally : /\ [seen[r] EXCEPT !.count = n] \in [count : Tally, gauge : Tally]
                             /\ [seen[r] EXCEPT !.gauge = n] \in [count : Tally, gauge : Tally]
        BY <3>1
      <3> QED
        BY <3>1, <3>2, <3>3
    <2> QED
      BY <1>11, <2>1, <2>2 DEF Scrape, TypeOK
  <1>12. ASSUME NEW r \in Request, CountOut(r)
         PROVE  TypeOK'
    <2>1. pc' \in [Request -> Place]
      BY <1>12, <1>p DEF CountOut
    <2> QED
      BY <1>12, <2>1 DEF CountOut, TypeOK
  <1>13. CASE Worker
    BY <1>13 DEF Worker, BeginPass, ReadEvent, CallSink, WriteOutcome, EndPass,
                 LoseOutcome, EndWorker, Work, TypeOK
  <1>14. CASE Start \/ StartFails \/ ListenerFails \/ Signal \/ Main
    BY <1>14 DEF Start, StartFails, ListenerFails, Signal, Main, Shutdown, Drained,
                 TimedOut, ClosePool, Exit, Return, To, rest, TypeOK
  <1>15. CASE UNCHANGED vars
    BY <1>15 DEF vars, TypeOK
  <1>16. ASSUME NEW r \in Request, Connect(r) \/ CloseIdle(r) \/ Begin(r)
         PROVE  TypeOK'
    <2>1. pc' \in [Request -> Place]
      BY <1>16, <1>p DEF Connect, CloseIdle, Begin
    <2> QED
      BY <1>16, <2>1 DEF Connect, CloseIdle, Begin, TypeOK
  <1> QED
    BY <1>1, <1>2, <1>3, <1>4, <1>5, <1>6, <1>7, <1>8, <1>9, <1>10, <1>11, <1>12,
       <1>13, <1>14, <1>15, <1>16
    DEF Next, Handle

-----------------------------------------------------------------------------
(* Errors.                                                                 *)

LEMMA ErrorsNext ==
    ASSUME Inv, [Next]_vars
    PROVE  OnTheWay' /\ ErrorsToldAsTheyAre'
  <1>t. /\ pc \in [Request -> Place] /\ raised \in [Request -> Shared \union {None}]
        /\ reply \in [Request -> Reply]
        /\ status \in [Shared -> {200, 404, 422, 500}]
        /\ details \in [Shared -> Request \union {None}]
        /\ OnTheWay /\ ErrorsToldAsTheyAre
        /\ None \notin Request
    BY ServerAssumption DEF Inv, TypeOK
  <1>s. /\ FirstStatus["INVALID_FIELD"] = 422 /\ FirstStatus["RULE_NOT_FOUND"] = 404
        /\ FirstStatus["DUPLICATE_MESSAGE"] = 200
    BY DEF FirstStatus
  <1> USE <1>t, <1>s DEF OnTheWay, ErrorsToldAsTheyAre, Answered, NoReply, Shared, Goto, Say, Plain
  <1>1. ASSUME NEW r \in Request, NEW k \in Kind, NEW presented \in Operator \union {NoKey},
               Arrive(r, k, presented)
        PROVE  OnTheWay' /\ ErrorsToldAsTheyAre'
    BY <1>1 DEF Arrive, Route, errors
  <1>2. ASSUME NEW r \in Request, Gate(r) \/ Scrape(r)
        PROVE  OnTheWay' /\ ErrorsToldAsTheyAre'
    BY <1>2 DEF Gate, Scrape, errors
  <1>11. ASSUME NEW r \in Request, Succeed(r) \/ FailInternally(r)
         PROVE  OnTheWay' /\ ErrorsToldAsTheyAre'
    <2>1. /\ pc[r] \in {"handler", "tx"} /\ Goto(r, "leave")
          /\ UNCHANGED <<errors, raised>>
          /\ \A q \in Request \ {r} : reply'[q] = reply[q]
      BY <1>11 DEF Succeed, FailInternally
    <2> QED
      BY <2>1 DEF errors
  <1>3. ASSUME NEW r \in Request, NEW e \in Shared, Raise(r, e)
        PROVE  OnTheWay' /\ ErrorsToldAsTheyAre'
    BY <1>3 DEF Raise
  <1>4. ASSUME NEW r \in Request, CheckStatus(r)
        PROVE  OnTheWay' /\ ErrorsToldAsTheyAre'
    BY <1>4 DEF CheckStatus, errors
  <1>5. ASSUME NEW r \in Request, MendStatus(r)
        PROVE  OnTheWay' /\ ErrorsToldAsTheyAre'
    BY <1>5 DEF MendStatus
  <1>6. ASSUME NEW r \in Request, SendError(r)
        PROVE  OnTheWay' /\ ErrorsToldAsTheyAre'
    BY <1>6 DEF SendError, errors
  <1>7. ASSUME NEW r \in Request, CountOut(r)
        PROVE  OnTheWay' /\ ErrorsToldAsTheyAre'
    BY <1>7 DEF CountOut, errors
  <1>8. ASSUME UNCHANGED <<pc, errors, raised, reply>>
        PROVE  OnTheWay' /\ ErrorsToldAsTheyAre'
    BY <1>8 DEF errors
  <1>9. CASE Elsewhere \/ UNCHANGED vars \/ \E r \in Request : Leave(r)
    BY <1>8, <1>9, ElsewhereFrame DEF vars, Leave
  <1>10. ASSUME NEW r \in Request, Connect(r) \/ CloseIdle(r) \/ Begin(r)
         PROVE  OnTheWay' /\ ErrorsToldAsTheyAre'
    BY <1>10 DEF Connect, CloseIdle, Begin, errors
  <1> QED
    BY <1>1, <1>2, <1>3, <1>4, <1>5, <1>6, <1>7, <1>9, <1>10, <1>11
    DEF Next, Handle, Elsewhere

-----------------------------------------------------------------------------
(* Attribution.                                                            *)

LEMMA AttributedNext ==
    ASSUME Inv, [Next]_vars
    PROVE  Admitted' /\ ChangesAttributed'
  <1>t. /\ pc \in [Request -> Place] /\ kind \in [Request -> Kind]
        /\ key \in [Request -> Operator \union {NoKey}]
        /\ operator \in [Request -> Operator \union {"system"}]
        /\ changes \in SUBSET LogEntry
        /\ Auth \in BOOLEAN
        /\ Admitted /\ ChangesAttributed
    BY ServerAssumption DEF Inv, TypeOK
  <1> USE <1>t DEF Admitted, ChangesAttributed, Entry, CanQuery, Goto, Arrived
  <1>1. ASSUME NEW r \in Request, NEW k \in Kind, NEW presented \in Operator \union {NoKey},
               Arrive(r, k, presented)
        PROVE  Admitted' /\ ChangesAttributed'
    BY <1>1 DEF Arrive, Route, RequiresAuth, Kind, records, process
  <1>2. ASSUME NEW r \in Request, Leave(r)
        PROVE  Admitted' /\ ChangesAttributed'
    BY <1>2 DEF Leave, records, process
  <1>3. ASSUME NEW r \in Request, Gate(r)
        PROVE  Admitted' /\ ChangesAttributed'
    <2>1. /\ UNCHANGED <<changes, kind, key, away, pool>>
          /\ audit \subseteq audit' /\ unaudited \subseteq unaudited'
          /\ pc[r] = "gate"
      BY <1>3 DEF Gate, Audit, process
    <2>2. ChangesAttributed'
      BY <2>1
    <2>3. \A q \in Request \ {r} : operator'[q] = operator[q] /\ pc'[q] = pc[q]
      BY <1>3 DEF Gate
    <2>a. Auth
      BY <2>1
    <2>b. ASSUME NEW q \in Request \ {r}
          PROVE  Auth /\ pc'[q] = "handler" /\ kind'[q] # "read" =>
                     /\ operator'[q] = key'[q]
                     /\ Entry(q)' \in audit' \/ q \in unaudited' \/ ~CanQuery(q)'
      <3>1. Entry(q)' = Entry(q) /\ (CanQuery(q)' <=> CanQuery(q))
        BY <2>1, <2>3
      <3> QED
        BY <2>1, <2>3, <3>1
    <2>d. ASSUME NEW q \in Request \ {r}
          PROVE  /\ Auth /\ pc'[q] = "tx" =>
                        /\ operator'[q] = key'[q]
                        /\ Entry(q)' \in audit' \/ q \in unaudited'
                 /\ pc'[q] = "tx" => kind'[q] = "write"
      BY <2>1, <2>3
    <2>c. \A c \in changes' : \/ c.req \in Request /\ c.req # r /\ Arrived(c.req)'
                              \/ c.req = r /\ Arrived(r)'
      <3>1. Arrived(r)'
        BY <1>3 DEF Gate
      <3>2. \A c \in changes : c.req \in Request
        BY DEF LogEntry
      <3> QED
        BY <2>1, <2>3, <3>1, <3>2
    <2>4. CASE key[r] \in Operator
      <3>1. /\ operator'[r] = key[r] /\ pc'[r] = "handler"
            /\ Entry(r)' = [req |-> r, action |-> "authenticated", operator |-> key[r]]
            /\ Entry(r)' \in audit' \/ r \in unaudited' \/ ~CanQuery(r)
        BY <1>3, <2>4 DEF Gate, Audit
      <3> QED
        BY <2>1, <2>2, <2>a, <2>b, <2>c, <2>d, <3>1
    <2>5. CASE key[r] \notin Operator
      <3>1. operator' = operator /\ pc'[r] = "leave"
        BY <1>3, <2>5 DEF Gate
      <3> QED
        BY <2>1, <2>2, <2>a, <2>b, <2>c, <2>d, <3>1
    <2> QED
      BY <2>4, <2>5
  <1>4. ASSUME NEW r \in Request, Succeed(r)
        PROVE  Admitted' /\ ChangesAttributed'
    BY <1>4 DEF Succeed, context, process
  <1>5. ASSUME NEW r \in Request,
               \/ FailInternally(r) \/ \E e \in Shared : Raise(r, e)
               \/ CheckStatus(r) \/ MendStatus(r) \/ SendError(r)
               \/ Scrape(r) \/ CountOut(r)
        PROVE  Admitted' /\ ChangesAttributed'
    <2>1. UNCHANGED <<process, context, records>>
      BY <1>5 DEF FailInternally, Raise, CheckStatus, MendStatus, SendError, Scrape, CountOut
    <2>2. PICK place \in Place \ {"away", "connected", "gate", "handler", "tx"} : Goto(r, place)
      BY <1>5 DEF FailInternally, Raise, CheckStatus, MendStatus, SendError, Scrape,
                  CountOut, Place
    <2> QED
      BY <2>1, <2>2 DEF process, context, records
  <1>6. ASSUME UNCHANGED <<pc, context, records>>, pool' = pool \/ pool' = "closed"
        PROVE  Admitted' /\ ChangesAttributed'
    BY <1>6 DEF context, records
  <1>7. CASE Elsewhere
    BY <1>6, <1>7, ElsewhereFrame
    DEF Elsewhere, Worker, BeginPass, ReadEvent, CallSink, WriteOutcome, EndPass,
        LoseOutcome, EndWorker, Work, Start, StartFails, ListenerFails, Signal, Main,
        Shutdown, Drained, TimedOut, ClosePool, Exit, Return, To, process
  <1>8. CASE UNCHANGED vars
    BY <1>6, <1>8 DEF vars, process
  <1>9. ASSUME NEW r \in Request, Connect(r) \/ CloseIdle(r)
        PROVE  Admitted' /\ ChangesAttributed'
    <2>1. UNCHANGED <<process, context, records>> /\ ~Arrived(r)
      BY <1>9 DEF Connect, CloseIdle
    <2>2. PICK place \in {"away", "connected"} : Goto(r, place)
      BY <1>9 DEF Connect, CloseIdle
    <2> QED
      BY <2>1, <2>2 DEF process, context, records
  <1>10. ASSUME NEW r \in Request, Begin(r)
         PROVE  Admitted' /\ ChangesAttributed'
    <2>1. /\ UNCHANGED <<process, context, records>>
          /\ pc[r] = "handler" /\ kind[r] = "write" /\ CanQuery(r)
          /\ Goto(r, "tx")
      BY <1>10 DEF Begin
    <2> QED
      BY <2>1 DEF process, context, records
  <1> QED
    BY <1>1, <1>2, <1>3, <1>4, <1>5, <1>7, <1>8, <1>9, <1>10 DEF Next, Handle, Elsewhere

-----------------------------------------------------------------------------
(* Scrapes.                                                                *)

\* Requests do not go back to where they have not been counted.
LEMMA HereGrows ==
    ASSUME Inv, [Next]_vars
    PROVE  /\ Cardinality({q \in Request : Arrived(q)})
                 <= Cardinality({q \in Request : Arrived(q)'})
           /\ count <= count'
           /\ Cardinality({q \in Request : Arrived(q)'}) \in Nat
  <1> DEFINE Here == {q \in Request : Arrived(q)}
  <1>t. pc \in [Request -> Place] /\ count \in Nat
    <2>1. Cardinality(Request) \in Nat
      BY FlightFinite, FS_CardinalityType
    <2> QED
      BY <2>1 DEF Inv, TypeOK, Tally
  <1>1. Here \subseteq Here'
    <2>1. ASSUME NEW r \in Request, Handle(r)
          PROVE  Here \subseteq Here'
      BY <1>t, <2>1
      DEF Handle, Connect, CloseIdle, Arrive, Route, Leave, Gate, Begin, Succeed,
          FailInternally, Raise, CheckStatus, MendStatus, SendError, Scrape, CountOut, Goto, Arrived
    <2>2. CASE Elsewhere \/ UNCHANGED vars
      BY <2>2, ElsewhereFrame DEF vars, Arrived
    <2> QED
      BY <2>1, <2>2 DEF Next, Elsewhere
  <1>2. count <= count'
    <2>1. ASSUME NEW r \in Request, Handle(r)
          PROVE  count' = count \/ count' = count + 1
      BY <2>1
      DEF Handle, Connect, CloseIdle, Arrive, Leave, Gate, Begin, Succeed, FailInternally,
          Raise, CheckStatus, MendStatus, SendError, Scrape, CountOut, metrics
    <2>2. CASE Elsewhere \/ UNCHANGED vars
      BY <1>t, <2>2, ElsewhereFrame DEF vars, metrics
    <2> QED
      BY <1>t, <2>1, <2>2 DEF Next, Elsewhere
  <1>3. IsFiniteSet(Here') /\ Cardinality(Here') \in Nat /\ Here \in SUBSET Here'
    BY <1>1, FlightFinite, FS_Subset, FS_CardinalityType
  <1> QED
    BY <1>2, <1>3, FS_Subset

LEMMA ScrapesNext ==
    ASSUME Inv, [Next]_vars
    PROVE  Scraping' /\ ScrapeCountsOnce'
  <1> DEFINE Here == Cardinality({q \in Request : Arrived(q)})
  <1>t. /\ pc \in [Request -> Place] /\ kind \in [Request -> Kind]
        /\ seen \in [Request -> [count : Tally, gauge : Tally]]
        /\ count \in Tally /\ gauge \in Tally
        /\ Scraping /\ ScrapeCountsOnce /\ OnTheWay
    BY DEF Inv, TypeOK
  <1>n. Tally \subseteq Nat /\ Here \in Nat
    BY FlightAndGone, FlightFinite, FS_CardinalityType DEF Tally
  <1>h. Here \in Nat /\ Here' \in Nat /\ Here <= Here' /\ count <= count' /\ count' \in Nat
    BY <1>n, HereGrows, TallyNext DEF Tally
  <1>k. \A q \in Request : pc[q] = "in_flight" => seen[q].count <= count'
    <2>1. \A q \in Request : seen[q].count \in Nat
      BY <1>t, <1>n
    <2> QED
      BY <1>t, <1>n, <1>h, <2>1 DEF Scraping
  <1> HIDE DEF Here
  <1>1. ASSUME NEW r \in Request, NEW k \in Kind, NEW presented \in Operator \union {NoKey},
               Arrive(r, k, presented)
        PROVE  Scraping' /\ ScrapeCountsOnce'
    <2>1. /\ pc'[r] \in {"duration", "gate", "handler"} /\ kind'[r] = k
          /\ k = "scrape" => pc'[r] = "duration"
          /\ reply'[r] = NoReply
      <3>1. /\ Route(k) \in {"duration", "gate", "handler"}
            /\ k = "scrape" => Route(k) = "duration"
        BY DEF Route, RequiresAuth
      <3>2. pc[r] = "connected" /\ reply[r] = NoReply
        BY <1>1, <1>t DEF Arrive, OnTheWay
      <3> QED
        BY <1>1, <1>t, <3>1, <3>2 DEF Arrive, Goto
    <2>2. /\ seen' = seen /\ reply' = reply
          /\ \A q \in Request \ {r} : kind'[q] = kind[q] /\ pc'[q] = pc[q]
      BY <1>1, <1>t DEF Arrive, Goto
    <2>3. Scraping'
      BY <1>t, <1>k, <2>1, <2>2 DEF Scraping
    <2>4. ScrapeCountsOnce'
      <3>1. ASSUME NEW q \in Request, kind'[q] = "scrape", Answered(q)'
            PROVE  seen'[q].count + seen'[q].gauge <= Here' /\ seen'[q].gauge >= 1
        <4>1. q # r /\ kind[q] = "scrape" /\ Answered(q)
          BY <2>1, <2>2, <3>1 DEF Answered
        <4>2. seen[q].count + seen[q].gauge <= Here /\ seen[q].gauge >= 1
          BY <1>t, <4>1 DEF ScrapeCountsOnce, Here
        <4>3. seen[q].count \in Nat /\ seen[q].gauge \in Nat
          BY <1>t, <1>n
        <4> QED
          BY <1>h, <2>2, <4>2, <4>3
      <3> QED
        BY <3>1 DEF ScrapeCountsOnce, Here
    <2> QED
      BY <2>3, <2>4
  <1>2. ASSUME UNCHANGED <<kind, seen>>,
               NEW r \in Request,
               \/ pc'[r] \in {"observe", "gone"} /\ reply'[r] = reply[r]
               \/ kind[r] # "scrape" /\ pc'[r] # "in_flight",
               \A q \in Request \ {r} : pc'[q] = pc[q] /\ reply'[q] = reply[q]
        PROVE  Scraping' /\ ScrapeCountsOnce'
    <2>1. Scraping'
      BY <1>t, <1>k, <1>2 DEF Scraping
    <2>2. ASSUME NEW q \in Request, kind'[q] = "scrape", Answered(q)'
          PROVE  seen'[q].count + seen'[q].gauge <= Here' /\ seen'[q].gauge >= 1
      <3>1. kind[q] = "scrape" /\ Answered(q)
        BY <1>2, <2>2 DEF Answered
      <3>2. seen[q].count + seen[q].gauge <= Here /\ seen[q].gauge >= 1
        BY <1>t, <3>1 DEF ScrapeCountsOnce, Here
      <3>3. seen[q].count \in Nat /\ seen[q].gauge \in Nat
        BY <1>t, <1>n
      <3> QED
        BY <1>h, <1>2, <3>2, <3>3
    <2>3. ScrapeCountsOnce'
      BY <2>2 DEF ScrapeCountsOnce, Here
    <2> QED
      BY <2>1, <2>3
  <1>3. ASSUME NEW r \in Request, Scrape(r), pc[r] = "duration"
        PROVE  Scraping' /\ ScrapeCountsOnce'
    <2>1. /\ kind' = kind /\ reply' = reply /\ reply[r] = NoReply
          /\ pc' = [pc EXCEPT ![r] = "in_flight"]
          /\ seen' = [seen EXCEPT ![r].count = count]
          /\ count' = count
      BY <1>3, <1>t DEF Scrape, Goto, context, OnTheWay
    <2>2. Scraping'
      BY <1>t, <1>n, <2>1 DEF Scraping
    <2>3. ASSUME NEW q \in Request, kind'[q] = "scrape", Answered(q)'
          PROVE  seen'[q].count + seen'[q].gauge <= Here' /\ seen'[q].gauge >= 1
      <3>1. q # r /\ kind[q] = "scrape" /\ Answered(q)
        BY <2>1, <2>3 DEF Answered
      <3>2. seen[q].count + seen[q].gauge <= Here /\ seen[q].gauge >= 1
        BY <1>t, <3>1 DEF ScrapeCountsOnce, Here
      <3>3. seen[q].count \in Nat /\ seen[q].gauge \in Nat
        BY <1>t, <1>n
      <3> QED
        BY <1>t, <1>h, <2>1, <3>1, <3>2, <3>3
    <2>4. ScrapeCountsOnce'
      BY <2>3 DEF ScrapeCountsOnce, Here
    <2> QED
      BY <2>2, <2>4
  <1>4. ASSUME NEW r \in Request, Scrape(r), pc[r] = "in_flight"
        PROVE  Scraping' /\ ScrapeCountsOnce'
    <2>1. /\ kind' = kind /\ count' = count
          /\ pc' = [pc EXCEPT ![r] = "leave"]
          /\ seen' = [seen EXCEPT ![r].gauge = gauge]
          /\ \A q \in Request \ {r} : reply'[q] = reply[q]
      BY <1>4, <1>t DEF Scrape, Goto, Say, context, Inv, TypeOK
    <2>2. Scraping'
      BY <1>t, <1>n, <2>1 DEF Scraping
    <2>3. gauge >= 1
      <3>1. {r} \in SUBSET Flight
        BY <1>4 DEF Flight, InFlight, Arrived
      <3>2. Cardinality({r}) = 1 /\ Cardinality({r}) <= Cardinality(Flight)
        BY <3>1, FlightFinite, FS_Subset, FS_Singleton
      <3> QED
        BY <3>2 DEF Inv, Counted
    <2>4. seen[r].count + gauge <= Here
      <3>1. seen[r].count <= count
        BY <1>4 DEF Inv, Scraping
      <3>2. count + gauge <= Here
        BY FlightAndGone DEF Inv, Counted, Here
      <3>3. seen[r].count \in Nat /\ count \in Nat /\ gauge \in Nat
        BY <1>t, <1>n
      <3> QED
        BY <1>h, <3>1, <3>2, <3>3
    <2>5. ASSUME NEW q \in Request, kind'[q] = "scrape", Answered(q)'
          PROVE  seen'[q].count + seen'[q].gauge <= Here' /\ seen'[q].gauge >= 1
      <3>1. CASE q = r
        <4>1. seen'[r].count = seen[r].count /\ seen'[r].gauge = gauge
          BY <1>t, <2>1
        <4>2. seen[r].count \in Nat /\ gauge \in Nat
          BY <1>t, <1>n
        <4> QED
          BY <1>h, <2>3, <2>4, <3>1, <4>1, <4>2
      <3>2. CASE q # r
        <4>1. seen[q].count + seen[q].gauge <= Here /\ seen[q].gauge >= 1
          BY <1>t, <2>1, <2>5, <3>2 DEF ScrapeCountsOnce, Here, Answered
        <4>2. seen[q].count \in Nat /\ seen[q].gauge \in Nat
          BY <1>t, <1>n
        <4> QED
          BY <1>t, <1>h, <2>1, <3>2, <4>1, <4>2
      <3> QED
        BY <3>1, <3>2
    <2>6. ScrapeCountsOnce'
      BY <2>5 DEF ScrapeCountsOnce, Here
    <2> QED
      BY <2>2, <2>6
  <1>5. ASSUME NEW r \in Request,
               \/ Connect(r) \/ CloseIdle(r) \/ Gate(r) \/ Begin(r) \/ Succeed(r)
               \/ FailInternally(r) \/ \E e \in Shared : Raise(r, e)
               \/ CheckStatus(r) \/ MendStatus(r) \/ SendError(r) \/ CountOut(r)
        PROVE  Scraping' /\ ScrapeCountsOnce'
    <2>1. /\ UNCHANGED <<kind, seen>>
          /\ pc'[r] # "in_flight"
          /\ \A q \in Request \ {r} : pc'[q] = pc[q] /\ reply'[q] = reply[q]
      BY <1>5, <1>t DEF Connect, CloseIdle, Gate, Begin, Succeed, FailInternally, Raise,
         CheckStatus, MendStatus, SendError, CountOut, Goto, Say, context, metrics, Inv, TypeOK
    <2>2. \/ kind[r] # "scrape"
          \/ pc'[r] \in {"observe", "gone"} /\ reply'[r] = reply[r]
      BY <1>5, <1>t DEF Connect, CloseIdle, Gate, Begin, Succeed, FailInternally, Raise,
         CheckStatus, MendStatus, SendError, CountOut, Goto, Scraping
    <2> QED
      BY <1>2, <2>1, <2>2
  <1>6. ASSUME UNCHANGED <<pc, kind, seen, reply>>
        PROVE  Scraping' /\ ScrapeCountsOnce'
    <2>1. Scraping'
      BY <1>t, <1>k, <1>6 DEF Scraping
    <2>2. ScrapeCountsOnce'
      BY <1>t, <1>6 DEF ScrapeCountsOnce, Answered, Arrived
    <2> QED
      BY <2>1, <2>2
  <1>7. CASE Elsewhere \/ UNCHANGED vars \/ \E r \in Request : Leave(r)
    BY <1>6, <1>7, ElsewhereFrame DEF vars, context, metrics, Leave
  <1> QED
    BY <1>1, <1>3, <1>4, <1>5, <1>7 DEF Next, Handle, Elsewhere, Scrape

-----------------------------------------------------------------------------
(* The end of the process.                                                 *)

LEMMA StoppedNext ==
    ASSUME Inv, [Next]_vars
    PROVE  Stopped'
  <1>t. /\ cutOff \in Nat /\ pool \in {"open", "closed"}
        /\ Stopped
    BY DEF Inv, TypeOK
  <1>1. ASSUME NEW r \in Request, Handle(r)
        PROVE  Stopped'
    <2>1. UNCHANGED <<process, job, cutOff>>
      BY <1>1
      DEF Handle, Connect, CloseIdle, Arrive, Leave, Gate, Begin, Succeed, FailInternally,
          Raise, CheckStatus, MendStatus, SendError, Scrape, CountOut
    <2> QED
      BY <1>t, <2>1 DEF Stopped, Cancelled, process
  <1>2. CASE Worker
    BY <1>2, <1>t
    DEF Worker, BeginPass, ReadEvent, CallSink, WriteOutcome, EndPass, LoseOutcome,
        EndWorker, Work, CanRead, Alive, Cancelled, Stopped, process
  <1>3. CASE Start \/ StartFails \/ ListenerFails \/ Signal \/ Main
    BY <1>3, <1>t
    DEF Start, StartFails, ListenerFails, Signal, Main, Shutdown, Drained, TimedOut,
        ClosePool, Exit, Return, To, rest, Cancelled, Stopped, process
  <1>4. CASE UNCHANGED vars
    BY <1>4, <1>t DEF vars, process, Stopped, Cancelled
  <1> QED
    BY <1>1, <1>2, <1>3, <1>4 DEF Next

-----------------------------------------------------------------------------
(* The theorems.                                                           *)

LEMMA InitInv == Init => Inv
  <1> SUFFICES ASSUME Init PROVE Inv
    OBVIOUS
  <1>1. Cardinality(Request) \in Nat
    BY FlightFinite, FS_CardinalityType
  <1>2. TypeOK
    BY <1>1 DEF Init, TypeOK, Place, Kind, Shared, FirstStatus, NoReply, Reply, Tally,
                AuditEntry, LogEntry
  <1>3. Counted
    <2>1. Flight = {} /\ Gone = {}
      BY DEF Init, Flight, InFlight, Arrived, Gone
    <2> QED
      BY <2>1, FS_EmptySet DEF Init, Counted
  <1>4. OnTheWay /\ Admitted /\ Scraping /\ Stopped
    <2>1. OnTheWay
      BY ServerAssumption DEF Init, OnTheWay, Shared
    <2>2. Admitted /\ Scraping /\ Stopped
      BY DEF Init, Admitted, Scraping, Stopped
    <2> QED
      BY <2>1, <2>2
  <1>5. ChangesAttributed /\ ErrorsToldAsTheyAre /\ ScrapeCountsOnce
    BY DEF Init, ChangesAttributed, ErrorsToldAsTheyAre, ScrapeCountsOnce, Answered
  <1> QED
    BY <1>2, <1>3, <1>4, <1>5 DEF Inv

LEMMA NextInv == Inv /\ [Next]_vars => Inv'
  BY CountedNext, TypeNext, ErrorsNext, AttributedNext, ScrapesNext, StoppedNext DEF Inv

THEOREM Invariance == Spec => []Inv
  BY InitInv, NextInv, PTL DEF Spec

\* The variables keep their types: the gauge is never negative, and no request
\* is counted that did not come.
THEOREM TypeCorrect == Spec => []TypeOK
  <1>1. Inv => TypeOK
    BY DEF Inv
  <1> QED
    BY <1>1, Invariance, PTL

\* Every change of a rule is logged under the operator whose key it came with.
THEOREM ChangesStayAttributed == Spec => []ChangesAttributed
  <1>1. Inv => ChangesAttributed
    BY DEF Inv
  <1> QED
    BY <1>1, Invariance, PTL

\* The value that all failing requests share does not mix up their answers, but
\* for the details.
THEOREM ErrorsStayTold == Spec => []ErrorsToldAsTheyAre
  <1>1. Inv => ErrorsToldAsTheyAre
    BY DEF Inv
  <1> QED
    BY <1>1, Invariance, PTL

\* A scrape counts no request twice, although it takes no common lock.
THEOREM ScrapesCountOnce == Spec => []ScrapeCountsOnce
  <1>1. Inv => ScrapeCountsOnce
    BY DEF Inv
  <1> QED
    BY <1>1, Invariance, PTL

\* The worker that nobody waits for loses one outcome at most, although it goes
\* on after the context is cancelled and the pool closed.
THEOREM StopIsCheap == Spec => []StopLosesOneOutcome
  <1>1. Inv => StopLosesOneOutcome
    BY DEF Inv, TypeOK, Stopped, StopLosesOneOutcome
  <1> QED
    BY <1>1, Invariance, PTL
=============================================================================
