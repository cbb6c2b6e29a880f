---------------------------- MODULE IngestProofs ----------------------------
(***************************************************************************)
(* Proofs about Ingest, for any number of devices, messages, rules and     *)
(* requests, any window and any bound on the clock.                        *)
(*                                                                         *)
(* The safety invariants are not inductive by themselves: a request that   *)
(* commits overwrites raw[msg[r]], so that they need to know that it still *)
(* holds the key that it found free (TransactionsExclude), that a request  *)
(* has a message from its receipt on and no event before it is done, and   *)
(* that it goes to "reread" only for a message that is recorded.  The      *)
(* conjunction is Inv.                                                     *)
(***************************************************************************)
EXTENDS Ingest, TLAPS

\* Inside IngestTelemetry a request has a message and no answer yet.
Running(r) == pc[r] \notin {"idle", "done"}

\* A request that has not been parsed carries nothing; one that runs has a
\* message, and so has one that got beyond parsing; none has an answer or an
\* event before it is done; and one that is sent to read the first report
\* again will find it.
Progress ==
    \A r \in Request : /\ pc[r] = "idle" => msg[r] = None
                       /\ Running(r) => msg[r] \in Message
                       /\ pc[r] # "done" => reply[r].kind = "none" /\ reply[r].event = None
                       /\ pc[r] = "done" => reply[r].kind # "none"
                       /\ reply[r].kind \notin {"none", "invalid"} => msg[r] \in Message
                       /\ r \in event => pc[r] = "done"
                       /\ pc[r] = "reread" => KeyTaken(msg[r])

Inv == /\ TypeOK
       /\ Progress
       /\ LedgerConsistent
       /\ TransactionsExclude
       /\ RepliesTruthful
       /\ NothingLost
       /\ LastSeenIsReceipt

-----------------------------------------------------------------------------
(* Type correctness.                                                       *)

\* A request ends with a well-formed answer: the types are kept.
LEMMA FinishType ==
    ASSUME TypeOK, NEW r \in Request, NEW rep \in Reply, Finish(r, rep)
    PROVE  /\ pc' \in [Request -> Place]
           /\ reply' \in [Request -> Reply]
  BY DEF TypeOK, Finish, Goto, Place

\* Answers before the transaction change no table.
LEMMA AnswerType ==
    ASSUME TypeOK, NEW r \in Request, NEW rep \in Reply, Answer(r, rep)
    PROVE  TypeOK'
  <1>1. pc' \in [Request -> Place] /\ reply' \in [Request -> Reply]
    BY FinishType DEF Answer
  <1> QED
    BY <1>1 DEF TypeOK, Answer, tables

\* Neither do steps that only move on.
LEMMA MoveType ==
    ASSUME TypeOK, NEW r \in Request, NEW place \in Place, Move(r, place)
    PROVE  TypeOK'
  BY DEF TypeOK, Move, Goto, tables

\* Refusals of every kind are well formed.
LEMMA RefusalType ==
    ASSUME NEW k \in ReplyKind
    PROVE  Refusal(k) \in Reply
  BY DEF Refusal, Reply

\* So is the answer that names the first report of a message.
LEMMA DuplicateType ==
    ASSUME TypeOK, NEW m \in Message, NEW rules \in SUBSET Rule
    PROVE  DuplicateResult(m, rules) \in Reply
  BY DEF TypeOK, DuplicateResult, Reply, ReplyKind

\* The initial states are well typed.
LEMMA InitType == Init => TypeOK
  BY IngestAssumption
  DEF Init, TypeOK, Never, DeviceStatus, Place, Reply, ReplyKind, NoReply

\* Every step keeps the types.  That a running request has a message is
\* needed too: msg[r] indexes raw, and DeviceOf[msg[r]] indexes lastSeen.
LEMMA NextType ==
    ASSUME TypeOK, Progress, [Next]_vars
    PROVE  TypeOK'
  <1> USE IngestAssumption
  <1>1. ASSUME NEW r \in Request, RejectMessage(r)
        PROVE  TypeOK'
    BY <1>1, AnswerType, RefusalType DEF RejectMessage, ReplyKind
  <1>2. ASSUME NEW r \in Request, NEW m \in Message, Receive(r, m)
        PROVE  TypeOK'
    BY <1>2 DEF Receive, TypeOK, Goto, Place, tables
  <1>3. ASSUME NEW r \in Request, CheckDevice(r)
        PROVE  TypeOK'
    <2>1. Refusal("not_found") \in Reply /\ Refusal("inactive") \in Reply
      BY RefusalType DEF ReplyKind
    <2>2. "dedup" \in Place
      BY DEF Place
    <2> QED
      BY <1>3, <2>1, <2>2, AnswerType, MoveType DEF CheckDevice
  <1>4. ASSUME NEW r \in Request, FastPath(r)
        PROVE  TypeOK'
    <2>1. msg[r] \in Message
      BY <1>4 DEF FastPath, Progress, Running
    <2>2. "begin" \in Place
      BY DEF Place
    <2> QED
      BY <1>4, <2>1, <2>2, AnswerType, MoveType, DuplicateType DEF FastPath
  <1>5. ASSUME NEW r \in Request, BeginTx(r)
        PROVE  TypeOK'
    BY <1>5, MoveType DEF BeginTx, Place
  <1>6. ASSUME NEW r \in Request, InsertRaw(r)
        PROVE  TypeOK'
    <2>1. Refusal("collision") \in Reply
      BY RefusalType DEF ReplyKind
    <2>2. "touch" \in Place
      BY DEF Place
    <2> QED
      BY <1>6, <2>1, <2>2, AnswerType, MoveType DEF InsertRaw
  <1>7. ASSUME NEW r \in Request, TouchSeen(r)
        PROVE  TypeOK'
    BY <1>7, MoveType DEF TouchSeen, Place
  <1>8. ASSUME NEW r \in Request, Route(r)
        PROVE  TypeOK'
    BY <1>8 DEF Route, TypeOK, Goto, Place, tables
  <1>9. ASSUME NEW r \in Request, Commit(r)
        PROVE  TypeOK'
    <2>1. msg[r] \in Message
      BY <1>9 DEF Commit, Progress, Running
    <2>2. [kind |-> "created", event |-> r, rules |-> routed[r]] \in Reply
      BY DEF TypeOK, Reply, ReplyKind
    <2>3. Refusal("error") \in Reply
      BY RefusalType DEF ReplyKind
    <2>4. pc' \in [Request -> Place] /\ reply' \in [Request -> Reply]
      BY <1>9, <2>2, <2>3, FinishType DEF Commit
    <2> QED
      BY <1>9, <2>1, <2>4 DEF Commit, Publish, TypeOK
  <1>10. ASSUME NEW r \in Request, Reread(r)
         PROVE  TypeOK'
    <2>1. msg[r] \in Message
      BY <1>10 DEF Reread, Progress, Running
    <2> QED
      BY <1>10, <2>1, AnswerType, DuplicateType DEF Reread
  <1>11. ASSUME NEW r \in Request, Fail(r)
         PROVE  TypeOK'
    BY <1>11, AnswerType, RefusalType DEF Fail, ReplyKind
  <1>12. ASSUME NEW d \in Device, RegisterDevice(d)
         PROVE  TypeOK'
    BY <1>12 DEF RegisterDevice, TypeOK, DeviceStatus, tables, local
  <1>13. ASSUME NEW d \in Device, NEW s \in DeviceStatus, SetDeviceStatus(d, s)
         PROVE  TypeOK'
    BY <1>13 DEF SetDeviceStatus, TypeOK, tables, local
  <1>14. CASE Tick
    BY <1>14 DEF Tick, TypeOK, tables, local
  <1>15. CASE UNCHANGED vars
    BY <1>15 DEF TypeOK, vars
  <1> QED
    BY <1>1, <1>2, <1>3, <1>4, <1>5, <1>6, <1>7, <1>8, <1>9, <1>10, <1>11,
       <1>12, <1>13, <1>14, <1>15
    DEF Next, Step

-----------------------------------------------------------------------------
(* The invariant, by the kinds of step there are.                          *)

\* Nothing has been asked, answered or recorded at the start.
LEMMA InitInv == Init => Inv
  <1> SUFFICES ASSUME Init PROVE Inv
    OBVIOUS
  <1>1. TypeOK
    BY InitType
  <1>2. Progress
    BY DEF Init, Progress, Running, NoReply
  <1>3. LedgerConsistent
    BY DEF Init, LedgerConsistent
  <1>4. TransactionsExclude
    BY DEF Init, TransactionsExclude, HoldsKey, HoldsDevice
  <1>5. RepliesTruthful /\ NothingLost
    BY DEF Init, RepliesTruthful, NothingLost, NoReply
  <1>6. LastSeenIsReceipt
    BY DEF Init, LastSeenIsReceipt
  <1> QED
    BY <1>1, <1>2, <1>3, <1>4, <1>5, <1>6 DEF Inv

\* An answer outside the transaction keeps the invariant if it is a refusal,
\* or a duplicate of what is recorded.
LEMMA AnswerInv ==
    ASSUME Inv, NEW r \in Request, NEW rep \in Reply, Answer(r, rep),
           pc[r] # "done",
           rep.kind \notin {"none", "created"},
           rep.kind # "invalid" => Running(r),
           rep.kind \in {"duplicate", "collision"} => KeyTaken(msg[r]),
           rep.kind = "duplicate" => rep.event = raw[msg[r]]
    PROVE  Inv'
  <1> USE DEF Inv
  <1>a. /\ pc' = [pc EXCEPT ![r] = "done"]
        /\ reply' = [reply EXCEPT ![r] = rep]
        /\ UNCHANGED <<clock, device, tables, msg, now, routed>>
    BY DEF Answer, Finish, Goto
  <1>b. UNCHANGED <<lastSeen, raw, event, delivery>>
    BY <1>a DEF tables
  <1>c. r \notin event
    BY DEF Progress
  <1>1. TypeOK'
    BY AnswerType
  <1>2. Progress'
    BY <1>a, <1>b DEF Progress, Running, KeyTaken, TypeOK
  <1>3. LedgerConsistent'
    BY <1>a, <1>b DEF LedgerConsistent
  <1>4. TransactionsExclude'
    BY <1>a, <1>b DEF TransactionsExclude, HoldsKey, HoldsDevice, KeyTaken, TypeOK
  <1>5. RepliesTruthful'
    <2> SUFFICES ASSUME NEW q \in Request
                 PROVE  /\ reply'[q].kind = "created" =>
                               /\ q \in event'
                               /\ reply'[q].event = q
                               /\ reply'[q].rules = delivery'[q]
                        /\ reply'[q].kind = "duplicate" =>
                               /\ msg'[q] \in Message
                               /\ reply'[q].event = raw'[msg'[q]]
                               /\ reply'[q].event \in event' \ {q}
                        /\ reply'[q].kind \in {"invalid", "not_found", "inactive", "collision"} =>
                               q \notin event'
      BY DEF RepliesTruthful
    <2>1. CASE q = r
      <3>1. reply'[q] = rep
        BY <2>1, <1>a DEF TypeOK
      <3>2. rep.kind = "duplicate" => msg[r] \in Message /\ raw[msg[r]] \in event
        BY DEF Progress, KeyTaken, LedgerConsistent
      <3> QED
        BY <2>1, <3>1, <3>2, <1>a, <1>b, <1>c
    <2>2. CASE q # r
      <3>1. reply'[q] = reply[q]
        BY <2>2, <1>a DEF TypeOK
      <3> QED
        BY <3>1, <1>a, <1>b DEF RepliesTruthful
    <2> QED
      BY <2>1, <2>2
  <1>6. NothingLost'
    BY <1>a, <1>b DEF NothingLost, KeyTaken, TypeOK
  <1>7. LastSeenIsReceipt'
    BY <1>a, <1>b DEF LastSeenIsReceipt
  <1> QED
    BY <1>1, <1>2, <1>3, <1>4, <1>5, <1>6, <1>7

\* A step that only moves on keeps it if what the next place presupposes of
\* the key and of the device row is there.
LEMMA MoveInv ==
    ASSUME Inv, NEW r \in Request, NEW place \in Place, Move(r, place),
           Running(r), place \notin {"idle", "done"},
           place = "reread" => KeyTaken(msg[r]),
           place \in {"touch", "route", "commit"} =>
               HoldsKey(r) \/ (KeyFree(msg[r]) /\ ~KeyTaken(msg[r])),
           place \in {"route", "commit"} => HoldsDevice(r) \/ DeviceFree(DeviceOf[msg[r]])
    PROVE  Inv'
  <1> USE DEF Inv
  <1>a. /\ pc' = [pc EXCEPT ![r] = place]
        /\ UNCHANGED <<clock, device, tables, msg, now, routed, reply>>
    BY DEF Move, Goto
  <1>b. UNCHANGED <<lastSeen, raw, event, delivery>>
    BY <1>a DEF tables
  <1>1. TypeOK'
    BY MoveType
  <1>2. Progress'
    BY <1>a, <1>b DEF Progress, Running, KeyTaken, TypeOK
  <1>3. LedgerConsistent'
    BY <1>a, <1>b DEF LedgerConsistent
  <1>4. TransactionsExclude'
    <2>1. \A q \in Request : q # r => pc'[q] = pc[q]
      BY <1>a DEF TypeOK
    <2>2. pc'[r] = place
      BY <1>a DEF TypeOK
    <2>3. \A q \in Request : HoldsKey(q)' => ~KeyTaken(msg[q])
      BY <2>1, <2>2 DEF TransactionsExclude, HoldsKey
    <2>4. \A q \in Request : q # r /\ HoldsKey(q)' /\ HoldsKey(r)' => msg[q] # msg[r]
      BY <2>1, <2>2 DEF TransactionsExclude, HoldsKey, KeyFree
    <2>5. \A q \in Request : q # r /\ HoldsDevice(q)' /\ HoldsDevice(r)'
                                => DeviceOf[msg[q]] # DeviceOf[msg[r]]
      BY <2>1, <2>2 DEF TransactionsExclude, HoldsDevice, DeviceFree
    <2> QED
      BY <1>a, <1>b, <2>1, <2>3, <2>4, <2>5
      DEF TransactionsExclude, HoldsKey, HoldsDevice, KeyTaken
  <1>5. RepliesTruthful' /\ NothingLost' /\ LastSeenIsReceipt'
    BY <1>a, <1>b DEF RepliesTruthful, NothingLost, LastSeenIsReceipt, KeyTaken
  <1> QED
    BY <1>1, <1>2, <1>3, <1>4, <1>5

\* A receipt gives a request its message; it holds nothing yet.
LEMMA ReceiveInv ==
    ASSUME Inv, TypeOK', NEW r \in Request, NEW m \in Message, Receive(r, m)
    PROVE  Inv'
  <1> USE DEF Inv
  <1>a. /\ pc[r] = "idle"
        /\ pc' = [pc EXCEPT ![r] = "device"]
        /\ msg' = [msg EXCEPT ![r] = m]
        /\ now' = [now EXCEPT ![r] = clock]
        /\ UNCHANGED <<lastSeen, raw, event, delivery, reply>>
    BY DEF Receive, Goto, tables
  <1>b. \A q \in Request : q # r => pc'[q] = pc[q] /\ msg'[q] = msg[q] /\ now'[q] = now[q]
    BY <1>a DEF TypeOK
  <1>c. r \notin event /\ pc'[r] = "device" /\ msg'[r] = m /\ reply[r].kind = "none"
    BY <1>a DEF Progress, TypeOK
  <1>1. Progress'
    BY <1>a, <1>b, <1>c, IngestAssumption DEF Progress, Running, KeyTaken, TypeOK
  <1>2. LedgerConsistent'
    <2>1. \A n \in Message : raw[n] # None => raw[n] \in event /\ raw[n] \in Request /\ raw[n] # r
      BY <1>c DEF LedgerConsistent, TypeOK
    <2>2. \A e \in event : e \in Request /\ e # r
      BY <1>c DEF TypeOK
    <2> QED
      BY <1>a, <1>b, <2>1, <2>2 DEF LedgerConsistent
  <1>3. TransactionsExclude'
    BY <1>a, <1>b, <1>c DEF TransactionsExclude, HoldsKey, HoldsDevice, KeyTaken
  <1>4. RepliesTruthful'
    BY <1>a, <1>b, <1>c DEF RepliesTruthful
  <1>5. NothingLost'
    BY <1>a, <1>b, <1>c DEF NothingLost, KeyTaken
  <1>6. LastSeenIsReceipt'
    <2>1. \A e \in event : msg'[e] = msg[e] /\ now'[e] = now[e]
      BY <1>b, <1>c DEF TypeOK
    <2>2. \A d \in Device : {e \in event' : DeviceOf[msg'[e]] = d}
                            = {e \in event : DeviceOf[msg[e]] = d}
      BY <1>a, <2>1
    <2>3. \A d \in Device : {now'[e] : e \in {q \in event : DeviceOf[msg[q]] = d}}
                            = {now[e] : e \in {q \in event : DeviceOf[msg[q]] = d}}
      BY <2>1
    <2> QED
      BY <1>a, <2>2, <2>3 DEF LastSeenIsReceipt
  <1> QED
    BY <1>1, <1>2, <1>3, <1>4, <1>5, <1>6

\* Matching and queueing deliveries writes nothing that others see.
LEMMA RouteInv ==
    ASSUME Inv, TypeOK', NEW r \in Request, Route(r)
    PROVE  Inv'
  <1> USE DEF Inv
  <1>a. /\ pc[r] = "route"
        /\ pc' = [pc EXCEPT ![r] = "commit"]
        /\ UNCHANGED <<lastSeen, raw, event, delivery, msg, now, reply>>
    BY DEF Route, Goto, tables
  <1>b. pc'[r] = "commit" /\ \A q \in Request : q # r => pc'[q] = pc[q]
    BY <1>a DEF TypeOK
  <1>1. Progress'
    BY <1>a, <1>b DEF Progress, Running, KeyTaken
  <1>2. LedgerConsistent' /\ RepliesTruthful' /\ NothingLost' /\ LastSeenIsReceipt'
    BY <1>a DEF LedgerConsistent, RepliesTruthful, NothingLost, LastSeenIsReceipt, KeyTaken
  <1>3. TransactionsExclude'
    <2>1. \A q \in Request : HoldsKey(q)' = HoldsKey(q) /\ HoldsDevice(q)' = HoldsDevice(q)
      BY <1>a, <1>b DEF HoldsKey, HoldsDevice
    <2> QED
      BY <1>a, <2>1 DEF TransactionsExclude, KeyTaken
  <1> QED
    BY <1>1, <1>2, <1>3

\* The commit: the key was free when it was taken and nobody else took it.
LEMMA CommitInv ==
    ASSUME Inv, TypeOK', NEW r \in Request, Commit(r)
    PROVE  Inv'
  <1> USE DEF Inv
  <1> DEFINE m == msg[r]
  <1>a. /\ pc[r] = "commit"
        /\ pc' = [pc EXCEPT ![r] = "done"]
        /\ raw' = [raw EXCEPT ![m] = r]
        /\ event' = event \union {r}
        /\ delivery' = [delivery EXCEPT ![r] = routed[r]]
        /\ lastSeen' = [lastSeen EXCEPT ![DeviceOf[m]] = now[r]]
        /\ UNCHANGED <<msg, now, routed>>
    BY DEF Commit, Publish, Finish, Goto
  <1>b. /\ m \in Message
        /\ r \notin event
        /\ reply[r].kind = "none"
    BY <1>a DEF Progress, Running
  <1>c. raw[m] = None
    BY <1>a DEF TransactionsExclude, HoldsKey, KeyTaken
  <1>d. /\ \A q \in Request : q # r => pc'[q] = pc[q] /\ reply'[q] = reply[q]
        /\ pc'[r] = "done"
    BY <1>a DEF Commit, Finish, TypeOK
  <1>e. \/ reply'[r] = [kind |-> "created", event |-> r, rules |-> routed[r]]
        \/ reply'[r] = Refusal("error")
    BY DEF Commit, Finish, TypeOK
  <1>f. raw'[m] = r /\ \A n \in Message : n # m => raw'[n] = raw[n]
    BY <1>a, <1>b DEF TypeOK
  <1>g. delivery'[r] = routed[r] /\ \A q \in Request : q # r => delivery'[q] = delivery[q]
    BY <1>a DEF TypeOK
  <1>1. Progress'
    <2>1. r \in Request /\ None # r
      BY IngestAssumption
    <2>2. \A q \in Request : KeyTaken(msg[q]) /\ msg[q] \in Message => raw'[msg[q]] # None
      BY <1>f, <2>1 DEF KeyTaken
    <2> QED
      BY <1>a, <1>d, <1>e, <2>2 DEF Progress, Running, KeyTaken, Refusal
  <1>2. LedgerConsistent'
    <2>1. \A e \in event' : msg'[e] \in Message /\ raw'[msg'[e]] = e
      <3>1. \A e \in event : msg[e] \in Message /\ raw[msg[e]] = e /\ e # None
        BY IngestAssumption DEF LedgerConsistent, TypeOK
      <3>2. \A e \in event : msg[e] # m
        BY <3>1, <1>c
      <3> QED
        BY <1>a, <1>b, <1>f, <3>1, <3>2
    <2>2. \A n \in Message : raw'[n] # None => raw'[n] \in event' /\ msg'[raw'[n]] = n
      BY <1>a, <1>f DEF LedgerConsistent
    <2>3. \A q \in Request : delivery'[q] # {} => q \in event'
      BY <1>a, <1>g DEF LedgerConsistent
    <2> QED
      BY <2>1, <2>2, <2>3 DEF LedgerConsistent
  <1>3. TransactionsExclude'
    <2>1. \A q \in Request : HoldsKey(q)' => q # r /\ HoldsKey(q) /\ msg[q] # m
      BY <1>a, <1>d DEF TransactionsExclude, HoldsKey
    <2>2. \A q \in Request : HoldsDevice(q)' => q # r /\ HoldsDevice(q)
      BY <1>d DEF HoldsDevice
    <2>3. \A q \in Request : HoldsKey(q) => msg[q] \in Message
      BY DEF HoldsKey, Progress, Running
    <2> QED
      BY <1>a, <1>f, <2>1, <2>2, <2>3 DEF TransactionsExclude, KeyTaken
  <1>4. RepliesTruthful'
    <2>1. \A q \in Request : reply[q].kind = "duplicate" => raw'[msg[q]] = raw[msg[q]]
      BY <1>c, <1>f, IngestAssumption DEF RepliesTruthful, TypeOK
    <2>2. \A q \in Request : q # r /\ q \notin event => q \notin event'
      BY <1>a
    <2> QED
      BY <1>a, <1>b, <1>d, <1>e, <1>g, <2>1, <2>2 DEF RepliesTruthful, Refusal
  <1>5. NothingLost'
    <2>1. r # None
      BY IngestAssumption
    <2>2. \A q \in Request : KeyTaken(msg[q]) /\ msg[q] \in Message => KeyTaken(msg[q])'
      BY <1>a, <1>f, <2>1 DEF KeyTaken
    <2>3. KeyTaken(msg[r])'
      BY <1>a, <1>f, <2>1 DEF KeyTaken
    <2>4. \A q \in Request : reply[q].kind \in {"created", "duplicate", "collision"}
                             => KeyTaken(msg[q]) /\ msg[q] \in Message
      BY DEF NothingLost, Progress
    <2> QED
      BY <1>a, <1>d, <2>2, <2>3, <2>4 DEF NothingLost
  <1>6. LastSeenIsReceipt'
    <2> DEFINE reports(d) == {e \in event : DeviceOf[msg[e]] = d}
    <2> SUFFICES ASSUME NEW d \in Device
                 PROVE  LET rep == {e \in event' : DeviceOf[msg[e]] = d} IN
                        IF rep = {} THEN lastSeen'[d] = Never
                                    ELSE lastSeen'[d] \in {now[e] : e \in rep}
      BY <1>a DEF LastSeenIsReceipt
    <2>1. CASE d = DeviceOf[m]
      <3>1. r \in {e \in event' : DeviceOf[msg[e]] = d}
        BY <2>1, <1>a
      <3>2. lastSeen'[d] = now[r]
        BY <2>1, <1>a DEF TypeOK
      <3> QED
        BY <3>1, <3>2
    <2>2. CASE d # DeviceOf[m]
      <3>1. {e \in event' : DeviceOf[msg[e]] = d} = reports(d)
        BY <2>2, <1>a
      <3>2. lastSeen'[d] = lastSeen[d]
        BY <2>2, <1>a DEF TypeOK
      <3> QED
        BY <3>1, <3>2 DEF LastSeenIsReceipt
    <2> QED
      BY <2>1, <2>2
  <1> QED
    BY <1>1, <1>2, <1>3, <1>4, <1>5, <1>6

\* Every step keeps the invariant.
LEMMA NextInv ==
    ASSUME Inv, [Next]_vars
    PROVE  Inv'
  <1>t. TypeOK /\ Progress /\ LedgerConsistent /\ TransactionsExclude
    BY DEF Inv
  <1>u. TypeOK'
    BY <1>t, NextType
  <1>1. ASSUME NEW r \in Request, RejectMessage(r)
        PROVE  Inv'
    BY <1>1, AnswerInv, RefusalType DEF RejectMessage, ReplyKind, Refusal
  <1>2. ASSUME NEW r \in Request, NEW m \in Message, Receive(r, m)
        PROVE  Inv'
    BY <1>2, <1>u, ReceiveInv
  <1>3. ASSUME NEW r \in Request, CheckDevice(r)
        PROVE  Inv'
    <2>1. Refusal("not_found") \in Reply /\ Refusal("inactive") \in Reply
      BY RefusalType DEF ReplyKind
    <2>2. ASSUME NEW k \in {"not_found", "inactive"}, Answer(r, Refusal(k))
          PROVE  Inv'
      BY <1>3, <2>1, <2>2, AnswerInv DEF CheckDevice, Refusal, Running
    <2>3. ASSUME Move(r, "dedup")
          PROVE  Inv'
      BY <1>3, <2>3, MoveInv DEF CheckDevice, Running, Place
    <2> QED
      BY <1>3, <2>2, <2>3 DEF CheckDevice
  <1>4. ASSUME NEW r \in Request, FastPath(r)
        PROVE  Inv'
    <2>1. Running(r) /\ pc[r] # "done"
      BY <1>4 DEF FastPath, Running
    <2>2. msg[r] \in Message
      BY <1>t, <2>1 DEF Progress
    <2>3. ASSUME KeyTaken(msg[r]), NEW rules \in SUBSET Rule,
                 Answer(r, DuplicateResult(msg[r], rules))
          PROVE  Inv'
      <3>1. DuplicateResult(msg[r], rules) \in Reply
        BY <1>t, <2>2, DuplicateType
      <3> QED
        BY <2>1, <2>3, <3>1, AnswerInv DEF DuplicateResult
    <2>4. ASSUME Move(r, "begin")
          PROVE  Inv'
      BY <2>1, <2>4, MoveInv DEF Place
    <2> QED
      BY <1>4, <2>3, <2>4 DEF FastPath
  <1>5. ASSUME NEW r \in Request, BeginTx(r)
        PROVE  Inv'
    <2>1. Running(r)
      BY <1>5 DEF BeginTx, Running
    <2> QED
      BY <1>5, <2>1, MoveInv DEF BeginTx, Place
  <1>6. ASSUME NEW r \in Request, InsertRaw(r)
        PROVE  Inv'
    <2>1. Running(r) /\ pc[r] # "done"
      BY <1>6 DEF InsertRaw, Running
    <2>2. ASSUME KeyTaken(msg[r]), Answer(r, Refusal("collision"))
          PROVE  Inv'
      <3>1. Refusal("collision") \in Reply
        BY RefusalType DEF ReplyKind
      <3> QED
        BY <2>1, <2>2, <3>1, AnswerInv DEF Refusal
    <2>3. ASSUME KeyFree(msg[r]), ~KeyTaken(msg[r]), Move(r, "touch")
          PROVE  Inv'
      BY <2>1, <2>3, MoveInv DEF Place
    <2> QED
      BY <1>6, <2>2, <2>3 DEF InsertRaw
  <1>7. ASSUME NEW r \in Request, TouchSeen(r)
        PROVE  Inv'
    <2>1. Running(r) /\ HoldsKey(r)
      BY <1>7 DEF TouchSeen, Running, HoldsKey
    <2> QED
      BY <1>7, <2>1, MoveInv DEF TouchSeen, Place
  <1>8. ASSUME NEW r \in Request, Route(r)
        PROVE  Inv'
    BY <1>8, <1>u, RouteInv
  <1>9. ASSUME NEW r \in Request, Commit(r)
        PROVE  Inv'
    BY <1>9, <1>u, CommitInv
  <1>10. ASSUME NEW r \in Request, Reread(r)
         PROVE  Inv'
    <2>1. Running(r) /\ pc[r] # "done" /\ KeyTaken(msg[r]) /\ msg[r] \in Message
      BY <1>10, <1>t DEF Reread, Running, Progress
    <2>2. ASSUME NEW rules \in SUBSET Rule, Answer(r, DuplicateResult(msg[r], rules))
          PROVE  Inv'
      <3>1. DuplicateResult(msg[r], rules) \in Reply
        BY <1>t, <2>1, DuplicateType
      <3> QED
        BY <2>1, <2>2, <3>1, AnswerInv DEF DuplicateResult
    <2> QED
      BY <1>10, <2>2 DEF Reread
  <1>11. ASSUME NEW r \in Request, Fail(r)
         PROVE  Inv'
    <2>1. Refusal("error") \in Reply
      BY RefusalType DEF ReplyKind
    <2> QED
      BY <1>11, <2>1, AnswerInv DEF Fail, Running, Refusal
  <1>12. ASSUME UNCHANGED <<tables, local>>
         PROVE  Inv'
    BY <1>12, <1>u DEF Inv, Progress, Running, LedgerConsistent, TransactionsExclude,
       RepliesTruthful, NothingLost, LastSeenIsReceipt, HoldsKey, HoldsDevice, KeyTaken,
       tables, local
  <1>13. ASSUME NEW d \in Device, RegisterDevice(d)
         PROVE  Inv'
    BY <1>12, <1>13 DEF RegisterDevice
  <1>14. ASSUME NEW d \in Device, NEW s \in DeviceStatus, SetDeviceStatus(d, s)
         PROVE  Inv'
    BY <1>12, <1>14 DEF SetDeviceStatus
  <1>15. CASE Tick
    BY <1>12, <1>15 DEF Tick
  <1>16. CASE UNCHANGED vars
    BY <1>12, <1>16 DEF vars, tables, local
  <1> QED
    BY <1>1, <1>2, <1>3, <1>4, <1>5, <1>6, <1>7, <1>8, <1>9, <1>10, <1>11,
       <1>13, <1>14, <1>15, <1>16
    DEF Next, Step

-----------------------------------------------------------------------------
(* The theorems.                                                           *)

\* The invariant holds in every state that is reached.
THEOREM Invariance == Spec => []Inv
  <1>1. Init => Inv
    BY InitInv
  <1>2. Inv /\ [Next]_vars => Inv'
    BY NextInv
  <1> QED
    BY <1>1, <1>2, PTL DEF Spec

\* The variables keep their types, with any number of requests.
THEOREM TypeCorrect == Spec => []TypeOK
  <1>1. Inv => TypeOK
    BY DEF Inv
  <1> QED
    BY <1>1, Invariance, PTL

\* The tables an ingest transaction writes agree, whatever fails when.
THEOREM LedgerStaysConsistent == Spec => []LedgerConsistent
  <1>1. Inv => LedgerConsistent
    BY DEF Inv
  <1> QED
    BY <1>1, Invariance, PTL

\* What a client was told stays true.
THEOREM RepliesStayTruthful == Spec => []RepliesTruthful
  <1>1. Inv => RepliesTruthful
    BY DEF Inv
  <1> QED
    BY <1>1, Invariance, PTL

\* Races alone lose no report: whoever is answered "created", "duplicate", or with
\* the 500 of a lost race, has its message recorded.
THEOREM RacesAreHarmless == Spec => []NothingLost
  <1>1. Inv => NothingLost
    BY DEF Inv
  <1> QED
    BY <1>1, Invariance, PTL

\* Of the transactions that are open, no two hold one key or one device row.
THEOREM TransactionsStayApart == Spec => []TransactionsExclude
  <1>1. Inv => TransactionsExclude
    BY DEF Inv
  <1> QED
    BY <1>1, Invariance, PTL

\* last_seen_at is the receipt of a recorded report.
THEOREM LastSeenStaysReceipt == Spec => []LastSeenIsReceipt
  <1>1. Inv => LastSeenIsReceipt
    BY DEF Inv
  <1> QED
    BY <1>1, Invariance, PTL

-----------------------------------------------------------------------------
(* The refinement of the write-once register.                              *)

\* What the clients have been told, as Intake sees it.
Answers == [r \in Request |-> Told(reply[r])]

\* The register is empty at the start.
LEMMA RefinesInit == Init => Register!Init
  <1> SUFFICES ASSUME Init PROVE Register!Init
    OBVIOUS
  <1>1. \A r \in Request : Told(reply[r]) = [kind |-> "none", event |-> None]
    BY DEF Init, Told, NoReply
  <1> QED
    BY <1>1 DEF Init, Register!Init, Register!Silent

\* A request that is not done has heard nothing.
LEMMA RunningIsSilent ==
    ASSUME Progress, NEW r \in Request, pc[r] # "done"
    PROVE  Answers[r] = Register!Silent
  BY DEF Progress, Answers, Told, Register!Silent

\* An answer changes what one client was told.
LEMMA AnswerTells ==
    ASSUME TypeOK, NEW r \in Request, NEW rep, Finish(r, rep)
    PROVE  Answers' = [Answers EXCEPT ![r] = Told(rep)]
  BY DEF TypeOK, Finish, Answers

\* A step of the requests that leaves tables, messages and answers alone is a
\* stutter of the register.
LEMMA RefinesStutter ==
    ASSUME UNCHANGED <<raw, msg, reply>>
    PROVE  UNCHANGED Register!vars
  <1>1. UNCHANGED Answers
    BY DEF Answers
  <1> QED
    BY <1>1 DEF Register!vars, Answers

\* A refusal, before or inside the transaction, is a refusal of the register.
LEMMA RefinesRefuse ==
    ASSUME TypeOK, Progress, NEW r \in Request, NEW k \in ReplyKind, pc[r] # "done",
           k \notin {"none", "created", "duplicate"}, Answer(r, Refusal(k))
    PROVE  Register!Refuse(r)
  <1>1. Answers[r] = Register!Silent
    BY RunningIsSilent
  <1>2. Answers' = [Answers EXCEPT ![r] = Told(Refusal(k))]
    BY AnswerTells DEF Answer
  <1>3. Told(Refusal(k)) = Register!Refused
    BY DEF Told, Refusal, Register!Refused
  <1> QED
    BY <1>1, <1>2, <1>3 DEF Register!Refuse, Answers, Answer, tables

\* A duplicate answer is a repeat: the message has its event already.
LEMMA RefinesRepeat ==
    ASSUME TypeOK, Progress, NEW r \in Request, NEW rules \in SUBSET Rule, Running(r),
           KeyTaken(msg[r]), Answer(r, DuplicateResult(msg[r], rules))
    PROVE  Register!Repeat(r)
  <1>1. Answers[r] = Register!Silent
    BY RunningIsSilent DEF Running
  <1>2. Answers' = [Answers EXCEPT ![r] = Told(DuplicateResult(msg[r], rules))]
    BY AnswerTells DEF Answer
  <1>3. Told(DuplicateResult(msg[r], rules)) = Register!Duplicate(raw[msg[r]])
    BY DEF Told, DuplicateResult, Register!Duplicate
  <1>4. msg[r] # None
    BY IngestAssumption DEF Progress
  <1> QED
    BY <1>1, <1>2, <1>3, <1>4 DEF Register!Repeat, Answers, Answer, tables, KeyTaken

\* A commit is the one write of the register for its message, whether or not
\* the client hears of it.
LEMMA RefinesAccept ==
    ASSUME Inv, NEW r \in Request, Commit(r)
    PROVE  Register!Accept(r)
  <1>1. Answers[r] = Register!Silent
    BY RunningIsSilent DEF Commit, Inv
  <1>2. msg[r] # None /\ raw[msg[r]] = None
    BY IngestAssumption
    DEF Commit, Inv, Progress, Running, TransactionsExclude, HoldsKey, KeyTaken
  <1>3. \/ Answers' = [Answers EXCEPT ![r] = Register!Created(r)]
        \/ Answers' = [Answers EXCEPT ![r] = Register!Refused]
    <2>1. Told([kind |-> "created", event |-> r, rules |-> routed[r]]) = Register!Created(r)
      BY DEF Told, Register!Created
    <2>2. Told(Refusal("error")) = Register!Refused
      BY DEF Told, Refusal, Register!Refused
    <2> QED
      BY <2>1, <2>2, AnswerTells DEF Commit, Inv
  <1> QED
    BY <1>1, <1>2, <1>3 DEF Register!Accept, Answers, Commit, Publish

\* A receipt tells the register which message the request is about.
LEMMA RefinesAsk ==
    ASSUME TypeOK, Progress, NEW r \in Request, NEW m \in Message, Receive(r, m)
    PROVE  Register!Ask(r, m)
  <1>1. Answers[r] = Register!Silent /\ msg[r] = None
    BY RunningIsSilent DEF Receive, Progress
  <1>2. UNCHANGED Answers
    BY DEF Receive, Answers
  <1> QED
    BY <1>1, <1>2 DEF Register!Ask, Answers, Receive, tables

\* Every step is a step of the register or leaves it as it is.
LEMMA RefinesNext ==
    ASSUME Inv, [Next]_vars
    PROVE  [Register!Next]_(Register!vars)
  <1>t. TypeOK /\ Progress
    BY DEF Inv
  <1>r. ASSUME NEW r \in Request, NEW k \in ReplyKind, pc[r] # "done",
               k \notin {"none", "created", "duplicate"}, Answer(r, Refusal(k))
        PROVE  Register!Next
    BY <1>t, <1>r, RefinesRefuse DEF Register!Next
  <1>d. ASSUME NEW r \in Request, NEW rules \in SUBSET Rule, Running(r),
               KeyTaken(msg[r]), Answer(r, DuplicateResult(msg[r], rules))
        PROVE  Register!Next
    BY <1>t, <1>d, RefinesRepeat DEF Register!Next
  <1>s. ASSUME NEW r \in Request, NEW place, Move(r, place)
        PROVE  UNCHANGED Register!vars
    BY <1>s, RefinesStutter DEF Move, tables
  <1>1. ASSUME NEW r \in Request, RejectMessage(r)
        PROVE  Register!Next
    BY <1>1, <1>r DEF RejectMessage, ReplyKind
  <1>2. ASSUME NEW r \in Request, NEW m \in Message, Receive(r, m)
        PROVE  Register!Next
    BY <1>2, <1>t, RefinesAsk DEF Register!Next
  <1>3. ASSUME NEW r \in Request, CheckDevice(r)
        PROVE  Register!Next \/ UNCHANGED Register!vars
    BY <1>3, <1>r, <1>s DEF CheckDevice, ReplyKind
  <1>4. ASSUME NEW r \in Request, FastPath(r)
        PROVE  Register!Next \/ UNCHANGED Register!vars
    BY <1>4, <1>d, <1>s DEF FastPath, Running
  <1>5. ASSUME NEW r \in Request, InsertRaw(r)
        PROVE  Register!Next \/ UNCHANGED Register!vars
    BY <1>5, <1>r, <1>s DEF InsertRaw, ReplyKind
  <1>6. ASSUME NEW r \in Request, BeginTx(r) \/ TouchSeen(r)
        PROVE  UNCHANGED Register!vars
    BY <1>6, <1>s DEF BeginTx, TouchSeen
  <1>7. ASSUME NEW r \in Request, Route(r)
        PROVE  UNCHANGED Register!vars
    BY <1>7, RefinesStutter DEF Route, tables
  <1>8. ASSUME NEW r \in Request, Commit(r)
        PROVE  Register!Next
    BY <1>8, RefinesAccept DEF Register!Next
  <1>9. ASSUME NEW r \in Request, Reread(r)
        PROVE  Register!Next
    BY <1>9, <1>t, <1>d DEF Reread, Running, Progress
  <1>10. ASSUME NEW r \in Request, Fail(r)
         PROVE  Register!Next
    BY <1>10, <1>r DEF Fail, ReplyKind
  <1>11. ASSUME UNCHANGED <<tables, local>>
         PROVE  UNCHANGED Register!vars
    BY <1>11, RefinesStutter DEF tables, local
  <1>12. ASSUME NEW d \in Device,
                RegisterDevice(d) \/ \E s \in DeviceStatus : SetDeviceStatus(d, s)
         PROVE  UNCHANGED Register!vars
    BY <1>11, <1>12 DEF RegisterDevice, SetDeviceStatus
  <1>13. CASE Tick \/ UNCHANGED vars
    BY <1>11, <1>13 DEF Tick, vars, tables, local
  <1> QED
    BY <1>1, <1>2, <1>3, <1>4, <1>5, <1>6, <1>7, <1>8, <1>9, <1>10, <1>12, <1>13
    DEF Next, Step

\* Ingestion implements the write-once register: one event per message, for
\* ever, whatever the interleaving of requests and failures.
THEOREM Implements == Spec => ImplementsIntake
  <1>1. Init => Register!Init
    BY RefinesInit
  <1>2. Inv /\ [Next]_vars => [Register!Next]_(Register!vars)
    BY RefinesNext
  <1> QED
    BY <1>1, <1>2, Invariance, PTL DEF Spec, ImplementsIntake, Register!Spec
=============================================================================
