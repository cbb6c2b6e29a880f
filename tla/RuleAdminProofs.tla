-------------------------- MODULE RuleAdminProofs --------------------------
(***************************************************************************)
(* Proofs about RuleAdmin, for any number of rules, operators, fields and  *)
(* values.                                                                 *)
(*                                                                         *)
(* An operation writes what it computed from a row that may have changed   *)
(* since.  What it can rely on is in Ops and Exclusive: the row it read    *)
(* was there and not deleted, rows do not vanish, and the row, or the key, *)
(* that its transaction holds is nobody else's.  So a "create" is the      *)
(* first entry of its rule, and every entry is the last one when its row   *)
(* is written, which is what LogExplainsTable needs.                       *)
(***************************************************************************)
EXTENDS RuleAdmin, TLAPS

\* What an operation knows on its way.
Ops ==
    \A o \in Operator :
        /\ pc[o] = "idle" \/ todo[o] \in Task
        /\ todo[o].kind = "create" => Complete(todo[o].input)
        /\ pc[o] \in {"write", "log"} /\ todo[o].kind # "create" =>
               read[o] # None /\ ~read[o].deleted /\ rule[todo[o].rule] # None
        /\ pc[o] = "log" /\ todo[o].kind = "create" => rule[todo[o].rule] = None

\* One transaction per row.
Exclusive ==
    \A o, q \in Operator :
        HoldsRow(o) /\ HoldsRow(q) /\ todo[o].rule = todo[q].rule => o = q

Inv == TypeOK /\ Ops /\ Exclusive /\ LogExplainsTable

-----------------------------------------------------------------------------
(* What is computed has the right type.                                    *)

LEMMA TaskKinds ==
    \A t \in Task :
        \/ t.kind \in {"create", "update"} /\ t.input \in Input /\ t.rule \in Rule
        \/ t.kind = "delete" /\ t.rule \in Rule
  BY DEF Task

LEMMA CreatedRow ==
    ASSUME NEW in \in Input, Complete(in)
    PROVE  Created(in) \in Row
  <1>1. in.text \in [Field -> Value \union {None}] /\ in.enabled \in BOOLEAN
    BY DEF Input
  <1>2. in.text \in [Field -> Value]
    BY <1>1 DEF Complete
  <1> QED
    BY <1>1, <1>2 DEF Created, Row

LEMMA MergedRow ==
    ASSUME NEW old \in Row, NEW in \in Input
    PROVE  Merged(old, in) \in Row
  <1>1. /\ in.text \in [Field -> Value \union {None}] /\ in.enabled \in BOOLEAN
        /\ old.text \in [Field -> Value] /\ old.deleted \in BOOLEAN
    BY DEF Input, Row
  <1>2. [f \in Field |-> IF in.text[f] = None THEN old.text[f] ELSE in.text[f]]
            \in [Field -> Value]
    BY <1>1
  <1> QED
    BY <1>1, <1>2 DEF Merged, Row

LEMMA DeletedRow ==
    ASSUME NEW old \in Row
    PROVE  Deleted(old) \in Row /\ Deleted(old).deleted /\ ~Deleted(old).enabled
  BY DEF Deleted, Row

\* What a commit writes, by the kind of operation: the row, and its entry.
LEMMA CommitRow ==
    ASSUME Inv, NEW o \in Operator, pc[o] = "log",
           NEW r, r = todo[o].rule,
           NEW row, row = Written(todo[o], read[o], rule[r]),
           NEW e, e = EntryOf(todo[o], read[o])
    PROVE  /\ r \in Rule /\ row \in Row /\ e \in Entry /\ e.rule = r
           /\ rule[r] = None <=> e.action = "create"
           /\ e.action = "create" => ~row.deleted
           /\ e.action = "delete" => row.deleted
           /\ e.action \notin {"create", "delete"} => row.deleted = rule[r].deleted
           /\ rule[r] # None /\ rule[r].deleted => row.deleted
           /\ row.enabled = e.after.enabled
           /\ e.action # "delete" => row.text = e.after.text
  <1>1. /\ todo[o] \in Task /\ r \in Rule
        /\ rule[r] \in Row \union {None} /\ read[o] \in Row \union {None}
        /\ None \notin Row
    BY TaskKinds, RuleAdminAssumption DEF Inv, Ops, TypeOK
  <1>2. CASE todo[o].kind = "create"
    <2>1. Created(todo[o].input) \in Row /\ rule[r] = None
      BY <1>1, <1>2, TaskKinds, CreatedRow DEF Inv, Ops
    <2>2. /\ row = Created(todo[o].input)
          /\ e = [rule |-> r, action |-> "create", before |-> None,
                  after |-> Created(todo[o].input)]
      BY <1>2 DEF Written, EntryOf
    <2>3. /\ e \in Entry /\ e.rule = r /\ e.action = "create"
          /\ e.after = Created(todo[o].input)
      BY <1>1, <2>1, <2>2 DEF Entry
    <2>4. Created(todo[o].input).deleted = FALSE
      BY DEF Created
    <2> QED
      BY <1>1, <2>1, <2>2, <2>3, <2>4
  <1>3. CASE todo[o].kind = "update"
    <2>1. read[o] \in Row /\ rule[r] \in Row /\ todo[o].input \in Input
      BY <1>1, <1>3, TaskKinds DEF Inv, Ops
    <2> DEFINE new == Merged(read[o], todo[o].input)
    <2>2. new \in Row
      BY <2>1, MergedRow
    <2>3. UpdateAction(read[o], new) \in {"enable", "disable", "update"}
      BY DEF UpdateAction
    <2>4. /\ row = [new EXCEPT !.deleted = rule[r].deleted]
          /\ e = [rule |-> r, before |-> read[o], after |-> new,
                  action |-> UpdateAction(read[o], new)]
      BY <1>3 DEF Written, EntryOf
    <2> HIDE DEF new
    <2>5. /\ row \in Row /\ row.deleted = rule[r].deleted
          /\ row.enabled = new.enabled /\ row.text = new.text
      BY <2>1, <2>2, <2>4 DEF Row
    <2>6. /\ e \in Entry /\ e.rule = r /\ e.after = new
          /\ e.action \in {"enable", "disable", "update"}
      BY <1>1, <2>1, <2>2, <2>3, <2>4 DEF Entry
    <2> QED
      BY <1>1, <2>1, <2>5, <2>6
  <1>4. CASE todo[o].kind = "delete"
    <2>1. read[o] \in Row /\ rule[r] \in Row
      BY <1>1, <1>4 DEF Inv, Ops
    <2>2. /\ Deleted(rule[r]) \in Row /\ Deleted(rule[r]).deleted /\ ~Deleted(rule[r]).enabled
          /\ Deleted(read[o]) \in Row /\ ~Deleted(read[o]).enabled
      BY <2>1, DeletedRow
    <2>3. /\ row = Deleted(rule[r])
          /\ e = [rule |-> r, action |-> "delete", before |-> read[o],
                  after |-> Deleted(read[o])]
      BY <1>4 DEF Written, EntryOf
    <2>4. row.enabled = FALSE /\ Deleted(read[o]).enabled = FALSE
      BY <2>2, <2>3 DEF Row
    <2>5. e \in Entry /\ e.rule = r /\ e.action = "delete" /\ e.after = Deleted(read[o])
      BY <1>1, <2>1, <2>2, <2>3 DEF Entry
    <2> QED
      BY <1>1, <2>1, <2>2, <2>3, <2>4, <2>5
  <1> QED
    BY <1>1, <1>2, <1>3, <1>4, TaskKinds

-----------------------------------------------------------------------------
(* The log after a commit.                                                 *)

LEMMA CommitLog ==
    ASSUME Inv, NEW o \in Operator, CommitChange(o)
    PROVE  LogExplainsTable'
  <1> DEFINE r   == todo[o].rule
             row == Written(todo[o], read[o], rule[r])
             e   == EntryOf(todo[o], read[o])
             n   == Len(log) + 1
  <1>1. /\ r \in Rule /\ row \in Row /\ e \in Entry /\ e.rule = r
        /\ rule[r] = None <=> e.action = "create"
        /\ e.action = "create" => ~row.deleted
        /\ e.action = "delete" => row.deleted
        /\ e.action \notin {"create", "delete"} => row.deleted = rule[r].deleted
        /\ rule[r] # None /\ rule[r].deleted => row.deleted
        /\ row.enabled = e.after.enabled
        /\ e.action # "delete" => row.text = e.after.text
    BY CommitRow DEF CommitChange
  <1>2. rule' = [rule EXCEPT ![r] = row] /\ log' = Append(log, e) /\ r' = r
    BY DEF CommitChange
  <1> HIDE DEF r, row, e
  <1>t. /\ rule \in [Rule -> Row \union {None}] /\ log \in Seq(Entry)
        /\ None \notin Row /\ LogExplainsTable
    BY RuleAdminAssumption DEF Inv, TypeOK
  <1>3. /\ n \in Nat /\ DOMAIN log = 1..(n - 1) /\ DOMAIN log' = 1..n
        /\ log'[n] = e
        /\ \A i \in DOMAIN log : log'[i] = log[i] /\ i < n
    BY <1>1, <1>2, <1>t
  <1>4. /\ rule'[r] = row /\ row # None
        /\ \A q \in Rule \ {r} : rule'[q] = rule[q]
    BY <1>1, <1>2, <1>t
  <1>5. Of(r)' = Of(r) \union {n}
    BY <1>1, <1>2, <1>3 DEF Of
  <1>6. \A q \in Rule \ {r} : Of(q)' = Of(q)
    BY <1>1, <1>3 DEF Of
  <1>7. \A q \in Rule : Of(q) \subseteq 1..(n - 1)
    BY <1>3 DEF Of
  <1>8. ASSUME NEW q \in Rule, q # r
        PROVE  /\ rule'[q] = None <=> Of(q)' = {}
               /\ \A i \in Of(q)' : log'[i].action = "create" <=> \A j \in Of(q)' : i <= j
               /\ rule'[q] # None =>
                     /\ rule'[q].deleted <=> \E i \in Of(q)' : log'[i].action = "delete"
                     /\ \A i \in Of(q)' : IsLast(i, Of(q)') =>
                            /\ rule'[q].enabled = log'[i].after.enabled
                            /\ log'[i].action # "delete" => rule'[q].text = log'[i].after.text
    <2>1. \A i \in Of(q) : log'[i] = log[i]
      BY <1>3, <1>7
    <2>2. rule'[q] = rule[q] /\ Of(q)' = Of(q)
      BY <1>4, <1>6, <1>8
    <2> QED
      BY <1>t, <2>1, <2>2 DEF LogExplainsTable
  <1>9. \A i \in Of(r)' : log'[i].action = "create" <=> \A j \in Of(r)' : i <= j
    <2>1. CASE rule[r] = None
      <3>1. Of(r)' = {n}
        BY <1>1, <1>5, <1>t, <2>1 DEF LogExplainsTable
      <3> QED
        BY <1>1, <1>3, <2>1, <3>1
    <2>2. CASE rule[r] # None
      <3>1. PICK k \in Of(r) : TRUE
        BY <1>1, <1>t, <2>2 DEF LogExplainsTable
      <3>2. k < n /\ k \in Of(r)' /\ k \in Nat
        BY <1>3, <1>5, <1>7, <1>1, <3>1
      <3>3. log'[n].action # "create" /\ ~(n <= k)
        BY <1>1, <1>3, <2>2, <3>2
      <3>4. ASSUME NEW i \in Of(r)
            PROVE  log'[i].action = "create" <=> \A j \in Of(r)' : i <= j
        <4>1. log'[i] = log[i] /\ i <= n
          BY <1>1, <1>3, <1>7
        <4>2. log[i].action = "create" <=> \A j \in Of(r) : i <= j
          BY <1>1, <1>t DEF LogExplainsTable
        <4> QED
          BY <1>5, <4>1, <4>2
      <3> QED
        BY <1>5, <3>2, <3>3, <3>4
    <2> QED
      BY <2>1, <2>2
  <1>10. row.deleted <=> \E i \in Of(r)' : log'[i].action = "delete"
    <2>1. \A i \in Of(r) : log'[i] = log[i]
      BY <1>1, <1>3, <1>7
    <2>2. CASE e.action = "delete"
      BY <1>1, <1>3, <1>5, <2>2
    <2>3. CASE e.action = "create"
      <3>1. Of(r)' = {n}
        BY <1>1, <1>5, <1>t, <2>3 DEF LogExplainsTable
      <3> QED
        BY <1>1, <1>3, <2>3, <3>1
    <2>4. CASE e.action \notin {"create", "delete"}
      <3>1. rule[r].deleted <=> \E i \in Of(r) : log[i].action = "delete"
        BY <1>1, <1>t, <2>4 DEF LogExplainsTable
      <3> QED
        BY <1>1, <1>3, <1>5, <2>1, <2>4, <3>1
    <2> QED
      BY <2>2, <2>3, <2>4
  <1>11. ASSUME NEW i \in Of(r)', IsLast(i, Of(r)')
         PROVE  i = n
    BY <1>1, <1>3, <1>5, <1>7, <1>11 DEF IsLast
  <1>12. \A i \in Of(r)' : IsLast(i, Of(r)') =>
             /\ rule'[r].enabled = log'[i].after.enabled
             /\ log'[i].action # "delete" => rule'[r].text = log'[i].after.text
    BY <1>1, <1>3, <1>4, <1>11
  <1>13. Of(r)' # {} /\ rule'[r] # None
    BY <1>4, <1>5
  <1>14. rule'[r].deleted <=> \E i \in Of(r)' : log'[i].action = "delete"
    BY <1>4, <1>10
  <1>15. ASSUME NEW q \in Rule
         PROVE  /\ rule'[q] = None <=> Of(q)' = {}
                /\ \A i \in Of(q)' : log'[i].action = "create" <=> \A j \in Of(q)' : i <= j
                /\ rule'[q] # None =>
                      /\ rule'[q].deleted <=> \E i \in Of(q)' : log'[i].action = "delete"
                      /\ \A i \in Of(q)' : IsLast(i, Of(q)') =>
                             /\ rule'[q].enabled = log'[i].after.enabled
                             /\ log'[i].action # "delete" => rule'[q].text = log'[i].after.text
    <2>1. CASE q = r
      <3>1. Of(q)' = Of(r)'
        BY <1>2, <2>1
      <3> QED
        BY <3>1, <2>1, <1>9, <1>12, <1>13, <1>14
    <2>2. CASE q # r
      BY <1>8, <2>2
    <2> QED
      BY <2>1, <2>2
  <1> QED
    BY <1>15 DEF LogExplainsTable

-----------------------------------------------------------------------------
(* The invariant.                                                          *)

LEMMA InitInv == Init => Inv
  <1> SUFFICES ASSUME Init PROVE Inv
    OBVIOUS
  <1>1. TypeOK
    BY DEF Init, TypeOK, Idle
  <1>2. Ops /\ Exclusive
    BY DEF Init, Ops, Exclusive, HoldsRow, Idle
  <1>3. \A r \in Rule : Of(r) = {}
    <2>1. log = <<>> /\ DOMAIN log = {}
      BY DEF Init
    <2> QED
      BY <2>1 DEF Of
  <1>4. LogExplainsTable
    BY <1>3 DEF Init, LogExplainsTable
  <1> QED
    BY <1>1, <1>2, <1>4 DEF Inv

LEMMA SameTables ==
    ASSUME Inv, UNCHANGED <<rule, log>>
    PROVE  LogExplainsTable'
  <1>1. \A r \in Rule : Of(r)' = Of(r)
    BY DEF Of
  <1> QED
    BY <1>1 DEF Inv, LogExplainsTable

LEMMA NextInv ==
    ASSUME Inv, [Next]_vars
    PROVE  Inv'
  <1>t. TypeOK /\ Ops /\ Exclusive
    BY DEF Inv
  <1>n. None \notin Row
    BY RuleAdminAssumption
  <1>1. ASSUME NEW o \in Operator, NEW t \in Task, Request(o, t)
        PROVE  Inv'
    <2>1. TypeOK' /\ Ops'
      BY <1>t, <1>1 DEF Request, TypeOK, Ops
    <2>2. Exclusive'
      BY <1>t, <1>1 DEF Request, TypeOK, Exclusive, HoldsRow
    <2>3. LogExplainsTable'
      BY <1>1, SameTables DEF Request
    <2> QED
      BY <2>1, <2>2, <2>3 DEF Inv
  <1>2. ASSUME NEW o \in Operator, GetRule(o)
        PROVE  Inv'
    <2>1. todo[o] \in Task /\ todo[o].rule \in Rule
      BY <1>t, <1>2, TaskKinds DEF GetRule, Ops
    <2>2. TypeOK'
      BY <1>t, <1>2, <2>1 DEF GetRule, Finish, TypeOK
    <2>3. Ops'
      BY <1>t, <1>2, <2>1 DEF GetRule, Finish, Missing, TypeOK, Ops
    <2>4. Exclusive'
      BY <1>t, <1>2 DEF GetRule, Finish, TypeOK, Exclusive, HoldsRow
    <2>5. LogExplainsTable'
      BY <1>2, SameTables DEF GetRule
    <2> QED
      BY <2>2, <2>3, <2>4, <2>5 DEF Inv
  <1>3. ASSUME NEW o \in Operator, WriteRow(o)
        PROVE  Inv'
    <2>1. TypeOK'
      BY <1>t, <1>3 DEF WriteRow, Finish, TypeOK
    <2>2. Ops'
      BY <1>t, <1>3 DEF WriteRow, Finish, TypeOK, Ops
    <2>3. Exclusive'
      BY <1>t, <1>3 DEF WriteRow, RowFree, Finish, TypeOK, Exclusive, HoldsRow
    <2>4. LogExplainsTable'
      BY <1>3, SameTables DEF WriteRow
    <2> QED
      BY <2>1, <2>2, <2>3, <2>4 DEF Inv
  <1>4. ASSUME NEW o \in Operator, CommitChange(o)
        PROVE  Inv'
    <2> DEFINE r   == todo[o].rule
               row == Written(todo[o], read[o], rule[r])
               e   == EntryOf(todo[o], read[o])
    <2>1. r \in Rule /\ row \in Row /\ e \in Entry /\ pc[o] = "log"
      BY <1>4, CommitRow DEF CommitChange
    <2>2. /\ rule' = [rule EXCEPT ![r] = row] /\ log' = Append(log, e)
          /\ UNCHANGED <<todo, read>> /\ pc' = [pc EXCEPT ![o] = "done"]
          /\ \E a \in {"ok", "error"} : reply' = [reply EXCEPT ![o] = a]
      BY <1>4 DEF CommitChange, Finish
    <2> HIDE DEF row, e
    <2>3. TypeOK'
      BY <1>t, <2>1, <2>2 DEF TypeOK
    <2>4. Ops'
      <3>1. /\ pc'[o] = "done" /\ rule'[r] # None
            /\ \A q \in Rule \ {r} : rule'[q] = rule[q]
            /\ \A q \in Operator \ {o} : pc'[q] = pc[q]
        BY <1>n, <1>t, <2>1, <2>2 DEF TypeOK
      <3>2. \A q \in Operator \ {o} : pc[q] = "log" => todo[q].rule # r
        BY <1>t, <2>1 DEF Exclusive, HoldsRow
      <3>3. ASSUME NEW q \in Operator
            PROVE  /\ pc'[q] = "idle" \/ todo'[q] \in Task
                   /\ todo'[q].kind = "create" => Complete(todo'[q].input)
                   /\ pc'[q] \in {"write", "log"} /\ todo'[q].kind # "create" =>
                         read'[q] # None /\ ~read'[q].deleted /\ rule'[todo'[q].rule] # None
                   /\ pc'[q] = "log" /\ todo'[q].kind = "create" => rule'[todo'[q].rule] = None
        <4>1. pc[q] = "idle" \/ todo[q].rule \in Rule
          BY <1>t, TaskKinds DEF Ops
        <4>2. CASE q = o
          BY <1>t, <2>1, <2>2, <3>1, <4>2 DEF Ops
        <4>3. CASE q # o
          BY <1>t, <2>1, <2>2, <3>1, <3>2, <4>1, <4>3 DEF Ops
        <4> QED
          BY <4>2, <4>3
      <3> QED
        BY <3>3 DEF Ops
    <2>5. Exclusive'
      BY <1>t, <2>2 DEF TypeOK, Exclusive, HoldsRow
    <2>6. LogExplainsTable'
      BY <1>4, CommitLog
    <2> QED
      BY <2>3, <2>4, <2>5, <2>6 DEF Inv
  <1>5. ASSUME NEW o \in Operator, Fail(o)
        PROVE  Inv'
    <2>1. TypeOK' /\ Ops'
      BY <1>t, <1>5 DEF Fail, Finish, TypeOK, Ops
    <2>2. Exclusive'
      BY <1>t, <1>5 DEF Fail, Finish, TypeOK, Exclusive, HoldsRow
    <2>3. LogExplainsTable'
      BY <1>5, SameTables DEF Fail
    <2> QED
      BY <2>1, <2>2, <2>3 DEF Inv
  <1>6. CASE UNCHANGED vars
    <2>1. TypeOK' /\ Ops' /\ Exclusive'
      BY <1>t, <1>6 DEF vars, TypeOK, Ops, Exclusive, HoldsRow
    <2>2. LogExplainsTable'
      BY <1>6, SameTables DEF vars
    <2> QED
      BY <2>1, <2>2 DEF Inv
  <1> QED
    BY <1>1, <1>2, <1>3, <1>4, <1>5, <1>6 DEF Next, Step

-----------------------------------------------------------------------------
(* The log and the answers.  Every operation with the answer "ok" has an     *)
(* entry of its own, and an entry without one was answered "error": the      *)
(* witnesses grow with the log, one pair per commit.                         *)

AnswerKnown == \A o \in Operator : reply[o] # "none" <=> pc[o] = "done"

Replied(r, a) == {o \in Operator : todo[o].rule = r /\ reply[o] \in {a}}

Told(r) == \E f \in [Replied(r, "ok") -> Of(r)] :
               /\ \A o, q \in Replied(r, "ok") : f[o] = f[q] => o = q
               /\ \A o \in Replied(r, "ok") : log[f[o]] = EntryOf(todo[o], read[o])

Matched(r) == (Replied(r, "error") = {}) => \E f \in [Of(r) -> Replied(r, "ok")] :
                  \A i, j \in Of(r) : f[i] = f[j] => i = j

LEMMA CountsParts == LogCountsAnswers <=> \A r \in Rule : Told(r) /\ Matched(r)
  BY DEF LogCountsAnswers, Told, Matched, Replied

LEMMA CountsPartsNext == LogCountsAnswers' <=> \A r \in Rule : Told(r)' /\ Matched(r)'
  BY DEF LogCountsAnswers, Told, Matched, Replied

\* What keeps both for a rule: the same answers "ok", with what was asked and
\* read, the same entries, and no "error" taken back.
LEMMA SameCounts ==
    ASSUME NEW r \in Rule, Told(r), Matched(r),
           Replied(r, "ok")' = Replied(r, "ok"),
           Replied(r, "error") \subseteq Replied(r, "error")',
           \A o \in Replied(r, "ok") : todo'[o] = todo[o] /\ read'[o] = read[o],
           Of(r)' = Of(r),
           \A i \in Of(r) : log'[i] = log[i]
    PROVE  Told(r)' /\ Matched(r)'
  <1>1. Told(r)'
    <2>1. PICK f \in [Replied(r, "ok") -> Of(r)] :
              /\ \A o, q \in Replied(r, "ok") : f[o] = f[q] => o = q
              /\ \A o \in Replied(r, "ok") : log[f[o]] = EntryOf(todo[o], read[o])
      BY DEF Told
    <2>2. \A o \in Replied(r, "ok") : EntryOf(todo[o], read[o])' = EntryOf(todo[o], read[o])
      BY DEF EntryOf, Created, Merged, UpdateAction, Deleted
    <2>3. \A o \in Replied(r, "ok") : log'[f[o]] = EntryOf(todo[o], read[o])'
      BY <2>1, <2>2
    <2> QED
      BY <2>1, <2>3 DEF Told
  <1>2. Matched(r)'
    BY DEF Matched
  <1> QED
    BY <1>1, <1>2

\* A step that does not commit: of one operation that has no answer yet.
LEMMA QuietCounts ==
    ASSUME TypeOK, AnswerKnown, LogCountsAnswers, log' = log,
           NEW o \in Operator, pc[o] # "done", reply'[o] # "ok",
           \A q \in Operator \ {o} :
               reply'[q] = reply[q] /\ todo'[q] = todo[q] /\ read'[q] = read[q]
    PROVE  LogCountsAnswers'
  <1>1. reply[o] = "none"
    BY DEF AnswerKnown
  <1>2. SUFFICES ASSUME NEW r \in Rule
                 PROVE  Told(r)' /\ Matched(r)'
    BY CountsPartsNext
  <1>3. /\ Replied(r, "ok")' = Replied(r, "ok")
        /\ Replied(r, "error") \subseteq Replied(r, "error")'
        /\ \A q \in Replied(r, "ok") : todo'[q] = todo[q] /\ read'[q] = read[q]
    BY <1>1 DEF Replied
  <1>4. Of(r)' = Of(r)
    BY DEF Of
  <1> QED
    BY <1>3, <1>4, CountsParts, SameCounts

LEMMA CommitCounts ==
    ASSUME Inv, AnswerKnown, LogCountsAnswers, NEW o \in Operator, CommitChange(o),
           NEW s, s = todo[o].rule
    PROVE  LogCountsAnswers'
  <1> DEFINE e == EntryOf(todo[o], read[o])
             n == Len(log) + 1
  <1>1. s \in Rule /\ e \in Entry /\ e.rule = s /\ pc[o] = "log" /\ reply[o] = "none"
    BY CommitRow DEF CommitChange, AnswerKnown
  <1>2. /\ log' = Append(log, e) /\ todo' = todo /\ read' = read
        /\ \E a \in {"ok", "error"} : reply' = [reply EXCEPT ![o] = a]
    BY DEF CommitChange, Finish
  <1>e. EntryOf(todo[o], read[o])' = e
    BY <1>2 DEF EntryOf, Created, Merged, UpdateAction, Deleted
  <1> HIDE DEF e
  <1>t. log \in Seq(Entry) /\ TypeOK
    BY DEF Inv, TypeOK
  <1>3. /\ n \in Nat /\ DOMAIN log = 1..(n - 1) /\ DOMAIN log' = 1..n
        /\ log'[n] = e
        /\ \A i \in DOMAIN log : log'[i] = log[i] /\ i < n
    BY <1>1, <1>2, <1>t
  <1>4. PICK a \in {"ok", "error"} : reply' = [reply EXCEPT ![o] = a]
    BY <1>2
  <1>5. reply'[o] = a /\ \A q \in Operator \ {o} : reply'[q] = reply[q]
    BY <1>4, <1>t DEF TypeOK
  <1>6. \A r \in Rule : Of(r) \subseteq 1..(n - 1) /\ \A i \in Of(r) : log'[i] = log[i]
    BY <1>3 DEF Of
  <1>7. ASSUME NEW r \in Rule, r # s
        PROVE  Told(r)' /\ Matched(r)'
    <2>1. Of(r)' = Of(r)
      BY <1>1, <1>3, <1>7 DEF Of
    <2>2. \A x \in {"ok", "error"} : Replied(r, x)' = Replied(r, x)
      BY <1>2, <1>5, <1>7 DEF Replied
    <2> QED
      BY <1>2, <1>6, <2>1, <2>2, CountsParts, SameCounts
  <1>8. Of(s)' = Of(s) \union {n} /\ n \notin Of(s)
    BY <1>1, <1>2, <1>3, <1>6 DEF Of
  <1>9. PICK f \in [Replied(s, "ok") -> Of(s)] :
            /\ \A q, p \in Replied(s, "ok") : f[q] = f[p] => q = p
            /\ \A q \in Replied(s, "ok") : log[f[q]] = EntryOf(todo[q], read[q])
    BY <1>1, CountsParts DEF Told
  <1>10. \A q \in Replied(s, "ok") :
            log'[f[q]] = EntryOf(todo[q], read[q]) /\ EntryOf(todo[q], read[q])' = EntryOf(todo[q], read[q])
    <2>1. \A q \in Operator : EntryOf(todo[q], read[q])' = EntryOf(todo[q], read[q])
      BY <1>2 DEF EntryOf, Created, Merged, UpdateAction, Deleted
    <2> QED
      BY <1>1, <1>6, <1>9, <2>1 DEF Replied
  <1>11. o \notin Replied(s, "ok")
    BY <1>1 DEF Replied
  <1>12. ASSUME a = "ok"
         PROVE  Told(s)' /\ Matched(s)'
    <2>1. /\ (Replied(s, "ok"))' = Replied(s, "ok") \union {o}
          /\ (Replied(s, "error"))' = Replied(s, "error")
      BY <1>1, <1>2, <1>5, <1>12 DEF Replied
    <2> DEFINE g == [q \in Replied(s, "ok") \union {o} |-> IF q = o THEN n ELSE f[q]]
    <2>2. /\ g \in [Replied(s, "ok") \union {o} -> Of(s) \union {n}]
          /\ \A q, p \in Replied(s, "ok") \union {o} : g[q] = g[p] => q = p
      BY <1>8, <1>9, <1>11
    <2>3. \A q \in Replied(s, "ok") \union {o} : log'[g[q]] = EntryOf(todo[q], read[q])'
      BY <1>e, <1>3, <1>10, <1>11
    <2> HIDE DEF g
    <2>4. Told(s)'
      <3> DEFINE A == (Replied(s, "ok"))'
                 B == Of(s)'
      <3>1. A = Replied(s, "ok") \union {o} /\ B = Of(s) \union {n}
        BY <1>8, <2>1
      <3>2. /\ g \in [A -> B]
            /\ \A q, p \in A : g[q] = g[p] => q = p
            /\ \A q \in A : log'[g[q]] = EntryOf(todo[q], read[q])'
        <4> HIDE DEF A, B
        <4> QED
          BY <3>1, <2>2, <2>3
      <3> QED
        BY <3>2, Zenon DEF Told
    <2>5. Matched(s)'
      <3> DEFINE A == (Replied(s, "ok"))'
                 B == Of(s)'
      <3>1. A = Replied(s, "ok") \union {o} /\ B = Of(s) \union {n}
        BY <1>8, <2>1
      <3>2. ASSUME Replied(s, "error") = {}
            PROVE  \E k \in [B -> A] : \A i, j \in B : k[i] = k[j] => i = j
        <4>1. PICK h \in [Of(s) -> Replied(s, "ok")] :
                  \A i, j \in Of(s) : h[i] = h[j] => i = j
          BY <1>1, <3>2, CountsParts DEF Matched
        <4> DEFINE k == [i \in Of(s) \union {n} |-> IF i = n THEN o ELSE h[i]]
        <4>2. /\ k \in [Of(s) \union {n} -> Replied(s, "ok") \union {o}]
              /\ \A i, j \in Of(s) \union {n} : k[i] = k[j] => i = j
          BY <1>8, <1>11, <4>1
        <4> HIDE DEF k
        <4> QED
          BY <3>1, <4>2
      <3> QED
        BY <2>1, <3>2 DEF Matched
    <2> QED
      BY <2>4, <2>5
  <1>13. ASSUME a = "error"
         PROVE  Told(s)' /\ Matched(s)'
    <2>1. /\ (Replied(s, "ok"))' = Replied(s, "ok")
          /\ o \in (Replied(s, "error"))'
      BY <1>1, <1>2, <1>5, <1>13 DEF Replied
    <2>2. f \in [Replied(s, "ok") -> Of(s) \union {n}]
      BY <1>9
    <2>3. Told(s)'
      BY <1>8, <1>9, <1>10, <2>1, <2>2 DEF Told
    <2>4. Matched(s)'
      BY <1>8, <2>1 DEF Matched
    <2> QED
      BY <2>3, <2>4
  <1>14. Told(s)' /\ Matched(s)'
    BY <1>4, <1>12, <1>13
  <1> QED
    BY <1>7, <1>14, CountsPartsNext

LEMMA CountsNext ==
    ASSUME Inv, AnswerKnown, LogCountsAnswers, [Next]_vars
    PROVE  AnswerKnown' /\ LogCountsAnswers'
  <1>t. TypeOK
    BY DEF Inv
  <1>1. ASSUME NEW o \in Operator, NEW t \in Task, Request(o, t)
        PROVE  AnswerKnown' /\ LogCountsAnswers'
    <2>1. AnswerKnown'
      BY <1>t, <1>1 DEF Request, TypeOK, AnswerKnown
    <2>2. /\ log' = log /\ pc[o] # "done" /\ reply'[o] # "ok"
          /\ \A q \in Operator \ {o} :
                reply'[q] = reply[q] /\ todo'[q] = todo[q] /\ read'[q] = read[q]
      BY <1>t, <1>1 DEF Request, TypeOK, AnswerKnown
    <2> QED
      BY <1>t, <2>1, <2>2, QuietCounts
  <1>2. ASSUME NEW o \in Operator, GetRule(o) \/ WriteRow(o) \/ Fail(o)
        PROVE  AnswerKnown' /\ LogCountsAnswers'
    <2>1. AnswerKnown'
      BY <1>t, <1>2 DEF GetRule, WriteRow, Fail, Finish, TypeOK, AnswerKnown
    <2>2. /\ log' = log /\ pc[o] # "done" /\ reply'[o] # "ok"
          /\ \A q \in Operator \ {o} :
                reply'[q] = reply[q] /\ todo'[q] = todo[q] /\ read'[q] = read[q]
      BY <1>t, <1>2 DEF GetRule, WriteRow, Fail, Finish, TypeOK, AnswerKnown
    <2> QED
      BY <1>t, <2>1, <2>2, QuietCounts
  <1>3. ASSUME NEW o \in Operator, CommitChange(o)
        PROVE  AnswerKnown' /\ LogCountsAnswers'
    <2>1. AnswerKnown'
      BY <1>t, <1>3 DEF CommitChange, Finish, TypeOK, AnswerKnown
    <2> QED
      BY <1>3, <2>1, CommitCounts
  <1>4. CASE UNCHANGED vars
    <2>1. AnswerKnown'
      BY <1>4 DEF vars, AnswerKnown
    <2>2. ASSUME NEW r \in Rule
          PROVE  Told(r)' /\ Matched(r)'
      <3>1. /\ Of(r)' = Of(r)
            /\ \A x \in {"ok", "error"} : Replied(r, x)' = Replied(r, x)
            /\ log' = log /\ todo' = todo /\ read' = read
        BY <1>4 DEF vars, Of, Replied
      <3> QED
        BY <3>1, CountsParts, SameCounts
    <2> QED
      BY <2>1, <2>2, CountsPartsNext
  <1> QED
    BY <1>1, <1>2, <1>3, <1>4 DEF Next, Step

LEMMA InitCounts == Init => AnswerKnown /\ LogCountsAnswers
  <1> SUFFICES ASSUME Init
               PROVE  AnswerKnown /\ LogCountsAnswers
    OBVIOUS
  <1>1. AnswerKnown
    BY DEF Init, AnswerKnown
  <1>2. ASSUME NEW r \in Rule
        PROVE  Told(r) /\ Matched(r)
    <2>1. Replied(r, "ok") = {} /\ Of(r) = {}
      BY DEF Init, Replied, Of
    <2>2. [x \in {} |-> x] \in [{} -> {}]
      OBVIOUS
    <2> QED
      BY <2>1, <2>2 DEF Told, Matched
  <1> QED
    BY <1>1, <1>2, CountsParts

-----------------------------------------------------------------------------
(* The theorems.                                                           *)

THEOREM Invariance == Spec => []Inv
  BY InitInv, NextInv, PTL DEF Spec

\* The variables keep their types.
THEOREM TypeCorrect == Spec => []TypeOK
  <1>1. Inv => TypeOK
    BY DEF Inv
  <1> QED
    BY <1>1, Invariance, PTL

\* The change log accounts for the table of the rules at all times, although
\* every entry is computed from a row read before its transaction.
THEOREM LogStaysTrue == Spec => []LogExplainsTable
  <1>1. Inv => LogExplainsTable
    BY DEF Inv
  <1> QED
    BY <1>1, Invariance, PTL

\* The answers agree with the log: an "ok" has its entry, and an entry without
\* an "ok" belongs to an operation answered "error", after its COMMIT.
THEOREM AnswersStayLogged == Spec => []LogCountsAnswers
  <1>1. Inv /\ (AnswerKnown /\ LogCountsAnswers) /\ [Next]_vars
            => (AnswerKnown /\ LogCountsAnswers)'
    BY CountsNext
  <1>2. Spec => [](AnswerKnown /\ LogCountsAnswers)
    BY <1>1, InitCounts, Invariance, PTL DEF Spec
  <1> QED
    BY <1>2, PTL

\* A deleted rule stays deleted, whatever was read of it before.
THEOREM DeletedForGood == Spec => DeletedStays
  <1> DEFINE Stays == \A r \in Rule : rule[r] # None /\ rule[r].deleted =>
                         rule'[r] # None /\ rule'[r].deleted
  <1>1. ASSUME Inv, [Next]_vars
        PROVE  [Stays]_vars
    <2>1. ASSUME NEW o \in Operator, CommitChange(o)
          PROVE  Stays
      <3> DEFINE r   == todo[o].rule
                 row == Written(todo[o], read[o], rule[r])
      <3>1. /\ r \in Rule /\ row \in Row
            /\ rule[r] # None /\ rule[r].deleted => row.deleted
        BY <1>1, <2>1, CommitRow DEF CommitChange
      <3>2. rule' = [rule EXCEPT ![r] = row]
        BY <2>1 DEF CommitChange
      <3> HIDE DEF r, row
      <3>3. rule \in [Rule -> Row \union {None}] /\ None \notin Row
        BY <1>1, RuleAdminAssumption DEF Inv, TypeOK
      <3> QED
        BY <3>1, <3>2, <3>3
    <2>2. CASE UNCHANGED rule
      BY <2>2
    <2> QED
      BY <1>1, <2>1, <2>2 DEF Next, Step, Request, GetRule, WriteRow, Fail
  <1> QED
    BY <1>1, Invariance, PTL DEF Spec, DeletedStays
=============================================================================
