------------------------------ MODULE RuleAdmin ------------------------------
(***************************************************************************)
(* CreateRule, UpdateRule and DeleteRule, called by concurrent operators.  *)
(*                                                                         *)
(* Each reads the rule with a plain SELECT, decides, computes the new row  *)
(* and the change-log entry from what it read, and only then opens the     *)
(* transaction that writes the row (which locks it, or its key in the      *)
(* unique index) and appends the entry.  Nothing in that transaction looks *)
(* at the row again.                                                       *)
(***************************************************************************)
EXTENDS Naturals, Sequences

CONSTANTS
    Rule,     \* rule ids
    Operator, \* requests, one operation each
    Field,    \* name, topic, matcher: kept by an update that omits them
    Value,    \* what a field can hold
    None,     \* no rule, no row, an omitted field
    Faults    \* TRUE: statements may fail

Row == [text : [Field -> Value], enabled : BOOLEAN, deleted : BOOLEAN]

ASSUME RuleAdminAssumption == /\ None \notin Rule \union Value \union Row
                              /\ Faults \in BOOLEAN

VARIABLES
    rule,   \* the committed route_rule table: Rule -> row or None
    log,    \* the committed route_rule_change_log, in commit order
    pc,     \* where each operation is
    todo,   \* what it was asked to do
    read,   \* the row its GetRule returned
    reply   \* its answer

vars == <<rule, log, pc, todo, read, reply>>

\* A RuleInput: an update may omit a field, but not enabled (nor priority).
Input == [text : [Field -> Value \union {None}], enabled : BOOLEAN]

Complete(in) == \A f \in Field : in.text[f] # None

Task == [kind : {"create", "update"}, rule : Rule, input : Input]
        \union [kind : {"delete"}, rule : Rule]

Idle == [kind |-> "none", rule |-> None]

Entry == [rule   : Rule,
          action : {"create", "update", "enable", "disable", "delete"},
          before : Row \union {None},
          after  : Row]

-----------------------------------------------------------------------------
(* The rows and entries the operations compute from what they read.        *)

Created(in) == [text |-> in.text, enabled |-> in.enabled, deleted |-> FALSE]

\* An update that takes an omitted field for an empty one.
MergedBlank(old, in) == [text |-> in.text, enabled |-> in.enabled, deleted |-> old.deleted]

Merged(old, in) ==
    [text    |-> [f \in Field |-> IF in.text[f] = None THEN old.text[f] ELSE in.text[f]],
     enabled |-> in.enabled,
     deleted |-> old.deleted]

Deleted(old) == [old EXCEPT !.enabled = FALSE, !.deleted = TRUE]

UpdateAction(old, new) == IF ~old.enabled /\ new.enabled THEN "enable"
                          ELSE IF old.enabled /\ ~new.enabled THEN "disable"
                          ELSE "update"

EntryOf(t, old) ==
    CASE t.kind = "create" -> [rule |-> t.rule, action |-> "create", before |-> None,
                               after |-> Created(t.input)]
      [] t.kind = "update" -> [rule |-> t.rule, before |-> old,
                               after |-> Merged(old, t.input),
                               action |-> UpdateAction(old, Merged(old, t.input))]
      [] t.kind = "delete" -> [rule |-> t.rule, action |-> "delete", before |-> old,
                               after |-> Deleted(old)]

\* An UPDATE that writes every column back, deleted_at with the others.
WrittenWhole(t, old, cur) ==
    CASE t.kind = "create" -> Created(t.input)
      [] t.kind = "update" -> Merged(old, t.input)
      [] t.kind = "delete" -> Deleted(cur)

\* The row after the statement: an update sets every column but deleted_at
\* from what was read, SoftDelete sets only deleted_at and enabled.
Written(t, old, cur) ==
    CASE t.kind = "create" -> Created(t.input)
      [] t.kind = "update" -> [Merged(old, t.input) EXCEPT !.deleted = cur.deleted]
      [] t.kind = "delete" -> Deleted(cur)

-----------------------------------------------------------------------------

Init == /\ rule  = [r \in Rule |-> None]
        /\ log   = <<>>
        /\ pc    = [o \in Operator |-> "idle"]
        /\ todo  = [o \in Operator |-> Idle]
        /\ read  = [o \in Operator |-> None]
        /\ reply = [o \in Operator |-> "none"]

Finish(o, answer) == /\ pc' = [pc EXCEPT ![o] = "done"]
                     /\ reply' = [reply EXCEPT ![o] = answer]

\* The transaction has written its row or index entry and holds its lock.
HoldsRow(o) == pc[o] = "log"

RowFree(r) == \A o \in Operator : HoldsRow(o) => todo[o].rule # r

\* The validation of CreateRule lets only complete inputs through.
Request(o, t) == /\ pc[o] = "idle"
                 /\ t.kind = "create" => Complete(t.input)
                 /\ todo' = [todo EXCEPT ![o] = t]
                 /\ pc' = [pc EXCEPT ![o] = "read"]
                 /\ UNCHANGED <<rule, log, read, reply>>

Missing(r) == rule[r] = None \/ rule[r].deleted

\* GetRule on the pool.  An id is taken even if its rule is deleted.
GetRule(o) ==
    /\ pc[o] = "read"
    /\ LET r == todo[o].rule
           rejected == IF todo[o].kind = "create" THEN rule[r] # None ELSE Missing(r)
       IN IF rejected
            THEN /\ Finish(o, IF todo[o].kind = "create" THEN "conflict" ELSE "not_found")
                 /\ UNCHANGED read
            ELSE /\ read' = [read EXCEPT ![o] = rule[r]]
                 /\ pc' = [pc EXCEPT ![o] = "write"]
                 /\ UNCHANGED reply
    /\ UNCHANGED <<rule, log, todo>>

\* An INSERT with ON CONFLICT DO UPDATE.
WriteRowUpsert(o) == /\ pc[o] = "write"
                     /\ RowFree(todo[o].rule)
                     /\ pc' = [pc EXCEPT ![o] = "log"]
                     /\ UNCHANGED <<rule, log, todo, read, reply>>

\* BEGIN and the INSERT or UPDATE: it waits for the transaction that wrote the
\* row before, and an INSERT then meets a unique violation, reported as 409.
WriteRow(o) ==
    /\ pc[o] = "write"
    /\ RowFree(todo[o].rule)
    /\ IF todo[o].kind = "create" /\ rule[todo[o].rule] # None
         THEN Finish(o, "conflict")
         ELSE pc' = [pc EXCEPT ![o] = "log"] /\ UNCHANGED reply
    /\ UNCHANGED <<rule, log, todo, read>>

\* A commit that goes ahead when AppendChange has failed.
CommitUnlogged(o) ==
    /\ pc[o] = "log"
    /\ rule' = [rule EXCEPT ![todo[o].rule] =
                  Written(todo[o], read[o], rule[todo[o].rule])]
    /\ log' \in {log, Append(log, EntryOf(todo[o], read[o]))}
    /\ Finish(o, "ok")
    /\ UNCHANGED <<todo, read>>

\* AppendChange and COMMIT.
CommitChange(o) ==
    /\ pc[o] = "log"
    /\ rule' = [rule EXCEPT ![todo[o].rule] =
                  Written(todo[o], read[o], rule[todo[o].rule])]
    /\ log' = Append(log, EntryOf(todo[o], read[o]))
    /\ \/ Finish(o, "ok")
       \/ Faults /\ Finish(o, "error")
    /\ UNCHANGED <<todo, read>>

\* A statement fails or the operator goes away: rolled back.
Fail(o) == /\ Faults
           /\ pc[o] \in {"read", "write", "log"}
           /\ Finish(o, "error")
           /\ UNCHANGED <<rule, log, todo, read>>

Step(o) == GetRule(o) \/ WriteRow(o) \/ CommitChange(o)

Next == \E o \in Operator : \/ \E t \in Task : Request(o, t)
                            \/ Step(o)
                            \/ Fail(o)

Spec == Init /\ [][Next]_vars

-----------------------------------------------------------------------------
(* Safety.                                                                 *)

\* The types of the variables.
TypeOK == /\ rule  \in [Rule -> Row \union {None}]
          /\ log   \in Seq(Entry)
          /\ pc    \in [Operator -> {"idle", "read", "write", "log", "done"}]
          /\ todo  \in [Operator -> Task \union {Idle}]
          /\ read  \in [Operator -> Row \union {None}]
          /\ reply \in [Operator -> {"none", "ok", "not_found", "conflict", "error"}]

Of(r) == {i \in DOMAIN log : log[i].rule = r}

IsLast(i, S) == i \in S /\ \A j \in S : j <= i

\* The log accounts for the table, whatever fails and whoever overlaps: a rule
\* exists from exactly one "create", its first entry; it is deleted exactly if
\* a "delete" was logged; and its last entry says whether it is enabled, and,
\* unless that entry is a "delete", what it holds.
LogExplainsTable ==
    \A r \in Rule :
        /\ rule[r] = None <=> Of(r) = {}
        /\ \A i \in Of(r) : log[i].action = "create" <=> \A j \in Of(r) : i <= j
        /\ rule[r] # None =>
               /\ rule[r].deleted <=> \E i \in Of(r) : log[i].action = "delete"
               /\ \A i \in Of(r) : IsLast(i, Of(r)) =>
                      /\ rule[r].enabled = log[i].after.enabled
                      /\ log[i].action # "delete" => rule[r].text = log[i].after.text

\* An operation is reported to have succeeded only if its entry is in the log,
\* and the answers "conflict" and "not_found" leave none behind.
LogCountsAnswers ==
    \A r \in Rule :
        LET ops(kinds) == {o \in Operator : todo[o].rule = r /\ reply[o] \in kinds}
            ok == ops({"ok"})
        IN /\ \E f \in [ok -> Of(r)] :
                 /\ \A o, q \in ok : f[o] = f[q] => o = q
                 /\ \A o \in ok : log[f[o]] = EntryOf(todo[o], read[o])
           /\ (ops({"error"}) = {}) => \E f \in [Of(r) -> ok] :
                 \A i, j \in Of(r) : f[i] = f[j] => i = j

\* A rule that is deleted stays deleted and can no longer route: no request
\* that read it before, and no CreateRule with its id, brings it back.
DeletedStays ==
    [][\A r \in Rule : rule[r] # None /\ rule[r].deleted =>
           rule'[r] # None /\ rule'[r].deleted]_vars
=============================================================================
