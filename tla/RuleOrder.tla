------------------------------ MODULE RuleOrder ------------------------------
(***************************************************************************)
(* Router.Match: the rules an event goes to, in the order of their topics. *)
(*                                                                         *)
(* A rule says whether its device pattern and its metrics fit the event at *)
(* hand; its expression is put to matchExpr (see module RuleMatch).        *)
(***************************************************************************)
EXTENDS Integers, Sequences, FiniteSets, SequencesExt

CONSTANTS Accepts(_), \* matchExpr
          RuleId,     \* rule_ids, of which only the order matters
          Priority,   \* priorities
          Expr        \* expressions

ASSUME RuleOrderAssumption == RuleId \subseteq Int /\ Priority \subseteq Int

VARIABLE rules \* the rules to match

Rule == [id : RuleId, priority : Priority, enabled : BOOLEAN, deleted : BOOLEAN,
         device : BOOLEAN, metric : BOOLEAN, expr : Expr]

\* Ties in priority left to the sort, which is not stable.
BeforeUntied(a, b) == a.priority > b.priority

Before(a, b) == \/ a.priority > b.priority
                \/ a.priority = b.priority /\ a.id < b.id

Selected(rls) == {r \in rls : /\ r.enabled /\ ~r.deleted
                              /\ r.device /\ r.metric
                              /\ Accepts(r.expr)}

\* What sort.Slice may return: any order in which no rule precedes one that
\* is to come before it.
Matches(rls) ==
    {s \in SetToSeqs(Selected(rls)) :
         \A i, j \in DOMAIN s : i < j => ~Before(s[j], s[i])}

RulesInit == rules = {}

\* The id of a rule is the key of its table.
AddRule(r) == /\ \A q \in rules : q.id # r.id
              /\ rules' = rules \union {r}

RulesSpec == RulesInit /\ [][\E r \in Rule : AddRule(r)]_rules

\* Router.Match: the rules decide the order of the topics, so that the answer
\* to a repeat lists them as the answer to the first report did.
OneOrder == Cardinality(Matches(rules)) = 1
=============================================================================
