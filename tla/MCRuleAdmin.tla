----------------------------- MODULE MCRuleAdmin -----------------------------
(* Values for model checking RuleAdmin.                                    *)
EXTENDS RuleAdmin, TLC

\* Operators, and the values of a field, are interchangeable.
MCSymmetry == Permutations(Operator) \union Permutations(Value) \union Permutations(Rule)
=============================================================================
