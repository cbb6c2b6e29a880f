------------------------------ MODULE RuleMatch ------------------------------
(***************************************************************************)
(* matchExpr: what the expression of a rule says of an event.              *)
(*                                                                         *)
(* An expression is a sequence of tokens.  A whole comparison is one       *)
(* token: what it comes to for the event at hand, or "bad" if it is        *)
(* malformed, has an unknown field or compares a value to no number.  The  *)
(* words "and" and "or" where a comparison is expected are read as the     *)
(* name of an unknown field by the code, an error like any other.          *)
(***************************************************************************)
EXTENDS Integers, Sequences

Comparison == {"true", "false", "bad"}
Token      == Comparison \union {"(", ")", "and", "or"}

VARIABLE text \* the tokens of the expression

TextInit == text = <<>>

NextToken(tok) == text' = Append(text, tok)

TextSpec == TextInit /\ [][\E tok \in Token : NextToken(tok)]_text

-----------------------------------------------------------------------------
(* The recursive descent parser, which evaluates as it goes.  A result has *)
(* the position after what was read.                                       *)

Position(s) == 1..(Len(s) + 1)

Result(s) == [ok : BOOLEAN, val : BOOLEAN, pos : Position(s)]

Error == [ok |-> FALSE, val |-> FALSE, pos |-> 1]

Read(val, pos) == [ok |-> TRUE, val |-> val, pos |-> pos]

\* Nothing read yet, at a position.
From(pos) == Read(FALSE, pos)

\* peekKeyword, and the checks for a parenthesis, at the end of the text too.
At(s, pos, tok) == pos <= Len(s) /\ s[pos] = tok

\* The procedures and the loops of two of them.  The body of each is given in
\* terms of what a function f says of the calls in it; left is what has been
\* read when it begins.
Call(s) == {"or", "orRest", "and", "andRest", "atom"} \X Result(s)

ParseOr(f, left) == f[<<"orRest", f[<<"and", left>>]>>]

\* The loop of parseOr.
OrRest(f, s, left) ==
    IF ~left.ok \/ ~At(s, left.pos, "or") THEN left
    ELSE LET right == f[<<"and", From(left.pos + 1)>>] IN
         IF right.ok THEN f[<<"orRest", Read(left.val \/ right.val, right.pos)>>] ELSE Error

ParseAnd(f, left) == f[<<"andRest", f[<<"atom", left>>]>>]

\* The loop of parseAnd.
AndRest(f, s, left) ==
    IF ~left.ok \/ ~At(s, left.pos, "and") THEN left
    ELSE LET right == f[<<"atom", From(left.pos + 1)>>] IN
         IF right.ok THEN f[<<"andRest", Read(left.val /\ right.val, right.pos)>>] ELSE Error

ParseAtom(f, s, left) ==
    IF At(s, left.pos, "(")
      THEN LET inner == f[<<"or", From(left.pos + 1)>>] IN
           IF inner.ok /\ At(s, inner.pos, ")") THEN Read(inner.val, inner.pos + 1) ELSE Error
      ELSE IF At(s, left.pos, "true") \/ At(s, left.pos, "false")
             THEN Read(s[left.pos] = "true", left.pos + 1)
             ELSE Error

Body(f, s, call) == CASE call[1] = "or"      -> ParseOr(f, call[2])
                      [] call[1] = "orRest"  -> OrRest(f, s, call[2])
                      [] call[1] = "and"     -> ParseAnd(f, call[2])
                      [] call[1] = "andRest" -> AndRest(f, s, call[2])
                      [] call[1] = "atom"    -> ParseAtom(f, s, call[2])

Parser(s) == LET parse[call \in Call(s)] == Body(parse, s, call) IN parse

\* A matcher that takes a prefix for the whole expression.
MatchExprPrefix(s) == \/ s = <<>>
                      \/ LET p == Parser(s)[<<"or", From(1)>>] IN p.ok /\ p.val

\* No expression matches everything; an error, or text left over, nothing.
MatchExpr(s) == \/ s = <<>>
                \/ LET p == Parser(s)[<<"or", From(1)>>] IN p.ok /\ p.pos = Len(s) + 1 /\ p.val

-----------------------------------------------------------------------------
(* The grammar, as the comment of matchExpr gives it: the values that the  *)
(* tokens from i to before j can have as an expr, an andExpr or an atom,   *)
(* none if they are none.                                                  *)

Segment(s) == {"or", "and", "atom"} \X Position(s) \X Position(s)

\* Where they can be cut at a keyword.
Cuts(s, i, j, keyword) == {k \in (i + 1)..(j - 2) : s[k] = keyword}

OrValues(f, s, i, j) ==
    f[<<"and", i, j>>] \union
    {v \in BOOLEAN : \E k \in Cuts(s, i, j, "or") :
        \E a \in f[<<"or", i, k>>], b \in f[<<"and", k + 1, j>>] : v = (a \/ b)}

AndValues(f, s, i, j) ==
    f[<<"atom", i, j>>] \union
    {v \in BOOLEAN : \E k \in Cuts(s, i, j, "and") :
        \E a \in f[<<"and", i, k>>], b \in f[<<"atom", k + 1, j>>] : v = (a /\ b)}

AtomValues(f, s, i, j) ==
    IF j = i + 1 THEN {v \in BOOLEAN : s[i] = IF v THEN "true" ELSE "false"}
    ELSE IF j > i + 2 /\ s[i] = "(" /\ s[j - 1] = ")" THEN f[<<"or", i + 1, j - 1>>]
    ELSE {}

ValuesOf(f, s, seg) == CASE seg[1] = "or"   -> OrValues(f, s, seg[2], seg[3])
                         [] seg[1] = "and"  -> AndValues(f, s, seg[2], seg[3])
                         [] seg[1] = "atom" -> AtomValues(f, s, seg[2], seg[3])

Grammar(s) == LET values[seg \in Segment(s)] == ValuesOf(values, s, seg) IN values

\* matchExpr routes an event exactly if its expression is empty or a sentence
\* of the grammar that comes to true: "and" binds tighter than "or", no
\* malformed expression routes (expr.go:22-23), and the grammar is unambiguous.
MatcherFollowsGrammar ==
    LET values == Grammar(text)[<<"or", 1, Len(text) + 1>>]
    IN (MatchExpr(text) <=> text = <<>> \/ TRUE \in values) /\ values # BOOLEAN
=============================================================================
