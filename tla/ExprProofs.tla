---------------------------- MODULE ExprProofs ----------------------------
(***************************************************************************)
(* The expression matcher follows its grammar, for expressions of any      *)
(* length and nesting.                                                     *)
(*                                                                         *)
(* The parser and the grammar are both functions defined by recursion, so  *)
(* the argument has four parts.  A call descends to lower ones, counting   *)
(* what is left to read and the procedures that may be entered before some *)
(* of it is read, and hence the parser is what its bodies say.  A segment  *)
(* has values by shorter ones, and hence the grammar is what its           *)
(* productions say.  Whatever the grammar gives a value, the parser reads  *)
(* with that value, by induction on the length of the segment; whatever    *)
(* the parser reads has the value the grammar gives it, by induction on    *)
(* the height of the call.                                                 *)
(***************************************************************************)
EXTENDS RuleMatch, DataLemmas

TextTypeOK == text \in Seq(Token)

-----------------------------------------------------------------------------
(* The parser ends: its bodies determine what it returns.                  *)

Loop == {"orRest", "andRest"}

\* What is left to read, and how many procedures may be entered before some
\* of it is read.
Height(s, call) ==
    IF call[1] \in Loop /\ ~call[2].ok THEN 0
    ELSE 3 * (Len(s) + 1 - call[2].pos)
             + (IF call[1] = "or" THEN 3 ELSE IF call[1] = "and" THEN 2 ELSE 1)

\* A procedure that succeeds has read something, and a loop goes on from what
\* was read with success.
Allowed(s, call) ==
    {r \in Result(s) : r.ok => IF call[1] \in Loop THEN call[2].ok /\ call[2].pos <= r.pos
                               ELSE call[2].pos < r.pos}

LEMMA Results ==
    ASSUME NEW s \in Seq(Token)
    PROVE  /\ Len(s) \in Nat
           /\ Error \in Result(s) /\ ~Error.ok
           /\ \A b \in BOOLEAN, p \in 1..(Len(s) + 1) :
                 Read(b, p) \in Result(s) /\ Read(b, p).ok /\ Read(b, p).pos = p /\ Read(b, p).val = b
           /\ \A p \in 1..(Len(s) + 1) :
                 From(p) \in Result(s) /\ From(p).ok /\ From(p).pos = p
           /\ \A r \in Result(s) : r.pos \in 1..(Len(s) + 1) /\ r.ok \in BOOLEAN /\ r.val \in BOOLEAN
  BY DEF Error, Result, Position, Read, From

LEMMA Heights ==
    ASSUME NEW s \in Seq(Token), NEW r \in Result(s)
    PROVE  /\ <<"or", r>> \in Call(s)
           /\ <<"and", r>> \in Call(s)
           /\ <<"atom", r>> \in Call(s)
           /\ <<"orRest", r>> \in Call(s)
           /\ <<"andRest", r>> \in Call(s)
           /\ Height(s, <<"or", r>>) = 3 * (Len(s) + 1 - r.pos) + 3
           /\ Height(s, <<"and", r>>) = 3 * (Len(s) + 1 - r.pos) + 2
           /\ Height(s, <<"atom", r>>) = 3 * (Len(s) + 1 - r.pos) + 1
           /\ r.ok => /\ Height(s, <<"orRest", r>>) = 3 * (Len(s) + 1 - r.pos) + 1
                      /\ Height(s, <<"andRest", r>>) = 3 * (Len(s) + 1 - r.pos) + 1
           /\ ~r.ok => Height(s, <<"orRest", r>>) = 0 /\ Height(s, <<"andRest", r>>) = 0
  <1>1. Len(s) \in Nat /\ r.pos \in 1..(Len(s) + 1)
    BY Results
  <1>2. \A p \in {"or", "orRest", "and", "andRest", "atom"} : <<p, r>> \in Call(s)
    BY DEF Call
  <1> QED BY <1>1, <1>2 DEF Height, Loop

LEMMA AllowedIf ==
    ASSUME NEW s \in Seq(Token), NEW left \in Result(s), NEW r
    PROVE  /\ \A p \in {"or", "and", "atom"} :
                 r \in Allowed(s, <<p, left>>) <=> r \in Result(s) /\ (r.ok => left.pos < r.pos)
           /\ \A p \in {"orRest", "andRest"} :
                 r \in Allowed(s, <<p, left>>) <=>
                     r \in Result(s) /\ (r.ok => left.ok /\ left.pos <= r.pos)
  BY DEF Allowed, Loop

LEMMA HeightIsNat ==
    ASSUME NEW s \in Seq(Token), NEW c \in Call(s)
    PROVE  Height(s, c) \in Nat
  <1>1. Len(s) \in Nat /\ c[2].pos \in 1..(Len(s) + 1)
    BY Results DEF Call
  <1> QED BY <1>1 DEF Height

\* Where a call is lower: in the same place, and behind what was read.
LEMMA Descends ==
    ASSUME NEW s \in Seq(Token), NEW left \in Result(s)
    PROVE  /\ Height(s, <<"and", left>>) < Height(s, <<"or", left>>)
           /\ Height(s, <<"atom", left>>) < Height(s, <<"and", left>>)
           /\ \A r \in Result(s) : (r.ok => left.pos < r.pos) =>
                 /\ Height(s, <<"orRest", r>>) < Height(s, <<"or", left>>)
                 /\ Height(s, <<"andRest", r>>) < Height(s, <<"and", left>>)
           /\ \A r \in Result(s) : left.pos < r.pos =>
                 /\ Height(s, <<"or", r>>) < Height(s, <<"atom", left>>)
                 /\ left.ok => Height(s, <<"and", r>>) < Height(s, <<"orRest", left>>)
                 /\ left.ok => Height(s, <<"atom", r>>) < Height(s, <<"andRest", left>>)
                 /\ left.ok => Height(s, <<"orRest", r>>) < Height(s, <<"orRest", left>>)
                 /\ left.ok => Height(s, <<"andRest", r>>) < Height(s, <<"andRest", left>>)
  <1> DEFINE h(p, r) == Height(s, <<p, r>>)
             n == Len(s)
  <1>1. n \in Nat /\ \A r \in Result(s) : r.pos \in 1..(n + 1) /\ r.ok \in BOOLEAN
    BY Results
  <1>2. \A r \in Result(s) : /\ h("or", r) = 3 * (n + 1 - r.pos) + 3
                            /\ h("and", r) = 3 * (n + 1 - r.pos) + 2
                            /\ h("atom", r) = 3 * (n + 1 - r.pos) + 1
    BY Heights
  <1>3. \A r \in Result(s) :
            /\ r.ok => h("orRest", r) = 3 * (n + 1 - r.pos) + 1 /\ h("andRest", r) = 3 * (n + 1 - r.pos) + 1
            /\ ~r.ok => h("orRest", r) = 0 /\ h("andRest", r) = 0
    BY Heights
  <1> HIDE DEF h, n
  <1>4. h("and", left) < h("or", left) /\ h("atom", left) < h("and", left)
    BY <1>1, <1>2
  <1> DEFINE u == n + 1 - left.pos
             Behind(r) == n + 1 - r.pos
  <1>5. /\ u \in Nat
        /\ h("or", left) = 3 * u + 3 /\ h("and", left) = 3 * u + 2 /\ h("atom", left) = 3 * u + 1
        /\ left.ok => h("orRest", left) = 3 * u + 1 /\ h("andRest", left) = 3 * u + 1
    BY <1>1, <1>2, <1>3
  <1>6. ASSUME NEW r \in Result(s)
        PROVE  /\ Behind(r) \in Nat
               /\ h("or", r) = 3 * Behind(r) + 3 /\ h("and", r) = 3 * Behind(r) + 2
               /\ h("atom", r) = 3 * Behind(r) + 1
               /\ r.ok => h("orRest", r) = 3 * Behind(r) + 1 /\ h("andRest", r) = 3 * Behind(r) + 1
               /\ ~r.ok => h("orRest", r) = 0 /\ h("andRest", r) = 0
               /\ left.pos < r.pos => Behind(r) < u
    <2>1. Behind(r) = n + 1 - r.pos /\ r.pos \in 1..(n + 1) /\ left.pos \in 1..(n + 1)
      BY <1>1
    <2>2. Behind(r) \in Nat /\ (left.pos < r.pos => Behind(r) < u)
      BY <1>1, <2>1
    <2>3. /\ h("or", r) = 3 * Behind(r) + 3 /\ h("and", r) = 3 * Behind(r) + 2
          /\ h("atom", r) = 3 * Behind(r) + 1
      BY <1>2
    <2>4. /\ r.ok => h("orRest", r) = 3 * Behind(r) + 1 /\ h("andRest", r) = 3 * Behind(r) + 1
          /\ ~r.ok => h("orRest", r) = 0 /\ h("andRest", r) = 0
      BY <1>3
    <2> QED BY <2>2, <2>3, <2>4
  <1> HIDE DEF u, Behind
  <1>7. ASSUME NEW r \in Result(s), r.ok => left.pos < r.pos
        PROVE  h("orRest", r) < h("or", left) /\ h("andRest", r) < h("and", left)
    BY <1>5, <1>6, <1>7
  <1>8. ASSUME NEW r \in Result(s), left.pos < r.pos
        PROVE  /\ h("or", r) < h("atom", left)
               /\ left.ok => h("and", r) < h("orRest", left) /\ h("atom", r) < h("andRest", left)
    BY <1>5, <1>6, <1>8
  <1>9. ASSUME NEW r \in Result(s), left.pos < r.pos, left.ok
        PROVE  h("orRest", r) < h("orRest", left) /\ h("andRest", r) < h("andRest", left)
    <2>1. CASE r.ok
      BY <1>5, <1>6, <1>9, <2>1
    <2>2. CASE ~r.ok
      BY <1>5, <1>6, <1>9, <2>2
    <2> QED BY <2>1, <2>2
  <1> QED BY <1>4, <1>7, <1>8, <1>9 DEF h

\* f and g agree on the lower calls, and what f returns is allowed.
AgreeBelow(f, g, s, call) ==
    \A d \in Call(s) : Height(s, d) < Height(s, call) => f[d] = g[d] /\ f[d] \in Allowed(s, d)

\* What that says of a lower call.
LEMMA LowerCall ==
    ASSUME NEW s \in Seq(Token), NEW call, NEW f, NEW g, AgreeBelow(f, g, s, call),
           NEW p \in {"or", "and", "atom"}, NEW left \in Result(s),
           Height(s, <<p, left>>) < Height(s, call)
    PROVE  LET r == f[<<p, left>>] IN
           /\ r = g[<<p, left>>]
           /\ r \in Result(s) /\ r.pos \in 1..(Len(s) + 1) /\ r.ok \in BOOLEAN /\ r.val \in BOOLEAN
           /\ r.ok => left.pos < r.pos
  <1> DEFINE r == f[<<p, left>>]
  <1>1. <<p, left>> \in Call(s)
    BY DEF Call
  <1>2. r = g[<<p, left>>] /\ r \in Allowed(s, <<p, left>>)
    BY <1>1 DEF AgreeBelow
  <1> HIDE DEF r
  <1>3. r \in Result(s) /\ (r.ok => left.pos < r.pos)
    BY <1>2, AllowedIf
  <1>4. r.pos \in 1..(Len(s) + 1) /\ r.ok \in BOOLEAN /\ r.val \in BOOLEAN
    BY <1>3, Results
  <1> QED BY <1>2, <1>3, <1>4 DEF r

LEMMA LowerLoop ==
    ASSUME NEW s \in Seq(Token), NEW call, NEW f, NEW g, AgreeBelow(f, g, s, call),
           NEW p \in {"orRest", "andRest"}, NEW left \in Result(s),
           Height(s, <<p, left>>) < Height(s, call)
    PROVE  LET r == f[<<p, left>>] IN
           /\ r = g[<<p, left>>]
           /\ r \in Result(s) /\ r.pos \in 1..(Len(s) + 1)
           /\ r.ok => left.ok /\ left.pos <= r.pos
  <1> DEFINE r == f[<<p, left>>]
  <1>1. <<p, left>> \in Call(s)
    BY DEF Call
  <1>2. r = g[<<p, left>>] /\ r \in Allowed(s, <<p, left>>)
    BY <1>1 DEF AgreeBelow
  <1> HIDE DEF r
  <1>3. r \in Result(s) /\ (r.ok => left.ok /\ left.pos <= r.pos)
    BY <1>2, AllowedIf
  <1>4. r.pos \in 1..(Len(s) + 1)
    BY <1>3, Results
  <1> QED BY <1>2, <1>3, <1>4 DEF r

\* The calls in a body are lower, and what it returns is allowed.
LEMMA ParseOrIsLocal ==
    ASSUME NEW s \in Seq(Token), NEW left \in Result(s), NEW f, NEW g,
           AgreeBelow(f, g, s, <<"or", left>>)
    PROVE  ParseOr(f, left) = ParseOr(g, left) /\ ParseOr(f, left) \in Allowed(s, <<"or", left>>)
  <1> DEFINE r == f[<<"and", left>>]
             q == f[<<"orRest", r>>]
  <1>1. /\ r = g[<<"and", left>>]
        /\ r \in Result(s) /\ r.pos \in 1..(Len(s) + 1)
        /\ r.ok => left.pos < r.pos
    <2>1. Height(s, <<"and", left>>) < Height(s, <<"or", left>>)
      BY Descends
    <2> QED BY <2>1, LowerCall
  <1> HIDE DEF r
  <1>2. /\ q = g[<<"orRest", r>>]
        /\ q \in Result(s) /\ q.pos \in 1..(Len(s) + 1)
        /\ q.ok => r.ok /\ r.pos <= q.pos
    <2>1. Height(s, <<"orRest", r>>) < Height(s, <<"or", left>>)
      BY <1>1, Descends
    <2> QED BY <1>1, <2>1, LowerLoop
  <1> HIDE DEF q
  <1>3. q.ok => left.pos < q.pos
    <2>1. left.pos \in 1..(Len(s) + 1) /\ Len(s) \in Nat
      BY Results
    <2> QED BY <1>1, <1>2, <2>1
  <1>4. q \in Allowed(s, <<"or", left>>)
    BY <1>2, <1>3, AllowedIf
  <1>5. ParseOr(f, left) = q /\ ParseOr(g, left) = q
    BY <1>1, <1>2 DEF ParseOr, q, r
  <1> QED BY <1>4, <1>5

LEMMA ParseAndIsLocal ==
    ASSUME NEW s \in Seq(Token), NEW left \in Result(s), NEW f, NEW g,
           AgreeBelow(f, g, s, <<"and", left>>)
    PROVE  ParseAnd(f, left) = ParseAnd(g, left) /\ ParseAnd(f, left) \in Allowed(s, <<"and", left>>)
  <1> DEFINE r == f[<<"atom", left>>]
             q == f[<<"andRest", r>>]
  <1>1. /\ r = g[<<"atom", left>>]
        /\ r \in Result(s) /\ r.pos \in 1..(Len(s) + 1)
        /\ r.ok => left.pos < r.pos
    <2>1. Height(s, <<"atom", left>>) < Height(s, <<"and", left>>)
      BY Descends
    <2> QED BY <2>1, LowerCall
  <1> HIDE DEF r
  <1>2. /\ q = g[<<"andRest", r>>]
        /\ q \in Result(s) /\ q.pos \in 1..(Len(s) + 1)
        /\ q.ok => r.ok /\ r.pos <= q.pos
    <2>1. Height(s, <<"andRest", r>>) < Height(s, <<"and", left>>)
      BY <1>1, Descends
    <2> QED BY <1>1, <2>1, LowerLoop
  <1> HIDE DEF q
  <1>3. q.ok => left.pos < q.pos
    <2>1. left.pos \in 1..(Len(s) + 1) /\ Len(s) \in Nat
      BY Results
    <2> QED BY <1>1, <1>2, <2>1
  <1>4. q \in Allowed(s, <<"and", left>>)
    BY <1>2, <1>3, AllowedIf
  <1>5. ParseAnd(f, left) = q /\ ParseAnd(g, left) = q
    BY <1>1, <1>2 DEF ParseAnd, q, r
  <1> QED BY <1>4, <1>5

LEMMA OrRestIsLocal ==
    ASSUME NEW s \in Seq(Token), NEW left \in Result(s), NEW f, NEW g,
           AgreeBelow(f, g, s, <<"orRest", left>>)
    PROVE  /\ OrRest(f, s, left) = OrRest(g, s, left)
           /\ OrRest(f, s, left) \in Allowed(s, <<"orRest", left>>)
  <1>1. Len(s) \in Nat /\ left.pos \in 1..(Len(s) + 1)
    BY Results
  <1>2. CASE ~left.ok \/ ~At(s, left.pos, "or")
    <2>1. OrRest(f, s, left) = left /\ OrRest(g, s, left) = left
      BY <1>2 DEF OrRest
    <2>2. left.pos <= left.pos
      BY <1>1
    <2> QED BY <2>1, <2>2, AllowedIf
  <1>3. CASE left.ok /\ At(s, left.pos, "or")
    <2> DEFINE from == From(left.pos + 1)
               r == f[<<"and", from>>]
               next == Read(left.val \/ r.val, r.pos)
               q == f[<<"orRest", next>>]
    <2>1. left.pos + 1 \in 1..(Len(s) + 1)
      BY <1>1, <1>3 DEF At
    <2>2. from \in Result(s) /\ from.pos = left.pos + 1 /\ left.pos < left.pos + 1
      BY <1>1, <2>1, Results
    <2> HIDE DEF from
    <2>3. /\ r = g[<<"and", from>>]
          /\ r \in Result(s) /\ r.pos \in 1..(Len(s) + 1) /\ r.ok \in BOOLEAN
          /\ r.ok => from.pos < r.pos
      <3>1. Height(s, <<"and", from>>) < Height(s, <<"orRest", left>>)
        BY <1>3, <2>2, Descends
      <3> QED BY <2>2, <3>1, LowerCall
    <2> HIDE DEF r
    <2>4. CASE r.ok
      <3>1. next \in Result(s) /\ next.ok /\ next.pos = r.pos
        BY <2>3, Results
      <3> HIDE DEF next
      <3>2. left.pos < next.pos
        BY <1>1, <2>2, <2>3, <2>4, <3>1
      <3>3. /\ q = g[<<"orRest", next>>]
            /\ q \in Result(s) /\ q.pos \in 1..(Len(s) + 1)
            /\ q.ok => next.pos <= q.pos
        <4>1. Height(s, <<"orRest", next>>) < Height(s, <<"orRest", left>>)
          BY <1>3, <3>1, <3>2, Descends
        <4> QED BY <3>1, <4>1, LowerLoop
      <3>4. OrRest(f, s, left) = q /\ OrRest(g, s, left) = q
        BY <1>3, <2>3, <2>4, <3>3 DEF OrRest, from, r, next
      <3> HIDE DEF q
      <3>5. q.ok => left.pos <= q.pos
        BY <1>1, <2>3, <3>1, <3>2, <3>3
      <3>6. q \in Allowed(s, <<"orRest", left>>)
        BY <1>3, <3>3, <3>5, AllowedIf
      <3> QED BY <3>4, <3>6
    <2>5. CASE ~r.ok
      <3>1. OrRest(f, s, left) = Error /\ OrRest(g, s, left) = Error
        BY <1>3, <2>3, <2>5 DEF OrRest, from, r
      <3>2. Error \in Result(s) /\ ~Error.ok
        BY Results
      <3>3. Error \in Allowed(s, <<"orRest", left>>)
        BY <3>2, AllowedIf
      <3> QED BY <3>1, <3>3
    <2> QED BY <2>4, <2>5
  <1> QED BY <1>2, <1>3

LEMMA AndRestIsLocal ==
    ASSUME NEW s \in Seq(Token), NEW left \in Result(s), NEW f, NEW g,
           AgreeBelow(f, g, s, <<"andRest", left>>)
    PROVE  /\ AndRest(f, s, left) = AndRest(g, s, left)
           /\ AndRest(f, s, left) \in Allowed(s, <<"andRest", left>>)
  <1>1. Len(s) \in Nat /\ left.pos \in 1..(Len(s) + 1)
    BY Results
  <1>2. CASE ~left.ok \/ ~At(s, left.pos, "and")
    <2>1. AndRest(f, s, left) = left /\ AndRest(g, s, left) = left
      BY <1>2 DEF AndRest
    <2>2. left.pos <= left.pos
      BY <1>1
    <2> QED BY <2>1, <2>2, AllowedIf
  <1>3. CASE left.ok /\ At(s, left.pos, "and")
    <2> DEFINE from == From(left.pos + 1)
               r == f[<<"atom", from>>]
               next == Read(left.val /\ r.val, r.pos)
               q == f[<<"andRest", next>>]
    <2>1. left.pos + 1 \in 1..(Len(s) + 1)
      BY <1>1, <1>3 DEF At
    <2>2. from \in Result(s) /\ from.pos = left.pos + 1 /\ left.pos < left.pos + 1
      BY <1>1, <2>1, Results
    <2> HIDE DEF from
    <2>3. /\ r = g[<<"atom", from>>]
          /\ r \in Result(s) /\ r.pos \in 1..(Len(s) + 1) /\ r.ok \in BOOLEAN
          /\ r.ok => from.pos < r.pos
      <3>1. Height(s, <<"atom", from>>) < Height(s, <<"andRest", left>>)
        BY <1>3, <2>2, Descends
      <3> QED BY <2>2, <3>1, LowerCall
    <2> HIDE DEF r
    <2>4. CASE r.ok
      <3>1. next \in Result(s) /\ next.ok /\ next.pos = r.pos
        BY <2>3, Results
      <3> HIDE DEF next
      <3>2. left.pos < next.pos
        BY <1>1, <2>2, <2>3, <2>4, <3>1
      <3>3. /\ q = g[<<"andRest", next>>]
            /\ q \in Result(s) /\ q.pos \in 1..(Len(s) + 1)
            /\ q.ok => next.pos <= q.pos
        <4>1. Height(s, <<"andRest", next>>) < Height(s, <<"andRest", left>>)
          BY <1>3, <3>1, <3>2, Descends
        <4> QED BY <3>1, <4>1, LowerLoop
      <3>4. AndRest(f, s, left) = q /\ AndRest(g, s, left) = q
        BY <1>3, <2>3, <2>4, <3>3 DEF AndRest, from, r, next
      <3> HIDE DEF q
      <3>5. q.ok => left.pos <= q.pos
        BY <1>1, <2>3, <3>1, <3>2, <3>3
      <3>6. q \in Allowed(s, <<"andRest", left>>)
        BY <1>3, <3>3, <3>5, AllowedIf
      <3> QED BY <3>4, <3>6
    <2>5. CASE ~r.ok
      <3>1. AndRest(f, s, left) = Error /\ AndRest(g, s, left) = Error
        BY <1>3, <2>3, <2>5 DEF AndRest, from, r
      <3>2. Error \in Result(s) /\ ~Error.ok
        BY Results
      <3>3. Error \in Allowed(s, <<"andRest", left>>)
        BY <3>2, AllowedIf
      <3> QED BY <3>1, <3>3
    <2> QED BY <2>4, <2>5
  <1> QED BY <1>2, <1>3

LEMMA ParseAtomIsLocal ==
    ASSUME NEW s \in Seq(Token), NEW left \in Result(s), NEW f, NEW g,
           AgreeBelow(f, g, s, <<"atom", left>>)
    PROVE  /\ ParseAtom(f, s, left) = ParseAtom(g, s, left)
           /\ ParseAtom(f, s, left) \in Allowed(s, <<"atom", left>>)
  <1>1. Len(s) \in Nat /\ left.pos \in 1..(Len(s) + 1)
    BY Results
  <1>2. Error \in Allowed(s, <<"atom", left>>)
    <2>1. Error \in Result(s) /\ ~Error.ok
      BY Results
    <2> QED BY <2>1, AllowedIf
  <1>3. ASSUME NEW b \in BOOLEAN, NEW p \in 1..(Len(s) + 1), left.pos < p
        PROVE  Read(b, p) \in Allowed(s, <<"atom", left>>)
    <2>1. Read(b, p) \in Result(s) /\ Read(b, p).pos = p
      BY Results
    <2> QED BY <1>3, <2>1, AllowedIf
  <1>4. CASE At(s, left.pos, "(")
    <2> DEFINE from == From(left.pos + 1)
               r == f[<<"or", from>>]
    <2>1. left.pos + 1 \in 1..(Len(s) + 1)
      BY <1>1, <1>4 DEF At
    <2>2. from \in Result(s) /\ from.pos = left.pos + 1 /\ left.pos < left.pos + 1
      BY <1>1, <2>1, Results
    <2> HIDE DEF from
    <2>3. /\ r = g[<<"or", from>>]
          /\ r.pos \in 1..(Len(s) + 1) /\ r.ok \in BOOLEAN /\ r.val \in BOOLEAN
          /\ r.ok => from.pos < r.pos
      <3>1. Height(s, <<"or", from>>) < Height(s, <<"atom", left>>)
        BY <2>2, Descends
      <3> QED BY <2>2, <3>1, LowerCall
    <2> HIDE DEF r
    <2>4. CASE r.ok /\ At(s, r.pos, ")")
      <3>1. r.pos + 1 \in 1..(Len(s) + 1) /\ left.pos < r.pos + 1
        BY <1>1, <2>2, <2>3, <2>4 DEF At
      <3>2. /\ ParseAtom(f, s, left) = Read(r.val, r.pos + 1)
            /\ ParseAtom(g, s, left) = Read(r.val, r.pos + 1)
        BY <1>4, <2>3, <2>4 DEF ParseAtom, from, r
      <3> QED BY <1>3, <2>3, <3>1, <3>2
    <2>5. CASE ~(r.ok /\ At(s, r.pos, ")"))
      <3>1. ParseAtom(f, s, left) = Error /\ ParseAtom(g, s, left) = Error
        BY <1>4, <2>3, <2>5 DEF ParseAtom, from, r
      <3> QED BY <1>2, <3>1
    <2> QED BY <2>4, <2>5
  <1>5. CASE ~At(s, left.pos, "(") /\ (At(s, left.pos, "true") \/ At(s, left.pos, "false"))
    <2>1. left.pos + 1 \in 1..(Len(s) + 1) /\ left.pos < left.pos + 1
      BY <1>1, <1>5 DEF At
    <2>2. (s[left.pos] = "true") \in BOOLEAN
      OBVIOUS
    <2>3. /\ ParseAtom(f, s, left) = Read(s[left.pos] = "true", left.pos + 1)
          /\ ParseAtom(g, s, left) = Read(s[left.pos] = "true", left.pos + 1)
      BY <1>5 DEF ParseAtom
    <2> QED BY <1>3, <2>1, <2>2, <2>3
  <1>6. CASE ~(At(s, left.pos, "(") \/ At(s, left.pos, "true") \/ At(s, left.pos, "false"))
    <2>1. ParseAtom(f, s, left) = Error /\ ParseAtom(g, s, left) = Error
      BY <1>6 DEF ParseAtom
    <2> QED BY <1>2, <2>1
  <1> QED BY <1>4, <1>5, <1>6

LEMMA BodyIsLocal ==
    ASSUME NEW s \in Seq(Token), NEW f, NEW g, NEW c \in Call(s), AgreeBelow(f, g, s, c)
    PROVE  Body(f, s, c) = Body(g, s, c) /\ Body(f, s, c) \in Allowed(s, c)
  <1> PICK p \in {"or", "orRest", "and", "andRest", "atom"}, left \in Result(s) : c = <<p, left>>
    BY DEF Call
  <1>1. CASE p = "or"
    BY <1>1, ParseOrIsLocal DEF Body
  <1>2. CASE p = "orRest"
    BY <1>2, OrRestIsLocal DEF Body
  <1>3. CASE p = "and"
    BY <1>3, ParseAndIsLocal DEF Body
  <1>4. CASE p = "andRest"
    BY <1>4, AndRestIsLocal DEF Body
  <1>5. CASE p = "atom"
    BY <1>5, ParseAtomIsLocal DEF Body
  <1> QED BY <1>1, <1>2, <1>3, <1>4, <1>5

\* f is a function that the bodies define.
IsParser(f, s) == f = [c \in Call(s) |-> Body(f, s, c)]

LEMMA ParserExists == ASSUME NEW s \in Seq(Token) PROVE \E f : IsParser(f, s)
  <1> DEFINE D == Call(s)
             V == Result(s)
             may == [c \in D |-> Allowed(s, c)]
             m == [c \in D |-> Height(s, c)]
             H == {h \in [D -> V] : \A c \in D : h[c] \in may[c]}
             F == [h \in H |-> [c \in D |-> Body(h, s, c)]]
  <1>1. m \in [D -> Nat]
    BY HeightIsNat
  <1>2. \A h \in H, c \in D : h[c] \in Allowed(s, c)
    OBVIOUS
  <1>3. ASSUME NEW h \in H, NEW c \in D PROVE Body(h, s, c) \in Allowed(s, c)
    <2>1. AgreeBelow(h, h, s, c)
      BY <1>2 DEF AgreeBelow
    <2> QED BY <2>1, BodyIsLocal
  <1>4. \A c \in D : Allowed(s, c) \subseteq V
    BY DEF Allowed
  <1>5. F \in [H -> H]
    <2>1. ASSUME NEW h \in H PROVE [c \in D |-> Body(h, s, c)] \in H
      <3>1. \A c \in D : Body(h, s, c) \in V /\ Body(h, s, c) \in Allowed(s, c)
        BY <1>3, <1>4
      <3> QED BY <3>1
    <2> HIDE DEF H
    <2> QED BY <2>1
  <1>6. H # {}
    <2>1. Error \in V /\ ~Error.ok
      BY Results
    <2>2. \A c \in D : Error \in Allowed(s, c)
      BY <2>1 DEF Allowed
    <2>3. [c \in D |-> Error] \in H
      BY <2>1, <2>2
    <2> QED BY <2>3
  <1>7. ASSUME NEW g \in H, NEW h \in H, NEW c \in D,
               \A d \in D : m[d] < m[c] => g[d] = h[d]
        PROVE  F[g][c] = F[h][c]
    <2>1. AgreeBelow(g, h, s, c)
      BY <1>2, <1>7 DEF AgreeBelow
    <2>2. Body(g, s, c) = Body(h, s, c)
      BY <2>1, BodyIsLocal
    <2> QED BY <2>2
  <1>8. \A h \in H : F[h] = [c \in D |-> Body(h, s, c)]
    OBVIOUS
  <1>9. H = {h \in [D -> V] : \A c \in D : h[c] \in may[c]}
    OBVIOUS
  <1> HIDE DEF D, V, may, m, H, F
  <1>10. \A g, h \in H : \A c \in D :
             (\A d \in D : m[d] < m[c] => g[d] = h[d]) => F[g][c] = F[h][c]
    BY <1>7
  <1>11. IsMeasured(D, V, may, m, H, F)
    BY <1>1, <1>5, <1>6, <1>9, <1>10 DEF IsMeasured
  <1>12. \E f \in H : f = F[f]
    BY <1>11, MeasuredRecursion
  <1> QED BY <1>8, <1>12 DEF IsParser, D

LEMMA ParserIs ==
    ASSUME NEW s \in Seq(Token)
    PROVE  /\ IsParser(Parser(s), s)
           /\ \A c \in Call(s) : Parser(s)[c] = Body(Parser(s), s, c)
           /\ \A c \in Call(s) : Parser(s)[c] \in Allowed(s, c)
  <1> DEFINE f == Parser(s)
             S == {n \in Nat : \A c \in Call(s) : Height(s, c) < n => f[c] \in Allowed(s, c)}
  <1>1. IsParser(f, s)
    <2>1. f = CHOOSE g : g = [c \in Call(s) |-> Body(g, s, c)]
      BY DEF Parser
    <2> HIDE DEF f
    <2> QED BY <2>1, ParserExists DEF IsParser
  <1> HIDE DEF f
  <1>2. \A c \in Call(s) : f[c] = Body(f, s, c)
    <2>1. f = [c \in Call(s) |-> Body(f, s, c)]
      BY <1>1 DEF IsParser
    <2> QED BY <2>1, Zenon
  <1>3. 0 \in S
    BY HeightIsNat
  <1>4. ASSUME NEW n \in Nat, n \in S PROVE n + 1 \in S
    <2> SUFFICES ASSUME NEW c \in Call(s), Height(s, c) < n + 1
                 PROVE  f[c] \in Allowed(s, c)
      OBVIOUS
    <2>1. Height(s, c) \in Nat /\ \A d \in Call(s) : Height(s, d) \in Nat
      BY HeightIsNat
    <2>2. \A d \in Call(s) : Height(s, d) < Height(s, c) => Height(s, d) < n
      BY <2>1
    <2>3. AgreeBelow(f, f, s, c)
      BY <1>4, <2>2 DEF AgreeBelow
    <2>4. Body(f, s, c) \in Allowed(s, c)
      BY <2>3, BodyIsLocal
    <2> QED BY <1>2, <2>4
  <1> HIDE DEF S
  <1>5. Nat \subseteq S
    BY <1>3, <1>4, InductionOnNat
  <1>6. ASSUME NEW c \in Call(s) PROVE f[c] \in Allowed(s, c)
    <2>1. Height(s, c) + 1 \in Nat /\ Height(s, c) < Height(s, c) + 1
      BY HeightIsNat
    <2> QED BY <1>5, <2>1 DEF S
  <1> QED BY <1>1, <1>2, <1>6 DEF f

\* What the procedures return, and the loops.
LEMMA ParserCalls ==
    ASSUME NEW s \in Seq(Token), NEW left \in Result(s)
    PROVE  LET f == Parser(s) IN
           /\ f[<<"or", left>>] = ParseOr(f, left)
           /\ f[<<"and", left>>] = ParseAnd(f, left)
           /\ f[<<"atom", left>>] = ParseAtom(f, s, left)
           /\ f[<<"orRest", left>>] = OrRest(f, s, left)
           /\ f[<<"andRest", left>>] = AndRest(f, s, left)
  <1> DEFINE f == Parser(s)
  <1>1. \A c \in Call(s) : f[c] = Body(f, s, c)
    BY ParserIs
  <1>2. \A p \in {"or", "orRest", "and", "andRest", "atom"} : <<p, left>> \in Call(s)
    BY DEF Call
  <1> HIDE DEF f
  <1>3. f[<<"or", left>>] = ParseOr(f, left)
    BY <1>1, <1>2 DEF Body
  <1>4. f[<<"and", left>>] = ParseAnd(f, left)
    BY <1>1, <1>2 DEF Body
  <1>5. f[<<"atom", left>>] = ParseAtom(f, s, left)
    BY <1>1, <1>2 DEF Body
  <1>6. f[<<"orRest", left>>] = OrRest(f, s, left)
    BY <1>1, <1>2 DEF Body
  <1>7. f[<<"andRest", left>>] = AndRest(f, s, left)
    BY <1>1, <1>2 DEF Body
  <1> QED BY <1>3, <1>4, <1>5, <1>6, <1>7 DEF f

-----------------------------------------------------------------------------
(* The grammar: the values of a segment are determined by shorter ones.    *)

Extent(seg) ==
    3 * (IF seg[2] < seg[3] THEN seg[3] - seg[2] ELSE 0)
        + (IF seg[1] = "or" THEN 2 ELSE IF seg[1] = "and" THEN 1 ELSE 0)

LEMMA ExtentIs ==
    ASSUME NEW s \in Seq(Token), NEW i \in Position(s), NEW j \in Position(s)
    PROVE  /\ Len(s) \in Nat /\ i \in Nat /\ j \in Nat
           /\ <<"or", i, j>> \in Segment(s)
           /\ <<"and", i, j>> \in Segment(s)
           /\ <<"atom", i, j>> \in Segment(s)
           /\ Extent(<<"or", i, j>>) = 3 * (IF i < j THEN j - i ELSE 0) + 2
           /\ Extent(<<"and", i, j>>) = 3 * (IF i < j THEN j - i ELSE 0) + 1
           /\ Extent(<<"atom", i, j>>) = 3 * (IF i < j THEN j - i ELSE 0)
  BY DEF Extent, Segment, Position

LEMMA ExtentIsNat ==
    ASSUME NEW s \in Seq(Token), NEW seg \in Segment(s)
    PROVE  Extent(seg) \in Nat
  <1>1. seg[2] \in Nat /\ seg[3] \in Nat
    BY DEF Segment, Position
  <1> QED BY <1>1 DEF Extent

\* Where a segment is less: in the same place, and within.
LEMMA ExtentShrinks ==
    ASSUME NEW s \in Seq(Token), NEW i \in Position(s), NEW j \in Position(s)
    PROVE  /\ Extent(<<"and", i, j>>) < Extent(<<"or", i, j>>)
           /\ Extent(<<"atom", i, j>>) < Extent(<<"and", i, j>>)
           /\ \A x, y \in Position(s) : i <= x /\ y <= j /\ (i < x \/ y < j) /\ i < j =>
                 /\ Extent(<<"or", x, y>>) < Extent(<<"or", i, j>>)
                 /\ Extent(<<"and", x, y>>) < Extent(<<"or", i, j>>)
                 /\ Extent(<<"and", x, y>>) < Extent(<<"and", i, j>>)
                 /\ Extent(<<"atom", x, y>>) < Extent(<<"and", i, j>>)
           /\ i + 2 < j => /\ i + 1 \in Position(s) /\ j - 1 \in Position(s)
                           /\ Extent(<<"or", i + 1, j - 1>>) < Extent(<<"atom", i, j>>)
  <1> DEFINE e(p, x, y) == Extent(<<p, x, y>>)
             l(x, y) == IF x < y THEN y - x ELSE 0
  <1>1. i \in 1..(Len(s) + 1) /\ j \in 1..(Len(s) + 1) /\ Len(s) \in Nat
    BY ExtentIs DEF Position
  <1>2. \A x, y \in Position(s) : /\ e("or", x, y) = 3 * l(x, y) + 2
                                  /\ e("and", x, y) = 3 * l(x, y) + 1
                                  /\ e("atom", x, y) = 3 * l(x, y)
    BY ExtentIs
  <1>3. \A x, y \in Position(s) : x \in Nat /\ y \in Nat /\ l(x, y) \in Nat
    <2>1. \A x \in Position(s) : x \in Nat
      BY DEF Position
    <2> QED BY <2>1
  <1> HIDE DEF e
  <1>4. e("and", i, j) < e("or", i, j) /\ e("atom", i, j) < e("and", i, j)
    <2>1. /\ e("or", i, j) = 3 * l(i, j) + 2 /\ e("and", i, j) = 3 * l(i, j) + 1
          /\ e("atom", i, j) = 3 * l(i, j)
      BY <1>2
    <2>2. l(i, j) \in Nat
      BY <1>3
    <2> HIDE DEF l
    <2> QED BY <2>1, <2>2
  <1>5. ASSUME NEW x \in Position(s), NEW y \in Position(s),
               i <= x, y <= j, i < x \/ y < j, i < j
        PROVE  /\ e("or", x, y) < e("or", i, j)
               /\ e("and", x, y) < e("or", i, j)
               /\ e("and", x, y) < e("and", i, j)
               /\ e("atom", x, y) < e("and", i, j)
    <2>1. l(x, y) < l(i, j) /\ l(x, y) \in Nat /\ l(i, j) \in Nat
      BY <1>3, <1>5
    <2> HIDE DEF l
    <2>2. /\ e("or", x, y) = 3 * l(x, y) + 2 /\ e("and", x, y) = 3 * l(x, y) + 1
          /\ e("atom", x, y) = 3 * l(x, y)
      BY <1>2
    <2>3. e("or", i, j) = 3 * l(i, j) + 2 /\ e("and", i, j) = 3 * l(i, j) + 1
      BY <1>2
    <2> QED BY <2>1, <2>2, <2>3
  <1>6. ASSUME i + 2 < j
        PROVE  /\ i + 1 \in Position(s) /\ j - 1 \in Position(s)
               /\ e("or", i + 1, j - 1) < e("atom", i, j)
    <2>1. i + 1 \in Position(s) /\ j - 1 \in Position(s)
      BY <1>1, <1>6 DEF Position
    <2>2. l(i + 1, j - 1) + 2 = l(i, j) /\ l(i + 1, j - 1) \in Nat
      BY <1>1, <1>6
    <2> HIDE DEF l
    <2>3. e("or", i + 1, j - 1) = 3 * l(i + 1, j - 1) + 2
      BY <1>2, <2>1
    <2>4. e("atom", i, j) = 3 * l(i, j)
      BY <1>2
    <2> QED BY <2>1, <2>2, <2>3, <2>4
  <1> QED BY <1>4, <1>5, <1>6 DEF e

\* f and g agree on what is less, and have sets of truth values there.
AgreeWithin(f, g, s, seg) ==
    \A d \in Segment(s) : Extent(d) < Extent(seg) => f[d] = g[d] /\ f[d] \in SUBSET BOOLEAN

LEMMA CutsAre ==
    ASSUME NEW s \in Seq(Token), NEW i \in Position(s), NEW j \in Position(s), NEW keyword
    PROVE  \A k \in Cuts(s, i, j, keyword) :
              /\ k \in Position(s) /\ k + 1 \in Position(s) /\ k <= Len(s)
              /\ i < k /\ k + 1 < j /\ i < j
              /\ s[k] = keyword
  <1>1. i \in 1..(Len(s) + 1) /\ j \in 1..(Len(s) + 1) /\ Len(s) \in Nat
    BY DEF Position
  <1> QED BY <1>1 DEF Cuts, Position

\* More values of the parts make no fewer of the whole.
LEMMA OrValuesGrow ==
    ASSUME NEW s, NEW i, NEW j, NEW f, NEW g,
           f[<<"and", i, j>>] \subseteq g[<<"and", i, j>>],
           \A k \in Cuts(s, i, j, "or") :
              /\ f[<<"or", i, k>>] \subseteq g[<<"or", i, k>>]
              /\ f[<<"and", k + 1, j>>] \subseteq g[<<"and", k + 1, j>>]
    PROVE  OrValues(f, s, i, j) \subseteq OrValues(g, s, i, j)
  <1> SUFFICES ASSUME NEW v \in BOOLEAN, NEW k \in Cuts(s, i, j, "or"),
                      NEW a \in f[<<"or", i, k>>], NEW b \in f[<<"and", k + 1, j>>],
                      v = (a \/ b)
               PROVE  v \in OrValues(g, s, i, j)
    BY DEF OrValues
  <1>1. a \in g[<<"or", i, k>>] /\ b \in g[<<"and", k + 1, j>>]
    OBVIOUS
  <1> QED BY <1>1, Zenon DEF OrValues

LEMMA AndValuesGrow ==
    ASSUME NEW s, NEW i, NEW j, NEW f, NEW g,
           f[<<"atom", i, j>>] \subseteq g[<<"atom", i, j>>],
           \A k \in Cuts(s, i, j, "and") :
              /\ f[<<"and", i, k>>] \subseteq g[<<"and", i, k>>]
              /\ f[<<"atom", k + 1, j>>] \subseteq g[<<"atom", k + 1, j>>]
    PROVE  AndValues(f, s, i, j) \subseteq AndValues(g, s, i, j)
  <1> SUFFICES ASSUME NEW v \in BOOLEAN, NEW k \in Cuts(s, i, j, "and"),
                      NEW a \in f[<<"and", i, k>>], NEW b \in f[<<"atom", k + 1, j>>],
                      v = (a /\ b)
               PROVE  v \in AndValues(g, s, i, j)
    BY Zenon DEF AndValues
  <1>1. a \in g[<<"and", i, k>>] /\ b \in g[<<"atom", k + 1, j>>]
    OBVIOUS
  <1> QED BY <1>1, Zenon DEF AndValues

LEMMA ValuesAreLocal ==
    ASSUME NEW s \in Seq(Token), NEW f, NEW g, NEW seg \in Segment(s), AgreeWithin(f, g, s, seg)
    PROVE  ValuesOf(f, s, seg) = ValuesOf(g, s, seg) /\ ValuesOf(f, s, seg) \in SUBSET BOOLEAN
  <1> PICK p \in {"or", "and", "atom"}, i \in Position(s), j \in Position(s) : seg = <<p, i, j>>
    BY DEF Segment
  <1>1. ASSUME NEW q \in {"or", "and", "atom"}, NEW x \in Position(s), NEW y \in Position(s),
               Extent(<<q, x, y>>) < Extent(<<p, i, j>>)
        PROVE  f[<<q, x, y>>] = g[<<q, x, y>>] /\ f[<<q, x, y>>] \in SUBSET BOOLEAN
    <2>1. <<q, x, y>> \in Segment(s)
      BY DEF Segment
    <2> QED BY <1>1, <2>1 DEF AgreeWithin
  <1>2. CASE p = "or"
    <2>1. f[<<"and", i, j>>] = g[<<"and", i, j>>] /\ f[<<"and", i, j>>] \in SUBSET BOOLEAN
      <3>1. Extent(<<"and", i, j>>) < Extent(<<"or", i, j>>)
        BY ExtentShrinks
      <3> QED BY <1>1, <1>2, <3>1
    <2>2. ASSUME NEW k \in Cuts(s, i, j, "or")
          PROVE  /\ f[<<"or", i, k>>] = g[<<"or", i, k>>]
                 /\ f[<<"and", k + 1, j>>] = g[<<"and", k + 1, j>>]
      <3>1. /\ k \in Position(s) /\ k + 1 \in Position(s)
            /\ i <= i /\ k < j /\ k <= j /\ i < k + 1 /\ i <= k + 1 /\ j <= j /\ i < j
        <4>1. k \in Position(s) /\ k + 1 \in Position(s) /\ i < k /\ k + 1 < j
          BY CutsAre
        <4>2. i \in Nat /\ j \in Nat /\ k \in Nat
          BY <4>1, ExtentIs
        <4> QED BY <4>1, <4>2
      <3>2. Extent(<<"or", i, k>>) < Extent(<<"or", i, j>>)
        BY <3>1, ExtentShrinks
      <3>3. Extent(<<"and", k + 1, j>>) < Extent(<<"or", i, j>>)
        BY <3>1, ExtentShrinks
      <3> QED BY <1>1, <1>2, <3>1, <3>2, <3>3
    <2>3. OrValues(f, s, i, j) = OrValues(g, s, i, j)
      <3>1. OrValues(f, s, i, j) \subseteq OrValues(g, s, i, j)
        BY <2>1, <2>2, OrValuesGrow
      <3>2. OrValues(g, s, i, j) \subseteq OrValues(f, s, i, j)
        BY <2>1, <2>2, OrValuesGrow
      <3> QED BY <3>1, <3>2
    <2>4. OrValues(f, s, i, j) \in SUBSET BOOLEAN
      BY <2>1 DEF OrValues
    <2> QED BY <1>2, <2>3, <2>4 DEF ValuesOf
  <1>3. CASE p = "and"
    <2>1. f[<<"atom", i, j>>] = g[<<"atom", i, j>>] /\ f[<<"atom", i, j>>] \in SUBSET BOOLEAN
      <3>1. Extent(<<"atom", i, j>>) < Extent(<<"and", i, j>>)
        BY ExtentShrinks
      <3> QED BY <1>1, <1>3, <3>1
    <2>2. ASSUME NEW k \in Cuts(s, i, j, "and")
          PROVE  /\ f[<<"and", i, k>>] = g[<<"and", i, k>>]
                 /\ f[<<"atom", k + 1, j>>] = g[<<"atom", k + 1, j>>]
      <3>1. /\ k \in Position(s) /\ k + 1 \in Position(s)
            /\ i <= i /\ k < j /\ k <= j /\ i < k + 1 /\ i <= k + 1 /\ j <= j /\ i < j
        <4>1. k \in Position(s) /\ k + 1 \in Position(s) /\ i < k /\ k + 1 < j
          BY CutsAre
        <4>2. i \in Nat /\ j \in Nat /\ k \in Nat
          BY <4>1, ExtentIs
        <4> QED BY <4>1, <4>2
      <3>2. Extent(<<"and", i, k>>) < Extent(<<"and", i, j>>)
        BY <3>1, ExtentShrinks
      <3>3. Extent(<<"atom", k + 1, j>>) < Extent(<<"and", i, j>>)
        BY <3>1, ExtentShrinks
      <3> QED BY <1>1, <1>3, <3>1, <3>2, <3>3
    <2>3. AndValues(f, s, i, j) = AndValues(g, s, i, j)
      <3>1. AndValues(f, s, i, j) \subseteq AndValues(g, s, i, j)
        BY <2>1, <2>2, AndValuesGrow
      <3>2. AndValues(g, s, i, j) \subseteq AndValues(f, s, i, j)
        BY <2>1, <2>2, AndValuesGrow
      <3> QED BY <3>1, <3>2
    <2>4. AndValues(f, s, i, j) \in SUBSET BOOLEAN
      BY <2>1 DEF AndValues
    <2> QED BY <1>3, <2>3, <2>4 DEF ValuesOf
  <1>4. CASE p = "atom"
    <2>1. ASSUME i + 2 < j
          PROVE  /\ f[<<"or", i + 1, j - 1>>] = g[<<"or", i + 1, j - 1>>]
                 /\ f[<<"or", i + 1, j - 1>>] \in SUBSET BOOLEAN
      <3>1. /\ i + 1 \in Position(s) /\ j - 1 \in Position(s)
            /\ Extent(<<"or", i + 1, j - 1>>) < Extent(<<"atom", i, j>>)
        BY <2>1, ExtentShrinks
      <3> QED BY <1>1, <1>4, <3>1
    <2>2. i \in Nat /\ j \in Nat
      BY ExtentIs
    <2>3. CASE j = i + 1
      <3>1. ValuesOf(f, s, seg) = {v \in BOOLEAN : s[i] = IF v THEN "true" ELSE "false"}
        BY <1>4, <2>3 DEF ValuesOf, AtomValues
      <3>2. ValuesOf(g, s, seg) = {v \in BOOLEAN : s[i] = IF v THEN "true" ELSE "false"}
        BY <1>4, <2>3 DEF ValuesOf, AtomValues
      <3> QED BY <3>1, <3>2
    <2>4. CASE j # i + 1 /\ j > i + 2
      BY <1>4, <2>1, <2>2, <2>4 DEF ValuesOf, AtomValues
    <2>5. CASE j # i + 1 /\ ~(j > i + 2)
      BY <1>4, <2>5 DEF ValuesOf, AtomValues
    <2> QED BY <2>3, <2>4, <2>5
  <1> QED BY <1>2, <1>3, <1>4

\* f is a function that the productions define.
IsGrammar(f, s) == f = [seg \in Segment(s) |-> ValuesOf(f, s, seg)]

LEMMA GrammarExists == ASSUME NEW s \in Seq(Token) PROVE \E f : IsGrammar(f, s)
  <1> DEFINE D == Segment(s)
             V == SUBSET BOOLEAN
             may == [d \in D |-> V]
             m == [d \in D |-> Extent(d)]
             H == {h \in [D -> V] : \A d \in D : h[d] \in may[d]}
             F == [h \in H |-> [d \in D |-> ValuesOf(h, s, d)]]
  <1>1. m \in [D -> Nat]
    BY ExtentIsNat
  <1>2. \A h \in H, d \in D : h[d] \in V
    OBVIOUS
  <1>3. ASSUME NEW h \in H, NEW d \in D PROVE ValuesOf(h, s, d) \in V
    <2>1. AgreeWithin(h, h, s, d)
      BY <1>2 DEF AgreeWithin
    <2> QED BY <2>1, ValuesAreLocal
  <1>4. F \in [H -> H]
    <2>1. ASSUME NEW h \in H PROVE [d \in D |-> ValuesOf(h, s, d)] \in H
      BY <1>3
    <2> HIDE DEF H
    <2> QED BY <2>1
  <1>5. H # {}
    <2>1. [d \in D |-> {}] \in H
      OBVIOUS
    <2> QED BY <2>1
  <1>6. ASSUME NEW g \in H, NEW h \in H, NEW c \in D,
               \A d \in D : m[d] < m[c] => g[d] = h[d]
        PROVE  F[g][c] = F[h][c]
    <2>1. AgreeWithin(g, h, s, c)
      BY <1>2, <1>6 DEF AgreeWithin
    <2>2. ValuesOf(g, s, c) = ValuesOf(h, s, c)
      BY <2>1, ValuesAreLocal
    <2> QED BY <2>2
  <1>7. \A h \in H : F[h] = [d \in D |-> ValuesOf(h, s, d)]
    OBVIOUS
  <1>8. H = {h \in [D -> V] : \A d \in D : h[d] \in may[d]}
    OBVIOUS
  <1> HIDE DEF D, V, may, m, H, F
  <1>9. \A g, h \in H : \A c \in D :
            (\A d \in D : m[d] < m[c] => g[d] = h[d]) => F[g][c] = F[h][c]
    BY <1>6
  <1>10. IsMeasured(D, V, may, m, H, F)
    BY <1>1, <1>4, <1>5, <1>8, <1>9 DEF IsMeasured
  <1>11. \E f \in H : f = F[f]
    BY <1>10, MeasuredRecursion
  <1> QED BY <1>7, <1>11 DEF IsGrammar, D

\* What is an expr, an andExpr, an atom.
LEMMA GrammarIs ==
    ASSUME NEW s \in Seq(Token), NEW i \in Position(s), NEW j \in Position(s)
    PROVE  LET f == Grammar(s) IN
           /\ f[<<"or", i, j>>] = OrValues(f, s, i, j)
           /\ f[<<"and", i, j>>] = AndValues(f, s, i, j)
           /\ f[<<"atom", i, j>>] = AtomValues(f, s, i, j)
           /\ f[<<"or", i, j>>] \subseteq BOOLEAN
           /\ f[<<"and", i, j>>] \subseteq BOOLEAN
           /\ f[<<"atom", i, j>>] \subseteq BOOLEAN
  <1> DEFINE f == Grammar(s)
             S == {n \in Nat : \A d \in Segment(s) : Extent(d) < n => f[d] \in SUBSET BOOLEAN}
  <1>1. f = [seg \in Segment(s) |-> ValuesOf(f, s, seg)]
    <2>1. f = CHOOSE g : g = [seg \in Segment(s) |-> ValuesOf(g, s, seg)]
      BY DEF Grammar
    <2> HIDE DEF f
    <2> QED BY <2>1, GrammarExists DEF IsGrammar
  <1> HIDE DEF f
  <1>2. \A seg \in Segment(s) : f[seg] = ValuesOf(f, s, seg)
    BY <1>1, Zenon
  <1>3. \A p \in {"or", "and", "atom"} : <<p, i, j>> \in Segment(s)
    BY DEF Segment
  <1>4. f[<<"or", i, j>>] = OrValues(f, s, i, j)
    BY <1>2, <1>3 DEF ValuesOf
  <1>5. f[<<"and", i, j>>] = AndValues(f, s, i, j)
    BY <1>2, <1>3 DEF ValuesOf
  <1>6. f[<<"atom", i, j>>] = AtomValues(f, s, i, j)
    BY <1>2, <1>3 DEF ValuesOf
  <1>7. 0 \in S
    BY ExtentIsNat
  <1>8. ASSUME NEW n \in Nat, n \in S PROVE n + 1 \in S
    <2> SUFFICES ASSUME NEW d \in Segment(s), Extent(d) < n + 1
                 PROVE  f[d] \in SUBSET BOOLEAN
      OBVIOUS
    <2>1. Extent(d) \in Nat /\ \A c \in Segment(s) : Extent(c) \in Nat
      BY ExtentIsNat
    <2>2. \A c \in Segment(s) : Extent(c) < Extent(d) => Extent(c) < n
      BY <2>1
    <2>3. AgreeWithin(f, f, s, d)
      BY <1>8, <2>2 DEF AgreeWithin
    <2>4. ValuesOf(f, s, d) \in SUBSET BOOLEAN
      BY <2>3, ValuesAreLocal
    <2> QED BY <1>2, <2>4
  <1> HIDE DEF S
  <1>9. Nat \subseteq S
    BY <1>7, <1>8, InductionOnNat
  <1>10. ASSUME NEW d \in Segment(s) PROVE f[d] \subseteq BOOLEAN
    <2>1. Extent(d) + 1 \in Nat /\ Extent(d) < Extent(d) + 1
      BY ExtentIsNat
    <2> QED BY <1>9, <2>1 DEF S
  <1>11. \A p \in {"or", "and", "atom"} : f[<<p, i, j>>] \subseteq BOOLEAN
    BY <1>3, <1>10
  <1> QED BY <1>4, <1>5, <1>6, <1>11 DEF f

-----------------------------------------------------------------------------
(* The parser finds what the grammar says.                                 *)

\* A loop stops where its keyword is not, and goes on where it is.
LEMMA OrLoop ==
    ASSUME NEW s \in Seq(Token), NEW a \in BOOLEAN, NEW k \in Position(s)
    PROVE  LET f == Parser(s) IN
           /\ ~At(s, k, "or") => f[<<"orRest", Read(a, k)>>] = Read(a, k)
           /\ \A b \in BOOLEAN, j \in Position(s) :
                 At(s, k, "or") /\ f[<<"and", From(k + 1)>>] = Read(b, j) =>
                     f[<<"orRest", Read(a, k)>>] = f[<<"orRest", Read(a \/ b, j)>>]
  <1> DEFINE f == Parser(s)
             left == Read(a, k)
  <1>1. left \in Result(s) /\ left.ok /\ left.pos = k /\ left.val = a
    BY Results DEF Position
  <1>2. f[<<"orRest", left>>] = OrRest(f, s, left)
    BY <1>1, ParserCalls
  <1> HIDE DEF f, left
  <1>3. ~At(s, k, "or") => f[<<"orRest", left>>] = left
    BY <1>1, <1>2 DEF OrRest
  <1>4. ASSUME NEW b \in BOOLEAN, NEW j \in Position(s),
               At(s, k, "or"), f[<<"and", From(k + 1)>>] = Read(b, j)
        PROVE  f[<<"orRest", left>>] = f[<<"orRest", Read(a \/ b, j)>>]
    <2> DEFINE right == f[<<"and", From(k + 1)>>]
    <2>1. right.ok /\ right.pos = j /\ right.val = b
      BY <1>4 DEF Read
    <2>2. OrRest(f, s, left) = f[<<"orRest", Read(left.val \/ right.val, right.pos)>>]
      BY <1>1, <1>4, <2>1 DEF OrRest
    <2> HIDE DEF right
    <2> QED BY <1>1, <1>2, <2>1, <2>2
  <1> QED BY <1>3, <1>4 DEF f, left

LEMMA AndLoop ==
    ASSUME NEW s \in Seq(Token), NEW a \in BOOLEAN, NEW k \in Position(s)
    PROVE  LET f == Parser(s) IN
           /\ ~At(s, k, "and") => f[<<"andRest", Read(a, k)>>] = Read(a, k)
           /\ \A b \in BOOLEAN, j \in Position(s) :
                 At(s, k, "and") /\ f[<<"atom", From(k + 1)>>] = Read(b, j) =>
                     f[<<"andRest", Read(a, k)>>] = f[<<"andRest", Read(a /\ b, j)>>]
  <1> DEFINE f == Parser(s)
             left == Read(a, k)
  <1>1. left \in Result(s) /\ left.ok /\ left.pos = k /\ left.val = a
    BY Results DEF Position
  <1>2. f[<<"andRest", left>>] = AndRest(f, s, left)
    BY <1>1, ParserCalls
  <1> HIDE DEF f, left
  <1>3. ~At(s, k, "and") => f[<<"andRest", left>>] = left
    BY <1>1, <1>2 DEF AndRest
  <1>4. ASSUME NEW b \in BOOLEAN, NEW j \in Position(s),
               At(s, k, "and"), f[<<"atom", From(k + 1)>>] = Read(b, j)
        PROVE  f[<<"andRest", left>>] = f[<<"andRest", Read(a /\ b, j)>>]
    <2> DEFINE right == f[<<"atom", From(k + 1)>>]
    <2>1. right.ok /\ right.pos = j /\ right.val = b
      BY <1>4 DEF Read
    <2>2. AndRest(f, s, left) = f[<<"andRest", Read(left.val /\ right.val, right.pos)>>]
      BY <1>1, <1>4, <2>1 DEF AndRest
    <2> HIDE DEF right
    <2> QED BY <1>1, <1>2, <2>1, <2>2
  <1> QED BY <1>3, <1>4 DEF f, left

LEMMA FromCalls ==
    ASSUME NEW s \in Seq(Token), NEW i \in Position(s)
    PROVE  LET f == Parser(s) IN
           /\ f[<<"or", From(i)>>] = f[<<"orRest", f[<<"and", From(i)>>]>>]
           /\ f[<<"and", From(i)>>] = f[<<"andRest", f[<<"atom", From(i)>>]>>]
           /\ f[<<"atom", From(i)>>] = ParseAtom(f, s, From(i))
           /\ From(i).pos = i
  <1> DEFINE f == Parser(s)
  <1>1. From(i) \in Result(s) /\ From(i).pos = i
    BY Results DEF Position
  <1>2. /\ f[<<"or", From(i)>>] = ParseOr(f, From(i))
        /\ f[<<"and", From(i)>>] = ParseAnd(f, From(i))
        /\ f[<<"atom", From(i)>>] = ParseAtom(f, s, From(i))
    BY <1>1, ParserCalls
  <1> HIDE DEF f
  <1> QED BY <1>1, <1>2 DEF ParseOr, ParseAnd, f

\* What has a value is read with it: an atom as such, an andExpr up to its
\* end, and an expr that no "and" follows.
Complete(s, i, j) ==
    LET f == Parser(s)
        g == Grammar(s)
    IN /\ \A v \in g[<<"atom", i, j>>] : f[<<"atom", From(i)>>] = Read(v, j)
       /\ \A v \in g[<<"and", i, j>>] :
             f[<<"and", From(i)>>] = f[<<"andRest", Read(v, j)>>]
       /\ ~At(s, j, "and") =>
             \A v \in g[<<"or", i, j>>] : f[<<"or", From(i)>>] = f[<<"orRest", Read(v, j)>>]

LEMMA CompleteStep ==
    ASSUME NEW s \in Seq(Token), NEW i \in Position(s), NEW j \in Position(s),
           \A x, y \in Position(s) : y - x < j - i => Complete(s, x, y)
    PROVE  Complete(s, i, j)
  <1> DEFINE f == Parser(s)
             g == Grammar(s)
  <1>1. /\ Len(s) \in Nat /\ i \in 1..(Len(s) + 1) /\ j \in 1..(Len(s) + 1)
        /\ DOMAIN s = 1..Len(s)
    BY DEF Position
  <1>2. \A x, y \in Position(s) : /\ g[<<"or", x, y>>] \subseteq BOOLEAN
                                  /\ g[<<"and", x, y>>] \subseteq BOOLEAN
                                  /\ g[<<"atom", x, y>>] \subseteq BOOLEAN
    BY GrammarIs
  <1>3. ASSUME NEW v \in g[<<"atom", i, j>>] PROVE f[<<"atom", From(i)>>] = Read(v, j)
    <2>1. v \in BOOLEAN /\ v \in AtomValues(g, s, i, j)
      BY <1>2, GrammarIs
    <2>2. f[<<"atom", From(i)>>] = ParseAtom(f, s, From(i)) /\ From(i).pos = i
      BY FromCalls
    <2> HIDE DEF f, g
    <2>3. CASE j = i + 1
      <3>1. s[i] = (IF v THEN "true" ELSE "false")
        BY <2>1, <2>3 DEF AtomValues
      <3>2. i <= Len(s)
        BY <1>1, <2>3
      <3>3. CASE v = TRUE
        <4>1. At(s, i, "true") /\ ~At(s, i, "(") /\ (s[i] = "true") = TRUE
          BY <3>1, <3>2, <3>3 DEF At
        <4> QED BY <2>2, <2>3, <3>3, <4>1 DEF ParseAtom
      <3>4. CASE v = FALSE
        <4>1. At(s, i, "false") /\ ~At(s, i, "(") /\ (s[i] = "true") = FALSE
          BY <3>1, <3>2, <3>4 DEF At
        <4> QED BY <2>2, <2>3, <3>4, <4>1 DEF ParseAtom
      <3> QED BY <2>1, <3>3, <3>4
    <2>4. CASE j # i + 1
      <3>1. j > i + 2 /\ s[i] = "(" /\ s[j - 1] = ")" /\ v \in g[<<"or", i + 1, j - 1>>]
        BY <2>1, <2>4 DEF AtomValues
      <3>2. /\ i + 1 \in Position(s) /\ j - 1 \in Position(s)
            /\ (j - 1) - (i + 1) < j - i /\ (j - 1) + 1 = j /\ i <= Len(s) /\ j - 1 <= Len(s)
        BY <1>1, <3>1 DEF Position
      <3>3. ~At(s, j - 1, "and") /\ ~At(s, j - 1, "or") /\ At(s, j - 1, ")") /\ At(s, i, "(")
        BY <3>1, <3>2 DEF At
      <3>4. f[<<"or", From(i + 1)>>] = f[<<"orRest", Read(v, j - 1)>>]
        <4>1. Complete(s, i + 1, j - 1)
          BY <3>2
        <4> QED BY <3>1, <3>3, <4>1 DEF Complete, f, g
      <3>5. f[<<"orRest", Read(v, j - 1)>>] = Read(v, j - 1)
        BY <2>1, <3>2, <3>3, OrLoop DEF f
      <3>6. /\ f[<<"or", From(i + 1)>>].ok /\ f[<<"or", From(i + 1)>>].pos = j - 1
            /\ f[<<"or", From(i + 1)>>].val = v
        BY <3>4, <3>5 DEF Read
      <3> QED BY <2>2, <3>2, <3>3, <3>6 DEF ParseAtom
    <2> QED BY <2>3, <2>4
  <1>4. ASSUME NEW v \in g[<<"and", i, j>>]
        PROVE  f[<<"and", From(i)>>] = f[<<"andRest", Read(v, j)>>]
    <2>1. v \in AndValues(g, s, i, j)
      BY GrammarIs
    <2>2. f[<<"and", From(i)>>] = f[<<"andRest", f[<<"atom", From(i)>>]>>]
      BY FromCalls
    <2> HIDE DEF f, g
    <2>3. CASE v \in g[<<"atom", i, j>>]
      BY <1>3, <2>2, <2>3
    <2>4. CASE v \notin g[<<"atom", i, j>>]
      <3>1. PICK k \in Cuts(s, i, j, "and") :
                \E a \in g[<<"and", i, k>>], b \in g[<<"atom", k + 1, j>>] : v = (a /\ b)
        BY <2>1, <2>4 DEF AndValues
      <3>2. PICK a \in g[<<"and", i, k>>], b \in g[<<"atom", k + 1, j>>] : v = (a /\ b)
        BY <3>1
      <3>3. /\ k \in Position(s) /\ k + 1 \in Position(s) /\ k <= Len(s) /\ s[k] = "and"
            /\ i < k /\ k + 1 < j
        BY CutsAre
      <3>4. k - i < j - i /\ j - (k + 1) < j - i
        BY <1>1, <3>3 DEF Position
      <3>5. f[<<"and", From(i)>>] = f[<<"andRest", Read(a, k)>>]
        <4>1. Complete(s, i, k)
          BY <3>3, <3>4
        <4> QED BY <4>1 DEF Complete, f, g
      <3>6. f[<<"atom", From(k + 1)>>] = Read(b, j)
        <4>1. Complete(s, k + 1, j)
          BY <3>3, <3>4
        <4> QED BY <4>1 DEF Complete, f, g
      <3>7. a \in BOOLEAN /\ b \in BOOLEAN
        BY <1>2, <3>3
      <3>8. At(s, k, "and")
        BY <3>3 DEF At
      <3>9. f[<<"andRest", Read(a, k)>>] = f[<<"andRest", Read(a /\ b, j)>>]
        BY <3>3, <3>6, <3>7, <3>8, AndLoop DEF f
      <3> QED BY <3>2, <3>5, <3>9
    <2> QED BY <2>3, <2>4
  <1>5. ASSUME ~At(s, j, "and"), NEW v \in g[<<"or", i, j>>]
        PROVE  f[<<"or", From(i)>>] = f[<<"orRest", Read(v, j)>>]
    <2>1. v \in OrValues(g, s, i, j)
      BY GrammarIs
    <2>2. f[<<"or", From(i)>>] = f[<<"orRest", f[<<"and", From(i)>>]>>]
      BY FromCalls
    <2>3. \A b \in BOOLEAN : f[<<"andRest", Read(b, j)>>] = Read(b, j)
      BY <1>5, AndLoop
    <2> HIDE DEF f, g
    <2>4. CASE v \in g[<<"and", i, j>>]
      <3>1. v \in BOOLEAN
        BY <1>2, <2>4
      <3> QED BY <1>4, <2>2, <2>3, <2>4, <3>1
    <2>5. CASE v \notin g[<<"and", i, j>>]
      <3>1. PICK k \in Cuts(s, i, j, "or") :
                \E a \in g[<<"or", i, k>>], b \in g[<<"and", k + 1, j>>] : v = (a \/ b)
        BY <2>1, <2>5 DEF OrValues
      <3>2. PICK a \in g[<<"or", i, k>>], b \in g[<<"and", k + 1, j>>] : v = (a \/ b)
        BY <3>1
      <3>3. /\ k \in Position(s) /\ k + 1 \in Position(s) /\ k <= Len(s) /\ s[k] = "or"
            /\ i < k /\ k + 1 < j
        BY CutsAre
      <3>4. k - i < j - i /\ j - (k + 1) < j - i
        BY <1>1, <3>3 DEF Position
      <3>5. At(s, k, "or") /\ ~At(s, k, "and")
        BY <3>3 DEF At
      <3>6. f[<<"or", From(i)>>] = f[<<"orRest", Read(a, k)>>]
        <4>1. Complete(s, i, k)
          BY <3>3, <3>4
        <4> QED BY <3>5, <4>1 DEF Complete, f, g
      <3>7. a \in BOOLEAN /\ b \in BOOLEAN
        BY <1>2, <3>3
      <3>8. f[<<"and", From(k + 1)>>] = Read(b, j)
        <4>1. Complete(s, k + 1, j)
          BY <3>3, <3>4
        <4>2. f[<<"and", From(k + 1)>>] = f[<<"andRest", Read(b, j)>>]
          BY <4>1 DEF Complete, f, g
        <4> QED BY <2>3, <3>7, <4>2
      <3>9. f[<<"orRest", Read(a, k)>>] = f[<<"orRest", Read(a \/ b, j)>>]
        BY <3>3, <3>5, <3>7, <3>8, OrLoop DEF f
      <3> QED BY <3>2, <3>6, <3>9
    <2> QED BY <2>4, <2>5
  <1> QED BY <1>3, <1>4, <1>5 DEF Complete

LEMMA ParserIsComplete ==
    ASSUME NEW s \in Seq(Token)
    PROVE  \A i, j \in Position(s) : Complete(s, i, j)
  <1> DEFINE S == {n \in Nat : \A i, j \in Position(s) : j - i + Len(s) + 1 < n => Complete(s, i, j)}
             n0 == Len(s) + 1
  <1>1. Len(s) \in Nat /\ \A i \in Position(s) : i \in 1..n0
    BY DEF Position
  <1>2. 0 \in S
    <2>1. \A i, j \in Position(s) : ~(j - i + Len(s) + 1 < 0)
      BY <1>1
    <2> QED BY <2>1
  <1>3. ASSUME NEW n \in Nat, n \in S PROVE n + 1 \in S
    <2> SUFFICES ASSUME NEW i \in Position(s), NEW j \in Position(s), j - i + Len(s) + 1 < n + 1
                 PROVE  Complete(s, i, j)
      OBVIOUS
    <2>1. \A x, y \in Position(s) : y - x < j - i => y - x + Len(s) + 1 < n
      BY <1>1
    <2> QED BY <1>3, <2>1, CompleteStep
  <1> HIDE DEF S
  <1>4. Nat \subseteq S
    BY <1>2, <1>3, InductionOnNat
  <1>5. n0 + n0 \in S /\ \A i, j \in Position(s) : j - i + Len(s) + 1 < n0 + n0
    BY <1>1, <1>4
  <1> QED BY <1>5 DEF S


-----------------------------------------------------------------------------
(* What the parser reads is what the grammar says.                         *)

LEMMA ParserReads ==
    ASSUME NEW s \in Seq(Token), NEW left \in Result(s)
    PROVE  LET f == Parser(s) IN
           /\ \A p \in {"or", "and", "atom"} :
                 /\ f[<<p, left>>] \in Result(s)
                 /\ f[<<p, left>>].ok => left.pos < f[<<p, left>>].pos
           /\ \A p \in {"orRest", "andRest"} :
                 /\ f[<<p, left>>] \in Result(s)
                 /\ f[<<p, left>>].ok => left.ok /\ left.pos <= f[<<p, left>>].pos
  <1> DEFINE f == Parser(s)
  <1>1. \A c \in Call(s) : f[c] \in Allowed(s, c)
    BY ParserIs
  <1>2. \A p \in {"or", "orRest", "and", "andRest", "atom"} : <<p, left>> \in Call(s)
    BY DEF Call
  <1> HIDE DEF f
  <1>3. \A p \in {"or", "orRest", "and", "andRest", "atom"} : f[<<p, left>>] \in Allowed(s, <<p, left>>)
    BY <1>1, <1>2
  <1>4. ASSUME NEW p \in {"or", "and", "atom"}
        PROVE  /\ f[<<p, left>>] \in Result(s)
               /\ f[<<p, left>>].ok => left.pos < f[<<p, left>>].pos
    <2>1. f[<<p, left>>] \in Allowed(s, <<p, left>>)
      BY <1>3
    <2> QED BY <2>1, AllowedIf
  <1>5. ASSUME NEW p \in {"orRest", "andRest"}
        PROVE  /\ f[<<p, left>>] \in Result(s)
               /\ f[<<p, left>>].ok => left.ok /\ left.pos <= f[<<p, left>>].pos
    <2>1. f[<<p, left>>] \in Allowed(s, <<p, left>>)
      BY <1>3
    <2> QED BY <2>1, AllowedIf
  <1> QED BY <1>4, <1>5 DEF f

\* A procedure returns a value of what it has read; a loop that begins with a
\* value of what is before it, a value of that and what it has read.
SoundCall(s, p, left) ==
    LET r == Parser(s)[<<p, left>>] IN r.ok => r.val \in Grammar(s)[<<p, left.pos, r.pos>>]

SoundLoop(s, loop, p, left) ==
    LET r == Parser(s)[<<loop, left>>] IN
    r.ok => \A i \in Position(s) :
        i < left.pos /\ left.val \in Grammar(s)[<<p, i, left.pos>>] =>
            r.val \in Grammar(s)[<<p, i, r.pos>>]

Sound(s, call) ==
    /\ call[1] \in {"or", "and", "atom"} => SoundCall(s, call[1], call[2])
    /\ call[1] = "orRest" => SoundLoop(s, "orRest", "or", call[2])
    /\ call[1] = "andRest" => SoundLoop(s, "andRest", "and", call[2])

SoundBelow(s, call) == \A d \in Call(s) : Height(s, d) < Height(s, call) => Sound(s, d)

LEMMA SoundLower ==
    ASSUME NEW s \in Seq(Token), NEW call, SoundBelow(s, call), NEW left \in Result(s)
    PROVE  /\ \A p \in {"or", "and", "atom"} :
                 Height(s, <<p, left>>) < Height(s, call) => SoundCall(s, p, left)
           /\ Height(s, <<"orRest", left>>) < Height(s, call) => SoundLoop(s, "orRest", "or", left)
           /\ Height(s, <<"andRest", left>>) < Height(s, call) => SoundLoop(s, "andRest", "and", left)
  <1>1. ASSUME NEW p \in {"or", "orRest", "and", "andRest", "atom"},
               Height(s, <<p, left>>) < Height(s, call)
        PROVE  Sound(s, <<p, left>>)
    <2>1. <<p, left>> \in Call(s)
      BY DEF Call
    <2> QED BY <1>1, <2>1 DEF SoundBelow
  <1> QED BY <1>1 DEF Sound

\* Where a keyword is, with something on both sides, is a cut.
LEMMA CutAt ==
    ASSUME NEW s \in Seq(Token), NEW i \in Position(s), NEW k \in Position(s), NEW j \in Position(s),
           i < k, k + 1 < j
    PROVE  k \in Cuts(s, i, j, s[k])
  <1>1. i \in Int /\ j \in Int /\ k \in Int
    BY DEF Position
  <1>2. k \in (i + 1)..(j - 2)
    BY <1>1
  <1> QED BY <1>2 DEF Cuts

LEMMA SoundOr ==
    ASSUME NEW s \in Seq(Token), NEW left \in Result(s), SoundBelow(s, <<"or", left>>)
    PROVE  SoundCall(s, "or", left)
  <1> DEFINE f == Parser(s)
             g == Grammar(s)
             a == f[<<"and", left>>]
             r == f[<<"orRest", a>>]
  <1>1. a \in Result(s) /\ (a.ok => left.pos < a.pos)
    BY ParserReads
  <1>2. f[<<"or", left>>] = r
    BY ParserCalls DEF ParseOr
  <1>3. r.ok => a.ok
    BY <1>1, ParserReads
  <1>4. left.pos \in Position(s) /\ a.pos \in Position(s)
    BY <1>1 DEF Result
  <1>5. SoundCall(s, "and", left)
    <2>1. Height(s, <<"and", left>>) < Height(s, <<"or", left>>)
      BY Descends
    <2> QED BY <2>1, SoundLower
  <1>6. SoundLoop(s, "orRest", "or", a)
    <2> HIDE DEF a
    <2>1. Height(s, <<"orRest", a>>) < Height(s, <<"or", left>>)
      BY <1>1, Descends
    <2> QED BY <1>1, <2>1, SoundLower
  <1>7. r.ok => left.pos < a.pos /\ a.val \in g[<<"and", left.pos, a.pos>>]
    BY <1>1, <1>3, <1>5 DEF SoundCall
  <1>8. r.ok => a.val \in g[<<"or", left.pos, a.pos>>]
    <2>1. g[<<"or", left.pos, a.pos>>] = OrValues(g, s, left.pos, a.pos)
      BY <1>4, GrammarIs
    <2> QED BY <1>7, <2>1 DEF OrValues
  <1>9. r.ok => r.val \in g[<<"or", left.pos, r.pos>>]
    BY <1>4, <1>6, <1>7, <1>8 DEF SoundLoop
  <1> HIDE DEF r
  <1> QED BY <1>2, <1>9 DEF SoundCall

LEMMA SoundAnd ==
    ASSUME NEW s \in Seq(Token), NEW left \in Result(s), SoundBelow(s, <<"and", left>>)
    PROVE  SoundCall(s, "and", left)
  <1> DEFINE f == Parser(s)
             g == Grammar(s)
             a == f[<<"atom", left>>]
             r == f[<<"andRest", a>>]
  <1>1. a \in Result(s) /\ (a.ok => left.pos < a.pos)
    BY ParserReads
  <1>2. f[<<"and", left>>] = r
    BY ParserCalls DEF ParseAnd
  <1>3. r.ok => a.ok
    BY <1>1, ParserReads
  <1>4. left.pos \in Position(s) /\ a.pos \in Position(s)
    BY <1>1 DEF Result
  <1>5. SoundCall(s, "atom", left)
    <2>1. Height(s, <<"atom", left>>) < Height(s, <<"and", left>>)
      BY Descends
    <2> QED BY <2>1, SoundLower
  <1>6. SoundLoop(s, "andRest", "and", a)
    <2> HIDE DEF a
    <2>1. Height(s, <<"andRest", a>>) < Height(s, <<"and", left>>)
      BY <1>1, Descends
    <2> QED BY <1>1, <2>1, SoundLower
  <1>7. r.ok => left.pos < a.pos /\ a.val \in g[<<"atom", left.pos, a.pos>>]
    BY <1>1, <1>3, <1>5 DEF SoundCall
  <1>8. r.ok => a.val \in g[<<"and", left.pos, a.pos>>]
    <2>1. g[<<"and", left.pos, a.pos>>] = AndValues(g, s, left.pos, a.pos)
      BY <1>4, GrammarIs
    <2> QED BY <1>7, <2>1 DEF AndValues
  <1>9. r.ok => r.val \in g[<<"and", left.pos, r.pos>>]
    BY <1>4, <1>6, <1>7, <1>8 DEF SoundLoop
  <1> HIDE DEF r
  <1> QED BY <1>2, <1>9 DEF SoundCall

LEMMA SoundOrRest ==
    ASSUME NEW s \in Seq(Token), NEW left \in Result(s), SoundBelow(s, <<"orRest", left>>)
    PROVE  SoundLoop(s, "orRest", "or", left)
  <1> DEFINE f == Parser(s)
             g == Grammar(s)
             from == From(left.pos + 1)
             right == f[<<"and", from>>]
             next == Read(left.val \/ right.val, right.pos)
             r == f[<<"orRest", left>>]
  <1>1. r = OrRest(f, s, left)
    BY ParserCalls
  <1> HIDE DEF r
  <1> SUFFICES ASSUME r.ok, NEW i \in Position(s), i < left.pos, left.val \in g[<<"or", i, left.pos>>]
               PROVE  r.val \in g[<<"or", i, r.pos>>]
    BY DEF SoundLoop, r
  <1>2. Len(s) \in Nat /\ left.pos \in 1..(Len(s) + 1) /\ ~Error.ok
    BY Results
  <1>3. CASE ~left.ok \/ ~At(s, left.pos, "or")
    BY <1>1, <1>3 DEF OrRest
  <1>4. CASE left.ok /\ At(s, left.pos, "or")
    <2>1. left.pos <= Len(s) /\ s[left.pos] = "or" /\ left.pos + 1 \in 1..(Len(s) + 1)
      BY <1>2, <1>4 DEF At
    <2>2. from \in Result(s) /\ from.pos = left.pos + 1
      BY <2>1, Results
    <2> HIDE DEF from
    <2>3. right \in Result(s) /\ (right.ok => from.pos < right.pos)
      BY <2>2, ParserReads
    <2>4. SoundCall(s, "and", from)
      <3>1. left.pos < from.pos
        BY <1>2, <2>2
      <3>2. Height(s, <<"and", from>>) < Height(s, <<"orRest", left>>)
        BY <1>4, <2>2, <3>1, Descends
      <3> QED BY <2>2, <3>2, SoundLower
    <2>5. right.ok /\ r = f[<<"orRest", next>>]
      BY <1>1, <1>2, <1>4 DEF OrRest, from
    <2>6. right.val \in g[<<"and", from.pos, right.pos>>]
      BY <2>4, <2>5 DEF SoundCall
    <2> HIDE DEF right
    <2>7. right.pos \in 1..(Len(s) + 1) /\ right.pos \in Position(s) /\ left.pos \in Position(s)
      BY <2>3 DEF Result, Position
    <2>8. /\ next \in Result(s) /\ next.pos = right.pos
          /\ next.val = (left.val \/ right.val)
      BY <2>7, Results
    <2> HIDE DEF next
    <2>9. left.pos + 1 < right.pos
      BY <2>2, <2>3, <2>5
    <2>10. SoundLoop(s, "orRest", "or", next)
      <3>1. left.pos < next.pos
        BY <1>2, <2>7, <2>8, <2>9
      <3>2. Height(s, <<"orRest", next>>) < Height(s, <<"orRest", left>>)
        BY <1>4, <2>8, <3>1, Descends
      <3> QED BY <2>8, <3>2, SoundLower
    <2>11. next.val \in g[<<"or", i, next.pos>>]
      <3> DEFINE a == left.val
                 b == right.val
                 v == next.val
                 k == left.pos
                 j == right.pos
      <3>1. g[<<"or", i, j>>] = OrValues(g, s, i, j)
        BY <2>7, GrammarIs
      <3>2. k \in Cuts(s, i, j, "or")
        BY <2>1, <2>7, <2>9, CutAt
      <3>3. a \in g[<<"or", i, k>>] /\ b \in g[<<"and", k + 1, j>>]
        BY <2>2, <2>6
      <3>4. v = (a \/ b) /\ v \in BOOLEAN
        BY <2>8
      <3> HIDE DEF a, b, v, k, j, g
      <3>5. v \in OrValues(g, s, i, j)
        BY <3>2, <3>3, <3>4, Zenon DEF OrValues
      <3>6. v \in g[<<"or", i, j>>]
        BY <3>1, <3>5
      <3> QED BY <2>8, <3>6 DEF v, j
    <2>12. i < next.pos
      <3>1. i \in Int
        BY DEF Position
      <3> QED BY <1>2, <2>7, <2>8, <2>9, <3>1
    <2> QED BY <2>5, <2>10, <2>11, <2>12 DEF SoundLoop
  <1> QED BY <1>3, <1>4

LEMMA SoundAndRest ==
    ASSUME NEW s \in Seq(Token), NEW left \in Result(s), SoundBelow(s, <<"andRest", left>>)
    PROVE  SoundLoop(s, "andRest", "and", left)
  <1> DEFINE f == Parser(s)
             g == Grammar(s)
             from == From(left.pos + 1)
             right == f[<<"atom", from>>]
             next == Read(left.val /\ right.val, right.pos)
             r == f[<<"andRest", left>>]
  <1>1. r = AndRest(f, s, left)
    BY ParserCalls
  <1> HIDE DEF r
  <1> SUFFICES ASSUME r.ok, NEW i \in Position(s), i < left.pos, left.val \in g[<<"and", i, left.pos>>]
               PROVE  r.val \in g[<<"and", i, r.pos>>]
    BY DEF SoundLoop, r
  <1>2. Len(s) \in Nat /\ left.pos \in 1..(Len(s) + 1) /\ ~Error.ok
    BY Results
  <1>3. CASE ~left.ok \/ ~At(s, left.pos, "and")
    BY <1>1, <1>3 DEF AndRest
  <1>4. CASE left.ok /\ At(s, left.pos, "and")
    <2>1. left.pos <= Len(s) /\ s[left.pos] = "and" /\ left.pos + 1 \in 1..(Len(s) + 1)
      BY <1>2, <1>4 DEF At
    <2>2. from \in Result(s) /\ from.pos = left.pos + 1
      BY <2>1, Results
    <2> HIDE DEF from
    <2>3. right \in Result(s) /\ (right.ok => from.pos < right.pos)
      BY <2>2, ParserReads
    <2>4. SoundCall(s, "atom", from)
      <3>1. left.pos < from.pos
        BY <1>2, <2>2
      <3>2. Height(s, <<"atom", from>>) < Height(s, <<"andRest", left>>)
        BY <1>4, <2>2, <3>1, Descends
      <3> QED BY <2>2, <3>2, SoundLower
    <2>5. right.ok /\ r = f[<<"andRest", next>>]
      BY <1>1, <1>2, <1>4 DEF AndRest, from
    <2>6. right.val \in g[<<"atom", from.pos, right.pos>>]
      BY <2>4, <2>5 DEF SoundCall
    <2> HIDE DEF right
    <2>7. right.pos \in 1..(Len(s) + 1) /\ right.pos \in Position(s) /\ left.pos \in Position(s)
      BY <2>3 DEF Result, Position
    <2>8. /\ next \in Result(s) /\ next.pos = right.pos
          /\ next.val = (left.val /\ right.val)
      BY <2>7, Results
    <2> HIDE DEF next
    <2>9. left.pos + 1 < right.pos
      BY <2>2, <2>3, <2>5
    <2>10. SoundLoop(s, "andRest", "and", next)
      <3>1. left.pos < next.pos
        BY <1>2, <2>7, <2>8, <2>9
      <3>2. Height(s, <<"andRest", next>>) < Height(s, <<"andRest", left>>)
        BY <1>4, <2>8, <3>1, Descends
      <3> QED BY <2>8, <3>2, SoundLower
    <2>11. next.val \in g[<<"and", i, next.pos>>]
      <3> DEFINE a == left.val
                 b == right.val
                 v == next.val
                 k == left.pos
                 j == right.pos
      <3>1. g[<<"and", i, j>>] = AndValues(g, s, i, j)
        BY <2>7, GrammarIs
      <3>2. k \in Cuts(s, i, j, "and")
        BY <2>1, <2>7, <2>9, CutAt
      <3>3. a \in g[<<"and", i, k>>] /\ b \in g[<<"atom", k + 1, j>>]
        BY <2>2, <2>6
      <3>4. v = (a /\ b) /\ v \in BOOLEAN
        BY <2>8
      <3> HIDE DEF a, b, v, k, j, g
      <3>5. v \in AndValues(g, s, i, j)
        BY <3>2, <3>3, <3>4, Zenon DEF AndValues
      <3>6. v \in g[<<"and", i, j>>]
        BY <3>1, <3>5
      <3> QED BY <2>8, <3>6 DEF v, j
    <2>12. i < next.pos
      <3>1. i \in Int
        BY DEF Position
      <3> QED BY <1>2, <2>7, <2>8, <2>9, <3>1
    <2> QED BY <2>5, <2>10, <2>11, <2>12 DEF SoundLoop
  <1> QED BY <1>3, <1>4

LEMMA SoundAtom ==
    ASSUME NEW s \in Seq(Token), NEW left \in Result(s), SoundBelow(s, <<"atom", left>>)
    PROVE  SoundCall(s, "atom", left)
  <1> DEFINE f == Parser(s)
             g == Grammar(s)
             from == From(left.pos + 1)
             inner == f[<<"or", from>>]
             r == f[<<"atom", left>>]
  <1>1. r = ParseAtom(f, s, left) /\ r \in Result(s)
    BY ParserCalls, ParserReads
  <1> HIDE DEF r
  <1> SUFFICES ASSUME r.ok PROVE r.val \in g[<<"atom", left.pos, r.pos>>]
    BY DEF SoundCall, r
  <1>2. Len(s) \in Nat /\ left.pos \in 1..(Len(s) + 1) /\ ~Error.ok
    BY Results
  <1>3. g[<<"atom", left.pos, r.pos>>] = AtomValues(g, s, left.pos, r.pos)
    <2>1. left.pos \in Position(s) /\ r.pos \in Position(s)
      BY <1>1 DEF Result
    <2> QED BY <2>1, GrammarIs
  <1>4. CASE At(s, left.pos, "(")
    <2>1. s[left.pos] = "(" /\ left.pos + 1 \in 1..(Len(s) + 1)
      BY <1>2, <1>4 DEF At
    <2>2. from \in Result(s) /\ from.pos = left.pos + 1
      BY <2>1, Results
    <2> HIDE DEF from
    <2>3. inner \in Result(s) /\ (inner.ok => from.pos < inner.pos)
      BY <2>2, ParserReads
    <2>4. SoundCall(s, "or", from)
      <3>1. left.pos < from.pos
        BY <1>2, <2>2
      <3>2. Height(s, <<"or", from>>) < Height(s, <<"atom", left>>)
        BY <2>2, <3>1, Descends
      <3> QED BY <2>2, <3>2, SoundLower
    <2>5. inner.ok /\ At(s, inner.pos, ")") /\ r = Read(inner.val, inner.pos + 1)
      BY <1>1, <1>2, <1>4 DEF ParseAtom, from
    <2>6. inner.val \in g[<<"or", from.pos, inner.pos>>]
      BY <2>4, <2>5 DEF SoundCall
    <2> HIDE DEF inner, g
    <2>7. /\ r.val = inner.val /\ r.pos = inner.pos + 1
          /\ s[inner.pos] = ")" /\ inner.pos \in 1..(Len(s) + 1)
      BY <2>3, <2>5, Results DEF Read, At
    <2>8. r.pos > left.pos + 2 /\ r.pos - 1 = inner.pos /\ r.pos # left.pos + 1
      BY <1>2, <2>2, <2>3, <2>5, <2>7
    <2>9. AtomValues(g, s, left.pos, r.pos) = g[<<"or", left.pos + 1, inner.pos>>]
      BY <2>1, <2>7, <2>8 DEF AtomValues
    <2> QED BY <1>3, <2>2, <2>6, <2>7, <2>9
  <1>5. CASE ~At(s, left.pos, "(") /\ (At(s, left.pos, "true") \/ At(s, left.pos, "false"))
    <2>1. r = Read(s[left.pos] = "true", left.pos + 1)
      BY <1>1, <1>5 DEF ParseAtom
    <2>2. r.pos = left.pos + 1 /\ r.val = (s[left.pos] = "true")
      BY <2>1 DEF Read
    <2>3. s[left.pos] = "true" \/ s[left.pos] = "false"
      BY <1>5 DEF At
    <2>4. r.val \in BOOLEAN /\ s[left.pos] = (IF r.val THEN "true" ELSE "false")
      BY <2>2, <2>3
    <2> HIDE DEF g
    <2>5. r.val \in AtomValues(g, s, left.pos, r.pos)
      BY <2>2, <2>4 DEF AtomValues
    <2> QED BY <1>3, <2>5
  <1>6. CASE ~(At(s, left.pos, "(") \/ At(s, left.pos, "true") \/ At(s, left.pos, "false"))
    BY <1>1, <1>2, <1>6 DEF ParseAtom
  <1> QED BY <1>4, <1>5, <1>6

LEMMA ParserIsSound ==
    ASSUME NEW s \in Seq(Token)
    PROVE  \A c \in Call(s) : Sound(s, c)
  <1> DEFINE S == {n \in Nat : \A c \in Call(s) : Height(s, c) < n => Sound(s, c)}
  <1>1. 0 \in S
    BY HeightIsNat
  <1>2. ASSUME NEW n \in Nat, n \in S PROVE n + 1 \in S
    <2> SUFFICES ASSUME NEW c \in Call(s), Height(s, c) < n + 1
                 PROVE  Sound(s, c)
      OBVIOUS
    <2>1. Height(s, c) \in Nat /\ \A d \in Call(s) : Height(s, d) \in Nat
      BY HeightIsNat
    <2>2. \A d \in Call(s) : Height(s, d) < Height(s, c) => Height(s, d) < n
      BY <2>1
    <2>3. SoundBelow(s, c)
      BY <1>2, <2>2 DEF SoundBelow
    <2> HIDE DEF S
    <2> PICK p \in {"or", "orRest", "and", "andRest", "atom"}, left \in Result(s) : c = <<p, left>>
      BY DEF Call
    <2>4. CASE p = "or"
      <3>1. SoundCall(s, "or", left)
        BY <2>3, <2>4, SoundOr
      <3> QED BY <2>4, <3>1 DEF Sound
    <2>5. CASE p = "and"
      <3>1. SoundCall(s, "and", left)
        BY <2>3, <2>5, SoundAnd
      <3> QED BY <2>5, <3>1 DEF Sound
    <2>6. CASE p = "atom"
      <3>1. SoundCall(s, "atom", left)
        BY <2>3, <2>6, SoundAtom
      <3> QED BY <2>6, <3>1 DEF Sound
    <2>7. CASE p = "orRest"
      <3>1. SoundLoop(s, "orRest", "or", left)
        BY <2>3, <2>7, SoundOrRest
      <3> QED BY <2>7, <3>1 DEF Sound
    <2>8. CASE p = "andRest"
      <3>1. SoundLoop(s, "andRest", "and", left)
        BY <2>3, <2>8, SoundAndRest
      <3> QED BY <2>8, <3>1 DEF Sound
    <2> QED BY <2>4, <2>5, <2>6, <2>7, <2>8
  <1> HIDE DEF S
  <1>3. Nat \subseteq S
    BY <1>1, <1>2, InductionOnNat
  <1>4. ASSUME NEW c \in Call(s) PROVE Sound(s, c)
    <2>1. Height(s, c) + 1 \in Nat /\ Height(s, c) < Height(s, c) + 1
      BY HeightIsNat
    <2> QED BY <1>3, <2>1 DEF S
  <1> QED BY <1>4

-----------------------------------------------------------------------------

LEMMA MatchesGrammar ==
    ASSUME NEW s \in Seq(Token)
    PROVE  LET values == Grammar(s)[<<"or", 1, Len(s) + 1>>]
           IN (MatchExpr(s) <=> s = <<>> \/ TRUE \in values) /\ values # BOOLEAN
  <1> DEFINE values == Grammar(s)[<<"or", 1, Len(s) + 1>>]
             end == Len(s) + 1
             p == Parser(s)[<<"or", From(1)>>]
  <1>1. Len(s) \in Nat /\ 1 \in Position(s) /\ end \in Position(s)
    BY DEF Position
  <1>2. ~At(s, end, "and") /\ ~At(s, end, "or")
    BY <1>1 DEF At
  <1>3. values \subseteq BOOLEAN
    BY <1>1, GrammarIs
  <1>4. ASSUME NEW v \in values PROVE p = Read(v, end)
    <2>1. Complete(s, 1, end)
      BY <1>1, ParserIsComplete
    <2>2. p = Parser(s)[<<"orRest", Read(v, end)>>]
      BY <1>2, <2>1 DEF Complete
    <2>3. v \in BOOLEAN
      BY <1>3
    <2>4. Parser(s)[<<"orRest", Read(v, end)>>] = Read(v, end)
      BY <1>1, <1>2, <2>3, OrLoop
    <2> QED BY <2>2, <2>4
  <1>5. ASSUME p.ok, p.pos = end PROVE p.val \in values
    <2>1. From(1) \in Result(s) /\ From(1).pos = 1
      BY <1>1, Results DEF Position
    <2>2. <<"or", From(1)>> \in Call(s)
      BY <2>1 DEF Call
    <2>3. SoundCall(s, "or", From(1))
      BY <2>2, ParserIsSound DEF Sound
    <2> QED BY <1>5, <2>1, <2>3 DEF SoundCall
  <1>6. p.val \in BOOLEAN
    <2>1. From(1) \in Result(s)
      BY <1>1, Results DEF Position
    <2>2. p \in Result(s)
      BY <2>1, ParserReads
    <2> QED BY <2>2 DEF Result
  <1>7. MatchExpr(s) <=> s = <<>> \/ (p.ok /\ p.pos = end /\ p.val)
    BY DEF MatchExpr
  <1> HIDE DEF p, values, end
  <1>8. TRUE \in values <=> p.ok /\ p.pos = end /\ p.val
    <2>1. TRUE \in values => p.ok /\ p.pos = end /\ p.val
      <3>1. TRUE \in values => p = Read(TRUE, end)
        BY <1>4, Zenon
      <3> QED BY <3>1 DEF Read
    <2>2. p.ok /\ p.pos = end /\ p.val => TRUE \in values
      <3>1. p.val => p.val = TRUE
        BY <1>6
      <3> QED BY <1>5, <3>1
    <2> QED BY <2>1, <2>2
  <1>9. values # BOOLEAN
    <2> SUFFICES ASSUME TRUE \in values, FALSE \in values PROVE FALSE
      OBVIOUS
    <2>1. p = Read(TRUE, end) /\ p = Read(FALSE, end)
      BY <1>4, Zenon
    <2>2. p.val = TRUE /\ p.val = FALSE
      BY <2>1 DEF Read
    <2> QED BY <2>2
  <1> QED BY <1>7, <1>8, <1>9 DEF values, end

\* matchExpr routes an event exactly if its expression is empty or a sentence
\* of the grammar that comes to true, and the grammar is unambiguous
\* (expr.go:13-40): for expressions of any length and nesting.
THEOREM MatcherIsExact == TextSpec => []MatcherFollowsGrammar
  <1>1. TextInit => TextTypeOK
    BY DEF TextInit, TextTypeOK
  <1>2. TextTypeOK /\ [\E tok \in Token : NextToken(tok)]_text => TextTypeOK'
    BY DEF NextToken, TextTypeOK
  <1>3. TextTypeOK => MatcherFollowsGrammar
    BY MatchesGrammar DEF MatcherFollowsGrammar, TextTypeOK
  <1> QED BY <1>1, <1>2, <1>3, PTL DEF TextSpec
====
