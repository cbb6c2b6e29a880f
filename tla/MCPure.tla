------------------------------- MODULE MCPure -------------------------------
(***************************************************************************)
(* The pure algorithms, each over every small input: Worker.backoff, the   *)
(* expression matcher, the order of the matched rules, the checksum, the   *)
(* histogram, and the pages of the event list.  A behaviour is about one   *)
(* of them and lets its input grow.                                        *)
(***************************************************************************)
EXTENDS Retries, RuleMatch, RuleOrder, Checksum, Histogram, EventPages

CONSTANTS
    MaxAttempts, \* bound on the attempt
    MaxTokens,   \* bound on the length of an expression
    MaxBytes,    \* bound on the length of a body
    MaxValues    \* bound on the number of observations

VARIABLE subject \* what the behaviour is about

vars == <<subject, delay, text, rules, checksumVars, histogramVars, pageVars>>

\* A byte by its value, as the set of its bits.
Bits(n) == {b \in 0..7 : (n \div 2^b) % 2 = 1}

MCByte == {Bits(n) : n \in {0, 1, 45, 124, 129, 255}}

MCBounds == <<1, 2, 4>>

\* Three events of one ts between an older and a younger one.
MCEvent == {[id |-> 1, ts |-> 1], [id |-> 5, ts |-> 3]}
               \union [id : {2, 3, 4}, ts : {2}]

\* Expressions that match and do not.
MCExpr == {<<>>, <<"bad">>}

\* A rule that at most one condition keeps from matching.
NearMiss(r) == Cardinality({c \in {"enabled", "device", "metric"} : ~r[c]}
                               \union {c \in {"deleted"} : r.deleted}
                               \union {c \in {"expr"} : r.expr # <<>>}) <= 1

Init == /\ subject \in {"backoff", "expression", "order", "checksum", "histogram", "pages"}
        /\ RetriesInit
        /\ subject # "backoff" => delay.base = 1 /\ delay.ceiling = 1
        /\ TextInit
        /\ RulesInit
        /\ ChecksumInit
        /\ HistogramInit
        /\ PagesInit
        /\ subject # "pages" => stored = {} /\ page = 1

\* The delivery fails once more.
NextAttempt == /\ subject = "backoff"
               /\ delay.attempt < MaxAttempts
               /\ FailAgain
               /\ UNCHANGED <<subject, text, rules, checksumVars, histogramVars, pageVars>>

\* The expression gets longer.
LongerText == /\ subject = "expression"
              /\ Len(text) < MaxTokens
              /\ \E tok \in Token : NextToken(tok)
              /\ UNCHANGED <<subject, delay, rules, checksumVars, histogramVars, pageVars>>

\* One more rule.
NextRule == /\ subject = "order"
            /\ \E r \in Rule : NearMiss(r) /\ AddRule(r)
            /\ UNCHANGED <<subject, delay, text, checksumVars, histogramVars, pageVars>>

\* One more byte.
ReadByte == /\ subject = "checksum"
            /\ Len(body) < MaxBytes
            /\ \E b \in Byte : NextByte(b)
            /\ UNCHANGED <<subject, delay, text, rules, histogramVars, pageVars>>

\* One more request is timed, at, between and beyond the bounds.
NextValue == /\ subject = "histogram"
             /\ Len(values) < MaxValues
             /\ \E v \in Value : ObserveValue(v)
             /\ UNCHANGED <<subject, delay, text, rules, checksumVars, pageVars>>

NextPage == /\ subject = "pages"
            /\ PagesNext
            /\ UNCHANGED <<subject, delay, text, rules, checksumVars, histogramVars>>

Next == NextAttempt \/ LongerText \/ NextRule \/ ReadByte \/ NextValue \/ NextPage

Spec == Init /\ [][Next]_vars
=============================================================================
