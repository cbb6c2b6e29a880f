\* Delays and ceilings up to twelve units, expressions of seven tokens, three
\* rules, bodies of two bytes, four observations, five events on pages of two.
CONSTANTS
    Duration = {1, 2, 3, 4, 5, 6, 7, 8, 9, 10, 11, 12}
    MaxAttempts = 6
    MaxTokens = 7
    Accepts <- MatchExpr
    RuleId = {1, 2, 3}
    Priority = {1, 2}
    Expr <- MCExpr
    Byte <- MCByte
    MaxBytes = 2
    Bounds <- MCBounds
    Value = {0, 1, 2, 3, 4, 5}
    MaxValues = 4
    Event <- MCEvent
    Size = 2
SPECIFICATION Spec
INVARIANTS IsCappedDoubling MatcherFollowsGrammar OneOrder ChecksumIsCrc BucketsAddUp MissesShowAsRepeats
CHECK_DEADLOCK FALSE
