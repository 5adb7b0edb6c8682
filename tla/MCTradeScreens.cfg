\* Both kinds of trade, either participant at TradeDetail, two fetches that
\* overlap.  A settled trade that nobody looks at has no next step.
SPECIFICATION Spec
CONSTANTS
    Runs = {r1}
    Fetches = {f1, f2}
    Codes = {c1}
    NoCode = NoCode
INVARIANTS
    SuccessIsReal
PROPERTIES
    DetailCatchesUp
CHECK_DEADLOCK FALSE
