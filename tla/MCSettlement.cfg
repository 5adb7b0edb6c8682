\* One trade, two requests or sweeps in flight, a contract timeout of one
\* ledger; two lock and two refund transactions, since two requests may each
\* send one.
SPECIFICATION Spec
CONSTANTS
    Trades = {t1}
    t1 = t1
    Workers = {w1, w2}
    w1 = w1
    w2 = w2
    LockAttempts = {l1, l2}
    l1 = l1
    l2 = l2
    ReleaseAttempts = {1}
    RefundAttempts = {f1, f2}
    f1 = f1
    f2 = f2
    Seller = seller
    Buyer = buyer
    Platform = platform
    Contract = contract
    NoUser = NoUser
    Amount = 2
    Fee = 1
    TimeoutMinutes = 1
    LedgersPerMinute = 1
    MaxLedger = 1
    Endowment = 3
    None = None
SYMMETRY Symmetry
INVARIANTS
    RowMatchesChain
    CreditedOnce
PROPERTIES
    ReceiptsFinal
CHECK_DEADLOCK FALSE
