\* The guards of micopay/contracts/escrow.
\* Two users who may each be seller, buyer and platform wallet, two secrets,
\* timeouts of zero and one minute, a ledger of three numbers.
SPECIFICATION Spec
CONSTANTS
    Users = {alice, bob}
    alice = alice
    bob = bob
    Contract = contract
    NoUser = NoUser
    Secrets = {s1, s2}
    s1 = s1
    s2 = s2
    Amounts <- MCAmounts
    Fees <- MCFees
    Minutes = {0, 1}
    LedgersPerMinute = 1
    MaxLedger = 2
    Endowment = 4
    RejectsDuplicates = FALSE
    ReleaseNeedsBuyer = TRUE
INVARIANT
    BalancesExplained
CHECK_DEADLOCK FALSE
