\* One swap.  One ledger of the model is a minute, twelve ledgers of the
\* network: a poll takes one, a transaction is valid for three, and the shortest
\* timeout the contract accepts is five.
SPECIFICATION Spec
CONSTANTS
    Swaps = {s1}
    s1 = s1
    Initiator = initiator
    Counterparty = counterparty
    ContractA = contractA
    ContractB = contractB
    SellAsset = usdc
    BuyAsset = xlm
    Amount = 1
    InitiatorLedgers = 10
    CounterpartyLedgers = 5
    MinTimeout = 5
    MaxLedger = 20
    Endowment = 2
    PollLedgers = 1
    ValidLedgers = 3
    ReactionLedgers = 3
INVARIANTS
    PaidInOrder
    BothOrNeither
    StatusBacked
PROPERTIES
    LegsImplementHTLC
CHECK_DEADLOCK FALSE
