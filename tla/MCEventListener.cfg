\* Two overlapping processes, two events and a page of one, so that one ledger
\* can hold more events than a page; the cursor can fall out of the RPC window.
SPECIFICATION FairSpec
CONSTANTS
    Processes = {p1, p2}
    p1 = p1
    p2 = p2
    MaxEvents = 2
    MaxLedger = 3
    PageLimit = 1
INVARIANTS
    NothingMissed
PROPERTIES
    DeliversOnce
    EveryEventTaken
