\* Three open() calls: two left-behind workers and a third attempt.
CONSTANTS
    Attempts = {a1, a2, a3}
    NoHandle = NoHandle
SPECIFICATION FairOpenSpec
INVARIANTS TypeOK OneOwner RefsCountUsers
PROPERTIES OrphanCloses OpenReturns
CHECK_DEADLOCK FALSE
