\* Two writes to any of two addresses, with and without a filter, voltage
\* readings and any number of reopenings, an adapter that rejects commands,
\* and two faults that the session survives.
CONSTANTS
    Requests = {1, 9}
    Responses = {3}
    DefaultReq = 9
    DefaultResp = 4
    Rejects = {"ATE0", "ATFCSH", "ATFCSM1", "REQ"}
    Faults <- Survived
    Drops = TRUE
    MaxWrites = 2
    MaxFaults = 2
SPECIFICATION FairSpec
INVARIANTS TypeOK AddressedUntilLost NoStaleFilter
PROPERTIES CallReturns
