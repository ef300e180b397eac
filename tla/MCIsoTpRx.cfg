\* A reader, and an ECU that sends any frame to any session at any time.
CONSTANTS
    NSlots = 2
    Filters = {1, 2}
    Addresses <- AnAddress
    Writers = {}
    Readers = {r1}
    Lens = {}
    Timeouts = {1}
    Wants = {2}
    BlockSizes = {1}
    NBs = 1
    RxqCap = 1
    TxqCap = 1
    FlowStatuses = {"CTS"}
    PeerBlockSizes = {0}
    PeerLens = {5, 14}
    PeerChunks = {6}
SPECIFICATION EngineFairSpec
INVARIANTS RxBounded
PROPERTIES ReceiveReturns
