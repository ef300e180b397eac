\* Full duplex with one ECU: one thread transmits, one receives, the ECU
\* sends two messages, one of its frames may be lost.
CONSTANTS
    NSlots = 1
    Filters = {1}
    Addresses <- AnAddress
    Writers = {w1}
    Readers = {r1}
    Lens = {14}
    Timeouts = {0}
    Wants = {1}
    BlockSizes = {1}
    NBs = 1
    RxqCap = 1
    TxqCap = 2
    FlowStatuses = {"CTS", "WAIT"}
    PeerBlockSizes = {0, 1}
    PeerLens = {14}
    PeerChunks = {}
    MaxMsgs = 2
    MaxLost = 1
SPECIFICATION Spec
INVARIANTS Delivered Received ReceiveNeverStalls
