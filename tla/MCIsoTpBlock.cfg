\* One thread transmits to one ECU that grants blocks of one frame.
CONSTANTS
    NSlots = 1
    Filters = {1}
    Addresses <- AnAddress
    Writers = {w1}
    Readers = {}
    Lens = {20}
    Timeouts = {0}
    Wants = {}
    BlockSizes = {0}
    NBs = 2
    RxqCap = 1
    TxqCap = 3
    FlowStatuses = {"CTS"}
    PeerBlockSizes = {1}
    PeerLens = {}
    PeerChunks = {}
    MaxMsgs = 0
    MaxLost = 0
SPECIFICATION Spec
INVARIANTS TransmitNeverStalls
