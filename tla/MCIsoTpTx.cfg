\* Two threads transmit on one session while the ECU answers anything, the
\* filter is replaced and the transmit queue fills.
CONSTANTS
    NSlots = 1
    Filters = {1}
    Addresses <- AnAddress
    Writers = {w1, w2}
    Readers = {}
    Lens = {5, 21}
    Timeouts = {0}
    Wants = {}
    BlockSizes = {0}
    NBs = 1
    RxqCap = 1
    TxqCap = 1
    FlowStatuses = {"CTS", "WAIT", "OVFLW"}
    PeerBlockSizes = {1}
    PeerLens = {}
    PeerChunks = {}
SPECIFICATION EngineFairSpec
INVARIANTS TypeOK TxExclusive BlockRespected
PROPERTIES HonestSuccess TransmitReturns
