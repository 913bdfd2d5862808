\* Everything that leaves the process or crosses a language boundary.
SPECIFICATION Spec
CONSTANTS
    AREA_SIZES <- MCAreaSizes
    HEADER_SIZE = 32
    U64_MAX = 4095
    OS_PAGE_SIZE = 64
    MAX_DECOMPRESSED_LEN = 300
    MAX_COMPRESSION_RATIO = 8
    MAX_KEY_BYTES = 2
    ReplayKeys <- MCReplayKeys
    Addresses = {1, 2}
    FLUSH_THRESHOLD = 2
    MaxCalls = 4
    Nodes <- MCNodes
    Images <- MCImages
    MaxDamage = 2
    Proofs <- MCProofs
    FrameLengths = {1, 10, 60, 110}
    MAX_CORRECTION_PASSES = 2
    DEFAULT_EDGE_BYTES = 16
    BODY_LIMIT_MARGIN = 16
    PROOF_HEADER_SIZE = 32
    Requests <- MCRequests
    EndProofs <- MCEndProofs
    Options <- MCOptions
    ACCOUNT_DEPTH = 4
    AccountValues = {"a", "b"}
    Trailing = {"b"}
    ValueLen <- MCValueLen
    Lists <- MCLists
    Strings <- MCStrings
    EthContents <- MCEthContents
    EthBatches <- MCEthBatches
    EthAccounts <- MCEthAccounts
    EthSlots <- MCEthSlots
INVARIANTS
    
    DiskRoundTrip
    CheckerExact
    FixConverges
    ProofsTravel
    ChunksFit
    ReplayFaithful
    EthExact
CHECK_DEADLOCK FALSE
