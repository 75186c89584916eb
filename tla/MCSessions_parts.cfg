SPECIFICATION SessionsSpec
CONSTANTS
    dev1 = dev1
    dev2 = dev2
    dev3 = dev3
    h1 = h1
    NoDevice = NoDevice
    Devices = {dev1, dev2, dev3}
    Openers = {h1}
    MaxDevices = 2
    MaxPlugs = 3
    Applications <- AnyButBoth
    Exported <- MCExported
    Lengths = {0, 1}
    Counts <- MCCounts
    MaxUrbs = 3
    Values <- MCValues
    MaxItems = 4
    Text <- MCText
    Unmapped = {"?"}
    MaxTypists = 2
    Targets <- MCTargets
    Images <- MCImages
    StrayData <- MCStrayData
    TransferSize = 2
    Capacity = 4
    BlockMod = 3
    Keys = {"v"}
    NoKey = "x"
    LineMaxLen = 4
    MaxPacket = 3
    MaxTyped = 7
    Payloads <- MCPayloads
    MaxTransfer = 9
    MaxPackets = 3
    ByteMod = 2
    FrameSizes <- MCFrameSizes
    Caps = {1, 2, 3, 5, 9}
    MaxFrames = 3
    FileLen = 3
    Asks = {0, 3, 8}
    MaxSamples = 4
    Kinds <- MCKinds
    MaxFunctions = 3
    MaxAdverts = 1
    LastNumber = 4
    EchoLengths = {0, 1, 2}
    MaxSent = 4
    MaxParked = 2
    FatTypes = {12, 16, 32}
    SectorSizes = {4, 5}
    BlockSizes = {5, 8}
    Clusters = {1, 2}
    VolumeStarts = {0, 1}
    LastCluster = 5
    Sizes = {1, 7, 16}
    ChunkCounts <- MCChunkCounts
    FrameLengths = {1, 2}
    KeyFrames <- MCKeyFrames
    Frames = 6
    ByteBits = 4
    BlockCoeffs = 20
    Scans <- MCScans
    Components <- MCComponents
    Intervals = {0, 1, 2}
INVARIANTS
    DevnumsUnique
    ExportedIsServed
    StaysInStep
    FieldsAsDeclared
    TypedTextArrives
    DownloadReadsBack
    LinesTapTheirKeys
    PacketsReassembled
    FramesWhole
    SoundContinuous
    RoutedAsDescribed
    MsosAgree
    AnsweredByOwner
    DriversFindPipes
    EchoedInOrder
    FilesReadBack
    ClipPlaysInOrder
    BlocksReadBack
PROPERTY LookedUpIsOpened
CHECK_DEADLOCK FALSE
