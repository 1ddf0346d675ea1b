SPECIFICATION ToolboxSpec
CHECK_DEADLOCK FALSE
CONSTANTS
    IdsSource = {1, 2}
    IdsTarget = {"a", "b"}
    IdsInput <- SampleIdsInput
    IdsWindow = 3
    ScanPorts = 2
    SweepHosts = 2
    BruteForce = 2
    BeaconSamples = 4
    IdsEvents = 4
    PktInput <- SamplePktInput
    PktFilter = {"tcp", "udp", "icmp", "none"}
    ScanLevels = {2}
    BeaconFull = 3
    BeaconKeep = 1
    PktClock = 3
    PktBound = 4
    ScanPid = {1, 2}
    Image <- SampleImage
    MemoryBound = 6
    CoreDump <- SampleCoreDump
    TlFile <- SampleTlFile
    TlLine <- SampleTlLine
    TlProcess <- SampleTlProcess
    TlConnection <- SampleTlConnection
    TlItem <- SampleTlItem
    TlWindow <- SampleTlWindow
    YearLength = 20
    MetadataSlack = 0
    Backdated = 3
    TlNow = 10
    TlSources = 4
    Monitored <- SampleMonitored
    FileStates <- SampleFileStates
    FimBound = 3
    IocKey = {"ip", "name", "hash"}
    BloomBits <- SampleBloomBits
    SeenType <- SampleSeenType
    FeedType = {"ip", "filename"}
    FeedTag = {"c2"}
    BuiltIn <- SampleBuiltIn
    IocBound = 4
    Canary <- SampleCanary
    Tolerance = 1
    ExfilWindow = 1
    DeceptionClock = 3
    DeceptionBound = 2
    Address = {"a1", "a2"}
    Device = {"m1", "m2", "m3"}
    Silent = {"m3"}
    MapPort = {22}
    Open <- SampleOpen
    MapBound = 5
    HuntPid = {1, 2, 3}
    HuntProgram <- SampleProgram
    HuntUser = {"u"}
    Connection <- SampleConnection
    LogFiles <- SampleLogFiles
    AuthFiles <- SampleAuthFiles
    Topic = {"cred"}
    HuntLogs <- SampleHuntLogs
    HuntPlan <- SampleHuntPlan
    MaxLogLines = 4
    CommandBurst = 2
    LineBurst = 2
    HuntChanges = 4
    Top = "/"
    DirTree <- SampleDirTree
    FileName = {"f"}
    WebName = {"f"}
    FileKind <- SampleFileKind
    HuntedProc <- SampleProc
    HideoutSets <- SampleHideouts
    IocChanges = 2
INVARIANTS
    FindingsMatchTheStream
    
    AlarmsMatchTheStream
    ComparedWithWhatIsStored
