SPECIFICATION PlatformSpec
CONSTANTS
    Length = 3
    Room = 2
    MaxCommands = 3
    t1 = t1
    t2 = t2
    b1 = b1
    b2 = b2
    RegThreads = {t1, t2}
    RegKeys = {"cards", "nthome"}
    RegReal = {"nthome", "soft"}
    RegHandles = {h1, h2, h3}
    RegNone = RegNone
    RegLength = 2
    PathProcs = {p1, p2}
    PathTails = {"f"}
    VfsDirs <- MCDirs
    VfsOptions = {TRUE, FALSE}
    PathMaxKills = 1
    PathMaxFiles = 2
    HookThreads = {t1, t2}
    LibNames = {"d3d9"}
    LibOthers = {"x"}
    LibMaxHeld = 2
    DevClasses = {"jvs", "ds"}
    DevOthers = {"usb"}
    DevSets = {s1, s2}
    DevNone = DevNone
    DevReal = 2
    DnsThreads = {t1, t2}
    DnsHosts <- MCHosts
    NetThreads = {t1}
    NetConfigs <- MCNetConfigs
    ClockHour = 2
    ClockZone <- MCZone
    ClockConfigs <- MCClockConfigs
    ClockMax = 60
    NusecSize = 2
    NusecConfigs <- MCNusecConfigs
    NusecWord = 8
    NusecDeltas = {1, 5}
    NusecMax = 5
    AmexThreads = {t1, t2}
    AmexStores = {"eeprom"}
    AmexMemories = {"gpio"}
    AmexHandles = {h1, h2, h3}
    AmexNone = AmexNone
    AmexPresses = 1
    LedThreads = {t1, t2}
    LedBoards = {b1, b2}
    LedSource <- MCLedSource
    LedRoom = 1
    VfdEncodings = {"shift-jis", "big5"}
    VfdDefault = "shift-jis"
    VfdRoom = 1
    VfdMaxCommands = 3
    GfxHooks = {"hooklib", "d3d9", "d3d11", "dxgi"}
    FrameFormats = {"slider", "led", "rfid", "sg", "jvs"}
    FramePayloads <- MCFramePayloads
    FrameNoises <- MCFrameNoises
    FrameRoom = 12
    FrameMax = 2
INVARIANTS
    PlatformTypeOK
    AssignedFromTail
    ChainServed
    RegAnsweredByKey
    FramesArrive
    ClockSkips
    AmexOwnHandles
    FilesFound
    HooksLead
    ToldAgrees
    BoardsServed
    StartedWhole
PROPERTIES
    ClockForward
CHECK_DEADLOCK FALSE
