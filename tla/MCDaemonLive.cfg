SPECIFICATION FairSpec
CONSTANTS
    d1 = d1
    d2 = d2
    c1 = c1
    c2 = c2
    NoMac = NoMac
    NoConn = NoConn
    NoFile = NoFile
    Macs = {d1}
    ConfiguredMac = NoMac
    Rank <- MCRankOne
    Clients = {c1, c2}
    Requests <- MCRequestsLive
    BluezStates = {"paired", "connected"}
    BusResults = {TRUE}
    FileResults = {TRUE}
    WriteResults = {TRUE}
    DialResults = {"connecting"}
    CloseKinds = {"sync"}
    NoiseReports = {"Adaptive"}
    CaReports = {}
    EarReports <- MCNoEars
    StatusPollLimit = 1
    MaxDelayed = 1
    PeriodicSnapshots = FALSE
    Signals = {"USR1", "QUIT"}
PROPERTIES EveryRequestAnswered SlotFreed
