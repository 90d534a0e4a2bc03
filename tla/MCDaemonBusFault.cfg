SPECIFICATION Spec
CONSTANTS
    d1 = d1
    d2 = d2
    c1 = c1
    c2 = c2
    NoMac = NoMac
    NoConn = NoConn
    NoFile = NoFile
    Macs = {d1}
    ConfiguredMac = d1
    Rank <- MCRankOne
    Clients = {c1}
    Requests <- MCRequests
    BluezStates = {"paired", "connected"}
    BusResults = {TRUE, FALSE}
    FileResults = {TRUE}
    WriteResults = {TRUE}
    DialResults = {"connecting"}
    CloseKinds = {"sync"}
    NoiseReports = {"Adaptive"}
    CaReports = {}
    EarReports <- MCNoEars
    StatusPollLimit = 1
    MaxDelayed = 1
    PeriodicSnapshots = FALSE
    Signals = {}
PROPERTIES ReadySessionKept
