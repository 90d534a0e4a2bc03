SPECIFICATION Spec
CONSTANTS
    d1 = d1
    d2 = d2
    c1 = c1
    c2 = c2
    NoMac = NoMac
    NoConn = NoConn
    NoFile = NoFile
    Macs = {d1, d2}
    ConfiguredMac = d2
    Rank <- MCRankTwo
    Clients = {c1}
    Requests <- MCRequestsMac
    BluezStates = {"absent", "paired", "connected"}
    BusResults = {TRUE}
    FileResults = {TRUE}
    WriteResults = {TRUE}
    DialResults = {"connecting", "closed"}
    CloseKinds = {"sync", "late"}
    NoiseReports = {"Adaptive"}
    CaReports = {}
    EarReports <- MCNoEars
    StatusPollLimit = 1
    MaxDelayed = 1
    PeriodicSnapshots = FALSE
    Signals = {"USR1"}
INVARIANT FileFresh
PROPERTIES PersistentSession
