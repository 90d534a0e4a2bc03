SPECIFICATION Spec
CONSTANTS
    d1 = d1
    d2 = d2
    c1 = c1
    c2 = c2
    NoMac = NoMac
    NoConn = NoConn
    NoFile = NoFile
    Macs = {d1}
    ConfiguredMac = NoMac
    Rank <- MCRankOne
    Clients = {c1, c2}
    Requests <- MCRequests
    BluezStates = {"paired", "connected"}
    BusResults = {TRUE}
    FileResults = {TRUE}
    WriteResults = {TRUE, FALSE}
    DialResults = {"connecting"}
    CloseKinds = {"sync", "late"}
    NoiseReports = {"Off", "Adaptive"}
    CaReports = {TRUE, FALSE}
    EarReports <- MCEars
    StatusPollLimit = 2
    MaxDelayed = 1
    PeriodicSnapshots = FALSE
    Signals = {}
SYMMETRY ClientSymmetry
INVARIANTS TypeOK OneOwner SlotTimers PendingHasSession FileFresh
PROPERTIES OkMatchesCache KeepsPromise
