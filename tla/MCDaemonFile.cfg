SPECIFICATION Spec
CONSTANTS
    d1 = d1
    d2 = d2
    c1 = c1
    c2 = c2
    NoMac = NoMac
    NoConn = NoConn
    NoFile = NoFile
    Macs = {d1}
    ConfiguredMac = NoMac
    Rank <- MCRankOne
    Clients = {c1}
    Requests <- MCRequests
    BluezStates = {"absent", "connected"}
    BusResults = {TRUE}
    FileResults = {TRUE}
    WriteResults = {TRUE, FALSE}
    DialResults = {"connecting"}
    CloseKinds = {"sync", "late"}
    NoiseReports = {"Adaptive"}
    CaReports = {TRUE}
    EarReports <- MCEarsTwo
    StatusPollLimit = 1
    MaxDelayed = 1
    PeriodicSnapshots = TRUE
    Signals = {"USR1", "QUIT", "KILL"}
INVARIANTS CleanExitFile FileFresh EarsRemembered
