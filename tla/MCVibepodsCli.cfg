SPECIFICATION FairSpec
CONSTANTS
    d1 = d1
    d2 = d2
    NoMac = NoMac
    BadMac = BadMac
    Macs = {d1, d2}
    Rank <- MCRank
    Commands <- MCCommands
    BluezStates = {"absent", "paired", "connected"}
    BusResults = {TRUE, FALSE}
    DaemonAnswers = {"none", "failed", "ok", "refused"}
    PollLimit = 2
    WriteResults = {TRUE, FALSE}
    DialResults = {"connecting", "closed"}
    CloseKinds = {"sync"}
    NoiseReports = {"Off", "Adaptive"}
    CaReports = {TRUE, FALSE}
    EarReports <- MCEars
INVARIANTS CliTypeOK ZeroMeansConfirmed StatusSettled OneStatusObject FatalExitsNine SentOnce DisconnectVerified
PROPERTY Terminates
