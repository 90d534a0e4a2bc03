SPECIFICATION Spec
CONSTANTS
    d1 = d1
    NoMac = NoMac
    Macs = {d1}
    Device = d1
    BusResults = {TRUE, FALSE}
    WriteResults = {TRUE, FALSE}
    DialResults = {"connecting", "closed"}
    CloseKinds = {"sync"}
    NoiseReports <- MCNone
    CaReports <- MCNone
    EarReports <- MCNone
    PollInterval = 5
    DialTime = 4
    ReplyTime = 2
INVARIANTS DiallingTypeOK ReadyInTime
