SPECIFICATION ClientSpec
CONSTANTS
    d1 = d1
    d2 = d2
    NoMac = NoMac
    Macs = {d1, d2}
    NoiseReports = {"Off", "Adaptive"}
    CaReports = {TRUE, FALSE}
    EarReports <- MCEars
    WriteResults = {TRUE, FALSE}
    DialResults = {"connecting", "closed"}
    CloseKinds = {"sync", "late"}
INVARIANTS ClientTypeOK ReadyImpliesSocket ReadyAfterHandshake
