SPECIFICATION Spec
CONSTANTS
    NoMac = NoMac
    Macs = {d1}
    WriteResults = {TRUE, FALSE}
    DialResults = {"connecting"}
    CloseKinds = {"sync", "late"}
    NoiseReports = {"NoiseCancellation", "Adaptive"}
    CaReports = {TRUE, FALSE}
    EarReports <- MCEars
    AidReports = {TRUE}
    Mute <- MCMute
    MaxWire = 2
INVARIANT StreamTypeOK
PROPERTIES RecordIsReport ImplementsClient
