SPECIFICATION BatterySpec
CONSTANTS
    NoLevel = NoLevel
    Packets <- MCPackets
INVARIANTS BatteryTypeOK ShownWasReported
PROPERTY LastLevelKept
