SPECIFICATION FairSpec
CONSTANTS
    Capacity <- MCCapacity
    Chunk <- MCChunk
    SigpipeResults = {"killed", "ignored"}
    MaxRaised = 5
INVARIANTS SignalTypeOK EndsClean
PROPERTIES CleanupLast QuitHonoured
CHECK_DEADLOCK FALSE
