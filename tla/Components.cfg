SPECIFICATION ComponentsSpec
CONSTANTS
    Runs = {r1, r2}
    NoRun = NoRun
    Families = {"plane", "channel", "periodic", "finiteq"}
    Parts <- TwoParts
    Steps = 1
    SaveEvery = 1
    CheckpointEvery = 1
    LastStep = 2
    MaxMishaps = 2
    Overlaps = {"periodic"}
    Floor = 2
    Tolerance = 2
    Top = 5
    Limit = 2
    MaxSolves = 2
    NoPressure = NoPressure
    Threads = {t1, t2}
    NoThread = NoThread
    MaxDepth = 2
    MaxSettings = 1
    Evolved = {"Q"}
    Outputs <- TwoOutputs
    Reads <- TheReads
    Stored = {"u"}
    MaxEpoch = 2
    MaxGenerations = 3
    MaxWrites = 1
    MaxFaults = 1
INVARIANTS
    CompleteIsTruthful
    SuccessKeepsItsData
    FramesAreCoherent
    StatusTellsTheEnd
    AcceptedMeetsContract
    OutcomeBelongsToResult
    StartsFromItsGuess
    CallerStateRoundTrips
    BodyHasItsPolicy
    ServedTransformsAreExact
    RhsReadsItsState
    OutputsBelongTogether
    CacheIsClosed
PROPERTIES FailureKeepsWarmStart SolveDescends CompletedIsFinal
CHECK_DEADLOCK FALSE
