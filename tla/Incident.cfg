SPECIFICATION Spec
CONSTANTS
    Silence = 1
    Sustain = 0
    Limits <- MCLimits
    Cadence = 3
    MaxSnapshots = 3
    Horizon = 300
    None = None
    Logs <- MCLogs
    Windows <- MCWindows
    Toolchains <- MCToolchains
    Queries <- MCQueries
    Installed <- MCInstalled
    Existing <- MCExisting
    Here = Here
    Other = Other
    Absent = Absent
    Torn = Torn
    Contended <- MCContended
    MaxBuilds = 3
    MaxFaults = 1
    Robots <- MCRobots
    Handwritten <- MCHandwritten
    NotSet = NotSet
    NoService = NoService
    NoAnswer = NoAnswer
    MaxRuns = 2
    Adoptable <- MCAdoptable
    Text = Text
INVARIANTS
    AnnouncedIsWhole
    OnlyThePast
    NoiseNeverOutranksQos
    SameFailureSameFingerprint
PROPERTIES
    EarlierTwinIsFound
    AdoptedRuleBlocks
CHECK_DEADLOCK FALSE
