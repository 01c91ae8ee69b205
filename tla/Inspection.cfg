SPECIFICATION Spec
CONSTANTS
    Jobs = {"j1", "j2"}
    NodeOf <- MCNodeOf
    KindChoices <- MCKindChoices
    Contents <- MCContents
    Disks <- MCDisks
    Missing = Missing
    NoBase = NoBase
    Metric = "m"
    NodeSet <- MCNodeSet
    BackLimit = 1
    MaxRounds = 2
    MaxEdits = 2
    MaxFaults = 1
    Samples <- MCSamples
    PodSets <- MCPodSets
    Services <- MCServices
    ConnectRules <- MCConnectRules
    Long = {"long"}
    Escaped = {"colour"}
    MaxFiltered = 2
    Resources = {"a1", "a2", "a3", "s1"}
    KeyOf <- MCKeyOf
    StatsKey = "stats"
    ListOf <- MCListOf
    Vital = {"cluster"}
    Denied = {"a1", "a3", "s1"}
    Workers = {1, 2}
    BatchSize = 2
    NoOne = "nobody"
INVARIANTS TypeOK OpaFindsAll ReportComplete FileChangesTold
PROPERTIES JobsEnd
CHECK_DEADLOCK FALSE
