SPECIFICATION Spec
CONSTANTS
    Nodes = {"n1", "n2", "n3"}
    Lost = {"n9"}
    Labels = {"a", "b"}
    LabelsOf <- NodeLabels
    NoNode = "absent"
    Blank = ""
    Names = {"x", "y"}
    Specs <- SomeSpecs
    RuleIds = {"r1", "r2", "r3"}
    Installed = {"r1", "r2"}
    RefSeqs <- SomeRefs
    MaxErrors = 1
INVARIANTS TypeOK InspectedWhereAsked EachOnce StoredIsRun
