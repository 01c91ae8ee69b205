SPECIFICATION Spec
CONSTANTS
    Specs <- MCSpecs
    FirstSpec <- MCFirstSpec
    MaxManagerFaults = 1
    MaxInt = 5
    DefaultLimit = 2
    MaxDeaths = 1
    Requests = {q1, q2}
    MaxRequests = 2
    MaxFaults = 1
    OtherRules <- MCOtherRules
    OtherPlans <- MCOtherPlans
    Urls <- MCUrls
INVARIANTS TypeOK ServedFromSynced ListsInBounds WalkMeetsAll
PROPERTIES CountsMatchSpec RuleSettles RepeatNeedsStaleLook
CHECK_DEADLOCK FALSE
