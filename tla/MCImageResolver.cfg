SPECIFICATION FairSpec
CONSTANTS
    a = a
    b = b
    Callers = {a, b}
    Sources = {"file", "url", "inline"}
    Inline = {"inline"}
    Resources = {"small", "large"}
    Cost <- MCCost
    Limit <- MCLimit
    MaxAssets = 2
    Slots = 1
    MaxCalls = 4
CHECK_DEADLOCK FALSE
INVARIANTS
    BudgetExact
    SameResource
PROPERTIES
    FailureIsOwn
    CallsReturn
