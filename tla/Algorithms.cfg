CONSTANTS
    MaxRecords = 2
    MaxSets = 4
    MaxOdd = 1
    MaxTime = 2
    End = End
    Hosts = {1, 2}
    BaseNames = {"a", "b", "c"}
    Handles = {1, 2}
    NoBase = ""
SPECIFICATION Spec
INVARIANTS
    ObjectsOrdered
    ScriptAccepted
    ScriptComplete
    TableRebuilt
    SettingsRecreated
    ScriptRunsAsCalled
    ConfigurationApplied
    TableAltered
    StepsReordered
    PlanRestores
