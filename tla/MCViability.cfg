\* Two handlers, three jobs, one scenario.
SPECIFICATION Spec
CONSTANTS
    h1 = h1
    h2 = h2
    study = study
    erp = erp
    t1 = t1
    t2 = t2
    units = units
    costs = costs
    Handlers = {h1, h2}
    Studies = {study}
    Connections = {erp}
    Tenants = {t1, t2}
    Scenarios <- MCScenarios
    Fields = {units, costs}
    Overrides <- MCOverrides
    Patches <- MCPatches
    MaxJobs = 3
    MaxSnapshots = 1
    NoStudy = NoStudy
SYMMETRY Symmetry
\* When the jobs are used up, nothing may be left to do.
CHECK_DEADLOCK FALSE
INVARIANTS InputsAreAccountedFor ConnectionTellsItsLastRun SnapshotsShowOneCalculation
