\* A revoked consent, two tenants that access each other's, first appends.
SPECIFICATION FairSpec
CONSTANTS
    None = None
    tA = tA
    tB = tB
    c1 = c1
    c2 = c2
    Tenants = {tA, tB}
    Consents = {c1, c2}
    Workloads <- AllWorkloads
INVARIANTS TypeOK ChainsVerify AccessEndsWithRevocation RecordedTogether
PROPERTY NoRequestWaitsForever
CHECK_DEADLOCK FALSE
