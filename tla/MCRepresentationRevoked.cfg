\* An opportunity created while its representation is being revoked.
SPECIFICATION Spec
CONSTANTS
    p1 = p1
    p2 = p2
    o1 = o1
    o2 = o2
    r1 = r1
    r2 = r2
    originator = originator
    client = client
    platform = platform
    Reps = {p1, p2}
    Opps = {o1}
    Requests = {r1, r2}
    Tenants = {originator, client, platform}
    Platform = platform
    Analysts = {originator, platform}
    Mandates <- MCMandates
    Results = {"ELIGIBLE"}
    MaxVersion = 1
    MaxDocs = 1
CHECK_DEADLOCK FALSE
INVARIANTS RevokedMeansNoGrant
