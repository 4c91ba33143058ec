\* Two handlers at a time, two representations of one client.
SPECIFICATION Spec
CONSTANTS
    p1 = p1
    p2 = p2
    o1 = o1
    o2 = o2
    r1 = r1
    r2 = r2
    originator = originator
    client = client
    platform = platform
    Reps = {p1, p2}
    Opps = {o1, o2}
    Requests = {r1, r2}
    Tenants = {originator, client, platform}
    Platform = platform
    Analysts = {originator, platform}
    Mandates <- MCMandates
    Results = {"ELIGIBLE", "INFORMATION_REQUIRED"}
    MaxVersion = 3
    MaxDocs = 1
SYMMETRY Symmetry
\* Revoked representations without opportunities leave nothing to do.
CHECK_DEADLOCK FALSE
INVARIANTS TypeOK GrantsAreDerived StageFollowsTheCases OutsidersActOnGrants GrantsMirrorTheirSource
PROPERTIES RevocationIsConfined
