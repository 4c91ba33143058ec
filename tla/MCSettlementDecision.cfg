\* Lists of up to three rows: both implementations follow the policy.
SPECIFICATION Spec
CONSTANTS
    None = None
    a1 = a1
    a2 = a2
    k1 = k1
    m1 = m1
    m2 = m2
    r1 = r1
    Tolerance = 1
    Settlements <- MCSettlements
    Lists <- MCLists
INVARIANTS PersistentFollowsPolicy EnginesAgree
CHECK_DEADLOCK FALSE
