\* Two feeds deliver settlements with one event id.
SPECIFICATION Spec
CONSTANTS
    None = None
    c1 = c1
    c2 = c2
    m1 = m1
    a1 = a1
    k1 = k1
    r1 = r1
    alice = alice
    bob = bob
    Tolerance = 1
    Commissions = {c1, c2}
    Matches = {m1}
    Accounts = {a1}
    Contracts = {k1}
    Refs = {}
    Amounts = {10, 13}
    Settlements <- TwoFeeds
    Operators = {alice, bob}
    ReviewClaimLimit = 1
INVARIANTS TypeOK ContractBeforeTriggerable CaseFilesAgree OutboxTellsOutcomes
PROPERTIES ReviewsAreDecidedOnceByTheirOwner LedgerNeverReopens LedgerMovesWithItsCase EachSettlementIsOneCase
SYMMETRY Symmetry
CHECK_DEADLOCK FALSE
