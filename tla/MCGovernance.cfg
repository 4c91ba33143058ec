\* Two handlers at a time, two matches of one consented demand.
SPECIFICATION Spec
CONSTANTS
    h1 = h1
    h2 = h2
    borrower = borrower
    funder = funder
    partner = partner
    Registrations <- MCRegistrations
    NotGiven = NotGiven
    Handlers = {h1, h2}
    Demands <- MCDemands
    Offers <- MCOffers
    Dossiers <- MCDossiers
    AgentMoves = {"APPROVED_TO_CONTACT"}
    FunderMoves = {"INTERESTED"}
    Decisions = {"APPROVE_CONTACT", "BLOCK"}
    MaxAssessments = 2
    MaxTrail = 2
    MaxVersion = 3
SYMMETRY Symmetry
\* A trail that is full leaves nothing to do.
CHECK_DEADLOCK FALSE
INVARIANTS TypeOK MatchesAreEntitled ReleasesAreBacked TrailExplainsStatus
PROPERTIES ReleasesAreCurrent
