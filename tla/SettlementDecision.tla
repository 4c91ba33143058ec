------------------------- MODULE SettlementDecision -------------------------
(***************************************************************************)
(* The two implementations of the matching policy, as they are written:    *)
(* _decide of the persistent service and _find_candidates, _decide of the  *)
(* in-memory engine.  Both filter the rows in the order they were read,    *)
(* sort the candidates by rank and look at the first two.  One settlement  *)
(* is decided by both, on rows in an arbitrary order: the persistent query *)
(* has no ORDER BY.                                                        *)
(***************************************************************************)
EXTENDS SettlementPolicy, Sequences, FiniteSets

CONSTANTS
    Settlements,     \* settlement events
    Lists            \* lists of commission entries the query may return

\* Amounts are decimals, here whole cents; the engine refuses a negative
\* amount_tolerance.
ASSUME DecisionAssumption ==
    /\ Tolerance \in Nat
    /\ \A ev \in Settlements : ev.amount \in Int
    /\ \A rs \in Lists :
          /\ Len(rs) \in Nat /\ DOMAIN rs = 1 .. Len(rs)
          /\ \A i \in DOMAIN rs : rs[i].amount \in Int

VARIABLES
    event,           \* the settlement being decided
    rows,            \* the rows, in the order the query returned them
    persistent,      \* the decision of the persistent service
    prototype        \* the decision of the in-memory engine

vars == <<event, rows, persistent, prototype>>

\* A decision, the position of the row it selects (0 for none) and the
\* expected amount a review is opened with.
Result(decision, reason, row, expected) ==
    [decision |-> decision, reason |-> reason, row |-> row, expected |-> expected]
NoResult == Result("NONE", "NONE", 0, None)

-----------------------------------------------------------------------------
(* What both implementations share: candidates are positions into rows.    *)

\* list.sort(key=..., reverse=True) keeps the order of rows of equal rank.
Before(ev, rs, i, j) ==
    \/ Rank(ev, rs[i]) > Rank(ev, rs[j])
    \/ Rank(ev, rs[i]) = Rank(ev, rs[j]) /\ i < j

\* The candidates in that order: the k-th comes after k - 1 others.
SortedByRank(ev, rs, found) ==
    [k \in 1 .. Cardinality(found) |->
        CHOOSE i \in found : Cardinality({j \in found : Before(ev, rs, j, i)}) = k - 1]

\* Mutant: the two first candidates are compared without the exact amount.
TieIgnoringAmount(ev, rs, sorted) ==
    Len(sorted) > 1 /\ Rank(ev, rs[sorted[1]]) \div 2 = Rank(ev, rs[sorted[2]]) \div 2
Tie(ev, rs, sorted) ==
    Len(sorted) > 1 /\ Rank(ev, rs[sorted[1]]) = Rank(ev, rs[sorted[2]])

-----------------------------------------------------------------------------
(* The persistent service.                                                 *)

\* The WHERE clause of reconcile, then the loop of _decide.
Locked(ev, rs) ==
    {i \in DOMAIN rs :
        rs[i].account = ev.account /\ rs[i].status \notin {"VOIDED", "RECONCILED"}}
Identified(ev, rs) ==
    {i \in Locked(ev, rs) :
        RefMatch(ev, rs[i]) \/ ContractMatch(ev, rs[i]) \/ MatchMatch(ev, rs[i])}

\* Mutant: a reference alone is identity enough.
ReadyByReference(ev, row) ==
    /\ RefMatch(ev, row) \/ (ContractMatch(ev, row) /\ MatchMatch(ev, row))
    /\ row.status \in {"ELIGIBLE", "INVOICED", "RECEIVED"}
Ready(ev, row) ==
    /\ \/ RefMatch(ev, row) /\ ContractMatch(ev, row)
       \/ ContractMatch(ev, row) /\ MatchMatch(ev, row)
    /\ row.status \in {"ELIGIBLE", "INVOICED", "RECEIVED"}

DecidePersistent(ev, rs) ==
    LET sorted == SortedByRank(ev, rs, Identified(ev, rs))
        best   == rs[sorted[1]]
    IN  IF sorted = << >> THEN Result("UNMATCHED", "NO_CANDIDATE", 0, None)
        ELSE IF Tie(ev, rs, sorted)
        THEN Result("REVIEW_REQUIRED", "AMBIGUOUS_CANDIDATES", 0, best.amount)
        ELSE IF Variance(ev, best) > Tolerance
        THEN Result("REVIEW_REQUIRED", "AMOUNT_VARIANCE", sorted[1], best.amount)
        ELSE IF ~Ready(ev, best)
        THEN Result("REVIEW_REQUIRED", "COMMISSION_NOT_READY", sorted[1], best.amount)
        ELSE Result("AUTO_RECONCILED", "EXACT_REFERENCE_AND_AMOUNT", sorted[1], best.amount)

-----------------------------------------------------------------------------
(* The in-memory engine, which records no expected amount.                 *)

\* _find_candidates: one loop, three early continues, then the identifiers.
FoundCandidates(ev, rs) ==
    {i \in DOMAIN rs :
        /\ rs[i].account = ev.account
        /\ rs[i].status \notin {"VOIDED", "RECONCILED"}
        /\ RefMatch(ev, rs[i]) \/ ContractMatch(ev, rs[i]) \/ MatchMatch(ev, rs[i])}

\* _is_ready_for_auto_reconcile, the last check of a contract included.
IsReadyForAutoReconcile(ev, row) ==
    /\ \/ RefMatch(ev, row) /\ ContractMatch(ev, row)
       \/ ContractMatch(ev, row) /\ MatchMatch(ev, row)
    /\ Variance(ev, row) <= Tolerance
    /\ row.status \in {"ELIGIBLE", "INVOICED", "RECEIVED"}
    /\ ev.contract # None \/ row.contract # None

DecidePrototype(ev, rs) ==
    LET sorted == SortedByRank(ev, rs, FoundCandidates(ev, rs))
        best   == rs[sorted[1]]
    IN  IF sorted = << >> THEN Result("UNMATCHED", "NO_CANDIDATE", 0, None)
        ELSE IF Tie(ev, rs, sorted)
        THEN Result("REVIEW_REQUIRED", "AMBIGUOUS_CANDIDATES", 0, None)
        ELSE IF Variance(ev, best) # 0 /\ Variance(ev, best) > Tolerance
        THEN Result("REVIEW_REQUIRED", "AMOUNT_VARIANCE", sorted[1], None)
        ELSE IF ~IsReadyForAutoReconcile(ev, best)
        THEN Result("REVIEW_REQUIRED", "COMMISSION_NOT_READY", sorted[1], None)
        ELSE Result("AUTO_RECONCILED", "EXACT_REFERENCE_AND_AMOUNT", sorted[1], None)

-----------------------------------------------------------------------------
Init ==
    /\ event \in Settlements
    /\ rows \in Lists
    /\ persistent = NoResult
    /\ prototype = NoResult

Decide ==
    /\ persistent = NoResult
    /\ persistent' = DecidePersistent(event, rows)
    /\ prototype'  = DecidePrototype(event, rows)
    /\ UNCHANGED <<event, rows>>

Next == Decide

Spec == Init /\ [][Next]_vars

-----------------------------------------------------------------------------
Decided == persistent # NoResult

\* Sorting the rows and comparing the first two decides what SettlementPolicy
\* says on the unordered set of candidates: no candidate, a tie, or a clear
\* winner, which reconciles exactly when the policy lets it.
PersistentFollowsPolicy ==
    Decided =>
        /\ persistent.decision = "UNMATCHED" <=> Candidates(event, rows) = {}
        /\ persistent.reason = "AMBIGUOUS_CANDIDATES" <=> Ambiguous(event, rows)
        /\ \A i \in DOMAIN rows :
              persistent.row = i <=> ClearWinner(event, rows, i)
        /\ persistent.decision = "AUTO_RECONCILED" <=>
              \E i \in DOMAIN rows :
                  ClearWinner(event, rows, i) /\ MayAutoReconcile(event, rows[i])

\* persistent_reconciliation.py:3, "the same deterministic policy as the
\* in-memory prototype": decision, reason and commission are the same.
EnginesAgree ==
    Decided =>
        /\ persistent.decision = prototype.decision
        /\ persistent.reason   = prototype.reason
        /\ persistent.row      = prototype.row

=============================================================================
