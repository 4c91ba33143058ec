------------------------ MODULE MCSettlementDecision ------------------------
(***************************************************************************)
(* All settlements and all short lists of rows over two of everything.     *)
(***************************************************************************)
EXTENDS SettlementDecision

CONSTANTS a1, a2, k1, m1, m2, r1

\* 10 is the amount settled; 11 is within the tolerance, 13 is not.
MCSettlements ==
    [source: {"BANK"}, id: {"e1"}, account: {a1}, amount: {10},
     contract: {k1, None}, match: {m1, None}, ref: {r1, None}]

Elsewhere ==
    [status: {"RECEIVED"}, contract: {k1}, ref: {r1}, match: {m1}, account: {a2}, amount: {10}]
AlreadyReconciled ==
    [status: {"RECONCILED"}, contract: {k1}, ref: {r1}, match: {m1}, account: {a1}, amount: {10}]

FewEntries ==
    [status: {"ELIGIBLE", "TRIGGER_PENDING"}, contract: {k1, None}, ref: {r1, None},
     match: {m1}, account: {a1}, amount: {10, 11, 13}] \cup Elsewhere \cup AlreadyReconciled

\* Every status and both matches.
AllEntries ==
    [status: CommissionStatus, contract: {k1, None}, ref: {r1, None},
     match: {m1, m2}, account: {a1}, amount: {10, 11, 13}] \cup Elsewhere

\* Up to two rows of all kinds, or three that differ in what ranks them.
Pairs   == UNION {[1 .. n -> FewEntries] : n \in 0 .. 2}
MCLists == UNION {[1 .. n -> AllEntries] : n \in 0 .. 2} \cup [1 .. 3 -> FewEntries]

=============================================================================
