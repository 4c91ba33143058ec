-------------------------- MODULE MCReconciliation --------------------------
(***************************************************************************)
(* Small instances of Reconciliation for TLC.                              *)
(***************************************************************************)
EXTENDS Reconciliation, TLC

CONSTANTS c1, c2, m1, a1, k1, r1, alice, bob

Settlement(source, id, amount, contract, match, ref) ==
    [source |-> source, id |-> id, account |-> a1, amount |-> amount,
     contract |-> contract, match |-> match, ref |-> ref]

\* Two feeds that use the same event id for a settlement of one commission,
\* exact for an estimate of 10 and outside the tolerance for one of 13.
FromA == Settlement("BANK_A", "e1", 10, k1, m1, None)
FromB == Settlement("BANK_B", "e1", 10, k1, m1, None)

TwoFeeds == {FromA, FromB}
OneFeed  == {FromA}

\* Commissions and operators are interchangeable.
Symmetry == Permutations(Commissions) \cup Permutations(Operators)

=============================================================================
