-------------------------- MODULE SettlementPolicy --------------------------
(***************************************************************************)
(* The deterministic matching policy of flow J: which commissions a        *)
(* settlement event may refer to, how they rank, and when one of them may  *)
(* be reconciled without a person.  The code sorts the candidates and      *)
(* compares the first two; here the same choice is stated on sets.         *)
(***************************************************************************)
EXTENDS CommissionLifecycle, Integers

CONSTANT Tolerance   \* amount_tolerance, in cents

RefMatch(ev, entry)      == ev.ref # None /\ entry.ref = ev.ref
ContractMatch(ev, entry) == ev.contract # None /\ entry.contract = ev.contract
MatchMatch(ev, entry)    == ev.match # None /\ entry.match = ev.match

Variance(ev, entry) ==
    IF entry.amount >= ev.amount THEN entry.amount - ev.amount
                                 ELSE ev.amount - entry.amount

\* The rows the service locks, and of these the ones that share an identifier.
Candidates(ev, ledger) ==
    {c \in DOMAIN ledger :
        /\ ledger[c].account = ev.account
        /\ ledger[c].status \notin {"VOIDED", "RECONCILED"}
        /\ \/ RefMatch(ev, ledger[c])
           \/ ContractMatch(ev, ledger[c])
           \/ MatchMatch(ev, ledger[c])}

Bit(b) == IF b THEN 1 ELSE 0

\* The sort key (reference, contract, match, exact amount), read as a number.
Rank(ev, entry) ==
      8 * Bit(RefMatch(ev, entry))
    + 4 * Bit(ContractMatch(ev, entry))
    + 2 * Bit(MatchMatch(ev, entry))
    + Bit(Variance(ev, entry) = 0)

\* c is first after sorting, and no other candidate ties with it.
ClearWinner(ev, ledger, c) ==
    /\ c \in Candidates(ev, ledger)
    /\ \A d \in Candidates(ev, ledger) \ {c} :
          Rank(ev, ledger[d]) < Rank(ev, ledger[c])

\* The two first candidates after sorting have the same rank.
Ambiguous(ev, ledger) ==
    \E c, d \in Candidates(ev, ledger) :
        /\ c # d
        /\ Rank(ev, ledger[c]) = Rank(ev, ledger[d])
        /\ \A e \in Candidates(ev, ledger) :
              Rank(ev, ledger[e]) <= Rank(ev, ledger[c])

\* Strong or safe identity, tolerable amount, and a status that may settle.
MayAutoReconcile(ev, entry) ==
    /\ Variance(ev, entry) <= Tolerance
    /\ ContractMatch(ev, entry)
    /\ RefMatch(ev, entry) \/ MatchMatch(ev, entry)
    /\ entry.status \in Settleable

=============================================================================
