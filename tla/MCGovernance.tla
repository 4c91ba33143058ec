----------------------------- MODULE MCGovernance -----------------------------
(***************************************************************************)
(* A small instance of Governance for TLC: one consented demand that fits  *)
(* two products differently, one demand without consent, and dossiers that *)
(* pass, are gated or have gaps.                                           *)
(***************************************************************************)
EXTENDS Governance, TLC

CONSTANTS h1, h2, borrower, funder, partner

Demand(source, consent) ==
    [owner |-> borrower, partner |-> source, consent |-> consent,
     type |-> "loan", amount |-> 5, term |-> 12, collateral |-> {"land"}, sectors |-> {},
     regions |-> {"south"}, stage |-> "works"]

Offer(name, type, top, state) ==
    [name |-> name, provider |-> funder, status |-> state, type |-> type,
     minTicket |-> 1, maxTicket |-> top, minTerm |-> 6, maxTerm |-> 24,
     collateral |-> {"land", "stock"}, sectors |-> {"housing"}, regions |-> {}, stages |-> {"works"}]

MCDemands == {Demand(partner, "GRANTED"), Demand(NotGiven, "PENDING")}

MCRegistrations == {<<"BORROWER", borrower>>, <<"FUNDER", funder>>, <<"PARTNER", partner>>}

\* Everything fits; neither type nor ticket does.
MCOffers == {Offer("wide", "all", 9, "ACTIVE"), Offer("other", "lease", 4, "ACTIVE")}

Full ==
    [consent |-> "GRANTED", coherent |-> TRUE, documents |-> RequiredDocuments,
     dscr |-> NotGiven, revenue |-> 6, debtService |-> 5, debt |-> 5, ebitda |-> 1,
     amount |-> 5, ltv |-> NotGiven, collateralValue |-> 8, confidence |-> "HIGH"]

\* Sound, which a cover below one does not change; no EBITDA to compare with.
MCDossiers == {[Full EXCEPT !.dscr = 50], [Full EXCEPT !.ebitda = 0]}

Symmetry == Permutations(Handlers)

=============================================================================
