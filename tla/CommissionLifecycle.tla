------------------------- MODULE CommissionLifecycle -------------------------
(***************************************************************************)
(* The commission aggregate of flow J: its statuses, the table of allowed  *)
(* transitions and the transition function of CommissionLedgerEntry.       *)
(*                                                                         *)
(* An entry is a record [status, contract, ref, match, account, amount].   *)
(* "account" stands for the pair (beneficiary tenant, upper-cased          *)
(* currency), which the code only ever compares as a pair; "ref" is the    *)
(* invoice_reference of the free-form metadata, the one metadata key the   *)
(* settlement policy reads; "amount" is estimated_amount in cents.         *)
(***************************************************************************)

CONSTANT None        \* the absent contract, reference, commission, operator

CommissionStatus ==
    {"ESTIMATE_ONLY", "CONTRACT_PENDING", "TRIGGER_PENDING", "ELIGIBLE",
     "INVOICED", "RECEIVED", "RECONCILED", "DISPUTED", "VOIDED"}

COMMISSION_TRANSITIONS ==
    [s \in CommissionStatus |->
        CASE s = "ESTIMATE_ONLY"    -> {"CONTRACT_PENDING", "VOIDED"}
          [] s = "CONTRACT_PENDING" -> {"TRIGGER_PENDING", "VOIDED"}
          [] s = "TRIGGER_PENDING"  -> {"ELIGIBLE", "DISPUTED", "VOIDED"}
          [] s = "ELIGIBLE"         -> {"INVOICED", "DISPUTED", "VOIDED"}
          [] s = "INVOICED"         -> {"RECEIVED", "DISPUTED", "VOIDED"}
          [] s = "RECEIVED"         -> {"RECONCILED", "DISPUTED"}
          [] s = "RECONCILED"       -> {"DISPUTED"}
          [] s = "DISPUTED"         -> {"TRIGGER_PENDING", "ELIGIBLE", "VOIDED"}
          [] s = "VOIDED"           -> {}]

\* CommissionLedgerEntry.transition raises InvalidTransition otherwise.
MayTransition(entry, status, contract) ==
    /\ status \in COMMISSION_TRANSITIONS[entry.status]
    /\ status \in {"TRIGGER_PENDING", "ELIGIBLE"}
          => contract # None \/ entry.contract # None

\* Mutant: a step that names no contract erases the entry's own.
TransitionedForgets(entry, status, contract, ref) ==
    [entry EXCEPT !.status   = status,
                  !.contract = contract,
                  !.ref      = IF ref # None THEN ref ELSE @]

\* A given contract or reference replaces the entry's own; none keeps it.
Transitioned(entry, status, contract, ref) ==
    [entry EXCEPT !.status   = status,
                  !.contract = IF contract # None THEN contract ELSE @,
                  !.ref      = IF ref # None THEN ref ELSE @]

\* CommissionLedgerEntry.estimate: a new entry, of which only the service
\* layer may later set the invoice reference.
Estimated(match, account, contract, amount) ==
    [status |-> "ESTIMATE_ONLY", contract |-> contract, ref |-> None,
     match |-> match, account |-> account, amount |-> amount]

\* The statuses from which a settlement may walk the chain
\* ELIGIBLE -> INVOICED -> RECEIVED -> RECONCILED inside one transaction.
Settleable == {"ELIGIBLE", "INVOICED", "RECEIVED"}

\* The three conditional transitions of that chain, taken together.
Settled(entry) ==
    IF entry.status \in Settleable
    THEN [entry EXCEPT !.status = "RECONCILED"]
    ELSE entry

=============================================================================
