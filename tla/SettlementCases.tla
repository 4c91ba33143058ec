--------------------------- MODULE SettlementCases ---------------------------
(***************************************************************************)
(* What flow J promises about every delivered settlement, however often it *)
(* is delivered: it is taken up once, it gets one outcome, a person        *)
(* decides at most once where the policy could not, and the outcome is     *)
(* announced in the same step.                                             *)
(***************************************************************************)
CONSTANT Keys        \* the identities of settlements, (source, event id)

VARIABLES outcome,   \* what has become of each settlement
          announced  \* the settlements whose outcome is in the outbox

caseVars == <<outcome, announced>>

Decisions == {"ACCEPTED", "REJECTED", "WAITING_INFORMATION"}
Outcomes  == {"NEW", "UNMATCHED", "OPEN", "SETTLED"} \cup Decisions

Init ==
    /\ outcome = [k \in Keys |-> "NEW"]
    /\ announced = {}

\* Nothing to reconcile, or something only a person may decide.
Shelve(k, o) ==
    /\ outcome[k] = "NEW"
    /\ o \in {"UNMATCHED", "OPEN"}
    /\ outcome' = [outcome EXCEPT ![k] = o]
    /\ UNCHANGED announced

Settle(k) ==
    /\ outcome[k] = "NEW"
    /\ outcome' = [outcome EXCEPT ![k] = "SETTLED"]
    /\ announced' = announced \cup {k}

Decide(k, o) ==
    /\ outcome[k] = "OPEN"
    /\ o \in Decisions
    /\ outcome' = [outcome EXCEPT ![k] = o]
    /\ announced' = announced \cup {k}

Next ==
    \E k \in Keys :
        \/ \E o \in Outcomes : Shelve(k, o) \/ Decide(k, o)
        \/ Settle(k)

Spec == Init /\ [][Next]_caseVars

=============================================================================
