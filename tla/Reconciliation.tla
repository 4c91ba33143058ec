--------------------------- MODULE Reconciliation ---------------------------
(***************************************************************************)
(* The durable flow-J state machine: the commission ledger, the settlement *)
(* inbox, the link and the review that each inbox row may have, and the    *)
(* keys of the outbox events committed with them.                          *)
(*                                                                         *)
(* Every handler of the persistent reconciliation router is one SQL        *)
(* transaction that either commits as a whole or is rolled back, and it    *)
(* locks the rows it decides on (FOR UPDATE), so each is one action here.  *)
(* A request the code refuses (an early return, a raised error) changes    *)
(* nothing: the refusing condition is the negation of the action's guard.  *)
(***************************************************************************)
EXTENDS SettlementPolicy, FiniteSets

CONSTANTS
    Commissions,     \* commission ids that may be registered
    Matches,         \* marketplace matches
    Accounts,        \* (beneficiary tenant, currency) pairs
    Contracts,       \* contract ids
    Refs,            \* invoice references
    Amounts,         \* estimated amounts, in cents
    Settlements,     \* settlement events the feeds may deliver, repeatedly
    Operators,       \* back-office users
    ReviewClaimLimit \* rows one claim may take

ASSUME SentinelAssumption ==
    None \notin Commissions \cup Matches \cup Contracts \cup Refs \cup Operators
ASSUME AmountAssumption == Amounts \subseteq Nat /\ Tolerance \in Nat
ASSUME SettlementAssumption ==
    \A ev \in Settlements :
        /\ DOMAIN ev = {"source", "id", "account", "amount", "contract", "match", "ref"}
        /\ ev.amount \in Nat
        /\ ev.account \in Accounts
        /\ ev.contract \in Contracts \cup {None}
        /\ ev.match \in Matches \cup {None}
        /\ ev.ref \in Refs \cup {None}

VARIABLES
    ledger,          \* registered commissions and their entries
    inbox,           \* status of each received (source, external id)
    links,           \* the link row of each inbox row
    reviews,         \* the review row of the inbox rows that need a person
    outbox,          \* event keys inserted so far (rows are never deleted)
    failed           \* deliveries answered with an integrity error

vars == <<ledger, inbox, links, reviews, outbox, failed>>

-----------------------------------------------------------------------------
(* Rows and keys.                                                          *)

\* uq_reconciliation_inbox_source_event
InboxKey(ev) == <<ev.source, ev.id>>
InboxKeys    == {InboxKey(ev) : ev \in Settlements}

\* uq_reconciliation_outbox_event_key: the four shapes of event_key.
AutoKey(id, c)  == <<"commission-reconciled", id, c>>
ManualKeyReused(k) == <<"commission-disputed", k, None>>   \* mutant
ManualKey(k)    == <<"commission-manually-reconciled", k, None>>
DisputeKey(k)   == <<"commission-disputed", k, None>>
InfoKey(k)      == <<"commission-information-requested", k, None>>

Entry ==
    [status: CommissionStatus, contract: Contracts \cup {None},
     ref: Refs \cup {None}, match: Matches, account: Accounts, amount: Amounts]
InboxStatus  == {"PROCESSED", "REVIEW_REQUIRED", "DISPUTED"}
LinkDecision == {"AUTO_RECONCILED", "REVIEW_REQUIRED", "UNMATCHED",
                 "MANUAL_ACCEPTED", "MANUAL_REJECTED"}
ReviewStatus == {"OPEN", "CLAIMED", "WAITING_INFORMATION", "RESOLVED"}
Undecided    == {"OPEN", "CLAIMED"}

\* f with x bound to v, x being new or not: an INSERT or an UPDATE by key.
With(f, x, v) == [y \in DOMAIN f \cup {x} |-> IF y = x THEN v ELSE f[y]]

NewReview == [status |-> "OPEN", assigned |-> None, decision |-> "NONE"]

-----------------------------------------------------------------------------
Init ==
    /\ ledger  = << >>
    /\ inbox   = << >>
    /\ links   = << >>
    /\ reviews = << >>
    /\ outbox  = {}
    /\ failed  = {}

\* register_commission; the router passes no metadata, hence no reference.
RegisterCommission(c, match, account, contract, amount) ==
    /\ c \notin DOMAIN ledger
    /\ ledger' = With(ledger, c, Estimated(match, account, contract, amount))
    /\ UNCHANGED <<inbox, links, reviews, outbox, failed>>

\* transition_commission: an operator's own step, with no outbox event.
TransitionCommission(c, status, contract, ref) ==
    /\ c \in DOMAIN ledger
    /\ MayTransition(ledger[c], status, contract)
    /\ ledger' = [ledger EXCEPT ![c] = Transitioned(@, status, contract, ref)]
    /\ UNCHANGED <<inbox, links, reviews, outbox, failed>>

\* The inbox insert succeeds; otherwise the event is a DUPLICATE and the
\* handler returns without touching the ledger.
FreshAlways(ev) == TRUE      \* mutant: no unique constraint on the inbox
Fresh(ev) == InboxKey(ev) \notin DOMAIN inbox

\* Mutant: the link row is only written when a commission was selected.
RecordSelected(ev, status, decision, c) ==
    /\ inbox' = With(inbox, InboxKey(ev), status)
    /\ links' = IF c = None THEN links
                ELSE With(links, InboxKey(ev), [commission |-> c, decision |-> decision])

\* The inbox row and its link, written together by every outcome.
Record(ev, status, decision, c) ==
    /\ inbox' = With(inbox, InboxKey(ev), status)
    /\ links' = With(links, InboxKey(ev), [commission |-> c, decision |-> decision])

ReconcileUnmatched(ev) ==
    /\ Fresh(ev)
    /\ Candidates(ev, ledger) = {}
    /\ Record(ev, "PROCESSED", "UNMATCHED", None)
    /\ UNCHANGED <<ledger, reviews, outbox, failed>>

ReconcileAmbiguous(ev) ==
    /\ Fresh(ev)
    /\ Ambiguous(ev, ledger)
    /\ Record(ev, "REVIEW_REQUIRED", "REVIEW_REQUIRED", None)
    /\ reviews' = With(reviews, InboxKey(ev), NewReview)
    /\ UNCHANGED <<ledger, outbox, failed>>

\* Amount variance, weak identity or a commission that is not ready.
ReconcileForReview(ev, c) ==
    /\ Fresh(ev)
    /\ ClearWinner(ev, ledger, c)
    /\ ~MayAutoReconcile(ev, ledger[c])
    /\ Record(ev, "REVIEW_REQUIRED", "REVIEW_REQUIRED", c)
    /\ reviews' = With(reviews, InboxKey(ev), NewReview)
    /\ UNCHANGED <<ledger, outbox, failed>>

\* The insert of the outbox event does not meet its unique key.
AnnounceableAlways(ev, c) == TRUE   \* mutant: on conflict do nothing
Announceable(ev, c) == AutoKey(ev.id, c) \notin outbox

AutoReconcile(ev, c) ==
    /\ Fresh(ev)
    /\ ClearWinner(ev, ledger, c)
    /\ MayAutoReconcile(ev, ledger[c])
    /\ Announceable(ev, c)
    /\ ledger' = [ledger EXCEPT ![c] = Settled(@)]
    /\ Record(ev, "PROCESSED", "AUTO_RECONCILED", c)
    /\ outbox' = outbox \cup {AutoKey(ev.id, c)}
    /\ UNCHANGED <<reviews, failed>>

\* The event key is taken: the flush raises an integrity error, the handler
\* rolls everything back, the inbox row included, and re-raises.
AutoReconcileFails(ev, c) ==
    /\ Fresh(ev)
    /\ ClearWinner(ev, ledger, c)
    /\ MayAutoReconcile(ev, ledger[c])
    /\ ~Announceable(ev, c)
    /\ failed' = failed \cup {InboxKey(ev)}
    /\ UNCHANGED <<ledger, inbox, links, reviews, outbox>>

\* claim_reviews: SKIP LOCKED leaves out the rows other transactions hold,
\* so the claimed rows are some of the open ones, at most the limit.
ClaimReviews(actor, claimed) ==
    /\ claimed # {}
    /\ Cardinality(claimed) <= ReviewClaimLimit
    /\ \A k \in claimed : reviews[k].status = "OPEN"
    /\ reviews' = [k \in DOMAIN reviews |->
                      IF k \in claimed
                      THEN [reviews[k] EXCEPT !.status = "CLAIMED", !.assigned = actor]
                      ELSE reviews[k]]
    /\ UNCHANGED <<ledger, inbox, links, outbox, failed>>

\* Mutant: an operator may decide a review another one has claimed.
MayResolveAnothers(k, actor) ==
    /\ k \in DOMAIN reviews
    /\ reviews[k].status \in Undecided

\* The checks resolve_review makes on the locked review row.
MayResolve(k, actor) ==
    /\ k \in DOMAIN reviews
    /\ reviews[k].status \in Undecided
    /\ reviews[k].assigned \in {None, actor}

\* Mutant: every decision, the request for information too, resolves.
DecideResolved(k, status, actor, decision) ==
    reviews' = [reviews EXCEPT ![k] =
        [status |-> "RESOLVED", assigned |-> actor, decision |-> decision]]

Decide(k, status, actor, decision) ==
    reviews' = [reviews EXCEPT ![k] =
        [status |-> status, assigned |-> actor, decision |-> decision]]

\* ACCEPT_VARIANCE: _advance_to_reconciled accepts a commission that another
\* settlement has reconciled meanwhile, and refuses every earlier status.
AcceptVariance(k, actor) ==
    /\ MayResolve(k, actor)
    /\ links[k].commission # None
    /\ ledger[links[k].commission].status \in Settleable \cup {"RECONCILED"}
    /\ ledger' = [ledger EXCEPT ![links[k].commission] = Settled(@)]
    /\ Decide(k, "RESOLVED", actor, "ACCEPT_VARIANCE")
    /\ inbox' = [inbox EXCEPT ![k] = "PROCESSED"]
    /\ links' = [links EXCEPT ![k].decision = "MANUAL_ACCEPTED"]
    /\ outbox' = outbox \cup {ManualKey(k)}
    /\ UNCHANGED failed

\* The statuses REJECT_VARIANCE leaves as they are.
UndisputableOnce == {"DISPUTED"}     \* mutant: forgets the final status
Undisputable == {"VOIDED", "DISPUTED"}

\* REJECT_VARIANCE assigns the status itself, past the transition table.
RejectVariance(k, actor) ==
    /\ MayResolve(k, actor)
    /\ ledger' = [c \in DOMAIN ledger |->
                     IF c = links[k].commission /\ ledger[c].status \notin Undisputable
                     THEN [ledger[c] EXCEPT !.status = "DISPUTED"]
                     ELSE ledger[c]]
    /\ Decide(k, "RESOLVED", actor, "REJECT_VARIANCE")
    /\ inbox' = [inbox EXCEPT ![k] = "DISPUTED"]
    /\ links' = [links EXCEPT ![k].decision = "MANUAL_REJECTED"]
    /\ outbox' = outbox \cup {DisputeKey(k)}
    /\ UNCHANGED failed

RequestInformation(k, actor) ==
    /\ MayResolve(k, actor)
    /\ Decide(k, "WAITING_INFORMATION", actor, "REQUEST_INFORMATION")
    /\ inbox' = [inbox EXCEPT ![k] = "REVIEW_REQUIRED"]
    /\ outbox' = outbox \cup {InfoKey(k)}
    /\ UNCHANGED <<ledger, links, failed>>

Next ==
    \/ \E c \in Commissions, m \in Matches, a \in Accounts,
          k \in Contracts \cup {None}, n \in Amounts :
          RegisterCommission(c, m, a, k, n)
    \/ \E c \in Commissions, s \in CommissionStatus,
          k \in Contracts \cup {None}, r \in Refs \cup {None} :
          TransitionCommission(c, s, k, r)
    \/ \E ev \in Settlements : ReconcileUnmatched(ev) \/ ReconcileAmbiguous(ev)
    \/ \E ev \in Settlements, c \in Commissions :
          \/ ReconcileForReview(ev, c)
          \/ AutoReconcile(ev, c)
          \/ AutoReconcileFails(ev, c)
    \/ \E actor \in Operators, claimed \in SUBSET DOMAIN reviews :
          ClaimReviews(actor, claimed)
    \/ \E actor \in Operators, k \in InboxKeys :
          \/ AcceptVariance(k, actor)
          \/ RejectVariance(k, actor)
          \/ RequestInformation(k, actor)

Spec == Init /\ [][Next]_vars

-----------------------------------------------------------------------------
(* Refinement: the case of one settlement, read off its rows.              *)

LinkOutcome ==
    [d \in LinkDecision |->
        CASE d = "AUTO_RECONCILED" -> "SETTLED"
          [] d = "UNMATCHED"       -> "UNMATCHED"
          [] d = "MANUAL_ACCEPTED" -> "ACCEPTED"
          [] d = "MANUAL_REJECTED" -> "REJECTED"
          [] d = "REVIEW_REQUIRED" -> "OPEN"]

Outcome(k) ==
    IF k \notin DOMAIN links THEN "NEW"
    ELSE IF k \in DOMAIN reviews /\ reviews[k].status = "WAITING_INFORMATION"
         THEN "WAITING_INFORMATION"
         ELSE LinkOutcome[links[k].decision]

\* An event of this case is in the outbox.
Announced(k) ==
    \/ {ManualKey(k), DisputeKey(k), InfoKey(k)} \cap outbox # {}
    \/ /\ k \in DOMAIN links
       /\ links[k].decision = "AUTO_RECONCILED"
       /\ AutoKey(k[2], links[k].commission) \in outbox

Cases == INSTANCE SettlementCases
    WITH Keys      <- InboxKeys,
         outcome   <- [k \in InboxKeys |-> Outcome(k)],
         announced <- {k \in InboxKeys : Announced(k)}

\* The service implements SettlementCases: redeliveries, claims, operator
\* transitions and competing decisions neither reopen a settlement, give it a
\* second outcome nor leave an outcome unannounced.
EachSettlementIsOneCase == Cases!Spec

-----------------------------------------------------------------------------
(* Safety.                                                                 *)

\* The shape of every table, and the keys that tie them together: a link for
\* each inbox row, a review for some, and only known commissions linked.
TypeOK ==
    /\ DOMAIN ledger \subseteq Commissions
    /\ ledger \in [DOMAIN ledger -> Entry]
    /\ DOMAIN inbox \subseteq InboxKeys
    /\ inbox \in [DOMAIN inbox -> InboxStatus]
    /\ links \in [DOMAIN inbox ->
                    [commission: DOMAIN ledger \cup {None}, decision: LinkDecision]]
    /\ DOMAIN reviews \subseteq DOMAIN inbox
    /\ reviews \in [DOMAIN reviews ->
                    [status: ReviewStatus, assigned: Operators \cup {None},
                     decision: {"NONE", "ACCEPT_VARIANCE", "REJECT_VARIANCE", "REQUEST_INFORMATION"}]]
    /\ failed \subseteq InboxKeys

HasContractIfTriggered(entry) ==
    entry.status \in {"TRIGGER_PENDING", "RECONCILED"} \cup Settleable => entry.contract # None

\* A commission that may be triggered, invoiced, received or reconciled has a
\* contract, whatever sequence of operator transitions, disputes, rejections
\* and settlements led there (CommissionLedgerEntry.transition only asks for
\* the contract on two of the edges).
ContractBeforeTriggerable ==
    \A c \in DOMAIN ledger : HasContractIfTriggered(ledger[c])

\* The inbox row, the link and the review of one settlement.
CaseFileAgrees(k) ==
    LET decided == IF k \in DOMAIN reviews THEN reviews[k].decision ELSE "NONE"
        pending == k \in DOMAIN reviews /\ reviews[k].status # "RESOLVED"
    IN  /\ inbox[k] = "REVIEW_REQUIRED" <=> pending
        /\ inbox[k] = "REVIEW_REQUIRED" <=> links[k].decision = "REVIEW_REQUIRED"
        /\ inbox[k] = "DISPUTED"        <=> links[k].decision = "MANUAL_REJECTED"
        /\ decided  = "ACCEPT_VARIANCE" <=> links[k].decision = "MANUAL_ACCEPTED"
        /\ decided  = "REJECT_VARIANCE" <=> links[k].decision = "MANUAL_REJECTED"
        /\ links[k].decision \in {"AUTO_RECONCILED", "UNMATCHED"}
              <=> k \notin DOMAIN reviews

\* They tell the same story about every settlement, although reconcile and
\* the three branches of resolve_review write them separately.
CaseFilesAgree == \A k \in DOMAIN inbox : CaseFileAgrees(k)

\* The outbox events of one received settlement, against its link and review.
OutboxTells(k) ==
    /\ links[k].decision = "AUTO_RECONCILED"
          => AutoKey(k[2], links[k].commission) \in outbox
    /\ ManualKey(k)  \in outbox <=> links[k].decision = "MANUAL_ACCEPTED"
    /\ DisputeKey(k) \in outbox <=> links[k].decision = "MANUAL_REJECTED"
    /\ InfoKey(k)    \in outbox <=>
          k \in DOMAIN reviews /\ reviews[k].status = "WAITING_INFORMATION"

\* Each outcome that a consumer must hear of is in the outbox: an automatic
\* reconciliation under its event and commission, and one event for each
\* decided review, of the kind of its decision and of no other; a settlement
\* that was never received has none.
OutboxTellsOutcomes ==
    /\ \A k \in DOMAIN inbox : OutboxTells(k)
    /\ \A k \in InboxKeys \ DOMAIN inbox :
          {ManualKey(k), DisputeKey(k), InfoKey(k)} \cap outbox = {}

\* A review belongs to the operator who claimed it: only that operator can
\* decide it, and a decision, the request for information included, is never
\* taken back, reassigned or repeated by a later claim or resolution.
ReviewsAreDecidedOnceByTheirOwner ==
    [][\A k \in DOMAIN reviews :
        /\ reviews[k].status \notin Undecided => reviews'[k] = reviews[k]
        /\ reviews[k].status = "CLAIMED" => reviews'[k].assigned = reviews[k].assigned]_vars

\* Voided is final, and a reconciled commission can only be disputed: no
\* late settlement, claim or review decision moves either of them elsewhere.
LedgerNeverReopens ==
    [][\A c \in DOMAIN ledger :
        /\ ledger[c].status = "VOIDED" => ledger'[c] = ledger[c]
        /\ ledger[c].status = "RECONCILED"
              => ledger'[c].status \in {"RECONCILED", "DISPUTED"}]_vars

\* A delivery or a review decision that moves a commission moves only the one
\* its own case file links, changes that case file in the same transaction
\* and commits an outbox event with it; a redelivered settlement moves none.
LedgerMovesWithItsCase ==
    [][\A c \in DOMAIN ledger :
        (ledger'[c] # ledger[c] /\ <<inbox, links, reviews, outbox>>'
                                     # <<inbox, links, reviews, outbox>>)
            => /\ outbox' # outbox
               /\ \E k \in DOMAIN inbox' :
                     /\ links'[k].commission = c
                     /\ k \notin DOMAIN inbox \/ links'[k] # links[k]]_vars

=============================================================================
