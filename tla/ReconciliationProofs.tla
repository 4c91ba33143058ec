------------------------ MODULE ReconciliationProofs ------------------------
(***************************************************************************)
(* Proofs about Reconciliation: its type invariant, the safety invariants  *)
(* and action properties the runs check, and that it implements            *)
(* SettlementCases.                                                        *)
(***************************************************************************)
EXTENDS Reconciliation, TLAPS

-----------------------------------------------------------------------------
(* Facts about the operators the model is built from.                      *)

\* With binds its key to the new value and leaves every other key as it was.
LEMMA WithBinds ==
    ASSUME NEW f, NEW x, NEW v
    PROVE  /\ DOMAIN With(f, x, v) = DOMAIN f \cup {x}
           /\ With(f, x, v)[x] = v
           /\ \A y \in DOMAIN f : y # x => With(f, x, v)[y] = f[y]
BY DEF With

\* Inserting or updating a row keeps the type of a table.
LEMMA WithType ==
    ASSUME NEW S, NEW f, f \in [DOMAIN f -> S], NEW x, NEW v \in S
    PROVE  With(f, x, v) \in [DOMAIN f \cup {x} -> S]
BY DEF With

\* Widening the values a table may hold keeps its type.
LEMMA WiderType ==
    ASSUME NEW D, NEW S, NEW T, S \subseteq T, NEW f \in [D -> S]
    PROVE  f \in [D -> T]
OBVIOUS

\* A transition the commission may take leads to an entry.
LEMMA TransitionedType ==
    ASSUME NEW entry \in Entry, NEW status \in CommissionStatus,
           NEW k \in Contracts \cup {None}, NEW r \in Refs \cup {None}
    PROVE  Transitioned(entry, status, k, r) \in Entry
BY DEF Entry, Transitioned

\* So does settling it.
LEMMA SettledType ==
    ASSUME NEW entry \in Entry
    PROVE  Settled(entry) \in Entry
BY DEF Entry, Settled, CommissionStatus

LEMMA EstimatedType ==
    ASSUME NEW m \in Matches, NEW a \in Accounts,
           NEW k \in Contracts \cup {None}, NEW n \in Amounts
    PROVE  Estimated(m, a, k, n) \in Entry
BY DEF Entry, Estimated, CommissionStatus

-----------------------------------------------------------------------------
(* Type correctness.                                                       *)

LinkRow(D) == [commission: D \cup {None}, decision: LinkDecision]
ReviewRow  == [status: ReviewStatus, assigned: Operators \cup {None},
               decision: {"NONE", "ACCEPT_VARIANCE", "REJECT_VARIANCE", "REQUEST_INFORMATION"}]

\* An inbox row and its link, recorded for a settlement, are well typed.
LEMMA RecordType ==
    ASSUME TypeOK, NEW ev \in Settlements, NEW s \in InboxStatus, NEW d \in LinkDecision,
           NEW c \in DOMAIN ledger \cup {None}, Record(ev, s, d, c)
    PROVE  /\ DOMAIN inbox' = DOMAIN inbox \cup {InboxKey(ev)}
           /\ InboxKey(ev) \in InboxKeys
           /\ inbox' \in [DOMAIN inbox' -> InboxStatus]
           /\ links' \in [DOMAIN inbox' -> LinkRow(DOMAIN ledger)]
<1>1. InboxKey(ev) \in InboxKeys
  BY DEF InboxKeys
<1>2. DOMAIN inbox' = DOMAIN inbox \cup {InboxKey(ev)} /\ inbox' \in [DOMAIN inbox' -> InboxStatus]
  <2>1. inbox' = With(inbox, InboxKey(ev), s) /\ inbox \in [DOMAIN inbox -> InboxStatus]
    BY DEF Record, TypeOK
  <2>2. With(inbox, InboxKey(ev), s) \in [DOMAIN inbox \cup {InboxKey(ev)} -> InboxStatus]
    BY <2>1, WithType
  <2> QED
    BY <2>1, <2>2
<1>3. [commission |-> c, decision |-> d] \in LinkRow(DOMAIN ledger)
  BY DEF LinkRow
<1>4. links \in [DOMAIN links -> LinkRow(DOMAIN ledger)] /\ DOMAIN links = DOMAIN inbox
  BY DEF TypeOK, LinkRow
<1>5. links' \in [DOMAIN inbox' -> LinkRow(DOMAIN ledger)]
  <2>1. links' = With(links, InboxKey(ev), [commission |-> c, decision |-> d])
    BY DEF Record
  <2>2. links' \in [DOMAIN links \cup {InboxKey(ev)} -> LinkRow(DOMAIN ledger)]
    BY <1>3, <1>4, <2>1, WithType
  <2> QED
    BY <1>2, <1>4, <2>2
<1> QED
  BY <1>1, <1>2, <1>5

\* The review opened with such a row is well typed too.
LEMMA NewReviewType ==
    ASSUME TypeOK, NEW ev \in Settlements, reviews' = With(reviews, InboxKey(ev), NewReview)
    PROVE  /\ DOMAIN reviews' = DOMAIN reviews \cup {InboxKey(ev)}
           /\ reviews' \in [DOMAIN reviews' -> ReviewRow]
<1>1. NewReview \in ReviewRow /\ reviews \in [DOMAIN reviews -> ReviewRow]
  BY DEF NewReview, ReviewRow, ReviewStatus, TypeOK
<1>2. With(reviews, InboxKey(ev), NewReview) \in [DOMAIN reviews \cup {InboxKey(ev)} -> ReviewRow]
  BY <1>1, WithType
<1> QED
  BY <1>2

\* Deciding a review keeps the table of reviews well typed.
LEMMA DecideType ==
    ASSUME TypeOK, NEW k, NEW actor \in Operators, NEW s \in ReviewStatus,
           NEW d \in {"ACCEPT_VARIANCE", "REJECT_VARIANCE", "REQUEST_INFORMATION"},
           MayResolve(k, actor), Decide(k, s, actor, d)
    PROVE  reviews' \in [DOMAIN reviews -> ReviewRow] /\ DOMAIN reviews' = DOMAIN reviews
BY DEF TypeOK, MayResolve, Decide, ReviewRow

LEMMA InitType == Init => TypeOK
BY DEF Init, TypeOK, LinkRow, ReviewRow

LEMMA NextType == TypeOK /\ [Next]_vars => TypeOK'
<1> SUFFICES ASSUME TypeOK, [Next]_vars
             PROVE  TypeOK'
  OBVIOUS
<1>1. ASSUME NEW c \in Commissions, NEW m \in Matches, NEW a \in Accounts,
             NEW k \in Contracts \cup {None}, NEW n \in Amounts,
             RegisterCommission(c, m, a, k, n)
      PROVE  TypeOK'
  <2>1. ledger' \in [DOMAIN ledger' -> Entry] /\ DOMAIN ledger' = DOMAIN ledger \cup {c}
    <3>1. ledger' = With(ledger, c, Estimated(m, a, k, n)) /\ ledger \in [DOMAIN ledger -> Entry]
      BY <1>1 DEF RegisterCommission, TypeOK
    <3>2. With(ledger, c, Estimated(m, a, k, n)) \in [DOMAIN ledger \cup {c} -> Entry]
      BY <3>1, EstimatedType, WithType
    <3> QED
      BY <3>1, <3>2
  <2>2. links' \in [DOMAIN inbox -> LinkRow(DOMAIN ledger')]
    BY <1>1, <2>1 DEF RegisterCommission, LinkRow, TypeOK
  <2> QED
    BY <1>1, <2>1, <2>2 DEF RegisterCommission, TypeOK, LinkRow, ReviewRow
<1>2. ASSUME NEW c \in Commissions, NEW s \in CommissionStatus,
             NEW k \in Contracts \cup {None}, NEW r \in Refs \cup {None},
             TransitionCommission(c, s, k, r)
      PROVE  TypeOK'
  <2>1. ledger' \in [DOMAIN ledger -> Entry] /\ DOMAIN ledger' = DOMAIN ledger
    BY <1>2, TransitionedType DEF TransitionCommission, TypeOK
  <2> QED
    BY <1>2, <2>1 DEF TransitionCommission, TypeOK
<1>3. ASSUME NEW ev \in Settlements, ReconcileUnmatched(ev)
      PROVE  TypeOK'
  <2>1. Record(ev, "PROCESSED", "UNMATCHED", None)
    BY <1>3 DEF ReconcileUnmatched
  <2>2. /\ DOMAIN inbox' = DOMAIN inbox \cup {InboxKey(ev)}
        /\ InboxKey(ev) \in InboxKeys
        /\ inbox' \in [DOMAIN inbox' -> InboxStatus]
        /\ links' \in [DOMAIN inbox' -> LinkRow(DOMAIN ledger)]
    BY <2>1, RecordType DEF InboxStatus, LinkDecision
  <2> QED
    BY <1>3, <2>2 DEF ReconcileUnmatched, TypeOK, LinkRow, ReviewRow
<1>4. ASSUME NEW ev \in Settlements, ReconcileAmbiguous(ev)
      PROVE  TypeOK'
  <2>1. Record(ev, "REVIEW_REQUIRED", "REVIEW_REQUIRED", None)
    BY <1>4 DEF ReconcileAmbiguous
  <2>2. /\ DOMAIN inbox' = DOMAIN inbox \cup {InboxKey(ev)}
        /\ InboxKey(ev) \in InboxKeys
        /\ inbox' \in [DOMAIN inbox' -> InboxStatus]
        /\ links' \in [DOMAIN inbox' -> LinkRow(DOMAIN ledger)]
    BY <2>1, RecordType DEF InboxStatus, LinkDecision
  <2>3. /\ DOMAIN reviews' = DOMAIN reviews \cup {InboxKey(ev)}
        /\ reviews' \in [DOMAIN reviews' -> ReviewRow]
    BY <1>4, NewReviewType DEF ReconcileAmbiguous
  <2> QED
    BY <1>4, <2>2, <2>3 DEF ReconcileAmbiguous, TypeOK, LinkRow, ReviewRow
<1>5. ASSUME NEW ev \in Settlements, NEW c \in Commissions, ReconcileForReview(ev, c)
      PROVE  TypeOK'
  <2>1. Record(ev, "REVIEW_REQUIRED", "REVIEW_REQUIRED", c) /\ c \in DOMAIN ledger
    BY <1>5 DEF ReconcileForReview, ClearWinner, Candidates
  <2>2. /\ DOMAIN inbox' = DOMAIN inbox \cup {InboxKey(ev)}
        /\ InboxKey(ev) \in InboxKeys
        /\ inbox' \in [DOMAIN inbox' -> InboxStatus]
        /\ links' \in [DOMAIN inbox' -> LinkRow(DOMAIN ledger)]
    BY <2>1, RecordType DEF InboxStatus, LinkDecision
  <2>3. /\ DOMAIN reviews' = DOMAIN reviews \cup {InboxKey(ev)}
        /\ reviews' \in [DOMAIN reviews' -> ReviewRow]
    BY <1>5, NewReviewType DEF ReconcileForReview
  <2> QED
    BY <1>5, <2>2, <2>3 DEF ReconcileForReview, TypeOK, LinkRow, ReviewRow
<1>6. ASSUME NEW ev \in Settlements, NEW c \in Commissions, AutoReconcile(ev, c)
      PROVE  TypeOK'
  <2>1. Record(ev, "PROCESSED", "AUTO_RECONCILED", c) /\ c \in DOMAIN ledger
    BY <1>6 DEF AutoReconcile, ClearWinner, Candidates
  <2>2. ledger' \in [DOMAIN ledger -> Entry] /\ DOMAIN ledger' = DOMAIN ledger
    BY <1>6, SettledType DEF AutoReconcile, TypeOK
  <2>3. /\ DOMAIN inbox' = DOMAIN inbox \cup {InboxKey(ev)}
        /\ InboxKey(ev) \in InboxKeys
        /\ inbox' \in [DOMAIN inbox' -> InboxStatus]
        /\ links' \in [DOMAIN inbox' -> LinkRow(DOMAIN ledger)]
    BY <2>1, RecordType DEF InboxStatus, LinkDecision
  <2> QED
    BY <1>6, <2>2, <2>3 DEF AutoReconcile, TypeOK, LinkRow, ReviewRow
<1>7. ASSUME NEW ev \in Settlements, NEW c \in Commissions, AutoReconcileFails(ev, c)
      PROVE  TypeOK'
  BY <1>7 DEF AutoReconcileFails, TypeOK, InboxKeys
<1>8. ASSUME NEW actor \in Operators, NEW claimed \in SUBSET DOMAIN reviews,
             ClaimReviews(actor, claimed)
      PROVE  TypeOK'
  <2>1. reviews' \in [DOMAIN reviews -> ReviewRow] /\ DOMAIN reviews' = DOMAIN reviews
    <3>1. ASSUME NEW k \in DOMAIN reviews  PROVE reviews'[k] \in ReviewRow
      <4>1. reviews[k] \in ReviewRow
        BY DEF TypeOK, ReviewRow
      <4>2. CASE k \in claimed
        BY <1>8, <4>1, <4>2 DEF ClaimReviews, ReviewRow, ReviewStatus
      <4>3. CASE k \notin claimed
        BY <1>8, <4>1, <4>3 DEF ClaimReviews
      <4> QED
        BY <4>2, <4>3
    <3>2. DOMAIN reviews' = DOMAIN reviews /\ reviews' = [k \in DOMAIN reviews |-> reviews'[k]]
      BY <1>8 DEF ClaimReviews
    <3> QED
      BY <3>1, <3>2
  <2> QED
    BY <1>8, <2>1 DEF ClaimReviews, TypeOK, ReviewRow
<1>9. ASSUME NEW actor \in Operators, NEW k \in InboxKeys, AcceptVariance(k, actor)
      PROVE  TypeOK'
  <2>1. k \in DOMAIN inbox /\ links[k].commission \in DOMAIN ledger
    BY <1>9 DEF AcceptVariance, MayResolve, TypeOK
  <2>2. ledger' \in [DOMAIN ledger -> Entry] /\ DOMAIN ledger' = DOMAIN ledger
    BY <1>9, <2>1, SettledType DEF AcceptVariance, TypeOK
  <2>3. inbox' \in [DOMAIN inbox -> InboxStatus] /\ DOMAIN inbox' = DOMAIN inbox
    BY <1>9 DEF AcceptVariance, TypeOK, InboxStatus
  <2>4. links' \in [DOMAIN inbox -> LinkRow(DOMAIN ledger)]
    BY <1>9, <2>1 DEF AcceptVariance, TypeOK, LinkRow, LinkDecision
  <2>5. reviews' \in [DOMAIN reviews -> ReviewRow] /\ DOMAIN reviews' = DOMAIN reviews
    BY <1>9, DecideType DEF AcceptVariance, ReviewStatus
  <2> QED
    BY <1>9, <2>2, <2>3, <2>4, <2>5 DEF AcceptVariance, TypeOK, LinkRow, ReviewRow
<1>10. ASSUME NEW actor \in Operators, NEW k \in InboxKeys, RejectVariance(k, actor)
       PROVE  TypeOK'
  <2>1. ledger' \in [DOMAIN ledger -> Entry] /\ DOMAIN ledger' = DOMAIN ledger
    BY <1>10 DEF RejectVariance, TypeOK, Entry, CommissionStatus
  <2>2. inbox' \in [DOMAIN inbox -> InboxStatus] /\ DOMAIN inbox' = DOMAIN inbox
    BY <1>10 DEF RejectVariance, TypeOK, InboxStatus
  <2>3. links' \in [DOMAIN inbox -> LinkRow(DOMAIN ledger)]
    BY <1>10 DEF RejectVariance, TypeOK, LinkRow, LinkDecision
  <2>4. reviews' \in [DOMAIN reviews -> ReviewRow] /\ DOMAIN reviews' = DOMAIN reviews
    BY <1>10, DecideType DEF RejectVariance, ReviewStatus
  <2> QED
    BY <1>10, <2>1, <2>2, <2>3, <2>4 DEF RejectVariance, TypeOK, LinkRow, ReviewRow
<1>11. ASSUME NEW actor \in Operators, NEW k \in InboxKeys, RequestInformation(k, actor)
       PROVE  TypeOK'
  <2>1. inbox' \in [DOMAIN inbox -> InboxStatus] /\ DOMAIN inbox' = DOMAIN inbox
    BY <1>11 DEF RequestInformation, TypeOK, InboxStatus
  <2>2. reviews' \in [DOMAIN reviews -> ReviewRow] /\ DOMAIN reviews' = DOMAIN reviews
    BY <1>11, DecideType DEF RequestInformation, ReviewStatus
  <2> QED
    BY <1>11, <2>1, <2>2 DEF RequestInformation, TypeOK, LinkRow, ReviewRow
<1>12. CASE UNCHANGED vars
  BY <1>12 DEF vars, TypeOK
<1> QED
  BY <1>1, <1>2, <1>3, <1>4, <1>5, <1>6, <1>7, <1>8, <1>9, <1>10, <1>11, <1>12 DEF Next

\* Every table keeps its shape, and the keys that tie the tables together
\* hold: a link for each inbox row, a review for some of them, and links to
\* registered commissions only.
THEOREM TypeCorrect == Spec => []TypeOK
<1>1. Init => TypeOK
  BY InitType
<1>2. TypeOK /\ [Next]_vars => TypeOK'
  BY NextType
<1> QED
  BY <1>1, <1>2, PTL DEF Spec

-----------------------------------------------------------------------------
(* The case file of a settlement.                                          *)

\* A step that leaves the three rows of a settlement alone keeps its file.
LEMMA CaseFileFrame ==
    ASSUME NEW k, CaseFileAgrees(k), inbox'[k] = inbox[k], links'[k] = links[k],
           k \in DOMAIN reviews' <=> k \in DOMAIN reviews, reviews'[k] = reviews[k]
    PROVE  CaseFileAgrees(k)'
BY DEF CaseFileAgrees

\* Recording a new settlement touches no other settlement's rows.
LEMMA RecordFrame ==
    ASSUME TypeOK, NEW ev \in Settlements, Fresh(ev), NEW s \in InboxStatus,
           NEW d \in LinkDecision, NEW c \in Commissions \cup {None}, Record(ev, s, d, c)
    PROVE  /\ DOMAIN inbox' = DOMAIN inbox \cup {InboxKey(ev)}
           /\ inbox'[InboxKey(ev)] = s
           /\ links'[InboxKey(ev)].commission = c
           /\ links'[InboxKey(ev)].decision = d
           /\ InboxKey(ev) \notin DOMAIN reviews
           /\ \A k \in DOMAIN inbox : inbox'[k] = inbox[k] /\ links'[k] = links[k]
<1>1. InboxKey(ev) \notin DOMAIN inbox /\ DOMAIN links = DOMAIN inbox
  BY DEF Fresh, TypeOK
<1>2. inbox' = With(inbox, InboxKey(ev), s)
      /\ links' = With(links, InboxKey(ev), [commission |-> c, decision |-> d])
  BY DEF Record
<1> QED
  BY <1>1, <1>2 DEF With, TypeOK

\* Deciding one review touches no other settlement's rows.
LEMMA DecideFrame ==
    ASSUME NEW k \in DOMAIN reviews, NEW s \in ReviewStatus, NEW a \in Operators,
           NEW d \in {"ACCEPT_VARIANCE", "REJECT_VARIANCE", "REQUEST_INFORMATION"},
           Decide(k, s, a, d)
    PROVE  /\ DOMAIN reviews' = DOMAIN reviews
           /\ reviews'[k].status = s
           /\ reviews'[k].decision = d
           /\ \A j \in DOMAIN reviews : j # k => reviews'[j] = reviews[j]
BY DEF Decide

\* A review that may be decided is pending, and its file says so.
LEMMA PendingFile ==
    ASSUME TypeOK, CaseFilesAgree, NEW k, NEW actor, MayResolve(k, actor)
    PROVE  /\ k \in DOMAIN inbox /\ k \in DOMAIN links /\ k \in DOMAIN reviews
           /\ inbox[k] = "REVIEW_REQUIRED"
           /\ links[k].decision = "REVIEW_REQUIRED"
           /\ reviews[k].status \in Undecided
BY DEF TypeOK, CaseFilesAgree, CaseFileAgrees, MayResolve, Undecided

LEMMA NextCaseFiles == TypeOK /\ CaseFilesAgree /\ [Next]_vars => CaseFilesAgree'
<1> SUFFICES ASSUME TypeOK, CaseFilesAgree, [Next]_vars,
                    NEW k \in DOMAIN inbox'
             PROVE  CaseFileAgrees(k)'
  BY DEF CaseFilesAgree
<1>1. ASSUME UNCHANGED <<inbox, links, reviews>>
      PROVE  CaseFileAgrees(k)'
  BY <1>1, CaseFileFrame DEF CaseFilesAgree
<1>2. ASSUME NEW ev \in Settlements, Fresh(ev), UNCHANGED reviews,
             NEW d \in {"UNMATCHED", "AUTO_RECONCILED"}, NEW c \in Commissions \cup {None},
             Record(ev, "PROCESSED", d, c)
      PROVE  CaseFileAgrees(k)'
  <2>1. "PROCESSED" \in InboxStatus /\ d \in LinkDecision
    BY DEF InboxStatus, LinkDecision
  <2>2. /\ DOMAIN inbox' = DOMAIN inbox \cup {InboxKey(ev)}
        /\ inbox'[InboxKey(ev)] = "PROCESSED"
        /\ links'[InboxKey(ev)].decision = d
        /\ InboxKey(ev) \notin DOMAIN reviews
        /\ \A j \in DOMAIN inbox : inbox'[j] = inbox[j] /\ links'[j] = links[j]
    BY <1>2, <2>1, RecordFrame
  <2>3. CASE k = InboxKey(ev)
    BY <1>2, <2>2, <2>3 DEF CaseFileAgrees
  <2>4. CASE k # InboxKey(ev)
    BY <1>2, <2>2, <2>4 DEF CaseFilesAgree, CaseFileAgrees
  <2> QED
    BY <2>3, <2>4
<1>3. ASSUME NEW ev \in Settlements, Fresh(ev), NEW c \in Commissions \cup {None},
             Record(ev, "REVIEW_REQUIRED", "REVIEW_REQUIRED", c),
             reviews' = With(reviews, InboxKey(ev), NewReview)
      PROVE  CaseFileAgrees(k)'
  <2>1. "REVIEW_REQUIRED" \in InboxStatus /\ "REVIEW_REQUIRED" \in LinkDecision
    BY DEF InboxStatus, LinkDecision
  <2>2. /\ DOMAIN inbox' = DOMAIN inbox \cup {InboxKey(ev)}
        /\ inbox'[InboxKey(ev)] = "REVIEW_REQUIRED"
        /\ links'[InboxKey(ev)].decision = "REVIEW_REQUIRED"
        /\ \A j \in DOMAIN inbox : inbox'[j] = inbox[j] /\ links'[j] = links[j]
    BY <1>3, <2>1, RecordFrame
  <2>3. /\ DOMAIN reviews' = DOMAIN reviews \cup {InboxKey(ev)}
        /\ reviews'[InboxKey(ev)] = NewReview
        /\ \A j \in DOMAIN reviews : j # InboxKey(ev) => reviews'[j] = reviews[j]
    BY <1>3 DEF With
  <2>4. CASE k = InboxKey(ev)
    BY <2>2, <2>3, <2>4 DEF CaseFileAgrees, NewReview
  <2>5. CASE k # InboxKey(ev)
    BY <2>2, <2>3, <2>5 DEF CaseFilesAgree, CaseFileAgrees
  <2> QED
    BY <2>4, <2>5
<1>4. ASSUME NEW actor \in Operators, NEW claimed \in SUBSET DOMAIN reviews, ClaimReviews(actor, claimed)
      PROVE  CaseFileAgrees(k)'
  <2>1. /\ DOMAIN reviews' = DOMAIN reviews
        /\ inbox' = inbox /\ links' = links
        /\ \A j \in DOMAIN reviews :
              /\ reviews'[j].decision = reviews[j].decision
              /\ reviews'[j].status # "RESOLVED" <=> reviews[j].status # "RESOLVED"
    BY <1>4 DEF ClaimReviews, TypeOK
  <2> QED
    BY <2>1 DEF CaseFilesAgree, CaseFileAgrees
<1>5. ASSUME NEW actor \in Operators, NEW j \in InboxKeys, AcceptVariance(j, actor)
      PROVE  CaseFileAgrees(k)'
  <2>1. MayResolve(j, actor) /\ Decide(j, "RESOLVED", actor, "ACCEPT_VARIANCE")
    BY <1>5 DEF AcceptVariance
  <2>2. /\ DOMAIN inbox' = DOMAIN inbox
        /\ inbox'[j] = "PROCESSED" /\ links'[j].decision = "MANUAL_ACCEPTED"
        /\ \A i \in DOMAIN inbox : i # j => inbox'[i] = inbox[i] /\ links'[i] = links[i]
    BY <1>5, <2>1, PendingFile DEF AcceptVariance, TypeOK
  <2>3. j \in DOMAIN reviews /\ DOMAIN reviews \subseteq DOMAIN inbox
    BY <2>1, PendingFile DEF TypeOK
  <2>4. /\ DOMAIN reviews' = DOMAIN reviews
        /\ reviews'[j].status = "RESOLVED" /\ reviews'[j].decision = "ACCEPT_VARIANCE"
        /\ \A i \in DOMAIN reviews : i # j => reviews'[i] = reviews[i]
    BY <2>1, <2>3, DecideFrame DEF ReviewStatus
  <2>5. CASE k = j
    BY <2>1, <2>2, <2>3, <2>4, <2>5, PendingFile DEF CaseFileAgrees
  <2>6. CASE k # j
    BY <2>2, <2>4, <2>6 DEF CaseFilesAgree, CaseFileAgrees
  <2> QED
    BY <2>5, <2>6
<1>6. ASSUME NEW actor \in Operators, NEW j \in InboxKeys, RejectVariance(j, actor)
      PROVE  CaseFileAgrees(k)'
  <2>1. MayResolve(j, actor) /\ Decide(j, "RESOLVED", actor, "REJECT_VARIANCE")
    BY <1>6 DEF RejectVariance
  <2>2. /\ DOMAIN inbox' = DOMAIN inbox
        /\ inbox'[j] = "DISPUTED" /\ links'[j].decision = "MANUAL_REJECTED"
        /\ \A i \in DOMAIN inbox : i # j => inbox'[i] = inbox[i] /\ links'[i] = links[i]
    BY <1>6, <2>1, PendingFile DEF RejectVariance, TypeOK
  <2>3. j \in DOMAIN reviews /\ DOMAIN reviews \subseteq DOMAIN inbox
    BY <2>1, PendingFile DEF TypeOK
  <2>4. /\ DOMAIN reviews' = DOMAIN reviews
        /\ reviews'[j].status = "RESOLVED" /\ reviews'[j].decision = "REJECT_VARIANCE"
        /\ \A i \in DOMAIN reviews : i # j => reviews'[i] = reviews[i]
    BY <2>1, <2>3, DecideFrame DEF ReviewStatus
  <2>5. CASE k = j
    BY <2>1, <2>2, <2>3, <2>4, <2>5, PendingFile DEF CaseFileAgrees
  <2>6. CASE k # j
    BY <2>2, <2>4, <2>6 DEF CaseFilesAgree, CaseFileAgrees
  <2> QED
    BY <2>5, <2>6
<1>7. ASSUME NEW actor \in Operators, NEW j \in InboxKeys, RequestInformation(j, actor)
      PROVE  CaseFileAgrees(k)'
  <2>1. MayResolve(j, actor) /\ Decide(j, "WAITING_INFORMATION", actor, "REQUEST_INFORMATION")
    BY <1>7 DEF RequestInformation
  <2>2. /\ DOMAIN inbox' = DOMAIN inbox /\ links' = links
        /\ inbox'[j] = "REVIEW_REQUIRED"
        /\ \A i \in DOMAIN inbox : i # j => inbox'[i] = inbox[i]
    BY <1>7, <2>1, PendingFile DEF RequestInformation, TypeOK
  <2>3. j \in DOMAIN reviews /\ DOMAIN reviews \subseteq DOMAIN inbox
    BY <2>1, PendingFile DEF TypeOK
  <2>4. /\ DOMAIN reviews' = DOMAIN reviews
        /\ reviews'[j].status = "WAITING_INFORMATION" /\ reviews'[j].decision = "REQUEST_INFORMATION"
        /\ \A i \in DOMAIN reviews : i # j => reviews'[i] = reviews[i]
    BY <2>1, <2>3, DecideFrame DEF ReviewStatus
  <2>5. CASE k = j
    BY <2>1, <2>2, <2>3, <2>4, <2>5, PendingFile DEF CaseFileAgrees
  <2>6. CASE k # j
    BY <2>2, <2>4, <2>6 DEF CaseFilesAgree, CaseFileAgrees
  <2> QED
    BY <2>5, <2>6
<1> QED
  BY <1>1, <1>2, <1>3, <1>4, <1>5, <1>6, <1>7
  DEF Next, vars, RegisterCommission, TransitionCommission, ReconcileUnmatched,
      ReconcileAmbiguous, ReconcileForReview, AutoReconcile, AutoReconcileFails

\* The inbox row, the link and the review of every settlement agree, in every
\* reachable state and for any number of settlements, operators and claims.
THEOREM CaseFilesAlwaysAgree == Spec => []CaseFilesAgree
<1>1. Init => CaseFilesAgree
  BY DEF Init, CaseFilesAgree
<1>2. TypeOK /\ CaseFilesAgree /\ [Next]_vars => CaseFilesAgree'
  BY NextCaseFiles
<1> QED
  BY <1>1, <1>2, TypeCorrect, PTL DEF Spec

-----------------------------------------------------------------------------
(* The ledger.                                                             *)

\* An operator's transition never leaves a triggered commission without a
\* contract: the table has no edge from a status that may lack one to a
\* triggered status but the two that ask for it.
LEMMA TransitionedContract ==
    ASSUME NEW entry \in Entry, NEW status \in CommissionStatus,
           NEW k \in Contracts \cup {None}, NEW r \in Refs \cup {None},
           HasContractIfTriggered(entry), MayTransition(entry, status, k)
    PROVE  HasContractIfTriggered(Transitioned(entry, status, k, r))
BY DEF HasContractIfTriggered, MayTransition, Transitioned, Entry, CommissionStatus,
       COMMISSION_TRANSITIONS, Settleable

LEMMA SettledContract ==
    ASSUME NEW entry \in Entry, HasContractIfTriggered(entry)
    PROVE  HasContractIfTriggered(Settled(entry))
BY DEF HasContractIfTriggered, Settled, Settleable, Entry

\* What a step does to the ledger: it registers one commission, moves one
\* along the table, settles one, disputes one, or leaves it as it is.
LedgerStep ==
    \/ \E c \in Commissions \ DOMAIN ledger, m \in Matches, a \in Accounts,
          k \in Contracts \cup {None}, n \in Amounts :
          ledger' = With(ledger, c, Estimated(m, a, k, n))
    \/ \E c \in DOMAIN ledger, s \in CommissionStatus,
          k \in Contracts \cup {None}, r \in Refs \cup {None} :
          /\ MayTransition(ledger[c], s, k)
          /\ ledger' = [ledger EXCEPT ![c] = Transitioned(@, s, k, r)]
    \/ \E c \in DOMAIN ledger : ledger' = [ledger EXCEPT ![c] = Settled(@)]
    \/ \E d \in DOMAIN ledger \cup {None} :
          ledger' = [c \in DOMAIN ledger |->
                        IF c = d /\ ledger[c].status \notin Undisputable
                        THEN [ledger[c] EXCEPT !.status = "DISPUTED"]
                        ELSE ledger[c]]
    \/ UNCHANGED ledger

LEMMA NextLedgerStep == TypeOK /\ [Next]_vars => LedgerStep
<1> SUFFICES ASSUME TypeOK, [Next]_vars
             PROVE  LedgerStep
  OBVIOUS
<1>1. ASSUME NEW c \in Commissions, NEW m \in Matches, NEW a \in Accounts,
             NEW k \in Contracts \cup {None}, NEW n \in Amounts,
             RegisterCommission(c, m, a, k, n)
      PROVE  LedgerStep
  BY <1>1 DEF RegisterCommission, LedgerStep
<1>2. ASSUME NEW c \in Commissions, NEW s \in CommissionStatus,
             NEW k \in Contracts \cup {None}, NEW r \in Refs \cup {None},
             TransitionCommission(c, s, k, r)
      PROVE  LedgerStep
  BY <1>2 DEF TransitionCommission, LedgerStep
<1>3. ASSUME NEW ev \in Settlements, NEW c \in Commissions, AutoReconcile(ev, c)
      PROVE  LedgerStep
  BY <1>3 DEF AutoReconcile, ClearWinner, Candidates, LedgerStep
<1>4. ASSUME NEW actor \in Operators, NEW k \in InboxKeys, AcceptVariance(k, actor)
      PROVE  LedgerStep
  <2>1. links[k].commission \in DOMAIN ledger
    BY <1>4 DEF AcceptVariance, MayResolve, TypeOK
  <2> QED
    BY <1>4, <2>1 DEF AcceptVariance, LedgerStep
<1>5. ASSUME NEW actor \in Operators, NEW k \in InboxKeys, RejectVariance(k, actor)
      PROVE  LedgerStep
  <2>1. links[k].commission \in DOMAIN ledger \cup {None}
    BY <1>5 DEF RejectVariance, MayResolve, TypeOK
  <2> QED
    BY <1>5, <2>1 DEF RejectVariance, LedgerStep
<1>6. UNCHANGED ledger => LedgerStep
  BY DEF LedgerStep
<1> QED
  BY <1>1, <1>2, <1>3, <1>4, <1>5, <1>6
  DEF Next, vars, ReconcileUnmatched, ReconcileAmbiguous, ReconcileForReview,
      AutoReconcileFails, ClaimReviews, RequestInformation

LEMMA NextContract == TypeOK /\ ContractBeforeTriggerable /\ LedgerStep => ContractBeforeTriggerable'
<1> SUFFICES ASSUME TypeOK, ContractBeforeTriggerable, LedgerStep
             PROVE  ContractBeforeTriggerable'
  OBVIOUS
<1>0. \A c \in DOMAIN ledger : ledger[c] \in Entry /\ HasContractIfTriggered(ledger[c])
  BY DEF TypeOK, ContractBeforeTriggerable
<1>1. ASSUME NEW c \in Commissions \ DOMAIN ledger, NEW m \in Matches, NEW a \in Accounts,
             NEW k \in Contracts \cup {None}, NEW n \in Amounts,
             ledger' = With(ledger, c, Estimated(m, a, k, n))
      PROVE  ContractBeforeTriggerable'
  <2>1. HasContractIfTriggered(Estimated(m, a, k, n))
    BY DEF HasContractIfTriggered, Estimated, Settleable
  <2>2. /\ DOMAIN ledger' = DOMAIN ledger \cup {c}
        /\ ledger'[c] = Estimated(m, a, k, n)
        /\ \A d \in DOMAIN ledger : d # c => ledger'[d] = ledger[d]
    BY <1>1 DEF With
  <2> QED
    BY <1>0, <2>1, <2>2 DEF ContractBeforeTriggerable
<1>2. ASSUME NEW c \in DOMAIN ledger, NEW s \in CommissionStatus,
             NEW k \in Contracts \cup {None}, NEW r \in Refs \cup {None},
             MayTransition(ledger[c], s, k),
             ledger' = [ledger EXCEPT ![c] = Transitioned(@, s, k, r)]
      PROVE  ContractBeforeTriggerable'
  <2>1. HasContractIfTriggered(Transitioned(ledger[c], s, k, r))
    BY <1>0, <1>2, TransitionedContract
  <2> QED
    BY <1>0, <1>2, <2>1 DEF ContractBeforeTriggerable
<1>3. ASSUME NEW c \in DOMAIN ledger, ledger' = [ledger EXCEPT ![c] = Settled(@)]
      PROVE  ContractBeforeTriggerable'
  <2>1. HasContractIfTriggered(Settled(ledger[c]))
    BY <1>0, SettledContract
  <2> QED
    BY <1>0, <1>3, <2>1 DEF ContractBeforeTriggerable
<1>4. ASSUME NEW d \in DOMAIN ledger \cup {None},
             ledger' = [c \in DOMAIN ledger |->
                          IF c = d /\ ledger[c].status \notin Undisputable
                          THEN [ledger[c] EXCEPT !.status = "DISPUTED"]
                          ELSE ledger[c]]
      PROVE  ContractBeforeTriggerable'
  <2>1. \A c \in DOMAIN ledger :
          HasContractIfTriggered([ledger[c] EXCEPT !.status = "DISPUTED"])
    BY <1>0 DEF HasContractIfTriggered, Settleable, Entry
  <2> QED
    BY <1>0, <1>4, <2>1 DEF ContractBeforeTriggerable
<1>5. CASE UNCHANGED ledger
  BY <1>5 DEF ContractBeforeTriggerable
<1> QED
  BY <1>1, <1>2, <1>3, <1>4, <1>5 DEF LedgerStep

\* No sequence of transitions, disputes, rejections and settlements makes a
\* commission triggerable, receivable or reconciled without a contract.
THEOREM ContractAlwaysBeforeTriggerable == Spec => []ContractBeforeTriggerable
<1>1. Init => ContractBeforeTriggerable
  BY DEF Init, ContractBeforeTriggerable
<1>2. TypeOK /\ ContractBeforeTriggerable /\ [Next]_vars => ContractBeforeTriggerable'
  BY NextLedgerStep, NextContract
<1> QED
  BY <1>1, <1>2, TypeCorrect, PTL DEF Spec

\* Voided is final and a reconciled commission can only be disputed, whatever
\* late settlement or review decision arrives.
THEOREM LedgerStaysClosed == Spec => LedgerNeverReopens
<1>1. ASSUME TypeOK, [Next]_vars
      PROVE  [\A c \in DOMAIN ledger :
                /\ ledger[c].status = "VOIDED" => ledger'[c] = ledger[c]
                /\ ledger[c].status = "RECONCILED"
                      => ledger'[c].status \in {"RECONCILED", "DISPUTED"}]_vars
  <2> SUFFICES ASSUME NEW c \in DOMAIN ledger
               PROVE  /\ ledger[c].status = "VOIDED" => ledger'[c] = ledger[c]
                      /\ ledger[c].status = "RECONCILED"
                            => ledger'[c].status \in {"RECONCILED", "DISPUTED"}
    OBVIOUS
  <2>1. LedgerStep /\ ledger[c] \in Entry
    BY <1>1, NextLedgerStep DEF TypeOK
  <2>2. ASSUME NEW d \in Commissions \ DOMAIN ledger, NEW m \in Matches, NEW a \in Accounts,
               NEW k \in Contracts \cup {None}, NEW n \in Amounts,
               ledger' = With(ledger, d, Estimated(m, a, k, n))
        PROVE  ledger'[c] = ledger[c]
    BY <2>2 DEF With
  <2>3. ASSUME NEW d \in DOMAIN ledger, NEW s \in CommissionStatus,
               NEW k \in Contracts \cup {None}, NEW r \in Refs \cup {None},
               MayTransition(ledger[d], s, k),
               ledger' = [ledger EXCEPT ![d] = Transitioned(@, s, k, r)]
        PROVE  /\ ledger[c].status = "VOIDED" => ledger'[c] = ledger[c]
               /\ ledger[c].status = "RECONCILED" => ledger'[c].status \in {"RECONCILED", "DISPUTED"}
    <3>1. CASE c # d
      BY <2>3, <3>1
    <3>2. CASE c = d
      <4>1. s \in COMMISSION_TRANSITIONS[ledger[c].status]
        BY <2>3, <3>2 DEF MayTransition
      <4>2. ledger[c].status = "VOIDED" => FALSE
        BY <4>1 DEF COMMISSION_TRANSITIONS, CommissionStatus
      <4>3. ledger[c].status = "RECONCILED" => s = "DISPUTED"
        BY <4>1 DEF COMMISSION_TRANSITIONS, CommissionStatus
      <4>4. Transitioned(ledger[c], s, k, r).status = s
        BY <2>1 DEF Transitioned, Entry
      <4> QED
        BY <2>3, <3>2, <4>2, <4>3, <4>4
    <3> QED
      BY <3>1, <3>2
  <2>4. ASSUME NEW d \in DOMAIN ledger, ledger' = [ledger EXCEPT ![d] = Settled(@)]
        PROVE  ledger[c].status \in {"VOIDED", "RECONCILED"} => ledger'[c] = ledger[c]
    BY <2>4 DEF Settled, Settleable
  <2>5. ASSUME NEW d \in DOMAIN ledger \cup {None},
               ledger' = [e \in DOMAIN ledger |->
                            IF e = d /\ ledger[e].status \notin Undisputable
                            THEN [ledger[e] EXCEPT !.status = "DISPUTED"]
                            ELSE ledger[e]]
        PROVE  /\ ledger[c].status = "VOIDED" => ledger'[c] = ledger[c]
               /\ ledger[c].status = "RECONCILED" => ledger'[c].status \in {"RECONCILED", "DISPUTED"}
    BY <2>1, <2>5 DEF Undisputable, Entry
  <2> QED
    BY <2>1, <2>2, <2>3, <2>4, <2>5 DEF LedgerStep
<1> QED
  BY <1>1, TypeCorrect, PTL DEF Spec, LedgerNeverReopens

-----------------------------------------------------------------------------
(* The reviews.                                                            *)

\* The strengthening: a claimed review has an owner, who is an operator.
ClaimedHasOwner ==
    \A k \in DOMAIN reviews : reviews[k].status = "CLAIMED" => reviews[k].assigned \in Operators

\* What a step does to the reviews: it opens one for a new settlement, claims
\* some open ones, decides one that may be decided, or leaves them alone.
ReviewStep ==
    \/ \E k \in InboxKeys \ DOMAIN reviews : reviews' = With(reviews, k, NewReview)
    \/ \E actor \in Operators, claimed \in SUBSET DOMAIN reviews :
          /\ \A k \in claimed : reviews[k].status = "OPEN"
          /\ reviews' = [k \in DOMAIN reviews |->
                IF k \in claimed
                THEN [reviews[k] EXCEPT !.status = "CLAIMED", !.assigned = actor]
                ELSE reviews[k]]
    \/ \E k \in InboxKeys, actor \in Operators, s \in {"RESOLVED", "WAITING_INFORMATION"},
          d \in {"ACCEPT_VARIANCE", "REJECT_VARIANCE", "REQUEST_INFORMATION"} :
          MayResolve(k, actor) /\ Decide(k, s, actor, d)
    \/ UNCHANGED reviews

LEMMA NextReviewStep == TypeOK /\ [Next]_vars => ReviewStep
<1> SUFFICES ASSUME TypeOK, [Next]_vars
             PROVE  ReviewStep
  OBVIOUS
<1>1. ASSUME NEW ev \in Settlements, Fresh(ev), reviews' = With(reviews, InboxKey(ev), NewReview)
      PROVE  ReviewStep
  <2>1. InboxKey(ev) \in InboxKeys \ DOMAIN reviews
    BY <1>1 DEF Fresh, InboxKeys, TypeOK
  <2> QED
    BY <1>1, <2>1 DEF ReviewStep
<1>2. ASSUME NEW actor \in Operators, NEW claimed \in SUBSET DOMAIN reviews, ClaimReviews(actor, claimed)
      PROVE  ReviewStep
  BY <1>2 DEF ClaimReviews, ReviewStep
<1>3. ASSUME NEW actor \in Operators, NEW k \in InboxKeys,
             AcceptVariance(k, actor) \/ RejectVariance(k, actor) \/ RequestInformation(k, actor)
      PROVE  ReviewStep
  BY <1>3 DEF AcceptVariance, RejectVariance, RequestInformation, ReviewStep
<1>4. UNCHANGED reviews => ReviewStep
  BY DEF ReviewStep
<1> QED
  BY <1>1, <1>2, <1>3, <1>4
  DEF Next, vars, RegisterCommission, TransitionCommission, ReconcileUnmatched,
      ReconcileAmbiguous, ReconcileForReview, AutoReconcile, AutoReconcileFails

LEMMA NextClaimed == TypeOK /\ ClaimedHasOwner /\ ReviewStep => ClaimedHasOwner'
<1> SUFFICES ASSUME TypeOK, ClaimedHasOwner, ReviewStep
             PROVE  ClaimedHasOwner'
  OBVIOUS
<1>1. ASSUME NEW k \in InboxKeys \ DOMAIN reviews, reviews' = With(reviews, k, NewReview)
      PROVE  ClaimedHasOwner'
  BY <1>1 DEF With, NewReview, ClaimedHasOwner
<1>2. ASSUME NEW actor \in Operators, NEW claimed \in SUBSET DOMAIN reviews,
             reviews' = [k \in DOMAIN reviews |->
                IF k \in claimed
                THEN [reviews[k] EXCEPT !.status = "CLAIMED", !.assigned = actor]
                ELSE reviews[k]]
      PROVE  ClaimedHasOwner'
  <2> SUFFICES ASSUME NEW k \in DOMAIN reviews, reviews'[k].status = "CLAIMED"
               PROVE  reviews'[k].assigned \in Operators
    BY <1>2 DEF ClaimedHasOwner
  <2>1. reviews[k] \in ReviewRow
    BY DEF TypeOK, ReviewRow
  <2>2. CASE k \in claimed
    <3>1. reviews'[k] = [reviews[k] EXCEPT !.status = "CLAIMED", !.assigned = actor]
      BY <1>2, <2>2
    <3> QED
      BY <2>1, <3>1 DEF ReviewRow
  <2>3. CASE k \notin claimed
    BY <1>2, <2>3 DEF ClaimedHasOwner
  <2> QED
    BY <2>2, <2>3
<1>3. ASSUME NEW k \in InboxKeys, NEW actor \in Operators, NEW s \in {"RESOLVED", "WAITING_INFORMATION"},
             NEW d \in {"ACCEPT_VARIANCE", "REJECT_VARIANCE", "REQUEST_INFORMATION"},
             Decide(k, s, actor, d)
      PROVE  ClaimedHasOwner'
  BY <1>3 DEF Decide, ClaimedHasOwner
<1>4. CASE UNCHANGED reviews
  BY <1>4 DEF ClaimedHasOwner
<1> QED
  BY <1>1, <1>2, <1>3, <1>4 DEF ReviewStep

\* Only the operator who claimed a review decides it, and a decision, the
\* request for information included, is never repeated or taken back.
THEOREM ReviewsDecidedOnce == Spec => ReviewsAreDecidedOnceByTheirOwner
<1>1. Init => ClaimedHasOwner
  BY DEF Init, ClaimedHasOwner
<1>2. TypeOK /\ ClaimedHasOwner /\ [Next]_vars => ClaimedHasOwner'
  BY NextReviewStep, NextClaimed
<1>3. ASSUME TypeOK, ClaimedHasOwner, [Next]_vars
      PROVE  [\A k \in DOMAIN reviews :
                /\ reviews[k].status \notin Undecided => reviews'[k] = reviews[k]
                /\ reviews[k].status = "CLAIMED" => reviews'[k].assigned = reviews[k].assigned]_vars
  <2> SUFFICES ASSUME NEW k \in DOMAIN reviews
               PROVE  /\ reviews[k].status \notin Undecided => reviews'[k] = reviews[k]
                      /\ reviews[k].status = "CLAIMED" => reviews'[k].assigned = reviews[k].assigned
    OBVIOUS
  <2>1. ReviewStep
    BY <1>3, NextReviewStep
  <2>2. ASSUME NEW j \in InboxKeys \ DOMAIN reviews, reviews' = With(reviews, j, NewReview)
        PROVE  reviews'[k] = reviews[k]
    BY <2>2 DEF With
  <2>3. ASSUME NEW actor \in Operators, NEW claimed \in SUBSET DOMAIN reviews,
               \A j \in claimed : reviews[j].status = "OPEN",
               reviews' = [j \in DOMAIN reviews |->
                  IF j \in claimed
                  THEN [reviews[j] EXCEPT !.status = "CLAIMED", !.assigned = actor]
                  ELSE reviews[j]]
        PROVE  reviews[k].status # "OPEN" => reviews'[k] = reviews[k]
    BY <2>3
  <2>4. ASSUME NEW j \in InboxKeys, NEW actor \in Operators, NEW s, NEW d,
               MayResolve(j, actor), Decide(j, s, actor, d)
        PROVE  /\ reviews[k].status \notin Undecided => reviews'[k] = reviews[k]
               /\ reviews[k].status = "CLAIMED" => reviews'[k].assigned = reviews[k].assigned
    <3>1. CASE k # j
      BY <2>4, <3>1 DEF Decide
    <3>2. CASE k = j
      <4>1. reviews[k].status \in Undecided /\ reviews[k].assigned \in {None, actor}
        BY <2>4, <3>2 DEF MayResolve
      <4>2. reviews'[k].assigned = actor
        BY <2>4, <3>2 DEF Decide
      <4>3. reviews[k].status = "CLAIMED" => reviews[k].assigned # None
        BY <1>3, SentinelAssumption DEF ClaimedHasOwner
      <4> QED
        BY <4>1, <4>2, <4>3
    <3> QED
      BY <3>1, <3>2
  <2> QED
    BY <2>1, <2>2, <2>3, <2>4 DEF ReviewStep, Undecided
<1> QED
  BY <1>1, <1>2, <1>3, TypeCorrect, PTL DEF Spec, ReviewsAreDecidedOnceByTheirOwner

-----------------------------------------------------------------------------
(* The outbox.                                                             *)

\* Events of different kinds, and of different reviews, have different keys.
LEMMA KeysDiffer ==
    ASSUME NEW j, NEW k, NEW id, NEW c
    PROVE  /\ ManualKey(k) # DisputeKey(j) /\ ManualKey(k) # InfoKey(j)
           /\ DisputeKey(k) # InfoKey(j)
           /\ AutoKey(id, c) \notin {ManualKey(k), DisputeKey(k), InfoKey(k)}
           /\ j # k => /\ ManualKey(j) # ManualKey(k)
                       /\ DisputeKey(j) # DisputeKey(k)
                       /\ InfoKey(j) # InfoKey(k)
BY DEF ManualKey, DisputeKey, InfoKey, AutoKey

\* The three events a review of k may cause.
ReviewEvents(k) == {ManualKey(k), DisputeKey(k), InfoKey(k)}

\* The outbox is told of exactly the settlements whose case files changed.
LEMMA OutboxTellsFrame ==
    ASSUME NEW k, OutboxTells(k), links'[k] = links[k],
           k \in DOMAIN reviews' /\ reviews'[k].status = "WAITING_INFORMATION"
              <=> k \in DOMAIN reviews /\ reviews[k].status = "WAITING_INFORMATION",
           outbox \subseteq outbox', ReviewEvents(k) \cap outbox' \subseteq outbox
    PROVE  OutboxTells(k)'
BY DEF OutboxTells, ReviewEvents

LEMMA NextOutboxTells ==
    TypeOK /\ CaseFilesAgree /\ OutboxTellsOutcomes /\ [Next]_vars => OutboxTellsOutcomes'
<1> SUFFICES ASSUME TypeOK, CaseFilesAgree, OutboxTellsOutcomes, [Next]_vars
             PROVE  OutboxTellsOutcomes'
  OBVIOUS
<1>0. /\ \A k \in DOMAIN inbox : OutboxTells(k)
      /\ \A k \in InboxKeys \ DOMAIN inbox : ReviewEvents(k) \cap outbox = {}
  BY DEF OutboxTellsOutcomes, ReviewEvents
<1>1. ASSUME UNCHANGED <<inbox, links, reviews, outbox>>
      PROVE  OutboxTellsOutcomes'
  BY <1>1 DEF OutboxTellsOutcomes, OutboxTells
<1>2. ASSUME NEW ev \in Settlements, Fresh(ev), UNCHANGED reviews,
             NEW d \in {"UNMATCHED", "AUTO_RECONCILED"}, NEW c \in Commissions \cup {None},
             Record(ev, "PROCESSED", d, c),
             \/ d = "UNMATCHED" /\ UNCHANGED outbox
             \/ outbox' = outbox \cup {AutoKey(ev.id, c)}
      PROVE  OutboxTellsOutcomes'
  <2>1. "PROCESSED" \in InboxStatus /\ d \in LinkDecision
    BY DEF InboxStatus, LinkDecision
  <2>2. /\ DOMAIN inbox' = DOMAIN inbox \cup {InboxKey(ev)}
        /\ links'[InboxKey(ev)].decision = d
        /\ links'[InboxKey(ev)].commission = c
        /\ InboxKey(ev) \notin DOMAIN reviews
        /\ \A j \in DOMAIN inbox : links'[j] = links[j]
    BY <1>2, <2>1, RecordFrame
  <2>3. outbox \subseteq outbox' /\ \A k : ReviewEvents(k) \cap outbox' \subseteq outbox
    BY <1>2, KeysDiffer DEF ReviewEvents
  <2>4. InboxKey(ev) \in InboxKeys \ DOMAIN inbox /\ InboxKey(ev)[2] = ev.id
    BY <1>2 DEF Fresh, InboxKeys, InboxKey
  <2>5. OutboxTells(InboxKey(ev))'
    <3>1. ReviewEvents(InboxKey(ev)) \cap outbox' = {}
      BY <1>0, <2>3, <2>4
    <3>2. d = "AUTO_RECONCILED" => AutoKey(InboxKey(ev)[2], c) \in outbox'
      BY <1>2, <2>4
    <3> QED
      BY <1>2, <2>2, <3>1, <3>2 DEF OutboxTells, ReviewEvents
  <2>6. ASSUME NEW k \in DOMAIN inbox
        PROVE  OutboxTells(k)'
    BY <1>0, <1>2, <2>2, <2>3, OutboxTellsFrame
  <2>7. ASSUME NEW k \in InboxKeys \ DOMAIN inbox'
        PROVE  ReviewEvents(k) \cap outbox' = {}
    BY <1>0, <2>2, <2>3
  <2> QED
    BY <2>2, <2>5, <2>6, <2>7 DEF OutboxTellsOutcomes, ReviewEvents
<1>3. ASSUME NEW ev \in Settlements, Fresh(ev), NEW c \in Commissions \cup {None},
             Record(ev, "REVIEW_REQUIRED", "REVIEW_REQUIRED", c),
             reviews' = With(reviews, InboxKey(ev), NewReview), UNCHANGED outbox
      PROVE  OutboxTellsOutcomes'
  <2>1. "REVIEW_REQUIRED" \in InboxStatus /\ "REVIEW_REQUIRED" \in LinkDecision
    BY DEF InboxStatus, LinkDecision
  <2>2. /\ DOMAIN inbox' = DOMAIN inbox \cup {InboxKey(ev)}
        /\ links'[InboxKey(ev)].decision = "REVIEW_REQUIRED"
        /\ \A j \in DOMAIN inbox : links'[j] = links[j]
    BY <1>3, <2>1, RecordFrame
  <2>3. /\ DOMAIN reviews' = DOMAIN reviews \cup {InboxKey(ev)}
        /\ reviews'[InboxKey(ev)].status = "OPEN"
        /\ \A j \in DOMAIN reviews : j # InboxKey(ev) => reviews'[j] = reviews[j]
    BY <1>3 DEF With, NewReview
  <2>4. InboxKey(ev) \in InboxKeys \ DOMAIN inbox
    BY <1>3 DEF Fresh, InboxKeys
  <2>5. OutboxTells(InboxKey(ev))'
    BY <1>0, <1>3, <2>2, <2>3, <2>4 DEF OutboxTells, ReviewEvents
  <2>6. ASSUME NEW k \in DOMAIN inbox
        PROVE  OutboxTells(k)'
    BY <1>0, <1>3, <2>2, <2>3, <2>4, OutboxTellsFrame
  <2> QED
    BY <1>0, <1>3, <2>2, <2>5, <2>6 DEF OutboxTellsOutcomes, ReviewEvents
<1>4. ASSUME NEW actor \in Operators, NEW claimed \in SUBSET DOMAIN reviews, ClaimReviews(actor, claimed)
      PROVE  OutboxTellsOutcomes'
  <2>1. /\ DOMAIN reviews' = DOMAIN reviews
        /\ \A j \in DOMAIN reviews :
              reviews'[j].status = "WAITING_INFORMATION" <=> reviews[j].status = "WAITING_INFORMATION"
    BY <1>4 DEF ClaimReviews, TypeOK
  <2>2. \A k \in DOMAIN inbox : OutboxTells(k)'
    BY <1>0, <1>4, <2>1 DEF ClaimReviews, OutboxTells
  <2> QED
    BY <1>0, <1>4, <2>2 DEF ClaimReviews, OutboxTellsOutcomes, ReviewEvents
<1>5. ASSUME NEW j \in InboxKeys, NEW actor \in Operators, MayResolve(j, actor),
             NEW s \in ReviewStatus,
             NEW d \in {"ACCEPT_VARIANCE", "REJECT_VARIANCE", "REQUEST_INFORMATION"},
             Decide(j, s, actor, d), DOMAIN inbox' = DOMAIN inbox,
             \A k \in DOMAIN inbox : k # j => links'[k] = links[k],
             \/ /\ s = "RESOLVED" /\ links'[j].decision = "MANUAL_ACCEPTED"
                /\ outbox' = outbox \cup {ManualKey(j)}
             \/ /\ s = "RESOLVED" /\ links'[j].decision = "MANUAL_REJECTED"
                /\ outbox' = outbox \cup {DisputeKey(j)}
             \/ /\ s = "WAITING_INFORMATION" /\ links' = links
                /\ outbox' = outbox \cup {InfoKey(j)}
      PROVE  OutboxTellsOutcomes'
  <2>1. /\ j \in DOMAIN inbox /\ j \in DOMAIN reviews
        /\ links[j].decision = "REVIEW_REQUIRED" /\ reviews[j].status \in Undecided
    BY <1>5, PendingFile
  <2>2. ReviewEvents(j) \cap outbox = {}
    BY <1>0, <2>1 DEF OutboxTells, ReviewEvents, Undecided
  <2>3. /\ DOMAIN reviews' = DOMAIN reviews /\ reviews'[j].status = s
        /\ \A k \in DOMAIN reviews : k # j => reviews'[k] = reviews[k]
    BY <1>5, <2>1, DecideFrame
  <2>4. OutboxTells(j)'
    BY <1>5, <2>1, <2>2, <2>3, KeysDiffer DEF OutboxTells, ReviewEvents
  <2>5. /\ outbox \subseteq outbox'
        /\ \A k : k # j => ReviewEvents(k) \cap outbox' \subseteq outbox
    BY <1>5, KeysDiffer DEF ReviewEvents
  <2>6. ASSUME NEW k \in DOMAIN inbox, k # j
        PROVE  OutboxTells(k)'
    BY <1>0, <1>5, <2>3, <2>5, <2>6, OutboxTellsFrame
  <2>7. ASSUME NEW k \in InboxKeys \ DOMAIN inbox
        PROVE  ReviewEvents(k) \cap outbox' = {}
    BY <1>0, <2>1, <2>5
  <2> QED
    BY <1>5, <2>4, <2>6, <2>7 DEF OutboxTellsOutcomes, ReviewEvents
<1>6. ASSUME NEW actor \in Operators, NEW j \in InboxKeys,
             AcceptVariance(j, actor) \/ RejectVariance(j, actor) \/ RequestInformation(j, actor)
      PROVE  OutboxTellsOutcomes'
  <2>1. MayResolve(j, actor)
    BY <1>6 DEF AcceptVariance, RejectVariance, RequestInformation
  <2>2. j \in DOMAIN inbox /\ DOMAIN links = DOMAIN inbox
    BY <2>1, PendingFile DEF TypeOK
  <2>3. DOMAIN inbox' = DOMAIN inbox /\ \A k \in DOMAIN inbox : k # j => links'[k] = links[k]
    BY <1>6, <2>2 DEF AcceptVariance, RejectVariance, RequestInformation
  <2>4. links[j] \in LinkRow(DOMAIN ledger)
    BY <2>2 DEF TypeOK, LinkRow
  <2>5. CASE AcceptVariance(j, actor)
    <3>1. /\ Decide(j, "RESOLVED", actor, "ACCEPT_VARIANCE") /\ links'[j].decision = "MANUAL_ACCEPTED"
          /\ outbox' = outbox \cup {ManualKey(j)} /\ "RESOLVED" \in ReviewStatus
      BY <2>2, <2>4, <2>5 DEF AcceptVariance, ReviewStatus, LinkRow
    <3> QED
      BY <1>5, <2>1, <2>3, <3>1
  <2>6. CASE RejectVariance(j, actor)
    <3>1. /\ Decide(j, "RESOLVED", actor, "REJECT_VARIANCE") /\ links'[j].decision = "MANUAL_REJECTED"
          /\ outbox' = outbox \cup {DisputeKey(j)} /\ "RESOLVED" \in ReviewStatus
      BY <2>2, <2>4, <2>6 DEF RejectVariance, ReviewStatus, LinkRow
    <3> QED
      BY <1>5, <2>1, <2>3, <3>1
  <2>7. CASE RequestInformation(j, actor)
    <3>1. /\ Decide(j, "WAITING_INFORMATION", actor, "REQUEST_INFORMATION") /\ links' = links
          /\ outbox' = outbox \cup {InfoKey(j)} /\ "WAITING_INFORMATION" \in ReviewStatus
      BY <2>7 DEF RequestInformation, ReviewStatus
    <3> QED
      BY <1>5, <2>1, <2>3, <3>1
  <2> QED
    BY <1>6, <2>5, <2>6, <2>7
<1> QED
  BY <1>1, <1>2, <1>3, <1>4, <1>6
  DEF Next, vars, RegisterCommission, TransitionCommission, ReconcileUnmatched,
      ReconcileAmbiguous, ReconcileForReview, AutoReconcile, AutoReconcileFails

\* Every outcome is in the outbox, and no other: one event of the right kind
\* for each decided review, one for each automatic reconciliation.
THEOREM OutboxAlwaysTells == Spec => []OutboxTellsOutcomes
<1>1. Init => OutboxTellsOutcomes
  BY DEF Init, OutboxTellsOutcomes
<1>2. TypeOK /\ CaseFilesAgree /\ OutboxTellsOutcomes /\ [Next]_vars => OutboxTellsOutcomes'
  BY NextOutboxTells
<1> QED
  BY <1>1, <1>2, TypeCorrect, CaseFilesAlwaysAgree, PTL DEF Spec

-----------------------------------------------------------------------------
(* A commission moves with the case file that links it.                    *)

\* k is the case file of c, and this step writes it and announces it.
TellsCase(k, c) ==
    /\ outbox' # outbox
    /\ k \in DOMAIN inbox'
    /\ links'[k].commission = c
    /\ k \notin DOMAIN inbox \/ links'[k] # links[k]

\* Either the commissions stand still, or no other row is written, or the
\* one commission that moves is told of.
CaseStep ==
    \/ \A c \in DOMAIN ledger : ledger'[c] = ledger[c]
    \/ UNCHANGED <<inbox, links, reviews, outbox>>
    \/ \E k \in InboxKeys, d \in DOMAIN ledger :
          /\ TellsCase(k, d)
          /\ \A c \in DOMAIN ledger : c # d => ledger'[c] = ledger[c]

\* A review decision gives the link of its settlement another decision, and
\* its event is new.
LEMMA DecisionTells ==
    ASSUME TypeOK, CaseFilesAgree, OutboxTellsOutcomes,
           NEW k \in InboxKeys, NEW actor, MayResolve(k, actor),
           NEW d \in {"MANUAL_ACCEPTED", "MANUAL_REJECTED"},
           links' = [links EXCEPT ![k].decision = d], DOMAIN inbox' = DOMAIN inbox,
           NEW e \in {ManualKey(k), DisputeKey(k)}, outbox' = outbox \cup {e}
    PROVE  TellsCase(k, links[k].commission)
<1>1. /\ k \in DOMAIN inbox /\ k \in DOMAIN links
      /\ links[k].decision = "REVIEW_REQUIRED" /\ links[k] \in LinkRow(DOMAIN ledger)
  BY PendingFile DEF TypeOK, LinkRow
<1>2. links'[k].commission = links[k].commission /\ links'[k].decision = d
  BY <1>1 DEF LinkRow
<1>3. e \notin outbox
  <2>1. OutboxTells(k)
    BY <1>1 DEF OutboxTellsOutcomes
  <2> QED
    BY <1>1, <2>1 DEF OutboxTells
<1>4. links'[k] # links[k]
  BY <1>1, <1>2
<1> QED
  BY <1>1, <1>2, <1>3, <1>4 DEF TellsCase

LEMMA NextCaseStep ==
    ASSUME TypeOK, CaseFilesAgree, OutboxTellsOutcomes, [Next]_vars
    PROVE  CaseStep
<1>1. ledger' = ledger => CaseStep
  BY DEF CaseStep
<1>2. UNCHANGED <<inbox, links, reviews, outbox>> => CaseStep
  BY DEF CaseStep
<1>3. ASSUME NEW ev \in Settlements, NEW d \in Commissions, AutoReconcile(ev, d)
      PROVE  CaseStep
  <2>1. /\ Fresh(ev) /\ Record(ev, "PROCESSED", "AUTO_RECONCILED", d)
        /\ AutoKey(ev.id, d) \notin outbox /\ outbox' = outbox \cup {AutoKey(ev.id, d)}
        /\ ledger' = [ledger EXCEPT ![d] = Settled(@)]
    BY <1>3 DEF AutoReconcile, Announceable
  <2>2. d \in DOMAIN ledger
    BY <1>3 DEF AutoReconcile, ClearWinner, Candidates
  <2>3. InboxKey(ev) \in DOMAIN inbox' /\ links'[InboxKey(ev)].commission = d
    <3>1. "PROCESSED" \in InboxStatus /\ "AUTO_RECONCILED" \in LinkDecision
      BY DEF InboxStatus, LinkDecision
    <3>2. d \in Commissions \cup {None} /\ Fresh(ev) /\ Record(ev, "PROCESSED", "AUTO_RECONCILED", d)
      BY <2>1
    <3>3. /\ DOMAIN inbox' = DOMAIN inbox \cup {InboxKey(ev)}
          /\ links'[InboxKey(ev)].commission = d
      BY <3>1, <3>2, RecordFrame
    <3> QED
      BY <3>3
  <2>4. InboxKey(ev) \in InboxKeys /\ InboxKey(ev) \notin DOMAIN inbox
    BY <2>1 DEF InboxKeys, Fresh
  <2>5. TellsCase(InboxKey(ev), d)
    BY <2>1, <2>3, <2>4 DEF TellsCase
  <2>6. \A c \in DOMAIN ledger : c # d => ledger'[c] = ledger[c]
    BY <2>1
  <2> QED
    BY <2>2, <2>4, <2>5, <2>6 DEF CaseStep
<1>4. ASSUME NEW actor \in Operators, NEW k \in InboxKeys, AcceptVariance(k, actor)
      PROVE  CaseStep
  <2>1. /\ MayResolve(k, actor) /\ links[k].commission # None
        /\ ledger' = [ledger EXCEPT ![links[k].commission] = Settled(@)]
        /\ inbox' = [inbox EXCEPT ![k] = "PROCESSED"]
        /\ links' = [links EXCEPT ![k].decision = "MANUAL_ACCEPTED"]
        /\ outbox' = outbox \cup {ManualKey(k)}
    BY <1>4 DEF AcceptVariance
  <2>2. DOMAIN inbox' = DOMAIN inbox
    BY <2>1
  <2>3. TellsCase(k, links[k].commission)
    BY <2>1, <2>2, DecisionTells
  <2>4. links[k].commission \in DOMAIN ledger
    <3>1. k \in DOMAIN inbox
      BY <2>1, PendingFile
    <3> QED
      BY <2>1, <3>1 DEF TypeOK
  <2>5. \A c \in DOMAIN ledger : c # links[k].commission => ledger'[c] = ledger[c]
    BY <2>1
  <2> QED
    BY <2>3, <2>4, <2>5 DEF CaseStep
<1>5. ASSUME NEW actor \in Operators, NEW k \in InboxKeys, RejectVariance(k, actor)
      PROVE  CaseStep
  <2>1. /\ MayResolve(k, actor)
        /\ ledger' = [c \in DOMAIN ledger |->
                         IF c = links[k].commission /\ ledger[c].status \notin Undisputable
                         THEN [ledger[c] EXCEPT !.status = "DISPUTED"]
                         ELSE ledger[c]]
        /\ inbox' = [inbox EXCEPT ![k] = "DISPUTED"]
        /\ links' = [links EXCEPT ![k].decision = "MANUAL_REJECTED"]
        /\ outbox' = outbox \cup {DisputeKey(k)}
    BY <1>5 DEF RejectVariance
  <2>2. DOMAIN inbox' = DOMAIN inbox
    BY <2>1
  <2>3. TellsCase(k, links[k].commission)
    BY <2>1, <2>2, DecisionTells
  <2>4. \A c \in DOMAIN ledger : c # links[k].commission => ledger'[c] = ledger[c]
    BY <2>1
  <2>5. CASE links[k].commission \in DOMAIN ledger
    BY <2>3, <2>4, <2>5 DEF CaseStep
  <2>6. CASE links[k].commission \notin DOMAIN ledger
    BY <2>4, <2>6 DEF CaseStep
  <2> QED
    BY <2>5, <2>6
<1> QED
  BY <1>1, <1>2, <1>3, <1>4, <1>5
  DEF Next, vars, RegisterCommission, TransitionCommission, ReconcileUnmatched,
      ReconcileAmbiguous, ReconcileForReview, AutoReconcileFails, ClaimReviews,
      RequestInformation

\* A delivery or a review decision moves no commission but the one its own
\* case file links, writes that file and commits an event with it.
THEOREM LedgerMovesWithCase == Spec => LedgerMovesWithItsCase
<1>1. ASSUME TypeOK, CaseFilesAgree, OutboxTellsOutcomes, [Next]_vars
      PROVE  [\A c \in DOMAIN ledger :
                (ledger'[c] # ledger[c] /\ <<inbox, links, reviews, outbox>>'
                                             # <<inbox, links, reviews, outbox>>)
                    => /\ outbox' # outbox
                       /\ \E k \in DOMAIN inbox' :
                             /\ links'[k].commission = c
                             /\ k \notin DOMAIN inbox \/ links'[k] # links[k]]_vars
  <2> SUFFICES ASSUME NEW c \in DOMAIN ledger, ledger'[c] # ledger[c],
                      ~ UNCHANGED <<inbox, links, reviews, outbox>>
               PROVE  \E k \in InboxKeys : TellsCase(k, c)
    BY DEF TellsCase
  <2> QED
    BY <1>1, NextCaseStep DEF CaseStep
<1> QED
  BY <1>1, TypeCorrect, CaseFilesAlwaysAgree, OutboxAlwaysTells, PTL
  DEF Spec, LedgerMovesWithItsCase

-----------------------------------------------------------------------------
(* Refinement: every settlement is one case of SettlementCases.            *)

Inv == TypeOK /\ CaseFilesAgree /\ OutboxTellsOutcomes

\* The outcomes that are announced when they are reached.
ToldOutcomes == {"SETTLED", "ACCEPTED", "REJECTED", "WAITING_INFORMATION"}

OutcomeOf   == [k \in InboxKeys |-> Outcome(k)]
AnnouncedOf == {k \in InboxKeys : Announced(k)}

\* The link of a settlement, and whether it waits for information, give its
\* outcome.
LEMMA OutcomeCases ==
    ASSUME NEW k
    PROVE  /\ k \notin DOMAIN links => Outcome(k) = "NEW"
           /\ k \in DOMAIN links /\ k \in DOMAIN reviews /\ reviews[k].status = "WAITING_INFORMATION"
                => Outcome(k) = "WAITING_INFORMATION"
           /\ k \in DOMAIN links /\ ~(k \in DOMAIN reviews /\ reviews[k].status = "WAITING_INFORMATION")
                => /\ links[k].decision = "AUTO_RECONCILED" => Outcome(k) = "SETTLED"
                   /\ links[k].decision = "UNMATCHED"       => Outcome(k) = "UNMATCHED"
                   /\ links[k].decision = "MANUAL_ACCEPTED" => Outcome(k) = "ACCEPTED"
                   /\ links[k].decision = "MANUAL_REJECTED" => Outcome(k) = "REJECTED"
                   /\ links[k].decision = "REVIEW_REQUIRED" => Outcome(k) = "OPEN"
BY DEF Outcome, LinkOutcome, LinkDecision

\* An outcome is announced exactly when it is one of those.
LEMMA AnnouncedIsTold == Inv => AnnouncedOf = {k \in InboxKeys : OutcomeOf[k] \in ToldOutcomes}
<1> SUFFICES ASSUME Inv, NEW k \in InboxKeys
             PROVE  Announced(k) <=> Outcome(k) \in ToldOutcomes
  BY DEF AnnouncedOf, OutcomeOf
<1>0. DOMAIN links = DOMAIN inbox /\ DOMAIN reviews \subseteq DOMAIN inbox
  BY DEF Inv, TypeOK
<1>1. CASE k \notin DOMAIN inbox
  BY <1>0, <1>1, OutcomeCases DEF Inv, OutboxTellsOutcomes, Announced, ToldOutcomes
<1>2. CASE k \in DOMAIN inbox
  <2>1. OutboxTells(k) /\ CaseFileAgrees(k) /\ links[k].decision \in LinkDecision
    BY <1>2 DEF Inv, OutboxTellsOutcomes, CaseFilesAgree, TypeOK
  <2>2. CASE k \in DOMAIN reviews /\ reviews[k].status = "WAITING_INFORMATION"
    BY <1>0, <1>2, <2>1, <2>2, OutcomeCases DEF OutboxTells, Announced, ToldOutcomes
  <2>3. CASE ~(k \in DOMAIN reviews /\ reviews[k].status = "WAITING_INFORMATION")
    BY <1>0, <1>2, <2>1, <2>3, OutcomeCases DEF OutboxTells, Announced, ToldOutcomes, LinkDecision
  <2> QED
    BY <2>2, <2>3
<1> QED
  BY <1>1, <1>2

\* A step changes no outcome, takes up a new settlement or decides an open one.
OutcomeStep ==
    \/ OutcomeOf' = OutcomeOf
    \/ \E k \in InboxKeys, o \in {"UNMATCHED", "OPEN", "SETTLED"} :
          OutcomeOf[k] = "NEW" /\ OutcomeOf' = [OutcomeOf EXCEPT ![k] = o]
    \/ \E k \in InboxKeys, o \in {"ACCEPTED", "REJECTED", "WAITING_INFORMATION"} :
          OutcomeOf[k] = "OPEN" /\ OutcomeOf' = [OutcomeOf EXCEPT ![k] = o]

\* The step of one settlement, from what the others keep.
LEMMA OneOutcomeChanges ==
    ASSUME NEW j \in InboxKeys, NEW o, Outcome(j)' = o,
           \A k \in InboxKeys : k # j => Outcome(k)' = Outcome(k)
    PROVE  OutcomeOf' = [OutcomeOf EXCEPT ![j] = o]
BY DEF OutcomeOf

LEMMA NextOutcome == Inv /\ [Next]_vars => OutcomeStep
<1> SUFFICES ASSUME Inv, [Next]_vars
             PROVE  OutcomeStep
  OBVIOUS
<1>0. /\ TypeOK /\ CaseFilesAgree
      /\ DOMAIN links = DOMAIN inbox /\ DOMAIN reviews \subseteq DOMAIN inbox
  BY DEF Inv, TypeOK
<1>1. UNCHANGED <<links, reviews>> => OutcomeStep
  BY DEF OutcomeStep, OutcomeOf, Outcome
<1>2. ASSUME NEW ev \in Settlements, Fresh(ev), UNCHANGED reviews,
             NEW d \in {"UNMATCHED", "AUTO_RECONCILED"}, NEW c \in Commissions \cup {None},
             Record(ev, "PROCESSED", d, c)
      PROVE  OutcomeStep
  <2>1. "PROCESSED" \in InboxStatus /\ d \in LinkDecision
    BY DEF InboxStatus, LinkDecision
  <2>2. /\ links'[InboxKey(ev)].decision = d
        /\ InboxKey(ev) \notin DOMAIN reviews
        /\ \A j \in DOMAIN inbox : links'[j] = links[j]
    BY <1>0, <1>2, <2>1, RecordFrame
  <2>3. InboxKey(ev) \in InboxKeys \ DOMAIN inbox /\ DOMAIN links' = DOMAIN links \cup {InboxKey(ev)}
    BY <1>0, <1>2 DEF Fresh, InboxKeys, Record, With
  <2>4. OutcomeOf[InboxKey(ev)] = "NEW"
    BY <1>0, <2>3, OutcomeCases DEF OutcomeOf
  <2>5. Outcome(InboxKey(ev))' = IF d = "UNMATCHED" THEN "UNMATCHED" ELSE "SETTLED"
    BY <1>2, <2>2, <2>3 DEF Outcome, LinkOutcome, LinkDecision
  <2>6. \A k \in InboxKeys : k # InboxKey(ev) => Outcome(k)' = Outcome(k)
    BY <1>0, <1>2, <2>2, <2>3 DEF Outcome
  <2> QED
    BY <2>3, <2>4, <2>5, <2>6, OneOutcomeChanges DEF OutcomeStep
<1>3. ASSUME NEW ev \in Settlements, Fresh(ev), NEW c \in Commissions \cup {None},
             Record(ev, "REVIEW_REQUIRED", "REVIEW_REQUIRED", c),
             reviews' = With(reviews, InboxKey(ev), NewReview)
      PROVE  OutcomeStep
  <2>1. "REVIEW_REQUIRED" \in InboxStatus /\ "REVIEW_REQUIRED" \in LinkDecision
    BY DEF InboxStatus, LinkDecision
  <2>2. /\ links'[InboxKey(ev)].decision = "REVIEW_REQUIRED"
        /\ \A j \in DOMAIN inbox : links'[j] = links[j]
    BY <1>0, <1>3, <2>1, RecordFrame
  <2>3. InboxKey(ev) \in InboxKeys \ DOMAIN inbox /\ DOMAIN links' = DOMAIN links \cup {InboxKey(ev)}
    BY <1>0, <1>3 DEF Fresh, InboxKeys, Record, With
  <2>4. /\ DOMAIN reviews' = DOMAIN reviews \cup {InboxKey(ev)}
        /\ reviews'[InboxKey(ev)].status = "OPEN"
        /\ \A j \in DOMAIN reviews : j # InboxKey(ev) => reviews'[j] = reviews[j]
    BY <1>3 DEF With, NewReview
  <2>5. OutcomeOf[InboxKey(ev)] = "NEW"
    BY <1>0, <2>3, OutcomeCases DEF OutcomeOf
  <2>6. Outcome(InboxKey(ev))' = "OPEN"
    BY <2>2, <2>3, <2>4 DEF Outcome, LinkOutcome, LinkDecision
  <2>7. \A k \in InboxKeys : k # InboxKey(ev) => Outcome(k)' = Outcome(k)
    BY <1>0, <2>2, <2>3, <2>4 DEF Outcome
  <2> QED
    BY <2>3, <2>5, <2>6, <2>7, OneOutcomeChanges DEF OutcomeStep
<1>4. ASSUME NEW actor \in Operators, NEW claimed \in SUBSET DOMAIN reviews, ClaimReviews(actor, claimed)
      PROVE  OutcomeStep
  <2>1. /\ DOMAIN reviews' = DOMAIN reviews /\ links' = links
        /\ \A j \in DOMAIN reviews :
              reviews'[j].status = "WAITING_INFORMATION" <=> reviews[j].status = "WAITING_INFORMATION"
    BY <1>0, <1>4 DEF ClaimReviews, TypeOK
  <2>2. \A k \in InboxKeys : Outcome(k)' = Outcome(k)
    BY <2>1 DEF Outcome
  <2> QED
    BY <2>2 DEF OutcomeStep, OutcomeOf
<1>5. ASSUME NEW j \in InboxKeys, NEW actor \in Operators, MayResolve(j, actor),
             NEW s \in ReviewStatus,
             NEW d \in {"ACCEPT_VARIANCE", "REJECT_VARIANCE", "REQUEST_INFORMATION"},
             Decide(j, s, actor, d), DOMAIN links' = DOMAIN links,
             \A k \in DOMAIN inbox : k # j => links'[k] = links[k],
             \/ s = "RESOLVED" /\ links'[j].decision \in {"MANUAL_ACCEPTED", "MANUAL_REJECTED"}
             \/ s = "WAITING_INFORMATION"
      PROVE  OutcomeStep
  <2>1. /\ j \in DOMAIN inbox /\ j \in DOMAIN reviews
        /\ links[j].decision = "REVIEW_REQUIRED" /\ reviews[j].status \in Undecided
    BY <1>0, <1>5, PendingFile
  <2>2. /\ DOMAIN reviews' = DOMAIN reviews /\ reviews'[j].status = s
        /\ \A k \in DOMAIN reviews : k # j => reviews'[k] = reviews[k]
    BY <1>5, <2>1, DecideFrame
  <2>3. OutcomeOf[j] = "OPEN"
    BY <1>0, <1>5, <2>1, OutcomeCases DEF OutcomeOf, Undecided
  <2>4. \A k \in InboxKeys : k # j => Outcome(k)' = Outcome(k)
    BY <1>0, <1>5, <2>2 DEF Outcome
  <2>5. Outcome(j)' \in {"ACCEPTED", "REJECTED", "WAITING_INFORMATION"}
    BY <1>0, <1>5, <2>1, <2>2 DEF Outcome, LinkOutcome, LinkDecision
  <2> QED
    BY <1>5, <2>3, <2>4, <2>5, OneOutcomeChanges DEF OutcomeStep
<1>6. ASSUME NEW actor \in Operators, NEW j \in InboxKeys,
             AcceptVariance(j, actor) \/ RejectVariance(j, actor) \/ RequestInformation(j, actor)
      PROVE  OutcomeStep
  <2>1. MayResolve(j, actor)
    BY <1>6 DEF AcceptVariance, RejectVariance, RequestInformation
  <2>2. j \in DOMAIN links
    BY <1>0, <2>1, PendingFile
  <2>3. DOMAIN links' = DOMAIN links /\ \A k \in DOMAIN inbox : k # j => links'[k] = links[k]
    BY <1>0, <1>6, <2>2 DEF AcceptVariance, RejectVariance, RequestInformation
  <2>4. links[j] \in LinkRow(DOMAIN ledger)
    BY <1>0, <2>2 DEF TypeOK, LinkRow
  <2>5. CASE AcceptVariance(j, actor)
    <3>1. /\ Decide(j, "RESOLVED", actor, "ACCEPT_VARIANCE") /\ links'[j].decision = "MANUAL_ACCEPTED"
          /\ "RESOLVED" \in ReviewStatus
      BY <2>2, <2>4, <2>5 DEF AcceptVariance, ReviewStatus, LinkRow
    <3> QED
      BY <1>5, <2>1, <2>3, <3>1
  <2>6. CASE RejectVariance(j, actor)
    <3>1. /\ Decide(j, "RESOLVED", actor, "REJECT_VARIANCE") /\ links'[j].decision = "MANUAL_REJECTED"
          /\ "RESOLVED" \in ReviewStatus
      BY <2>2, <2>4, <2>6 DEF RejectVariance, ReviewStatus, LinkRow
    <3> QED
      BY <1>5, <2>1, <2>3, <3>1
  <2>7. CASE RequestInformation(j, actor)
    <3>1. /\ Decide(j, "WAITING_INFORMATION", actor, "REQUEST_INFORMATION")
          /\ "WAITING_INFORMATION" \in ReviewStatus
      BY <2>7 DEF RequestInformation, ReviewStatus
    <3> QED
      BY <1>5, <2>1, <2>3, <3>1
  <2> QED
    BY <1>6, <2>5, <2>6, <2>7
<1> QED
  BY <1>1, <1>2, <1>3, <1>4, <1>6
  DEF Next, vars, RegisterCommission, TransitionCommission, ReconcileUnmatched,
      ReconcileAmbiguous, ReconcileForReview, AutoReconcile, AutoReconcileFails

\* The service implements SettlementCases: a settlement is taken up once, gets
\* one outcome, is decided by a person at most once and only where the policy
\* could not decide, and each outcome to be told is announced with it.
THEOREM Refinement == Spec => EachSettlementIsOneCase
<1>1. Init => Cases!Init
  <2> SUFFICES ASSUME Init
               PROVE  Cases!Init
    OBVIOUS
  <2>1. \A k \in InboxKeys : Outcome(k) = "NEW" /\ ~Announced(k)
    BY DEF Init, Outcome, Announced
  <2> QED
    BY <2>1 DEF Cases!Init
<1>2. Inv /\ Inv' /\ [Next]_vars => [Cases!Next]_(Cases!caseVars)
  <2> SUFFICES ASSUME Inv, Inv', [Next]_vars
               PROVE  [Cases!Next]_(Cases!caseVars)
    OBVIOUS
  <2>1. /\ AnnouncedOf  = {k \in InboxKeys : OutcomeOf[k] \in ToldOutcomes}
        /\ AnnouncedOf' = {k \in InboxKeys : OutcomeOf'[k] \in ToldOutcomes}
    <3>1. (Inv => AnnouncedOf = {k \in InboxKeys : OutcomeOf[k] \in ToldOutcomes})'
      BY AnnouncedIsTold, PTL
    <3> QED
      BY <3>1, AnnouncedIsTold
  <2>2. OutcomeStep
    BY NextOutcome
  <2>3. CASE OutcomeOf' = OutcomeOf
    BY <2>1, <2>3 DEF Cases!caseVars, OutcomeOf, AnnouncedOf
  <2>4. ASSUME NEW k \in InboxKeys, NEW o \in {"UNMATCHED", "OPEN", "SETTLED"},
               OutcomeOf[k] = "NEW", OutcomeOf' = [OutcomeOf EXCEPT ![k] = o]
        PROVE  Cases!Next
    <3>1. CASE o = "SETTLED"
      <4>1. AnnouncedOf' = AnnouncedOf \cup {k}
        BY <2>1, <2>4, <3>1 DEF ToldOutcomes, OutcomeOf
      <4>2. Cases!Settle(k)
        BY <2>4, <3>1, <4>1 DEF Cases!Settle, OutcomeOf, AnnouncedOf
      <4> QED
        BY <4>2 DEF Cases!Next
    <3>2. CASE o # "SETTLED"
      <4>1. AnnouncedOf' = AnnouncedOf
        BY <2>1, <2>4, <3>2 DEF ToldOutcomes, OutcomeOf
      <4>2. Cases!Shelve(k, o)
        BY <2>4, <3>2, <4>1 DEF Cases!Shelve, OutcomeOf, AnnouncedOf
      <4> QED
        BY <4>2 DEF Cases!Next, Cases!Outcomes
    <3> QED
      BY <3>1, <3>2
  <2>5. ASSUME NEW k \in InboxKeys, NEW o \in {"ACCEPTED", "REJECTED", "WAITING_INFORMATION"},
               OutcomeOf[k] = "OPEN", OutcomeOf' = [OutcomeOf EXCEPT ![k] = o]
        PROVE  Cases!Next
    <3>1. AnnouncedOf' = AnnouncedOf \cup {k}
      BY <2>1, <2>5 DEF ToldOutcomes, OutcomeOf
    <3>2. Cases!Decide(k, o)
      BY <2>5, <3>1 DEF Cases!Decide, Cases!Decisions, OutcomeOf, AnnouncedOf
    <3> QED
      BY <3>2 DEF Cases!Next, Cases!Outcomes, Cases!Decisions
  <2> QED
    BY <2>2, <2>3, <2>4, <2>5 DEF OutcomeStep
<1>3. Spec => []Inv
  BY TypeCorrect, CaseFilesAlwaysAgree, OutboxAlwaysTells, PTL DEF Inv
<1> QED
  BY <1>1, <1>2, <1>3, PTL DEF Spec, EachSettlementIsOneCase, Cases!Spec

=============================================================================
