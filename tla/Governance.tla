------------------------------ MODULE Governance ------------------------------
(***************************************************************************)
(* The credit marketplace and the governance of its matches: tenants       *)
(* register, demands are matched with funding products, the risk of a      *)
(* demand is assessed, and a match is released to contact by a human       *)
(* review or by an agent who finds the demand's latest assessment          *)
(* approved.                                                               *)
(*                                                                         *)
(* A handler reads and checks in one READ COMMITTED transaction and writes *)
(* at its end; it locks no row while it decides.  Abort is any error.      *)
(* Who calls is modelled where the answer depends on it: what an internal  *)
(* agent may do for anybody has no caller.                                 *)
(***************************************************************************)
EXTENDS CreditPolicy, Sequences

CONSTANTS
    Handlers,         \* request handlers that run at the same time
    Demands,          \* bound: the credit requests that may be created
    Offers,           \* bound: the funding products that may be listed
    Registrations,    \* bound: the <<kind, tenant>> that may register
    Dossiers,         \* bound: what is declared to the risk policy
    AgentMoves,       \* bound: the statuses internal agents give to matches
    FunderMoves,      \* bound: the statuses funders give to them
    Decisions,        \* bound: the decisions reviewers take
    MaxAssessments,   \* bound: assessments
    MaxTrail,         \* bound: entries in the trail of a match
    MaxVersion        \* bound: version of a credit request

Statuses == {"SUGGESTED", "AGENT_REVIEW", "APPROVED_TO_CONTACT", "SENT", "INTERESTED",
             "DILIGENCE", "NEGOTIATION", "CONVERTED", "DECLINED", "EXPIRED", "BLOCKED"}

\* Mutant: the decision is written as the status.
OutcomeIsDecision == [d \in {"APPROVE_CONTACT", "REQUEST_INFORMATION", "BLOCK", "REJECT"} |-> d]

\* The status a review gives its match, per decision.
Outcome == [APPROVE_CONTACT |-> "APPROVED_TO_CONTACT", REQUEST_INFORMATION |-> "AGENT_REVIEW",
            BLOCK |-> "BLOCKED", REJECT |-> "DECLINED"]

Reviewable == {"SUGGESTED", "AGENT_REVIEW", "INTERESTED", "DILIGENCE", "NEGOTIATION"}

Pairs == Demands \X Offers
AssessmentIds == 1..MaxAssessments
NoAssessment == 0

ASSUME GovernanceAssumption ==
    /\ AgentMoves \subseteq Statuses \ {"SUGGESTED"} /\ FunderMoves \subseteq Statuses
    /\ Decisions \subseteq DOMAIN Outcome
    /\ \A r \in Registrations : r = <<r[1], r[2]>>
    /\ MaxAssessments \in Nat /\ MaxTrail \in Nat /\ MaxVersion \in Nat

VARIABLES
    profiles,      \* registered <<kind, tenant>>
    listed,        \* the funding products created so far
    credit,        \* per demand, the version of its credit request; 0: none yet
    status,        \* per pair, the status of its match; "none": no match
    eligible,      \* the pairs whose match is eligible
    assessments,   \* risk assessments, oldest first
    trail,         \* per pair, the events and reviews of its match
    req,           \* per handler, the request it is in the middle of
    serial         \* no two requests overlap

vars == <<profiles, listed, credit, status, eligible, assessments, trail, req, serial>>
market == <<profiles, listed, credit>>

Created(d) == credit[d] > 0

Entry(by, outcome, a) == [by |-> by, status |-> outcome, assessment |-> a]
Suggestion == Entry("matching", "SUGGESTED", NoAssessment)

\* Mutant: the oldest assessment is taken.
LatestIsFirst(d) ==
    LET of == {a \in DOMAIN assessments : assessments[a].demand = d}
    IN  IF of = {} THEN NoAssessment ELSE CHOOSE a \in of : \A b \in of : a <= b

\* The assessment of d with the latest created_at.
Latest(d) ==
    LET of == {a \in DOMAIN assessments : assessments[a].demand = d}
    IN  IF of = {} THEN NoAssessment ELSE CHOOSE a \in of : \A b \in of : b <= a

\* No hard flags, and neither BLOCKED nor INFORMATION_REQUIRED.
Clear(a) ==
    /\ a # NoAssessment
    /\ RiskDecision(assessments[a].dossier) \notin {"BLOCKED", "INFORMATION_REQUIRED"}

Reviewed(m) == \E i \in DOMAIN trail[m] : trail[m][i].by = "review"

-----------------------------------------------------------------------------
(* Handlers *)

Idle == [op |-> "idle"]

Begin(h, request) ==
    /\ req[h] = Idle
    /\ serial => \A g \in Handlers : req[g] = Idle
    /\ req' = [req EXCEPT ![h] = request]

End(h) == req' = [req EXCEPT ![h] = Idle]

Abort(h) ==
    /\ req[h] # Idle
    /\ End(h)
    /\ UNCHANGED <<market, status, eligible, assessments, trail, serial>>

Init ==
    /\ profiles = {} /\ listed = {}
    /\ credit = [d \in Demands |-> 0]
    /\ status = [m \in Pairs |-> "none"]
    /\ eligible = {}
    /\ assessments = <<>>
    /\ trail = [m \in Pairs |-> <<>>]
    /\ req = [h \in Handlers |-> Idle]
    /\ serial \in BOOLEAN

-----------------------------------------------------------------------------
(* Registration: one insert each, behind a unique key where there is one. *)

\* create_borrower_profile, create_funding_provider, create_partner_profile
Register(kind, t) ==
    /\ <<kind, t>> \notin profiles
    /\ profiles' = profiles \cup {<<kind, t>>}
    /\ UNCHANGED <<listed, credit, status, eligible, assessments, trail, req, serial>>

\* create_funding_product
ListProduct(p) ==
    /\ p \notin listed
    /\ <<"FUNDER", p.provider>> \in profiles
    /\ p.minTicket <= p.maxTicket /\ p.minTerm <= p.maxTerm
    /\ listed' = listed \cup {p}
    /\ UNCHANGED <<profiles, credit, status, eligible, assessments, trail, req, serial>>

\* create_credit_request: an internal agent may attribute any registered partner.
CreateCreditRequest(d) ==
    /\ ~Created(d)
    /\ <<"BORROWER", d.owner>> \in profiles
    /\ d.partner # NotGiven => <<"PARTNER", d.partner>> \in profiles
    /\ credit' = [credit EXCEPT ![d] = 1]
    /\ UNCHANGED <<profiles, listed, status, eligible, assessments, trail, req, serial>>

-----------------------------------------------------------------------------
(* Matching *)

\* Mutant: consent is not looked at.
MatchAnyway(h, d) ==
    /\ Created(d)
    /\ Begin(h, [op |-> "match", demand |-> d, version |-> credit[d],
                 products |-> {p \in listed : p.status = "ACTIVE"}])
    /\ UNCHANGED <<market, status, eligible, assessments, trail, serial>>

BeginMatching(h, d) ==
    /\ Created(d)
    /\ d.consent = "GRANTED"
    /\ Begin(h, [op |-> "match", demand |-> d, version |-> credit[d],
                 products |-> {p \in listed : p.status = "ACTIVE"}])
    /\ UNCHANGED <<market, status, eligible, assessments, trail, serial>>

\* Mutant: a match that is scored again is suggested again.
SuggestAgain(h) ==
    /\ req[h].op = "match"
    /\ LET d == req[h].demand
           found == {<<d, p>> : p \in req[h].products}
           new == {m \in found : status[m] = "none"}
       IN  /\ status' = [m \in Pairs |-> IF m \in found THEN "SUGGESTED" ELSE status[m]]
           /\ trail' = [m \in Pairs |-> IF m \in new THEN Append(trail[m], Suggestion)
                                        ELSE trail[m]]
           /\ eligible' = (eligible \ found) \cup {m \in found : Eligible(m[1], m[2])}
           /\ req[h].version < MaxVersion
           /\ credit' = [credit EXCEPT ![d] = req[h].version + 1]
    /\ End(h)
    /\ UNCHANGED <<profiles, listed, assessments, serial>>

\* run_matching: new matches are suggested, known ones only scored again; a
\* match inserted by another run since it was looked for is an Abort.
CommitMatching(h) ==
    /\ req[h].op = "match"
    /\ LET d == req[h].demand
           found == {<<d, p>> : p \in req[h].products}
           new == {m \in found : status[m] = "none"}
       IN  /\ status' = [m \in Pairs |-> IF m \in new THEN "SUGGESTED" ELSE status[m]]
           /\ trail' = [m \in Pairs |-> IF m \in new THEN Append(trail[m], Suggestion)
                                        ELSE trail[m]]
           /\ eligible' = (eligible \ found) \cup {m \in found : Eligible(m[1], m[2])}
           /\ req[h].version < MaxVersion
           /\ credit' = [credit EXCEPT ![d] = req[h].version + 1]
    /\ End(h)
    /\ UNCHANGED <<profiles, listed, assessments, serial>>

\* An attribute set to the value that was read is not part of the UPDATE.
Move(m, was, s) ==
    status' = IF s = was THEN status ELSE [status EXCEPT ![m] = s]

-----------------------------------------------------------------------------
(* Status updates *)

\* Mutant: nobody looks for the human decision.
AgentFreely(h, m, s) ==
    /\ status[m] # "none"
    /\ s = "APPROVED_TO_CONTACT" => Latest(m[1]) # NoAssessment /\ Clear(Latest(m[1]))
    /\ Len(trail[m]) < MaxTrail
    /\ Begin(h, [op |-> "move", by |-> "agent", match |-> m, was |-> status[m], status |-> s])
    /\ UNCHANGED <<market, status, eligible, assessments, trail, serial>>

\* update_match_status of an internal agent.
BeginAgentMove(h, m, s) ==
    /\ status[m] # "none"
    /\ s = "APPROVED_TO_CONTACT" =>
          /\ Clear(Latest(m[1]))
          /\ assessments[Latest(m[1])].human = "APPROVED"
    /\ Len(trail[m]) < MaxTrail
    /\ Begin(h, [op |-> "move", by |-> "agent", match |-> m, was |-> status[m], status |-> s])
    /\ UNCHANGED <<market, status, eligible, assessments, trail, serial>>

\* update_match_status of the funder, in any status of the match.
BeginFunderMove(h, m, s) ==
    /\ status[m] # "none"
    /\ s \in {"INTERESTED", "DECLINED"}
    /\ Len(trail[m]) < MaxTrail
    /\ Begin(h, [op |-> "move", by |-> "funder", match |-> m, was |-> status[m], status |-> s])
    /\ UNCHANGED <<market, status, eligible, assessments, trail, serial>>

CommitMove(h) ==
    /\ req[h].op = "move"
    /\ LET m == req[h].match
       IN  /\ Move(m, req[h].was, req[h].status)
           /\ trail' = [trail EXCEPT ![m] = Append(@, Entry(req[h].by, req[h].status, NoAssessment))]
    /\ End(h)
    /\ UNCHANGED <<market, eligible, assessments, serial>>

-----------------------------------------------------------------------------
(* Assessments and reviews *)

\* create_risk_assessment; created_at follows the order of the commits.
Assess(d, x) ==
    /\ Created(d)
    /\ serial => \A h \in Handlers : req[h] = Idle
    /\ Len(assessments) < MaxAssessments
    /\ assessments' = Append(assessments, [demand |-> d, dossier |-> x, human |-> "PENDING"])
    /\ UNCHANGED <<market, status, eligible, trail, req, serial>>

\* Matches released before there were reviews may still be reviewed.
CanBeReleased(m) ==
    \/ status[m] \in Reviewable
    \/ status[m] = "APPROVED_TO_CONTACT" /\ ~Reviewed(m)

Review(m, decision, cited, a) ==
    [op |-> "review", match |-> m, was |-> status[m], status |-> Outcome[decision],
     cited |-> cited, assessment |-> a]

\* Mutant: any assessment will do.
ReleaseUnclear(h, m, cited) ==
    LET a == IF cited # NoAssessment THEN cited ELSE Latest(m[1])
    IN  /\ CanBeReleased(m)
        /\ a # NoAssessment
        /\ Len(trail[m]) < MaxTrail
        /\ Begin(h, Review(m, "APPROVE_CONTACT", cited, a))
        /\ UNCHANGED <<market, status, eligible, assessments, trail, serial>>

\* create_governance_review with APPROVE_CONTACT.  The assessment the reviewer
\* cites is taken whatever it assesses.
BeginRelease(h, m, cited) ==
    LET a == IF cited # NoAssessment THEN cited ELSE Latest(m[1])
    IN  /\ CanBeReleased(m)
        /\ Clear(a)
        /\ Len(trail[m]) < MaxTrail
        /\ Begin(h, Review(m, "APPROVE_CONTACT", cited, a))
        /\ UNCHANGED <<market, status, eligible, assessments, trail, serial>>

\* create_governance_review with any other decision, in any status; the
\* assessment such a review may name is not looked at and is left out.
BeginRefusal(h, m, decision) ==
    /\ status[m] # "none"
    /\ decision # "APPROVE_CONTACT"
    /\ Len(trail[m]) < MaxTrail
    /\ Begin(h, Review(m, decision, NoAssessment, NoAssessment))
    /\ UNCHANGED <<market, status, eligible, assessments, trail, serial>>

\* Mutant: the human decision is written to the match only.
CommitHalfReview(h) ==
    /\ req[h].op = "review"
    /\ LET m == req[h].match
       IN  /\ Move(m, req[h].was, req[h].status)
           /\ trail' = [trail EXCEPT ![m] = Append(@, Entry("review", req[h].status, req[h].assessment))]
    /\ End(h)
    /\ UNCHANGED <<market, eligible, assessments, serial>>

CommitReview(h) ==
    /\ req[h].op = "review"
    /\ LET m == req[h].match
           a == req[h].assessment
       IN  /\ Move(m, req[h].was, req[h].status)
           /\ assessments' = IF a = NoAssessment THEN assessments
                             ELSE [assessments EXCEPT ![a].human = "APPROVED"]
           /\ trail' = [trail EXCEPT ![m] = Append(@, Entry("review", req[h].status, a))]
    /\ End(h)
    /\ UNCHANGED <<market, eligible, serial>>

-----------------------------------------------------------------------------

Next ==
    \/ \E r \in Registrations : Register(r[1], r[2])
    \/ \E p \in Offers : ListProduct(p)
    \/ \E d \in Demands : CreateCreditRequest(d)
    \/ \E d \in Demands, x \in Dossiers : Assess(d, x)
    \/ \E h \in Handlers :
          \/ Abort(h)
          \/ \E d \in Demands : BeginMatching(h, d)
          \/ CommitMatching(h)
          \/ \E m \in Pairs, s \in AgentMoves : BeginAgentMove(h, m, s)
          \/ \E m \in Pairs, s \in FunderMoves : BeginFunderMove(h, m, s)
          \/ CommitMove(h)
          \/ \E m \in Pairs, cited \in {NoAssessment} \cup DOMAIN assessments :
                BeginRelease(h, m, cited)
          \/ \E m \in Pairs, decision \in Decisions : BeginRefusal(h, m, decision)
          \/ CommitReview(h)

Spec == Init /\ [][Next]_vars

-----------------------------------------------------------------------------
(* Properties *)

Requests ==
    {Idle}
    \cup [op: {"match"}, demand: Demands, version: Nat, products: SUBSET Offers]
    \cup [op: {"move"}, by: {"agent", "funder"}, match: Pairs, was: Statuses, status: Statuses]
    \cup [op: {"review"}, match: Pairs, was: Statuses, status: Statuses,
          cited: Nat, assessment: Nat]

Entries == [by: {"matching", "agent", "funder", "review"}, status: Statuses, assessment: Nat]

\* Type invariant.
TypeOK ==
    /\ profiles \subseteq Registrations
    /\ listed \subseteq Offers
    /\ credit \in [Demands -> Nat]
    /\ status \in [Pairs -> Statuses \cup {"none"}]
    /\ eligible \subseteq Pairs
    /\ assessments \in Seq([demand: Demands, dossier: Dossiers, human: {"PENDING", "APPROVED"}])
    /\ trail \in [Pairs -> Seq(Entries)]
    /\ req \in [Handlers -> Requests]
    /\ serial \in BOOLEAN

\* A match exists only for a consented request of a registered borrower and an
\* active product of a registered provider, and one that is called eligible
\* fits the product's type or its ticket: the marketplace matches nobody who
\* has not agreed to it (run_matching).
MatchesAreEntitled ==
    \A m \in Pairs : status[m] # "none" =>
        /\ m[1].consent = "GRANTED" /\ Created(m[1])
        /\ m[2] \in listed /\ m[2].status = "ACTIVE"
        /\ {<<"BORROWER", m[1].owner>>, <<"FUNDER", m[2].provider>>} \subseteq profiles
        /\ m \in eligible => Fit(m[1], m[2]).type \/ Fit(m[1], m[2]).ticket

\* Nothing speaks against a demand of which this is declared.
Sound(x) ==
    /\ x.consent = "GRANTED" /\ x.coherent
    /\ RequiredDocuments \subseteq x.documents
    /\ NotGiven \notin {Coverage(x), Leverage(x), LoanToValue(x)}
    /\ x.confidence # "MISSING"

ReleasedOn(m, a) ==
    \E i \in DOMAIN trail[m] : trail[m][i] = Entry("review", "APPROVED_TO_CONTACT", a)

\* Contact is released only on a sound assessment that a persisted review
\* approved, in a review of this match or of another one of the same request,
\* however reviews, agents, funders and new assessments overlap
\* (update_match_status, create_governance_review).
ReleasesAreBacked ==
    \A m \in Pairs : status[m] = "APPROVED_TO_CONTACT" =>
        \E a \in DOMAIN assessments :
            /\ Sound(assessments[a].dossier)
            /\ assessments[a].human = "APPROVED"
            /\ \E n \in Pairs : ReleasedOn(n, a) /\ (n = m \/ assessments[a].demand = m[1])

\* The trail of a match explains its status: no status without an event or a
\* review that says so, and the last one's when no requests overlap.
TrailExplainsStatus ==
    \A m \in Pairs : status[m] # "none" =>
        /\ \E i \in DOMAIN trail[m] : trail[m][i].status = status[m]
        /\ serial => trail[m][Len(trail[m])].status = status[m]

IsLatest(a, d) ==
    /\ assessments[a].demand = d
    /\ \A b \in DOMAIN assessments : assessments[b].demand = d => b <= a

\* h ends, without overlap, a request that releases its match and cites no
\* assessment.
ReleasesUncited(h) ==
    /\ serial /\ req[h].op \in {"move", "review"} /\ req'[h] = Idle
    /\ status[req[h].match] # "APPROVED_TO_CONTACT"
    /\ status'[req[h].match] = "APPROVED_TO_CONTACT"
    /\ req[h].op = "review" => req[h].cited = NoAssessment

\* A release that cites no assessment happens only while the latest assessment
\* of its request is sound: older ones do not count once a newer one exists.
\* Requests that overlap with an assessment are exempt
\* (update_match_status, create_governance_review).
ReleasesAreCurrent ==
    [][\A h \in Handlers : ReleasesUncited(h) =>
          \A a \in DOMAIN assessments :
              IsLatest(a, req[h].match[1]) => Sound(assessments[a].dossier)]_vars

\* README.md: contact is released only with an assessment without gates or
\* gaps.  Refuted: a review may cite the assessment of another request.
ReleasesAreAssessed ==
    \A m \in Pairs : status[m] = "APPROVED_TO_CONTACT" =>
        \E a \in DOMAIN assessments : assessments[a].demand = m[1] /\ Sound(assessments[a].dossier)

=============================================================================
