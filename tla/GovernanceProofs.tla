--------------------------- MODULE GovernanceProofs ---------------------------
(***************************************************************************)
(* Proofs about Governance: its type invariant, that contact is released   *)
(* only on a sound and approved assessment however requests overlap, that  *)
(* the trail of a match explains its status, that a serial release goes by *)
(* the latest assessment, and that only what is entitled is matched.       *)
(***************************************************************************)
EXTENDS Governance, TLAPS

-----------------------------------------------------------------------------
(* The inductive invariant.                                                *)

\* The assessments of d are none, or one of them is the latest.
HasLatest(d) ==
    LET of == {a \in DOMAIN assessments : assessments[a].demand = d}
    IN  of = {} \/ \E a \in of : \A b \in of : b <= a

Typed == TypeOK /\ \A d \in Demands : HasLatest(d)

\* The demand d has an assessment that is sound and that a review approved.
Approved(d) ==
    \E a \in DOMAIN assessments :
        /\ assessments[a].demand = d
        /\ Sound(assessments[a].dossier)
        /\ assessments[a].human = "APPROVED"

\* An approved assessment is sound, and a review in some trail says so.
ApprovalsAreReviews ==
    \A a \in DOMAIN assessments : assessments[a].human = "APPROVED" =>
        /\ Sound(assessments[a].dossier)
        /\ \E n \in Pairs : ReleasedOn(n, a)

\* What a request in flight will write was justified when it was read, and
\* what is never undone still justifies it.
Justified(q) ==
    /\ q.op = "move" /\ q.status = "APPROVED_TO_CONTACT" => Approved(q.match[1])
    /\ q.op = "review" =>
          /\ q.status = "APPROVED_TO_CONTACT" <=> q.assessment # NoAssessment
          /\ q.assessment # NoAssessment =>
                /\ q.assessment \in DOMAIN assessments
                /\ Sound(assessments[q.assessment].dossier)

LatestIsSound(d) == \A a \in DOMAIN assessments : IsLatest(a, d) => Sound(assessments[a].dossier)

\* Without overlap what a request has read is still so.
UpToDate(q) ==
    /\ q.op \in {"move", "review"} => q.was = status[q.match]
    /\ (/\ q.op \in {"move", "review"} /\ q.status = "APPROVED_TO_CONTACT"
        /\ q.op = "review" => q.cited = NoAssessment) => LatestIsSound(q.match[1])

SerialRequests ==
    serial =>
        /\ \A g, h \in Handlers : req[g] # Idle /\ req[h] # Idle => g = h
        /\ \A h \in Handlers : UpToDate(req[h])

IInv ==
    /\ Typed
    /\ ApprovalsAreReviews
    /\ \A h \in Handlers : Justified(req[h])
    /\ SerialRequests
    /\ ReleasesAreBacked
    /\ TrailExplainsStatus

-----------------------------------------------------------------------------
(* Facts about the operators the model is built from.                      *)

Assessments == [demand: Demands, dossier: Dossiers, human: {"PENDING", "APPROVED"}]

\* A policy decision that stops nothing means that nothing speaks against the
\* demand: the gates and the gaps are the conditions of Sound.
LEMMA ClearIsSound ==
    ASSUME NEW a, Clear(a)
    PROVE  a # NoAssessment /\ Sound(assessments[a].dossier)
<1> DEFINE x == assessments[a].dossier
<1>1. a # NoAssessment /\ RiskDecision(x) \notin {"BLOCKED", "INFORMATION_REQUIRED"}
  BY DEF Clear
<1> HIDE DEF x
<1>2. ~(x.consent # "GRANTED" \/ ~x.coherent)
  BY <1>1 DEF RiskDecision
<1>3. ~Missing(x)
  BY <1>1, <1>2 DEF RiskDecision
<1>4. Sound(x)
  BY <1>2, <1>3 DEF Missing, Sound
<1> QED
  BY <1>1, <1>4 DEF x

\* The assessment the code takes for the latest is the latest.
LEMMA LatestFacts ==
    ASSUME Typed, NEW d \in Demands, Latest(d) # NoAssessment
    PROVE  /\ Latest(d) \in DOMAIN assessments
           /\ IsLatest(Latest(d), d)
           /\ \A a \in DOMAIN assessments : IsLatest(a, d) => a = Latest(d)
<1> DEFINE of == {a \in DOMAIN assessments : assessments[a].demand = d}
<1>1. of # {} /\ Latest(d) = CHOOSE a \in of : \A b \in of : b <= a
  BY DEF Latest
<1>2. \E a \in of : \A b \in of : b <= a
  BY <1>1 DEF Typed, HasLatest
<1>3. Latest(d) \in of /\ \A b \in of : b <= Latest(d)
  BY <1>1, <1>2
<1>4. \A a \in DOMAIN assessments : a \in Nat
  BY DEF Typed, TypeOK
<1> QED
  BY <1>3, <1>4 DEF IsLatest

LEMMA LatestType ==
    ASSUME Typed, NEW d \in Demands
    PROVE  Latest(d) \in Nat
<1>1. CASE Latest(d) = NoAssessment
  BY <1>1 DEF NoAssessment
<1>2. CASE Latest(d) # NoAssessment
  BY <1>2, LatestFacts DEF Typed, TypeOK
<1> QED
  BY <1>1, <1>2

\* The outcomes of reviews are statuses, and only one of them releases.
LEMMA OutcomeFacts ==
    ASSUME NEW decision \in Decisions
    PROVE  /\ Outcome[decision] \in Statuses
           /\ Outcome[decision] = "APPROVED_TO_CONTACT" <=> decision = "APPROVE_CONTACT"
<1>1. decision \in {"APPROVE_CONTACT", "REQUEST_INFORMATION", "BLOCK", "REJECT"}
  BY GovernanceAssumption DEF Outcome
<1> QED
  BY <1>1 DEF Outcome, Statuses

LEMMA PairFacts ==
    ASSUME NEW m \in Pairs
    PROVE  m[1] \in Demands /\ m[2] \in Offers /\ m = <<m[1], m[2]>>
BY DEF Pairs

\* What a request in flight carries.
LEMMA RequestFields ==
    ASSUME NEW q \in Requests
    PROVE  /\ q.op \in {"idle", "match", "move", "review"}
           /\ q.op = "idle" => q = Idle
           /\ q.op = "match" =>
                 /\ q.demand \in Demands /\ q.version \in Nat /\ q.products \in SUBSET Offers
           /\ q.op = "move" =>
                 /\ q.by \in {"agent", "funder"} /\ q.match \in Pairs
                 /\ q.was \in Statuses /\ q.status \in Statuses
           /\ q.op = "review" =>
                 /\ q.match \in Pairs /\ q.was \in Statuses /\ q.status \in Statuses
                 /\ q.cited \in Nat /\ q.assessment \in Nat
BY DEF Requests, Idle

\* A sequence of assessments after an update of one, or an append.
LEMMA ApproveFacts ==
    ASSUME NEW s \in Seq(Assessments), NEW a
    PROVE  LET t == [s EXCEPT ![a].human = "APPROVED"]
           IN  /\ t \in Seq(Assessments)
               /\ DOMAIN t = DOMAIN s
               /\ \A b \in DOMAIN s :
                     /\ t[b].demand = s[b].demand /\ t[b].dossier = s[b].dossier
                     /\ t[b].human = IF b = a THEN "APPROVED" ELSE s[b].human
<1> DEFINE t == [s EXCEPT ![a].human = "APPROVED"]
<1>1. PICK n \in Nat : s \in [1..n -> Assessments] /\ DOMAIN s = 1..n
  OBVIOUS
<1>2. \A b \in DOMAIN s : s[b] \in Assessments
  BY <1>1
<1>3. /\ DOMAIN t = DOMAIN s
      /\ \A b \in DOMAIN s : t[b] = IF b = a THEN [s[b] EXCEPT !.human = "APPROVED"] ELSE s[b]
  OBVIOUS
<1>4. \A b \in DOMAIN s :
         /\ t[b] \in Assessments
         /\ t[b].demand = s[b].demand /\ t[b].dossier = s[b].dossier
         /\ t[b].human = IF b = a THEN "APPROVED" ELSE s[b].human
  BY <1>2, <1>3 DEF Assessments
<1>5. t \in [1..n -> Assessments]
  BY <1>1, <1>3, <1>4
<1> QED
  BY <1>3, <1>4, <1>5

LEMMA AppendFacts ==
    ASSUME NEW S, NEW s \in Seq(S), NEW e \in S
    PROVE  /\ Append(s, e) \in Seq(S)
           /\ Len(s) \in Nat
           /\ Len(Append(s, e)) = Len(s) + 1
           /\ DOMAIN s = 1..Len(s) /\ DOMAIN Append(s, e) = 1..(Len(s) + 1)
           /\ \A i \in DOMAIN s : Append(s, e)[i] = s[i]
           /\ Append(s, e)[Len(s) + 1] = e
OBVIOUS

-----------------------------------------------------------------------------
(* Every step is of one of a few shapes.                                   *)

\* A transaction that only reads: its request is what it will write.
Reads(h, q) ==
    /\ q \in Requests /\ q # Idle
    /\ Begin(h, q)
    /\ UNCHANGED <<market, status, eligible, assessments, trail, serial>>

\* What no step undoes: assessments are added and approved, trails grow.
Grows ==
    /\ serial' = serial
    /\ DOMAIN assessments \subseteq DOMAIN assessments'
    /\ \A a \in DOMAIN assessments :
          /\ assessments'[a].demand = assessments[a].demand
          /\ assessments'[a].dossier = assessments[a].dossier
          /\ assessments[a].human = "APPROVED" => assessments'[a].human = "APPROVED"
    /\ \A m \in Pairs : \A i \in DOMAIN trail[m] :
          i \in DOMAIN trail'[m] /\ trail'[m][i] = trail[m][i]

LEMMA UnchangedGrows ==
    ASSUME UNCHANGED <<assessments, trail, serial>>
    PROVE  Grows
BY DEF Grows

\* The requests that begin are requests, and what they carry is justified.
LEMMA MatchingReads ==
    ASSUME Typed, NEW h \in Handlers, NEW d \in Demands, BeginMatching(h, d)
    PROVE  \E q \in Requests : Reads(h, q) /\ Justified(q) /\ (serial => UpToDate(q))
<1> DEFINE q == [op |-> "match", demand |-> d, version |-> credit[d],
                 products |-> {p \in listed : p.status = "ACTIVE"}]
<1>1. q \in Requests /\ q.op = "match"
  BY DEF Typed, TypeOK, Requests
<1>2. Begin(h, q) /\ UNCHANGED <<market, status, eligible, assessments, trail, serial>>
  BY DEF BeginMatching
<1> HIDE DEF q
<1> QED
  BY <1>1, <1>2 DEF Reads, Justified, UpToDate, Idle

LEMMA AgentMoveReads ==
    ASSUME Typed, NEW h \in Handlers, NEW m \in Pairs, NEW s \in AgentMoves,
           BeginAgentMove(h, m, s)
    PROVE  \E q \in Requests : Reads(h, q) /\ Justified(q) /\ (serial => UpToDate(q))
<1> DEFINE q == [op |-> "move", by |-> "agent", match |-> m, was |-> status[m], status |-> s]
<1>1. s \in Statuses /\ status[m] \in Statuses
  BY GovernanceAssumption DEF Typed, TypeOK, BeginAgentMove
<1>2. q \in Requests /\ q.op = "move" /\ q.match = m /\ q.was = status[m] /\ q.status = s
  BY <1>1 DEF Requests
<1>3. Begin(h, q) /\ UNCHANGED <<market, status, eligible, assessments, trail, serial>>
  BY DEF BeginAgentMove
<1>4. ASSUME s = "APPROVED_TO_CONTACT"
      PROVE  Approved(m[1]) /\ LatestIsSound(m[1])
  <2>1. Clear(Latest(m[1])) /\ assessments[Latest(m[1])].human = "APPROVED"
    BY <1>4 DEF BeginAgentMove
  <2> QED
    BY <2>1, ClearIsSound, LatestFacts, PairFacts DEF Approved, LatestIsSound, IsLatest
<1> HIDE DEF q
<1> QED
  BY <1>2, <1>3, <1>4 DEF Reads, Justified, UpToDate, Idle

LEMMA FunderMoveReads ==
    ASSUME Typed, NEW h \in Handlers, NEW m \in Pairs, NEW s \in FunderMoves,
           BeginFunderMove(h, m, s)
    PROVE  \E q \in Requests : Reads(h, q) /\ Justified(q) /\ (serial => UpToDate(q))
<1> DEFINE q == [op |-> "move", by |-> "funder", match |-> m, was |-> status[m], status |-> s]
<1>1. s \in Statuses /\ s # "APPROVED_TO_CONTACT" /\ status[m] \in Statuses
  BY GovernanceAssumption DEF Typed, TypeOK, BeginFunderMove
<1>2. q \in Requests /\ q.op = "move" /\ q.match = m /\ q.was = status[m] /\ q.status = s
  BY <1>1 DEF Requests
<1>3. Begin(h, q) /\ UNCHANGED <<market, status, eligible, assessments, trail, serial>>
  BY DEF BeginFunderMove
<1> HIDE DEF q
<1> QED
  BY <1>1, <1>2, <1>3 DEF Reads, Justified, UpToDate, Idle

LEMMA ReleaseReads ==
    ASSUME Typed, NEW h \in Handlers, NEW m \in Pairs,
           NEW cited \in {NoAssessment} \cup DOMAIN assessments, BeginRelease(h, m, cited)
    PROVE  \E q \in Requests : Reads(h, q) /\ Justified(q) /\ (serial => UpToDate(q))
<1> DEFINE a == IF cited # NoAssessment THEN cited ELSE Latest(m[1])
           q == Review(m, "APPROVE_CONTACT", cited, a)
<1>1. Clear(a)
  BY DEF BeginRelease
<1>2. a # NoAssessment /\ Sound(assessments[a].dossier)
  BY <1>1, ClearIsSound
<1>3. a \in DOMAIN assessments /\ a \in Nat /\ cited \in Nat
  BY <1>2, LatestFacts, PairFacts DEF Typed, TypeOK, NoAssessment
<1>4. cited = NoAssessment => LatestIsSound(m[1])
  BY <1>2, LatestFacts, PairFacts DEF LatestIsSound
<1>5. Begin(h, q) /\ UNCHANGED <<market, status, eligible, assessments, trail, serial>>
  BY DEF BeginRelease
<1>6. status[m] \in Statuses
  BY DEF BeginRelease, CanBeReleased, Reviewable, Statuses
<1> HIDE DEF a
<1>7. /\ q.op = "review" /\ q.match = m /\ q.was = status[m] /\ q.cited = cited
      /\ q.assessment = a /\ q.status = "APPROVED_TO_CONTACT"
  BY DEF Review, Outcome
<1>8. q \in Requests
  BY <1>3, <1>6 DEF Review, Outcome, Requests, Statuses
<1> HIDE DEF q
<1> QED
  BY <1>2, <1>3, <1>4, <1>5, <1>7, <1>8 DEF Reads, Justified, UpToDate, Idle

LEMMA RefusalReads ==
    ASSUME Typed, NEW h \in Handlers, NEW m \in Pairs, NEW decision \in Decisions,
           BeginRefusal(h, m, decision)
    PROVE  \E q \in Requests : Reads(h, q) /\ Justified(q) /\ (serial => UpToDate(q))
<1> DEFINE q == Review(m, decision, NoAssessment, NoAssessment)
<1>1. /\ Outcome[decision] \in Statuses /\ Outcome[decision] # "APPROVED_TO_CONTACT"
      /\ status[m] \in Statuses
  BY OutcomeFacts DEF Typed, TypeOK, BeginRefusal
<1>2. Begin(h, q) /\ UNCHANGED <<market, status, eligible, assessments, trail, serial>>
  BY DEF BeginRefusal
<1>3. /\ q.op = "review" /\ q.match = m /\ q.was = status[m]
      /\ q.assessment = NoAssessment /\ q.status = Outcome[decision]
  BY DEF Review
<1>4. q \in Requests
  BY <1>1 DEF Review, Requests, NoAssessment
<1> HIDE DEF q
<1> QED
  BY <1>1, <1>2, <1>3, <1>4 DEF Reads, Justified, UpToDate, Idle

\* A transaction that registers, lists or creates.
Enters ==
    /\ profiles' \subseteq Registrations /\ listed' \subseteq Offers
    /\ credit' \in [Demands -> Nat]
    /\ UNCHANGED <<status, eligible, assessments, trail, req, serial>>

LEMMA Entering ==
    ASSUME Typed,
           \/ \E r \in Registrations : Register(r[1], r[2])
           \/ \E p \in Offers : ListProduct(p)
           \/ \E d \in Demands : CreateCreditRequest(d)
    PROVE  Enters
<1>1. ASSUME NEW r \in Registrations, Register(r[1], r[2])
      PROVE  Enters
  <2>1. <<r[1], r[2]>> \in Registrations
    BY GovernanceAssumption
  <2> QED
    BY <1>1, <2>1 DEF Register, Enters, Typed, TypeOK
<1>2. ASSUME NEW p \in Offers, ListProduct(p)
      PROVE  Enters
  BY <1>2 DEF ListProduct, Enters, Typed, TypeOK
<1>3. ASSUME NEW d \in Demands, CreateCreditRequest(d)
      PROVE  Enters
  BY <1>3 DEF CreateCreditRequest, Enters, Typed, TypeOK
<1> QED
  BY <1>1, <1>2, <1>3

\* Next, by the shape of its steps.
LEMMA Shapes ==
    ASSUME Typed, Next
    PROVE  \/ Enters
           \/ \E d \in Demands, x \in Dossiers : Assess(d, x)
           \/ \E h \in Handlers, q \in Requests :
                 Reads(h, q) /\ Justified(q) /\ (serial => UpToDate(q))
           \/ \E h \in Handlers :
                 Abort(h) \/ CommitMatching(h) \/ CommitMove(h) \/ CommitReview(h)
<1> DEFINE Reading == \E h \in Handlers, q \in Requests :
                         Reads(h, q) /\ Justified(q) /\ (serial => UpToDate(q))
<1>1. ASSUME NEW h \in Handlers, NEW d \in Demands, BeginMatching(h, d)
      PROVE  Reading
  BY <1>1, MatchingReads
<1>2. ASSUME NEW h \in Handlers, NEW m \in Pairs, NEW s \in AgentMoves, BeginAgentMove(h, m, s)
      PROVE  Reading
  BY <1>2, AgentMoveReads
<1>3. ASSUME NEW h \in Handlers, NEW m \in Pairs, NEW s \in FunderMoves, BeginFunderMove(h, m, s)
      PROVE  Reading
  BY <1>3, FunderMoveReads
<1>4. ASSUME NEW h \in Handlers, NEW m \in Pairs,
             NEW cited \in {NoAssessment} \cup DOMAIN assessments, BeginRelease(h, m, cited)
      PROVE  Reading
  BY <1>4, ReleaseReads
<1>5. ASSUME NEW h \in Handlers, NEW m \in Pairs, NEW decision \in Decisions,
             BeginRefusal(h, m, decision)
      PROVE  Reading
  BY <1>5, RefusalReads
<1> HIDE DEF Reading
<1>6. \/ Enters
      \/ \E d \in Demands, x \in Dossiers : Assess(d, x)
      \/ Reading
      \/ \E h \in Handlers : Abort(h) \/ CommitMatching(h) \/ CommitMove(h) \/ CommitReview(h)
  BY <1>1, <1>2, <1>3, <1>4, <1>5, Entering DEF Next
<1> QED
  BY <1>6 DEF Reading

-----------------------------------------------------------------------------
(* The type invariant, and that nothing is undone.                         *)

LEMMA EndFacts ==
    ASSUME TypeOK, NEW h \in Handlers, End(h)
    PROVE  /\ req' \in [Handlers -> Requests]
           /\ req'[h] = Idle
           /\ \A g \in Handlers : g # h => req'[g] = req[g]
BY DEF TypeOK, End, Requests

\* The sequence of assessments alone decides which are the latest.
LEMMA LatestStays ==
    ASSUME \A d \in Demands : HasLatest(d),
           DOMAIN assessments' = DOMAIN assessments,
           \A a \in DOMAIN assessments : assessments'[a].demand = assessments[a].demand
    PROVE  \A d \in Demands : HasLatest(d)'
<1>1. ASSUME NEW d \in Demands
      PROVE  {a \in DOMAIN assessments' : assessments'[a].demand = d}
                = {a \in DOMAIN assessments : assessments[a].demand = d}
  OBVIOUS
<1> QED
  BY <1>1 DEF HasLatest

LEMMA EnterTyped ==
    ASSUME Typed, Enters
    PROVE  Typed' /\ Grows
<1>1. TypeOK' /\ Grows
  BY UnchangedGrows DEF Typed, TypeOK, Enters
<1>2. assessments' = assessments
  BY DEF Enters
<1> QED
  BY <1>1, <1>2, LatestStays DEF Typed

LEMMA ReadTyped ==
    ASSUME Typed, NEW h \in Handlers, NEW q \in Requests, Reads(h, q)
    PROVE  Typed' /\ Grows
<1>1. TypeOK' /\ Grows
  BY UnchangedGrows DEF Typed, TypeOK, Reads, Begin, market
<1>2. assessments' = assessments
  BY DEF Reads
<1> QED
  BY <1>1, <1>2, LatestStays DEF Typed

LEMMA AbortTyped ==
    ASSUME Typed, NEW h \in Handlers, Abort(h)
    PROVE  Typed' /\ Grows
<1>1. TypeOK' /\ Grows
  BY EndFacts, UnchangedGrows DEF Typed, TypeOK, Abort, market
<1>2. assessments' = assessments
  BY DEF Abort
<1> QED
  BY <1>1, <1>2, LatestStays DEF Typed

LEMMA AssessTyped ==
    ASSUME Typed, NEW d \in Demands, NEW x \in Dossiers, Assess(d, x)
    PROVE  Typed' /\ Grows
<1> DEFINE e == [demand |-> d, dossier |-> x, human |-> "PENDING"]
<1>1. e \in Assessments /\ assessments \in Seq(Assessments) /\ assessments' = Append(assessments, e)
  BY DEF Typed, TypeOK, Assessments, Assess
<1> DEFINE n == Len(assessments) + 1
<1>2. /\ assessments' \in Seq(Assessments) /\ n \in Nat \ {0}
      /\ DOMAIN assessments' = 1..n /\ DOMAIN assessments = 1..(n - 1)
      /\ \A a \in DOMAIN assessments : assessments'[a] = assessments[a]
      /\ assessments'[n] = e
  BY <1>1, AppendFacts
<1> HIDE DEF n
<1>3. TypeOK'
  BY <1>2 DEF Typed, TypeOK, Assess, Assessments, market
<1>4. Grows
  BY <1>2 DEF Grows, Assess
<1>5. ASSUME NEW c \in Demands
      PROVE  HasLatest(c)'
  <2> DEFINE of == {a \in DOMAIN assessments : assessments[a].demand = c}
             new == {a \in DOMAIN assessments' : assessments'[a].demand = c}
  <2>1. CASE c = d
    <3>1. n \in DOMAIN assessments' /\ assessments'[n].demand = c
      BY <1>2, <2>1
    <3>2. \A b \in DOMAIN assessments' : b <= n
      BY <1>2
    <3>3. n \in new /\ \A b \in new : b <= n
      BY <3>1, <3>2
    <3> QED
      BY <3>3 DEF HasLatest
  <2>2. CASE c # d
    <3>1. new = of
      BY <1>2, <2>2
    <3> QED
      BY <3>1 DEF Typed, HasLatest
  <2> QED
    BY <2>1, <2>2
<1> QED
  BY <1>3, <1>4, <1>5 DEF Typed

\* What is appended to one trail.
LEMMA TrailFacts ==
    ASSUME TypeOK, NEW m \in Pairs, NEW e \in Entries,
           trail' = [trail EXCEPT ![m] = Append(@, e)]
    PROVE  /\ trail' \in [Pairs -> Seq(Entries)]
           /\ \A n \in Pairs : \A i \in DOMAIN trail[n] :
                 i \in DOMAIN trail'[n] /\ trail'[n][i] = trail[n][i]
           /\ \A n \in Pairs : n # m => trail'[n] = trail[n]
           /\ Len(trail'[m]) \in DOMAIN trail'[m] /\ trail'[m][Len(trail'[m])] = e
<1>1. trail[m] \in Seq(Entries) /\ trail \in [Pairs -> Seq(Entries)]
  BY DEF TypeOK
<1>2. trail'[m] = Append(trail[m], e) /\ \A n \in Pairs : n # m => trail'[n] = trail[n]
  BY <1>1
<1>3. /\ trail'[m] \in Seq(Entries)
      /\ \A i \in DOMAIN trail[m] : i \in DOMAIN trail'[m] /\ trail'[m][i] = trail[m][i]
      /\ Len(trail'[m]) \in DOMAIN trail'[m] /\ trail'[m][Len(trail'[m])] = e
  BY <1>1, <1>2, AppendFacts
<1> QED
  BY <1>1, <1>2, <1>3

LEMMA MoveType ==
    ASSUME TypeOK, NEW m \in Pairs, NEW was \in Statuses, NEW s \in Statuses, Move(m, was, s)
    PROVE  /\ status' \in [Pairs -> Statuses \cup {"none"}]
           /\ \A n \in Pairs : n # m => status'[n] = status[n]
           /\ status'[m] = IF s = was THEN status[m] ELSE s
BY DEF TypeOK, Move

\* A request that moves a match, by its fields.
LEMMA MoveFacts ==
    ASSUME TypeOK, NEW h \in Handlers, CommitMove(h)
    PROVE  LET m == req[h].match
               e == Entry(req[h].by, req[h].status, NoAssessment)
           IN  /\ req[h] \in Requests /\ req[h].op = "move"
               /\ m \in Pairs /\ req[h].was \in Statuses /\ req[h].status \in Statuses
               /\ e \in Entries /\ e.status = req[h].status
               /\ Move(m, req[h].was, req[h].status)
               /\ trail' = [trail EXCEPT ![m] = Append(@, e)]
               /\ End(h) /\ UNCHANGED <<market, eligible, assessments, serial>>
<1>1. req[h] \in Requests /\ req[h].op = "move"
  BY DEF TypeOK, CommitMove
<1> QED
  BY <1>1, RequestFields DEF CommitMove, Entry, Entries, NoAssessment

LEMMA MoveTyped ==
    ASSUME Typed, NEW h \in Handlers, CommitMove(h)
    PROVE  Typed' /\ Grows
<1>0. TypeOK
  BY DEF Typed
<1>1. TypeOK'
  <2>1. /\ status' \in [Pairs -> Statuses \cup {"none"}]
        /\ trail' \in [Pairs -> Seq(Entries)]
        /\ req' \in [Handlers -> Requests]
    BY <1>0, MoveFacts, MoveType, TrailFacts, EndFacts
  <2>2. UNCHANGED <<market, eligible, assessments, serial>>
    BY <1>0, MoveFacts
  <2> QED
    BY <1>0, <2>1, <2>2 DEF TypeOK, market
<1>2. Grows
  BY <1>0, MoveFacts, TrailFacts DEF Grows
<1>3. assessments' = assessments
  BY DEF CommitMove
<1> QED
  BY <1>1, <1>2, <1>3, LatestStays DEF Typed

\* A request that reviews a match, by its fields.
LEMMA ReviewFacts ==
    ASSUME TypeOK, NEW h \in Handlers, CommitReview(h)
    PROVE  LET m == req[h].match
               a == req[h].assessment
               e == Entry("review", req[h].status, a)
           IN  /\ req[h] \in Requests /\ req[h].op = "review"
               /\ m \in Pairs /\ req[h].was \in Statuses /\ req[h].status \in Statuses
               /\ a \in Nat /\ e \in Entries /\ e.status = req[h].status
               /\ Move(m, req[h].was, req[h].status)
               /\ trail' = [trail EXCEPT ![m] = Append(@, e)]
               /\ End(h) /\ UNCHANGED <<market, eligible, serial>>
               /\ assessments' \in Seq(Assessments)
               /\ DOMAIN assessments' = DOMAIN assessments
               /\ \A b \in DOMAIN assessments :
                     /\ assessments'[b].demand = assessments[b].demand
                     /\ assessments'[b].dossier = assessments[b].dossier
                     /\ assessments'[b].human =
                           IF b = a THEN "APPROVED" ELSE assessments[b].human
<1>1. req[h] \in Requests /\ req[h].op = "review" /\ assessments \in Seq(Assessments)
  BY DEF TypeOK, CommitReview, Assessments
<1>2. CASE req[h].assessment = NoAssessment
  <2>1. assessments' = assessments
    BY <1>2 DEF CommitReview
  <2>2. req[h].assessment \notin DOMAIN assessments
    BY <1>1, <1>2 DEF NoAssessment
  <2> QED
    BY <1>1, <2>1, <2>2, RequestFields DEF CommitReview, Entry, Entries
<1>3. CASE req[h].assessment # NoAssessment
  <2>1. assessments' = [assessments EXCEPT ![req[h].assessment].human = "APPROVED"]
    BY <1>3 DEF CommitReview
  <2>2. /\ assessments' \in Seq(Assessments)
        /\ DOMAIN assessments' = DOMAIN assessments
        /\ \A b \in DOMAIN assessments :
              /\ assessments'[b].demand = assessments[b].demand
              /\ assessments'[b].dossier = assessments[b].dossier
              /\ assessments'[b].human =
                    IF b = req[h].assessment THEN "APPROVED" ELSE assessments[b].human
    BY <1>1, <2>1, ApproveFacts
  <2> QED
    BY <1>1, <2>2, RequestFields DEF CommitReview, Entry, Entries
<1> QED
  BY <1>2, <1>3

LEMMA ReviewTyped ==
    ASSUME Typed, NEW h \in Handlers, CommitReview(h)
    PROVE  Typed' /\ Grows
<1>0. TypeOK
  BY DEF Typed
<1>1. TypeOK'
  <2>1. /\ status' \in [Pairs -> Statuses \cup {"none"}]
        /\ trail' \in [Pairs -> Seq(Entries)]
        /\ req' \in [Handlers -> Requests]
    <3> DEFINE m == req[h].match
               e == Entry("review", req[h].status, req[h].assessment)
    <3>1. /\ m \in Pairs /\ req[h].was \in Statuses /\ req[h].status \in Statuses
          /\ e \in Entries /\ Move(m, req[h].was, req[h].status)
          /\ trail' = [trail EXCEPT ![m] = Append(@, e)] /\ End(h)
      BY <1>0, ReviewFacts
    <3> HIDE DEF m, e
    <3> QED
      BY <1>0, <3>1, MoveType, TrailFacts, EndFacts
  <2>2. assessments' \in Seq(Assessments) /\ UNCHANGED <<market, eligible, serial>>
    BY <1>0, ReviewFacts
  <2> QED
    BY <1>0, <2>1, <2>2 DEF TypeOK, market, Assessments
<1>2. Grows
  BY <1>0, ReviewFacts, TrailFacts DEF Grows
<1>3. \A d \in Demands : HasLatest(d)'
  BY <1>0, ReviewFacts, LatestStays DEF Typed
<1> QED
  BY <1>1, <1>2, <1>3 DEF Typed

\* A run of matching, by what it writes.
LEMMA MatchFacts ==
    ASSUME TypeOK, NEW h \in Handlers, CommitMatching(h)
    PROVE  /\ req[h] \in Requests /\ req[h].op = "match" /\ End(h)
           /\ UNCHANGED <<profiles, listed, assessments, serial>>
           /\ credit' \in [Demands -> Nat] /\ eligible' \subseteq Pairs
           /\ \E new \in SUBSET {m \in Pairs : status[m] = "none"} :
                 /\ status' = [m \in Pairs |-> IF m \in new THEN "SUGGESTED" ELSE status[m]]
                 /\ trail' = [m \in Pairs |-> IF m \in new THEN Append(trail[m], Suggestion)
                                              ELSE trail[m]]
<1> DEFINE d == req[h].demand
           found == {<<d, p>> : p \in req[h].products}
           new == {m \in found : status[m] = "none"}
<1>1. req[h] \in Requests /\ req[h].op = "match"
  BY DEF TypeOK, CommitMatching
<1>2. d \in Demands /\ req[h].products \in SUBSET Offers /\ req[h].version \in Nat
  BY <1>1, RequestFields
<1>3. found \subseteq Pairs
  BY <1>2 DEF Pairs
<1>4. new \in SUBSET {m \in Pairs : status[m] = "none"}
  BY <1>3
<1>5. /\ status' = [m \in Pairs |-> IF m \in new THEN "SUGGESTED" ELSE status[m]]
      /\ trail' = [m \in Pairs |-> IF m \in new THEN Append(trail[m], Suggestion) ELSE trail[m]]
      /\ eligible' = (eligible \ found) \cup {m \in found : Eligible(m[1], m[2])}
      /\ credit' = [credit EXCEPT ![d] = req[h].version + 1]
      /\ End(h) /\ UNCHANGED <<profiles, listed, assessments, serial>>
  BY DEF CommitMatching
<1> HIDE DEF d, found, new
<1>6. credit' \in [Demands -> Nat] /\ eligible' \subseteq Pairs
  BY <1>2, <1>3, <1>5 DEF TypeOK
<1> QED
  BY <1>1, <1>4, <1>5, <1>6

LEMMA MatchTyped ==
    ASSUME Typed, NEW h \in Handlers, CommitMatching(h)
    PROVE  Typed' /\ Grows
<1>0. TypeOK
  BY DEF Typed
<1>1. PICK new \in SUBSET {m \in Pairs : status[m] = "none"} :
         /\ status' = [m \in Pairs |-> IF m \in new THEN "SUGGESTED" ELSE status[m]]
         /\ trail' = [m \in Pairs |-> IF m \in new THEN Append(trail[m], Suggestion) ELSE trail[m]]
  BY <1>0, MatchFacts
<1>2. Suggestion \in Entries
  BY DEF Suggestion, Entry, Entries, Statuses, NoAssessment
<1>3. ASSUME NEW m \in Pairs
      PROVE  /\ trail'[m] \in Seq(Entries)
             /\ \A i \in DOMAIN trail[m] : i \in DOMAIN trail'[m] /\ trail'[m][i] = trail[m][i]
  <2>1. trail[m] \in Seq(Entries)
    BY <1>0 DEF TypeOK
  <2>2. trail'[m] = trail[m] \/ trail'[m] = Append(trail[m], Suggestion)
    BY <1>1
  <2> QED
    BY <1>2, <2>1, <2>2, AppendFacts
<1>4. status' \in [Pairs -> Statuses \cup {"none"}] /\ trail' \in [Pairs -> Seq(Entries)]
  BY <1>0, <1>1, <1>3 DEF TypeOK, Statuses
<1>5. TypeOK' /\ assessments' = assessments
  BY <1>0, <1>4, MatchFacts, EndFacts DEF TypeOK
<1>6. Grows
  BY <1>0, <1>3, MatchFacts DEF Grows
<1> QED
  BY <1>5, <1>6, LatestStays DEF Typed

\* No step leaves the types, and none undoes an approval or a trail.
LEMMA StepTyped ==
    ASSUME Typed, [Next]_vars
    PROVE  Typed' /\ Grows
<1>1. CASE UNCHANGED vars
  <2>1. TypeOK' /\ Grows /\ assessments' = assessments
    BY <1>1, UnchangedGrows DEF Typed, TypeOK, vars
  <2> QED
    BY <2>1, LatestStays DEF Typed
<1>2. CASE Next
  BY <1>2, Shapes, EnterTyped, AssessTyped, ReadTyped, AbortTyped, MatchTyped, MoveTyped, ReviewTyped
<1> QED
  BY <1>1, <1>2

LEMMA InitTyped == Init => Typed
<1> SUFFICES ASSUME Init PROVE Typed
  OBVIOUS
<1>1. TypeOK
  BY DEF Init, TypeOK, Requests
<1>2. \A d \in Demands : HasLatest(d)
  BY DEF Init, HasLatest
<1> QED
  BY <1>1, <1>2 DEF Typed

\* Every state is well typed: a match has one of the statuses of the code, and
\* a request in flight names rows that the code may have read.
THEOREM Typing == Spec => []TypeOK
<1>1. Typed /\ [Next]_vars => Typed'
  BY StepTyped
<1>2. Typed => TypeOK
  BY DEF Typed
<1> QED
  BY InitTyped, <1>1, <1>2, PTL DEF Spec

-----------------------------------------------------------------------------
(* Releases.  What a request in flight will write stays justified, because *)
(* nothing that justified it is ever undone.                               *)

LEMMA ApprovedStays ==
    ASSUME Grows, NEW d, Approved(d)
    PROVE  Approved(d)'
BY DEF Grows, Approved

LEMMA ReleasedStays ==
    ASSUME Grows, NEW n \in Pairs, NEW a, ReleasedOn(n, a)
    PROVE  ReleasedOn(n, a)'
BY DEF Grows, ReleasedOn

LEMMA JustifiedStays ==
    ASSUME Grows, NEW g \in Handlers, Justified(req[g]), req'[g] = req[g]
    PROVE  Justified(req[g])'
<1>1. ASSUME req[g].op = "move", req[g].status = "APPROVED_TO_CONTACT"
      PROVE  Approved(req[g].match[1])'
  <2>1. PICK a \in DOMAIN assessments :
           /\ assessments[a].demand = req[g].match[1]
           /\ Sound(assessments[a].dossier)
           /\ assessments[a].human = "APPROVED"
    BY <1>1 DEF Justified, Approved
  <2>2. /\ a \in DOMAIN assessments'
        /\ assessments'[a].demand = req'[g].match[1]
        /\ Sound(assessments'[a].dossier)
        /\ assessments'[a].human = "APPROVED"
    BY <2>1 DEF Grows
  <2> QED
    BY <2>2 DEF Approved
<1>2. ASSUME req[g].op = "review", req[g].assessment # NoAssessment
      PROVE  /\ req[g].assessment \in DOMAIN assessments'
             /\ Sound(assessments'[req[g].assessment].dossier)
  BY <1>2 DEF Grows, Justified
<1> QED
  BY <1>1, <1>2 DEF Justified

LEMMA IdleJustified ==
    ASSUME NEW g \in Handlers, req'[g] = Idle
    PROVE  Justified(req[g])'
BY DEF Justified, Idle

\* The requests in flight after any step.
LEMMA JustifiedStep ==
    ASSUME Typed, \A h \in Handlers : Justified(req[h]), [Next]_vars
    PROVE  \A h \in Handlers : Justified(req[h])'
<1>0. TypeOK /\ Grows
  BY StepTyped DEF Typed
<1>1. ASSUME req' = req
      PROVE  \A g \in Handlers : Justified(req[g])'
  BY <1>0, <1>1, JustifiedStays
<1>2. ASSUME NEW h \in Handlers, End(h)
      PROVE  \A g \in Handlers : Justified(req[g])'
  BY <1>0, <1>2, EndFacts, IdleJustified, JustifiedStays
<1>3. ASSUME NEW h \in Handlers, NEW q \in Requests, Reads(h, q), Justified(q)
      PROVE  \A g \in Handlers : Justified(req[g])'
  <2>1. /\ req'[h] = q /\ \A g \in Handlers : g # h => req'[g] = req[g]
        /\ assessments' = assessments
    BY <1>0, <1>3 DEF Reads, Begin, TypeOK
  <2>2. Justified(req[h])'
    BY <1>3, <2>1 DEF Justified, Approved
  <2> QED
    BY <1>0, <2>1, <2>2, JustifiedStays
<1>4. CASE UNCHANGED vars
  BY <1>1, <1>4 DEF vars
<1>5. CASE Next
  <2>1. \/ req' = req
        \/ \E h \in Handlers, q \in Requests : Reads(h, q) /\ Justified(q)
        \/ \E h \in Handlers : End(h)
    BY <1>5, Shapes DEF Enters, Assess, Abort, CommitMatching, CommitMove, CommitReview
  <2> QED
    BY <1>1, <1>2, <1>3, <2>1
<1> QED
  BY <1>4, <1>5

\* The condition of ReleasesAreBacked, for one match.
Backed(m) ==
    \E a \in DOMAIN assessments :
        /\ Sound(assessments[a].dossier)
        /\ assessments[a].human = "APPROVED"
        /\ \E n \in Pairs : ReleasedOn(n, a) /\ (n = m \/ assessments[a].demand = m[1])

LEMMA BackedStays ==
    ASSUME Grows, NEW m \in Pairs, Backed(m)
    PROVE  Backed(m)'
<1>1. PICK a \in DOMAIN assessments, n \in Pairs :
         /\ Sound(assessments[a].dossier) /\ assessments[a].human = "APPROVED"
         /\ ReleasedOn(n, a) /\ (n = m \/ assessments[a].demand = m[1])
  BY DEF Backed
<1>2. /\ a \in DOMAIN assessments' /\ Sound(assessments'[a].dossier)
      /\ assessments'[a].human = "APPROVED"
      /\ n = m \/ assessments'[a].demand = m[1]
  BY <1>1 DEF Grows
<1>3. ReleasedOn(n, a)'
  BY <1>1, ReleasedStays
<1> QED
  BY <1>2, <1>3 DEF Backed

\* The releases and the approvals.
Releases ==
    /\ Typed
    /\ \A h \in Handlers : Justified(req[h])
    /\ ApprovalsAreReviews
    /\ ReleasesAreBacked

\* A step that approves no assessment and releases no match.
LEMMA NothingReleased ==
    ASSUME Releases, Grows,
           \A a \in DOMAIN assessments' : assessments'[a].human = "APPROVED" =>
               a \in DOMAIN assessments /\ assessments[a].human = "APPROVED",
           \A m \in Pairs : status'[m] = "APPROVED_TO_CONTACT" =>
               status[m] = "APPROVED_TO_CONTACT"
    PROVE  ApprovalsAreReviews' /\ ReleasesAreBacked'
<1>1. ApprovalsAreReviews'
  <2> SUFFICES ASSUME NEW a \in DOMAIN assessments', assessments'[a].human = "APPROVED"
               PROVE  /\ Sound(assessments'[a].dossier)
                      /\ \E n \in Pairs : ReleasedOn(n, a)'
    BY DEF ApprovalsAreReviews
  <2>1. PICK n \in Pairs : ReleasedOn(n, a)
    BY DEF Releases, ApprovalsAreReviews
  <2>2. Sound(assessments'[a].dossier)
    BY DEF Releases, ApprovalsAreReviews, Grows
  <2> QED
    BY <2>1, <2>2, ReleasedStays
<1>2. \A m \in Pairs : status'[m] = "APPROVED_TO_CONTACT" => Backed(m)'
  BY BackedStays DEF Releases, ReleasesAreBacked, Backed
<1> QED
  BY <1>1, <1>2 DEF ReleasesAreBacked, Backed

\* A move to APPROVED_TO_CONTACT is backed by what the agent looked up.
LEMMA MoveReleases ==
    ASSUME Releases, NEW h \in Handlers, CommitMove(h)
    PROVE  ApprovalsAreReviews' /\ ReleasesAreBacked'
<1>0. TypeOK /\ Grows
  BY MoveTyped DEF Releases, Typed
<1>1. PICK m \in Pairs :
         /\ req[h].op = "move" /\ m = req[h].match
         /\ req[h].was \in Statuses /\ req[h].status \in Statuses
         /\ Move(m, req[h].was, req[h].status) /\ assessments' = assessments
  BY <1>0, MoveFacts
<1>2. /\ \A n \in Pairs : n # m => status'[n] = status[n]
      /\ status'[m] = IF req[h].status = req[h].was THEN status[m] ELSE req[h].status
  BY <1>0, <1>1, MoveType
<1>3. CASE status'[m] = "APPROVED_TO_CONTACT" /\ status[m] # "APPROVED_TO_CONTACT"
  <2>1. req[h].status = "APPROVED_TO_CONTACT"
    BY <1>2, <1>3
  <2>2. PICK a \in DOMAIN assessments :
           /\ assessments[a].demand = m[1] /\ Sound(assessments[a].dossier)
           /\ assessments[a].human = "APPROVED"
    BY <1>1, <2>1 DEF Releases, Justified, Approved
  <2>3. Backed(m)
    BY <2>2 DEF Releases, ApprovalsAreReviews, Backed
  <2>4. Backed(m)'
    BY <1>0, <1>1, <2>3, BackedStays
  <2>5. \A n \in Pairs : n # m /\ status'[n] = "APPROVED_TO_CONTACT" => Backed(n)'
    BY <1>0, <1>2, BackedStays DEF Releases, ReleasesAreBacked, Backed
  <2>6. ReleasesAreBacked'
    BY <2>4, <2>5 DEF ReleasesAreBacked, Backed
  <2>7. ApprovalsAreReviews'
    <3>1. \A a1 \in DOMAIN assessments', n \in Pairs : ReleasedOn(n, a1) => ReleasedOn(n, a1)'
      BY <1>0, ReleasedStays
    <3> QED
      BY <1>1, <3>1 DEF Releases, ApprovalsAreReviews
  <2> QED
    BY <2>6, <2>7
<1>4. CASE ~(status'[m] = "APPROVED_TO_CONTACT" /\ status[m] # "APPROVED_TO_CONTACT")
  BY <1>0, <1>1, <1>2, <1>4, NothingReleased
<1> QED
  BY <1>3, <1>4

\* A review that releases is the backing of its own match, and what it
\* approves is the sound assessment it names.
LEMMA ReviewReleases ==
    ASSUME Releases, NEW h \in Handlers, CommitReview(h)
    PROVE  ApprovalsAreReviews' /\ ReleasesAreBacked'
<1>0. TypeOK /\ Grows
  BY ReviewTyped DEF Releases, Typed
<1>1. PICK m \in Pairs, a \in Nat, e \in Entries :
      /\ req[h].op = "review" /\ m = req[h].match /\ a = req[h].assessment
      /\ e = Entry("review", req[h].status, a)
      /\ req[h].was \in Statuses /\ req[h].status \in Statuses
      /\ Move(m, req[h].was, req[h].status) /\ trail' = [trail EXCEPT ![m] = Append(@, e)]
      /\ DOMAIN assessments' = DOMAIN assessments
      /\ \A b \in DOMAIN assessments :
            /\ assessments'[b].demand = assessments[b].demand
            /\ assessments'[b].dossier = assessments[b].dossier
            /\ assessments'[b].human = IF b = a THEN "APPROVED" ELSE assessments[b].human
  <2> DEFINE m == req[h].match
             a == req[h].assessment
             e == Entry("review", req[h].status, a)
  <2>1. /\ req[h].op = "review" /\ m \in Pairs /\ a \in Nat /\ e \in Entries
        /\ req[h].was \in Statuses /\ req[h].status \in Statuses
        /\ Move(m, req[h].was, req[h].status) /\ trail' = [trail EXCEPT ![m] = Append(@, e)]
        /\ DOMAIN assessments' = DOMAIN assessments
        /\ \A b \in DOMAIN assessments :
              /\ assessments'[b].demand = assessments[b].demand
              /\ assessments'[b].dossier = assessments[b].dossier
              /\ assessments'[b].human = IF b = a THEN "APPROVED" ELSE assessments[b].human
    BY <1>0, ReviewFacts
  <2>2. e = Entry("review", req[h].status, a)
    OBVIOUS
  <2>3. m = req[h].match /\ a = req[h].assessment
    OBVIOUS
  <2> HIDE DEF m, a, e
  <2> QED
    BY <2>1, <2>2, <2>3
<1>2. /\ \A n \in Pairs : n # m => status'[n] = status[n]
      /\ status'[m] = IF req[h].status = req[h].was THEN status[m] ELSE req[h].status
  BY <1>0, <1>1, MoveType
<1>3. Justified(req[h])
  BY DEF Releases
<1>4. CASE a = NoAssessment
  <2>1. req[h].status # "APPROVED_TO_CONTACT" /\ a \notin DOMAIN assessments
    BY <1>0, <1>1, <1>3, <1>4 DEF Justified, TypeOK, NoAssessment
  <2> QED
    BY <1>0, <1>1, <1>2, <2>1, NothingReleased
<1>5. CASE a # NoAssessment
  <2>1. /\ req[h].status = "APPROVED_TO_CONTACT" /\ a \in DOMAIN assessments
        /\ Sound(assessments[a].dossier)
    BY <1>1, <1>3, <1>5 DEF Justified
  <2>2. \E i \in DOMAIN trail'[m] : trail'[m][i] = e
    <3>1. trail' = [trail EXCEPT ![m] = Append(@, e)]
      BY <1>1
    <3>2. Len(trail'[m]) \in DOMAIN trail'[m] /\ trail'[m][Len(trail'[m])] = e
      BY <1>0, <3>1, TrailFacts
    <3> QED
      BY <3>2
  <2>3. ReleasedOn(m, a)'
    BY <1>1, <2>1, <2>2 DEF ReleasedOn
  <2>4. a \in DOMAIN assessments' /\ Sound(assessments'[a].dossier) /\ assessments'[a].human = "APPROVED"
    BY <1>1, <2>1
  <2>5. Backed(m)'
    BY <1>1, <2>3, <2>4 DEF Backed
  <2>6. \A n \in Pairs : n # m /\ status'[n] = "APPROVED_TO_CONTACT" => Backed(n)'
    BY <1>0, <1>2, BackedStays DEF Releases, ReleasesAreBacked, Backed
  <2>7. ReleasesAreBacked'
    BY <2>5, <2>6 DEF ReleasesAreBacked, Backed
  <2>8. ASSUME NEW b \in DOMAIN assessments', b # a, assessments'[b].human = "APPROVED"
        PROVE  Sound(assessments'[b].dossier) /\ \E n \in Pairs : ReleasedOn(n, b)'
    <3>1. PICK n \in Pairs : ReleasedOn(n, b) /\ Sound(assessments[b].dossier)
      BY <1>1, <2>8 DEF Releases, ApprovalsAreReviews
    <3>2. ReleasedOn(n, b)'
      BY <1>0, <3>1, ReleasedStays
    <3> QED
      BY <1>1, <3>1, <3>2
  <2>9. ApprovalsAreReviews'
    BY <1>1, <2>3, <2>4, <2>8 DEF ApprovalsAreReviews
  <2> QED
    BY <2>7, <2>9
<1> QED
  BY <1>4, <1>5

LEMMA ReleasesStep ==
    ASSUME Releases, [Next]_vars
    PROVE  Releases'
<1>0. Typed' /\ Grows
  BY StepTyped DEF Releases
<1>1. \A h \in Handlers : Justified(req[h])'
  BY JustifiedStep DEF Releases
<1>2. ASSUME assessments' = assessments, status' = status
      PROVE  ApprovalsAreReviews' /\ ReleasesAreBacked'
  BY <1>0, <1>2, NothingReleased
<1>3. ASSUME NEW d \in Demands, NEW x \in Dossiers, Assess(d, x)
      PROVE  ApprovalsAreReviews' /\ ReleasesAreBacked'
  <2> DEFINE n == [demand |-> d, dossier |-> x, human |-> "PENDING"]
  <2>1. /\ n \in Assessments /\ assessments \in Seq(Assessments)
        /\ assessments' = Append(assessments, n) /\ status' = status
    BY <1>3 DEF Releases, Typed, TypeOK, Assessments, Assess
  <2>2. \A a \in DOMAIN assessments' :
           (a \in DOMAIN assessments /\ assessments'[a] = assessments[a]) \/ assessments'[a] = n
    BY <2>1, AppendFacts
  <2>3. \A a \in DOMAIN assessments' : assessments'[a].human = "APPROVED" =>
           a \in DOMAIN assessments /\ assessments[a].human = "APPROVED"
    BY <2>2
  <2> QED
    BY <1>0, <2>1, <2>3, NothingReleased
<1>4. ASSUME NEW h \in Handlers, CommitMatching(h)
      PROVE  ApprovalsAreReviews' /\ ReleasesAreBacked'
  <2>1. /\ assessments' = assessments
        /\ \A m \in Pairs : status'[m] \in {"SUGGESTED", status[m]}
    BY <1>4, MatchFacts DEF Releases, Typed
  <2> QED
    BY <1>0, <2>1, NothingReleased
<1>5. ApprovalsAreReviews' /\ ReleasesAreBacked'
  <2>1. CASE UNCHANGED vars
    BY <1>2, <2>1 DEF vars
  <2>2. CASE Next
    BY <1>2, <1>3, <1>4, <2>2, Shapes, MoveReleases, ReviewReleases
       DEF Releases, Enters, Reads, Abort
  <2> QED
    BY <2>1, <2>2
<1> QED
  BY <1>0, <1>1, <1>5 DEF Releases

LEMMA InitReleases == Init => Releases
<1> SUFFICES ASSUME Init PROVE Releases
  OBVIOUS
<1>1. \A h \in Handlers : Justified(req[h])
  BY DEF Init, Justified, Idle
<1>2. ApprovalsAreReviews /\ ReleasesAreBacked
  BY DEF Init, ApprovalsAreReviews, ReleasesAreBacked
<1> QED
  BY <1>1, <1>2, InitTyped DEF Releases

\* Contact is released only on a sound assessment that a persisted review
\* approved, whatever the tenants, dossiers and number of overlapping requests.
THEOREM Backing == Spec => []ReleasesAreBacked
<1>1. Releases /\ [Next]_vars => Releases'
  BY ReleasesStep
<1>2. Releases => ReleasesAreBacked
  BY DEF Releases
<1> QED
  BY InitReleases, <1>1, <1>2, PTL DEF Spec

-----------------------------------------------------------------------------
(* Requests that do not overlap.                                           *)

LEMMA UpToDateStep ==
    ASSUME Typed, SerialRequests, [Next]_vars
    PROVE  SerialRequests'
<1>0. TypeOK
  BY DEF Typed
<1>1. serial' = serial
  BY StepTyped DEF Grows
<1> SUFFICES ASSUME serial
             PROVE  /\ \A g, h \in Handlers : req'[g] # Idle /\ req'[h] # Idle => g = h
                    /\ \A h \in Handlers : UpToDate(req[h])'
  BY <1>1 DEF SerialRequests
<1>2. /\ \A g, h \in Handlers : req[g] # Idle /\ req[h] # Idle => g = h
      /\ \A h \in Handlers : UpToDate(req[h])
  BY DEF SerialRequests
<1>3. ASSUME NEW g \in Handlers, req'[g] = Idle
      PROVE  UpToDate(req[g])'
  BY <1>3 DEF UpToDate, Idle
<1>4. ASSUME req' = req, status' = status, assessments' = assessments
      PROVE  \A h \in Handlers : UpToDate(req[h])'
  BY <1>2, <1>4 DEF UpToDate, LatestIsSound, IsLatest
<1>5. ASSUME NEW h \in Handlers, End(h), req[h] # Idle
      PROVE  \A g \in Handlers : req'[g] = Idle
  BY <1>0, <1>2, <1>5, EndFacts
<1>6. ASSUME NEW d \in Demands, NEW x \in Dossiers, Assess(d, x)
      PROVE  \A g \in Handlers : req'[g] = Idle
  BY <1>6 DEF Assess
<1>7. ASSUME NEW h \in Handlers, NEW q \in Requests, Reads(h, q), UpToDate(q)
      PROVE  /\ \A f, g \in Handlers : req'[f] # Idle /\ req'[g] # Idle => f = g
             /\ \A g \in Handlers : UpToDate(req[g])'
  <2>1. /\ req'[h] = q /\ \A g \in Handlers : g # h => req'[g] = Idle
        /\ status' = status /\ assessments' = assessments
    BY <1>0, <1>7 DEF Reads, Begin, TypeOK
  <2>2. UpToDate(req[h])'
    BY <1>7, <2>1 DEF UpToDate, LatestIsSound, IsLatest
  <2> QED
    BY <1>3, <2>1, <2>2
<1>8. CASE UNCHANGED vars
  BY <1>2, <1>4, <1>8 DEF vars
<1>9. CASE Next
  <2>1. \/ req' = req /\ status' = status /\ assessments' = assessments
        \/ \E d \in Demands, x \in Dossiers : Assess(d, x)
        \/ \E h \in Handlers, q \in Requests : Reads(h, q) /\ UpToDate(q)
        \/ \E h \in Handlers : End(h) /\ req[h] # Idle
    <3>1. ASSUME Enters
          PROVE  req' = req /\ status' = status /\ assessments' = assessments
      BY <3>1 DEF Enters
    <3>2. ASSUME NEW h \in Handlers,
                 Abort(h) \/ CommitMatching(h) \/ CommitMove(h) \/ CommitReview(h)
          PROVE  End(h) /\ req[h] # Idle
      <4>1. End(h)
        BY <3>2 DEF Abort, CommitMatching, CommitMove, CommitReview
      <4>2. req[h] # Idle \/ req[h].op # "idle"
        BY <3>2 DEF Abort, CommitMatching, CommitMove, CommitReview
      <4> QED
        BY <4>1, <4>2 DEF Idle
    <3> QED
      BY <1>9, <3>1, <3>2, Shapes
  <2> QED
    BY <1>2, <1>3, <1>4, <1>5, <1>6, <1>7, <2>1
<1> QED
  BY <1>8, <1>9

LEMMA InitUpToDate == Init => SerialRequests
BY DEF Init, SerialRequests, UpToDate, Idle

\* A step that writes the status of a match, by what it writes.
LEMMA Writers ==
    ASSUME Typed, [Next]_vars, NEW m \in Pairs, status'[m] # status[m]
    PROVE  \/ status[m] = "none" /\ status'[m] = "SUGGESTED"
           \/ \E h \in Handlers :
                 /\ req[h].op \in {"move", "review"} /\ req'[h] = Idle
                 /\ req[h].match = m /\ req[h].status = status'[m]
<1>0. TypeOK
  BY DEF Typed
<1>1. Next
  BY DEF vars
<1>2. \E h \in Handlers : CommitMatching(h) \/ CommitMove(h) \/ CommitReview(h)
  BY <1>1, Shapes DEF Enters, Assess, Reads, Abort
<1>3. ASSUME NEW h \in Handlers, CommitMatching(h)
      PROVE  status[m] = "none" /\ status'[m] = "SUGGESTED"
  BY <1>0, <1>3, MatchFacts
<1>4. ASSUME NEW h \in Handlers, CommitMove(h)
      PROVE  /\ req[h].op \in {"move", "review"} /\ req'[h] = Idle
             /\ req[h].match = m /\ req[h].status = status'[m]
  <2>1. PICK n \in Pairs :
           /\ req[h].op = "move" /\ n = req[h].match
           /\ req[h].was \in Statuses /\ req[h].status \in Statuses
           /\ Move(n, req[h].was, req[h].status) /\ End(h)
    BY <1>0, <1>4, MoveFacts
  <2> QED
    BY <1>0, <2>1, MoveType, EndFacts
<1>5. ASSUME NEW h \in Handlers, CommitReview(h)
      PROVE  /\ req[h].op \in {"move", "review"} /\ req'[h] = Idle
             /\ req[h].match = m /\ req[h].status = status'[m]
  <2>1. PICK n \in Pairs :
           /\ req[h].op = "review" /\ n = req[h].match
           /\ req[h].was \in Statuses /\ req[h].status \in Statuses
           /\ Move(n, req[h].was, req[h].status) /\ End(h)
    BY <1>0, <1>5, ReviewFacts
  <2> QED
    BY <1>0, <2>1, MoveType, EndFacts
<1> QED
  BY <1>2, <1>3, <1>4, <1>5

\* A release without overlap that cites no assessment goes by the latest one
\* of its request, whatever the tenants and the dossiers.
THEOREM Currency == Spec => ReleasesAreCurrent
<1> DEFINE Serial == Typed /\ SerialRequests
           Current ==
             \A h \in Handlers : ReleasesUncited(h) =>
                 \A a \in DOMAIN assessments :
                     IsLatest(a, req[h].match[1]) => Sound(assessments[a].dossier)
<1>1. Init => Serial
  BY InitTyped, InitUpToDate
<1>2. Serial /\ [Next]_vars => Serial'
  BY StepTyped, UpToDateStep
<1>3. Serial /\ [Next]_vars => [Current]_vars
  <2> SUFFICES ASSUME Serial, [Next]_vars, NEW h \in Handlers, ReleasesUncited(h)
               PROVE  LatestIsSound(req[h].match[1])
    BY DEF LatestIsSound
  <2>1. req[h] \in Requests /\ req[h] # Idle
    BY DEF Typed, TypeOK, Idle, ReleasesUncited
  <2>2. PICK m \in Pairs : m = req[h].match
    BY <2>1, RequestFields DEF ReleasesUncited
  <2>3. PICK g \in Handlers :
           req[g].op \in {"move", "review"} /\ req[g].match = m /\ req[g].status = status'[m]
    BY <2>2, Writers DEF ReleasesUncited
  <2>4. g = h
    BY <2>1, <2>3 DEF SerialRequests, Idle, ReleasesUncited
  <2> QED
    BY <2>2, <2>3, <2>4 DEF SerialRequests, UpToDate, ReleasesUncited
<1> HIDE DEF Serial
<1> QED
  BY <1>1, <1>2, <1>3, PTL DEF Spec, ReleasesAreCurrent

-----------------------------------------------------------------------------
(* Trails.                                                                 *)

\* The condition of TrailExplainsStatus, for one match.
Explained(m) ==
    /\ \E i \in DOMAIN trail[m] : trail[m][i].status = status[m]
    /\ serial => trail[m][Len(trail[m])].status = status[m]

Trails == Typed /\ SerialRequests /\ TrailExplainsStatus

\* A request that ends with an entry in the trail of its match.
LEMMA EntryExplains ==
    ASSUME Trails, Grows, NEW m \in Pairs, NEW e \in Entries,
           NEW was \in Statuses, NEW s \in Statuses,
           serial => was = status[m], Move(m, was, s), e.status = s,
           trail' = [trail EXCEPT ![m] = Append(@, e)]
    PROVE  \A n \in Pairs : status'[n] # "none" => Explained(n)'
<1>0. TypeOK
  BY DEF Trails, Typed
<1>1. /\ \A n \in Pairs : n # m => status'[n] = status[n]
      /\ status'[m] = IF s = was THEN status[m] ELSE s
  BY <1>0, MoveType
<1>2. /\ \A n \in Pairs : n # m => trail'[n] = trail[n]
      /\ Len(trail'[m]) \in DOMAIN trail'[m] /\ trail'[m][Len(trail'[m])] = e
  <2>1. trail' = [trail EXCEPT ![m] = Append(@, e)]
    OBVIOUS
  <2> QED
    BY <1>0, <2>1, TrailFacts
<1>3. serial' = serial
  BY DEF Grows
<1>4. ASSUME NEW n \in Pairs, n # m, status'[n] # "none"
      PROVE  Explained(n)'
  BY <1>1, <1>2, <1>3, <1>4 DEF Trails, TrailExplainsStatus, Explained
<1>5. ASSUME status'[m] # "none"
      PROVE  Explained(m)'
  <2>1. \E i \in DOMAIN trail'[m] : trail'[m][i].status = status'[m]
    <3>1. CASE status'[m] = status[m]
      <4>1. PICK i \in DOMAIN trail[m] : trail[m][i].status = status[m]
        BY <1>5, <3>1 DEF Trails, TrailExplainsStatus
      <4>2. i \in DOMAIN trail'[m] /\ trail'[m][i] = trail[m][i]
        BY <4>1 DEF Grows
      <4> QED
        BY <3>1, <4>1, <4>2
    <3>2. CASE status'[m] # status[m]
      BY <1>1, <1>2, <3>2
    <3> QED
      BY <3>1, <3>2
  <2>2. serial => trail'[m][Len(trail'[m])].status = status'[m]
    <3> SUFFICES ASSUME serial
                 PROVE  trail'[m][Len(trail'[m])].status = status'[m]
      OBVIOUS
    <3>1. was = status[m]
      OBVIOUS
    <3> QED
      BY <1>1, <1>2, <3>1
  <2> QED
    BY <1>3, <2>1, <2>2 DEF Explained
<1> QED
  BY <1>4, <1>5

LEMMA TrailsStep ==
    ASSUME Trails, [Next]_vars
    PROVE  Trails'
<1>0. TypeOK /\ Typed' /\ Grows /\ SerialRequests' /\ serial' = serial
  BY StepTyped, UpToDateStep DEF Trails, Typed, Grows
<1> DEFINE AllExplained == \A n \in Pairs : status'[n] # "none" => Explained(n)'
<1>1. ASSUME status' = status, trail' = trail
      PROVE  AllExplained
  BY <1>0, <1>1 DEF Trails, TrailExplainsStatus, Explained
<1>2. ASSUME NEW h \in Handlers, CommitMatching(h)
      PROVE  AllExplained
  <2>1. PICK new \in SUBSET {m \in Pairs : status[m] = "none"} :
           /\ status' = [m \in Pairs |-> IF m \in new THEN "SUGGESTED" ELSE status[m]]
           /\ trail' = [m \in Pairs |-> IF m \in new THEN Append(trail[m], Suggestion)
                                        ELSE trail[m]]
    BY <1>0, <1>2, MatchFacts
  <2>2. ASSUME NEW m \in new
        PROVE  Explained(m)'
    <3>1. trail[m] \in Seq(Entries) /\ Suggestion \in Entries
      BY <1>0 DEF TypeOK, Suggestion, Entry, Entries, Statuses, NoAssessment
    <3>2. trail'[m] = Append(trail[m], Suggestion) /\ status'[m] = "SUGGESTED"
      BY <2>1
    <3>3. Suggestion.status = "SUGGESTED"
      BY DEF Suggestion, Entry
    <3>4. Len(trail'[m]) \in DOMAIN trail'[m] /\ trail'[m][Len(trail'[m])] = Suggestion
      BY <3>1, <3>2, AppendFacts
    <3> QED
      BY <3>2, <3>3, <3>4 DEF Explained
  <2>3. ASSUME NEW m \in Pairs, m \notin new, status'[m] # "none"
        PROVE  Explained(m)'
    <3>1. status'[m] = status[m] /\ trail'[m] = trail[m]
      BY <2>1, <2>3
    <3> QED
      BY <1>0, <2>3, <3>1 DEF Trails, TrailExplainsStatus, Explained
  <2> QED
    BY <2>2, <2>3
<1>3. ASSUME NEW h \in Handlers, CommitMove(h)
      PROVE  AllExplained
  <2>1. PICK m \in Pairs, e \in Entries, was \in Statuses, s \in Statuses :
           /\ req[h].op = "move" /\ m = req[h].match /\ was = req[h].was
           /\ Move(m, was, s) /\ e.status = s
           /\ trail' = [trail EXCEPT ![m] = Append(@, e)]
    BY <1>0, <1>3, MoveFacts
  <2>2. serial => was = status[m]
    BY <2>1 DEF Trails, SerialRequests, UpToDate
  <2> QED
    BY <1>0, <2>1, <2>2, EntryExplains
<1>4. ASSUME NEW h \in Handlers, CommitReview(h)
      PROVE  AllExplained
  <2>1. PICK m \in Pairs, e \in Entries, was \in Statuses, s \in Statuses :
           /\ req[h].op = "review" /\ m = req[h].match /\ was = req[h].was
           /\ Move(m, was, s) /\ e.status = s
           /\ trail' = [trail EXCEPT ![m] = Append(@, e)]
    <3> DEFINE m == req[h].match
               e == Entry("review", req[h].status, req[h].assessment)
               was == req[h].was
               s == req[h].status
    <3>1. /\ req[h].op = "review" /\ m \in Pairs /\ e \in Entries /\ was \in Statuses
          /\ s \in Statuses /\ Move(m, was, s) /\ e.status = s
          /\ trail' = [trail EXCEPT ![m] = Append(@, e)]
      BY <1>0, <1>4, ReviewFacts
    <3>2. m = req[h].match /\ was = req[h].was
      OBVIOUS
    <3> HIDE DEF m, e, was, s
    <3> QED
      BY <3>1, <3>2
  <2>2. serial => was = status[m]
    BY <2>1 DEF Trails, SerialRequests, UpToDate
  <2> QED
    BY <1>0, <2>1, <2>2, EntryExplains
<1> HIDE DEF AllExplained
<1>5. ASSUME UNCHANGED vars
      PROVE  AllExplained
  BY <1>1, <1>5 DEF vars
<1>6. ASSUME Next
      PROVE  AllExplained
  <2>1. \/ status' = status /\ trail' = trail
        \/ \E h \in Handlers : CommitMatching(h) \/ CommitMove(h) \/ CommitReview(h)
    BY <1>6, Shapes DEF Trails, Enters, Assess, Reads, Abort
  <2> QED
    BY <1>1, <1>2, <1>3, <1>4, <2>1
<1>7. TrailExplainsStatus'
  BY <1>5, <1>6 DEF AllExplained, TrailExplainsStatus, Explained
<1> QED
  BY <1>0, <1>7 DEF Trails

\* However requests overlap, a match has no status that its trail does not
\* tell; without overlap its last entry tells it.
THEOREM Explanation == Spec => []TrailExplainsStatus
<1>1. Init => Trails
  <2> SUFFICES ASSUME Init PROVE TrailExplainsStatus
    BY InitTyped, InitUpToDate DEF Trails
  <2> QED
    BY DEF Init, TrailExplainsStatus
<1>2. Trails /\ [Next]_vars => Trails'
  BY TrailsStep
<1>3. Trails => TrailExplainsStatus
  BY DEF Trails
<1> QED
  BY <1>1, <1>2, <1>3, PTL DEF Spec

-----------------------------------------------------------------------------
(* Matching.  What entitles a match is never undone: tenants stay          *)
(* registered, products listed and requests created, and a run of matching *)
(* in flight has seen all of it.                                           *)

Market ==
    /\ \A d \in Demands : Created(d) => <<"BORROWER", d.owner>> \in profiles
    /\ \A p \in listed : <<"FUNDER", p.provider>> \in profiles

MayMatch(m) ==
    /\ m[1].consent = "GRANTED" /\ Created(m[1])
    /\ m[2] \in listed /\ m[2].status = "ACTIVE"

\* A run of matching has found what may match, a move or a review a match.
Grounded(q) ==
    /\ q.op = "match" =>
          Created(q.demand) /\ \A p \in q.products : MayMatch(<<q.demand, p>>)
    /\ q.op \in {"move", "review"} => status[q.match] # "none"

Entitled ==
    /\ Typed
    /\ Market
    /\ \A m \in Pairs : status[m] # "none" => MayMatch(m)
    /\ \A m \in eligible : Eligible(m[1], m[2])
    /\ \A h \in Handlers : Grounded(req[h])

\* Without the type and the ticket at most 55 points are left, of the 60 that
\* eligibility takes.
LEMMA EligibleFits ==
    ASSUME NEW d, NEW p, Eligible(d, p)
    PROVE  Fit(d, p).type \/ Fit(d, p).ticket
<1> DEFINE given(holds, points) == IF holds THEN points ELSE 0
           fit == Fit(d, p)
           rest == given(fit.term, 15) + given(fit.collateral, 15)
                   + given(fit.sectors, 10) + given(fit.regions, 10) + given(fit.stage, 5)
<1>1. MatchScore(d, p) >= 60
  BY DEF Eligible
<1>2. /\ given(fit.term, 15) \in 0..15 /\ given(fit.collateral, 15) \in 0..15
      /\ given(fit.sectors, 10) \in 0..10 /\ given(fit.regions, 10) \in 0..10
      /\ given(fit.stage, 5) \in 0..5
  OBVIOUS
<1>3. ASSUME ~fit.type, ~fit.ticket
      PROVE  MatchScore(d, p) <= 55
  <2>1. given(fit.type, 25) = 0 /\ given(fit.ticket, 20) = 0
    BY <1>3
  <2>2. MatchScore(d, p) = given(fit.type, 25) + given(fit.ticket, 20)
            + given(fit.term, 15) + given(fit.collateral, 15)
            + given(fit.sectors, 10) + given(fit.regions, 10) + given(fit.stage, 5)
    BY DEF MatchScore
  <2> HIDE DEF given, fit
  <2> QED
    BY <1>2, <2>1, <2>2
<1>4. MatchScore(d, p) \in Int
  <2>1. given(fit.type, 25) \in Int /\ given(fit.ticket, 20) \in Int
    OBVIOUS
  <2>2. MatchScore(d, p) = given(fit.type, 25) + given(fit.ticket, 20)
            + given(fit.term, 15) + given(fit.collateral, 15)
            + given(fit.sectors, 10) + given(fit.regions, 10) + given(fit.stage, 5)
    BY DEF MatchScore
  <2> HIDE DEF given, fit
  <2> QED
    BY <1>2, <2>1, <2>2
<1> QED
  BY <1>1, <1>3, <1>4

\* What no step takes away.
Keeps ==
    /\ profiles \subseteq profiles' /\ listed \subseteq listed'
    /\ \A d \in Demands : Created(d) => Created(d)'
    /\ \A m \in Pairs : status[m] # "none" => status'[m] # "none"

LEMMA MayMatchStays ==
    ASSUME Keeps, NEW m, m[1] \in Demands, MayMatch(m)
    PROVE  MayMatch(m)'
BY DEF Keeps, MayMatch

LEMMA GroundedStays ==
    ASSUME Keeps, NEW q \in Requests, Grounded(q)
    PROVE  /\ q.op = "match" =>
                 Created(q.demand)' /\ \A p \in q.products : MayMatch(<<q.demand, p>>)'
           /\ q.op \in {"move", "review"} => status'[q.match] # "none"
<1>1. ASSUME q.op = "match", NEW p \in q.products
      PROVE  MayMatch(<<q.demand, p>>)'
  <2>1. q.demand \in Demands /\ MayMatch(<<q.demand, p>>)
    BY <1>1, RequestFields DEF Grounded
  <2> QED
    BY <2>1, MayMatchStays
<1>2. q.op = "match" => Created(q.demand)'
  BY RequestFields DEF Grounded, Keeps
<1>3. q.op \in {"move", "review"} => status'[q.match] # "none"
  BY RequestFields DEF Grounded, Keeps
<1> QED
  BY <1>1, <1>2, <1>3

\* Every request after a step is idle, an old one, or new and grounded.
LEMMA GroundedStep ==
    ASSUME Entitled, Keeps, NEW h \in Handlers,
           req'[h] \in {Idle, req[h]}
    PROVE  Grounded(req[h])'
<1>1. CASE req'[h] = Idle
  BY <1>1 DEF Grounded, Idle
<1>2. CASE req'[h] = req[h]
  <2>1. PICK q \in Requests : q = req[h] /\ Grounded(q)
    BY DEF Entitled, Typed, TypeOK
  <2>2. /\ q.op = "match" =>
              Created(q.demand)' /\ \A p \in q.products : MayMatch(<<q.demand, p>>)'
        /\ q.op \in {"move", "review"} => status'[q.match] # "none"
    BY <2>1, GroundedStays
  <2>3. req'[h] = q
    BY <1>2, <2>1
  <2> QED
    BY <2>2, <2>3 DEF Grounded, MayMatch, Created
<1> QED
  BY <1>1, <1>2

\* A request begins with what it has just read.
LEMMA BegunIsGrounded ==
    ASSUME Entitled, NEW h \in Handlers,
           \/ \E d \in Demands : BeginMatching(h, d)
           \/ \E m \in Pairs, s \in AgentMoves : BeginAgentMove(h, m, s)
           \/ \E m \in Pairs, s \in FunderMoves : BeginFunderMove(h, m, s)
           \/ \E m \in Pairs, cited \in {NoAssessment} \cup DOMAIN assessments :
                 BeginRelease(h, m, cited)
           \/ \E m \in Pairs, decision \in Decisions : BeginRefusal(h, m, decision)
    PROVE  /\ UNCHANGED <<market, status, eligible>>
           /\ \A g \in Handlers : g # h => req'[g] = req[g]
           /\ Grounded(req'[h])
<1>0. req \in [Handlers -> Requests]
  BY DEF Entitled, Typed, TypeOK
<1>1. ASSUME NEW q, Begin(h, q)
      PROVE  req'[h] = q /\ \A g \in Handlers : g # h => req'[g] = req[g]
  BY <1>0, <1>1 DEF Begin
<1>2. ASSUME NEW d \in Demands, BeginMatching(h, d)
      PROVE  \E q : /\ Begin(h, q) /\ Grounded(q)
                    /\ UNCHANGED <<market, status, eligible>>
  <2> DEFINE q == [op |-> "match", demand |-> d, version |-> credit[d],
                   products |-> {p \in listed : p.status = "ACTIVE"}]
  <2>1. Begin(h, q) /\ UNCHANGED <<market, status, eligible>>
    BY <1>2 DEF BeginMatching
  <2>2. /\ q.op = "match" /\ q.demand = d
        /\ q.products = {p \in listed : p.status = "ACTIVE"}
    OBVIOUS
  <2>3. d.consent = "GRANTED" /\ Created(d)
    BY <1>2 DEF BeginMatching
  <2> HIDE DEF q
  <2>4. Grounded(q)
    BY <2>2, <2>3 DEF Grounded, MayMatch
  <2> QED
    BY <2>1, <2>4
<1>3. ASSUME NEW q, q.op \in {"move", "review"}, status[q.match] # "none"
      PROVE  Grounded(q)
  BY <1>3 DEF Grounded
<1>4. ASSUME NEW m \in Pairs, NEW s \in AgentMoves, BeginAgentMove(h, m, s)
      PROVE  \E q : /\ Begin(h, q) /\ Grounded(q)
                    /\ UNCHANGED <<market, status, eligible>>
  <2> DEFINE q == [op |-> "move", by |-> "agent", match |-> m, was |-> status[m], status |-> s]
  <2>1. Begin(h, q) /\ UNCHANGED <<market, status, eligible>> /\ status[m] # "none"
    BY <1>4 DEF BeginAgentMove
  <2>2. q.op = "move" /\ q.match = m
    OBVIOUS
  <2> HIDE DEF q
  <2> QED
    BY <1>3, <2>1, <2>2
<1>5. ASSUME NEW m \in Pairs, NEW s \in FunderMoves, BeginFunderMove(h, m, s)
      PROVE  \E q : /\ Begin(h, q) /\ Grounded(q)
                    /\ UNCHANGED <<market, status, eligible>>
  <2> DEFINE q == [op |-> "move", by |-> "funder", match |-> m, was |-> status[m], status |-> s]
  <2>1. Begin(h, q) /\ UNCHANGED <<market, status, eligible>> /\ status[m] # "none"
    BY <1>5 DEF BeginFunderMove
  <2>2. q.op = "move" /\ q.match = m
    OBVIOUS
  <2> HIDE DEF q
  <2> QED
    BY <1>3, <2>1, <2>2
<1>6. ASSUME NEW m \in Pairs, NEW cited \in {NoAssessment} \cup DOMAIN assessments,
             BeginRelease(h, m, cited)
      PROVE  \E q : /\ Begin(h, q) /\ Grounded(q)
                    /\ UNCHANGED <<market, status, eligible>>
  <2> DEFINE a == IF cited # NoAssessment THEN cited ELSE Latest(m[1])
             q == Review(m, "APPROVE_CONTACT", cited, a)
  <2>1. Begin(h, q) /\ UNCHANGED <<market, status, eligible>>
    BY <1>6 DEF BeginRelease
  <2>2. status[m] # "none"
    BY <1>6 DEF BeginRelease, CanBeReleased, Reviewable
  <2>3. q.op = "review" /\ q.match = m
    BY DEF Review
  <2> HIDE DEF q
  <2> QED
    BY <1>3, <2>1, <2>2, <2>3
<1>7. ASSUME NEW m \in Pairs, NEW decision \in Decisions, BeginRefusal(h, m, decision)
      PROVE  \E q : /\ Begin(h, q) /\ Grounded(q)
                    /\ UNCHANGED <<market, status, eligible>>
  <2> DEFINE q == Review(m, decision, NoAssessment, NoAssessment)
  <2>1. Begin(h, q) /\ UNCHANGED <<market, status, eligible>> /\ status[m] # "none"
    BY <1>7 DEF BeginRefusal
  <2>2. q.op = "review" /\ q.match = m
    BY DEF Review
  <2> HIDE DEF q
  <2> QED
    BY <1>3, <2>1, <2>2
<1>8. PICK q : Begin(h, q) /\ Grounded(q) /\ UNCHANGED <<market, status, eligible>>
  BY <1>2, <1>4, <1>5, <1>6, <1>7
<1> QED
  BY <1>1, <1>8

\* Steps that match nobody.
LEMMA NothingMatched ==
    ASSUME Entitled, Keeps, Typed', Market', eligible' = eligible,
           \A m \in Pairs : status'[m] # "none" => status[m] # "none",
           \A h \in Handlers : Grounded(req[h])'
    PROVE  Entitled'
<1>1. \A m \in Pairs : status'[m] # "none" => MayMatch(m)'
  BY MayMatchStays, PairFacts DEF Entitled
<1>2. \A m \in eligible' : Eligible(m[1], m[2])
  BY DEF Entitled
<1> QED
  BY <1>1, <1>2 DEF Entitled, Eligible, MatchScore, Fit, Overlap

LEMMA EntryEntitled ==
    ASSUME Entitled, Typed',
           \/ \E r \in Registrations : Register(r[1], r[2])
           \/ \E p \in Offers : ListProduct(p)
           \/ \E d \in Demands : CreateCreditRequest(d)
    PROVE  Entitled'
<1>0. /\ credit \in [Demands -> Nat] /\ Market
      /\ UNCHANGED <<status, eligible, req>>
  BY DEF Entitled, Typed, TypeOK, Register, ListProduct, CreateCreditRequest
<1>1. Keeps /\ Market'
  <2>1. ASSUME NEW r \in Registrations, Register(r[1], r[2])
        PROVE  Keeps /\ Market'
    <3>1. profiles \subseteq profiles' /\ listed' = listed /\ credit' = credit
      BY <2>1 DEF Register
    <3> QED
      BY <1>0, <3>1 DEF Keeps, Market, Created
  <2>2. ASSUME NEW p \in Offers, ListProduct(p)
        PROVE  Keeps /\ Market'
    <3>1. /\ profiles' = profiles /\ credit' = credit /\ listed' = listed \cup {p}
          /\ <<"FUNDER", p.provider>> \in profiles
      BY <2>2 DEF ListProduct
    <3> QED
      BY <1>0, <3>1 DEF Keeps, Market, Created
  <2>3. ASSUME NEW d \in Demands, CreateCreditRequest(d)
        PROVE  Keeps /\ Market'
    <3>1. /\ profiles' = profiles /\ listed' = listed
          /\ <<"BORROWER", d.owner>> \in profiles
          /\ \A c \in Demands : credit'[c] = IF c = d THEN 1 ELSE credit[c]
      BY <1>0, <2>3 DEF CreateCreditRequest
    <3> QED
      BY <1>0, <3>1 DEF Keeps, Market, Created
  <2> QED
    BY <2>1, <2>2, <2>3
<1>2. \A h \in Handlers : Grounded(req[h])'
  BY <1>0, <1>1, GroundedStep
<1> QED
  BY <1>0, <1>1, <1>2, NothingMatched

\* A run of matching writes what it found, and scores it.
LEMMA MatchEntitled ==
    ASSUME Entitled, Typed', NEW h \in Handlers, CommitMatching(h)
    PROVE  Entitled'
<1>0. TypeOK
  BY DEF Entitled, Typed
<1>1. PICK d \in Demands, products \in SUBSET Offers, version \in Nat :
         /\ req[h].op = "match" /\ d = req[h].demand /\ products = req[h].products
         /\ version = req[h].version
  BY <1>0, RequestFields DEF CommitMatching, TypeOK
<1> DEFINE found == {<<d, p>> : p \in products}
           new == {m \in found : status[m] = "none"}
<1>2. /\ status' = [m \in Pairs |-> IF m \in new THEN "SUGGESTED" ELSE status[m]]
      /\ eligible' = (eligible \ found) \cup {m \in found : Eligible(m[1], m[2])}
      /\ credit' = [credit EXCEPT ![d] = version + 1]
      /\ profiles' = profiles /\ listed' = listed /\ End(h)
  BY <1>1 DEF CommitMatching
<1>3. Created(d) /\ \A p \in products : MayMatch(<<d, p>>)
  BY <1>1 DEF Entitled, Grounded
<1>4. \A m \in found : m \in Pairs /\ MayMatch(m)
  BY <1>3 DEF Pairs
<1> HIDE DEF found
<1>5. \A c \in Demands : credit'[c] = IF c = d THEN version + 1 ELSE credit[c]
  BY <1>0, <1>2 DEF TypeOK
<1>6. \A m \in Pairs :
         /\ status'[m] # "none" => status[m] # "none" \/ m \in found
         /\ status[m] # "none" => status'[m] # "none"
  BY <1>0, <1>2
<1>7. Keeps
  BY <1>0, <1>2, <1>5, <1>6 DEF Keeps, Created, TypeOK
<1>8. Market'
  <2>1. \A c \in Demands : Created(c)' => Created(c)
    BY <1>3, <1>5 DEF Created
  <2> QED
    BY <1>2, <2>1 DEF Entitled, Market
<1>9. \A m \in Pairs : status'[m] # "none" => MayMatch(m)'
  BY <1>4, <1>6, <1>7, MayMatchStays, PairFacts DEF Entitled
<1>10. \A m \in eligible' : Eligible(m[1], m[2])
  BY <1>2 DEF Entitled
<1>11. \A g \in Handlers : Grounded(req[g])'
  BY <1>0, <1>2, <1>7, EndFacts, GroundedStep
<1> QED
  BY <1>8, <1>9, <1>10, <1>11 DEF Entitled, Eligible, MatchScore, Fit, Overlap

\* A move or a review writes a status to a match that exists.
LEMMA WriteEntitled ==
    ASSUME Entitled, Typed', NEW h \in Handlers, CommitMove(h) \/ CommitReview(h)
    PROVE  Entitled'
<1>0. TypeOK
  BY DEF Entitled, Typed
<1>1. PICK m \in Pairs, s \in Statuses, was \in Statuses :
         /\ req[h].op \in {"move", "review"} /\ m = req[h].match
         /\ Move(m, was, s) /\ End(h) /\ UNCHANGED <<market, eligible>>
  BY <1>0, MoveFacts, ReviewFacts
<1>2. /\ \A n \in Pairs : n # m => status'[n] = status[n]
      /\ status'[m] = IF s = was THEN status[m] ELSE s
  BY <1>0, <1>1, MoveType
<1>3. status[m] # "none" /\ s # "none"
  BY <1>1 DEF Entitled, Grounded, Statuses
<1>4. Keeps
  BY <1>1, <1>2, <1>3 DEF Keeps, Created, market
<1>5. Market'
  BY <1>1 DEF Entitled, Market, Created, market
<1>6. \A g \in Handlers : Grounded(req[g])'
  BY <1>0, <1>1, <1>4, EndFacts, GroundedStep
<1>7. \A n \in Pairs : status'[n] # "none" => status[n] # "none"
  BY <1>2, <1>3
<1>8. eligible' = eligible
  BY <1>1
<1> QED
  BY <1>4, <1>5, <1>6, <1>7, <1>8, NothingMatched

LEMMA EntitledStep ==
    ASSUME Entitled, [Next]_vars
    PROVE  Entitled'
<1>0. Typed' /\ TypeOK
  BY StepTyped DEF Entitled, Typed
<1>1. ASSUME UNCHANGED <<market, status, eligible>>,
             \A g \in Handlers : req'[g] \in {Idle, req[g]} \/ Grounded(req'[g])
      PROVE  Entitled'
  <2>1. Keeps /\ Market'
    BY <1>1 DEF Entitled, Keeps, Market, Created, market
  <2>2. \A g \in Handlers : Grounded(req[g])'
    <3>1. ASSUME NEW g \in Handlers, Grounded(req'[g])
          PROVE  Grounded(req[g])'
      BY <1>1, <3>1 DEF Grounded, MayMatch, Created, market
    <3> QED
      BY <1>1, <2>1, <3>1, GroundedStep
  <2> QED
    BY <1>0, <1>1, <2>1, <2>2, NothingMatched
<1>2. ASSUME UNCHANGED <<market, status, eligible, req>>
      PROVE  Entitled'
  BY <1>1, <1>2
<1>3. CASE UNCHANGED vars
  BY <1>2, <1>3 DEF vars, market
<1>4. ASSUME NEW d \in Demands, NEW x \in Dossiers, Assess(d, x)
      PROVE  Entitled'
  BY <1>2, <1>4 DEF Assess
<1>5. ASSUME NEW h \in Handlers, Abort(h)
      PROVE  Entitled'
  BY <1>0, <1>1, <1>5, EndFacts DEF Abort
<1>6. ASSUME NEW h \in Handlers,
             \/ \E d \in Demands : BeginMatching(h, d)
             \/ \E m \in Pairs, s \in AgentMoves : BeginAgentMove(h, m, s)
             \/ \E m \in Pairs, s \in FunderMoves : BeginFunderMove(h, m, s)
             \/ \E m \in Pairs, cited \in {NoAssessment} \cup DOMAIN assessments :
                   BeginRelease(h, m, cited)
             \/ \E m \in Pairs, decision \in Decisions : BeginRefusal(h, m, decision)
      PROVE  Entitled'
  <2>1. /\ UNCHANGED <<market, status, eligible>>
        /\ \A g \in Handlers : g # h => req'[g] = req[g]
        /\ Grounded(req'[h])
    BY <1>6, BegunIsGrounded
  <2> QED
    BY <1>1, <2>1
<1>7. CASE Next
  BY <1>0, <1>4, <1>5, <1>6, <1>7, EntryEntitled, MatchEntitled, WriteEntitled DEF Next
<1> QED
  BY <1>3, <1>7

\* A match exists only for a consented request of a registered borrower and an
\* active product of a registered provider, and one that is called eligible
\* fits the product's type or its ticket, however runs of matching overlap and
\* whatever is asked and offered.
THEOREM Entitlement == Spec => []MatchesAreEntitled
<1>1. Init => Entitled
  <2> SUFFICES ASSUME Init PROVE Entitled
    OBVIOUS
  <2>1. Market /\ \A h \in Handlers : Grounded(req[h])
    BY DEF Init, Market, Created, Grounded, Idle
  <2>2. \A m \in Pairs : status[m] = "none"
    BY DEF Init
  <2>3. eligible = {}
    BY DEF Init
  <2> QED
    BY InitTyped, <2>1, <2>2, <2>3 DEF Entitled
<1>2. Entitled /\ [Next]_vars => Entitled'
  BY EntitledStep
<1>3. Entitled => MatchesAreEntitled
  <2> SUFFICES ASSUME Entitled, NEW m \in Pairs, status[m] # "none"
               PROVE  /\ m[1].consent = "GRANTED" /\ Created(m[1])
                      /\ m[2] \in listed /\ m[2].status = "ACTIVE"
                      /\ {<<"BORROWER", m[1].owner>>, <<"FUNDER", m[2].provider>>} \subseteq profiles
                      /\ m \in eligible => Fit(m[1], m[2]).type \/ Fit(m[1], m[2]).ticket
    BY DEF MatchesAreEntitled
  <2>1. MayMatch(m) /\ m[1] \in Demands
    BY PairFacts DEF Entitled
  <2>2. <<"BORROWER", m[1].owner>> \in profiles /\ <<"FUNDER", m[2].provider>> \in profiles
    BY <2>1 DEF Entitled, Market, MayMatch
  <2>3. m \in eligible => Fit(m[1], m[2]).type \/ Fit(m[1], m[2]).ticket
    BY EligibleFits DEF Entitled
  <2> QED
    BY <2>1, <2>2, <2>3 DEF MayMatch
<1> QED
  BY <1>1, <1>2, <1>3, PTL DEF Spec

=============================================================================
