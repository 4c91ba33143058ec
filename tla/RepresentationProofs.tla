------------------------ MODULE RepresentationProofs ------------------------
(***************************************************************************)
(* Proofs about Representation: its type invariant, that grants derive     *)
(* from accepted mandates and that the stage of an opportunity is that of  *)
(* its latest qualification, however many requests overlap.                *)
(***************************************************************************)
EXTENDS Representation, TLAPS

-----------------------------------------------------------------------------
(* Facts about the operators the model is built from.                      *)

\* What the mandate's actions map to are permissions, never QUALIFY, and each
\* comes from its own action.
LEMMA GrantPermissionsFacts ==
    ASSUME NEW allowed \in SUBSET Actions
    PROVE  /\ GrantPermissions(allowed) \subseteq Permissions
           /\ "QUALIFY" \notin GrantPermissions(allowed)
           /\ "READ" \in GrantPermissions(allowed) => "VIEW_STATUS" \in allowed
           /\ "UPLOAD_DOCUMENTS" \in GrantPermissions(allowed) => "UPLOAD_DOCUMENTS" \in allowed
<1> DEFINE granted == [VIEW_STATUS |-> "READ", UPDATE_OPPORTUNITY |-> "UPDATE",
                       UPLOAD_DOCUMENTS |-> "UPLOAD_DOCUMENTS"]
<1>1. /\ DOMAIN granted = {"VIEW_STATUS", "UPDATE_OPPORTUNITY", "UPLOAD_DOCUMENTS"}
      /\ granted["VIEW_STATUS"] = "READ"
      /\ granted["UPDATE_OPPORTUNITY"] = "UPDATE"
      /\ granted["UPLOAD_DOCUMENTS"] = "UPLOAD_DOCUMENTS"
  OBVIOUS
<1>2. GrantPermissions(allowed) = {granted[a] : a \in allowed \cap DOMAIN granted}
  BY DEF GrantPermissions
<1> HIDE DEF granted
<1> QED
  BY <1>1, <1>2 DEF Permissions

\* The stage of a result is one of the three a qualification leads to.
LEMMA QualificationStageType ==
    ASSUME NEW result
    PROVE  QualificationStage(result) \in {"QUALIFIED", "REJECTED", "INFORMATION_PENDING"}
<1>1. CASE result \in {"ELIGIBLE", "CONDITIONALLY_ELIGIBLE"}
  BY <1>1 DEF QualificationStage
<1>2. CASE result = "NOT_ELIGIBLE"
  BY <1>2 DEF QualificationStage
<1>3. CASE result \notin {"ELIGIBLE", "CONDITIONALLY_ELIGIBLE", "NOT_ELIGIBLE"}
  BY <1>3 DEF QualificationStage
<1> QED
  BY <1>1, <1>2, <1>3

\* The grants of a new opportunity are grants, at that opportunity.
LEMMA NewGrantsType ==
    ASSUME TypeOK, NEW o \in Opps, NEW p \in DOMAIN reps
    PROVE  /\ NewGrants(o, p) \subseteq Grants
           /\ \A g \in NewGrants(o, p) : g.opp = o
<1>1. reps[p].allowed \in SUBSET Actions /\ reps[p].originator \in Tenants
  BY DEF TypeOK, Representations
<1>2. GrantPermissions(reps[p].allowed) \subseteq Permissions
  BY <1>1, GrantPermissionsFacts
<1> QED
  BY <1>1, <1>2 DEF NewGrants, Grants, Permissions

-----------------------------------------------------------------------------
(* The type invariant.                                                     *)

LEMMA TypeInit == Init => TypeOK
BY DEF Init, TypeOK, ForeignKeys, RequestsInFlight, Idle

\* A request that begins, or ends, keeps the requests well typed.
LEMMA BeginType ==
    ASSUME TypeOK, NEW r \in Requests, NEW request \in RequestsInFlight, Begin(r, request)
    PROVE  req' \in [Requests -> RequestsInFlight]
BY DEF TypeOK, Begin

LEMMA EndType ==
    ASSUME TypeOK, NEW r \in Requests, End(r)
    PROVE  req' \in [Requests -> RequestsInFlight]
BY DEF TypeOK, End, RequestsInFlight

\* What a request in flight carries.
LEMMA InFlight ==
    ASSUME TypeOK, NEW r \in Requests
    PROVE  /\ req[r].op \in {"accept", "revoke", "revoking", "create"} =>
                 req[r].rep \in Reps /\ req[r].rep \in DOMAIN reps
           /\ req[r].op \in {"upload", "qualify", "qualifying"} =>
                 /\ req[r].opp \in Opps /\ req[r].opp \in DOMAIN opps
                 /\ req[r].by \in Tenants
           /\ req[r].op \in {"qualify", "qualifying"} =>
                 req[r].expected \in 1 .. MaxVersion - 1 /\ req[r].result \in Results
           /\ req[r].op = "revoking" => req[r].rows \subseteq Grants
           /\ req[r] = Idle => req[r].op = "idle"
<1>1. req[r] \in RequestsInFlight
  BY DEF TypeOK
<1> QED
  BY <1>1 DEF TypeOK, ForeignKeys, RequestsInFlight, Idle

LEMMA RequestType ==
    ASSUME TypeOK, NEW m \in Mandates, RequestRepresentation(m)
    PROVE  TypeOK'
<1>1. m.rep \in Reps /\ m.originator \in Tenants /\ m.represented \in Tenants /\ m.allowed \in SUBSET Actions
  BY RepresentationAssumption
<1>2. /\ DOMAIN reps' \subseteq Reps /\ DOMAIN reps \subseteq DOMAIN reps'
      /\ reps' \in [DOMAIN reps' -> Representations]
  BY <1>1 DEF TypeOK, RequestRepresentation, Representations
<1> QED
  BY <1>2 DEF TypeOK, ForeignKeys, RequestRepresentation

\* The steps that only begin or end a request.
LEMMA ReadType ==
    ASSUME TypeOK, UNCHANGED <<reps, opps, grants, docs, serial>>,
           NEW r \in Requests,
           \/ End(r)
           \/ \E p \in DOMAIN reps, op \in {"accept", "revoke", "create"} :
                 Begin(r, [op |-> op, rep |-> p])
           \/ \E o \in DOMAIN opps, t \in Tenants : Begin(r, [op |-> "upload", opp |-> o, by |-> t])
           \/ \E o \in DOMAIN opps, t \in Tenants, expected \in 1 .. MaxVersion - 1, result \in Results :
                 Begin(r, [op |-> "qualify", opp |-> o, by |-> t, expected |-> expected,
                           result |-> result])
    PROVE  TypeOK'
<1>1. SUFFICES req' \in [Requests -> RequestsInFlight] /\ ForeignKeys'
  BY DEF TypeOK
<1>2. CASE End(r)
  BY <1>2, EndType DEF TypeOK, ForeignKeys, End, Idle
<1>3. ASSUME NEW p \in DOMAIN reps, NEW op \in {"accept", "revoke", "create"},
             Begin(r, [op |-> op, rep |-> p])
      PROVE  req' \in [Requests -> RequestsInFlight] /\ ForeignKeys'
  <2>1. [op |-> op, rep |-> p] \in RequestsInFlight
    BY DEF RequestsInFlight, TypeOK
  <2> QED
    BY <1>3, <2>1, BeginType DEF TypeOK, ForeignKeys, Begin
<1>4. ASSUME NEW o \in DOMAIN opps, NEW t \in Tenants, Begin(r, [op |-> "upload", opp |-> o, by |-> t])
      PROVE  req' \in [Requests -> RequestsInFlight] /\ ForeignKeys'
  <2>1. [op |-> "upload", opp |-> o, by |-> t] \in RequestsInFlight
    BY DEF RequestsInFlight, TypeOK
  <2> QED
    BY <1>4, <2>1, BeginType DEF TypeOK, ForeignKeys, Begin
<1>5. ASSUME NEW o \in DOMAIN opps, NEW t \in Tenants, NEW expected \in 1 .. MaxVersion - 1,
             NEW result \in Results,
             Begin(r, [op |-> "qualify", opp |-> o, by |-> t, expected |-> expected, result |-> result])
      PROVE  req' \in [Requests -> RequestsInFlight] /\ ForeignKeys'
  <2>1. [op |-> "qualify", opp |-> o, by |-> t, expected |-> expected, result |-> result]
           \in RequestsInFlight
    BY DEF RequestsInFlight, TypeOK
  <2> QED
    BY <1>5, <2>1, BeginType DEF TypeOK, ForeignKeys, Begin
<1> QED
  BY <1>2, <1>3, <1>4, <1>5

LEMMA CommitAcceptType ==
    ASSUME TypeOK, NEW r \in Requests, CommitAccept(r)
    PROVE  TypeOK'
<1>1. req[r].rep \in DOMAIN reps /\ req' \in [Requests -> RequestsInFlight]
  BY InFlight, EndType DEF CommitAccept
<1>2. DOMAIN reps' = DOMAIN reps /\ reps' \in [DOMAIN reps' -> Representations]
  BY <1>1 DEF TypeOK, CommitAccept, Representations
<1> QED
  BY <1>1, <1>2 DEF TypeOK, ForeignKeys, CommitAccept, End, Idle

LEMMA RevokeGrantsType ==
    ASSUME TypeOK, NEW r \in Requests, RevokeGrants(r)
    PROVE  TypeOK'
<1> DEFINE rows == {g \in grants : ActiveGrantOf(g, req[r].rep)}
<1>1. rows \in SUBSET Grants
  BY DEF TypeOK
<1>2. req' = [req EXCEPT ![r] = [op |-> "revoking", rep |-> req[r].rep, rows |-> rows]]
  BY DEF RevokeGrants
<1> HIDE DEF rows
<1>3. req[r].rep \in DOMAIN reps /\ req[r].rep \in Reps
  BY InFlight DEF RevokeGrants
<1>4. [op |-> "revoking", rep |-> req[r].rep, rows |-> rows] \in RequestsInFlight
  BY <1>1, <1>3 DEF RequestsInFlight
<1>5. req' \in [Requests -> RequestsInFlight]
  BY <1>2, <1>4 DEF TypeOK
<1>6. ForeignKeys'
  BY <1>2, <1>3 DEF TypeOK, ForeignKeys, RevokeGrants
<1> QED
  BY <1>5, <1>6 DEF TypeOK, RevokeGrants

\* A revocation changes the status of grants and nothing else about them.
LEMMA RevokedGrantType ==
    ASSUME NEW g \in Grants
    PROVE  /\ [g EXCEPT !.status = "REVOKED"] \in Grants
           /\ [g EXCEPT !.status = "REVOKED"].opp = g.opp
BY DEF Grants

LEMMA CommitRevokeType ==
    ASSUME TypeOK, NEW r \in Requests, CommitRevoke(r)
    PROVE  TypeOK'
<1>1. req[r].rep \in DOMAIN reps /\ req' \in [Requests -> RequestsInFlight]
  BY InFlight, EndType DEF CommitRevoke
<1>2. DOMAIN reps' = DOMAIN reps /\ reps' \in [DOMAIN reps' -> Representations]
  BY <1>1 DEF TypeOK, CommitRevoke, Representations
<1>3. \A g \in grants' : \E h \in grants : g = h \/ g = [h EXCEPT !.status = "REVOKED"]
  BY DEF CommitRevoke
<1>4. grants' \subseteq Grants /\ \A g \in grants' : g.opp \in DOMAIN opps
  <2> SUFFICES ASSUME NEW g \in grants' PROVE g \in Grants /\ g.opp \in DOMAIN opps
    OBVIOUS
  <2>1. PICK h \in grants : g = h \/ g = [h EXCEPT !.status = "REVOKED"]
    BY <1>3
  <2>2. h \in Grants /\ h.opp \in DOMAIN opps
    BY DEF TypeOK, ForeignKeys
  <2> QED
    BY <2>1, <2>2, RevokedGrantType
<1>5. ForeignKeys'
  BY <1>2, <1>4 DEF TypeOK, ForeignKeys, CommitRevoke, End, Idle
<1> QED
  BY <1>1, <1>2, <1>4, <1>5 DEF TypeOK, CommitRevoke

LEMMA CommitCreateType ==
    ASSUME TypeOK, NEW r \in Requests, NEW o \in Opps, CommitCreate(r, o)
    PROVE  TypeOK'
<1>1. /\ req[r].rep \in DOMAIN reps /\ req[r].rep \in Reps
      /\ req' \in [Requests -> RequestsInFlight]
  BY InFlight, EndType DEF CommitCreate
<1>2. << >> \in Seq([by: Tenants, result: Results])
  OBVIOUS
<1>3. [rep |-> req[r].rep, stage |-> "DRAFT", version |-> 1, cases |-> << >>] \in Opportunities
  BY <1>1, <1>2, RepresentationAssumption DEF Opportunities
<1>4. /\ DOMAIN opps' = DOMAIN opps \cup {o}
      /\ opps' \in [DOMAIN opps' -> Opportunities]
      /\ \A q \in DOMAIN opps' : opps'[q].rep \in DOMAIN reps
  BY <1>1, <1>3 DEF TypeOK, ForeignKeys, CommitCreate
<1>5. grants' \subseteq Grants /\ \A g \in grants' : g.opp \in DOMAIN opps'
  BY <1>1, <1>4, NewGrantsType DEF TypeOK, ForeignKeys, CommitCreate
<1>6. ForeignKeys'
  BY <1>4, <1>5 DEF TypeOK, ForeignKeys, CommitCreate, End, Idle
<1> QED
  BY <1>1, <1>4, <1>5, <1>6 DEF TypeOK, CommitCreate

LEMMA CommitUploadType ==
    ASSUME TypeOK, NEW r \in Requests, CommitUpload(r)
    PROVE  TypeOK'
<1>1. /\ req[r].opp \in Opps /\ req[r].opp \in DOMAIN opps /\ req[r].by \in Tenants
      /\ req' \in [Requests -> RequestsInFlight]
  BY InFlight, EndType DEF CommitUpload
<1>2. ForeignKeys'
  BY <1>1 DEF TypeOK, ForeignKeys, CommitUpload, End, Idle
<1> QED
  BY <1>1, <1>2 DEF TypeOK, CommitUpload

LEMMA CompareVersionType ==
    ASSUME TypeOK, NEW r \in Requests, CompareVersion(r)
    PROVE  TypeOK'
<1>1. CASE End(r)
  BY <1>1, ReadType DEF CompareVersion
<1>2. CASE req' = [req EXCEPT ![r].op = "qualifying"]
  <2>1. req[r] \in RequestsInFlight /\ req[r].op = "qualify"
    BY DEF TypeOK, CompareVersion
  <2>2. [req[r] EXCEPT !.op = "qualifying"] \in RequestsInFlight
    BY <2>1 DEF RequestsInFlight, Idle
  <2>3. req' \in [Requests -> RequestsInFlight]
    BY <1>2, <2>2 DEF TypeOK
  <2>4. req[r].opp \in DOMAIN opps
    BY <2>1, InFlight
  <2>5. req'[r].op = "qualifying" /\ req'[r].opp = req[r].opp
    BY <1>2, <2>1 DEF TypeOK, RequestsInFlight, Idle
  <2>6. ForeignKeys'
    BY <1>2, <2>4, <2>5 DEF TypeOK, ForeignKeys, CompareVersion
  <2> QED
    BY <2>3, <2>6 DEF TypeOK, CompareVersion
<1> QED
  BY <1>1, <1>2 DEF CompareVersion

LEMMA QualifyKeepsMandates ==
    ASSUME TypeOK, NEW r \in Requests, CommitQualify(r)
    PROVE  /\ DOMAIN opps' = DOMAIN opps
           /\ \A q \in DOMAIN opps : opps'[q].rep = opps[q].rep
<1>1. \A q \in DOMAIN opps : opps[q] \in Opportunities
  BY DEF TypeOK
<1>2. ASSUME NEW q \in DOMAIN opps, q = req[r].opp  PROVE opps'[q].rep = opps[q].rep
  <2>1. opps[q] \in Opportunities
    BY <1>1
  <2> QED
    BY <1>2, <2>1 DEF CommitQualify, Opportunities
<1>3. ASSUME NEW q \in DOMAIN opps, q # req[r].opp  PROVE opps'[q] = opps[q]
  BY <1>3 DEF CommitQualify
<1>4. DOMAIN opps' = DOMAIN opps
  BY DEF CommitQualify
<1> QED
  BY <1>2, <1>3, <1>4

LEMMA CommitQualifyType ==
    ASSUME TypeOK, NEW r \in Requests, CommitQualify(r)
    PROVE  TypeOK'
<1> DEFINE o == req[r].opp
           case == [by |-> req[r].by, result |-> req[r].result]
<1>1. /\ o \in DOMAIN opps /\ req[r].by \in Tenants /\ req[r].result \in Results
      /\ req[r].expected \in 1 .. MaxVersion - 1
      /\ req' \in [Requests -> RequestsInFlight]
  BY InFlight, EndType DEF CommitQualify
<1>2. opps[o] \in Opportunities
  BY <1>1 DEF TypeOK
<1>3. Append(opps[o].cases, case) \in Seq([by: Tenants, result: Results])
  BY <1>1, <1>2 DEF Opportunities
<1>4. QualificationStage(req[r].result) \in {"QUALIFIED", "REJECTED", "INFORMATION_PENDING"}
  BY QualificationStageType
<1>5. req[r].expected + 1 \in 1 .. MaxVersion
  BY <1>1, RepresentationAssumption
<1>6. /\ DOMAIN opps' = DOMAIN opps
      /\ opps' = [opps EXCEPT ![o].stage = QualificationStage(req[r].result),
                              ![o].version = req[r].expected + 1,
                              ![o].cases = Append(@, case)]
  BY <1>1, <1>2 DEF CommitQualify
<1> HIDE DEF o, case
<1>7. /\ opps' \in [DOMAIN opps' -> Opportunities]
      /\ \A q \in DOMAIN opps' : opps'[q].rep = opps[q].rep
  <2>1. ASSUME NEW q \in DOMAIN opps', q = o  PROVE opps'[q] \in Opportunities
    BY <1>1, <1>2, <1>3, <1>4, <1>5, <1>6, <2>1 DEF Opportunities
  <2>2. ASSUME NEW q \in DOMAIN opps', q # o  PROVE opps'[q] \in Opportunities
    BY <1>6, <2>2 DEF TypeOK
  <2>3. DOMAIN opps' = DOMAIN opps /\ opps' = [q \in DOMAIN opps' |-> opps'[q]]
    BY <1>6
  <2> QED
    BY <2>1, <2>2, <2>3, QualifyKeepsMandates
<1>8. ForeignKeys'
  <2>1. /\ reps' = reps /\ grants' = grants /\ docs' = docs /\ DOMAIN opps' = DOMAIN opps
        /\ ForeignKeys
    BY <1>6 DEF TypeOK, CommitQualify
  <2>2. \A q \in Requests : req'[q] = Idle \/ req'[q] = req[q]
    BY DEF CommitQualify, End, TypeOK
  <2>3. Idle.op = "idle"
    BY DEF Idle
  <2> QED
    BY <1>7, <2>1, <2>2, <2>3 DEF ForeignKeys
<1> QED
  BY <1>1, <1>6, <1>7, <1>8 DEF TypeOK, CommitQualify

LEMMA TypeStep == TypeOK /\ [Next]_vars => TypeOK'
<1> SUFFICES ASSUME TypeOK, [Next]_vars PROVE TypeOK'
  OBVIOUS
<1>1. ASSUME NEW m \in Mandates, RequestRepresentation(m) PROVE TypeOK'
  BY <1>1, RequestType
<1>2. ASSUME NEW r \in Requests, Abort(r) PROVE TypeOK'
  BY <1>2, ReadType DEF Abort
<1>3. ASSUME NEW r \in Requests, CommitAccept(r) PROVE TypeOK'
  BY <1>3, CommitAcceptType
<1>4. ASSUME NEW r \in Requests, RevokeGrants(r) PROVE TypeOK'
  BY <1>4, RevokeGrantsType
<1>5. ASSUME NEW r \in Requests, CommitRevoke(r) PROVE TypeOK'
  BY <1>5, CommitRevokeType
<1>6. ASSUME NEW r \in Requests, CommitUpload(r) PROVE TypeOK'
  BY <1>6, CommitUploadType
<1>7. ASSUME NEW r \in Requests, CompareVersion(r) PROVE TypeOK'
  BY <1>7, CompareVersionType
<1>8. ASSUME NEW r \in Requests, CommitQualify(r) PROVE TypeOK'
  BY <1>8, CommitQualifyType
<1>9. ASSUME NEW r \in Requests, NEW p \in DOMAIN reps,
             ReadForAccept(r, p) \/ ReadForRevoke(r, p) \/ ReadForCreate(r, p)
      PROVE  TypeOK'
  BY <1>9, ReadType DEF ReadForAccept, ReadForRevoke, ReadForCreate
<1>10. ASSUME NEW r \in Requests, NEW o \in Opps, CommitCreate(r, o) PROVE TypeOK'
  BY <1>10, CommitCreateType
<1>11. ASSUME NEW r \in Requests, NEW o \in DOMAIN opps, NEW t \in Tenants, CheckUpload(r, o, t)
       PROVE  TypeOK'
  BY <1>11, ReadType DEF CheckUpload
<1>12. ASSUME NEW r \in Requests, NEW o \in DOMAIN opps, NEW t \in Analysts,
              NEW expected \in 1 .. MaxVersion - 1, NEW result \in Results,
              CheckQualify(r, o, t, expected, result)
       PROVE  TypeOK'
  <2>1. t \in Tenants
    BY RepresentationAssumption
  <2> QED
    BY <1>12, <2>1, ReadType DEF CheckQualify
<1>13. CASE UNCHANGED vars
  BY <1>13 DEF vars, TypeOK, ForeignKeys
<1> QED
  BY <1>1, <1>2, <1>3, <1>4, <1>5, <1>6, <1>7, <1>8, <1>9, <1>10, <1>11, <1>12, <1>13 DEF Next

\* Every variable keeps its type, and no row or request refers to a row that
\* does not exist: for any number of tenants, representations and handlers.
THEOREM Typing == Spec => []TypeOK
<1> QED
  BY TypeInit, TypeStep, PTL DEF Spec

-----------------------------------------------------------------------------
(* Grants derive from accepted mandates.                                   *)

\* The steps that write representations, opportunities or grants.
LEMMA Writers ==
    ASSUME [Next]_vars
    PROVE  \/ \E m \in Mandates : RequestRepresentation(m)
           \/ \E r \in Requests : CommitAccept(r) \/ CommitRevoke(r) \/ CommitQualify(r)
           \/ \E r \in Requests, o \in Opps : CommitCreate(r, o)
           \/ UNCHANGED <<reps, opps, grants>>
<1>1. CASE UNCHANGED vars
  BY <1>1 DEF vars
<1>2. ASSUME NEW r \in Requests,
             Abort(r) \/ RevokeGrants(r) \/ CommitUpload(r) \/ CompareVersion(r)
      PROVE  UNCHANGED <<reps, opps, grants>>
  BY <1>2 DEF Abort, RevokeGrants, CommitUpload, CompareVersion
<1>3. ASSUME NEW r \in Requests, NEW p \in DOMAIN reps,
             ReadForAccept(r, p) \/ ReadForRevoke(r, p) \/ ReadForCreate(r, p)
      PROVE  UNCHANGED <<reps, opps, grants>>
  BY <1>3 DEF ReadForAccept, ReadForRevoke, ReadForCreate
<1>4. ASSUME NEW r \in Requests, NEW o \in DOMAIN opps,
             \/ \E t \in Tenants : CheckUpload(r, o, t)
             \/ \E t \in Analysts, expected \in 1 .. MaxVersion - 1, result \in Results :
                   CheckQualify(r, o, t, expected, result)
      PROVE  UNCHANGED <<reps, opps, grants>>
  BY <1>4 DEF CheckUpload, CheckQualify
<1> QED
  BY <1>1, <1>2, <1>3, <1>4 DEF Next

\* No mandate and no opportunity disappears or changes hands, and a mandate
\* that was accepted is never pending again.
LEMMA MandatesAreFixed ==
    ASSUME TypeOK, [Next]_vars
    PROVE  /\ \A p \in DOMAIN reps :
                 /\ p \in DOMAIN reps'
                 /\ reps'[p].originator = reps[p].originator
                 /\ reps'[p].represented = reps[p].represented
                 /\ reps'[p].allowed = reps[p].allowed
                 /\ reps[p].status # "PENDING" => reps'[p].status # "PENDING"
           /\ \A o \in DOMAIN opps : o \in DOMAIN opps' /\ opps'[o].rep = opps[o].rep
<1> DEFINE Kept(q) == /\ reps'[q].originator = reps[q].originator
                      /\ reps'[q].represented = reps[q].represented
                      /\ reps'[q].allowed = reps[q].allowed
                      /\ reps[q].status # "PENDING" => reps'[q].status # "PENDING"
<1>6. \A p \in DOMAIN reps : reps[p] \in Representations
  BY DEF TypeOK
<1>1. ASSUME NEW m \in Mandates, RequestRepresentation(m)
      PROVE  reps' = [q \in DOMAIN reps \cup {m.rep} |-> reps'[q]]
             /\ (\A q \in DOMAIN reps : reps'[q] = reps[q]) /\ opps' = opps
  BY <1>1 DEF RequestRepresentation
<1>2. ASSUME NEW r \in Requests, CommitAccept(r)
      PROVE  /\ DOMAIN reps' = DOMAIN reps /\ opps' = opps
             /\ \A q \in DOMAIN reps : Kept(q)
  BY <1>2, <1>6 DEF CommitAccept, Representations
<1>3. ASSUME NEW r \in Requests, CommitRevoke(r)
      PROVE  /\ DOMAIN reps' = DOMAIN reps /\ opps' = opps
             /\ \A q \in DOMAIN reps : Kept(q)
  BY <1>3, <1>6 DEF CommitRevoke, Representations
<1>4. ASSUME NEW r \in Requests, NEW o \in Opps, CommitCreate(r, o)
      PROVE  /\ reps' = reps /\ DOMAIN opps \subseteq DOMAIN opps'
             /\ \A q \in DOMAIN opps : opps'[q] = opps[q]
  BY <1>4 DEF CommitCreate
<1>5. ASSUME NEW r \in Requests, CommitQualify(r)
      PROVE  /\ reps' = reps /\ DOMAIN opps' = DOMAIN opps
             /\ \A q \in DOMAIN opps : opps'[q].rep = opps[q].rep
  BY <1>5, QualifyKeepsMandates DEF CommitQualify
<1>7. ASSUME NEW r \in Requests, CommitAccept(r) \/ CommitRevoke(r) \/ CommitQualify(r)
      PROVE  /\ \A p \in DOMAIN reps : p \in DOMAIN reps' /\ Kept(p)
             /\ \A o \in DOMAIN opps : o \in DOMAIN opps' /\ opps'[o].rep = opps[o].rep
  BY <1>2, <1>3, <1>5, <1>7
<1>8. ASSUME NEW m \in Mandates, RequestRepresentation(m)
      PROVE  /\ \A p \in DOMAIN reps : p \in DOMAIN reps' /\ Kept(p)
             /\ \A o \in DOMAIN opps : o \in DOMAIN opps' /\ opps'[o].rep = opps[o].rep
  BY <1>1, <1>8
<1>9. ASSUME NEW r \in Requests, NEW o \in Opps, CommitCreate(r, o)
      PROVE  /\ \A p \in DOMAIN reps : p \in DOMAIN reps' /\ Kept(p)
             /\ \A q \in DOMAIN opps : q \in DOMAIN opps' /\ opps'[q].rep = opps[q].rep
  BY <1>4, <1>9
<1> QED
  BY <1>7, <1>8, <1>9, Writers

\* What may become of a request in one step: where a request is begun or goes
\* on, what its handler found.
RequestGoes(r) ==
    \/ req'[r] = req[r]
    \/ req'[r] = Idle
    \/ /\ req'[r].op = "accept"
       /\ req'[r].rep \in DOMAIN reps /\ CanBecome(req'[r].rep, "ACTIVE")
    \/ /\ req'[r].op = "revoke"
       /\ req'[r].rep \in DOMAIN reps /\ CanBecome(req'[r].rep, "REVOKED")
    \/ /\ req'[r].op = "create"
       /\ req'[r].rep \in DOMAIN reps /\ CreatesUnder(req'[r].rep)
    \/ /\ req'[r].op = "revoking" /\ req[r].op = "revoke"
       /\ req'[r].rep = req[r].rep
       /\ req'[r].rows = {g \in grants : ActiveGrantOf(g, req[r].rep)}
       /\ RevokeGrants(r)
    \/ /\ req'[r].op = "upload"
       /\ req'[r].opp \in DOMAIN opps /\ Accessible(req'[r].opp, req'[r].by, "UPLOAD_DOCUMENTS")
    \/ /\ req'[r].op = "qualify"
       /\ req'[r].opp \in DOMAIN opps /\ Accessible(req'[r].opp, req'[r].by, "QUALIFY")
    \/ /\ req'[r].op = "qualifying" /\ req[r].op = "qualify"
       /\ req'[r].opp = req[r].opp /\ req'[r].by = req[r].by /\ req'[r].expected = req[r].expected
       /\ VersionIs(req[r].opp, req[r].expected)
       /\ CompareVersion(r)

LEMMA RequestsGo ==
    ASSUME TypeOK, [Next]_vars, NEW r \in Requests
    PROVE  RequestGoes(r)
<1>1. ASSUME NEW m \in Mandates, RequestRepresentation(m) PROVE RequestGoes(r)
  BY <1>1 DEF RequestRepresentation, RequestGoes
<1>2. ASSUME NEW q \in Requests, End(q) PROVE RequestGoes(r)
  BY <1>2 DEF End, TypeOK, RequestGoes
<1>3. ASSUME NEW q \in Requests, NEW p \in DOMAIN reps, ReadForAccept(q, p) PROVE RequestGoes(r)
  BY <1>3 DEF ReadForAccept, Begin, TypeOK, RequestGoes
<1>4. ASSUME NEW q \in Requests, NEW p \in DOMAIN reps, ReadForRevoke(q, p) PROVE RequestGoes(r)
  BY <1>4 DEF ReadForRevoke, Begin, TypeOK, RequestGoes
<1>5. ASSUME NEW q \in Requests, NEW p \in DOMAIN reps, ReadForCreate(q, p) PROVE RequestGoes(r)
  BY <1>5 DEF ReadForCreate, Begin, TypeOK, RequestGoes
<1>6. ASSUME NEW q \in Requests, RevokeGrants(q) PROVE RequestGoes(r)
  <2> DEFINE rows == {g \in grants : ActiveGrantOf(g, req[q].rep)}
  <2>1. req' = [req EXCEPT ![q] = [op |-> "revoking", rep |-> req[q].rep, rows |-> rows]]
        /\ req[q].op = "revoke"
    BY <1>6 DEF RevokeGrants
  <2>2. r = q => req'[r].op = "revoking" /\ req'[r].rep = req[r].rep /\ req'[r].rows = rows
    BY <2>1 DEF TypeOK
  <2>3. r # q => req'[r] = req[r]
    BY <2>1 DEF TypeOK
  <2> QED
    BY <1>6, <2>1, <2>2, <2>3 DEF RequestGoes
<1>7. ASSUME NEW q \in Requests, NEW o \in DOMAIN opps, NEW t \in Tenants, CheckUpload(q, o, t)
      PROVE  RequestGoes(r)
  BY <1>7 DEF CheckUpload, Begin, TypeOK, RequestGoes
<1>8. ASSUME NEW q \in Requests, NEW o \in DOMAIN opps, NEW t \in Analysts,
             NEW expected \in 1 .. MaxVersion - 1, NEW result \in Results,
             CheckQualify(q, o, t, expected, result)
      PROVE  RequestGoes(r)
  BY <1>8 DEF CheckQualify, Begin, TypeOK, RequestGoes
<1>9. ASSUME NEW q \in Requests, CompareVersion(q), VersionIs(req[q].opp, req[q].expected)
      PROVE  RequestGoes(r)
  <2>1. req[q] \in RequestsInFlight /\ req[q].op = "qualify"
    BY <1>9 DEF TypeOK, CompareVersion
  <2>2. req' = [req EXCEPT ![q].op = "qualifying"]
    BY <1>9 DEF CompareVersion
  <2>3. req'[q] = [req[q] EXCEPT !.op = "qualifying"]
    BY <2>2 DEF TypeOK
  <2>4. /\ req'[q].op = "qualifying" /\ req'[q].opp = req[q].opp
        /\ req'[q].by = req[q].by /\ req'[q].expected = req[q].expected
    BY <2>1, <2>3 DEF RequestsInFlight, Idle
  <2>5. r # q => req'[r] = req[r]
    BY <2>2 DEF TypeOK
  <2> QED
    BY <1>9, <2>1, <2>4, <2>5 DEF RequestGoes
<1>10. ASSUME NEW q \in Requests, CompareVersion(q), ~ VersionIs(req[q].opp, req[q].expected)
       PROVE  RequestGoes(r)
  BY <1>10, <1>2 DEF CompareVersion
<1>11. CASE UNCHANGED vars
  BY <1>11 DEF vars, RequestGoes
<1>12. ASSUME NEW q \in Requests,
              \/ Abort(q) \/ CommitAccept(q) \/ CommitRevoke(q) \/ CommitUpload(q) \/ CommitQualify(q)
              \/ \E o \in Opps : CommitCreate(q, o)
       PROVE  RequestGoes(r)
  BY <1>12, <1>2 DEF Abort, CommitAccept, CommitRevoke, CommitUpload, CommitQualify, CommitCreate
<1> QED
  BY <1>1, <1>3, <1>4, <1>5, <1>6, <1>7, <1>8, <1>9, <1>10, <1>11, <1>12 DEF Next

\* A request that was allowed to revoke, or to create, still refers to a
\* mandate that was accepted.
Accepted ==
    \A r \in Requests :
        /\ req[r].op \in {"revoke", "revoking", "create"} => reps[req[r].rep].status # "PENDING"
        /\ req[r].op = "create" => "CREATE_OPPORTUNITY" \in reps[req[r].rep].allowed

LEMMA AcceptedStep ==
    ASSUME TypeOK, Accepted, [Next]_vars
    PROVE  Accepted'
<1> SUFFICES ASSUME NEW r \in Requests
             PROVE  /\ req'[r].op \in {"revoke", "revoking", "create"} =>
                          reps'[req'[r].rep].status # "PENDING"
                    /\ req'[r].op = "create" => "CREATE_OPPORTUNITY" \in reps'[req'[r].rep].allowed
  BY DEF Accepted
<1>1. /\ req'[r].op \in {"revoke", "revoking", "create"} =>
            req'[r].rep \in DOMAIN reps /\ reps[req'[r].rep].status # "PENDING"
      /\ req'[r].op = "create" => "CREATE_OPPORTUNITY" \in reps[req'[r].rep].allowed
  BY RequestsGo, InFlight DEF RequestGoes, Accepted, CanBecome, CreatesUnder, Idle
<1> QED
  BY <1>1, MandatesAreFixed

\* A grant that survives a step, or is revoked by it, is derived as before:
\* what GrantsAreDerived says of it is about parts that never change.
LEMMA DerivedStep ==
    ASSUME TypeOK, Accepted, GrantsAreDerived, [Next]_vars
    PROVE  GrantsAreDerived'
<1> DEFINE Derived(g, m) ==
        /\ m.status # "PENDING"
        /\ "CREATE_OPPORTUNITY" \in m.allowed
        /\ IF g.source = "PLATFORM_ASSIGNMENT"
             THEN /\ g.grantee = Platform
                  /\ Platform \notin {m.originator, m.represented}
                  /\ "UPLOAD_DOCUMENTS" \notin g.permissions
             ELSE /\ g.grantee = m.originator
                  /\ "QUALIFY" \notin g.permissions
                  /\ "READ" \in g.permissions => "VIEW_STATUS" \in m.allowed
                  /\ "UPLOAD_DOCUMENTS" \in g.permissions => "UPLOAD_DOCUMENTS" \in m.allowed
<1>1. \A g \in grants : Derived(g, reps[opps[g.opp].rep])
  BY DEF GrantsAreDerived, Mandate
<1>2. SUFFICES ASSUME NEW g \in grants' PROVE Derived(g, reps'[opps'[g.opp].rep])
  BY DEF GrantsAreDerived, Mandate
<1>3. ASSUME NEW h \in grants, g = h \/ g = [h EXCEPT !.status = "REVOKED"]
      PROVE  Derived(g, reps'[opps'[g.opp].rep])
  <2>1. /\ g.opp = h.opp /\ g.source = h.source /\ g.grantee = h.grantee
        /\ g.permissions = h.permissions
    BY <1>3 DEF TypeOK, Grants
  <2>2. h.opp \in DOMAIN opps /\ opps[h.opp].rep \in DOMAIN reps
    BY DEF TypeOK, ForeignKeys
  <2> QED
    BY <1>1, <2>1, <2>2, MandatesAreFixed
<1>4. ASSUME NEW r \in Requests, NEW o \in Opps, CommitCreate(r, o), g \in NewGrants(o, req[r].rep)
      PROVE  Derived(g, reps'[opps'[g.opp].rep])
  <2> DEFINE p == req[r].rep
  <2>1. p \in DOMAIN reps /\ reps[p].status # "PENDING" /\ "CREATE_OPPORTUNITY" \in reps[p].allowed
    BY <1>4, InFlight DEF Accepted, CommitCreate
  <2>2. reps' = reps /\ opps'[o].rep = p
    BY <1>4 DEF CommitCreate
  <2>3. reps[p].allowed \in SUBSET Actions
    BY <2>1 DEF TypeOK, Representations
  <2>4. g.opp = o
    BY <1>4, <2>1, NewGrantsType
  <2> HIDE DEF p
  <2>5. Derived(g, reps[p])
    <3>1. CASE g.source = "PLATFORM_ASSIGNMENT"
      <4>1. g = [opp |-> o, grantee |-> Platform, permissions |-> {"READ", "QUALIFY"},
                 source |-> "PLATFORM_ASSIGNMENT", status |-> "ACTIVE"]
            /\ Platform \notin {reps[p].originator, reps[p].represented}
        BY <1>4, <3>1 DEF NewGrants, p
      <4> QED
        BY <4>1, <2>1
    <3>2. CASE g.source # "PLATFORM_ASSIGNMENT"
      <4>1. g.grantee = reps[p].originator /\ g.permissions = GrantPermissions(reps[p].allowed)
        BY <1>4, <3>2 DEF NewGrants, p
      <4> QED
        BY <4>1, <3>2, <2>1, <2>3, GrantPermissionsFacts
    <3> QED
      BY <3>1, <3>2
  <2> QED
    BY <2>2, <2>4, <2>5
<1>5. ASSUME NEW r \in Requests, CommitRevoke(r)
      PROVE  \E h \in grants : g = h \/ g = [h EXCEPT !.status = "REVOKED"]
  BY <1>5 DEF CommitRevoke
<1> HIDE DEF Derived
<1>6. \/ g \in grants
      \/ \E r \in Requests : CommitRevoke(r)
      \/ \E r \in Requests, o \in Opps : CommitCreate(r, o) /\ g \in NewGrants(o, req[r].rep)
  BY Writers DEF RequestRepresentation, CommitAccept, CommitQualify, CommitCreate
<1> QED
  BY <1>3, <1>4, <1>5, <1>6

\* Grants exist only under accepted mandates, which they do not exceed: for
\* any number of requests about them that overlap in any way.
THEOREM Derivation == Spec => []GrantsAreDerived
<1> DEFINE IInv == TypeOK /\ Accepted /\ GrantsAreDerived
<1>1. Init => IInv
  BY TypeInit DEF Init, Accepted, GrantsAreDerived, Idle
<1>2. IInv /\ [Next]_vars => IInv'
  BY TypeStep, AcceptedStep, DerivedStep
<1> QED
  BY <1>1, <1>2, PTL DEF Spec

-----------------------------------------------------------------------------
(* Revocation is confined to the grants of its representation.             *)

\* The rows a revocation has locked are active grants of its representation.
RowsAreItsOwn ==
    \A r \in Requests : req[r].op = "revoking" =>
        \A g \in req[r].rows :
            /\ g.opp \in DOMAIN opps
            /\ opps[g.opp].rep = req[r].rep
            /\ g.source = "REPRESENTATION_AUTHORIZATION"
            /\ g.status = "ACTIVE"

LEMMA RowsStep ==
    ASSUME TypeOK, RowsAreItsOwn, [Next]_vars
    PROVE  RowsAreItsOwn'
<1> SUFFICES ASSUME NEW r \in Requests, req'[r].op = "revoking", NEW g \in req'[r].rows
             PROVE  /\ g.opp \in DOMAIN opps' /\ opps'[g.opp].rep = req'[r].rep
                    /\ g.source = "REPRESENTATION_AUTHORIZATION" /\ g.status = "ACTIVE"
  BY DEF RowsAreItsOwn
<1>1. /\ g.opp \in DOMAIN opps /\ opps[g.opp].rep = req'[r].rep
      /\ g.source = "REPRESENTATION_AUTHORIZATION" /\ g.status = "ACTIVE"
  <2>1. \/ req'[r] = req[r]
        \/ req'[r].rep = req[r].rep /\ req'[r].rows = {h \in grants : ActiveGrantOf(h, req[r].rep)}
    BY RequestsGo DEF RequestGoes, Idle
  <2> QED
    BY <2>1 DEF RowsAreItsOwn, ActiveGrantOf, TypeOK, ForeignKeys
<1> QED
  BY <1>1, MandatesAreFixed

\* A grant is revoked only by the commit that revokes its representation, and
\* no grant is ever changed otherwise: for any number of requests.
THEOREM Confinement == Spec => RevocationIsConfined
<1> DEFINE IInv == TypeOK /\ Accepted /\ RowsAreItsOwn
           Confined == \A g \in grants :
               \/ g \in grants'
               \/ /\ g.status = "ACTIVE"
                  /\ g.source = "REPRESENTATION_AUTHORIZATION"
                  /\ Mandate(g.opp).status # "PENDING"
                  /\ reps'[opps[g.opp].rep].status = "REVOKED"
<1>1. Init => IInv
  BY TypeInit DEF Init, Accepted, RowsAreItsOwn, Idle
<1>2. IInv /\ [Next]_vars => IInv'
  BY TypeStep, AcceptedStep, RowsStep
<1>3. ASSUME IInv, [Next]_vars PROVE Confined
  <2>1. ASSUME NEW r \in Requests, CommitRevoke(r) PROVE Confined
    <3>1. req[r].op = "revoking" /\ req[r].rep \in DOMAIN reps
      BY <1>3, <2>1, InFlight DEF CommitRevoke
    <3>2. reps'[req[r].rep].status = "REVOKED" /\ reps[req[r].rep].status # "PENDING"
      BY <1>3, <2>1, <3>1 DEF CommitRevoke, Accepted, TypeOK, Representations
    <3>3. ASSUME NEW g \in grants, g \notin req[r].rows PROVE g \in grants'
      BY <2>1, <3>3 DEF CommitRevoke
    <3> QED
      BY <1>3, <3>1, <3>2, <3>3 DEF RowsAreItsOwn, Mandate
  <2>2. ASSUME NEW r \in Requests, NEW o \in Opps, CommitCreate(r, o) PROVE Confined
    BY <2>2 DEF CommitCreate
  <2>3. CASE grants' = grants
    BY <2>3
  <2> QED
    BY <1>3, <2>1, <2>2, <2>3, Writers DEF RequestRepresentation, CommitAccept, CommitQualify
<1> QED
  BY <1>1, <1>2, <1>3, PTL DEF Spec, RevocationIsConfined

-----------------------------------------------------------------------------
(* Stages and versions follow the qualifications.                          *)

\* A qualification that won its comparison still finds the version it asked
\* for, and nobody else has won it too.
SwapsAreExclusive ==
    \A r \in Requests : req[r].op = "qualifying" =>
        /\ opps[req[r].opp].version = req[r].expected
        /\ \A q \in Requests \ {r} : ~ (req[q].op = "qualifying" /\ req[q].opp = req[r].opp)

LEMMA SwapsStep ==
    ASSUME TypeOK, SwapsAreExclusive, [Next]_vars
    PROVE  SwapsAreExclusive'
<1>1. ASSUME NEW r \in Requests, req'[r].op = "qualifying"
      PROVE  /\ req'[r].opp \in DOMAIN opps
             /\ opps[req'[r].opp].version = req'[r].expected
             /\ \/ req'[r] = req[r]
                \/ /\ CompareVersion(r) /\ req[r].op = "qualify"
                   /\ req'[r].opp = req[r].opp
  BY <1>1, RequestsGo, InFlight DEF RequestGoes, SwapsAreExclusive, VersionIs, Idle
<1>2. ASSUME NEW r \in Requests, req'[r].op = "qualifying",
             NEW q \in Requests \ {r}, req'[q].op = "qualifying", req'[q].opp = req'[r].opp
      PROVE  FALSE
  <2>1. \A s, t \in Requests : s # t /\ CompareVersion(s) => req'[t] = req[t]
    BY DEF CompareVersion, End, TypeOK
  <2> QED
    BY <1>1, <1>2, <2>1 DEF SwapsAreExclusive, CompareVersion
<1>3. ASSUME NEW r \in Requests, req'[r].op = "qualifying"
      PROVE  opps'[req'[r].opp].version = req'[r].expected
  <2>1. ASSUME NEW q \in Requests, CommitQualify(q) PROVE opps'[req'[r].opp] = opps[req'[r].opp]
    <3>1. req'[q] = Idle
      BY <2>1 DEF CommitQualify, End, TypeOK
    <3>2. q # r
      BY <3>1, <1>3 DEF Idle
    <3>3. req'[r] = req[r]
      BY <2>1, <3>2 DEF CommitQualify, End, TypeOK
    <3>4. req[q].opp # req[r].opp
      BY <1>3, <2>1, <3>2, <3>3 DEF SwapsAreExclusive, CommitQualify
    <3> QED
      BY <1>1, <1>3, <2>1, <3>3, <3>4 DEF CommitQualify, TypeOK
  <2>2. ASSUME NEW q \in Requests, NEW o \in Opps, CommitCreate(q, o)
        PROVE  opps'[req'[r].opp] = opps[req'[r].opp]
    BY <1>1, <1>3, <2>2 DEF CommitCreate
  <2>3. opps'[req'[r].opp] = opps[req'[r].opp]
    BY <2>1, <2>2, Writers DEF RequestRepresentation, CommitAccept, CommitRevoke
  <2> QED
    BY <1>1, <1>3, <2>3
<1> QED
  BY <1>2, <1>3 DEF SwapsAreExclusive

LEMMA StagesStep ==
    ASSUME TypeOK, SwapsAreExclusive, StageFollowsTheCases, [Next]_vars
    PROVE  StageFollowsTheCases'
<1> DEFINE Follows(row) ==
        /\ row.version = Len(row.cases) + 1
        /\ row.stage = IF row.cases = << >> THEN "DRAFT"
                       ELSE QualificationStage(row.cases[Len(row.cases)].result)
<1>1. \A o \in DOMAIN opps : Follows(opps[o])
  BY DEF StageFollowsTheCases
<1>2. SUFFICES ASSUME NEW o \in DOMAIN opps' PROVE Follows(opps'[o])
  BY DEF StageFollowsTheCases
<1>3. ASSUME NEW r \in Requests, CommitQualify(r), o = req[r].opp PROVE Follows(opps'[o])
  <2> DEFINE case == [by |-> req[r].by, result |-> req[r].result]
  <2>1. o \in DOMAIN opps /\ opps[o] \in Opportunities /\ opps[o].version = req[r].expected
    BY <1>3, InFlight DEF TypeOK, SwapsAreExclusive, CommitQualify
  <2>2. /\ opps'[o].stage = QualificationStage(req[r].result)
        /\ opps'[o].version = req[r].expected + 1
        /\ opps'[o].cases = Append(opps[o].cases, case)
    BY <1>3, <2>1 DEF CommitQualify, Opportunities
  <2>3. case \in [by: Tenants, result: Results] /\ case.result = req[r].result
    BY <1>3, InFlight DEF CommitQualify
  <2> HIDE DEF case
  <2>4. /\ Len(opps'[o].cases) = Len(opps[o].cases) + 1
        /\ opps'[o].cases[Len(opps'[o].cases)] = case
        /\ opps'[o].cases # << >>
        /\ Len(opps[o].cases) \in Nat
    BY <2>1, <2>2, <2>3 DEF Opportunities
  <2>5. opps[o].version = Len(opps[o].cases) + 1
    BY <1>1, <2>1
  <2> QED
    BY <2>1, <2>2, <2>3, <2>4, <2>5
<1>4. ASSUME NEW r \in Requests, CommitCreate(r, o), o \notin DOMAIN opps PROVE Follows(opps'[o])
  <2>1. opps'[o] = [rep |-> req[r].rep, stage |-> "DRAFT", version |-> 1, cases |-> << >>]
    BY <1>4 DEF CommitCreate
  <2> QED
    BY <2>1
<1> DEFINE Written ==
        \/ o \in DOMAIN opps /\ opps'[o] = opps[o]
        \/ \E r \in Requests : CommitQualify(r) /\ o = req[r].opp
        \/ \E r \in Requests : CommitCreate(r, o) /\ o \notin DOMAIN opps
<1>5. Written
  <2>1. ASSUME NEW r \in Requests, CommitQualify(r) PROVE Written
    BY <2>1 DEF CommitQualify, TypeOK
  <2>2. ASSUME NEW r \in Requests, NEW q \in Opps, CommitCreate(r, q) PROVE Written
    BY <2>2 DEF CommitCreate
  <2> QED
    BY <2>1, <2>2, Writers DEF RequestRepresentation, CommitAccept, CommitRevoke
<1> HIDE DEF Follows
<1> QED
  BY <1>1, <1>3, <1>4, <1>5

\* The version of an opportunity counts its qualifications and its stage is
\* that of the latest, for any number of analysts that qualify it at once.
THEOREM Qualification == Spec => []StageFollowsTheCases
<1> DEFINE IInv == TypeOK /\ SwapsAreExclusive /\ StageFollowsTheCases
<1>1. Init => IInv
  BY TypeInit DEF Init, SwapsAreExclusive, StageFollowsTheCases, Idle
<1>2. IInv /\ [Next]_vars => IInv'
  BY TypeStep, SwapsStep, StagesStep
<1> QED
  BY <1>1, <1>2, PTL DEF Spec

-----------------------------------------------------------------------------
(* Outsiders work on grants.                                               *)

\* Whoever may work, or has a request to work in flight, holds a grant for it.
WorkersHold ==
    \A r \in Requests :
        /\ req[r].op = "upload" => Held(req[r].opp, req[r].by, "UPLOAD_DOCUMENTS")
        /\ req[r].op \in {"qualify", "qualifying"} => Held(req[r].opp, req[r].by, "QUALIFY")

\* Grants are revoked, never deleted, and opportunities keep their owner.
LEMMA HeldStays ==
    ASSUME TypeOK, [Next]_vars, NEW o \in DOMAIN opps, NEW t, NEW permission, Held(o, t, permission)
    PROVE  Held(o, t, permission)'
<1>1. CASE t = Owner(o)
  <2>1. opps[o].rep \in DOMAIN reps
    BY DEF TypeOK, ForeignKeys
  <2> QED
    BY <1>1, <2>1, MandatesAreFixed DEF Held, Owner, Mandate
<1>2. ASSUME NEW g \in grants, g.opp = o, g.grantee = t, permission \in g.permissions
      PROVE  Held(o, t, permission)'
  <2>1. ASSUME NEW r \in Requests, CommitRevoke(r)
        PROVE  g \in grants' \/ [g EXCEPT !.status = "REVOKED"] \in grants'
    BY <2>1 DEF CommitRevoke
  <2>2. g \in grants' \/ [g EXCEPT !.status = "REVOKED"] \in grants'
    BY <2>1, Writers DEF RequestRepresentation, CommitAccept, CommitQualify, CommitCreate
  <2>3. g \in Grants
    BY DEF TypeOK
  <2>4. /\ [g EXCEPT !.status = "REVOKED"].opp = o
        /\ [g EXCEPT !.status = "REVOKED"].grantee = t
        /\ permission \in [g EXCEPT !.status = "REVOKED"].permissions
    BY <1>2, <2>3 DEF Grants
  <2> QED
    BY <1>2, <2>2, <2>4 DEF Held
<1> QED
  BY <1>1, <1>2 DEF Held

LEMMA WorkersHoldStep ==
    ASSUME TypeOK, WorkersHold, [Next]_vars
    PROVE  WorkersHold'
<1>1. \A o \in DOMAIN opps : \A t, permission : Accessible(o, t, permission) => Held(o, t, permission)
  BY DEF Accessible, Held
<1>2. ASSUME NEW r \in Requests, NEW o, NEW t, o = req'[r].opp, t = req'[r].by
      PROVE  /\ req'[r].op = "upload" => Held(o, t, "UPLOAD_DOCUMENTS")'
             /\ req'[r].op \in {"qualify", "qualifying"} => Held(o, t, "QUALIFY")'
  <2>1. req'[r].op = "upload" => o \in DOMAIN opps /\ Held(o, t, "UPLOAD_DOCUMENTS")
    BY <1>1, <1>2, RequestsGo, InFlight DEF RequestGoes, WorkersHold, Idle
  <2>2. req'[r].op \in {"qualify", "qualifying"} => o \in DOMAIN opps /\ Held(o, t, "QUALIFY")
    BY <1>1, <1>2, RequestsGo, InFlight DEF RequestGoes, WorkersHold, Idle
  <2> QED
    BY <2>1, <2>2, HeldStays
<1> QED
  BY <1>2 DEF WorkersHold, Held, Owner, Mandate

LEMMA OutsidersStep ==
    ASSUME TypeOK, WorkersHold, OutsidersActOnGrants, [Next]_vars
    PROVE  OutsidersActOnGrants'
<1>1. ASSUME NEW d \in docs', NEW o, NEW t, o = d.opp, t = d.by
      PROVE  Held(o, t, "UPLOAD_DOCUMENTS")'
  <2>1. ASSUME NEW r \in Requests, CommitUpload(r), d \notin docs
        PROVE  o \in DOMAIN opps /\ Held(o, t, "UPLOAD_DOCUMENTS")
    BY <1>1, <2>1, InFlight DEF CommitUpload, WorkersHold
  <2>2. ASSUME d \in docs PROVE o \in DOMAIN opps /\ Held(o, t, "UPLOAD_DOCUMENTS")
    BY <1>1, <2>2 DEF OutsidersActOnGrants, TypeOK, ForeignKeys
  <2>3. d \in docs \/ \E r \in Requests : CommitUpload(r)
    BY DEF Next, vars, RequestRepresentation, Abort, CommitAccept, RevokeGrants, CommitRevoke,
           CompareVersion, CommitQualify, CommitCreate, ReadForAccept, ReadForRevoke,
           ReadForCreate, CheckUpload, CheckQualify
  <2>4. o \in DOMAIN opps /\ Held(o, t, "UPLOAD_DOCUMENTS")
    BY <2>1, <2>2, <2>3
  <2> QED
    BY <2>4, HeldStays
<1>2. ASSUME NEW o \in DOMAIN opps', NEW i \in DOMAIN opps'[o].cases, NEW t, t = opps'[o].cases[i].by
      PROVE  Held(o, t, "QUALIFY")'
  <2>1. CASE o \in DOMAIN opps /\ opps'[o].cases = opps[o].cases
    BY <1>2, <2>1, HeldStays DEF OutsidersActOnGrants
  <2>2. ASSUME NEW r \in Requests, CommitQualify(r), o = req[r].opp
        PROVE  o \in DOMAIN opps /\ Held(o, t, "QUALIFY")
    <3> DEFINE case == [by |-> req[r].by, result |-> req[r].result]
    <3>1. o \in DOMAIN opps /\ opps[o] \in Opportunities /\ Held(o, req[r].by, "QUALIFY")
      BY <2>2, InFlight DEF TypeOK, WorkersHold, CommitQualify
    <3>2. opps'[o].cases = Append(opps[o].cases, case)
      BY <2>2, <3>1 DEF CommitQualify, Opportunities
    <3>3. case \in [by: Tenants, result: Results] /\ case.by = req[r].by
      BY <2>2, InFlight DEF CommitQualify
    <3> HIDE DEF case
    <3>4. \/ i \in DOMAIN opps[o].cases /\ opps'[o].cases[i] = opps[o].cases[i]
          \/ opps'[o].cases[i] = case
      BY <1>2, <3>1, <3>2, <3>3 DEF Opportunities
    <3> QED
      BY <1>2, <3>1, <3>3, <3>4 DEF OutsidersActOnGrants
  <2>3. ASSUME NEW r \in Requests, CommitCreate(r, o), o \notin DOMAIN opps PROVE FALSE
    <3>1. opps'[o].cases = << >>
      BY <2>3 DEF CommitCreate
    <3> QED
      BY <1>2, <3>1
  <2> DEFINE Written ==
        \/ o \in DOMAIN opps /\ opps'[o].cases = opps[o].cases
        \/ \E r \in Requests : CommitQualify(r) /\ o = req[r].opp
        \/ \E r \in Requests : CommitCreate(r, o) /\ o \notin DOMAIN opps
  <2>4. Written
    <3>1. ASSUME NEW r \in Requests, CommitQualify(r) PROVE Written
      BY <3>1 DEF CommitQualify, TypeOK
    <3>2. ASSUME NEW r \in Requests, NEW q \in Opps, CommitCreate(r, q) PROVE Written
      BY <3>2 DEF CommitCreate
    <3> QED
      BY <3>1, <3>2, Writers DEF RequestRepresentation, CommitAccept, CommitRevoke
  <2> QED
    BY <2>1, <2>2, <2>3, <2>4, HeldStays
<1> QED
  BY <1>1, <1>2 DEF OutsidersActOnGrants, Held, Owner, Mandate

\* Whoever uploaded to, or qualified, an opportunity of another tenant holds or
\* held the grant to do so, whatever was revoked in the meantime.
THEOREM OutsideWork == Spec => []OutsidersActOnGrants
<1> DEFINE IInv == TypeOK /\ WorkersHold /\ OutsidersActOnGrants
<1>1. Init => IInv
  BY TypeInit DEF Init, WorkersHold, OutsidersActOnGrants, Idle
<1>2. IInv /\ [Next]_vars => IInv'
  BY TypeStep, WorkersHoldStep, OutsidersStep
<1> QED
  BY <1>1, <1>2, PTL DEF Spec

-----------------------------------------------------------------------------
(* If requests do not overlap, grants mirror their representation.         *)

\* What is known of the only request in flight.
NothingIsStale ==
    serial =>
        \A r \in Requests : req[r] # Idle =>
            /\ \A q \in Requests \ {r} : req[q] = Idle
            /\ req[r].op = "accept" => reps[req[r].rep].status = "PENDING"
            /\ req[r].op \in {"revoke", "revoking", "create"} => reps[req[r].rep].status = "ACTIVE"
            /\ req[r].op = "revoking" => \A g \in grants : ActiveGrantOf(g, req[r].rep) => g \in req[r].rows

\* Whatever is written, if requests do not overlap, is written by the only
\* request in flight, which ends with it.
LEMMA WritersEnd ==
    ASSUME TypeOK, NothingIsStale, serial, NEW r \in Requests, req[r] # Idle, End(r)
    PROVE  \A q \in Requests : req'[q] = Idle
BY DEF End, TypeOK, NothingIsStale

LEMMA NothingStaleStep ==
    ASSUME TypeOK, NothingIsStale, [Next]_vars
    PROVE  NothingIsStale'
<1>1. serial' = serial
  BY DEF Next, vars, RequestRepresentation, Abort, CommitAccept, RevokeGrants, CommitRevoke,
         CompareVersion, CommitQualify, CommitCreate, CommitUpload, ReadForAccept, ReadForRevoke,
         ReadForCreate, CheckUpload, CheckQualify
<1> SUFFICES ASSUME serial PROVE NothingIsStale'
  BY <1>1 DEF NothingIsStale
<1>2. ASSUME NEW r \in Requests, req[r] # Idle, End(r) PROVE NothingIsStale'
  BY <1>2, WritersEnd DEF NothingIsStale
<1>3. ASSUME NEW r \in Requests,
             \/ CommitAccept(r) \/ CommitRevoke(r) \/ CommitUpload(r) \/ CommitQualify(r)
             \/ Abort(r) \/ \E o \in Opps : CommitCreate(r, o)
      PROVE  NothingIsStale'
  BY <1>2, <1>3, InFlight DEF CommitAccept, CommitRevoke, CommitUpload, CommitQualify, CommitCreate,
       Abort, Idle
<1>4. ASSUME NEW m \in Mandates, RequestRepresentation(m) PROVE NothingIsStale'
  <2>1. \A r \in Requests : req[r].op \in {"accept", "revoke", "revoking", "create"} =>
            reps'[req[r].rep] = reps[req[r].rep]
    BY <1>4, InFlight DEF RequestRepresentation
  <2> QED
    BY <1>4, <2>1 DEF NothingIsStale, RequestRepresentation, ActiveGrantOf
<1>5. ASSUME NEW r \in Requests, NEW request, Begin(r, request), UNCHANGED <<reps, opps, grants>>,
             request.op = "accept" => reps[request.rep].status = "PENDING",
             request.op \in {"revoke", "create"} => reps[request.rep].status = "ACTIVE",
             request.op # "revoking"
      PROVE  NothingIsStale'
  <2>1. \A q \in Requests : req'[q] = IF q = r THEN request ELSE Idle
    BY <1>5 DEF Begin, TypeOK
  <2> QED
    BY <1>5, <2>1 DEF NothingIsStale
<1>6. ASSUME NEW r \in Requests, NEW p \in DOMAIN reps,
             ReadForAccept(r, p) \/ ReadForRevoke(r, p) \/ ReadForCreate(r, p)
      PROVE  NothingIsStale'
  BY <1>5, <1>6 DEF ReadForAccept, ReadForRevoke, ReadForCreate, CanBecome, CreatesUnder
<1>7. ASSUME NEW r \in Requests, NEW o \in DOMAIN opps, NEW t \in Tenants,
             \/ CheckUpload(r, o, t)
             \/ \E expected \in 1 .. MaxVersion - 1, result \in Results :
                   CheckQualify(r, o, t, expected, result)
      PROVE  NothingIsStale'
  BY <1>5, <1>7 DEF CheckUpload, CheckQualify
<1>8. ASSUME NEW r \in Requests, NEW p, p = req[r].rep, RevokeGrants(r) PROVE NothingIsStale'
  <2> DEFINE rows == {g \in grants : ActiveGrantOf(g, p)}
  <2>1. /\ req' = [req EXCEPT ![r] = [op |-> "revoking", rep |-> p, rows |-> rows]]
        /\ req[r].op = "revoke" /\ UNCHANGED <<reps, opps, grants>>
    BY <1>8 DEF RevokeGrants
  <2>2. req[r] # Idle
    BY <2>1, InFlight
  <2>3. \A q \in Requests \ {r} : req'[q] = Idle
    BY <2>1, <2>2 DEF NothingIsStale, TypeOK
  <2>4. req'[r].op = "revoking" /\ req'[r].rep = p /\ req'[r].rows = rows
    BY <1>8, <2>1 DEF TypeOK
  <2>5. \A g \in grants' : ActiveGrantOf(g, p)' => g \in rows
    BY <2>1 DEF ActiveGrantOf
  <2>6. reps'[p].status = "ACTIVE"
    BY <1>8, <2>1, <2>2 DEF NothingIsStale
  <2> HIDE DEF rows
  <2> QED
    BY <2>3, <2>4, <2>5, <2>6 DEF NothingIsStale, ActiveGrantOf
<1>9. ASSUME NEW r \in Requests, CompareVersion(r) PROVE NothingIsStale'
  <2>1. CASE End(r)
    BY <1>2, <1>9, <2>1, InFlight DEF CompareVersion
  <2>2. CASE req' = [req EXCEPT ![r].op = "qualifying"]
    <3>1. req[r] \in RequestsInFlight /\ req[r].op = "qualify" /\ req[r] # Idle
      BY <1>9, InFlight DEF CompareVersion, TypeOK
    <3>2. req'[r].op = "qualifying" /\ \A q \in Requests \ {r} : req'[q] = Idle
      BY <2>2, <3>1 DEF NothingIsStale, TypeOK, RequestsInFlight, Idle
    <3> QED
      BY <3>2 DEF NothingIsStale
  <2> QED
    BY <1>9, <2>1, <2>2 DEF CompareVersion
<1>10. CASE UNCHANGED vars
  BY <1>10 DEF vars, NothingIsStale, ActiveGrantOf
<1>11. \A t \in Analysts : t \in Tenants
  BY RepresentationAssumption
<1> QED
  BY <1>3, <1>4, <1>6, <1>7, <1>8, <1>9, <1>10, <1>11 DEF Next

LEMMA MirrorStep ==
    ASSUME TypeOK, Accepted, RowsAreItsOwn, NothingIsStale, GrantsAreDerived,
           GrantsMirrorTheirSource, [Next]_vars
    PROVE  GrantsMirrorTheirSource'
<1> DEFINE Mirrors == \A g \in grants' :
               g.source = "REPRESENTATION_AUTHORIZATION" => g.status = reps'[opps'[g.opp].rep].status
<1>1. serial' = serial
  BY DEF Next, vars, RequestRepresentation, Abort, CommitAccept, RevokeGrants, CommitRevoke,
         CompareVersion, CommitQualify, CommitCreate, CommitUpload, ReadForAccept, ReadForRevoke,
         ReadForCreate, CheckUpload, CheckQualify
<1> SUFFICES ASSUME serial PROVE Mirrors
  BY <1>1 DEF GrantsMirrorTheirSource, Mandate
<1>2. \A g \in grants : g.source = "REPRESENTATION_AUTHORIZATION" => g.status = reps[opps[g.opp].rep].status
  BY DEF GrantsMirrorTheirSource, Mandate
<1>3. \A g \in grants : g.opp \in DOMAIN opps /\ opps[g.opp].rep \in DOMAIN reps
  BY DEF TypeOK, ForeignKeys
<1>4. ASSUME NEW m \in Mandates, RequestRepresentation(m) PROVE Mirrors
  BY <1>2, <1>3, <1>4 DEF RequestRepresentation
<1>5. ASSUME NEW r \in Requests, CommitAccept(r) PROVE Mirrors
  <2>1. req[r].op = "accept" /\ req[r].rep \in DOMAIN reps /\ reps[req[r].rep].status = "PENDING"
    BY <1>5, InFlight DEF CommitAccept, NothingIsStale
  <2>2. \A g \in grants : opps[g.opp].rep # req[r].rep
    BY <2>1 DEF GrantsAreDerived, Mandate
  <2> QED
    BY <1>2, <1>3, <1>5, <2>1, <2>2 DEF CommitAccept, TypeOK
<1>6. ASSUME NEW r \in Requests, CommitRevoke(r) PROVE Mirrors
  <2> DEFINE p == req[r].rep
  <2>1. /\ req[r].op = "revoking" /\ p \in DOMAIN reps /\ reps[p].status = "ACTIVE"
        /\ \A g \in grants : ActiveGrantOf(g, p) => g \in req[r].rows
    BY <1>6, InFlight DEF CommitRevoke, NothingIsStale
  <2>2. /\ reps'[p].status = "REVOKED" /\ \A q \in DOMAIN reps \ {p} : reps'[q] = reps[q]
        /\ opps' = opps
    BY <1>6, <2>1 DEF CommitRevoke, TypeOK, Representations
  <2>3. ASSUME NEW g \in grants', g.source = "REPRESENTATION_AUTHORIZATION"
        PROVE  g.status = reps'[opps'[g.opp].rep].status
    <3>1. PICK h \in grants : IF h \in req[r].rows THEN g = [h EXCEPT !.status = "REVOKED"] ELSE g = h
      BY <1>6 DEF CommitRevoke
    <3>2. h \in Grants
      BY DEF TypeOK
    <3>3. g.opp = h.opp /\ g.source = h.source /\ (h \in req[r].rows => g.status = "REVOKED")
      BY <3>1, <3>2 DEF Grants
    <3>4. h \in req[r].rows <=> opps[h.opp].rep = p
      BY <1>2, <2>1, <2>3, <3>3 DEF RowsAreItsOwn, ActiveGrantOf
    <3> QED
      BY <1>2, <1>3, <2>2, <2>3, <3>1, <3>3, <3>4
  <2> QED
    BY <2>3
<1>7. ASSUME NEW r \in Requests, NEW o \in Opps, CommitCreate(r, o) PROVE Mirrors
  <2>1. req[r].op = "create" /\ req[r].rep \in DOMAIN reps /\ reps[req[r].rep].status = "ACTIVE"
    BY <1>7, InFlight DEF CommitCreate, NothingIsStale
  <2>2. ASSUME NEW g \in NewGrants(o, req[r].rep) PROVE g.opp = o /\ g.status = "ACTIVE"
    BY <2>1, <2>2, NewGrantsType DEF NewGrants
  <2> QED
    BY <1>2, <1>3, <1>7, <2>1, <2>2 DEF CommitCreate
<1>8. ASSUME NEW r \in Requests, CommitQualify(r) PROVE Mirrors
  <2>1. reps' = reps /\ grants' = grants
    BY <1>8 DEF CommitQualify
  <2> QED
    BY <1>2, <1>3, <1>8, <2>1, QualifyKeepsMandates
<1>9. CASE UNCHANGED <<reps, opps, grants>>
  BY <1>2, <1>9
<1> QED
  BY <1>4, <1>5, <1>6, <1>7, <1>8, <1>9, Writers

\* Without overlapping requests a representation and the grants derived from
\* it are active, or revoked, together: for any number of representations.  The run
\* "revocation" shows what overlapping requests do.
THEOREM SerialMirror == Spec => []GrantsMirrorTheirSource
<1> DEFINE IInv == /\ TypeOK /\ Accepted /\ RowsAreItsOwn /\ NothingIsStale /\ GrantsAreDerived
                   /\ GrantsMirrorTheirSource
<1>1. Init => IInv
  BY TypeInit DEF Init, Accepted, RowsAreItsOwn, NothingIsStale, GrantsAreDerived,
       GrantsMirrorTheirSource, Idle
<1>2. IInv /\ [Next]_vars => IInv'
  BY TypeStep, AcceptedStep, RowsStep, NothingStaleStep, DerivedStep, MirrorStep
<1> QED
  BY <1>1, <1>2, PTL DEF Spec

=============================================================================
