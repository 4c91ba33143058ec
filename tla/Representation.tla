--------------------------- MODULE Representation ---------------------------
(***************************************************************************)
(* Representations, the opportunities created under them, the access       *)
(* grants derived from them and the work outsiders do with those grants.   *)
(*                                                                         *)
(* A request runs in one READ COMMITTED transaction: it reads and checks   *)
(* what is committed, and writes later, when its decision may be stale.    *)
(* Only UPDATE takes row locks.  A request that writes waits for nothing   *)
(* else, so its last write and its commit are one step; Abort is any       *)
(* error, crash or lost connection in between.                             *)
(***************************************************************************)
EXTENDS Integers, Sequences, FiniteSets

CONSTANTS
    Reps,          \* representation authorizations
    Opps,          \* opportunities
    Requests,      \* request handlers that run at the same time
    Tenants,
    Platform,      \* platform_tenant_id
    Analysts,      \* tenants with users of the role ANALYST or PLATFORM_ADMIN
    Mandates,      \* bound: what may be asked for, with the id it would have
    Results,       \* bound: the qualification results given
    MaxVersion,    \* bound: highest version of an opportunity
    MaxDocs        \* bound: documents uploaded

Actions == {"CREATE_OPPORTUNITY", "VIEW_STATUS", "UPDATE_OPPORTUNITY", "UPLOAD_DOCUMENTS"}
Permissions == {"READ", "UPDATE", "UPLOAD_DOCUMENTS", "QUALIFY"}
Verdicts == {"ELIGIBLE", "CONDITIONALLY_ELIGIBLE", "INFORMATION_REQUIRED", "NOT_ELIGIBLE"}

ASSUME RepresentationAssumption ==
    /\ Mandates \subseteq [rep: Reps, originator: Tenants, represented: Tenants, allowed: SUBSET Actions]
    /\ Analysts \subseteq Tenants
    /\ Results \subseteq Verdicts
    /\ MaxVersion \in Nat \ {0}
    /\ MaxDocs \in Nat

VARIABLES
    reps,          \* the representations requested so far
    opps,          \* the opportunities created so far, with their qualifications
    grants,        \* resource access grants
    docs,          \* who uploaded documents where
    req,           \* per handler, the request it is in the middle of
    serial         \* no two requests overlap

vars == <<reps, opps, grants, docs, req, serial>>

-----------------------------------------------------------------------------
(* Permissions and checks *)

\* Mutant: mandates that only say CREATE_OPPORTUNITY still let their bearer read.
DeriveGenerously(allowed) ==
    {"READ"} \cup IF "UPLOAD_DOCUMENTS" \in allowed THEN {"UPLOAD_DOCUMENTS"} ELSE {}

\* derive_representation_grant_permissions; CREATE_OPPORTUNITY maps to none.
GrantPermissions(allowed) ==
    LET granted == [VIEW_STATUS |-> "READ", UPDATE_OPPORTUNITY |-> "UPDATE",
                    UPLOAD_DOCUMENTS |-> "UPLOAD_DOCUMENTS"]
    IN  {granted[a] : a \in allowed \cap DOMAIN granted}

\* Mutant: a qualification that stores the result itself.
StageIsResult(result) == result

QualificationStage(result) ==
    CASE result \in {"ELIGIBLE", "CONDITIONALLY_ELIGIBLE"} -> "QUALIFIED"
      [] result = "NOT_ELIGIBLE" -> "REJECTED"
      [] OTHER -> "INFORMATION_PENDING"

\* Mutant: a revoked representation that may be accepted once more.
CanBecomeAgain(p, status) ==
    \/ status = "ACTIVE"  /\ reps[p].status \in {"PENDING", "REVOKED"}
    \/ status = "REVOKED" /\ reps[p].status = "ACTIVE"

CanBecome(p, status) ==
    \/ status = "ACTIVE"  /\ reps[p].status = "PENDING"
    \/ status = "REVOKED" /\ reps[p].status = "ACTIVE"

\* Mutant: the status of the representation is not looked at.
MayCreateUnder(p) == "CREATE_OPPORTUNITY" \in reps[p].allowed

\* An ACTIVE representation that allows CREATE_OPPORTUNITY.
CreatesUnder(p) ==
    /\ reps[p].status = "ACTIVE"
    /\ "CREATE_OPPORTUNITY" \in reps[p].allowed

Mandate(o) == reps[opps[o].rep]
Owner(o) == Mandate(o).represented

\* Mutant: every check asks for the default permission.
Readable(o, t, permission) ==
    \/ Owner(o) = t
    \/ \E g \in grants :
          g.opp = o /\ g.grantee = t /\ g.status = "ACTIVE" /\ "READ" \in g.permissions

\* get_accessible_opportunity does not answer 404.
Accessible(o, t, permission) ==
    \/ Owner(o) = t
    \/ \E g \in grants :
          /\ g.opp = o /\ g.grantee = t
          /\ g.status = "ACTIVE"
          /\ permission \in g.permissions

-----------------------------------------------------------------------------
(* Requests *)

Idle == [op |-> "idle"]

Begin(r, request) ==
    /\ req[r] = Idle
    /\ serial => \A q \in Requests : req[q] = Idle
    /\ req' = [req EXCEPT ![r] = request]

End(r) == req' = [req EXCEPT ![r] = Idle]

\* r fails, and its transaction is rolled back.
Abort(r) ==
    /\ req[r] # Idle
    /\ End(r)
    /\ UNCHANGED <<reps, opps, grants, docs, serial>>

Init ==
    /\ reps = << >>
    /\ opps = << >>
    /\ grants = {}
    /\ docs = {}
    /\ req = [r \in Requests |-> Idle]
    /\ serial \in BOOLEAN

\* create_representation, for a lead of the originator's own.
RequestRepresentation(m) ==
    /\ m.rep \notin DOMAIN reps
    /\ reps' = [q \in DOMAIN reps \cup {m.rep} |->
                  IF q = m.rep THEN [status |-> "PENDING", originator |-> m.originator,
                                     represented |-> m.represented, allowed |-> m.allowed]
                  ELSE reps[q]]
    /\ UNCHANGED <<opps, grants, docs, req, serial>>

ReadForAccept(r, p) ==
    /\ CanBecome(p, "ACTIVE")
    /\ Begin(r, [op |-> "accept", rep |-> p])
    /\ UNCHANGED <<reps, opps, grants, docs, serial>>

\* The row is updated by its key alone, whatever its status is by now.
CommitAccept(r) ==
    /\ req[r].op = "accept"
    /\ reps' = [reps EXCEPT ![req[r].rep].status = "ACTIVE"]
    /\ End(r)
    /\ UNCHANGED <<opps, grants, docs, serial>>

ReadForRevoke(r, p) ==
    /\ CanBecome(p, "REVOKED")
    /\ Begin(r, [op |-> "revoke", rep |-> p])
    /\ UNCHANGED <<reps, opps, grants, docs, serial>>

\* Mutants: the grants of its opportunities, whatever they stem from; none.
AnyGrantOf(g, p) == opps[g.opp].rep = p /\ g.status = "ACTIVE"
NoGrantOf(g, p) == FALSE

ActiveGrantOf(g, p) ==
    /\ g.source = "REPRESENTATION_AUTHORIZATION"
    /\ opps[g.opp].rep = p
    /\ g.status = "ACTIVE"

\* The UPDATE of the grants locks the committed rows it matches and waits for
\* a transaction that has locked any of them.
RevokeGrants(r) ==
    LET rows == {g \in grants : ActiveGrantOf(g, req[r].rep)}
    IN  /\ req[r].op = "revoke"
        /\ \A q \in Requests : req[q].op = "revoking" => req[q].rows \cap rows = {}
        /\ req' = [req EXCEPT ![r] = [op |-> "revoking", rep |-> req[r].rep, rows |-> rows]]
        /\ UNCHANGED <<reps, opps, grants, docs, serial>>

CommitRevoke(r) ==
    /\ req[r].op = "revoking"
    /\ reps' = [reps EXCEPT ![req[r].rep].status = "REVOKED"]
    /\ grants' = {IF g \in req[r].rows THEN [g EXCEPT !.status = "REVOKED"] ELSE g : g \in grants}
    /\ End(r)
    /\ UNCHANGED <<opps, docs, serial>>

ReadForCreate(r, p) ==
    /\ CreatesUnder(p)
    /\ Begin(r, [op |-> "create", rep |-> p])
    /\ UNCHANGED <<reps, opps, grants, docs, serial>>

\* The grants a new opportunity o of representation p comes with: the
\* originator's, if its mandate yields any, and that of a third-party platform.
NewGrants(o, p) ==
    LET permissions == GrantPermissions(reps[p].allowed)
    IN  (IF permissions = {} THEN {}
         ELSE {[opp |-> o, grantee |-> reps[p].originator, permissions |-> permissions,
                source |-> "REPRESENTATION_AUTHORIZATION", status |-> "ACTIVE"]})
        \cup
        (IF Platform \in {reps[p].originator, reps[p].represented} THEN {}
         ELSE {[opp |-> o, grantee |-> Platform, permissions |-> {"READ", "QUALIFY"},
                source |-> "PLATFORM_ASSIGNMENT", status |-> "ACTIVE"]})

\* create_opportunity inserts what it decided on when it read.
CommitCreate(r, o) ==
    /\ req[r].op = "create"
    /\ o \notin DOMAIN opps
    /\ opps' = [q \in DOMAIN opps \cup {o} |->
                  IF q = o THEN [rep |-> req[r].rep, stage |-> "DRAFT", version |-> 1,
                                 cases |-> << >>]
                  ELSE opps[q]]
    /\ grants' = grants \cup NewGrants(o, req[r].rep)
    /\ End(r)
    /\ UNCHANGED <<reps, docs, serial>>

\* create_mock_document: access is checked, then the document inserted.
CheckUpload(r, o, t) ==
    /\ Accessible(o, t, "UPLOAD_DOCUMENTS")
    /\ Begin(r, [op |-> "upload", opp |-> o, by |-> t])
    /\ UNCHANGED <<reps, opps, grants, docs, serial>>

CommitUpload(r) ==
    /\ req[r].op = "upload"
    /\ Cardinality(docs) < MaxDocs
    /\ docs' = docs \cup {[opp |-> req[r].opp, by |-> req[r].by]}
    /\ End(r)
    /\ UNCHANGED <<reps, opps, grants, serial>>

\* qualify_opportunity by an analyst of tenant t, whose If-Match is expected.
CheckQualify(r, o, t, expected, result) ==
    /\ Accessible(o, t, "QUALIFY")
    /\ Begin(r, [op |-> "qualify", opp |-> o, by |-> t, expected |-> expected, result |-> result])
    /\ UNCHANGED <<reps, opps, grants, docs, serial>>

\* Mutant: the version is not compared.
VersionIgnored(o, expected) == TRUE

VersionIs(o, expected) == opps[o].version = expected

\* The compare and swap waits for an uncommitted one of the same row, and
\* compares with what is then committed; a mismatch is a conflict (409).
CompareVersion(r) ==
    /\ req[r].op = "qualify"
    /\ \A q \in Requests : ~ (req[q].op = "qualifying" /\ req[q].opp = req[r].opp)
    /\ IF VersionIs(req[r].opp, req[r].expected)
         THEN req' = [req EXCEPT ![r].op = "qualifying"]
         ELSE End(r)
    /\ UNCHANGED <<reps, opps, grants, docs, serial>>

CommitQualify(r) ==
    /\ req[r].op = "qualifying"
    /\ LET o == req[r].opp
       IN  opps' = [opps EXCEPT
                      ![o].stage = QualificationStage(req[r].result),
                      ![o].version = req[r].expected + 1,
                      ![o].cases = Append(@, [by |-> req[r].by, result |-> req[r].result])]
    /\ End(r)
    /\ UNCHANGED <<reps, grants, docs, serial>>

Next ==
    \/ \E m \in Mandates : RequestRepresentation(m)
    \/ \E r \in Requests :
          \/ Abort(r)
          \/ CommitAccept(r) \/ RevokeGrants(r) \/ CommitRevoke(r)
          \/ CommitUpload(r) \/ CompareVersion(r) \/ CommitQualify(r)
          \/ \E p \in DOMAIN reps : ReadForAccept(r, p) \/ ReadForRevoke(r, p) \/ ReadForCreate(r, p)
          \/ \E o \in Opps : CommitCreate(r, o)
          \/ \E o \in DOMAIN opps :
                \/ \E t \in Tenants : CheckUpload(r, o, t)
                \/ \E t \in Analysts, expected \in 1 .. MaxVersion - 1, result \in Results :
                      CheckQualify(r, o, t, expected, result)

Spec == Init /\ [][Next]_vars

-----------------------------------------------------------------------------
(* Properties *)

Representations ==
    [status: {"PENDING", "ACTIVE", "REVOKED"}, originator: Tenants, represented: Tenants,
     allowed: SUBSET Actions]

Opportunities ==
    [rep: Reps, stage: {"DRAFT", "QUALIFIED", "REJECTED", "INFORMATION_PENDING"},
     version: 1 .. MaxVersion, cases: Seq([by: Tenants, result: Results])]

Grants ==
    [opp: Opps, grantee: Tenants \cup {Platform}, permissions: SUBSET Permissions,
     source: {"REPRESENTATION_AUTHORIZATION", "PLATFORM_ASSIGNMENT"}, status: {"ACTIVE", "REVOKED"}]

RequestsInFlight ==
    {Idle}
    \cup [op: {"accept", "revoke", "create"}, rep: Reps]
    \cup [op: {"revoking"}, rep: Reps, rows: SUBSET Grants]
    \cup [op: {"upload"}, opp: Opps, by: Tenants]
    \cup [op: {"qualify", "qualifying"}, opp: Opps, by: Tenants,
          expected: 1 .. MaxVersion - 1, result: Results]

\* Rows and requests refer to rows that exist.
ForeignKeys ==
    /\ \A o \in DOMAIN opps : opps[o].rep \in DOMAIN reps
    /\ \A g \in grants : g.opp \in DOMAIN opps
    /\ \A d \in docs : d.opp \in DOMAIN opps
    /\ \A r \in Requests :
          /\ req[r].op \in {"accept", "revoke", "revoking", "create"} => req[r].rep \in DOMAIN reps
          /\ req[r].op \in {"upload", "qualify", "qualifying"} => req[r].opp \in DOMAIN opps

\* Every variable has its type, an opportunity is in a stage the code knows,
\* and nothing refers to a row that does not exist.
TypeOK ==
    /\ DOMAIN reps \subseteq Reps
    /\ reps \in [DOMAIN reps -> Representations]
    /\ DOMAIN opps \subseteq Opps
    /\ opps \in [DOMAIN opps -> Opportunities]
    /\ grants \subseteq Grants
    /\ docs \subseteq [opp: Opps, by: Tenants]
    /\ req \in [Requests -> RequestsInFlight]
    /\ serial \in BOOLEAN
    /\ ForeignKeys

\* Grants exist only under a mandate that was accepted and allows creating
\* opportunities, however requests overlap; the originator's are for itself
\* and say no more than the mandate, and only a third-party platform, which
\* may qualify and may not upload, holds another.
GrantsAreDerived ==
    \A g \in grants :
        LET m == Mandate(g.opp) IN
        /\ m.status # "PENDING"
        /\ "CREATE_OPPORTUNITY" \in m.allowed
        /\ IF g.source = "PLATFORM_ASSIGNMENT"
             THEN /\ g.grantee = Platform
                  /\ Platform \notin {m.originator, m.represented}
                  /\ "UPLOAD_DOCUMENTS" \notin g.permissions
             ELSE /\ g.grantee = m.originator
                  /\ "QUALIFY" \notin g.permissions
                  /\ "READ" \in g.permissions => "VIEW_STATUS" \in m.allowed
                  /\ "UPLOAD_DOCUMENTS" \in g.permissions => "UPLOAD_DOCUMENTS" \in m.allowed

\* Of the analysts that qualify the same version of an opportunity one wins:
\* the version counts the qualifications recorded, and the stage is that of
\* the latest, so none of them was lost or overwritten unseen.
StageFollowsTheCases ==
    \A o \in DOMAIN opps :
        LET cases == opps[o].cases IN
        /\ opps[o].version = Len(cases) + 1
        /\ opps[o].stage = IF cases = << >> THEN "DRAFT"
                           ELSE QualificationStage(cases[Len(cases)].result)

\* t owns o, or holds or once held the permission there.
Held(o, t, permission) ==
    \/ t = Owner(o)
    \/ \E g \in grants : g.opp = o /\ g.grantee = t /\ permission \in g.permissions

\* Whoever worked on an opportunity of somebody else's held, then or before, a
\* grant for that very kind of work.
OutsidersActOnGrants ==
    /\ \A d \in docs : Held(d.opp, d.by, "UPLOAD_DOCUMENTS")
    /\ \A o \in DOMAIN opps : \A i \in DOMAIN opps[o].cases :
          Held(o, opps[o].cases[i].by, "QUALIFY")

\* A grant is revoked only in the transaction that revokes the representation
\* it stems from; the platform keeps its own, and no grant comes back.
RevocationIsConfined ==
    [][\A g \in grants :
          \/ g \in grants'
          \/ /\ g.status = "ACTIVE"
             /\ g.source = "REPRESENTATION_AUTHORIZATION"
             /\ Mandate(g.opp).status # "PENDING"
             /\ reps'[opps[g.opp].rep].status = "REVOKED"]_vars

\* If requests do not overlap, a representation and the grants derived from it
\* are active, or revoked, together.
GrantsMirrorTheirSource ==
    serial => \A g \in grants :
        g.source = "REPRESENTATION_AUTHORIZATION" => g.status = Mandate(g.opp).status

\* tests/test_authorization_lifecycle.py:140, of the grants of a revoked
\* representation: grant.status == "REVOKED".
RevokedMeansNoGrant ==
    \A g \in grants :
        g.source = "REPRESENTATION_AUTHORIZATION" /\ Mandate(g.opp).status = "REVOKED"
            => g.status = "REVOKED"

=============================================================================
