----------------------------- MODULE MachineAccess -----------------------------
(***************************************************************************)
(* The API for other machines: every request passes the identity provider, *)
(* the tenant and the capability it needs, reads, and is written to the    *)
(* tenant's audit before it is answered.  One of its reads is that audit,  *)
(* in pages, by machines whose requests go on adding to it.                *)
(*                                                                         *)
(* The chain that an audit row joins as well is in ConsentLedger.  The     *)
(* routes exist only where the interface is enabled.                       *)
(***************************************************************************)
EXTENDS Integers, Sequences, SequencesExt, FiniteSetsExt

CONSTANTS
    None,
    Requests,            \* bound: the requests of one run, 1..n in their order
    Queries,             \* bound: what a request may carry
    Tenants,             \* the active tenants, and the organisation of each
    Settings,            \* issuer, audience, client, environment, lifetime, skew
    Configured,          \* mode and credentials of the introspection are set
    RowIds,              \* bound: identifiers of audit rows, in their order
    Recorded,            \* bound: the audit before the first request
    MaxTime              \* bound on the clock

\* The rows that are there have identifiers of their own and are of other
\* requests; who walks the audit asks for it, and goes on asking for the same.
ASSUME MachineAssumption ==
    /\ RowIds \subseteq Int
    /\ \A audit \in Recorded :
         /\ IsFiniteSet(audit)
         /\ \A row \in audit : row.id \in Int /\ row.at \in Int /\ row.request \notin Requests
         /\ \A row, other \in audit : row.id = other.id => row = other
    /\ \A query, other \in Queries : query.cursor = "next" /\ other.cursor = "next" =>
         /\ query.capability = "fintech.audit.read" /\ query.tenant = other.tenant
         /\ query.from = other.from /\ query.to = other.to
    /\ None # "next" /\ None \notin [at: Int, id: Int]

VARIABLES
    now,
    request,             \* request -> what it carries and how far it is
    rows,                \* the committed AuditEvents
    walk                 \* history: of a client that reads the audit to its end

vars == <<now, request, rows, walk>>

-----------------------------------------------------------------------------
(* Who asks *)

\* OidcIntrospectionM2MTokenValidator.validate: a set of claims names this
\* client to this service in this environment.
Recognised(claims) ==
    /\ claims.active
    /\ claims.iss = Settings.issuer /\ Settings.audience \in claims.aud
    /\ claims.sub # None /\ claims.jti # None
    /\ claims.client_id = Settings.client_id
    /\ claims.env = Settings.environment

Scoped(claims) == claims.tenant_scope # {} /\ claims.capabilities # {}

Timely(claims) ==
    /\ claims.iat # None /\ claims.exp # None
    /\ claims.exp > now /\ claims.iat <= now + Settings.skew
    /\ claims.exp > claims.iat /\ claims.exp - claims.iat <= Settings.lifetime

\* The status a credential is refused with; 0 for none.
CredentialRefusal(claims) ==
    IF ~Recognised(claims) THEN 401
    ELSE IF ~Scoped(claims) THEN 403
    ELSE IF ~Timely(claims) THEN 401 ELSE 0

\* M2MContextFactory.create: None stands for a header that is no UUID.
ContextRefusal(claims, tenant, organization) ==
    IF None \in {tenant, organization} THEN 422
    ELSE IF tenant \notin claims.tenant_scope THEN 403
    ELSE IF tenant \notin DOMAIN Tenants THEN 403
    ELSE IF Tenants[tenant] # organization THEN 403 ELSE 0

-----------------------------------------------------------------------------
(* The audit of a tenant, in pages *)

\* The newest first, and of one moment the greatest identifier first.
Newer(r, s) == r.at > s.at \/ (r.at = s.at /\ r.id > s.id)

\* Mutant: the rows of the cursor's moment are taken for read.
SkipMoment(r, cursor) == cursor = None \/ r.at < cursor.at

AfterCursor(r, cursor) ==
    cursor = None \/ r.at < cursor.at \/ (r.at = cursor.at /\ r.id < cursor.id)

\* M2MReadService.audit_events
Listed(query, cursor) ==
    {r \in rows :
        /\ r.tenant = query.tenant
        /\ query.from # None => r.at >= query.from
        /\ query.to # None => r.at <= query.to
        /\ cursor # None => AfterCursor(r, cursor)}

\* The row that i - 1 rows are newer than, for each of the first i.
Page(query, cursor) ==
    LET listed == Listed(query, cursor)
    IN  [i \in 1..Min({query.limit, Cardinality(listed)}) |->
            CHOOSE r \in listed : Cardinality({s \in listed : Newer(s, r)}) = i - 1]

NextCursor(query, cursor) ==
    IF Cardinality(Listed(query, cursor)) > query.limit
    THEN LET last == Last(Page(query, cursor)) IN [at |-> last.at, id |-> last.id]
    ELSE None

\* What is wrong with the parameters of a read of the audit.
BadRange(query) ==
    \/ query.limit \notin 1..100
    \/ query.cursor = "garbled"
    \/ query.from # None /\ query.to # None /\ query.from > query.to

-----------------------------------------------------------------------------
NoQuery == [cursor |-> None]
Unasked == [state |-> "unasked", query |-> NoQuery, status |-> 0,
            page |-> <<>>, next |-> None, cursor |-> None, row |-> None]

NewWalk == [state |-> "new", begun |-> {}, seen |-> <<>>, cursor |-> None]

Init ==
    /\ now = 1
    /\ request = [r \in Requests |-> Unasked]
    /\ rows \in Recorded
    /\ walk = NewWalk

\* With a context, the answer waits until it is on record.
Decide(r, status) ==
    request' = [request EXCEPT ![r].status = status, ![r].state = "decided"]

Tick == now < MaxTime /\ now' = now + 1 /\ UNCHANGED <<request, rows, walk>>

\* The requests of the client that reads the audit page by page.
Walking(r) == request[r].query.cursor = "next"

\* A request that is refused before it has a context leaves nothing to write.
Refuse(r, status) ==
    request' = [request EXCEPT ![r].status = status, ![r].state = "answered"]

\* A request comes in and passes require_m2m_capability as far as the identity
\* provider.  The client that reads the audit asks for one page after the other,
\* with the cursor of the last page it got.
Arrive(r, query, reachable) ==
    LET asked   == [Unasked EXCEPT !.query = query,
                       !.cursor = IF query.cursor = "next" THEN walk.cursor ELSE None]
        refusal == IF ~query.ids THEN 422
                   ELSE IF ~Configured THEN 503
                   ELSE IF query.claims = None THEN 401
                   ELSE IF ~reachable THEN 503
                   ELSE CredentialRefusal(query.claims)
    IN  /\ request[r].state = "unasked"
        /\ \A q \in Requests : q < r => request[q].state # "unasked"
        /\ query.cursor = "next" =>
             /\ walk.state # "done"
             /\ \A q \in Requests : Walking(q) => request[q].state = "answered"
        /\ request' = [request EXCEPT ![r] =
               IF refusal = 0 THEN [asked EXCEPT !.state = "identified"]
               ELSE [asked EXCEPT !.state = "answered", !.status = refusal]]
        /\ UNCHANGED <<now, rows, walk>>

\* Mutant: the context is kept only once the capability was found.
ContextLast(r) ==
    LET query == request[r].query
        refusal == ContextRefusal(query.claims, query.tenant, query.organization)
    IN  /\ request[r].state = "identified"
        /\ IF refusal # 0 THEN Refuse(r, refusal)
           ELSE IF query.capability \notin query.claims.capabilities THEN Refuse(r, 403)
           ELSE request' = [request EXCEPT ![r].state = "admitted"]
        /\ UNCHANGED <<now, rows, walk>>

\* The rest of it: a request that lacks only the capability has a context.
Admit(r) ==
    LET query == request[r].query
        refusal == ContextRefusal(query.claims, query.tenant, query.organization)
    IN  /\ request[r].state = "identified"
        /\ IF refusal # 0 THEN Refuse(r, refusal)
           ELSE IF query.capability \in query.claims.capabilities
           THEN request' = [request EXCEPT ![r].state = "admitted"]
           ELSE Decide(r, 403)
        /\ UNCHANGED <<now, rows, walk>>

\* The routes: the audit in pages; of the others only that they succeed.
Handle(r) ==
    LET query == request[r].query
    IN  /\ request[r].state = "admitted"
        /\ IF query.capability # "fintech.audit.read" THEN Decide(r, 200)
           ELSE IF BadRange(query) THEN Decide(r, 422)
           ELSE request' = [request EXCEPT ![r].status = 200, ![r].state = "decided",
                                ![r].page = Page(query, request[r].cursor),
                                ![r].next = NextCursor(query, request[r].cursor)]
        /\ walk' = IF Walking(r) /\ walk.state = "new"
                   THEN [walk EXCEPT !.begun = Listed(query, None)] ELSE walk
        /\ UNCHANGED <<now, rows>>

\* The database fails, here or while the context is made.
HandlerFails(r) ==
    /\ request[r].state \in {"identified", "admitted"}
    /\ IF request[r].state = "identified" THEN Refuse(r, 500) ELSE Decide(r, 500)
    /\ UNCHANGED <<now, rows, walk>>

-----------------------------------------------------------------------------
(* m2m_audit_middleware *)

Reserved == {row.id : row \in rows}
            \cup {request[r].row.id : r \in {q \in Requests : request[q].state = "stamped"}}

\* record_m2m_audit stamps the row, then waits for the tenant's chain.
Stamp(r, id) ==
    /\ request[r].state = "decided"
    /\ id \in RowIds \ Reserved
    /\ request' = [request EXCEPT ![r].state = "stamped",
           ![r].row = [id |-> id, at |-> now, tenant |-> request[r].query.tenant, request |-> r,
                       capability |-> request[r].query.capability,
                       decision |-> IF request[r].status < 400 THEN "allow" ELSE "deny",
                       status |-> request[r].status]]
    /\ UNCHANGED <<now, rows, walk>>

\* The client that walks takes the page it is answered with.
Takes(r) ==
    IF Walking(r) /\ request[r].status = 200
    THEN walk' = [walk EXCEPT !.state = IF request[r].next = None THEN "done" ELSE "begun",
                      !.seen = @ \o request[r].page, !.cursor = request[r].next]
    ELSE UNCHANGED walk

CommitAudit(r) ==
    /\ request[r].state = "stamped"
    /\ rows' = rows \cup {request[r].row}
    /\ request' = [request EXCEPT ![r].state = "answered"]
    /\ Takes(r)
    /\ UNCHANGED now

\* Mutant: an audit that fails is logged and the answer stands.
AuditFailsQuietly(r, kept) ==
    /\ request[r].state = "stamped"
    /\ rows' = IF kept THEN rows \cup {request[r].row} ELSE rows
    /\ request' = [request EXCEPT ![r].state = "answered"]
    /\ Takes(r)
    /\ UNCHANGED now

\* The audit fails, before its row was kept or with the commit's answer lost:
\* the answer is replaced.
AuditFails(r, kept) ==
    /\ request[r].state = "stamped"
    /\ rows' = IF kept THEN rows \cup {request[r].row} ELSE rows
    /\ request' = [request EXCEPT ![r].state = "answered", ![r].status = 500,
                                  ![r].page = <<>>, ![r].next = None]
    /\ UNCHANGED <<now, walk>>

Next ==
    \/ Tick
    \/ \E r \in Requests :
         \/ \E query \in Queries, reachable \in BOOLEAN : Arrive(r, query, reachable)
         \/ Admit(r) \/ Handle(r) \/ HandlerFails(r)
         \/ \E id \in RowIds : Stamp(r, id)
         \/ CommitAudit(r)
         \/ \E kept \in BOOLEAN : AuditFails(r, kept)

Spec == Init /\ [][Next]_vars

-----------------------------------------------------------------------------
(* Properties *)

Answered == {r \in Requests : request[r].state = "answered"}
RowsOf(r) == {row \in rows : row.request = r}

\* What a machine is answered is on record: data reach it only with a row in
\* the audit of the tenant it asked for that says so, a tenant and a capability
\* its credential names; one that lacks only the capability leaves a row as
\* well, with the status it got; no request leaves two rows, and none leaves a
\* row with a tenant its credential does not name.  A row may tell of an answer
\* that was replaced because the commit seemed lost, never the reverse.
EveryAnswerIsOnRecord ==
    \A r \in Answered :
        LET query  == request[r].query
            status == request[r].status
            claims == query.claims
            Told(decision) == \E row \in RowsOf(r) : /\ row.tenant = query.tenant
                                                     /\ row.capability = query.capability
                                                     /\ row.decision = decision
                                                     /\ row.status = status
        IN  /\ Cardinality(RowsOf(r)) <= 1
            /\ RowsOf(r) # {} => /\ query.tenant \in claims.tenant_scope
                                 /\ Tenants[query.tenant] = query.organization
            /\ status = 200 => Told("allow") /\ query.capability \in claims.capabilities
            /\ status = 403 /\ Scoped(claims)
               /\ ContextRefusal(claims, query.tenant, query.organization) = 0
                 => Told("deny")

\* A client that reads the audit to its end, page by page, while its own and
\* other requests add to it and some of its requests fail, gets every row there
\* was when it began, none of them twice, each after all newer ones and each a
\* committed row of its tenant.
WalksMissNothing ==
    /\ walk.state = "done" => walk.begun \subseteq ToSet(walk.seen)
    /\ \A i, j \in DOMAIN walk.seen : i < j => Newer(walk.seen[i], walk.seen[j])
    /\ \A i \in DOMAIN walk.seen : \E r \in Requests :
         /\ Walking(r) /\ walk.seen[i].tenant = request[r].query.tenant
         /\ walk.seen[i] \in rows
=============================================================================
