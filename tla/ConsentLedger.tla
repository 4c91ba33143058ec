---------------------------- MODULE ConsentLedger ----------------------------
(***************************************************************************)
(* The persistent consent ledger: grants, and one hash chain of events per *)
(* tenant, whose head row serializes the appends.  Every audited handler   *)
(* of the backend appends to such a chain inside its own transaction, so a *)
(* request is a process here: it locks the grant it is about, appends its  *)
(* event to the grant's tenant and its audit event to the actor's, and     *)
(* commits everything at once, or is rolled back and sent again.           *)
(*                                                                         *)
(* The database is PostgreSQL under READ COMMITTED: a SELECT FOR UPDATE    *)
(* waits for the row's holder and then sees what it committed; rows of     *)
(* other transactions are invisible before their commit; an INSERT of a    *)
(* key that an open transaction has inserted waits for its end; a cycle of *)
(* waiting transactions loses a member.                                    *)
(***************************************************************************)
EXTENDS Integers, Sequences, FiniteSets

CONSTANTS
    Tenants,
    Consents,
    Workloads,     \* sets of requests that may be made together
    None           \* no consent, no integrity check

Kinds == {"ISSUE", "REVOKE", "ACCESS", "AUDIT", "VERIFY"}

Requests == UNION Workloads      \* [id, kind, tenant, consent, covered]

\* "tenant" is the tenant of the actor, where the request is audited, or the
\* tenant whose chain is verified;
\* "covered" that purpose, scopes and provider are those of the consent.
ASSUME RequestAssumption ==
    /\ Requests \subseteq [id: {r.id : r \in Requests}, kind: Kinds, tenant: Tenants,
                           consent: Consents \cup {None}, covered: BOOLEAN]
    /\ \A r, q \in Requests : r.id = q.id => r = q
    /\ \A r \in Requests : r.kind \notin {"AUDIT", "VERIFY"} => r.consent \in Consents
\* A consent id is a fresh uuid.
ASSUME IssueAssumption ==
    \A r, q \in Requests :
        r.kind = "ISSUE" /\ q.kind = "ISSUE" /\ r.consent = q.consent => r = q
ASSUME NoneAssumption == None \notin Consents

VARIABLES
    grants,        \* committed grants
    heads,         \* committed head rows
    chain,         \* committed event rows
    expired,       \* consents whose expires_at has passed
    tx             \* the transaction of each request of the workload

vars == <<grants, heads, chain, expired, tx>>

-----------------------------------------------------------------------------
(* Rows.                                                                   *)

GENESIS == [seq |-> 0, hash |-> << >>]

\* sha256 of the event and of the hash before it, as an injective function.
HashEvent(prev, type, id) == Append(prev, [type |-> type, id |-> id])

EventRow(t, head, type, r) ==
    [tenant |-> t, seq |-> head.seq + 1, prev |-> head.hash,
     hash |-> HashEvent(head.hash, type, r.id),
     type |-> type, consent |-> IF type = "AUDIT" THEN None ELSE r.consent, id |-> r.id]

Idle == [pc |-> "NEW", todo |-> << >>, draft |-> {}, locked |-> None,
         onTime |-> TRUE, check |-> None]

Running(r) == r \in DOMAIN tx /\ tx[r].pc \in {"GRANT", "HEAD", "INSERT", "COMMIT", "CHECK"}

\* The events a transaction has flushed and not yet committed; it holds the
\* head row of every tenant it has appended to.
Drafted(r, t) == {e \in tx[r].draft : e.tenant = t}
HoldsHead(r, t) == Drafted(r, t) # {}

\* The head row as r sees it: with its own updates, else as committed.
HeadSeen(r, t) ==
    IF HoldsHead(r, t)
    THEN LET last == CHOOSE e \in Drafted(r, t) : \A d \in Drafted(r, t) : d.seq <= e.seq
         IN  [seq |-> last.seq, hash |-> last.hash]
    ELSE IF t \in DOMAIN heads THEN heads[t] ELSE GENESIS

\* Another transaction holds, or has just inserted, the head row.
HeadHeld(r, t) == \E q \in DOMAIN tx \ {r} : HoldsHead(q, t)

-----------------------------------------------------------------------------
Init ==
    /\ grants  = << >>
    /\ heads   = << >>
    /\ chain   = {}
    /\ expired = {}
    /\ \E workload \in Workloads : tx = [r \in workload |-> Idle]

\* The session is closed: what was not committed is rolled back and the
\* locks are released.
EndUnreleased(r, pc) ==      \* mutant: the session of a request stays open
    tx' = [tx EXCEPT ![r] = [Idle EXCEPT !.pc = pc, !.draft = tx[r].draft]]
End(r, pc) == tx' = [tx EXCEPT ![r] = [Idle EXCEPT !.pc = pc]]

Event(t, type) == [tenant |-> t, type |-> type]
AuditAtOwner(r) ==           \* mutant: audited where the grant belongs
    Event(IF r.consent \in DOMAIN grants THEN grants[r.consent].tenant ELSE r.tenant, "AUDIT")
AuditOf(r) == Event(r.tenant, "AUDIT")

\* A handler starts: issue_grant and other audited handlers go straight to
\* their appends, the others read the clock and then look for the grant.
Begin(r) ==
    /\ tx[r].pc = "NEW" /\ r.kind # "VERIFY"
    /\ tx' = [tx EXCEPT ![r] =
          CASE r.kind = "ISSUE" ->
                 [@ EXCEPT !.pc = "HEAD", !.todo = <<Event(r.tenant, "CONSENT_GRANTED"), AuditOf(r)>>]
            [] r.kind = "AUDIT" -> [@ EXCEPT !.pc = "HEAD", !.todo = <<AuditOf(r)>>]
            [] OTHER -> [@ EXCEPT !.pc = "GRANT", !.onTime = r.consent \notin expired]]
    /\ UNCHANGED <<grants, heads, chain, expired>>

\* Mutant: the grant is read without FOR UPDATE.
GrantFreeUnlocked(c) == TRUE
GrantFree(c) == \A q \in DOMAIN tx : tx[q].locked # c

\* 404, also for a grant that is not committed yet.
GrantMissing(r) ==
    /\ tx[r].pc = "GRANT"
    /\ r.consent \notin DOMAIN grants
    /\ End(r, "REFUSED")
    /\ UNCHANGED <<grants, heads, chain, expired>>

\* revoke_grant, with nothing left to revoke the second time.
LockToRevoke(r) ==
    /\ tx[r].pc = "GRANT" /\ r.kind = "REVOKE"
    /\ r.consent \in DOMAIN grants /\ GrantFree(r.consent)
    /\ tx' = [tx EXCEPT ![r] =
          [@ EXCEPT !.pc = "HEAD", !.locked = r.consent,
                    !.todo = IF grants[r.consent].status = "REVOKED" THEN <<AuditOf(r)>>
                             ELSE <<Event(grants[r.consent].tenant, "CONSENT_REVOKED"), AuditOf(r)>>]]
    /\ UNCHANGED <<grants, heads, chain, expired>>

\* The conditions of authorize_access on the locked grant.
Authorizes(r) == grants[r.consent].status = "ACTIVE" /\ tx[r].onTime /\ r.covered

LockToAccess(r) ==
    /\ tx[r].pc = "GRANT" /\ r.kind = "ACCESS"
    /\ r.consent \in DOMAIN grants /\ GrantFree(r.consent)
    /\ IF Authorizes(r)
       THEN tx' = [tx EXCEPT ![r] =
               [@ EXCEPT !.pc = "HEAD", !.locked = r.consent,
                         !.todo = <<Event(grants[r.consent].tenant, "DATA_ACCESS_ALLOWED"), AuditOf(r)>>]]
       ELSE End(r, "REFUSED")
    /\ UNCHANGED <<grants, heads, chain, expired>>

\* _append_event on a head row that r holds from here on: the event continues
\* the head, and becomes the head.
AppendEvent(r) ==
    LET step == Head(tx[r].todo)
        rest == Tail(tx[r].todo)
    IN  tx' = [tx EXCEPT ![r] =
            [@ EXCEPT !.draft = tx[r].draft \cup
                                   {EventRow(step.tenant, HeadSeen(r, step.tenant), step.type, r)},
                      !.todo  = rest,
                      !.pc    = IF rest = << >> THEN "COMMIT" ELSE "HEAD"]]

\* Mutant: the head is read without FOR UPDATE.
HeadFreeUnlocked(r, t) == TRUE
\* Mutant: the audit event is appended by a session of its own.
HeadFreeSeparate(r, t) == \A q \in DOMAIN tx : ~HoldsHead(q, t)
HeadFree(r, t) == ~HeadHeld(r, t)

\* The head row is there: wait for it, then append.
TakeHead(r) ==
    LET t == Head(tx[r].todo).tenant
    IN  /\ tx[r].pc = "HEAD"
        /\ t \in DOMAIN heads \/ HoldsHead(r, t)
        /\ HeadFree(r, t)
        /\ AppendEvent(r)
        /\ UNCHANGED <<grants, heads, chain, expired>>

\* The tenant has no committed head row: this transaction will insert it.
MissHead(r) ==
    LET t == Head(tx[r].todo).tenant
    IN  /\ tx[r].pc = "HEAD"
        /\ t \notin DOMAIN heads /\ ~HoldsHead(r, t)
        /\ tx' = [tx EXCEPT ![r].pc = "INSERT"]
        /\ UNCHANGED <<grants, heads, chain, expired>>

InsertHead(r) ==
    LET t == Head(tx[r].todo).tenant
    IN  /\ tx[r].pc = "INSERT"
        /\ t \notin DOMAIN heads /\ ~HeadHeld(r, t)
        /\ AppendEvent(r)
        /\ UNCHANGED <<grants, heads, chain, expired>>

\* Another transaction's head row was committed first: an integrity error
\* ends this one, which wrote nothing.
HeadConflict(r) ==
    /\ tx[r].pc = "INSERT"
    /\ Head(tx[r].todo).tenant \in DOMAIN heads
    /\ End(r, "NEW")
    /\ UNCHANGED <<grants, heads, chain, expired>>

Commit(r) ==
    /\ tx[r].pc = "COMMIT"
    /\ chain' = chain \cup tx[r].draft
    /\ heads' = [t \in DOMAIN heads \cup {e.tenant : e \in tx[r].draft} |-> HeadSeen(r, t)]
    /\ grants' = CASE r.kind = "ISSUE" ->
                        [c \in DOMAIN grants \cup {r.consent} |->
                            IF c = r.consent THEN [tenant |-> r.tenant, status |-> "ACTIVE"]
                            ELSE grants[c]]
                   [] r.kind = "REVOKE" -> [grants EXCEPT ![r.consent].status = "REVOKED"]
                   [] OTHER -> grants
    /\ End(r, "DONE")
    /\ UNCHANGED expired

\* r waits for the head row that q holds.
WaitsFor(r, q) ==
    /\ tx[r].pc \in {"HEAD", "INSERT"} /\ q # r
    /\ HoldsHead(q, Head(tx[r].todo).tenant)
    /\ tx[r].pc = "HEAD" <=> Head(tx[r].todo).tenant \in DOMAIN heads

\* The database ends one member of a cycle of waiting transactions.
Waiting == {r \in DOMAIN tx : \E q \in DOMAIN tx : WaitsFor(r, q)}
Deadlocked(r) ==
    \E cycle \in SUBSET Waiting :
        /\ r \in cycle
        /\ \A q \in cycle : (\E p \in cycle : WaitsFor(q, p)) /\ (\E p \in cycle : WaitsFor(p, q))
DeadlockVictim(r) ==
    /\ Deadlocked(r)
    /\ End(r, "NEW")
    /\ UNCHANGED <<grants, heads, chain, expired>>

\* The worker is stopped, or loses its connection, before the commit.
Crash(r) ==
    /\ Running(r)
    /\ End(r, "NEW")
    /\ UNCHANGED <<grants, heads, chain, expired>>

Expire(c) ==
    /\ c \notin expired
    /\ expired' = expired \cup {c}
    /\ UNCHANGED <<grants, heads, chain, tx>>

-----------------------------------------------------------------------------
(* verify_chain: two statements, each of which sees the rows committed     *)
(* when it runs.                                                           *)

Rows(t) == {e \in chain : e.tenant = t}

\* The loop over the events: gapless, each continuing the one before.
Linked(rows) ==
    /\ {e.seq : e \in rows} = 1 .. Cardinality(rows)
    /\ \A e \in rows :
          /\ e.hash = HashEvent(e.prev, e.type, e.id)
          /\ e.seq = 1 => e.prev = GENESIS.hash
          /\ \A d \in rows : e.seq = d.seq + 1 => e.prev = d.hash

LastHash(rows) ==
    IF rows = {} THEN GENESIS.hash
    ELSE (CHOOSE e \in rows : \A d \in rows : d.seq <= e.seq).hash

HeadAgrees(t, count, hash) ==
    t \in DOMAIN heads => heads[t] = [seq |-> count, hash |-> hash]

ReadEvents(r) ==
    /\ tx[r].pc = "NEW" /\ r.kind = "VERIFY"
    /\ tx' = [tx EXCEPT ![r] =
          [@ EXCEPT !.pc = "CHECK",
                    !.check = [count |-> Cardinality(Rows(r.tenant)), hash |-> LastHash(Rows(r.tenant)),
                               linked |-> Linked(Rows(r.tenant)), valid |-> TRUE, seen |-> 0]]]
    /\ UNCHANGED <<grants, heads, chain, expired>>

ReadHead(r) ==
    /\ tx[r].pc = "CHECK"
    /\ tx' = [tx EXCEPT ![r] =
          [@ EXCEPT !.pc = "DONE",
                    !.check.valid = /\ tx[r].check.valid /\ tx[r].check.linked
                                    /\ HeadAgrees(r.tenant, tx[r].check.count, tx[r].check.hash),
                    !.check.seen = IF r.tenant \in DOMAIN heads THEN heads[r.tenant].seq ELSE 0]]
    /\ UNCHANGED <<grants, heads, chain, expired>>

-----------------------------------------------------------------------------
Step(r) ==
    \/ GrantMissing(r) \/ LockToRevoke(r) \/ LockToAccess(r)
    \/ TakeHead(r) \/ MissHead(r) \/ InsertHead(r) \/ HeadConflict(r)
    \/ Commit(r) \/ ReadHead(r) \/ DeadlockVictim(r)

Next ==
    \/ \E r \in DOMAIN tx : Begin(r) \/ ReadEvents(r) \/ Step(r) \/ Crash(r)
    \/ \E c \in Consents : Expire(c)

Spec == Init /\ [][Next]_vars

\* Waiting transactions are queued, and a running worker goes on.
Fairness == \A r \in Requests : SF_vars(r \in DOMAIN tx /\ Step(r))

FairSpec == Spec /\ Fairness

-----------------------------------------------------------------------------
\* The shape of the tables and of the transactions.
TypeOK ==
    /\ DOMAIN grants \subseteq Consents
    /\ grants \in [DOMAIN grants -> [tenant: Tenants, status: {"ACTIVE", "REVOKED"}]]
    /\ DOMAIN heads \subseteq Tenants
    /\ \A t \in DOMAIN heads : heads[t].seq = Len(heads[t].hash)
    /\ \A e \in chain : e.tenant \in DOMAIN heads /\ e.seq \in 1 .. heads[e.tenant].seq
    /\ DOMAIN tx \in Workloads
    /\ \A r \in DOMAIN tx :
          /\ Running(r) \/ tx[r] = [Idle EXCEPT !.pc = tx[r].pc, !.check = tx[r].check]
          /\ tx[r].pc \in {"HEAD", "INSERT"} <=> tx[r].todo # << >>
          /\ tx[r].locked # None => r.kind \in {"REVOKE", "ACCESS"} /\ tx[r].locked = r.consent

Gapless == \A t \in Tenants : Linked(Rows(t)) /\ HeadAgrees(t, Cardinality(Rows(t)), LastHash(Rows(t)))

NoCollision ==
    LET flushed == chain \cup UNION {tx[r].draft : r \in DOMAIN tx}
    IN  \A d, e \in flushed : d.tenant = e.tenant /\ d.seq = e.seq => d = e

AccusationsAreOvertaken ==
    \A r \in DOMAIN tx :
        tx[r].check # None => /\ tx[r].check.linked
                              /\ tx[r].check.valid \/ tx[r].check.seen > tx[r].check.count

\* Each committed chain is gapless, linked and ends in its head, whatever
\* appends raced for the head row, lost it, crashed or were rolled back; no two
\* events of a tenant, committed or flushed by an open transaction, have one
\* sequence number; and an integrity check that calls a chain invalid was
\* overtaken by a commit between its two statements, it never meets a broken link.
ChainsVerify == Gapless /\ NoCollision /\ AccusationsAreOvertaken

\* Revocation is once and for all: a grant is revoked exactly if its tenant's
\* chain says so, once, and no access was allowed after that event.
AccessEndsWithRevocation ==
    \A c \in DOMAIN grants :
        LET revocations == {e \in chain : e.consent = c /\ e.type = "CONSENT_REVOKED"}
        IN  /\ Cardinality(revocations) = IF grants[c].status = "REVOKED" THEN 1 ELSE 0
            /\ \A e \in revocations, a \in chain :
                  a.consent = c /\ a.type = "DATA_ACCESS_ALLOWED" =>
                      a.tenant = e.tenant /\ a.seq < e.seq

\* What a request did is recorded in both chains or in neither: each grant,
\* revocation and access with its audit event where the actor belongs, and
\* nothing of a request that was refused or has not committed.
RecordedTogether ==
    \A r \in DOMAIN tx :
        LET mine == {e \in chain : e.id = r.id}
        IN  IF tx[r].pc = "DONE" /\ r.kind # "VERIFY"
            THEN /\ \E e \in mine : e.type = "AUDIT" /\ e.tenant = r.tenant
                 /\ r.kind \in {"ISSUE", "ACCESS"} => Cardinality(mine) = 2
            ELSE mine = {}

\* No request waits forever for a grant or a head row, although two of them
\* may take the same two heads in opposite orders and any may crash.
NoRequestWaitsForever == \A r \in Requests : Running(r) ~> ~Running(r)

=============================================================================
