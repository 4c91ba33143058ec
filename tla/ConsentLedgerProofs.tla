-------------------------- MODULE ConsentLedgerProofs --------------------------
(***************************************************************************)
(* Proofs about ConsentLedger: its type invariant, that every chain        *)
(* verifies, that no access follows a revocation and that a request is     *)
(* recorded as a whole or not at all, for any number of requests that      *)
(* race, wait, crash and are sent again.                                   *)
(***************************************************************************)
EXTENDS ConsentLedger, FiniteSetTheorems, TLAPS

-----------------------------------------------------------------------------
(* The shape of rows and transactions.                                     *)

Types == {"CONSENT_GRANTED", "CONSENT_REVOKED", "DATA_ACCESS_ALLOWED", "AUDIT"}
Ids == {r.id : r \in Requests}
Marks == [type: Types, id: Ids]

Heads == [seq: Nat, hash: Seq(Marks)]
Events == [tenant: Tenants, seq: Nat, prev: Seq(Marks), hash: Seq(Marks),
           type: Types, consent: Consents \cup {None}, id: Ids]

States == {"NEW", "GRANT", "HEAD", "INSERT", "COMMIT", "CHECK", "DONE", "REFUSED"}

Columns == {"pc", "todo", "draft", "locked", "onTime", "check"}
Fields(row) == DOMAIN row = Columns /\ row = [f \in Columns |-> row[f]]

Rowed ==
    /\ DOMAIN grants \subseteq Consents
    /\ grants \in [DOMAIN grants -> [tenant: Tenants, status: {"ACTIVE", "REVOKED"}]]
    /\ DOMAIN heads \subseteq Tenants
    /\ heads \in [DOMAIN heads -> Heads]
    /\ chain \subseteq Events
    /\ DOMAIN tx \in Workloads
    /\ \A r \in DOMAIN tx :
          /\ Fields(tx[r])
          /\ tx[r].pc \in States
          /\ tx[r].draft \subseteq Events
          /\ tx[r].locked \in Consents \cup {None}
          /\ tx[r].onTime \in BOOLEAN

-----------------------------------------------------------------------------
(* What a request is about to do and has done.                             *)

\* The event of its own that a request appends beside its audit event.
Deed(r) ==
    CASE r.kind = "ISSUE"  -> "CONSENT_GRANTED"
      [] r.kind = "REVOKE" -> "CONSENT_REVOKED"
      [] r.kind = "ACCESS" -> "DATA_ACCESS_ALLOWED"
      [] OTHER             -> "AUDIT"

Owner(r) == IF r.kind = "ISSUE" THEN r.tenant ELSE grants[r.consent].tenant

HasDeed(r) ==
    \/ r.kind \in {"ISSUE", "ACCESS"}
    \/ r.kind = "REVOKE" /\ grants[r.consent].status = "ACTIVE"

IsDeed(r, e) ==
    e.tenant = Owner(r) /\ e.type = Deed(r) /\ e.consent = r.consent /\ e.id = r.id
IsAudit(r, e) ==
    e.tenant = r.tenant /\ e.type = "AUDIT" /\ e.consent = None /\ e.id = r.id

\* Nothing but its own and its audit event, in this order.
Progress(r) ==
    /\ tx[r].pc \in {"NEW", "REFUSED", "DONE", "CHECK", "GRANT"} =>
          tx[r].draft = {} /\ tx[r].todo = << >> /\ tx[r].locked = None
    /\ tx[r].pc \in {"NEW", "REFUSED", "DONE", "CHECK"} => tx[r].onTime = TRUE
    /\ tx[r].pc \in {"GRANT", "REFUSED"} => r.kind \in {"REVOKE", "ACCESS"}
    /\ tx[r].pc \in {"HEAD", "INSERT", "COMMIT"} => r.kind # "VERIFY"
    /\ tx[r].pc = "CHECK" => r.kind = "VERIFY"
    /\ tx[r].pc \in {"HEAD", "INSERT"} =>
          \/ /\ HasDeed(r) /\ tx[r].draft = {}
             /\ tx[r].todo = <<Event(Owner(r), Deed(r)), AuditOf(r)>>
          \/ /\ tx[r].todo = <<AuditOf(r)>>
             /\ IF HasDeed(r) THEN \E d \in tx[r].draft : IsDeed(r, d) /\ tx[r].draft = {d}
                              ELSE tx[r].draft = {}
    /\ tx[r].pc = "COMMIT" =>
          /\ tx[r].todo = << >>
          /\ \E a \in tx[r].draft :
                /\ IsAudit(r, a)
                /\ IF HasDeed(r) THEN \E d \in tx[r].draft : IsDeed(r, d) /\ tx[r].draft = {d, a}
                                 ELSE tx[r].draft = {a}

\* The grant a request has locked is as it found it.
Lock(r) ==
    tx[r].pc \in {"HEAD", "INSERT", "COMMIT"} =>
        IF r.kind \in {"REVOKE", "ACCESS"}
        THEN /\ tx[r].locked = r.consent
             /\ r.consent \in DOMAIN grants
             /\ r.kind = "ACCESS" => grants[r.consent].status = "ACTIVE"
        ELSE tx[r].locked = None

GrantLocks ==
    \A q, r \in DOMAIN tx : tx[q].locked # None /\ tx[q].locked = tx[r].locked => q = r

-----------------------------------------------------------------------------
(* Chains.                                                                 *)

\* The rows lead from one head to another.
Segment(rows, from, to) ==
    /\ from.seq <= to.seq
    /\ {e.seq : e \in rows} = from.seq + 1 .. to.seq
    /\ \A d, e \in rows : d.seq = e.seq => d = e
    /\ \A e \in rows : e.hash = HashEvent(e.prev, e.type, e.id)
    /\ \A e \in rows : e.seq = from.seq + 1 => e.prev = from.hash
    /\ \A d, e \in rows : e.seq = d.seq + 1 => e.prev = d.hash
    /\ \A e \in rows : e.seq = to.seq => e.hash = to.hash
    /\ rows = {} => from = to

HeadRow(t) == IF t \in DOMAIN heads THEN heads[t] ELSE GENESIS

Sized == \A t \in DOMAIN heads : Len(heads[t].hash) = heads[t].seq

Chains == \A t \in Tenants : Segment(Rows(t), GENESIS, HeadRow(t))

Drafts ==
    \A r \in DOMAIN tx, t \in Tenants :
        LET to == HeadSeen(r, t)
        IN  to \in Heads /\ Len(to.hash) = to.seq /\ Segment(Drafted(r, t), HeadRow(t), to)

HeadLocks ==
    \A t \in Tenants : \A q, r \in DOMAIN tx : HoldsHead(q, t) /\ HoldsHead(r, t) => q = r

-----------------------------------------------------------------------------
(* Integrity checks, grants and the events about them.                     *)

Verdicts == [count: Nat, hash: Seq(Marks), linked: BOOLEAN, valid: BOOLEAN, seen: Nat]

\* What verify_chain has read was the chain up to some head.
Check(r) ==
    \/ tx[r].check = None /\ tx[r].pc # "CHECK"
    \/ /\ r.kind = "VERIFY" /\ tx[r].pc \in {"CHECK", "DONE"}
       /\ tx[r].check \in Verdicts /\ tx[r].check.linked = TRUE
       /\ IF tx[r].pc = "CHECK"
          THEN /\ tx[r].check.valid = TRUE
               /\ tx[r].check.count <= HeadRow(r.tenant).seq
               /\ tx[r].check.count = HeadRow(r.tenant).seq =>
                     tx[r].check.hash = HeadRow(r.tenant).hash
          ELSE tx[r].check.valid = TRUE \/ tx[r].check.seen > tx[r].check.count

Granted ==
    \A c \in DOMAIN grants :
        \E r \in DOMAIN tx : r.kind = "ISSUE" /\ r.consent = c /\ tx[r].pc = "DONE"

\* Events about a consent are at its owner.
About(c) == {e \in chain : e.consent = c /\ e.type \in {"CONSENT_REVOKED", "DATA_ACCESS_ALLOWED"}}

OwnersHear == \A c \in Consents : \A e \in About(c) :
    c \in DOMAIN grants /\ e.tenant = grants[c].tenant

RevokedOnce ==
    \A c \in DOMAIN grants :
        /\ grants[c].status = "ACTIVE" => \A e \in About(c) : e.type # "CONSENT_REVOKED"
        /\ grants[c].status = "REVOKED" =>
              \E e \in About(c) :
                 /\ e.type = "CONSENT_REVOKED"
                 /\ \A a \in About(c) : a = e \/ (a.type = "DATA_ACCESS_ALLOWED" /\ a.seq < e.seq)

\* Committed events are of requests that are done.
Recorded ==
    /\ \A e \in chain : \E r \in DOMAIN tx : e.id = r.id /\ tx[r].pc = "DONE" /\ r.kind # "VERIFY"
    /\ \A r \in DOMAIN tx : tx[r].pc = "DONE" /\ r.kind # "VERIFY" =>
          \E a \in chain :
             /\ a.id = r.id /\ a.type = "AUDIT" /\ a.tenant = r.tenant
             /\ r.kind \in {"ISSUE", "ACCESS"} =>
                   \E d \in chain : d.type # "AUDIT" /\ {e \in chain : e.id = r.id} = {d, a}

IInv ==
    /\ Rowed /\ Sized
    /\ \A r \in DOMAIN tx : Lock(r) /\ Progress(r) /\ Check(r)
    /\ GrantLocks /\ HeadLocks /\ Chains /\ Drafts
    /\ Granted /\ OwnersHear /\ RevokedOnce /\ Recorded


-----------------------------------------------------------------------------
(* Sequences of one and two steps, sets of two.                            *)

LEMMA OneAndTwo ==
  ASSUME NEW a, NEW b
  PROVE  /\ Head(<<a, b>>) = a /\ Tail(<<a, b>>) = <<b>> /\ <<a, b>> # << >>
         /\ Head(<<a>>) = a /\ Tail(<<a>>) = << >> /\ <<a>> # << >>
OBVIOUS

LEMMA PairCardinality ==
  ASSUME NEW a, NEW b, a # b
  PROVE  Cardinality({a, b}) = 2
<1>1. {a, b} = {a} \cup {b}
  OBVIOUS
<1>2. IsFiniteSet({a}) /\ Cardinality({a}) = 1
  BY FS_Singleton
<1> QED
  BY <1>1, <1>2, FS_AddElement

-----------------------------------------------------------------------------
(* Segments of a chain.                                                    *)

LEMMA HashEventType ==
  ASSUME NEW prev \in Seq(Marks), NEW type \in Types, NEW id \in Ids
  PROVE  /\ HashEvent(prev, type, id) \in Seq(Marks)
         /\ Len(HashEvent(prev, type, id)) = Len(prev) + 1
BY DEF HashEvent, Marks

\* Two segments, the second from where the first one ends, are one.
LEMMA SegmentJoin ==
  ASSUME NEW A \in SUBSET Events, NEW B \in SUBSET Events,
         NEW from \in Heads, NEW mid \in Heads, NEW to \in Heads,
         Segment(A, from, mid), Segment(B, mid, to)
  PROVE  Segment(A \cup B, from, to)
<1> DEFINE C == A \cup B
<1>1. /\ from.seq \in Nat /\ mid.seq \in Nat /\ to.seq \in Nat
      /\ from.seq <= mid.seq /\ mid.seq <= to.seq
  BY DEF Segment, Heads
<1>2. \A e \in A : e.seq \in Nat /\ from.seq + 1 <= e.seq /\ e.seq <= mid.seq
  BY <1>1 DEF Segment, Events
<1>3. \A e \in B : e.seq \in Nat /\ mid.seq + 1 <= e.seq /\ e.seq <= to.seq
  BY <1>1 DEF Segment, Events
<1>4. {e.seq : e \in C} = from.seq + 1 .. to.seq
  <2>1. {e.seq : e \in A} = from.seq + 1 .. mid.seq /\ {e.seq : e \in B} = mid.seq + 1 .. to.seq
    BY DEF Segment
  <2>2. {e.seq : e \in C} = {e.seq : e \in A} \cup {e.seq : e \in B}
    OBVIOUS
  <2> QED
    BY <1>1, <2>1, <2>2
<1>5. \A d, e \in C : d.seq = e.seq => d = e
  BY <1>1, <1>2, <1>3 DEF Segment
<1>6. \A e \in C : e.hash = HashEvent(e.prev, e.type, e.id)
  BY DEF Segment
<1>7. ASSUME NEW e \in C, e.seq = from.seq + 1  PROVE e.prev = from.hash
  <2>1. CASE e \in A
    BY <1>7, <2>1 DEF Segment
  <2>2. CASE e \in B
    <3>1. from.seq = mid.seq /\ A = {}
      BY <1>1, <1>2, <1>3, <1>7, <2>2
    <3>2. from = mid
      BY <3>1 DEF Segment
    <3> QED
      BY <1>7, <2>2, <3>2 DEF Segment
  <2> QED
    BY <2>1, <2>2
<1>8. ASSUME NEW d \in C, NEW e \in C, e.seq = d.seq + 1  PROVE e.prev = d.hash
  <2>1. CASE d \in A /\ e \in A
    BY <1>8, <2>1 DEF Segment
  <2>2. CASE d \in B /\ e \in B
    BY <1>8, <2>2 DEF Segment
  <2>3. CASE d \in A /\ e \in B
    <3>1. d.seq = mid.seq
      BY <1>1, <1>2, <1>3, <1>8, <2>3
    <3> QED
      BY <1>8, <2>3, <3>1 DEF Segment
  <2>4. CASE d \in B /\ e \in A
    BY <1>1, <1>2, <1>3, <1>8, <2>4
  <2> QED
    BY <2>1, <2>2, <2>3, <2>4
<1>9. ASSUME NEW e \in C, e.seq = to.seq  PROVE e.hash = to.hash
  <2>1. CASE e \in B
    BY <1>9, <2>1 DEF Segment
  <2>2. CASE e \in A
    <3>1. to.seq = mid.seq /\ B = {}
      BY <1>1, <1>2, <1>3, <1>9, <2>2
    <3>2. mid = to
      BY <3>1 DEF Segment
    <3> QED
      BY <1>9, <2>2, <3>2 DEF Segment
  <2> QED
    BY <2>1, <2>2
<1>10. C = {} => from = to
  BY DEF Segment
<1> HIDE DEF C
<1>11. Segment(C, from, to)
  BY <1>1, <1>4, <1>5, <1>6, <1>7, <1>8, <1>9, <1>10 DEF Segment
<1> QED
  BY <1>11 DEF C

LEMMA SegmentNone ==
  ASSUME NEW at \in Heads
  PROVE  Segment({}, at, at)
BY DEF Segment, Heads

LEMMA SegmentOne ==
  ASSUME NEW e \in Events, NEW at \in Heads,
         e.seq = at.seq + 1, e.prev = at.hash, e.hash = HashEvent(e.prev, e.type, e.id)
  PROVE  Segment({e}, at, [seq |-> e.seq, hash |-> e.hash])
<1>1. at.seq \in Nat
  BY DEF Heads
<1>2. {d.seq : d \in {e}} = at.seq + 1 .. e.seq
  BY <1>1
<1> QED
  BY <1>1, <1>2 DEF Segment

\* The last row of a segment is where it ends.
LEMMA SegmentLast ==
  ASSUME NEW rows \in SUBSET Events, NEW from \in Heads, NEW to \in Heads,
         Segment(rows, from, to), rows # {}
  PROVE  LET last == CHOOSE e \in rows : \A d \in rows : d.seq <= e.seq
         IN  last \in rows /\ last.seq = to.seq /\ last.hash = to.hash
<1> DEFINE last == CHOOSE e \in rows : \A d \in rows : d.seq <= e.seq
<1>1. from.seq \in Nat /\ to.seq \in Nat /\ from.seq <= to.seq
  BY DEF Segment, Heads
<1>2. \A d \in rows : d.seq \in from.seq + 1 .. to.seq
  BY DEF Segment
<1>3. to.seq \in {d.seq : d \in rows}
  BY <1>1, <1>2 DEF Segment
<1>4. PICK e \in rows : e.seq = to.seq
  BY <1>3
<1>5. \E x \in rows : \A d \in rows : d.seq <= x.seq
  BY <1>1, <1>2, <1>4
<1>6. last \in rows /\ \A d \in rows : d.seq <= last.seq
  BY <1>5
<1> HIDE DEF last
<1>7. last.seq = to.seq
  BY <1>1, <1>2, <1>4, <1>6
<1>8. last.hash = to.hash
  BY <1>6, <1>7 DEF Segment
<1> QED
  BY <1>6, <1>7, <1>8 DEF last

\* A segment from the genesis is a chain that verify_chain accepts.
LEMMA SegmentLinked ==
  ASSUME NEW rows \in SUBSET Events, NEW to \in Heads, Segment(rows, GENESIS, to)
  PROVE  Linked(rows) /\ Cardinality(rows) = to.seq /\ LastHash(rows) = to.hash
<1>1. GENESIS \in Heads /\ GENESIS.seq = 0 /\ GENESIS.hash = << >>
  BY DEF GENESIS, Heads
<1>2. to.seq \in Nat
  BY DEF Heads
<1>3. {e.seq : e \in rows} = 1 .. to.seq
  BY <1>1 DEF Segment
<1>4. Cardinality(rows) = to.seq
  <2> DEFINE row == [i \in 1 .. to.seq |-> CHOOSE e \in rows : e.seq = i]
  <2>1. \A i \in 1 .. to.seq : row[i] \in rows /\ row[i].seq = i
    BY <1>3
  <2>2. row \in [1 .. to.seq -> rows]
    BY <2>1
  <2>3. \A i, j \in 1 .. to.seq : row[i] = row[j] => i = j
    BY <2>1
  <2>4. \A e \in rows : \E i \in 1 .. to.seq : row[i] = e
    <3>1. SUFFICES ASSUME NEW e \in rows  PROVE \E i \in 1 .. to.seq : row[i] = e
      OBVIOUS
    <3>2. e.seq \in 1 .. to.seq
      BY <1>3
    <3>3. row[e.seq] = e
      BY <2>1, <3>2 DEF Segment
    <3> QED
      BY <3>2, <3>3
  <2> HIDE DEF row
  <2>5. row \in Bijection(1 .. to.seq, rows)
    BY <2>2, <2>3, <2>4 DEF Bijection, Injection, IsInjective, Surjection
  <2>6. IsFiniteSet(1 .. to.seq) /\ Cardinality(1 .. to.seq) = to.seq
    BY <1>2, FS_Interval
  <2> QED
    BY <2>5, <2>6, FS_Bijection DEF ExistsBijection
<1>5. Linked(rows)
  BY <1>1, <1>3, <1>4 DEF Linked, Segment
<1>6. LastHash(rows) = to.hash
  <2>1. CASE rows = {}
    BY <2>1 DEF LastHash, Segment
  <2>2. CASE rows # {}
    BY <1>1, <2>2, SegmentLast DEF LastHash
  <2> QED
    BY <2>1, <2>2
<1> QED
  BY <1>4, <1>5, <1>6

-----------------------------------------------------------------------------
(* What the invariant says of a request, of a head row and of a draft.     *)

LEMMA RequestFields ==
  ASSUME Rowed, NEW r \in DOMAIN tx
  PROVE  /\ r \in Requests /\ r.id \in Ids /\ r.kind \in Kinds /\ r.tenant \in Tenants
         /\ r.consent \in Consents \cup {None}
         /\ r.kind \in {"ISSUE", "REVOKE", "ACCESS"} => r.consent \in Consents /\ r.consent # None
<1>1. r \in Requests
  BY DEF Rowed, Requests
<1>2. r \in [id: {q.id : q \in Requests}, kind: Kinds, tenant: Tenants,
             consent: Consents \cup {None}, covered: BOOLEAN]
  BY <1>1, RequestAssumption
<1>3. r.kind \in {"ISSUE", "REVOKE", "ACCESS"} => r.consent \in Consents /\ r.consent # None
  BY <1>1, RequestAssumption, NoneAssumption
<1> QED
  BY <1>1, <1>2, <1>3 DEF Ids

LEMMA SameRequest ==
  ASSUME Rowed, NEW q \in DOMAIN tx, NEW r \in DOMAIN tx, q.id = r.id
  PROVE  q = r
BY RequestFields, RequestAssumption

LEMMA HeadRowType ==
  ASSUME Rowed, NEW t \in Tenants
  PROVE  HeadRow(t) \in Heads
BY DEF Rowed, HeadRow, GENESIS, Heads

LEMMA DraftType ==
  ASSUME Rowed, NEW r \in DOMAIN tx, NEW t \in Tenants
  PROVE  Drafted(r, t) \in SUBSET Events
BY DEF Rowed, Drafted

LEMMA SeenFree ==
  ASSUME NEW r, NEW t, ~HoldsHead(r, t)
  PROVE  Drafted(r, t) = {} /\ HeadSeen(r, t) = HeadRow(t)
BY DEF HeadSeen, HeadRow, HoldsHead

\* A draft that is empty is a segment of no events.
LEMMA DraftNone ==
  ASSUME Rowed, Sized, NEW r, NEW t \in Tenants, Drafted(r, t) = {}
  PROVE  /\ HeadSeen(r, t) \in Heads
         /\ Len(HeadSeen(r, t).hash) = HeadSeen(r, t).seq
         /\ Segment(Drafted(r, t), HeadRow(t), HeadSeen(r, t))
<1>1. HeadSeen(r, t) = HeadRow(t)
  BY SeenFree DEF HoldsHead
<1>2. Len(HeadRow(t).hash) = HeadRow(t).seq
  BY DEF HeadRow, Sized, GENESIS
<1>3. HeadRow(t) \in Heads
  BY HeadRowType
<1> QED
  BY <1>1, <1>2, <1>3, SegmentNone

\* What a request has flushed for a tenant goes from the committed head to the
\* one that it sees.
LEMMA DraftSegment ==
  ASSUME Drafts, NEW r \in DOMAIN tx, NEW t \in Tenants
  PROVE  /\ HeadSeen(r, t) \in Heads
         /\ Len(HeadSeen(r, t).hash) = HeadSeen(r, t).seq
         /\ Segment(Drafted(r, t), HeadRow(t), HeadSeen(r, t))
BY DEF Drafts

-----------------------------------------------------------------------------
(* The row of a request is all that a step changes, up to a commit.        *)

\* Only r moves, and nothing is committed.
Moves(r) ==
    /\ DOMAIN tx' = DOMAIN tx
    /\ \A q \in DOMAIN tx : q # r => tx'[q] = tx[q]
    /\ Fields(tx'[r])
    /\ UNCHANGED <<grants, heads, chain>>

Keeps(r) ==
    /\ tx'[r].todo = tx[r].todo /\ tx'[r].draft = tx[r].draft /\ tx'[r].locked = tx[r].locked
    /\ tx'[r].onTime = tx[r].onTime /\ tx'[r].check = tx[r].check

\* Rolled back, or refused before it wrote anything.
Ended(r) ==
    /\ Moves(r)
    /\ tx[r].pc \in {"GRANT", "HEAD", "INSERT", "COMMIT", "CHECK"}
    /\ tx'[r].pc = "NEW" \/ (tx'[r].pc = "REFUSED" /\ r.kind \in {"REVOKE", "ACCESS"})
    /\ tx'[r].todo = << >> /\ tx'[r].draft = {} /\ tx'[r].locked = None
    /\ tx'[r].onTime = TRUE /\ tx'[r].check = None

Started(r) ==
    /\ Moves(r)
    /\ tx[r].pc = "NEW"
    /\ tx'[r].draft = tx[r].draft /\ tx'[r].locked = tx[r].locked /\ tx'[r].check = tx[r].check
    /\ \/ /\ r.kind = "ISSUE" /\ tx'[r].pc = "HEAD" /\ tx'[r].onTime = tx[r].onTime
          /\ tx'[r].todo = <<Event(r.tenant, "CONSENT_GRANTED"), AuditOf(r)>>
       \/ /\ r.kind = "AUDIT" /\ tx'[r].pc = "HEAD" /\ tx'[r].onTime = tx[r].onTime
          /\ tx'[r].todo = <<AuditOf(r)>>
       \/ /\ r.kind \in {"REVOKE", "ACCESS"} /\ tx'[r].pc = "GRANT" /\ tx'[r].onTime \in BOOLEAN
          /\ tx'[r].todo = tx[r].todo

LocksGrant(r) ==
    /\ Moves(r)
    /\ tx[r].pc = "GRANT" /\ tx'[r].pc = "HEAD"
    /\ r.consent \in DOMAIN grants /\ GrantFree(r.consent)
    /\ tx'[r].locked = r.consent /\ tx'[r].draft = tx[r].draft
    /\ tx'[r].onTime = tx[r].onTime /\ tx'[r].check = tx[r].check
    /\ \/ /\ r.kind = "REVOKE" /\ grants[r.consent].status = "REVOKED"
          /\ tx'[r].todo = <<AuditOf(r)>>
       \/ /\ r.kind = "REVOKE" /\ grants[r.consent].status # "REVOKED"
          /\ tx'[r].todo = <<Event(grants[r.consent].tenant, "CONSENT_REVOKED"), AuditOf(r)>>
       \/ /\ r.kind = "ACCESS" /\ grants[r.consent].status = "ACTIVE"
          /\ tx'[r].todo = <<Event(grants[r.consent].tenant, "DATA_ACCESS_ALLOWED"), AuditOf(r)>>

Misses(r) ==
    /\ Moves(r)
    /\ tx[r].pc = "HEAD" /\ tx'[r].pc = "INSERT"
    /\ Keeps(r)

Appends(r) ==
    LET step == Head(tx[r].todo)
    IN  /\ Moves(r)
        /\ tx[r].pc \in {"HEAD", "INSERT"}
        /\ \A q \in DOMAIN tx \ {r} : ~HoldsHead(q, step.tenant)
        /\ tx'[r].draft = tx[r].draft \cup
                {EventRow(step.tenant, HeadSeen(r, step.tenant), step.type, r)}
        /\ tx'[r].todo = Tail(tx[r].todo)
        /\ tx'[r].pc = IF Tail(tx[r].todo) = << >> THEN "COMMIT" ELSE "HEAD"
        /\ tx'[r].locked = tx[r].locked /\ tx'[r].onTime = tx[r].onTime
        /\ tx'[r].check = tx[r].check

\* verify_chain begins or ends.
Verifies(r) ==
    /\ Moves(r)
    /\ tx'[r].todo = tx[r].todo /\ tx'[r].draft = tx[r].draft
    /\ tx'[r].locked = tx[r].locked /\ tx'[r].onTime = tx[r].onTime
    /\ \/ /\ tx[r].pc = "NEW" /\ r.kind = "VERIFY" /\ tx'[r].pc = "CHECK"
          /\ tx'[r].check = [count |-> Cardinality(Rows(r.tenant)), hash |-> LastHash(Rows(r.tenant)),
                             linked |-> Linked(Rows(r.tenant)), valid |-> TRUE, seen |-> 0]
       \/ /\ tx[r].pc = "CHECK" /\ tx'[r].pc = "DONE"
          /\ tx'[r].check = [tx[r].check EXCEPT
                !.valid = /\ tx[r].check.valid
                          /\ tx[r].check.linked
                          /\ HeadAgrees(r.tenant, tx[r].check.count, tx[r].check.hash),
                !.seen = IF r.tenant \in DOMAIN heads THEN heads[r.tenant].seq ELSE 0]

LEMMA RowChange ==
  ASSUME NEW r \in DOMAIN tx, NEW row, tx' = [tx EXCEPT ![r] = row], Fields(row),
         UNCHANGED <<grants, heads, chain>>
  PROVE  Moves(r) /\ tx'[r] = row
BY DEF Moves

LEMMA EndRow ==
  ASSUME NEW r \in DOMAIN tx, NEW pc, End(r, pc)
  PROVE  /\ DOMAIN tx' = DOMAIN tx /\ \A q \in DOMAIN tx : q # r => tx'[q] = tx[q]
         /\ Fields(tx'[r]) /\ tx'[r].pc = pc /\ tx'[r].todo = << >> /\ tx'[r].draft = {}
         /\ tx'[r].locked = None /\ tx'[r].onTime = TRUE /\ tx'[r].check = None
<1> DEFINE row == [Idle EXCEPT !.pc = pc]
<1>1. Fields(Idle)
  BY DEF Fields, Idle, Columns
<1>2. Fields(row) /\ row.pc = pc /\ row.todo = Idle.todo /\ row.draft = Idle.draft
      /\ row.locked = Idle.locked /\ row.onTime = Idle.onTime /\ row.check = Idle.check
  BY <1>1 DEF Fields, Columns
<1>3. tx' = [tx EXCEPT ![r] = row]
  BY DEF End
<1> HIDE DEF row
<1>4. /\ tx'[r] = row /\ DOMAIN tx' = DOMAIN tx
      /\ \A q \in DOMAIN tx : q # r => tx'[q] = tx[q]
  BY <1>3
<1> QED
  BY <1>2, <1>4 DEF Idle

LEMMA EndShape ==
  ASSUME NEW r \in DOMAIN tx, NEW pc, End(r, pc), UNCHANGED <<grants, heads, chain>>,
         tx[r].pc \in {"GRANT", "HEAD", "INSERT", "COMMIT", "CHECK"},
         pc = "NEW" \/ (pc = "REFUSED" /\ r.kind \in {"REVOKE", "ACCESS"})
  PROVE  Ended(r)
BY EndRow DEF Ended, Moves

LEMMA StartShape ==
  ASSUME Rowed, NEW r \in DOMAIN tx, Begin(r)
  PROVE  Started(r)
<1>1. Fields(tx[r]) /\ DOMAIN tx[r] = Columns /\ tx[r].pc = "NEW"
      /\ UNCHANGED <<grants, heads, chain>>
  BY DEF Rowed, Fields, Begin
<1>2. r.kind \in {"ISSUE", "AUDIT", "REVOKE", "ACCESS"}
  BY RequestFields DEF Begin, Kinds
<1>3. CASE r.kind = "ISSUE"
  <2> DEFINE row == [tx[r] EXCEPT !.pc = "HEAD",
                                  !.todo = <<Event(r.tenant, "CONSENT_GRANTED"), AuditOf(r)>>]
  <2>1. tx' = [tx EXCEPT ![r] = row]
    BY <1>3 DEF Begin
  <2>2. /\ Fields(row) /\ row.pc = "HEAD" /\ row.draft = tx[r].draft /\ row.locked = tx[r].locked
        /\ row.onTime = tx[r].onTime /\ row.check = tx[r].check
        /\ row.todo = <<Event(r.tenant, "CONSENT_GRANTED"), AuditOf(r)>>
    BY <1>1 DEF Fields, Columns
  <2> HIDE DEF row
  <2>3. Moves(r) /\ tx'[r] = row
    BY <1>1, <2>1, <2>2, RowChange
  <2> QED
    BY <1>1, <1>3, <2>2, <2>3 DEF Started
<1>4. CASE r.kind = "AUDIT"
  <2> DEFINE row == [tx[r] EXCEPT !.pc = "HEAD", !.todo = <<AuditOf(r)>>]
  <2>1. tx' = [tx EXCEPT ![r] = row]
    BY <1>4 DEF Begin
  <2>2. /\ Fields(row) /\ row.pc = "HEAD" /\ row.draft = tx[r].draft /\ row.locked = tx[r].locked
        /\ row.onTime = tx[r].onTime /\ row.check = tx[r].check /\ row.todo = <<AuditOf(r)>>
    BY <1>1 DEF Fields, Columns
  <2> HIDE DEF row
  <2>3. Moves(r) /\ tx'[r] = row
    BY <1>1, <2>1, <2>2, RowChange
  <2> QED
    BY <1>1, <1>4, <2>2, <2>3 DEF Started
<1>5. CASE r.kind \in {"REVOKE", "ACCESS"}
  <2> DEFINE row == [tx[r] EXCEPT !.pc = "GRANT", !.onTime = r.consent \notin expired]
  <2>1. tx' = [tx EXCEPT ![r] = row]
    BY <1>5 DEF Begin
  <2>2. /\ Fields(row) /\ row.pc = "GRANT" /\ row.draft = tx[r].draft /\ row.locked = tx[r].locked
        /\ row.onTime \in BOOLEAN /\ row.check = tx[r].check /\ row.todo = tx[r].todo
    BY <1>1 DEF Fields, Columns
  <2> HIDE DEF row
  <2>3. Moves(r) /\ tx'[r] = row
    BY <1>1, <2>1, <2>2, RowChange
  <2> QED
    BY <1>1, <1>5, <2>2, <2>3 DEF Started
<1> QED
  BY <1>2, <1>3, <1>4, <1>5

LEMMA LockShape ==
  ASSUME Rowed, NEW r \in DOMAIN tx, LockToRevoke(r) \/ LockToAccess(r)
  PROVE  LocksGrant(r) \/ Ended(r)
<1>1. Fields(tx[r]) /\ DOMAIN tx[r] = Columns /\ tx[r].pc = "GRANT"
      /\ UNCHANGED <<grants, heads, chain>>
  BY DEF Rowed, Fields, LockToRevoke, LockToAccess
<1> DEFINE row(todo) == [tx[r] EXCEPT !.pc = "HEAD", !.locked = r.consent, !.todo = todo]
<1>2. ASSUME NEW todo, tx' = [tx EXCEPT ![r] = row(todo)]
      PROVE  /\ Moves(r) /\ tx'[r].pc = "HEAD" /\ tx'[r].todo = todo
             /\ tx'[r].draft = tx[r].draft /\ tx'[r].locked = r.consent
             /\ tx'[r].onTime = tx[r].onTime /\ tx'[r].check = tx[r].check
  <2> DEFINE new == row(todo)
  <2>1. /\ Fields(new) /\ new.pc = "HEAD" /\ new.draft = tx[r].draft /\ new.locked = r.consent
        /\ new.onTime = tx[r].onTime /\ new.check = tx[r].check /\ new.todo = todo
    BY <1>1 DEF Fields, Columns
  <2>2. tx' = [tx EXCEPT ![r] = new]
    BY <1>2
  <2> HIDE DEF new
  <2>3. Moves(r) /\ tx'[r] = new
    BY <1>1, <2>1, <2>2, RowChange
  <2> QED
    BY <2>1, <2>3
<1>3. CASE LockToRevoke(r) /\ grants[r.consent].status = "REVOKED"
  <2>1. tx' = [tx EXCEPT ![r] = row(<<AuditOf(r)>>)]
    BY <1>3 DEF LockToRevoke
  <2>2. r.kind = "REVOKE" /\ r.consent \in DOMAIN grants /\ GrantFree(r.consent)
    BY <1>3 DEF LockToRevoke
  <2> HIDE DEF row
  <2> QED
    BY <1>1, <1>2, <1>3, <2>1, <2>2 DEF LocksGrant
<1>4. CASE LockToRevoke(r) /\ grants[r.consent].status # "REVOKED"
  <2>1. tx' = [tx EXCEPT ![r] =
                  row(<<Event(grants[r.consent].tenant, "CONSENT_REVOKED"), AuditOf(r)>>)]
    BY <1>4 DEF LockToRevoke
  <2>2. r.kind = "REVOKE" /\ r.consent \in DOMAIN grants /\ GrantFree(r.consent)
    BY <1>4 DEF LockToRevoke
  <2> HIDE DEF row
  <2> QED
    BY <1>1, <1>2, <1>4, <2>1, <2>2 DEF LocksGrant
<1>5. CASE LockToAccess(r) /\ Authorizes(r)
  <2>1. tx' = [tx EXCEPT ![r] =
                  row(<<Event(grants[r.consent].tenant, "DATA_ACCESS_ALLOWED"), AuditOf(r)>>)]
    BY <1>5 DEF LockToAccess
  <2>2. /\ r.kind = "ACCESS" /\ r.consent \in DOMAIN grants
        /\ GrantFree(r.consent) /\ grants[r.consent].status = "ACTIVE"
    BY <1>5 DEF LockToAccess, Authorizes
  <2> HIDE DEF row
  <2> QED
    BY <1>1, <1>2, <1>5, <2>1, <2>2 DEF LocksGrant
<1>6. CASE LockToAccess(r) /\ ~Authorizes(r)
  <2>1. End(r, "REFUSED") /\ r.kind = "ACCESS"
    BY <1>6 DEF LockToAccess
  <2> QED
    BY <1>1, <2>1, EndShape
<1> QED
  BY <1>3, <1>4, <1>5, <1>6

LEMMA MissShape ==
  ASSUME Rowed, NEW r \in DOMAIN tx, MissHead(r)
  PROVE  Misses(r)
<1>1. Fields(tx[r]) /\ DOMAIN tx[r] = Columns /\ tx[r].pc = "HEAD"
      /\ UNCHANGED <<grants, heads, chain>>
  BY DEF Rowed, Fields, MissHead
<1> DEFINE row == [tx[r] EXCEPT !.pc = "INSERT"]
<1>2. tx' = [tx EXCEPT ![r] = row]
  BY DEF MissHead
<1>3. /\ Fields(row) /\ row.pc = "INSERT" /\ row.draft = tx[r].draft /\ row.locked = tx[r].locked
      /\ row.onTime = tx[r].onTime /\ row.check = tx[r].check /\ row.todo = tx[r].todo
  BY <1>1 DEF Fields, Columns
<1> HIDE DEF row
<1>4. Moves(r) /\ tx'[r] = row
  BY <1>1, <1>2, <1>3, RowChange
<1> QED
  BY <1>1, <1>3, <1>4 DEF Misses, Keeps

LEMMA AppendShape ==
  ASSUME Rowed, NEW r \in DOMAIN tx, TakeHead(r) \/ InsertHead(r)
  PROVE  Appends(r)
<1> DEFINE step == Head(tx[r].todo)
           draft == tx[r].draft \cup
                {EventRow(step.tenant, HeadSeen(r, step.tenant), step.type, r)}
           pc == IF Tail(tx[r].todo) = << >> THEN "COMMIT" ELSE "HEAD"
           row == [tx[r] EXCEPT !.draft = draft, !.todo = Tail(tx[r].todo), !.pc = pc]
<1>1. /\ Fields(tx[r]) /\ DOMAIN tx[r] = Columns /\ UNCHANGED <<grants, heads, chain>>
      /\ tx[r].pc \in {"HEAD", "INSERT"} /\ AppendEvent(r) /\ ~HeadHeld(r, step.tenant)
  BY DEF Rowed, Fields, TakeHead, InsertHead, HeadFree
<1>2. tx' = [tx EXCEPT ![r] = row]
  BY <1>1 DEF AppendEvent
<1>3. /\ Fields(row) /\ row.pc = pc /\ row.draft = draft /\ row.locked = tx[r].locked
      /\ row.onTime = tx[r].onTime /\ row.check = tx[r].check /\ row.todo = Tail(tx[r].todo)
  <2> HIDE DEF draft, pc
  <2> QED
    BY <1>1 DEF Fields, Columns
<1> HIDE DEF row
<1>4. Moves(r) /\ tx'[r] = row
  BY <1>1, <1>2, <1>3, RowChange
<1> QED
  BY <1>1, <1>3, <1>4 DEF Appends, HeadHeld

LEMMA ReadShape ==
  ASSUME Rowed, NEW r \in DOMAIN tx, ReadEvents(r) \/ (Check(r) /\ ReadHead(r))
  PROVE  Verifies(r)
<1>1. Fields(tx[r]) /\ DOMAIN tx[r] = Columns /\ UNCHANGED <<grants, heads, chain>>
  BY DEF Rowed, Fields, ReadEvents, ReadHead
<1>2. CASE ReadEvents(r)
  <2> DEFINE check == [count |-> Cardinality(Rows(r.tenant)), hash |-> LastHash(Rows(r.tenant)),
                       linked |-> Linked(Rows(r.tenant)), valid |-> TRUE, seen |-> 0]
             row == [tx[r] EXCEPT !.pc = "CHECK", !.check = check]
  <2>1. tx' = [tx EXCEPT ![r] = row] /\ tx[r].pc = "NEW" /\ r.kind = "VERIFY"
    BY <1>2 DEF ReadEvents
  <2>2. /\ Fields(row) /\ row.pc = "CHECK" /\ row.draft = tx[r].draft /\ row.locked = tx[r].locked
        /\ row.onTime = tx[r].onTime /\ row.check = check /\ row.todo = tx[r].todo
    <3> HIDE DEF check
    <3> QED
      BY <1>1 DEF Fields, Columns
  <2> HIDE DEF row
  <2>3. Moves(r) /\ tx'[r] = row
    BY <1>1, <2>1, <2>2, RowChange
  <2> QED
    BY <2>1, <2>2, <2>3 DEF Verifies
<1>3. CASE Check(r) /\ ReadHead(r)
  <2> DEFINE valid == /\ tx[r].check.valid
                      /\ tx[r].check.linked
                      /\ HeadAgrees(r.tenant, tx[r].check.count, tx[r].check.hash)
             seen == IF r.tenant \in DOMAIN heads THEN heads[r.tenant].seq ELSE 0
             row == [tx[r] EXCEPT !.pc = "DONE", !.check.valid = valid, !.check.seen = seen]
  <2>1. tx' = [tx EXCEPT ![r] = row] /\ tx[r].pc = "CHECK"
    BY <1>3 DEF ReadHead
  <2>2. tx[r].check \in Verdicts
    BY <1>3, <2>1 DEF Check
  <2>3. /\ Fields(row) /\ row.pc = "DONE" /\ row.draft = tx[r].draft /\ row.locked = tx[r].locked
        /\ row.onTime = tx[r].onTime /\ row.todo = tx[r].todo
        /\ row.check = [tx[r].check EXCEPT !.valid = valid, !.seen = seen]
    <3> HIDE DEF valid, seen
    <3> QED
      BY <1>1 DEF Fields, Columns
  <2> HIDE DEF row
  <2>4. Moves(r) /\ tx'[r] = row
    BY <1>1, <2>1, <2>3, RowChange
  <2> QED
    BY <2>1, <2>2, <2>3, <2>4 DEF Verifies
<1> QED
  BY <1>2, <1>3

\* Deadlocked transactions wait for a head row.
LEMMA VictimWaits ==
  ASSUME NEW r, Deadlocked(r)
  PROVE  tx[r].pc \in {"HEAD", "INSERT"}
BY DEF Deadlocked, Waiting, WaitsFor

\* Every step is one of these, a commit, or leaves the rows alone.
LEMMA Shapes ==
  ASSUME Rowed, \A q \in DOMAIN tx : Progress(q) /\ Check(q), Next
  PROVE  \/ \E r \in DOMAIN tx : \/ Ended(r) \/ Started(r) \/ LocksGrant(r) \/ Misses(r)
                                 \/ Appends(r) \/ Verifies(r) \/ Commit(r)
         \/ UNCHANGED <<grants, heads, chain, tx>>
<1>1. CASE \E c \in Consents : Expire(c)
  BY <1>1 DEF Expire
<1>2. CASE \E r \in DOMAIN tx : Begin(r) \/ ReadEvents(r) \/ Step(r) \/ Crash(r)
  <2>1. PICK r \in DOMAIN tx : Begin(r) \/ ReadEvents(r) \/ Step(r) \/ Crash(r)
    BY <1>2
  <2>2. CASE GrantMissing(r) \/ HeadConflict(r) \/ DeadlockVictim(r) \/ Crash(r)
    <3>1. GrantMissing(r) => r.kind \in {"REVOKE", "ACCESS"}
      BY DEF GrantMissing, Progress
    <3>2. CASE GrantMissing(r)
      BY <3>1, <3>2, EndShape DEF GrantMissing
    <3>3. CASE HeadConflict(r)
      BY <3>3, EndShape DEF HeadConflict
    <3>4. CASE DeadlockVictim(r)
      BY <3>4, EndShape, VictimWaits DEF DeadlockVictim
    <3>5. CASE Crash(r)
      BY <3>5, EndShape DEF Crash, Running
    <3> QED
      BY <2>2, <3>2, <3>3, <3>4, <3>5
  <2> QED
    BY <2>1, <2>2, StartShape, LockShape, MissShape, AppendShape, ReadShape DEF Step
<1> QED
  BY <1>1, <1>2 DEF Next

-----------------------------------------------------------------------------
(* Preservation, where nothing is committed.                               *)

\* What holds of the other requests, and of what is committed, goes on to hold.
LEMMA OthersStay ==
  ASSUME NEW r \in DOMAIN tx, Moves(r), NEW q \in DOMAIN tx, q # r,
         Lock(q), Progress(q), Check(q)
  PROVE  Lock(q)' /\ Progress(q)' /\ Check(q)'
<1>1. tx'[q] = tx[q] /\ grants' = grants /\ heads' = heads
  BY DEF Moves
<1>2. Lock(q)'
  BY <1>1 DEF Lock
<1>3. Progress(q)'
  BY <1>1 DEF Progress, Owner, HasDeed, IsDeed, IsAudit
<1>4. Check(q)'
  BY <1>1 DEF Check, HeadRow
<1> QED
  BY <1>2, <1>3, <1>4

LEMMA CommittedStays ==
  ASSUME IInv, NEW r \in DOMAIN tx, Moves(r),
         tx[r].pc # "DONE", tx'[r].pc = "DONE" => r.kind = "VERIFY",
         tx'[r].pc \in States, tx'[r].draft \subseteq Events, tx'[r].onTime \in BOOLEAN,
         tx'[r].locked \in Consents \cup {None},
         tx'[r].locked \in {None, tx[r].locked} \/ GrantFree(tx'[r].locked)
  PROVE  /\ Rowed' /\ Sized' /\ GrantLocks' /\ Chains'
         /\ Granted' /\ OwnersHear' /\ RevokedOnce' /\ Recorded'
<1>1. /\ DOMAIN tx' = DOMAIN tx /\ grants' = grants /\ heads' = heads /\ chain' = chain
      /\ \A q \in DOMAIN tx : q # r => tx'[q] = tx[q]
      /\ Fields(tx'[r])
  BY DEF Moves
<1>2. Rowed'
  <2>1. \A q \in DOMAIN tx : /\ Fields(tx'[q]) /\ tx'[q].pc \in States
                             /\ tx'[q].draft \subseteq Events
                             /\ tx'[q].locked \in Consents \cup {None}
                             /\ tx'[q].onTime \in BOOLEAN
    BY <1>1 DEF IInv, Rowed
  <2>2. \A q \in DOMAIN tx : Fields(tx[q])'
    BY <1>1, <2>1 DEF Fields
  <2> QED
    BY <1>1, <2>1, <2>2 DEF IInv, Rowed
<1>3. Sized' /\ Chains'
  BY <1>1 DEF IInv, Sized, Chains, HeadRow, Rows
<1>4. GrantLocks'
  <2>1. SUFFICES ASSUME NEW p \in DOMAIN tx, NEW q \in DOMAIN tx,
                        tx'[p].locked # None, tx'[p].locked = tx'[q].locked
                 PROVE  p = q
    BY <1>1 DEF GrantLocks
  <2> QED
    BY <1>1, <2>1 DEF IInv, GrantLocks, GrantFree
<1>5. Granted'
  BY <1>1 DEF IInv, Granted
<1>6. OwnersHear' /\ RevokedOnce'
  BY <1>1 DEF IInv, OwnersHear, RevokedOnce, About
<1>7. Recorded'
  <2>1. \A e \in chain : \E q \in DOMAIN tx : e.id = q.id /\ tx'[q].pc = "DONE" /\ q.kind # "VERIFY"
    <3>1. SUFFICES ASSUME NEW e \in chain
                   PROVE  \E q \in DOMAIN tx : e.id = q.id /\ tx'[q].pc = "DONE" /\ q.kind # "VERIFY"
      OBVIOUS
    <3>2. PICK q \in DOMAIN tx : e.id = q.id /\ tx[q].pc = "DONE" /\ q.kind # "VERIFY"
      BY DEF IInv, Recorded
    <3> QED
      BY <1>1, <3>2
  <2>2. \A q \in DOMAIN tx : tx'[q].pc = "DONE" /\ q.kind # "VERIFY" => tx[q].pc = "DONE"
    BY <1>1
  <2>3. Recorded
    BY DEF IInv
  <2>4. \A q \in DOMAIN tx : tx'[q].pc = "DONE" /\ q.kind # "VERIFY" =>
           \E a \in chain :
              /\ a.id = q.id /\ a.type = "AUDIT" /\ a.tenant = q.tenant
              /\ q.kind \in {"ISSUE", "ACCESS"} =>
                    \E d \in chain : d.type # "AUDIT" /\ {e \in chain : e.id = q.id} = {d, a}
    BY <2>2, <2>3 DEF Recorded
  <2> QED
    BY <1>1, <2>1, <2>4 DEF Recorded
<1> QED
  BY <1>2, <1>3, <1>4, <1>5, <1>6, <1>7

\* Nobody holds a head row that it did not hold.
LEMMA HeadsStay ==
  ASSUME IInv, NEW r \in DOMAIN tx, Moves(r), tx'[r].draft \in {{}, tx[r].draft}, Rowed', Sized'
  PROVE  HeadLocks' /\ Drafts'
<1>1. /\ DOMAIN tx' = DOMAIN tx /\ heads' = heads
      /\ \A q \in DOMAIN tx : q # r => tx'[q] = tx[q]
  BY DEF Moves
<1>2. \A q \in DOMAIN tx, t \in Tenants : HoldsHead(q, t)' => HoldsHead(q, t)
  BY <1>1 DEF HoldsHead, Drafted
<1>3. HeadLocks'
  BY <1>1, <1>2 DEF IInv, HeadLocks
<1>4. ASSUME NEW q \in DOMAIN tx, NEW t \in Tenants
      PROVE  /\ HeadSeen(q, t)' \in Heads
             /\ Len(HeadSeen(q, t)'.hash) = HeadSeen(q, t)'.seq
             /\ Segment(Drafted(q, t), HeadRow(t), HeadSeen(q, t))'
  <2>1. CASE tx'[q].draft = {}
    <3>1. (Drafted(q, t) = {})'
      BY <2>1 DEF Drafted
    <3>2. HeadRow(t)' = HeadRow(t) /\ HeadSeen(q, t)' = HeadRow(t)
      BY <1>1, <3>1 DEF HeadRow, HeadSeen, HoldsHead
    <3>3. HeadRow(t) \in Heads /\ Len(HeadRow(t).hash) = HeadRow(t).seq
      BY HeadRowType DEF IInv, Sized, HeadRow, GENESIS
    <3>4. Segment({}, HeadRow(t), HeadRow(t))
      BY <3>3, SegmentNone
    <3> QED
      BY <3>1, <3>2, <3>3, <3>4 DEF Segment
  <2>2. CASE tx'[q].draft = tx[q].draft
    <3>1. Drafted(q, t)' = Drafted(q, t)
      BY <2>2 DEF Drafted
    <3>2. HeadRow(t)' = HeadRow(t) /\ HeadSeen(q, t)' = HeadSeen(q, t)
      BY <1>1, <3>1 DEF HeadRow, HeadSeen, HoldsHead
    <3>3. /\ HeadSeen(q, t) \in Heads /\ Len(HeadSeen(q, t).hash) = HeadSeen(q, t).seq
          /\ Segment(Drafted(q, t), HeadRow(t), HeadSeen(q, t))
      BY DraftSegment DEF IInv
    <3> QED
      BY <3>1, <3>2, <3>3 DEF Segment
  <2> QED
    BY <1>1, <2>1, <2>2
<1>5. Drafts'
  BY <1>1, <1>4 DEF Drafts
<1> QED
  BY <1>3, <1>5

LEMMA EndedStep ==
  ASSUME IInv, NEW r \in DOMAIN tx, Ended(r)
  PROVE  IInv'
<1>1. Moves(r) /\ DOMAIN tx' = DOMAIN tx /\ tx[r].pc # "DONE" /\ tx'[r].pc # "DONE"
  BY DEF Ended, Moves
<1>2. /\ Rowed' /\ Sized' /\ GrantLocks' /\ Chains'
      /\ Granted' /\ OwnersHear' /\ RevokedOnce' /\ Recorded'
  BY <1>1, CommittedStays DEF Ended, States
<1>3. HeadLocks' /\ Drafts'
  BY <1>1, <1>2, HeadsStay DEF Ended
<1>4. Lock(r)' /\ Progress(r)' /\ Check(r)'
  BY DEF Ended, Lock, Progress, Check
<1>5. \A q \in DOMAIN tx : Lock(q)' /\ Progress(q)' /\ Check(q)'
  BY <1>1, <1>4, OthersStay DEF IInv
<1> QED
  BY <1>1, <1>2, <1>3, <1>5 DEF IInv

LEMMA StartedStep ==
  ASSUME IInv, NEW r \in DOMAIN tx, Started(r)
  PROVE  IInv'
<1>1. /\ Moves(r) /\ DOMAIN tx' = DOMAIN tx /\ tx[r].pc = "NEW" /\ tx'[r].pc # "DONE"
      /\ Rowed /\ Lock(r) /\ Progress(r) /\ Check(r)
  BY DEF Started, Moves, IInv
<1>2. tx[r].draft = {} /\ tx[r].todo = << >> /\ tx[r].locked = None /\ tx[r].onTime = TRUE
  BY <1>1 DEF Progress
<1>3. /\ Rowed' /\ Sized' /\ GrantLocks' /\ Chains'
      /\ Granted' /\ OwnersHear' /\ RevokedOnce' /\ Recorded'
  BY <1>1, <1>2, CommittedStays DEF Started, States
<1>4. HeadLocks' /\ Drafts'
  BY <1>1, <1>3, HeadsStay DEF Started
<1>5. Lock(r)'
  BY <1>2 DEF Started, Lock
<1>6. Check(r)'
  BY <1>1 DEF Started, Check
<1>7. Progress(r)'
  BY <1>2 DEF Started, Progress, HasDeed, Owner, Deed
<1>8. \A q \in DOMAIN tx : Lock(q)' /\ Progress(q)' /\ Check(q)'
  BY <1>1, <1>5, <1>6, <1>7, OthersStay DEF IInv
<1> QED
  BY <1>1, <1>3, <1>4, <1>8 DEF IInv

LEMMA LocksGrantStep ==
  ASSUME IInv, NEW r \in DOMAIN tx, LocksGrant(r)
  PROVE  IInv'
<1>1. /\ Moves(r) /\ DOMAIN tx' = DOMAIN tx /\ tx[r].pc = "GRANT" /\ tx'[r].pc = "HEAD"
      /\ Rowed /\ Lock(r) /\ Progress(r) /\ Check(r) /\ grants' = grants
      /\ r.kind \in {"REVOKE", "ACCESS"} /\ r.consent \in DOMAIN grants
  BY DEF LocksGrant, Moves, IInv
<1>2. tx[r].draft = {} /\ tx[r].onTime \in BOOLEAN
  BY <1>1 DEF Progress, Rowed
<1>3. r.consent \in Consents /\ grants[r.consent].status \in {"ACTIVE", "REVOKED"}
  BY <1>1, RequestFields DEF Rowed
<1>4. /\ Rowed' /\ Sized' /\ GrantLocks' /\ Chains'
      /\ Granted' /\ OwnersHear' /\ RevokedOnce' /\ Recorded'
  BY <1>1, <1>2, <1>3, CommittedStays DEF LocksGrant, States
<1>5. HeadLocks' /\ Drafts'
  BY <1>1, <1>4, HeadsStay DEF LocksGrant
<1>6. Lock(r)'
  BY <1>1 DEF LocksGrant, Lock
<1>7. Check(r)'
  BY <1>1 DEF LocksGrant, Check
<1>8. Progress(r)'
  <2>1. /\ tx'[r].draft = {} /\ tx'[r].pc = "HEAD"
        /\ \/ /\ HasDeed(r) /\ tx'[r].todo = <<Event(Owner(r), Deed(r)), AuditOf(r)>>
           \/ ~HasDeed(r) /\ tx'[r].todo = <<AuditOf(r)>>
    BY <1>1, <1>2, <1>3 DEF LocksGrant, HasDeed, Owner, Deed
  <2>2. HasDeed(r)' = HasDeed(r) /\ Owner(r)' = Owner(r)
    BY <1>1 DEF HasDeed, Owner
  <2> QED
    BY <1>1, <2>1, <2>2 DEF Progress
<1>9. \A q \in DOMAIN tx : Lock(q)' /\ Progress(q)' /\ Check(q)'
  BY <1>1, <1>6, <1>7, <1>8, OthersStay DEF IInv
<1> QED
  BY <1>1, <1>4, <1>5, <1>9 DEF IInv

LEMMA MissesStep ==
  ASSUME IInv, NEW r \in DOMAIN tx, Misses(r)
  PROVE  IInv'
<1>1. /\ Moves(r) /\ DOMAIN tx' = DOMAIN tx /\ tx[r].pc = "HEAD" /\ tx'[r].pc = "INSERT"
      /\ Rowed /\ Lock(r) /\ Progress(r) /\ Check(r) /\ grants' = grants /\ Keeps(r)
  BY DEF Misses, Moves, IInv
<1>2. /\ Rowed' /\ Sized' /\ GrantLocks' /\ Chains'
      /\ Granted' /\ OwnersHear' /\ RevokedOnce' /\ Recorded'
  BY <1>1, CommittedStays DEF Keeps, Rowed, States
<1>3. HeadLocks' /\ Drafts'
  BY <1>1, <1>2, HeadsStay DEF Keeps
<1>4. Lock(r)'
  BY <1>1 DEF Lock, Keeps
<1>5. Check(r)'
  BY <1>1 DEF Check, Keeps
<1>6. Progress(r)'
  BY <1>1 DEF Progress, Keeps, HasDeed, Owner, IsDeed
<1>7. \A q \in DOMAIN tx : Lock(q)' /\ Progress(q)' /\ Check(q)'
  BY <1>1, <1>4, <1>5, <1>6, OthersStay DEF IInv
<1> QED
  BY <1>1, <1>2, <1>3, <1>7 DEF IInv

\* An event appended to the head that a request sees.
LEMMA EventRowType ==
  ASSUME Rowed, NEW r \in DOMAIN tx, NEW t \in Tenants, NEW type \in Types,
         NEW head \in Heads, Len(head.hash) = head.seq
  PROVE  LET e == EventRow(t, head, type, r)
         IN  /\ e \in Events /\ e.tenant = t /\ e.type = type /\ e.id = r.id
             /\ e.consent = IF type = "AUDIT" THEN None ELSE r.consent
             /\ e.seq = head.seq + 1 /\ e.prev = head.hash
             /\ e.hash = HashEvent(e.prev, e.type, e.id)
             /\ e.seq \in Nat /\ e.hash \in Seq(Marks) /\ Len(e.hash) = e.seq
<1>1. r.id \in Ids /\ r.consent \in Consents \cup {None}
  BY RequestFields
<1>2. head.seq \in Nat /\ head.hash \in Seq(Marks)
  BY DEF Heads
<1>3. /\ HashEvent(head.hash, type, r.id) \in Seq(Marks)
      /\ Len(HashEvent(head.hash, type, r.id)) = Len(head.hash) + 1
  BY <1>1, <1>2, HashEventType
<1> QED
  BY <1>1, <1>2, <1>3 DEF EventRow, Events

\* The step that a request takes next, and what it has appended then.
LEMMA NextStep ==
  ASSUME Rowed, NEW r \in DOMAIN tx, Lock(r), Progress(r), tx[r].pc \in {"HEAD", "INSERT"}
  PROVE  LET step == Head(tx[r].todo)
         IN  \/ /\ HasDeed(r) /\ tx[r].draft = {}
                /\ step = Event(Owner(r), Deed(r)) /\ Tail(tx[r].todo) = <<AuditOf(r)>>
                /\ Owner(r) \in Tenants /\ Deed(r) \in Types \ {"AUDIT"}
             \/ /\ step = AuditOf(r) /\ Tail(tx[r].todo) = << >>
                /\ IF HasDeed(r) THEN \E d \in tx[r].draft : IsDeed(r, d) /\ tx[r].draft = {d}
                                 ELSE tx[r].draft = {}
<1>1. CASE HasDeed(r) /\ tx[r].draft = {} /\ tx[r].todo = <<Event(Owner(r), Deed(r)), AuditOf(r)>>
  <2>1. Head(tx[r].todo) = Event(Owner(r), Deed(r)) /\ Tail(tx[r].todo) = <<AuditOf(r)>>
    BY <1>1, OneAndTwo
  <2>2. Owner(r) \in Tenants /\ Deed(r) \in Types \ {"AUDIT"}
    BY <1>1, RequestFields DEF HasDeed, Owner, Deed, Lock, Rowed, Types
  <2> QED
    BY <1>1, <2>1, <2>2
<1>2. CASE /\ tx[r].todo = <<AuditOf(r)>>
           /\ IF HasDeed(r) THEN \E d \in tx[r].draft : IsDeed(r, d) /\ tx[r].draft = {d}
                            ELSE tx[r].draft = {}
  <2>1. Head(tx[r].todo) = AuditOf(r) /\ Tail(tx[r].todo) = << >>
    BY <1>2, OneAndTwo
  <2> QED
    BY <1>2, <2>1
<1> QED
  BY <1>1, <1>2 DEF Progress

\* An append makes the draft a longer segment of its tenant's chain, which
\* nobody else is extending.
LEMMA AppendsHeads ==
  ASSUME IInv, NEW r \in DOMAIN tx, Moves(r), NEW t \in Tenants, NEW type \in Types,
         \A q \in DOMAIN tx \ {r} : ~HoldsHead(q, t),
         tx'[r].draft = tx[r].draft \cup {EventRow(t, HeadSeen(r, t), type, r)}
  PROVE  HeadLocks' /\ Drafts'
<1> DEFINE e == EventRow(t, HeadSeen(r, t), type, r)
           top == [seq |-> e.seq, hash |-> e.hash]
<1>1. /\ DOMAIN tx' = DOMAIN tx /\ heads' = heads
      /\ \A q \in DOMAIN tx : q # r => tx'[q] = tx[q]
  BY DEF Moves
<1>2. Rowed /\ Drafts /\ HeadLocks
  BY DEF IInv
<1>3. /\ HeadSeen(r, t) \in Heads /\ Len(HeadSeen(r, t).hash) = HeadSeen(r, t).seq
      /\ Segment(Drafted(r, t), HeadRow(t), HeadSeen(r, t))
  BY <1>2, DraftSegment
<1>4. /\ e \in Events /\ e.tenant = t /\ e.seq = HeadSeen(r, t).seq + 1
      /\ e.prev = HeadSeen(r, t).hash /\ e.hash = HashEvent(e.prev, e.type, e.id)
      /\ e.seq \in Nat /\ e.hash \in Seq(Marks) /\ Len(e.hash) = e.seq
  BY <1>2, <1>3, EventRowType
<1>5. tx'[r].draft = tx[r].draft \cup {e}
  OBVIOUS
<1> HIDE DEF e
<1>6. top \in Heads /\ top.seq = e.seq /\ top.hash = e.hash
  BY <1>4 DEF Heads
<1>7. Drafted(r, t)' = Drafted(r, t) \cup {e}
  BY <1>4, <1>5 DEF Drafted
<1>8. \A q \in DOMAIN tx, u \in Tenants : q # r \/ u # t => Drafted(q, u)' = Drafted(q, u)
  BY <1>1, <1>4, <1>5 DEF Drafted
<1>9. HeadLocks'
  BY <1>1, <1>2, <1>8 DEF HeadLocks, HoldsHead
<1>10. Segment(Drafted(r, t) \cup {e}, HeadRow(t), top)
  <2>1. Segment({e}, HeadSeen(r, t), top)
    BY <1>3, <1>4, SegmentOne
  <2>2. Drafted(r, t) \in SUBSET Events /\ HeadRow(t) \in Heads
    BY <1>2, DraftType, HeadRowType
  <2> HIDE DEF top
  <2> QED
    BY <1>3, <1>4, <1>6, <2>1, <2>2, SegmentJoin
<1>11. HeadSeen(r, t)' = top
  <2> DEFINE rows == Drafted(r, t) \cup {e}
             last == CHOOSE x \in rows : \A d \in rows : d.seq <= x.seq
  <2>1. rows \in SUBSET Events /\ HeadRow(t) \in Heads /\ rows # {}
    BY <1>2, <1>4, DraftType, HeadRowType
  <2>2. last.seq = top.seq /\ last.hash = top.hash
    <3> HIDE DEF rows, top
    <3>1. Segment(rows, HeadRow(t), top)
      BY <1>10 DEF rows
    <3> QED
      BY <1>6, <2>1, <3>1, SegmentLast
  <2>3. HeadSeen(r, t)' = [seq |-> last.seq, hash |-> last.hash]
    BY <1>7, <2>1 DEF HeadSeen, HoldsHead
  <2> HIDE DEF last
  <2> QED
    BY <1>6, <2>2, <2>3
<1>12. ASSUME NEW q \in DOMAIN tx, NEW u \in Tenants
       PROVE  /\ HeadSeen(q, u)' \in Heads
              /\ Len(HeadSeen(q, u)'.hash) = HeadSeen(q, u)'.seq
              /\ Segment(Drafted(q, u), HeadRow(u), HeadSeen(q, u))'
  <2>1. HeadRow(u)' = HeadRow(u)
    BY <1>1 DEF HeadRow
  <2>2. CASE q = r /\ u = t
    <3>1. Segment(Drafted(q, u), HeadRow(u), HeadSeen(q, u))'
      BY <1>7, <1>10, <1>11, <2>1, <2>2 DEF Segment
    <3> HIDE DEF top
    <3> QED
      BY <1>4, <1>6, <1>11, <2>2, <3>1
  <2>3. CASE q # r \/ u # t
    <3>1. Drafted(q, u)' = Drafted(q, u)
      BY <1>8, <2>3
    <3>2. HeadSeen(q, u)' = HeadSeen(q, u)
      BY <1>1, <3>1 DEF HeadSeen, HoldsHead
    <3>3. /\ HeadSeen(q, u) \in Heads /\ Len(HeadSeen(q, u).hash) = HeadSeen(q, u).seq
          /\ Segment(Drafted(q, u), HeadRow(u), HeadSeen(q, u))
      BY <1>2, DraftSegment
    <3> QED
      BY <2>1, <3>1, <3>2, <3>3 DEF Segment
  <2> QED
    BY <2>2, <2>3
<1>13. Drafts'
  BY <1>1, <1>12 DEF Drafts
<1> QED
  BY <1>9, <1>13

LEMMA AppendsStep ==
  ASSUME IInv, NEW r \in DOMAIN tx, Appends(r)
  PROVE  IInv'
<1> DEFINE step == Head(tx[r].todo)
           e == EventRow(step.tenant, HeadSeen(r, step.tenant), step.type, r)
<1>1. /\ Moves(r) /\ DOMAIN tx' = DOMAIN tx /\ tx[r].pc \in {"HEAD", "INSERT"}
      /\ Rowed /\ Lock(r) /\ Progress(r) /\ Check(r) /\ grants' = grants
      /\ r.tenant \in Tenants
  BY RequestFields DEF Appends, Moves, IInv
<1>2. \/ /\ HasDeed(r) /\ tx[r].draft = {}
         /\ step = Event(Owner(r), Deed(r)) /\ Tail(tx[r].todo) = <<AuditOf(r)>>
         /\ Owner(r) \in Tenants /\ Deed(r) \in Types \ {"AUDIT"}
      \/ /\ step = AuditOf(r) /\ Tail(tx[r].todo) = << >>
         /\ IF HasDeed(r) THEN \E d \in tx[r].draft : IsDeed(r, d) /\ tx[r].draft = {d}
                          ELSE tx[r].draft = {}
  BY <1>1, NextStep
<1>3. step.tenant \in Tenants /\ step.type \in Types
  BY <1>1, <1>2 DEF Event, AuditOf, Types
<1>4. HeadSeen(r, step.tenant) \in Heads
      /\ Len(HeadSeen(r, step.tenant).hash) = HeadSeen(r, step.tenant).seq
  BY <1>3, DraftSegment DEF IInv
<1>5. /\ e \in Events /\ e.tenant = step.tenant /\ e.type = step.type /\ e.id = r.id
      /\ e.consent = IF step.type = "AUDIT" THEN None ELSE r.consent
  <2> HIDE DEF step
  <2> QED
    BY <1>1, <1>3, <1>4, EventRowType
<1>6. tx'[r].draft = tx[r].draft \cup {e} /\ \A q \in DOMAIN tx \ {r} : ~HoldsHead(q, step.tenant)
  BY DEF Appends
<1>7. HeadLocks' /\ Drafts'
  <2> HIDE DEF step
  <2> QED
    BY <1>1, <1>3, <1>6, AppendsHeads
<1>8. /\ tx'[r].todo = Tail(tx[r].todo) /\ tx'[r].locked = tx[r].locked
      /\ tx'[r].onTime = tx[r].onTime /\ tx'[r].check = tx[r].check
      /\ tx'[r].pc = IF Tail(tx[r].todo) = << >> THEN "COMMIT" ELSE "HEAD"
  BY DEF Appends
<1> HIDE DEF e
<1>9. tx'[r].draft \subseteq Events
  BY <1>1, <1>5, <1>6 DEF Rowed
<1>10. /\ Rowed' /\ Sized' /\ GrantLocks' /\ Chains'
       /\ Granted' /\ OwnersHear' /\ RevokedOnce' /\ Recorded'
  BY <1>1, <1>8, <1>9, CommittedStays DEF Rowed, States
<1>11. Lock(r)'
  BY <1>1, <1>8 DEF Lock
<1>12. Check(r)'
  BY <1>1, <1>8 DEF Check
<1>13. Progress(r)'
  <2>1. HasDeed(r)' = HasDeed(r) /\ Owner(r)' = Owner(r)
    BY <1>1 DEF HasDeed, Owner
  <2>2. r.kind # "VERIFY" /\ <<AuditOf(r)>> # << >>
    BY <1>1, OneAndTwo DEF Progress
  <2>3. CASE /\ HasDeed(r) /\ tx[r].draft = {}
             /\ step = Event(Owner(r), Deed(r)) /\ Tail(tx[r].todo) = <<AuditOf(r)>>
             /\ Owner(r) \in Tenants /\ Deed(r) \in Types \ {"AUDIT"}
    <3>1. PICK d \in Events : d = e /\ IsDeed(r, d)
      BY <1>5, <2>3 DEF IsDeed, Event
    <3>2. tx'[r].pc = "HEAD" /\ tx'[r].todo = <<AuditOf(r)>> /\ tx'[r].draft = {d}
      BY <1>6, <1>8, <2>2, <2>3, <3>1
    <3>3. IsDeed(r, d)'
      BY <2>1, <3>1 DEF IsDeed
    <3> QED
      BY <2>1, <2>2, <2>3, <3>2, <3>3 DEF Progress
  <2>4. CASE /\ step = AuditOf(r) /\ Tail(tx[r].todo) = << >>
             /\ IF HasDeed(r) THEN \E d \in tx[r].draft : IsDeed(r, d) /\ tx[r].draft = {d}
                              ELSE tx[r].draft = {}
    <3>1. IsAudit(r, e)
      BY <1>5, <2>4 DEF IsAudit, Event, AuditOf
    <3>2. tx'[r].pc = "COMMIT" /\ tx'[r].todo = << >> /\ e \in tx'[r].draft
      BY <1>6, <1>8, <2>4
    <3>3. CASE HasDeed(r)
      <4>1. PICK d \in tx[r].draft : IsDeed(r, d) /\ tx[r].draft = {d}
        BY <2>4, <3>3
      <4>2. d \in tx'[r].draft /\ tx'[r].draft = {d, e} /\ IsDeed(r, d)'
        BY <1>6, <2>1, <4>1 DEF IsDeed
      <4> QED
        BY <2>1, <2>2, <3>1, <3>2, <3>3, <4>2 DEF Progress, IsAudit
    <3>4. CASE ~HasDeed(r)
      <4>1. tx'[r].draft = {e}
        BY <1>6, <2>4, <3>4
      <4> QED
        BY <2>1, <2>2, <3>1, <3>2, <3>4, <4>1 DEF Progress, IsAudit
    <3> QED
      BY <3>3, <3>4
  <2> QED
    BY <1>2, <2>3, <2>4
<1>14. \A q \in DOMAIN tx : Lock(q)' /\ Progress(q)' /\ Check(q)'
  BY <1>1, <1>11, <1>12, <1>13, OthersStay DEF IInv
<1> QED
  BY <1>1, <1>7, <1>10, <1>14 DEF IInv

LEMMA VerifiesStep ==
  ASSUME IInv, NEW r \in DOMAIN tx, Verifies(r)
  PROVE  IInv'
<1> DEFINE t == r.tenant
<1>1. /\ Moves(r) /\ DOMAIN tx' = DOMAIN tx /\ tx[r].pc \in {"NEW", "CHECK"} /\ heads' = heads
      /\ Rowed /\ Lock(r) /\ Progress(r) /\ Check(r) /\ Chains /\ t \in Tenants
      /\ r.kind = "VERIFY" /\ tx'[r].pc \in {"CHECK", "DONE"}
      /\ tx'[r].todo = tx[r].todo /\ tx'[r].draft = tx[r].draft
      /\ tx'[r].locked = tx[r].locked /\ tx'[r].onTime = tx[r].onTime
  BY RequestFields DEF Verifies, Moves, IInv, Check, Progress
<1>2. tx[r].draft = {} /\ tx[r].todo = << >> /\ tx[r].locked = None /\ tx[r].onTime = TRUE
  BY <1>1 DEF Progress
<1>3. /\ Rowed' /\ Sized' /\ GrantLocks' /\ Chains'
      /\ Granted' /\ OwnersHear' /\ RevokedOnce' /\ Recorded'
  BY <1>1, <1>2, CommittedStays DEF States
<1>4. HeadLocks' /\ Drafts'
  BY <1>1, <1>3, HeadsStay
<1>5. Lock(r)' /\ Progress(r)'
  BY <1>1, <1>2 DEF Lock, Progress
<1>6. HeadRow(t) \in Heads /\ HeadRow(t)' = HeadRow(t) /\ HeadRow(t).seq \in Nat
  BY <1>1, HeadRowType DEF HeadRow, Heads
<1>7. CASE tx[r].pc = "NEW"
  <2>1. Linked(Rows(t)) /\ Cardinality(Rows(t)) = HeadRow(t).seq /\ LastHash(Rows(t)) = HeadRow(t).hash
    BY <1>1, <1>6, SegmentLinked DEF Chains, Rows, Rowed
  <2>2. Linked(Rows(t)) = TRUE
    BY <2>1
  <2>3. /\ tx'[r].pc = "CHECK"
        /\ tx'[r].check = [count |-> HeadRow(t).seq, hash |-> HeadRow(t).hash,
                           linked |-> TRUE, valid |-> TRUE, seen |-> 0]
    BY <1>7, <2>1, <2>2 DEF Verifies
  <2>4. /\ tx'[r].check \in Verdicts /\ tx'[r].check.linked = TRUE /\ tx'[r].check.valid = TRUE
        /\ tx'[r].check.count = HeadRow(t).seq /\ tx'[r].check.hash = HeadRow(t).hash
    BY <1>6, <2>3 DEF Verdicts, Heads
  <2> QED
    <3>1. Check(r)'
      BY <1>1, <1>6, <2>3, <2>4 DEF Check
    <3>2. \A q \in DOMAIN tx : Lock(q)' /\ Progress(q)' /\ Check(q)'
      BY <1>1, <1>5, <3>1, OthersStay DEF IInv
    <3> QED
      BY <1>1, <1>3, <1>4, <3>2 DEF IInv
<1>8. CASE tx[r].pc = "CHECK"
  <2> DEFINE valid == /\ tx[r].check.valid
                      /\ tx[r].check.linked
                      /\ HeadAgrees(t, tx[r].check.count, tx[r].check.hash)
             seen == IF t \in DOMAIN heads THEN heads[t].seq ELSE 0
  <2>1. /\ tx[r].check \in Verdicts /\ tx[r].check.linked = TRUE /\ tx[r].check.valid = TRUE
        /\ tx[r].check.count <= HeadRow(t).seq
        /\ tx[r].check.count = HeadRow(t).seq => tx[r].check.hash = HeadRow(t).hash
    BY <1>1, <1>8 DEF Check
  <2>2. tx'[r].check = [tx[r].check EXCEPT !.valid = valid, !.seen = seen] /\ tx'[r].pc = "DONE"
    BY <1>8 DEF Verifies
  <2>3. seen = HeadRow(t).seq
    BY DEF HeadRow, GENESIS
  <2>4. CASE tx[r].check.count = HeadRow(t).seq
    <3>1. t \in DOMAIN heads => heads[t] \in Heads /\ HeadRow(t) = heads[t]
      BY <1>1 DEF Rowed, HeadRow
    <3>2. HeadAgrees(t, tx[r].check.count, tx[r].check.hash)
      BY <2>1, <2>4, <3>1 DEF HeadAgrees, Heads
    <3>3. valid = TRUE
      BY <2>1, <3>2
    <3>4. tx'[r].check \in Verdicts /\ tx'[r].check.valid = TRUE /\ tx'[r].check.linked = TRUE
      <4> HIDE DEF valid, seen
      <4> QED
        BY <1>6, <2>1, <2>2, <2>3, <3>3 DEF Verdicts
    <3> QED
      <4>1. Check(r)'
        BY <1>1, <2>2, <3>4 DEF Check
      <4>2. \A q \in DOMAIN tx : Lock(q)' /\ Progress(q)' /\ Check(q)'
        BY <1>1, <1>5, <4>1, OthersStay DEF IInv
      <4> QED
        BY <1>1, <1>3, <1>4, <4>2 DEF IInv
  <2>5. CASE tx[r].check.count # HeadRow(t).seq
    <3>1. valid \in BOOLEAN /\ seen \in Nat /\ seen > tx[r].check.count
      BY <1>6, <2>1, <2>3, <2>5 DEF Verdicts
    <3>2. /\ tx'[r].check \in Verdicts /\ tx'[r].check.linked = TRUE
          /\ tx'[r].check.seen > tx'[r].check.count
      <4> HIDE DEF valid, seen
      <4> QED
        BY <2>1, <2>2, <3>1 DEF Verdicts
    <3> QED
      <4>1. Check(r)'
        BY <1>1, <2>2, <3>2 DEF Check
      <4>2. \A q \in DOMAIN tx : Lock(q)' /\ Progress(q)' /\ Check(q)'
        BY <1>1, <1>5, <4>1, OthersStay DEF IInv
      <4> QED
        BY <1>1, <1>3, <1>4, <4>2 DEF IInv
  <2> QED
    BY <2>4, <2>5
<1> QED
  BY <1>1, <1>7, <1>8

-----------------------------------------------------------------------------
(* A commit.                                                               *)

\* A commit adds a grant or revokes the one it holds.
LEMMA CommitGrants ==
  ASSUME IInv, NEW r \in DOMAIN tx, Commit(r)
  PROVE  /\ DOMAIN grants' \subseteq Consents /\ DOMAIN grants \subseteq DOMAIN grants'
         /\ grants' \in [DOMAIN grants' -> [tenant: Tenants, status: {"ACTIVE", "REVOKED"}]]
         /\ \A c \in DOMAIN grants : grants'[c].tenant = grants[c].tenant
         /\ \A c \in DOMAIN grants : c # tx[r].locked => grants'[c] = grants[c]
         /\ \A c \in DOMAIN grants' \ DOMAIN grants :
               r.kind = "ISSUE" /\ c = r.consent /\ grants'[c].status = "ACTIVE"
         /\ r.kind = "REVOKE" => r.consent \in DOMAIN grants
                                 /\ grants'[r.consent].status = "REVOKED"
         /\ r.kind # "REVOKE" => \A c \in DOMAIN grants : grants'[c] = grants[c]
<1>1. /\ Rowed /\ Lock(r) /\ Progress(r) /\ Granted /\ tx[r].pc = "COMMIT"
      /\ r \in Requests /\ r.tenant \in Tenants /\ r.kind \in Kinds
      /\ r.kind \in {"ISSUE", "REVOKE", "ACCESS"} => r.consent \in Consents /\ r.consent # None
  BY RequestFields DEF IInv, Commit
<1>2. CASE r.kind = "ISSUE"
  <2>1. r.consent \notin DOMAIN grants
    <3>1. SUFFICES ASSUME r.consent \in DOMAIN grants  PROVE FALSE
      OBVIOUS
    <3>2. PICK q \in DOMAIN tx : q.kind = "ISSUE" /\ q.consent = r.consent /\ tx[q].pc = "DONE"
      BY <1>1, <3>1 DEF Granted
    <3>3. q \in Requests
      BY <1>1, RequestFields
    <3> QED
      BY <1>1, <1>2, <3>2, <3>3, IssueAssumption
  <2>2. grants' = [c \in DOMAIN grants \cup {r.consent} |->
                      IF c = r.consent THEN [tenant |-> r.tenant, status |-> "ACTIVE"]
                      ELSE grants[c]]
    BY <1>2 DEF Commit
  <2> QED
    BY <1>1, <1>2, <2>1, <2>2 DEF Rowed
<1>3. CASE r.kind = "REVOKE"
  <2>1. r.consent \in DOMAIN grants /\ tx[r].locked = r.consent
    BY <1>1, <1>3 DEF Lock
  <2>2. grants' = [grants EXCEPT ![r.consent].status = "REVOKED"]
    BY <1>3 DEF Commit
  <2>3. DOMAIN grants' = DOMAIN grants /\ \A c \in DOMAIN grants : c # r.consent => grants'[c] = grants[c]
    BY <2>2
  <2>4. grants[r.consent] \in [tenant: Tenants, status: {"ACTIVE", "REVOKED"}]
    BY <1>1, <2>1 DEF Rowed
  <2>5. grants'[r.consent] = [grants[r.consent] EXCEPT !.status = "REVOKED"]
    BY <2>1, <2>2
  <2>6. /\ grants'[r.consent] \in [tenant: Tenants, status: {"ACTIVE", "REVOKED"}]
        /\ grants'[r.consent].status = "REVOKED"
        /\ grants'[r.consent].tenant = grants[r.consent].tenant
    BY <2>4, <2>5
  <2>7. grants' \in [DOMAIN grants' -> [tenant: Tenants, status: {"ACTIVE", "REVOKED"}]]
    <3>1. \A c \in DOMAIN grants : grants'[c] \in [tenant: Tenants, status: {"ACTIVE", "REVOKED"}]
      BY <1>1, <2>3, <2>6 DEF Rowed
    <3>2. grants' = [c \in DOMAIN grants' |-> grants'[c]]
      BY <2>2
    <3> QED
      BY <2>3, <3>1, <3>2
  <2> QED
    BY <1>1, <1>3, <2>1, <2>3, <2>6, <2>7 DEF Rowed
<1>4. CASE r.kind \notin {"ISSUE", "REVOKE"}
  <2>1. grants' = grants
    BY <1>4 DEF Commit
  <2> QED
    BY <1>1, <1>4, <2>1 DEF Rowed
<1> QED
  BY <1>2, <1>3, <1>4

\* A commit makes the heads that the request saw the heads, and its draft rows.
LEMMA CommitHeads ==
  ASSUME IInv, NEW r \in DOMAIN tx, Commit(r)
  PROVE  /\ \A t \in Tenants : HeadRow(t)' = HeadSeen(r, t)
         /\ \A t \in Tenants : Rows(t)' = Rows(t) \cup Drafted(r, t)
         /\ DOMAIN heads' \subseteq Tenants /\ heads' \in [DOMAIN heads' -> Heads]
         /\ chain' \subseteq Events /\ Sized' /\ Chains'
<1>1. /\ Rowed /\ Drafts /\ Chains
      /\ chain' = chain \cup tx[r].draft
      /\ heads' = [t \in DOMAIN heads \cup {e.tenant : e \in tx[r].draft} |-> HeadSeen(r, t)]
  BY DEF IInv, Commit
<1>2. DOMAIN heads' = DOMAIN heads \cup {e.tenant : e \in tx[r].draft}
      /\ \A t \in DOMAIN heads' : heads'[t] = HeadSeen(r, t)
  BY <1>1
<1>3. tx[r].draft \subseteq Events /\ chain \subseteq Events /\ DOMAIN heads \subseteq Tenants
  BY <1>1 DEF Rowed
<1>4. DOMAIN heads' \subseteq Tenants
  BY <1>2, <1>3 DEF Events
<1>5. \A t \in Tenants : HeadSeen(r, t) \in Heads /\ Len(HeadSeen(r, t).hash) = HeadSeen(r, t).seq
  BY <1>1, DraftSegment
<1>6. heads' \in [DOMAIN heads' -> Heads]
  <2>1. heads' = [t \in DOMAIN heads' |-> heads'[t]]
    BY <1>1
  <2>2. \A t \in DOMAIN heads' : heads'[t] \in Heads
    BY <1>2, <1>4, <1>5
  <2> QED
    BY <2>1, <2>2
<1>7. Sized'
  BY <1>2, <1>4, <1>5 DEF Sized
<1>8. ASSUME NEW t \in Tenants  PROVE HeadRow(t)' = HeadSeen(r, t)
  <2>1. CASE t \in DOMAIN heads'
    BY <1>2, <2>1 DEF HeadRow
  <2>2. CASE t \notin DOMAIN heads'
    <3>1. ~HoldsHead(r, t) /\ t \notin DOMAIN heads
      BY <1>2, <2>2 DEF HoldsHead, Drafted
    <3> QED
      BY <2>2, <3>1 DEF HeadRow, HeadSeen
  <2> QED
    BY <2>1, <2>2
<1>9. \A t \in Tenants : Rows(t)' = Rows(t) \cup Drafted(r, t)
  BY <1>1 DEF Rows, Drafted
<1>10. ASSUME NEW t \in Tenants  PROVE Segment(Rows(t), GENESIS, HeadRow(t))'
  <2>1. Segment(Rows(t), GENESIS, HeadRow(t)) /\ Segment(Drafted(r, t), HeadRow(t), HeadSeen(r, t))
    BY <1>1, DraftSegment DEF Chains
  <2>2. Rows(t) \in SUBSET Events /\ Drafted(r, t) \in SUBSET Events /\ HeadRow(t) \in Heads
    BY <1>1, <1>3, DraftType, HeadRowType DEF Rows
  <2>3. GENESIS \in Heads
    BY DEF GENESIS, Heads
  <2>4. Segment(Rows(t) \cup Drafted(r, t), GENESIS, HeadSeen(r, t))
    BY <1>5, <2>1, <2>2, <2>3, SegmentJoin
  <2> QED
    BY <1>8, <1>9, <2>4 DEF Segment
<1>11. Chains'
  BY <1>10 DEF Chains
<1> QED
  BY <1>1, <1>3, <1>4, <1>6, <1>7, <1>8, <1>9, <1>11

\* The other requests go on as they were: no grant that they have locked and no
\* head that they hold has changed.
LEMMA CommitOthers ==
  ASSUME IInv, NEW r \in DOMAIN tx, Commit(r), NEW q \in DOMAIN tx, q # r
  PROVE  Lock(q)' /\ Progress(q)' /\ Check(q)'
<1>1. /\ Rowed /\ GrantLocks /\ Drafts /\ Lock(q) /\ Progress(q) /\ Check(q) /\ tx'[q] = tx[q]
      /\ q.tenant \in Tenants /\ q.kind \in Kinds
      /\ q.kind \in {"ISSUE", "REVOKE", "ACCESS"} => q.consent \in Consents /\ q.consent # None
  BY RequestFields, EndRow DEF IInv, Commit
<1>2. /\ DOMAIN grants \subseteq DOMAIN grants'
      /\ \A c \in DOMAIN grants : c # tx[r].locked => grants'[c] = grants[c]
  BY CommitGrants
<1>3. ASSUME tx[q].pc \in {"HEAD", "INSERT", "COMMIT"}, q.kind \in {"REVOKE", "ACCESS"}
      PROVE  /\ tx[q].locked = q.consent /\ q.consent \in DOMAIN grants
             /\ q.consent \in DOMAIN grants' /\ grants'[q.consent] = grants[q.consent]
  BY <1>1, <1>2, <1>3 DEF Lock, GrantLocks
<1>4. Lock(q)'
  BY <1>1, <1>3 DEF Lock
<1>5. Progress(q)'
  <2>1. CASE tx[q].pc \in {"HEAD", "INSERT", "COMMIT"}
    <3>1. CASE q.kind \in {"REVOKE", "ACCESS"}
      <4>1. Owner(q)' = Owner(q) /\ HasDeed(q)' = HasDeed(q)
        BY <1>3, <2>1, <3>1 DEF Owner, HasDeed
      <4> QED
        BY <1>1, <4>1 DEF Progress, IsDeed, IsAudit
    <3>2. CASE q.kind = "ISSUE"
      <4>1. Owner(q)' = Owner(q) /\ HasDeed(q)' = HasDeed(q)
        BY <3>2 DEF Owner, HasDeed
      <4> QED
        BY <1>1, <4>1 DEF Progress, IsDeed, IsAudit
    <3>3. CASE q.kind = "AUDIT"
      <4>1. ~HasDeed(q) /\ ~HasDeed(q)'
        BY <3>3 DEF HasDeed
      <4> QED
        BY <1>1, <4>1 DEF Progress, IsAudit
    <3> QED
      BY <1>1, <2>1, <3>1, <3>2, <3>3 DEF Progress, Kinds
  <2>2. CASE tx[q].pc \notin {"HEAD", "INSERT", "COMMIT"}
    BY <1>1, <2>2 DEF Progress
  <2> QED
    BY <2>1, <2>2
<1>6. Check(q)'
  <2> DEFINE t == q.tenant
  <2>1. HeadRow(t) \in Heads /\ HeadSeen(r, t) \in Heads /\ HeadRow(t)' = HeadSeen(r, t)
        /\ Segment(Drafted(r, t), HeadRow(t), HeadSeen(r, t))
    BY <1>1, HeadRowType, DraftSegment, CommitHeads
  <2>2. CASE tx[q].pc = "CHECK" /\ tx[q].check \in Verdicts
    <3>1. tx[q].check.count \in Nat /\ HeadRow(t).seq \in Nat /\ HeadSeen(r, t).seq \in Nat
          /\ HeadRow(t).seq <= HeadSeen(r, t).seq
      BY <2>1, <2>2 DEF Verdicts, Heads, Segment
    <3>2. HeadRow(t).seq = HeadSeen(r, t).seq => HeadRow(t) = HeadSeen(r, t)
      <4>1. SUFFICES ASSUME HeadRow(t).seq = HeadSeen(r, t).seq
                     PROVE  HeadRow(t) = HeadSeen(r, t)
        OBVIOUS
      <4>2. {e.seq : e \in Drafted(r, t)} = {}
        BY <2>1, <3>1, <4>1 DEF Segment
      <4>3. Drafted(r, t) = {}
        BY <4>2
      <4> QED
        BY <2>1, <4>3 DEF Segment
    <3>3. HeadRow(t)' = HeadSeen(r, t)
      BY <2>1
    <3> HIDE DEF t
    <3>4. tx[q].check.count <= HeadSeen(r, t).seq
          /\ (tx[q].check.count = HeadSeen(r, t).seq => tx[q].check.hash = HeadSeen(r, t).hash)
      BY <1>1, <2>2, <3>1, <3>2 DEF Check, t
    <3> QED
      BY <1>1, <2>2, <3>3, <3>4 DEF Check, t
  <2>3. CASE tx[q].pc # "CHECK"
    BY <1>1, <2>3 DEF Check
  <2> QED
    BY <1>1, <2>2, <2>3 DEF Check
<1> QED
  BY <1>4, <1>5, <1>6

\* Whoever holds a head row afterwards held it before, and r holds none.
LEMMA CommitDrafts ==
  ASSUME IInv, NEW r \in DOMAIN tx, Commit(r)
  PROVE  HeadLocks' /\ Drafts'
<1>1. /\ DOMAIN tx' = DOMAIN tx /\ tx'[r].draft = {}
      /\ \A q \in DOMAIN tx : q # r => tx'[q] = tx[q]
      /\ HeadLocks /\ Drafts /\ Rowed
  BY EndRow DEF IInv, Commit
<1>2. \A t \in Tenants : HeadRow(t)' = HeadSeen(r, t) /\ HeadSeen(r, t) \in Heads
                         /\ Len(HeadSeen(r, t).hash) = HeadSeen(r, t).seq
  BY <1>1, CommitHeads, DraftSegment
<1>3. \A t \in Tenants : Drafted(r, t)' = {}
  BY <1>1 DEF Drafted
<1>4. \A q \in DOMAIN tx, t \in Tenants : q # r => Drafted(q, t)' = Drafted(q, t)
  BY <1>1 DEF Drafted
<1>5. HeadLocks'
  BY <1>1, <1>3, <1>4 DEF HeadLocks, HoldsHead
<1>6. ASSUME NEW q \in DOMAIN tx, NEW t \in Tenants
      PROVE  /\ HeadSeen(q, t)' \in Heads
             /\ Len(HeadSeen(q, t)'.hash) = HeadSeen(q, t)'.seq
             /\ Segment(Drafted(q, t), HeadRow(t), HeadSeen(q, t))'
  <2>1. HeadRow(t)' = HeadSeen(r, t) /\ HeadSeen(r, t) \in Heads
        /\ Len(HeadSeen(r, t).hash) = HeadSeen(r, t).seq
    BY <1>2
  <2>2. CASE Drafted(q, t)' = {}
    <3>1. HeadSeen(q, t)' = HeadRow(t)'
      BY <2>2 DEF HeadSeen, HeadRow, HoldsHead
    <3>2. Segment({}, HeadSeen(r, t), HeadSeen(r, t))
      BY <2>1, SegmentNone
    <3> QED
      BY <2>1, <2>2, <3>1, <3>2 DEF Segment
  <2>3. CASE Drafted(q, t)' # {}
    <3>1. q # r /\ Drafted(q, t)' = Drafted(q, t) /\ HoldsHead(q, t)
      BY <1>3, <1>4, <2>3 DEF HoldsHead
    <3>2. ~HoldsHead(r, t)
      BY <1>1, <3>1 DEF HeadLocks
    <3>3. HeadRow(t)' = HeadRow(t)
      BY <2>1, <3>2, SeenFree
    <3>4. HeadSeen(q, t)' = HeadSeen(q, t)
      BY <3>1 DEF HeadSeen, HoldsHead
    <3>5. /\ HeadSeen(q, t) \in Heads /\ Len(HeadSeen(q, t).hash) = HeadSeen(q, t).seq
          /\ Segment(Drafted(q, t), HeadRow(t), HeadSeen(q, t))
      BY <1>1, DraftSegment
    <3> QED
      BY <3>1, <3>3, <3>4, <3>5 DEF Segment
  <2> QED
    BY <2>2, <2>3
<1>7. Drafts'
  BY <1>1, <1>6 DEF Drafts
<1> QED
  BY <1>5, <1>7

\* What r commits is its audit event, and its own event if it has one.
LEMMA CommitDraft ==
  ASSUME IInv, NEW r \in DOMAIN tx, Commit(r)
  PROVE  /\ \A e \in tx[r].draft : e.id = r.id
         /\ \E a \in tx[r].draft :
               /\ IsAudit(r, a)
               /\ IF HasDeed(r) THEN \E d \in tx[r].draft : IsDeed(r, d) /\ tx[r].draft = {d, a}
                                ELSE tx[r].draft = {a}
         /\ HasDeed(r) => Deed(r) # "AUDIT"
<1>1. Progress(r) /\ tx[r].pc = "COMMIT"
  BY DEF IInv, Commit
<1>2. PICK a \in tx[r].draft :
         /\ IsAudit(r, a)
         /\ IF HasDeed(r) THEN \E d \in tx[r].draft : IsDeed(r, d) /\ tx[r].draft = {d, a}
                          ELSE tx[r].draft = {a}
  BY <1>1 DEF Progress
<1>3. \A e \in tx[r].draft : e.id = r.id
  BY <1>2 DEF IsAudit, IsDeed
<1>4. HasDeed(r) => Deed(r) # "AUDIT"
  BY DEF HasDeed, Deed
<1> QED
  BY <1>2, <1>3, <1>4

LEMMA CommitRecords ==
  ASSUME IInv, NEW r \in DOMAIN tx, Commit(r)
  PROVE  Granted' /\ Recorded'
<1>1. /\ DOMAIN tx' = DOMAIN tx /\ tx'[r].pc = "DONE"
      /\ \A q \in DOMAIN tx : q # r => tx'[q] = tx[q]
      /\ Rowed /\ Granted /\ Recorded /\ Progress(r)
      /\ tx[r].pc = "COMMIT" /\ chain' = chain \cup tx[r].draft
  BY EndRow DEF IInv, Commit
<1>2. \A c \in DOMAIN grants' \ DOMAIN grants : r.kind = "ISSUE" /\ c = r.consent
  BY CommitGrants
<1>3. Granted'
  <2>1. SUFFICES ASSUME NEW c \in DOMAIN grants'
                 PROVE  \E q \in DOMAIN tx : q.kind = "ISSUE" /\ q.consent = c /\ tx'[q].pc = "DONE"
    BY <1>1 DEF Granted
  <2>2. CASE c \in DOMAIN grants
    BY <1>1, <2>2 DEF Granted
  <2>3. CASE c \notin DOMAIN grants
    BY <1>1, <1>2, <2>3
  <2> QED
    BY <2>2, <2>3
<1>4. /\ \A e \in tx[r].draft : e.id = r.id
      /\ HasDeed(r) => Deed(r) # "AUDIT"
  BY CommitDraft
<1>5. PICK a \in tx[r].draft :
         /\ IsAudit(r, a)
         /\ IF HasDeed(r) THEN \E d \in tx[r].draft : IsDeed(r, d) /\ tx[r].draft = {d, a}
                          ELSE tx[r].draft = {a}
  BY CommitDraft
<1>6. \A e \in chain' : \E q \in DOMAIN tx : e.id = q.id /\ tx'[q].pc = "DONE" /\ q.kind # "VERIFY"
  BY <1>1, <1>4 DEF Recorded, Progress
<1>7. ASSUME NEW q \in DOMAIN tx, tx'[q].pc = "DONE", q.kind # "VERIFY"
      PROVE  \E b \in chain' :
                /\ b.id = q.id /\ b.type = "AUDIT" /\ b.tenant = q.tenant
                /\ q.kind \in {"ISSUE", "ACCESS"} =>
                      \E d \in chain' : d.type # "AUDIT" /\ {e \in chain' : e.id = q.id} = {d, b}
  <2>1. CASE q = r
    <3>1. \A e \in chain : e.id # r.id
      BY <1>1, SameRequest DEF Recorded
    <3>2. {e \in chain' : e.id = r.id} = tx[r].draft
      BY <1>1, <1>4, <3>1
    <3>3. a \in chain' /\ a.id = r.id /\ a.type = "AUDIT" /\ a.tenant = r.tenant
      BY <1>1, <1>5 DEF IsAudit
    <3>4. ASSUME r.kind \in {"ISSUE", "ACCESS"}
          PROVE  \E d \in chain' : d.type # "AUDIT" /\ {e \in chain' : e.id = r.id} = {d, a}
      <4>1. HasDeed(r)
        BY <3>4 DEF HasDeed
      <4>2. PICK d \in tx[r].draft : IsDeed(r, d) /\ tx[r].draft = {d, a}
        BY <1>5, <4>1
      <4>3. d \in chain' /\ d.type # "AUDIT" /\ {e \in chain' : e.id = r.id} = {d, a}
        BY <1>1, <1>4, <3>2, <4>1, <4>2 DEF IsDeed
      <4> QED
        BY <4>3
    <3> QED
      BY <2>1, <3>3, <3>4
  <2>2. CASE q # r
    <3>1. tx[q].pc = "DONE"
      BY <1>1, <1>7, <2>2
    <3>2. PICK b \in chain :
             /\ b.id = q.id /\ b.type = "AUDIT" /\ b.tenant = q.tenant
             /\ q.kind \in {"ISSUE", "ACCESS"} =>
                   \E d \in chain : d.type # "AUDIT" /\ {e \in chain : e.id = q.id} = {d, b}
      BY <1>1, <1>7, <3>1 DEF Recorded
    <3>3. \A e \in tx[r].draft : e.id # q.id
      BY <1>1, <1>4, <2>2, SameRequest
    <3>4. {e \in chain' : e.id = q.id} = {e \in chain : e.id = q.id}
      BY <1>1, <3>3
    <3>5. b \in chain' /\ chain \subseteq chain'
      BY <1>1, <3>2
    <3> QED
      BY <3>2, <3>4, <3>5
  <2> QED
    BY <2>1, <2>2
<1>8. Recorded'
  <2>1. \A e \in chain' : \E q \in DOMAIN tx' : e.id = q.id /\ tx'[q].pc = "DONE" /\ q.kind # "VERIFY"
    BY <1>1, <1>6
  <2>2. DOMAIN tx' = DOMAIN tx
    BY <1>1
  <2> QED
    BY <1>7, <2>1, <2>2 DEF Recorded
<1> QED
  BY <1>3, <1>8

\* A revocation comes after everything its tenant's chain says of the grant.
LEMMA CommitAbout ==
  ASSUME IInv, NEW r \in DOMAIN tx, Commit(r)
  PROVE  OwnersHear' /\ RevokedOnce'
<1>1. /\ Rowed /\ Lock(r) /\ OwnersHear /\ RevokedOnce /\ Drafts /\ Chains
      /\ tx[r].pc = "COMMIT" /\ chain' = chain \cup tx[r].draft
      /\ r.kind \in Kinds /\ r.tenant \in Tenants
      /\ r.kind \in {"ISSUE", "REVOKE", "ACCESS"} => r.consent \in Consents /\ r.consent # None
  BY RequestFields DEF IInv, Commit
<1>2. /\ DOMAIN grants \subseteq DOMAIN grants' /\ DOMAIN grants' \subseteq Consents
      /\ \A c \in DOMAIN grants : grants'[c].tenant = grants[c].tenant
      /\ \A c \in DOMAIN grants : c # tx[r].locked => grants'[c] = grants[c]
      /\ \A c \in DOMAIN grants' \ DOMAIN grants : r.kind = "ISSUE" /\ grants'[c].status = "ACTIVE"
      /\ r.kind = "REVOKE" => grants'[r.consent].status = "REVOKED"
      /\ r.kind # "REVOKE" => \A c \in DOMAIN grants : grants'[c] = grants[c]
  BY CommitGrants
<1>3. PICK a \in tx[r].draft :
         /\ IsAudit(r, a)
         /\ IF HasDeed(r) THEN \E d \in tx[r].draft : IsDeed(r, d) /\ tx[r].draft = {d, a}
                          ELSE tx[r].draft = {a}
  BY CommitDraft
<1>4. CASE r.kind \in {"REVOKE", "ACCESS"} /\ HasDeed(r)
  <2>1. PICK d \in tx[r].draft : IsDeed(r, d) /\ tx[r].draft = {d, a}
    BY <1>3, <1>4
  <2>2. /\ d.consent = r.consent /\ d.tenant = grants[r.consent].tenant /\ a.type = "AUDIT"
        /\ d.type = IF r.kind = "REVOKE" THEN "CONSENT_REVOKED" ELSE "DATA_ACCESS_ALLOWED"
    BY <1>3, <1>4, <2>1 DEF IsDeed, IsAudit, Owner, Deed
  <2>3. r.consent \in DOMAIN grants /\ tx[r].locked = r.consent
        /\ grants[r.consent].status = "ACTIVE" /\ grants[r.consent].tenant \in Tenants
    BY <1>1, <1>4 DEF Lock, HasDeed, Rowed
  <2>4. \A c \in Consents : About(c)' = IF c = r.consent THEN About(c) \cup {d} ELSE About(c)
    BY <1>1, <2>1, <2>2 DEF About
  <2>5. OwnersHear'
    BY <1>1, <1>2, <2>2, <2>3, <2>4 DEF OwnersHear
  <2>6. \A e \in About(r.consent) : e.type = "DATA_ACCESS_ALLOWED" /\ e.seq < d.seq
    <3>1. SUFFICES ASSUME NEW e \in About(r.consent)
                   PROVE  e.type = "DATA_ACCESS_ALLOWED" /\ e.seq < d.seq
      OBVIOUS
    <3>2. e.type = "DATA_ACCESS_ALLOWED"
      BY <1>1, <2>3, <3>1 DEF RevokedOnce, About
    <3> DEFINE t == grants[r.consent].tenant
    <3>3. t \in Tenants /\ e \in Rows(t) /\ d \in Drafted(r, t)
      BY <1>1, <1>4, <2>1, <2>2, <2>3, <3>1 DEF OwnersHear, About, Rows, Drafted
    <3> HIDE DEF t
    <3>4. /\ HeadRow(t) \in Heads /\ HeadSeen(r, t) \in Heads
          /\ Segment(Rows(t), GENESIS, HeadRow(t))
          /\ Segment(Drafted(r, t), HeadRow(t), HeadSeen(r, t))
      BY <1>1, <3>3, HeadRowType, DraftSegment DEF Chains
    <3>5. HeadRow(t).seq \in Nat /\ HeadSeen(r, t).seq \in Nat /\ GENESIS.seq = 0
      BY <3>4 DEF Heads, GENESIS
    <3>6. e.seq \in 1 .. HeadRow(t).seq /\ d.seq \in HeadRow(t).seq + 1 .. HeadSeen(r, t).seq
      BY <3>3, <3>4, <3>5 DEF Segment
    <3> QED
      BY <3>2, <3>5, <3>6
  <2>7. ASSUME NEW c \in DOMAIN grants'
        PROVE  /\ grants'[c].status = "ACTIVE" => \A e \in About(c)' : e.type # "CONSENT_REVOKED"
               /\ grants'[c].status = "REVOKED" =>
                     \E e \in About(c)' :
                        /\ e.type = "CONSENT_REVOKED"
                        /\ \A b \in About(c)' :
                              b = e \/ (b.type = "DATA_ACCESS_ALLOWED" /\ b.seq < e.seq)
    <3>1. c \in DOMAIN grants /\ c \in Consents
      BY <1>2, <1>4
    <3>2. CASE c # r.consent
      <4>1. grants'[c] = grants[c] /\ About(c)' = About(c)
        BY <1>2, <2>3, <2>4, <3>1, <3>2
      <4> QED
        BY <1>1, <3>1, <4>1 DEF RevokedOnce
    <3>3. CASE c = r.consent /\ r.kind = "REVOKE"
      <4>1. grants'[c].status = "REVOKED" /\ About(c)' = About(c) \cup {d}
        BY <1>2, <2>4, <3>1, <3>3
      <4>2. d.type = "CONSENT_REVOKED"
        BY <2>2, <3>3
      <4> QED
        BY <2>6, <3>3, <4>1, <4>2
    <3>4. CASE c = r.consent /\ r.kind = "ACCESS"
      <4>1. grants'[c].status = "ACTIVE" /\ About(c)' = About(c) \cup {d}
        BY <1>2, <2>3, <2>4, <3>1, <3>4
      <4>2. d.type = "DATA_ACCESS_ALLOWED"
        BY <2>2, <3>4
      <4> QED
        BY <2>6, <3>4, <4>1, <4>2
    <3> QED
      BY <1>4, <3>2, <3>3, <3>4
  <2>8. RevokedOnce'
    BY <2>7 DEF RevokedOnce
  <2> QED
    BY <2>5, <2>8
<1>5. CASE ~(r.kind \in {"REVOKE", "ACCESS"} /\ HasDeed(r))
  <2>1. \A e \in tx[r].draft : e.type \notin {"CONSENT_REVOKED", "DATA_ACCESS_ALLOWED"}
    <3>1. a.type = "AUDIT"
      BY <1>3 DEF IsAudit
    <3>2. CASE HasDeed(r)
      <4>1. r.kind = "ISSUE"
        BY <1>5, <3>2 DEF HasDeed
      <4>2. PICK d \in tx[r].draft : IsDeed(r, d) /\ tx[r].draft = {d, a}
        BY <1>3, <3>2
      <4> QED
        BY <3>1, <4>1, <4>2 DEF IsDeed, Deed
    <3>3. CASE ~HasDeed(r)
      BY <1>3, <3>1, <3>3
    <3> QED
      BY <3>2, <3>3
  <2>2. \A c \in Consents : About(c)' = About(c)
    BY <1>1, <2>1 DEF About
  <2>3. OwnersHear'
    BY <1>1, <1>2, <2>2 DEF OwnersHear
  <2>4. \A c \in DOMAIN grants : grants'[c].status = grants[c].status
    <3>1. CASE r.kind = "REVOKE"
      <4>1. tx[r].locked = r.consent /\ r.consent \in DOMAIN grants
            /\ grants[r.consent].status = "REVOKED"
        BY <1>1, <1>5, <3>1 DEF Lock, HasDeed, Rowed
      <4> QED
        BY <1>2, <3>1, <4>1
    <3>2. CASE r.kind # "REVOKE"
      BY <1>2, <3>2
    <3> QED
      BY <3>1, <3>2
  <2>5. ASSUME NEW c \in DOMAIN grants'
        PROVE  /\ grants'[c].status = "ACTIVE" => \A e \in About(c)' : e.type # "CONSENT_REVOKED"
               /\ grants'[c].status = "REVOKED" =>
                     \E e \in About(c)' :
                        /\ e.type = "CONSENT_REVOKED"
                        /\ \A b \in About(c)' :
                              b = e \/ (b.type = "DATA_ACCESS_ALLOWED" /\ b.seq < e.seq)
    <3>1. c \in Consents /\ About(c)' = About(c)
      BY <1>2, <2>2
    <3>2. CASE c \in DOMAIN grants
      BY <1>1, <2>4, <3>1, <3>2 DEF RevokedOnce
    <3>3. CASE c \notin DOMAIN grants
      <4>1. About(c) = {} /\ grants'[c].status = "ACTIVE"
        BY <1>1, <1>2, <3>1, <3>3 DEF OwnersHear
      <4> QED
        BY <3>1, <4>1
    <3> QED
      BY <3>2, <3>3
  <2>6. RevokedOnce'
    BY <2>5 DEF RevokedOnce
  <2> QED
    BY <2>3, <2>6
<1> QED
  BY <1>4, <1>5

LEMMA CommitStep ==
  ASSUME IInv, NEW r \in DOMAIN tx, Commit(r)
  PROVE  IInv'
<1>1. /\ Rowed /\ GrantLocks /\ DOMAIN tx' = DOMAIN tx
      /\ \A q \in DOMAIN tx : q # r => tx'[q] = tx[q]
      /\ Fields(tx'[r]) /\ tx'[r].pc = "DONE" /\ tx'[r].todo = << >> /\ tx'[r].draft = {}
      /\ tx'[r].locked = None /\ tx'[r].onTime = TRUE /\ tx'[r].check = None
  BY EndRow DEF IInv, Commit
<1>2. Rowed'
  <2>1. \A q \in DOMAIN tx : /\ Fields(tx'[q]) /\ tx'[q].pc \in States
                             /\ tx'[q].draft \subseteq Events
                             /\ tx'[q].locked \in Consents \cup {None}
                             /\ tx'[q].onTime \in BOOLEAN
    BY <1>1 DEF Rowed, States
  <2>2. \A q \in DOMAIN tx : Fields(tx[q])'
    BY <1>1, <2>1 DEF Fields
  <2>3. DOMAIN tx' \in Workloads
    BY <1>1 DEF Rowed
  <2> QED
    BY <1>1, <2>1, <2>2, <2>3, CommitGrants, CommitHeads DEF Rowed
<1>3. GrantLocks'
  BY <1>1 DEF GrantLocks
<1>4. Lock(r)' /\ Progress(r)' /\ Check(r)'
  BY <1>1 DEF Lock, Progress, Check
<1>5. \A q \in DOMAIN tx : Lock(q)' /\ Progress(q)' /\ Check(q)'
  BY <1>4, CommitOthers
<1> QED
  BY <1>1, <1>2, <1>3, <1>5, CommitHeads, CommitDrafts, CommitRecords, CommitAbout DEF IInv

-----------------------------------------------------------------------------
(* The invariant.                                                          *)

LEMMA Initially ==
  ASSUME Init
  PROVE  IInv
<1>1. PICK workload \in Workloads : tx = [r \in workload |-> Idle]
  BY DEF Init
<1>2. grants = << >> /\ heads = << >> /\ chain = {} /\ DOMAIN grants = {} /\ DOMAIN heads = {}
  BY DEF Init
<1>3. DOMAIN tx = workload /\ \A r \in DOMAIN tx : tx[r] = Idle
  BY <1>1
<1>4. /\ Fields(Idle) /\ Idle.pc = "NEW" /\ Idle.todo = << >> /\ Idle.draft = {}
      /\ Idle.locked = None /\ Idle.onTime = TRUE /\ Idle.check = None
  BY DEF Fields, Idle, Columns
<1>5. Rowed
  <2>1. grants \in [DOMAIN grants -> [tenant: Tenants, status: {"ACTIVE", "REVOKED"}]]
    BY <1>2
  <2>2. heads \in [DOMAIN heads -> Heads]
    BY <1>2
  <2>3. \A r \in DOMAIN tx : /\ Fields(tx[r]) /\ tx[r].pc \in States
                             /\ tx[r].draft \subseteq Events
                             /\ tx[r].locked \in Consents \cup {None}
                             /\ tx[r].onTime \in BOOLEAN
    BY <1>3, <1>4 DEF States
  <2> QED
    BY <1>1, <1>2, <1>3, <2>1, <2>2, <2>3 DEF Rowed
<1>6. Sized /\ Granted /\ OwnersHear /\ RevokedOnce
  BY <1>2 DEF Sized, Granted, OwnersHear, RevokedOnce, About
<1>7. Recorded /\ GrantLocks
  BY <1>2, <1>3, <1>4 DEF Recorded, GrantLocks
<1>8. \A r \in DOMAIN tx : Lock(r) /\ Progress(r) /\ Check(r)
  BY <1>3, <1>4 DEF Lock, Progress, Check
<1>9. \A r \in DOMAIN tx, t \in Tenants : Drafted(r, t) = {}
  BY <1>3, <1>4 DEF Drafted
<1>10. HeadLocks /\ Drafts
  BY <1>5, <1>6, <1>9, DraftNone DEF HeadLocks, HoldsHead, Drafts
<1>11. Chains
  <2>1. \A t \in Tenants : Rows(t) = {} /\ HeadRow(t) = GENESIS
    BY <1>2 DEF Rows, HeadRow
  <2>2. GENESIS \in Heads
    BY DEF GENESIS, Heads
  <2> QED
    BY <2>1, <2>2, SegmentNone DEF Chains
<1> QED
  BY <1>5, <1>6, <1>7, <1>8, <1>10, <1>11 DEF IInv

LEMMA Steady ==
  ASSUME IInv, UNCHANGED <<grants, heads, chain, tx>>
  PROVE  IInv'
<1>1. grants' = grants /\ heads' = heads /\ chain' = chain /\ tx' = tx
  OBVIOUS
<1>2. Rowed' /\ Sized' /\ GrantLocks'
  BY <1>1 DEF IInv, Rowed, Sized, GrantLocks, Fields
<1>3. HeadLocks' /\ Chains' /\ Drafts'
  <2>1. \A r, t : HeadSeen(r, t)' = HeadSeen(r, t) /\ Drafted(r, t)' = Drafted(r, t)
    BY <1>1 DEF HeadSeen, HoldsHead, Drafted
  <2>2. \A t : HeadRow(t)' = HeadRow(t) /\ Rows(t)' = Rows(t)
    BY <1>1 DEF HeadRow, Rows
  <2> QED
    BY <1>1, <2>1, <2>2 DEF IInv, HeadLocks, HoldsHead, Chains, Drafts, Segment
<1>4. Granted' /\ OwnersHear' /\ RevokedOnce' /\ Recorded'
  BY <1>1 DEF IInv, Granted, OwnersHear, RevokedOnce, About, Recorded
<1>5. \A r \in DOMAIN tx : Lock(r)' /\ Progress(r)' /\ Check(r)'
  BY <1>1 DEF IInv, Lock, Progress, Owner, HasDeed, IsDeed, IsAudit, Check, HeadRow
<1> QED
  BY <1>1, <1>2, <1>3, <1>4, <1>5 DEF IInv

LEMMA Inductive == IInv /\ [Next]_vars => IInv'
<1>1. SUFFICES ASSUME IInv, [Next]_vars  PROVE IInv'
  OBVIOUS
<1>2. Rowed /\ \A q \in DOMAIN tx : Progress(q) /\ Check(q)
  BY <1>1 DEF IInv
<1>3. CASE Next
  BY <1>1, <1>2, <1>3, Shapes, EndedStep, StartedStep, LocksGrantStep, MissesStep, AppendsStep,
     VerifiesStep, CommitStep, Steady
<1>4. CASE UNCHANGED vars
  BY <1>1, <1>4, Steady DEF vars
<1> QED
  BY <1>1, <1>3, <1>4

\* The inductive invariant holds: a request's todo, draft and lock are those of
\* its kind; at most one open transaction holds a grant or a tenant's head; rows
\* and drafts are segments of the tenant's chain, one from where the other ends.
THEOREM Invariance == Spec => []IInv
<1>1. Init => IInv
  BY Initially
<1>2. IInv /\ [Next]_vars => IInv'
  BY Inductive
<1> QED
  BY <1>1, <1>2, PTL DEF Spec

-----------------------------------------------------------------------------
(* What follows from it.                                                   *)

\* The tables and transactions have the shape that TypeOK says: heads are as
\* long as their chains, and who does not run holds neither draft nor lock.
THEOREM Typing == Spec => []TypeOK
<1>1. IInv => TypeOK
  <2>1. SUFFICES ASSUME IInv  PROVE TypeOK
    OBVIOUS
  <2>2. Rowed /\ Sized /\ Chains
    BY <2>1 DEF IInv
  <2>3. \A t \in DOMAIN heads : heads[t].seq = Len(heads[t].hash)
    BY <2>2 DEF Sized
  <2>4. ASSUME NEW e \in chain
        PROVE  e.tenant \in DOMAIN heads /\ e.seq \in 1 .. heads[e.tenant].seq
    <3>1. e.tenant \in Tenants /\ e \in Rows(e.tenant)
      BY <2>2 DEF Rowed, Events, Rows
    <3>2. Segment(Rows(e.tenant), GENESIS, HeadRow(e.tenant)) /\ GENESIS.seq = 0
      BY <2>2, <3>1 DEF Chains, GENESIS
    <3>3. e.seq \in 1 .. HeadRow(e.tenant).seq
      BY <3>1, <3>2 DEF Segment
    <3> QED
      BY <3>2, <3>3 DEF HeadRow
  <2>5. ASSUME NEW r \in DOMAIN tx
        PROVE  /\ Running(r) \/ tx[r] = [Idle EXCEPT !.pc = tx[r].pc, !.check = tx[r].check]
               /\ tx[r].pc \in {"HEAD", "INSERT"} <=> tx[r].todo # << >>
               /\ tx[r].locked # None => r.kind \in {"REVOKE", "ACCESS"} /\ tx[r].locked = r.consent
    <3>1. /\ Progress(r) /\ Lock(r) /\ Fields(tx[r]) /\ tx[r].pc \in States
      BY <2>1, <2>2 DEF IInv, Rowed
    <3>2. tx[r].pc \in {"HEAD", "INSERT"} <=> tx[r].todo # << >>
      BY <3>1, OneAndTwo DEF Progress, States
    <3>3. tx[r].locked # None => r.kind \in {"REVOKE", "ACCESS"} /\ tx[r].locked = r.consent
      BY <3>1 DEF Progress, Lock, States
    <3>4. Running(r) \/ tx[r] = [Idle EXCEPT !.pc = tx[r].pc, !.check = tx[r].check]
      <4>1. SUFFICES ASSUME ~Running(r)
                     PROVE  tx[r] = [Idle EXCEPT !.pc = tx[r].pc, !.check = tx[r].check]
        OBVIOUS
      <4>2. /\ tx[r].draft = {} /\ tx[r].todo = << >> /\ tx[r].locked = None
            /\ tx[r].onTime = TRUE
        BY <3>1, <4>1 DEF Running, Progress, States
      <4> DEFINE idle == [Idle EXCEPT !.pc = tx[r].pc, !.check = tx[r].check]
      <4>3. Fields(Idle)
        BY DEF Fields, Idle, Columns
      <4>4. /\ Fields(idle) /\ idle.pc = tx[r].pc /\ idle.check = tx[r].check
            /\ idle.draft = Idle.draft /\ idle.todo = Idle.todo /\ idle.locked = Idle.locked
            /\ idle.onTime = Idle.onTime
        BY <4>3 DEF Fields, Columns
      <4>5. Idle.draft = {} /\ Idle.todo = << >> /\ Idle.locked = None /\ Idle.onTime = TRUE
        BY DEF Idle
      <4> HIDE DEF idle
      <4>6. \A f \in Columns : tx[r][f] = idle[f]
        BY <4>2, <4>4, <4>5 DEF Columns
      <4>7. tx[r] = idle
        BY <3>1, <4>4, <4>6 DEF Fields
      <4> QED
        BY <4>7 DEF idle
    <3> QED
      BY <3>2, <3>3, <3>4
  <2> QED
    BY <2>2, <2>3, <2>4, <2>5 DEF TypeOK, Rowed
<1> QED
  BY <1>1, Invariance, PTL

\* Every committed chain verifies and ends in its head, no two events of a
\* tenant that are committed or flushed share a number, and an integrity check
\* that calls a chain invalid was overtaken by a commit.
THEOREM Verification == Spec => []ChainsVerify
<1>1. IInv => ChainsVerify
  <2>1. SUFFICES ASSUME IInv  PROVE ChainsVerify
    OBVIOUS
  <2>2. Rowed /\ Chains /\ Drafts /\ HeadLocks
    BY <2>1 DEF IInv
  <2>3. Gapless
    <3>1. SUFFICES ASSUME NEW t \in Tenants
                   PROVE  Linked(Rows(t)) /\ HeadAgrees(t, Cardinality(Rows(t)), LastHash(Rows(t)))
      BY DEF Gapless
    <3>2. HeadRow(t) \in Heads /\ Segment(Rows(t), GENESIS, HeadRow(t))
      BY <2>2, HeadRowType DEF Chains
    <3>3. Linked(Rows(t)) /\ Cardinality(Rows(t)) = HeadRow(t).seq /\ LastHash(Rows(t)) = HeadRow(t).hash
      BY <2>2, <3>2, SegmentLinked DEF Rows, Rowed
    <3>4. t \in DOMAIN heads => heads[t] = HeadRow(t) /\ heads[t] \in Heads
      BY <2>2 DEF HeadRow, Rowed
    <3> QED
      BY <3>3, <3>4 DEF HeadAgrees, Heads
  <2>4. NoCollision
    <3> DEFINE flushed == chain \cup UNION {tx[r].draft : r \in DOMAIN tx}
    <3>1. SUFFICES ASSUME NEW d \in flushed, NEW e \in flushed,
                          d.tenant = e.tenant, d.seq = e.seq
                   PROVE  d = e
      BY DEF NoCollision
    <3> DEFINE t == d.tenant
    <3>2. t \in Tenants
      BY <2>2 DEF Rowed, Events
    <3>3. HeadRow(t) \in Heads /\ HeadRow(t).seq \in Nat /\ GENESIS.seq = 0
          /\ Segment(Rows(t), GENESIS, HeadRow(t))
      BY <2>2, <3>2, HeadRowType DEF Chains, Heads, GENESIS
    <3>4. \A x \in Rows(t) : x.seq \in 1 .. HeadRow(t).seq
      BY <3>3 DEF Segment
    <3>5. ASSUME NEW q \in DOMAIN tx
          PROVE  /\ HeadSeen(q, t).seq \in Nat /\ Segment(Drafted(q, t), HeadRow(t), HeadSeen(q, t))
                 /\ \A x \in Drafted(q, t) : x.seq \in HeadRow(t).seq + 1 .. HeadSeen(q, t).seq
      <4>1. HeadSeen(q, t).seq \in Nat /\ Segment(Drafted(q, t), HeadRow(t), HeadSeen(q, t))
        BY <2>2, <3>2, DraftSegment DEF Heads
      <4> QED
        BY <4>1 DEF Segment
    <3>6. /\ d \in Rows(t) \/ \E q \in DOMAIN tx : d \in Drafted(q, t)
          /\ e \in Rows(t) \/ \E q \in DOMAIN tx : e \in Drafted(q, t)
      BY <3>1 DEF Rows, Drafted
    <3> HIDE DEF t, flushed
    <3>7. CASE d \in Rows(t) /\ e \in Rows(t)
      BY <3>1, <3>3, <3>7 DEF Segment
    <3>8. CASE d \in Rows(t) /\ \E q \in DOMAIN tx : e \in Drafted(q, t)
      BY <3>1, <3>3, <3>4, <3>5, <3>8
    <3>9. CASE e \in Rows(t) /\ \E q \in DOMAIN tx : d \in Drafted(q, t)
      BY <3>1, <3>3, <3>4, <3>5, <3>9
    <3>10. CASE /\ \E q \in DOMAIN tx : d \in Drafted(q, t)
                /\ \E q \in DOMAIN tx : e \in Drafted(q, t)
      <4>1. PICK p \in DOMAIN tx : d \in Drafted(p, t)
        BY <3>10
      <4>2. PICK q \in DOMAIN tx : e \in Drafted(q, t)
        BY <3>10
      <4>3. p = q
        BY <2>2, <3>2, <4>1, <4>2 DEF HeadLocks, HoldsHead
      <4> QED
        BY <3>1, <3>5, <4>1, <4>2, <4>3 DEF Segment
    <3> QED
      BY <3>6, <3>7, <3>8, <3>9, <3>10
  <2>5. AccusationsAreOvertaken
    <3>1. SUFFICES ASSUME NEW r \in DOMAIN tx, tx[r].check # None
                   PROVE  /\ tx[r].check.linked
                          /\ tx[r].check.valid \/ tx[r].check.seen > tx[r].check.count
      BY DEF AccusationsAreOvertaken
    <3>2. /\ tx[r].check.linked = TRUE
          /\ tx[r].check.valid = TRUE \/ tx[r].check.seen > tx[r].check.count
      BY <2>1, <3>1 DEF IInv, Check
    <3> QED
      BY <3>2
  <2> QED
    BY <2>3, <2>4, <2>5 DEF ChainsVerify
<1> QED
  BY <1>1, Invariance, PTL

\* A grant is revoked exactly if its tenant's chain says so, once, and no access
\* was allowed after that event.
THEOREM Revocation == Spec => []AccessEndsWithRevocation
<1>1. IInv => AccessEndsWithRevocation
  <2>1. SUFFICES ASSUME IInv  PROVE AccessEndsWithRevocation
    OBVIOUS
  <2>2. Rowed /\ OwnersHear /\ RevokedOnce
    BY <2>1 DEF IInv
  <2>3. SUFFICES ASSUME NEW c \in DOMAIN grants
                 PROVE  LET revocations == {e \in chain : e.consent = c /\ e.type = "CONSENT_REVOKED"}
                        IN  /\ Cardinality(revocations) = IF grants[c].status = "REVOKED" THEN 1 ELSE 0
                            /\ \A e \in revocations, a \in chain :
                                  a.consent = c /\ a.type = "DATA_ACCESS_ALLOWED" =>
                                      a.tenant = e.tenant /\ a.seq < e.seq
    BY DEF AccessEndsWithRevocation
  <2> DEFINE revocations == {e \in chain : e.consent = c /\ e.type = "CONSENT_REVOKED"}
  <2>4. c \in Consents /\ grants[c].status \in {"ACTIVE", "REVOKED"}
        /\ revocations = {e \in About(c) : e.type = "CONSENT_REVOKED"}
    BY <2>2 DEF Rowed, About
  <2>5. CASE grants[c].status = "ACTIVE"
    <3>1. revocations = {}
      BY <2>2, <2>4, <2>5 DEF RevokedOnce
    <3> QED
      BY <2>5, <3>1, FS_EmptySet
  <2>6. CASE grants[c].status = "REVOKED"
    <3>1. PICK e \in About(c) :
             /\ e.type = "CONSENT_REVOKED"
             /\ \A a \in About(c) : a = e \/ (a.type = "DATA_ACCESS_ALLOWED" /\ a.seq < e.seq)
      BY <2>2, <2>6 DEF RevokedOnce
    <3>2. revocations = {e}
      BY <2>4, <3>1
    <3>3. Cardinality(revocations) = 1
      BY <3>2, FS_Singleton
    <3>4. ASSUME NEW a \in chain, a.consent = c, a.type = "DATA_ACCESS_ALLOWED"
          PROVE  a.tenant = e.tenant /\ a.seq < e.seq
      BY <2>2, <2>4, <3>1, <3>4 DEF OwnersHear, About
    <3> QED
      BY <2>6, <3>2, <3>3, <3>4
  <2> QED
    BY <2>4, <2>5, <2>6
<1> QED
  BY <1>1, Invariance, PTL

\* What a request did is recorded as a whole, with its audit event where the
\* actor belongs, and nothing is of one that was refused or has not committed.
THEOREM Recording == Spec => []RecordedTogether
<1>1. IInv => RecordedTogether
  <2>1. SUFFICES ASSUME IInv  PROVE RecordedTogether
    OBVIOUS
  <2>2. Rowed /\ Recorded
    BY <2>1 DEF IInv
  <2>3. SUFFICES ASSUME NEW r \in DOMAIN tx
                 PROVE  LET mine == {e \in chain : e.id = r.id}
                        IN  IF tx[r].pc = "DONE" /\ r.kind # "VERIFY"
                            THEN /\ \E e \in mine : e.type = "AUDIT" /\ e.tenant = r.tenant
                                 /\ r.kind \in {"ISSUE", "ACCESS"} => Cardinality(mine) = 2
                            ELSE mine = {}
    BY DEF RecordedTogether
  <2>4. CASE tx[r].pc = "DONE" /\ r.kind # "VERIFY"
    <3>1. PICK a \in chain :
             /\ a.id = r.id /\ a.type = "AUDIT" /\ a.tenant = r.tenant
             /\ r.kind \in {"ISSUE", "ACCESS"} =>
                   \E d \in chain : d.type # "AUDIT" /\ {e \in chain : e.id = r.id} = {d, a}
      BY <2>2, <2>4 DEF Recorded
    <3>2. ASSUME r.kind \in {"ISSUE", "ACCESS"}
          PROVE  Cardinality({e \in chain : e.id = r.id}) = 2
      <4>1. PICK d \in chain : d.type # "AUDIT" /\ {e \in chain : e.id = r.id} = {d, a}
        BY <3>1, <3>2
      <4>2. Cardinality({d, a}) = 2
        BY <3>1, <4>1, PairCardinality
      <4> QED
        BY <4>1, <4>2
    <3> QED
      BY <2>4, <3>1, <3>2
  <2>5. CASE ~(tx[r].pc = "DONE" /\ r.kind # "VERIFY")
    <3>1. SUFFICES ASSUME NEW e \in chain, e.id = r.id  PROVE FALSE
      BY <2>5
    <3>2. PICK q \in DOMAIN tx : e.id = q.id /\ tx[q].pc = "DONE" /\ q.kind # "VERIFY"
      BY <2>2, <3>1 DEF Recorded
    <3> QED
      BY <2>2, <2>5, <3>1, <3>2, SameRequest
  <2> QED
    BY <2>4, <2>5
<1> QED
  BY <1>1, Invariance, PTL

=============================================================================
