# Efatà FinTech backend: models, checks and proofs

The backend is a FastAPI service over one relational database (SQLAlchemy;
PostgreSQL in staging and production, SQLite on a developer's machine). It keeps
no state of its own between requests except in its in-memory prototypes: what can
go wrong, goes wrong between transactions. This directory holds TLA+ models of
those transactions, the TLC runs that check them on small instances, and TLAPS
proofs for every value of the constants.

Running things, from this directory:

    tlasany Reconciliation.tla
    tlc -workers 2 -config MCReconciliation.cfg MCReconciliation
    tlapm ReconciliationProofs.tla

## 1. The system

| Component | State | Operations | Interacts with | Hard parts |
|---|---|---|---|---|
| Persistent reconciliation (`persistent_reconciliation.py`, `routers/reconciliation_persistent.py`) | commission ledger, settlement inbox, links, reviews, outbox | register, transition, reconcile, claim reviews, resolve review | decision policy, outbox, audit chain | redelivery, competing operators, one transaction that writes five tables, unique keys |
| Settlement decision (`_decide`, `reconciliation_engine._decide`) | none | choose a commission, or a review | the two reconciliation services | row order, ties, two implementations of one policy |
| Outbox delivery (`claim_outbox`, `mark_outbox`) | outbox rows: status, attempts, availability, lease | claim, acknowledge | publishers outside the repository | leases, late and lost acknowledgements, crashes, dead letters |
| Consent ledger and audit chain (`persistent_consent_ledger.py`, `audit.py`) | grants, one hash chain per tenant, head rows | issue, revoke, authorize access, append audit event, verify | every audited handler | first head of a tenant, two heads in one transaction, rollback, unsynchronized reads |
| Commission and monitoring lifecycle (`post_closing.py`) | entries and alerts in memory | estimate, transition, evaluate covenants | persistent reconciliation copies the entries | transition tables |
| In-memory engine and API (`reconciliation_engine.py`, `routers/reconciliation.py`) | dictionaries of seen events, reviews | ingest a batch, resolve | consent ledger in memory | a batch that fails half way |
| Representations and grants (`routers/representations.py`, `routers/opportunities.py`, `routers/documents.py`, `access.py`) | representations, opportunities, access grants, documents | request, accept, revoke, create opportunity, upload | audit chain | decisions on rows read without a lock |
| Qualification (`routers/qualification.py`, `optimistic_lock.py`) | opportunity stage and version | qualify | opportunities | compare and swap |
| Marketplace and governance (`routers/marketplace.py`, `routers/risk.py`, `matching.py`, `risk_engine.py`) | requests, matches, assessments, governance reviews, commission events | match, change status, assess, review | audit chain | stale assessments, two writers of a match's status |
| Viability and ERP (`routers/viability.py`, `viability_engine.py`, `erp_adapters.py`) | studies, scenarios, snapshots, connections, jobs | calculate, snapshot, synchronise, apply | external ERP | lost updates, a job whose row is lost, torn snapshots |
| Machine-to-machine API (`m2m/`, `routers/m2m.py`) | audit rows | authenticated reads | introspection service, audit chain | an audit record that fails after the answer |
| Efatà platform client (`integrations/efata/`) | last observations; parser of a stream | requests, event stream | external platform | contract violations in mid-stream |
| Consent ledger in memory, external adapters (`integrations/`) | chain and grants in memory | grant, revoke, fetch | external sources | consent checked before the fetch |
| Identity, observability, shell, schema | none across requests | | | |

Components without a module are listed with their reason in
`PROJECT.json`, and every hazard found while reading the code is there with its
line and the properties that cover it.

What makes the parts correct, in a sentence each:

* a settlement is one case with one outcome, its rows agree and the outcome is
  announced; a commission moves only along its lifecycle and with its own case;
* the two implementations of the policy decide alike, whatever the order of rows;
* a lease is exclusive, published is final, a dead letter is earned and no event
  is left behind;
* a tenant's chain is gapless and linked and ends in its head; what a request did
  is in all its chains or in none; revocation ends access; no request waits forever;
* grants come only from accepted mandates, which they do not exceed, a revocation
  touches its own grants only, and the stage of an opportunity is that of the
  qualification that won its version;
* nobody is matched without consent, contact is released only on a sound
  assessment a review approved, and a match's trail explains its status;
* inputs of a study come from jobs of its own tenant, a connection shows its last
  run, a snapshot shows one calculation, and the equity and the loan of a
  calculation add up;
* a stream is judged as its whole answer would be, and each call is observed once;
* a machine is answered only on record, and can read that record to its end.

## 2. The modules

| Module | Models | How state and actions correspond to the code |
|---|---|---|
| `CommissionLifecycle` | transition table and guards of a commission entry, the advance to RECONCILED | operators on one entry, no state |
| `SettlementPolicy` | the decision policy on a *set* of commissions: candidates, rank, clear winner, ambiguity, automatic settlement | one operator per idea of `_decide` |
| `SettlementCases` | abstract: what a consumer may rely on for each settlement | outcome of each key and whether it is announced |
| `Reconciliation` | the service over ledger, inbox, links, reviews and outbox keys | one action per outcome of each handler; each handler is one transaction that locks what it decides on |
| `ReconciliationProofs` | theorems of `Reconciliation` | |
| `SettlementDecision` | the two implementations of `_decide`, on *lists* of rows | the step is a call on arbitrary rows; the state is its arguments and results; candidates are positions, sorted by rank and then in the order they were read, as `list.sort` leaves them |
| `SettlementDecisionProofs` | theorems of `SettlementDecision` | |
| `Outbox` | claims, leases and acknowledgements | rows and the claims publishers hold; timestamps are countdowns |
| `OutboxProofs` | theorems of `Outbox` | |
| `ConsentLedger` | grants, chains and heads under READ COMMITTED with row locks | each request is a process that stops where the code waits for a row or flushes an insert; locks are derived from what a transaction holds |
| `ConsentLedgerProofs` | theorems of `ConsentLedger` | |
| `Representation` | representations, opportunities, grants, documents and qualifications under READ COMMITTED | a handler that decides on unlocked rows is two actions, what it reads and checks and what it commits; a revocation and a compare and swap stop in between, holding the rows they updated; `Abort` is any failure |
| `RepresentationProofs` | theorems of `Representation` | |
| `CreditPolicy` | `evaluate_match` and `evaluate_risk` | operators on a demand, a product and a dossier; amounts are whole, declared ratios hundredths |
| `Governance` | registrations, products, demands, matches, assessments and reviews, by the two routers that write a match's status | a handler that decides on unlocked rows is two actions, what it reads and checks (`Begin...`) and what it commits (`Commit...`); an attribute set to the value that was read is not part of the UPDATE (`Move`), as in SQLAlchemy; `trail` is the events and reviews of a match |
| `GovernanceProofs` | theorems of `Governance` | |
| `Viability` | studies, scenarios, flows, snapshots, ERP connections and jobs | as above; an input is a field and the job that brought its value; a result is what it was calculated from; a run of a synchronisation holds the row of its connection, which it has flushed, while it calls the ERP |
| `CashFlow` | the arithmetic of `calculate` and the shocks of `sensitivity_matrix` | one step per month of the loop, one for the report |
| `ViabilityProofs` | theorems of `Viability` and of `CashFlow` | |
| `EventStream` | `iter_sse_events` and its client | one action per line, by kind; `phase` is where the generator stands, `calls` the history of how calls ended; `TerminalContract` and `Events` read a whole answer at once, which is what the steps are compared with |
| `MachineAccess` | `require_m2m_capability`, the reads, the audit middleware and its pages | a request goes from unasked to identified, admitted, decided, stamped and answered; a client that follows the cursors is the history variable `walk` |
| `MachineAccessProofs` | theorems of `MachineAccess` and of `EventStream` | |
| `MC*` | instances for TLC | |

`Reconciliation` is the composition of the policy, the lifecycle and the tables;
it implements `SettlementCases` (`EachSettlementIsOneCase` is that refinement,
an INSTANCE with a mapping from the rows of a case to its outcome). Outbox rows
are inserted by `Reconciliation` and never deleted, so there the outbox is the
set of inserted keys; what happens to a row afterwards concerns no other table
and is `Outbox`.

Abstractions that hold throughout. An identifier is a model value; an event key
is the tuple of its parts; a hash is an injective function of what is hashed;
amounts are cents; JSON metadata, notes and wording are left out. A refused
request changes nothing and is the negation of a guard, except where the refusal
is what a property is about (`AutoReconcileFails`, `HeadConflict`,
`GrantMissing`). External parts (publishers, clock, the lock manager of the
database) are marked external in the map and known only by the calls they make
or answer.

`autoflush` is off (`db.py`), so nothing a handler sets is seen by its own later
reads before it flushes, and no row is locked by a write before the flush; that
is why the handlers of `Governance` and `Viability` read in one action and write
in another. Runs whose properties hold only of requests that do not overlap have a
variable `serial`, chosen at the start: TLC explores both kinds of behaviour and
the property says which it is about.

Why a reconciliation handler is one atomic action: each runs in one session,
locks the rows it decides on with FOR UPDATE before it reads them, inserts the
inbox row under a unique key first, and commits once. The exceptions to
atomicity that remain are waits and deadlocks between transactions, which abort
one of them as a whole; they are planned as a module of their own. In
`ConsentLedger` exactly these waits are the subject, so the transaction is not
atomic there.

## 3. The runs

Passing runs:

| Run | Instance | What it shows |
|---|---|---|
| `reconciliation` | 2 commissions, estimates inside and outside the tolerance, two feeds that use one event id, 2 operators | `EachSettlementIsOneCase`, `CaseFilesAgree`, `OutboxTellsOutcomes`, `ReviewsAreDecidedOnceByTheirOwner`, `ContractBeforeTriggerable`, `LedgerNeverReopens`, `LedgerMovesWithItsCase`, `TypeOK` |
| `decision` | every list of up to two rows, all nine statuses, two matches; every list of three rows that differ in what the rank looks at | `PersistentFollowsPolicy`: sorting and comparing the first two rows is the policy stated on sets; `EnginesAgree`: service and prototype decide alike |
| `outbox` | 2 events, 2 publishers that crash; an initial choice makes them acknowledge once and in time, or late and repeatedly | `LeaseIsExclusive`, `PublishedIsFinal` (of the first kind), `DeadLetterIsEarned`, `EveryEventIsHandled` (of both), `TypeOK` |
| `consent_ledger` | an initial choice of the workload: a consent issued, revoked twice and accessed from another tenant; two tenants that access each other's consents; the first appends of a tenant beside an integrity check; an access outside the purpose | `ChainsVerify` (gapless, no sequence twice, and an integrity check that finds fault was overtaken by a commit), `AccessEndsWithRevocation`, `RecordedTogether`, `NoRequestWaitsForever`, `TypeOK` |
| `representation` | two handlers at a time, overlapping or (an initial choice) one after the other; the originator's mandate uploads or only looks, the platform has one of its own; 2 opportunities, 3 versions, 1 document | `GrantsAreDerived`, `RevocationIsConfined`, `StageFollowsTheCases`, `OutsidersActOnGrants`, `GrantsMirrorTheirSource` (one request at a time), `TypeOK` |
| `governance` | two handlers at a time, overlapping or not; a demand with consent and one without, a product that fits it wholly and one in neither type nor ticket; a sound dossier and one with a gap; two assessments, trails of two | `MatchesAreEntitled`, `ReleasesAreBacked`, `TrailExplainsStatus` (the last entry's status without overlaps), `ReleasesAreCurrent` (without overlaps), `TypeOK` |
| `viability` | two handlers, overlapping or not; a study and a connection of one tenant or of two; three jobs, one scenario, one snapshot, two fields | `InputsAreAccountedFor` (no field lost, without overlaps), `ConnectionTellsItsLastRun`, `SnapshotsShowOneCalculation` (without overlaps) |
| `cashflow` | every loan over 2 and 4 months with 4 curves, 4 shares, 3 graces, 3 amortisations, rates of 0 and 1, with and without equity; derived totals, schedules, four shocks | `RequiredEquityIsTheLeast`, `FinancingAddsUp` |
| `stream` | every answer of up to three good blocks, and every one that begins with a bad block, with and without the last blank line; at most 2 events of 4 bytes, 2 calls, 1 observation kept | `StreamsAreJudgedWhole`, `ObservedOnce` |
| `machine` | three requests of four kinds (a walk, a capability the credential lacks, a tenant it does not name, an expiring one with a garbled cursor); an audit with two rows of one moment and a foreign row; pages of one | `EveryAnswerIsOnRecord`, `WalksMissNothing` |

Runs that end in a violation, each the disagreement of the code with a sentence
of the repository (quoted in `PROJECT.json`):

| Run | What TLC finds |
|---|---|
| `revocation` | an opportunity created from a representation that was read just before its revocation committed keeps its originator's grant active |
| `release` | a review may cite the assessment of another demand, and then releases a match whose own demand was never assessed, or is blocked |

Other disagreements that show in the models but have no run: a rejected review
moves a commission to DISPUTED from statuses the transition table does not allow
it from (`RejectVariance`); two sources with one event id meet on the outbox key
once a commission was disputed and re-qualified, and the second settlement then
fails on every delivery (`AutoReconcileFails`); a commission reconciled by the
transition endpoint is announced to nobody (`TransitionCommission`); publishers that
crash let an event be claimed past `MAX_OUTBOX_ATTEMPTS`, since only an acknowledged
failure looks at the bound (`Claim`); the expected amount of an ambiguous review is
that of the row the query returned first (`DecidePersistent`); a commit between the
two statements of `verify_chain` makes an honest chain invalid (`ReadHead`, which is
why `ChainsVerify` speaks of checks that were overtaken).

Bounds and why they suffice. Two commissions are what ambiguity, a wrong link or
a second settlement of the other entry need; two settlements what a key collision
and a race need; no invoice reference, since contract and match already give every
rank the handlers branch on (references are varied in `decision`); two operators what ownership needs; `ReviewClaimLimit` 1, so
that a claim leaves a review for another operator. Tolerance 1 with amounts 10, 11 and 13 puts a row on,
inside and outside the boundary. A lease of two ticks and a retry of one let a
claim be renewed before, at and after expiry; `MaxAttempts` 2 lets an event be
retried once before it is given up, and `CountAttempt` keeps the count exactly up to one past
the bound, which is all the code asks. In `ConsentLedger` a request runs to its
commit once and may crash, lose a race or a deadlock any number of times before;
a chain has at most five events. In `Representation` every hazard is a pair of
requests, so two handlers meet all of them; they are reused, so sequences of any
length are explored. Two representations and two opportunities tell a
revocation's own grants from others, three versions let a stale If-Match lose, and
a later verdict replace an earlier one; tenants with analysts are the platform and
the originator, so that one of them has no right to qualify. A mandate that creates
and yields no grant is not in the instance; the theorems cover it. In `Governance` one handler
overlaps another in every pair of steps; two products make a review of one match
and an approval used for the other possible, two assessments a newer one that
contradicts, and trails of two a status and what was there before it. Deeper
sequences differ in nothing the guards look at: they ask for the latest
assessment, for the presence of a review and for one status. In `Viability` three
jobs let one be queued beside a run, or applied beside another; one scenario is
enough, because scenarios share only the inputs; one snapshot, because snapshots
are never read. In `CashFlow` amounts are chosen so that every division is exact,
monthly rates are whole and rounding plays no part; four months hold a curve, a
grace and an amortisation that end in every order, two months cut them off. In
`EventStream` a limit of two events and four bytes is exceeded by answers of three
blocks; what a bad block does does not depend on what follows it. In
`MachineAccess` pages of one over rows of one moment put a cursor on each
boundary, and identifiers below, between and above the rows' let a new row
precede or follow the cursor.

Deadlock is only left unchecked where a finite set of requests is done (`Reconciliation`,
`SettlementDecision`, `ConsentLedger`, where `NoRequestWaitsForever` says instead
that every request ends; `Representation`, whose revoked representations are final;
`Governance`, `Viability`, `CashFlow`, `EventStream` and `MachineAccess`, whose bounds
are used up or whose calls end);
`Outbox` is checked for it.

Fairness. `Outbox`: time passes, publishers keep polling (a claim of an event
that is claimable again and again is made), and a publisher that gets an event
again and again does at some time acknowledge it; without the last, an event can be
claimed without end. `ConsentLedger`: a transaction that can take its next step
again and again takes it; PostgreSQL queues the waiters of a row, and ends one
member of a cycle of waiters after `deadlock_timeout`. No fairness is assumed of users: `Begin`, and what
operators decide, may never happen. The other modules claim no
liveness: users, ERP, platform and identity provider owe nothing.

## 4. The proofs

All theorems hold for every value of the constants that satisfies the named
assumptions of the modules:

* `Reconciliation`, `Outbox`, `Governance`: sentinels are no ids, amounts are
  natural numbers, settlements are well formed; ticks and bounds are natural; what the
  bounds offer are statuses, decisions and pairs;
* `SettlementDecision`: amounts are whole (cents), and the tolerance is not negative,
  since the engine refuses a negative one and the service only uses the default;
* `ConsentLedger`: requests have ids of their own and are of the modelled kinds, a
  consent id is issued once (it is a fresh uuid), and "no consent" is none;
* `Viability`: scenarios are of studies, "no study" is none, overrides and patches are
  sets of input fields;
* `CashFlow`: months are positive, nothing that is counted or weighed is negative, and
  the instalments of a loan are whole;
* `MachineAccess`: the audit rows of the past are finitely many, of other requests and
  with keys of their own; a client that walks asks for one tenant and period with the
  audit capability; "no cursor" is none;
* `EventStream`: an answer is a finite sequence of lines, the lines counted have sizes,
  an event line has a name, limits are natural and at least one observation is kept (100).

`ReconciliationProofs`:

| Theorem | States |
|---|---|
| `TypeCorrect` | `TypeOK`: tables and the keys between them |
| `ContractAlwaysBeforeTriggerable` | `ContractBeforeTriggerable` |
| `CaseFilesAlwaysAgree` | `CaseFilesAgree` |
| `OutboxAlwaysTells` | `OutboxTellsOutcomes` |
| `ReviewsDecidedOnce` | `ReviewsAreDecidedOnceByTheirOwner` |
| `LedgerStaysClosed` | `LedgerNeverReopens` |
| `LedgerMovesWithCase` | `LedgerMovesWithItsCase` |
| `Refinement` | `EachSettlementIsOneCase`: the service implements `SettlementCases` |

The inductive invariant is the conjunction of the four state predicates. Each is
needed for another: the refinement reads the outcome of a case off its link and
review, so a step of a decision is a step of the abstract case only if link and
review agree (`CaseFilesAgree`), and the outcome is announced in the same step
only if the key was not in the outbox before (`OutboxTellsOutcomes`);
`CaseFilesAgree` needs the foreign keys of `TypeOK`. `ContractBeforeTriggerable`
is inductive with the table: the two edges that ask for a contract are the only
ones into the triggerable statuses from outside them, except DISPUTED, which leads
back to TRIGGER_PENDING and thus through the check again. That a commission moves
only with its own case (`LedgerMovesWithCase`) uses all of them: a decision of a
review moves the commission its link names and changes the link, and its event was
not in the outbox before; an automatic decision writes a key of the inbox that was
free. Row-level lemmas (a transition keeps an
entry an entry; a decision keeps a review a review) carry the typing of the
tables.

`OutboxProofs`: `TypeCorrect` and `DeadLettersAreEarned` for any publishers;
`LeasesAreExclusive` and `PublishingIsFinal` for publishers that acknowledge once
and within their lease (`careful`; with any others both are false, since
`mark_outbox` looks at neither the lease nor the status). Exclusiveness is inductive because a claim's countdown
equals the row's: both are set by the claim and elapse together, and a row is
claimable only when its own has reached zero, hence when nobody's is above it.

`RepresentationProofs`:

| Theorem | States |
|---|---|
| `Typing` | `TypeOK`: rows, requests and the keys between them |
| `Derivation` | `GrantsAreDerived` |
| `Confinement` | `RevocationIsConfined` |
| `Qualification` | `StageFollowsTheCases` |
| `OutsideWork` | `OutsidersActOnGrants` |
| `SerialMirror` | `GrantsMirrorTheirSource` |

None of the five properties is inductive: each depends on what a request in
flight once read. The strengthenings say what stays true of it although the rows
may have changed since: a mandate read as ACTIVE may be revoked by now but is
never PENDING again (`Accepted`), rows locked by a revocation are active grants of
its own (`RowsAreItsOwn`), the version compared is still current because its row is
locked (`SwapsAreExclusive`), the permission checked is held by a grant that may be
revoked but is never deleted (`WorkersHold`), and, without overlaps, nothing read is
stale (`NothingIsStale`). `MandatesAreFixed` (mandates never change hands or
content) and `RequestsGo` (what may become of a request in a step) carry all of
them.

`GovernanceProofs`:

| Theorem | States |
|---|---|
| `Typing` | `TypeOK` |
| `Backing` | `ReleasesAreBacked` |
| `Explanation` | `TrailExplainsStatus` |
| `Currency` | `ReleasesAreCurrent` |
| `Entitlement` | `MatchesAreEntitled` |

They hold for any number of handlers although no row is locked, because what justified
a request when it was read is never undone (`Grows`): an assessment keeps its
demand and dossier and stays approved, a trail only gets longer. So `Justified` says of a
request in flight only what `Grows` keeps, and `ApprovalsAreReviews` leads an agent,
who sees no more than an approved assessment, back to the review that approved it. That the code's
tests of a decision (no gate, no gap) leave a sound dossier is `ClearIsSound`.
`Currency` and the second half of `Explanation` are about serial requests, where
what was read is still so (`UpToDate`). `HasLatest`, that the assessments of a demand
are none or have a latest one, is part of the invariant: it makes the `CHOOSE` in
`Latest` a choice of something. `Entitlement` has an invariant of its own
(`Entitled`): what entitles a match, consent, an active product and the registrations,
is never taken back, so it still holds when a run of matching commits what it decided
on (`Grounded`); and a product in neither type nor ticket scores 55 points at most,
where eligibility takes 60 (`EligibleFits`).

`ConsentLedgerProofs`:

| Theorem | States |
|---|---|
| `Invariance` | the inductive invariant `IInv` |
| `Typing` | `TypeOK` |
| `Verification` | `ChainsVerify` |
| `Revocation` | `AccessEndsWithRevocation` |
| `Recording` | `RecordedTogether` |

The idea is that a chain is a *segment*: rows without gap or double that lead from one
head to another (`Segment`). The committed rows of a tenant are a segment from GENESIS to
its head row (`Chains`); what a transaction has flushed and not committed is a segment
from that head row to the head the transaction sees (`Drafts`); and at most one
transaction holds a head (`HeadLocks`), so that when it commits, the two segments
join (`SegmentJoin`) and nobody else's draft is disturbed. A rollback drops a draft,
a request that is sent again starts without one. An integrity check reads
rows that are a prefix of the chain, of which it knows the hash up to where it has read
(`Check`): if it then reads a head that does not fit, a commit came in between. A
request's own rows are exactly what its place in the handler says (`Progress`), which is
why they are committed together (`Recorded`); a grant that is locked is as it was
found (`Lock`, `GrantLocks`), so an access commits before the revocation or not at all.

`ViabilityProofs`, about `Viability`:

| Theorem | States |
|---|---|
| `Invariance` | the inductive invariant `IInv` |
| `Accounting` | `InputsAreAccountedFor` |
| `LastRun` | `ConnectionTellsItsLastRun` |
| `OneCalculation` | `SnapshotsShowOneCalculation` |

Again a request in flight decides on what it has read (`RequestFits`), and what it has read
stays true because rows are not deleted, jobs only become applied and a calculation is
never undone (`Grows`): the origins of the inputs an application merges are still
jobs of the study when it commits, whoever applied another job meanwhile. What needs
equality with the tables, that no field is lost and that a snapshot shows one calculation,
holds without overlaps, where nobody else writes between (`OneAtATime`).

`ViabilityProofs`, about `CashFlow`:

| Theorem | States |
|---|---|
| `RequiredEquity` | `RequiredEquityIsTheLeast` |
| `Financing` | `FinancingAddsUp` |

for any plans, any number of months. Sums and powers are recursive functions; that they
have a first value and a next one (`TotalOneMore`, `GrowthGrows`), and that a sum is
positive, whole or scaled, is proved by induction, for which a set of naturals
stands in for the predicate: it has a least element (`LeastNatural`, from the
library's theorem that `<` is well founded), so a set with 0 and every successor has all
(`StepByStep`). The inductive invariant `CashInv` says of the months done: the lowest point
is the least sum of the cash before equity (`CashFits`); the debt is what was drawn and
not repaid, and if nothing was drawn after month d, n months of instalments have left at most
the cap less n instalments (`LoanFits`); at the discount rate the two present values
differ by the debt and the worth of the equity (`Neutral`: a month multiplies both sides by the
same growth, and interest is what the debt grows by). That instalments are whole is needed
for the repayment in full: with a remainder, cents are left.

`MachineAccessProofs`, about `MachineAccess`:

| Theorem | States |
|---|---|
| `Invariance` | the inductive invariant `IInv` |
| `OnRecord` | `EveryAnswerIsOnRecord` |
| `Walk` | `WalksMissNothing` |

`RecordFits` follows a request from what it was found to be allowed (kept with it while it is
decided) to the row it stamps and commits, which says what it answers (`Tells`). For the
walk: what was there when it began is either already seen or after the cursor
(`WalkFits`), and a page takes the first rows after the cursor, so the rows between the
old cursor and the new one are all on it (`PageShows`). That a page has those rows
is the order of rows by rank: each row has as many rows before it as its place says
(`RankGrows`, `RanksAreTaken`), whatever new rows arrive around the cursor.

`MachineAccessProofs`, about `EventStream`:

| Theorem | States |
|---|---|
| `StreamInvariance` | the inductive invariant `StreamInv` |
| `StreamsJudged` | `StreamsAreJudgedWhole` |
| `CallsObserved` | `ObservedOnce` |

for any answers, limits and number of calls. What a whole answer says is stated by positions:
the stops of its blocks, the lines of a field before a stop, and event k is the one whose
stop has k - 1 event stops before it. `StreamInv` says that the parser's name, lines and bytes
are those of the block it stands in (`NameFits`, `LinesFit`, `BytesFit`), that the events handed
over are the first of the answer (`Begin`) and as many as the stops read, and that the
checks' count, execution and sequence are those of these events (`Passed`). Each kind of line
moves the block by one (`NameGrows`, `LinesGrow`, `BytesGrow`); what is pending at a stop is the event of
that stop (`EventFlushed`), because what `join` makes of the lines depends only on how many are
not blank, the first and the last (`SameWritten`). An event the checks refuse is then one no
whole answer has (`CheckFails`), and at the end of the lines the answer is whole exactly if
the terminal event was seen (`WholeAtEnd`). For the observations (`CallsInv`) a call's place
from the end is the number of observed calls after it.

`SettlementDecisionProofs`:

| Theorem | States |
|---|---|
| `Policy` | `PersistentFollowsPolicy` |
| `Agreement` | `EnginesAgree` |

Sorting is described by places: coming before is a strict total order of positions
(`BeforeOrders`), so the numbers of candidates before each are all different and fill
every place (`PlaceGrows`, `PlacesAreTaken`). Hence the first of the sorted list has the
highest rank, and it ties with the second exactly when another candidate has that rank
(`FirstTwo`), which is the policy's "clear winner" (`SortingDecides`).

Only model-checked is liveness, `EveryEventIsHandled` and `NoRequestWaitsForever`: fairness
and ENABLED are beyond the provers. Every other property that a run checks is stated by a
theorem.

## 5. Not modelled, and what is left

Not modelled, by component (the reasons are also in `PROJECT.json`):

* marketplace: document uploads of a demand, the demo's commission events, lists,
  the simulation and the governance queue: they insert one row nobody decides on,
  or only read;
* viability: rounding, twelfth roots of rates and dates (the arithmetic is exact in
  `CashFlow`), the mapping of ERP records to fields (a run brings some set of
  fields), and the shocks of absorption and funding rate. Read in passing: a
  percentage of 1 is taken for the fraction 1, so 1 means 100 % and 2 means 2 %;
  a price shock does nothing to a VGV that is derived; an absorption shock is
  normalised away; debt left at the horizon is not deducted from the net present
  value, which `FinancingAddsUp` states;
* Efata client: configuration, threads, messages and knowledge uploads beyond
  that each is one request;
* machine API: what the three other reads answer, and the hash chain the audit row
  joins, which is in `ConsentLedger`;
* commission monitoring plans and alerts, the prototype engine's dictionaries and
  its batch endpoint, the consent ledger in memory and the external adapters: state
  of one process, used sequentially in demonstrations and tests;
* token validation and encryption, logging, configuration, migrations and scripts:
  no state across requests, or run once and offline.

What would add most next: a refinement of one reconciliation transaction into its row
locks, to check that waits end; the prototype engine's state.
