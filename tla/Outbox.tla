------------------------------- MODULE Outbox -------------------------------
(***************************************************************************)
(* Delivery of the reconciliation outbox: claim_outbox hands rows to       *)
(* publishers under a lease, mark_outbox records how an attempt ended.     *)
(* The publishers live outside the repository; they are known by the two   *)
(* endpoints they call.  mark_outbox looks at neither the row's status nor *)
(* at who holds its lease, so what a publisher may do with a stale claim   *)
(* is its own business: "careful" says which kind the publishers are.      *)
(*                                                                         *)
(* Timestamps are countdowns in ticks: "wait" to available_at, "lease" to  *)
(* the first instant after lease_until.  A countdown at zero has passed.   *)
(***************************************************************************)
EXTENDS Integers, FiniteSets

CONSTANTS
    Events,        \* outbox events
    Workers,       \* publishers
    LeaseTicks,    \* lease_seconds
    RetryTicks,    \* retry_after_seconds
    MaxAttempts,   \* MAX_OUTBOX_ATTEMPTS
    ClaimLimit     \* rows one claim may take

ASSUME TicksAssumption ==
    /\ LeaseTicks \in Nat
    /\ RetryTicks \in Nat
    /\ MaxAttempts \in Nat \ {0}
    /\ ClaimLimit \in Nat \ {0}

VARIABLES
    rows,          \* the outbox rows inserted so far
    work,          \* per publisher, the claims it still means to acknowledge
    careful        \* publishers acknowledge once, and within their lease

vars == <<rows, work, careful>>

\* "lease" is LeaseTicks + 1 right after a claim: lease_until < now is strict.
LeaseSpan == 0 .. LeaseTicks + 1

\* Only attempt_count >= MAX_OUTBOX_ATTEMPTS is ever asked, so the count is
\* kept exactly up to one past that bound.
CountAttempt(n) == IF n > MaxAttempts THEN n ELSE n + 1

Row == [status: {"PENDING", "PROCESSING", "PUBLISHED", "DEAD_LETTER"},
        attempts: 0 .. MaxAttempts + 1, wait: 0 .. RetryTicks, lease: LeaseSpan]

Elapse(n) == IF n = 0 THEN 0 ELSE n - 1

\* w no longer means to acknowledge e.
Drop(w, e) ==
    [work EXCEPT ![w] = [d \in DOMAIN work[w] \ {e} |-> work[w][d]]]

-----------------------------------------------------------------------------
Init ==
    /\ rows = << >>
    /\ work = [w \in Workers |-> << >>]
    /\ careful \in BOOLEAN

\* A reconciliation transaction commits an event, available at once.
Enqueue(e) ==
    /\ e \notin DOMAIN rows
    /\ rows' = [d \in DOMAIN rows \cup {e} |->
                  IF d = e THEN [status |-> "PENDING", attempts |-> 0, wait |-> 0, lease |-> 0]
                  ELSE rows[d]]
    /\ UNCHANGED <<work, careful>>

\* Mutants: a claim that ignores the lease, and one that never reclaims.
ClaimableLeased(e) ==
    \/ rows[e].status = "PENDING" /\ rows[e].wait = 0
    \/ rows[e].status = "PROCESSING"
ClaimablePending(e) == rows[e].status = "PENDING" /\ rows[e].wait = 0

\* Pending and available, or processing under a lease that has passed.
Claimable(e) ==
    \/ rows[e].status = "PENDING"    /\ rows[e].wait = 0
    \/ rows[e].status = "PROCESSING" /\ rows[e].lease = 0

\* claim_outbox; rows locked by other transactions are skipped.
Claim(w, claimed) ==
    /\ claimed # {}
    /\ Cardinality(claimed) <= ClaimLimit
    /\ \A e \in claimed : Claimable(e)
    /\ rows' = [e \in DOMAIN rows |->
                  IF e \in claimed
                  THEN [rows[e] EXCEPT !.status   = "PROCESSING",
                                       !.attempts = CountAttempt(@),
                                       !.lease    = LeaseTicks + 1]
                  ELSE rows[e]]
    /\ work' = [work EXCEPT ![w] =
                  [e \in DOMAIN work[w] \cup claimed |->
                      IF e \in claimed THEN LeaseTicks + 1 ELSE work[w][e]]]
    /\ UNCHANGED careful

\* The publisher calls /ack for e, perhaps late, and perhaps, if it does not
\* get the answer, again.
Acknowledge(w, e) ==
    /\ e \in DOMAIN work[w]
    /\ careful => work[w][e] > 0
    /\ \/ work' = Drop(w, e)
       \/ ~careful /\ UNCHANGED work
    /\ UNCHANGED careful

\* mark_outbox(published = True), whatever the row's status.
MarkPublished(w, e) ==
    /\ Acknowledge(w, e)
    /\ rows' = [rows EXCEPT ![e].status = "PUBLISHED", ![e].lease = 0]

\* Mutant: gives up one attempt too early.
ExhaustedEarly(row) == row.attempts + 1 >= MaxAttempts
Exhausted(row)      == row.attempts >= MaxAttempts

\* Mutant: each failure waits longer than the one before.
RetryDelayGrowing(row) == RetryTicks * (row.attempts + 1)
RetryDelay(row)        == RetryTicks

\* mark_outbox(published = False): retried later, or dead-lettered.
MarkFailed(w, e) ==
    /\ Acknowledge(w, e)
    /\ rows' = [rows EXCEPT ![e] =
                  IF Exhausted(@)
                  THEN [@ EXCEPT !.status = "DEAD_LETTER", !.wait = 0, !.lease = 0]
                  ELSE [@ EXCEPT !.status = "PENDING", !.wait = RetryDelay(rows[e]), !.lease = 0]]

\* The publisher crashes, or gives a claim up, before the acknowledgement.
Abandon(w, e) ==
    /\ e \in DOMAIN work[w]
    /\ work' = Drop(w, e)
    /\ UNCHANGED <<rows, careful>>

Tick ==
    /\ rows' = [e \in DOMAIN rows |->
                  [rows[e] EXCEPT !.wait = Elapse(@), !.lease = Elapse(@)]]
    /\ work' = [w \in Workers |-> [e \in DOMAIN work[w] |-> Elapse(work[w][e])]]
    /\ UNCHANGED careful

Next ==
    \/ \E e \in Events : Enqueue(e)
    \/ \E w \in Workers, claimed \in SUBSET DOMAIN rows : Claim(w, claimed)
    \/ \E w \in Workers, e \in Events :
          MarkPublished(w, e) \/ MarkFailed(w, e) \/ Abandon(w, e)
    \/ Tick

Spec == Init /\ [][Next]_vars

\* Time passes, publishers keep polling, and a publisher that keeps getting
\* the same event does not crash every time before it acknowledges it.
Fairness ==
    /\ WF_vars(Tick)
    /\ \A e \in Events : SF_vars(\E w \in Workers, claimed \in SUBSET DOMAIN rows :
                                    e \in claimed /\ Claim(w, claimed))
    /\ \A e \in Events : SF_vars(\E w \in Workers : MarkPublished(w, e) \/ MarkFailed(w, e))

FairSpec == Spec /\ Fairness

-----------------------------------------------------------------------------
\* The shape of the rows and of the publishers' claims.
TypeOK ==
    /\ DOMAIN rows \subseteq Events
    /\ rows \in [DOMAIN rows -> Row]
    /\ careful \in BOOLEAN
    /\ DOMAIN work = Workers
    /\ \A w \in Workers :
          DOMAIN work[w] \subseteq DOMAIN rows /\ work[w] \in [DOMAIN work[w] -> LeaseSpan]

\* An event is given up only after MAX_OUTBOX_ATTEMPTS claims, whatever late,
\* repeated or contradictory acknowledgements mark_outbox was given before.
DeadLetterIsEarned ==
    \A e \in DOMAIN rows :
        rows[e].status = "DEAD_LETTER" => rows[e].attempts >= MaxAttempts

\* The row of a claim within its lease is still being processed under that
\* very lease, and no other publisher has a claim within its lease on it.
ClaimsAreExclusive ==
    \A w \in Workers : \A e \in DOMAIN work[w] :
        work[w][e] > 0 =>
            /\ rows[e].status = "PROCESSING"
            /\ rows[e].lease = work[w][e]
            /\ \A v \in Workers \ {w} : e \in DOMAIN work[v] => work[v][e] = 0

\* With publishers that acknowledge once and in time, a lease is exclusive.
LeaseIsExclusive == careful => ClaimsAreExclusive

PublishedStays ==
    \A e \in DOMAIN rows : rows[e].status = "PUBLISHED" => rows'[e].status = "PUBLISHED"

\* With such publishers published is final: no acknowledgement of an older
\* attempt puts the event back into the queue, to be published again.
PublishedIsFinal == [][careful => PublishedStays]_vars

\* No event is left behind: it is published, or given up as a dead letter,
\* although publishers crash with claims in hand.
EveryEventIsHandled ==
    \A e \in Events :
        e \in DOMAIN rows ~> e \in DOMAIN rows /\ rows[e].status \in {"PUBLISHED", "DEAD_LETTER"}

=============================================================================
