----------------------------- MODULE OutboxProofs -----------------------------
(***************************************************************************)
(* Proofs about Outbox: its type invariant and that a dead letter is       *)
(* earned, for every publisher; that leases are exclusive and publishing   *)
(* is final, for publishers that acknowledge once and in time.             *)
(***************************************************************************)
EXTENDS Outbox, TLAPS

-----------------------------------------------------------------------------
(* Facts about the operators the model is built from.                      *)

\* Letting a tick of a countdown pass keeps it within its span.
LEMMA ElapseType ==
    ASSUME NEW m \in Nat, NEW n \in 0 .. m
    PROVE  Elapse(n) \in 0 .. m
BY DEF Elapse

\* The counted attempts stay within their bound, and reach it for good.
LEMMA CountAttemptType ==
    ASSUME NEW n \in 0 .. MaxAttempts + 1
    PROVE  /\ CountAttempt(n) \in 0 .. MaxAttempts + 1
           /\ n >= MaxAttempts => CountAttempt(n) >= MaxAttempts
BY TicksAssumption DEF CountAttempt

\* Every change a handler, or time, makes to a row leads to a row.
LEMMA ClaimedRowType ==
    ASSUME NEW row \in Row
    PROVE  [row EXCEPT !.status = "PROCESSING", !.attempts = CountAttempt(@),
                       !.lease = LeaseTicks + 1] \in Row
<1>1. CountAttempt(row.attempts) \in 0 .. MaxAttempts + 1
  BY CountAttemptType DEF Row
<1>2. LeaseTicks + 1 \in LeaseSpan
  BY TicksAssumption DEF LeaseSpan
<1> QED
  BY <1>1, <1>2 DEF Row

LEMMA PublishedRowType ==
    ASSUME NEW row \in Row
    PROVE  [row EXCEPT !.status = "PUBLISHED", !.lease = 0] \in Row
<1>1. 0 \in LeaseSpan
  BY TicksAssumption DEF LeaseSpan
<1> QED
  BY <1>1 DEF Row

LEMMA FailedRowType ==
    ASSUME NEW row \in Row
    PROVE  /\ [row EXCEPT !.status = "DEAD_LETTER", !.wait = 0, !.lease = 0] \in Row
           /\ [row EXCEPT !.status = "PENDING", !.wait = RetryDelay(row), !.lease = 0] \in Row
<1>1. 0 \in LeaseSpan /\ 0 \in 0 .. RetryTicks /\ RetryDelay(row) \in 0 .. RetryTicks
  BY TicksAssumption DEF LeaseSpan, RetryDelay
<1> QED
  BY <1>1 DEF Row

LEMMA ElapsedRowType ==
    ASSUME NEW row \in Row
    PROVE  [row EXCEPT !.wait = Elapse(@), !.lease = Elapse(@)] \in Row
<1>1. Elapse(row.wait) \in 0 .. RetryTicks /\ Elapse(row.lease) \in LeaseSpan
  BY TicksAssumption DEF Elapse, Row, LeaseSpan
<1> QED
  BY <1>1 DEF Row

\* Forgetting a claim touches no other one.
LEMMA DropKeeps ==
    ASSUME TypeOK, NEW w \in Workers, NEW e, work' = Drop(w, e)
    PROVE  /\ DOMAIN work' = Workers
           /\ \A v \in Workers : DOMAIN work'[v] \subseteq DOMAIN work[v]
           /\ \A v \in Workers : \A d \in DOMAIN work'[v] : work'[v][d] = work[v][d]
           /\ e \notin DOMAIN work'[w]
BY DEF Drop, TypeOK

\* So it keeps the claims well typed.
LEMMA DropType ==
    ASSUME TypeOK, NEW w \in Workers, NEW e, work' = Drop(w, e)
    PROVE  /\ DOMAIN work' = Workers
           /\ \A v \in Workers : DOMAIN work'[v] \subseteq DOMAIN rows
                                 /\ work'[v] \in [DOMAIN work'[v] -> LeaseSpan]
BY DEF Drop, TypeOK

\* An acknowledgement forgets the claim, or, its answer lost, leaves it.
LEMMA AcknowledgeType ==
    ASSUME TypeOK, NEW w \in Workers, NEW e, Acknowledge(w, e)
    PROVE  /\ e \in DOMAIN rows
           /\ DOMAIN work' = Workers
           /\ \A v \in Workers : DOMAIN work'[v] \subseteq DOMAIN rows
                                 /\ work'[v] \in [DOMAIN work'[v] -> LeaseSpan]
<1>1. e \in DOMAIN rows
  BY DEF Acknowledge, TypeOK
<1>2. CASE work' = Drop(w, e)
  BY <1>1, <1>2, DropType
<1>3. CASE UNCHANGED work
  BY <1>1, <1>3 DEF TypeOK
<1> QED
  BY <1>2, <1>3 DEF Acknowledge

\* The kind of the publishers does not change.
LEMMA CarefulStays == [Next]_vars => careful' = careful
BY DEF Next, vars, Enqueue, Claim, MarkPublished, MarkFailed, Acknowledge, Abandon, Tick

-----------------------------------------------------------------------------
(* Type correctness.                                                       *)

LEMMA InitType == Init => TypeOK
BY DEF Init, TypeOK

LEMMA NextType == TypeOK /\ [Next]_vars => TypeOK'
<1> SUFFICES ASSUME TypeOK, [Next]_vars
             PROVE  TypeOK'
  OBVIOUS
<1> USE TicksAssumption
<1>0. careful' \in BOOLEAN
  <2>1. careful \in BOOLEAN
    BY DEF TypeOK
  <2> QED
    BY <2>1, CarefulStays
<1>1. ASSUME NEW e \in Events, Enqueue(e)
      PROVE  TypeOK'
  <2>1. [status |-> "PENDING", attempts |-> 0, wait |-> 0, lease |-> 0] \in Row
    BY DEF Row, LeaseSpan
  <2>2. rows' \in [DOMAIN rows' -> Row] /\ DOMAIN rows' = DOMAIN rows \cup {e}
    BY <1>1, <2>1 DEF Enqueue, TypeOK
  <2> QED
    BY <1>0, <1>1, <2>2 DEF Enqueue, TypeOK
<1>2. ASSUME NEW w \in Workers, NEW claimed \in SUBSET DOMAIN rows, Claim(w, claimed)
      PROVE  TypeOK'
  <2>1. rows \in [DOMAIN rows -> Row]
    BY DEF TypeOK
  <2>2. rows' \in [DOMAIN rows -> Row] /\ DOMAIN rows' = DOMAIN rows
    BY <1>2, <2>1, ClaimedRowType DEF Claim
  <2>3. ASSUME NEW v \in Workers
        PROVE  DOMAIN work'[v] \subseteq DOMAIN rows /\ work'[v] \in [DOMAIN work'[v] -> LeaseSpan]
    <3>1. LeaseTicks + 1 \in LeaseSpan
      BY DEF LeaseSpan
    <3>2. DOMAIN work[v] \subseteq DOMAIN rows /\ work[v] \in [DOMAIN work[v] -> LeaseSpan]
      BY DEF TypeOK
    <3>3. work'[v] = IF v = w THEN [e \in DOMAIN work[v] \cup claimed |->
                                     IF e \in claimed THEN LeaseTicks + 1 ELSE work[v][e]]
                              ELSE work[v]
      BY <1>2 DEF Claim, TypeOK
    <3> QED
      BY <3>1, <3>2, <3>3
  <2>4. DOMAIN work' = Workers
    BY <1>2 DEF Claim, TypeOK
  <2> QED
    BY <1>0, <2>2, <2>3, <2>4 DEF TypeOK
<1>3. ASSUME NEW w \in Workers, NEW e \in Events, MarkPublished(w, e)
      PROVE  TypeOK'
  <2>1. rows \in [DOMAIN rows -> Row] /\ rows[e] \in Row
    BY <1>3, AcknowledgeType DEF MarkPublished, TypeOK
  <2>2. rows' = [rows EXCEPT ![e] = [rows[e] EXCEPT !.status = "PUBLISHED", !.lease = 0]]
    BY <1>3 DEF MarkPublished
  <2>3. [rows[e] EXCEPT !.status = "PUBLISHED", !.lease = 0] \in Row
    BY <2>1, PublishedRowType
  <2>4. rows' \in [DOMAIN rows -> Row] /\ DOMAIN rows' = DOMAIN rows
    BY <2>1, <2>2, <2>3
  <2> QED
    BY <1>0, <1>3, <2>4, AcknowledgeType DEF MarkPublished, TypeOK
<1>4. ASSUME NEW w \in Workers, NEW e \in Events, MarkFailed(w, e)
      PROVE  TypeOK'
  <2>1. rows \in [DOMAIN rows -> Row] /\ rows[e] \in Row
    BY <1>4, AcknowledgeType DEF MarkFailed, TypeOK
  <2>2. /\ [rows[e] EXCEPT !.status = "DEAD_LETTER", !.wait = 0, !.lease = 0] \in Row
        /\ [rows[e] EXCEPT !.status = "PENDING", !.wait = RetryDelay(rows[e]), !.lease = 0] \in Row
    BY <2>1, FailedRowType
  <2>3. rows' \in [DOMAIN rows -> Row] /\ DOMAIN rows' = DOMAIN rows
    BY <1>4, <2>1, <2>2 DEF MarkFailed
  <2> QED
    BY <1>0, <1>4, <2>3, AcknowledgeType DEF MarkFailed, TypeOK
<1>5. ASSUME NEW w \in Workers, NEW e \in Events, Abandon(w, e)
      PROVE  TypeOK'
  BY <1>0, <1>5, DropType DEF Abandon, TypeOK
<1>6. ASSUME Tick
      PROVE  TypeOK'
  <2>1. rows \in [DOMAIN rows -> Row]
    BY DEF TypeOK
  <2>2. rows' \in [DOMAIN rows -> Row] /\ DOMAIN rows' = DOMAIN rows
    BY <1>6, <2>1, ElapsedRowType DEF Tick
  <2>3. \A n \in LeaseSpan : Elapse(n) \in LeaseSpan
    BY DEF LeaseSpan, Elapse
  <2>4. ASSUME NEW v \in Workers
        PROVE  DOMAIN work'[v] \subseteq DOMAIN rows /\ work'[v] \in [DOMAIN work'[v] -> LeaseSpan]
    BY <1>6, <2>3 DEF Tick, TypeOK
  <2> QED
    BY <1>0, <1>6, <2>2, <2>4 DEF Tick, TypeOK
<1>7. CASE UNCHANGED vars
  BY <1>0, <1>7 DEF vars, TypeOK
<1> QED
  BY <1>1, <1>2, <1>3, <1>4, <1>5, <1>6, <1>7 DEF Next

\* The rows and the claims keep their shape, for every publisher.
THEOREM TypeCorrect == Spec => []TypeOK
<1> QED
  BY InitType, NextType, PTL DEF Spec

-----------------------------------------------------------------------------
(* Dead letters.                                                           *)

LEMMA DeadLetterStep == TypeOK /\ DeadLetterIsEarned /\ [Next]_vars => DeadLetterIsEarned'
<1> SUFFICES ASSUME TypeOK, DeadLetterIsEarned, [Next]_vars,
                    NEW d \in DOMAIN rows', rows'[d].status = "DEAD_LETTER"
             PROVE  rows'[d].attempts >= MaxAttempts
  BY DEF DeadLetterIsEarned
<1> USE TicksAssumption
<1>1. ASSUME NEW e \in Events, Enqueue(e)
      PROVE  rows'[d].attempts >= MaxAttempts
  BY <1>1 DEF Enqueue, DeadLetterIsEarned
<1>2. ASSUME NEW w \in Workers, NEW claimed \in SUBSET DOMAIN rows, Claim(w, claimed)
      PROVE  rows'[d].attempts >= MaxAttempts
  <2>1. rows \in [DOMAIN rows -> Row] /\ d \in DOMAIN rows
    BY <1>2 DEF TypeOK, Claim
  <2>2. rows'[d] = rows[d] \/ rows'[d].status = "PROCESSING"
    BY <1>2, <2>1 DEF Claim, Row
  <2> QED
    BY <2>1, <2>2 DEF DeadLetterIsEarned
<1>3. ASSUME NEW w \in Workers, NEW e \in Events, MarkPublished(w, e)
      PROVE  rows'[d].attempts >= MaxAttempts
  <2>1. rows \in [DOMAIN rows -> Row] /\ d \in DOMAIN rows
    BY <1>3 DEF TypeOK, MarkPublished
  <2>2. rows'[d] = rows[d]
    BY <1>3, <2>1 DEF MarkPublished, Row
  <2> QED
    BY <2>1, <2>2 DEF DeadLetterIsEarned
<1>4. ASSUME NEW w \in Workers, NEW e \in Events, MarkFailed(w, e)
      PROVE  rows'[d].attempts >= MaxAttempts
  <2>1. rows \in [DOMAIN rows -> Row] /\ d \in DOMAIN rows
    BY <1>4 DEF TypeOK, MarkFailed
  <2>2. rows'[d] = rows[d] \/ (Exhausted(rows[d]) /\ rows'[d].attempts = rows[d].attempts)
    BY <1>4, <2>1 DEF MarkFailed, Row
  <2> QED
    BY <2>1, <2>2 DEF DeadLetterIsEarned, Exhausted
<1>5. ASSUME NEW w \in Workers, NEW e \in Events, Abandon(w, e)
      PROVE  rows'[d].attempts >= MaxAttempts
  BY <1>5 DEF Abandon, DeadLetterIsEarned
<1>6. ASSUME Tick
      PROVE  rows'[d].attempts >= MaxAttempts
  <2>1. rows \in [DOMAIN rows -> Row] /\ d \in DOMAIN rows
    BY <1>6 DEF TypeOK, Tick
  <2>2. rows'[d].status = rows[d].status /\ rows'[d].attempts = rows[d].attempts
    BY <1>6, <2>1 DEF Tick, Row
  <2> QED
    BY <2>1, <2>2 DEF DeadLetterIsEarned
<1>7. CASE UNCHANGED vars
  BY <1>7 DEF vars, DeadLetterIsEarned
<1> QED
  BY <1>1, <1>2, <1>3, <1>4, <1>5, <1>6, <1>7 DEF Next

\* An event is given up only after MaxAttempts claims, with acknowledgements
\* that come late, twice or from a publisher whose lease has passed included.
THEOREM DeadLettersAreEarned == Spec => []DeadLetterIsEarned
<1>1. Init => DeadLetterIsEarned
  BY DEF Init, DeadLetterIsEarned
<1> QED
  BY <1>1, DeadLetterStep, TypeCorrect, PTL DEF Spec

-----------------------------------------------------------------------------
(* Publishers that acknowledge once, and within their lease.               *)

\* Such a publisher acknowledges a claim within its lease, and only once.
LEMMA CarefulAcknowledgement ==
    ASSUME careful, TypeOK, NEW w \in Workers, NEW e, Acknowledge(w, e)
    PROVE  e \in DOMAIN work[w] /\ work[w][e] > 0 /\ work' = Drop(w, e)
BY DEF Acknowledge

\* After it, nobody has a running claim on the event, the others keep theirs.
LEMMA AcknowledgedIsReleased ==
    ASSUME careful, TypeOK, ClaimsAreExclusive, NEW w \in Workers, NEW e, Acknowledge(w, e),
           DOMAIN rows' = DOMAIN rows, \A d \in DOMAIN rows : d # e => rows'[d] = rows[d]
    PROVE  ClaimsAreExclusive'
<1> SUFFICES ASSUME NEW v \in Workers', NEW d \in DOMAIN work'[v], work'[v][d] > 0
             PROVE  /\ rows'[d].status = "PROCESSING"
                    /\ rows'[d].lease = work'[v][d]
                    /\ \A u \in Workers \ {v} : d \in DOMAIN work'[u] => work'[u][d] = 0
  BY DEF ClaimsAreExclusive
<1>1. work' = Drop(w, e) /\ e \in DOMAIN work[w] /\ work[w][e] > 0
  BY CarefulAcknowledgement
<1>2. \A u \in Workers : DOMAIN work'[u] \subseteq DOMAIN work[u]
                         /\ \A x \in DOMAIN work'[u] : work'[u][x] = work[u][x]
  BY <1>1, DropKeeps
<1>3. e \notin DOMAIN work'[w]
  BY <1>1, DropKeeps
<1>4. \A u \in Workers \ {w} : e \in DOMAIN work[u] => work[u][e] = 0
  BY <1>1 DEF ClaimsAreExclusive
<1>5. d # e
  BY <1>2, <1>3, <1>4
<1>6. d \in DOMAIN rows /\ rows'[d] = rows[d]
  BY <1>2, <1>5 DEF TypeOK
<1>7. d \in DOMAIN work[v] /\ work[v][d] > 0
  BY <1>2
<1>8. /\ rows[d].status = "PROCESSING"
      /\ rows[d].lease = work[v][d]
      /\ \A u \in Workers \ {v} : d \in DOMAIN work[u] => work[u][d] = 0
  BY <1>7 DEF ClaimsAreExclusive
<1> QED
  BY <1>2, <1>6, <1>8

LEMMA ClaimsStep ==
    ASSUME careful, TypeOK, ClaimsAreExclusive, [Next]_vars
    PROVE  ClaimsAreExclusive'
<1> USE TicksAssumption
<1>1. ASSUME NEW e \in Events, Enqueue(e)
      PROVE  ClaimsAreExclusive'
  <2>1. \A d \in DOMAIN rows : d \in DOMAIN rows' /\ rows'[d] = rows[d]
    BY <1>1 DEF Enqueue
  <2> QED
    BY <1>1, <2>1 DEF Enqueue, ClaimsAreExclusive, TypeOK
<1>2. ASSUME NEW w \in Workers, NEW claimed \in SUBSET DOMAIN rows, Claim(w, claimed)
      PROVE  ClaimsAreExclusive'
  <2>1. rows \in [DOMAIN rows -> Row] /\ \A v \in Workers : DOMAIN work[v] \subseteq DOMAIN rows
    BY DEF TypeOK
  <2>2. ASSUME NEW v \in Workers, NEW e \in DOMAIN work[v], e \in claimed
        PROVE  ~(work[v][e] > 0)
    <3>1. rows[e].status = "PENDING" \/ rows[e].lease = 0
      BY <1>2, <2>2 DEF Claim, Claimable
    <3>2. work[v][e] > 0 => rows[e].status = "PROCESSING" /\ rows[e].lease = work[v][e]
      BY DEF ClaimsAreExclusive
    <3> QED
      BY <3>1, <3>2
  <2>3. \A v \in Workers \ {w} : work'[v] = work[v]
    BY <1>2 DEF Claim, TypeOK
  <2>4. /\ DOMAIN work'[w] = DOMAIN work[w] \cup claimed
        /\ \A e \in DOMAIN work'[w] :
              work'[w][e] = IF e \in claimed THEN LeaseTicks + 1 ELSE work[w][e]
    BY <1>2 DEF Claim, TypeOK
  <2>5. \A e \in DOMAIN rows :
           /\ e \notin claimed => rows'[e] = rows[e]
           /\ e \in claimed => rows'[e].status = "PROCESSING" /\ rows'[e].lease = LeaseTicks + 1
    BY <1>2, <2>1 DEF Claim, Row
  <2>6. \A v \in Workers : \A e \in DOMAIN work[v] : work[v][e] \in Nat
    BY DEF TypeOK, LeaseSpan
  <2>7. SUFFICES ASSUME NEW v \in Workers, NEW d \in DOMAIN work'[v], work'[v][d] > 0
                 PROVE  /\ rows'[d].status = "PROCESSING"
                        /\ rows'[d].lease = work'[v][d]
                        /\ \A u \in Workers \ {v} : d \in DOMAIN work'[u] => work'[u][d] = 0
    BY DEF ClaimsAreExclusive
  <2>8. CASE d \in claimed
    <3>1. v = w
      BY <2>2, <2>3, <2>7, <2>8
    <3>2. \A u \in Workers \ {v} : d \in DOMAIN work'[u] => work'[u][d] = 0
      BY <2>2, <2>3, <2>6, <2>8, <3>1
    <3> QED
      BY <2>4, <2>5, <2>8, <3>1, <3>2
  <2>9. CASE d \notin claimed
    <3>1. \A u \in Workers : d \in DOMAIN work'[u]
                               => d \in DOMAIN work[u] /\ work'[u][d] = work[u][d]
      BY <2>3, <2>4, <2>9
    <3>2. d \in DOMAIN work[v] /\ work[v][d] > 0 /\ work'[v][d] = work[v][d]
      BY <2>7, <3>1
    <3>3. /\ rows[d].status = "PROCESSING"
          /\ rows[d].lease = work[v][d]
          /\ \A u \in Workers \ {v} : d \in DOMAIN work[u] => work[u][d] = 0
      BY <3>2 DEF ClaimsAreExclusive
    <3> QED
      BY <2>1, <2>5, <2>9, <3>1, <3>2, <3>3
  <2> QED
    BY <2>8, <2>9
<1>3. ASSUME NEW w \in Workers, NEW e \in Events, MarkPublished(w, e)
      PROVE  ClaimsAreExclusive'
  <2>1. rows' = [rows EXCEPT ![e] = [rows[e] EXCEPT !.status = "PUBLISHED", !.lease = 0]]
    BY <1>3 DEF MarkPublished
  <2> QED
    BY <1>3, <2>1, AcknowledgedIsReleased DEF MarkPublished, TypeOK
<1>4. ASSUME NEW w \in Workers, NEW e \in Events, MarkFailed(w, e)
      PROVE  ClaimsAreExclusive'
  BY <1>4, AcknowledgedIsReleased DEF MarkFailed, TypeOK
<1>5. ASSUME NEW w \in Workers, NEW e \in Events, Abandon(w, e)
      PROVE  ClaimsAreExclusive'
  <2>1. \A v \in Workers : DOMAIN work'[v] \subseteq DOMAIN work[v]
                           /\ \A d \in DOMAIN work'[v] : work'[v][d] = work[v][d]
    BY <1>5, DropKeeps DEF Abandon
  <2> QED
    BY <1>5, <2>1 DEF Abandon, ClaimsAreExclusive
<1>6. ASSUME Tick
      PROVE  ClaimsAreExclusive'
  <2>1. rows \in [DOMAIN rows -> Row]
    BY DEF TypeOK
  <2>2. \A d \in DOMAIN rows : rows'[d].status = rows[d].status
                               /\ rows'[d].lease = Elapse(rows[d].lease)
    BY <1>6, <2>1 DEF Tick, Row
  <2>3. \A v \in Workers : DOMAIN work'[v] = DOMAIN work[v]
                           /\ \A d \in DOMAIN work[v] : work'[v][d] = Elapse(work[v][d])
    BY <1>6 DEF Tick
  <2>4. \A v \in Workers : \A d \in DOMAIN work[v] : work[v][d] \in Nat /\ d \in DOMAIN rows
    BY DEF TypeOK, LeaseSpan
  <2>5. \A n \in Nat : (Elapse(n) > 0 => n > 0) /\ (n = 0 => Elapse(n) = 0)
    BY DEF Elapse
  <2> QED
    BY <2>2, <2>3, <2>4, <2>5 DEF ClaimsAreExclusive
<1>7. CASE UNCHANGED vars
  BY <1>7 DEF vars, ClaimsAreExclusive
<1> QED
  BY <1>1, <1>2, <1>3, <1>4, <1>5, <1>6, <1>7 DEF Next

LEMMA LeaseStep == TypeOK /\ LeaseIsExclusive /\ [Next]_vars => LeaseIsExclusive'
<1> SUFFICES ASSUME TypeOK, LeaseIsExclusive, [Next]_vars, careful'
             PROVE  ClaimsAreExclusive'
  BY DEF LeaseIsExclusive
<1> QED
  BY CarefulStays, ClaimsStep DEF LeaseIsExclusive

\* With such publishers a claim within its lease is exclusive: no two of
\* them work on one event, and nobody else has marked it.
THEOREM LeasesAreExclusive == Spec => []LeaseIsExclusive
<1>1. Init => LeaseIsExclusive
  BY DEF Init, LeaseIsExclusive, ClaimsAreExclusive
<1> QED
  BY <1>1, LeaseStep, TypeCorrect, PTL DEF Spec

LEMMA PublishedStep ==
    ASSUME careful, TypeOK, ClaimsAreExclusive, [Next]_vars,
           NEW d \in DOMAIN rows, rows[d].status = "PUBLISHED"
    PROVE  rows'[d].status = "PUBLISHED"
<1>1. ASSUME NEW e \in Events, Enqueue(e)
      PROVE  rows'[d].status = "PUBLISHED"
  BY <1>1 DEF Enqueue
<1>2. ASSUME NEW w \in Workers, NEW claimed \in SUBSET DOMAIN rows, Claim(w, claimed)
      PROVE  rows'[d].status = "PUBLISHED"
  BY <1>2 DEF Claim, Claimable
<1>3. ASSUME NEW w \in Workers, NEW e \in Events, Acknowledge(w, e)
      PROVE  d # e
  BY <1>3, CarefulAcknowledgement DEF ClaimsAreExclusive
<1>4. ASSUME NEW w \in Workers, NEW e \in Events, MarkPublished(w, e) \/ MarkFailed(w, e)
      PROVE  rows'[d].status = "PUBLISHED"
  BY <1>3, <1>4 DEF MarkPublished, MarkFailed, TypeOK
<1>5. ASSUME NEW w \in Workers, NEW e \in Events, Abandon(w, e)
      PROVE  rows'[d].status = "PUBLISHED"
  BY <1>5 DEF Abandon
<1>6. ASSUME Tick
      PROVE  rows'[d].status = "PUBLISHED"
  <2>1. rows[d] \in Row
    BY DEF TypeOK
  <2> QED
    BY <1>6, <2>1 DEF Tick, Row
<1>7. CASE UNCHANGED vars
  BY <1>7 DEF vars
<1> QED
  BY <1>1, <1>2, <1>4, <1>5, <1>6, <1>7 DEF Next

\* And publishing is final: an event is not put back into the queue.
THEOREM PublishingIsFinal == Spec => PublishedIsFinal
<1>1. TypeOK /\ LeaseIsExclusive /\ [Next]_vars => [careful => PublishedStays]_vars
  BY PublishedStep DEF PublishedStays, LeaseIsExclusive
<1> QED
  BY <1>1, LeasesAreExclusive, TypeCorrect, PTL DEF Spec, PublishedIsFinal

=============================================================================
