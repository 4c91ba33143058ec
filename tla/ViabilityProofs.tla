---------------------------- MODULE ViabilityProofs ----------------------------
(***************************************************************************)
(* Proofs about Viability: that every input is accounted for, that a       *)
(* connection tells the outcome of its last run and that without overlaps  *)
(* a snapshot is of one calculation, for any number of handlers, studies,  *)
(* connections and jobs.                                                   *)
(*                                                                         *)
(* And about CashFlow, what a study calculates: that the reported equity   *)
(* is the least that suffices and that loans are repaid and neutral, for   *)
(* any plans.  Sums and powers are recursive functions; what they yield is *)
(* proved by induction over the months, which rests on the least element   *)
(* of a set of naturals.                                                   *)
(***************************************************************************)
EXTENDS Viability, CashFlow, WellFoundedInduction, TLAPS

-----------------------------------------------------------------------------
(* The inductive invariant.                                                *)

Jobs == [connection: Connections, study: Studies \cup {NoStudy},
         status: {"QUEUED", "SUCCEEDED", "FAILED", "APPLIED"}, patch: SUBSET Fields]

Columns == {"status", "overrides", "outputs", "flow"}

Typed ==
    /\ owner \in [Studies \cup Connections -> Tenants \cup {"none"}]
    /\ DOMAIN inputs = Studies
    /\ DOMAIN scenario = Scenarios
    /\ \A x \in Scenarios : DOMAIN scenario[x] = Columns
    /\ DOMAIN connection = Connections
    /\ jobs \in Seq(Jobs)
    /\ DOMAIN req = Handlers

Applied(j) == j \in DOMAIN jobs /\ jobs[j].status = "APPLIED"

\* The origin o of field f of study s.
Accounted(s, f, o) ==
    o = Declared \/ (Applied(o) /\ jobs[o].study = s /\ f \in jobs[o].patch)

\* Jobs feed studies of the tenant of their connection.
JobsFit ==
    \A j \in DOMAIN jobs :
        /\ Exists(jobs[j].connection)
        /\ Feeds(jobs[j].connection, jobs[j].study)
        /\ jobs[j].status = "APPLIED" => jobs[j].study # NoStudy

InputsFit ==
    \A s \in Studies : Exists(s) =>
        DOMAIN inputs[s] = Fields /\ \A f \in Fields : Accounted(s, f, inputs[s][f])

\* No field of an applied job is lost.
AppliedStays ==
    serial => \A j \in DOMAIN jobs : jobs[j].status = "APPLIED" =>
        \A f \in jobs[j].patch : inputs[jobs[j].study][f] # Declared

\* The outputs of data that may have been replaced by applied jobs.
Shows(outputs, overrides, data) ==
    \A f \in Fields : outputs[f] = Result(data, overrides)[f] \/ Applied(data[f])

ScenariosFit ==
    \A x \in Scenarios :
        /\ scenario[x].status = "none" => scenario[x] = NoRow
        /\ scenario[x].status # "none" => Exists(x[1])
        /\ serial /\ scenario[x].status = "CALCULATED" =>
              /\ scenario[x].outputs = scenario[x].flow
              /\ Shows(scenario[x].outputs, scenario[x].overrides, inputs[x[1]])

SnapshotsFit ==
    \A snapshot \in snapshots :
        /\ snapshot.scenario \in Scenarios /\ scenario[snapshot.scenario].status = "CALCULATED"
        /\ serial => /\ snapshot.outputs = snapshot.flow
                     /\ Shows(snapshot.outputs, scenario[snapshot.scenario].overrides,
                              snapshot.inputs)

Busy(h) == req[h].op # "idle"

OneAtATime == serial => \A h, k \in Handlers : Busy(h) /\ Busy(k) => h = k

RunFits(h) ==
    /\ req[h].connection \in Connections /\ Exists(req[h].connection)
    /\ req[h].study \in Studies \cup {NoStudy} /\ Feeds(req[h].connection, req[h].study)
    /\ req[h].read = "SYNCING"

QueueFits(h) == req[h].connection \in Connections /\ Exists(req[h].connection)

\* What is applied are the inputs as they were, and what the job brought.
ApplyFits(h) ==
    LET j == req[h].job
        s == jobs[j].study
    IN  /\ j \in DOMAIN jobs /\ jobs[j].status \in {"SUCCEEDED", "APPLIED"} /\ s # NoStudy
        /\ DOMAIN req[h].inputs = Fields
        /\ \A f \in Fields : \/ Accounted(s, f, req[h].inputs[f])
                             \/ req[h].inputs[f] = j /\ f \in jobs[j].patch
        /\ serial => req[h].inputs = Merge(inputs[s], j)

CalculationFits(h) ==
    LET x == req[h].scenario
    IN  /\ x \in Scenarios /\ scenario[x].status # "none"
        /\ serial => /\ req[h].read = scenario[x].outputs
                     /\ req[h].result = Result(inputs[x[1]], scenario[x].overrides)

FreezeFits(h) ==
    LET x == req[h].scenario
    IN  /\ x \in Scenarios /\ Exists(x[1])
        /\ serial => req[h].inputs = inputs[x[1]]

FrozenFits(h) ==
    LET x == req[h].scenario
    IN  /\ scenario[x].status = "CALCULATED"
        /\ serial => req[h].outputs = scenario[x].outputs

RequestFits(h) ==
    /\ req[h].op = "run" => RunFits(h)
    /\ req[h].op = "queue" => QueueFits(h)
    /\ req[h].op = "apply" => ApplyFits(h)
    /\ req[h].op = "calculate" => CalculationFits(h)
    /\ req[h].op \in {"freeze", "frozen"} => FreezeFits(h)
    /\ req[h].op = "frozen" => FrozenFits(h)

IInv ==
    /\ Typed /\ serial \in BOOLEAN
    /\ JobsFit /\ InputsFit /\ AppliedStays /\ ScenariosFit /\ SnapshotsFit
    /\ OneAtATime /\ \A h \in Handlers : RequestFits(h)
    /\ ConnectionTellsItsLastRun

-----------------------------------------------------------------------------
(* What a step leaves of what the requests have read.                      *)

\* Rows are not deleted, jobs are only applied and calculations not undone.
Grows ==
    /\ serial' = serial
    /\ \A r \in Studies \cup Connections : Exists(r) => owner'[r] = owner[r]
    /\ \A x \in Scenarios : scenario[x].status # "none" =>
          /\ scenario'[x].status \in {scenario[x].status, "CALCULATED"}
          /\ scenario'[x].overrides = scenario[x].overrides
    /\ DOMAIN jobs \subseteq DOMAIN jobs'
    /\ \A j \in DOMAIN jobs :
          /\ jobs'[j].connection = jobs[j].connection /\ jobs'[j].study = jobs[j].study
          /\ jobs'[j].patch = jobs[j].patch
          /\ \/ jobs'[j].status = jobs[j].status
             \/ jobs[j].status = "SUCCEEDED" /\ jobs'[j].status = "APPLIED"

\* What a request may have read is as it was.
Unread ==
    /\ \A s \in Studies : Exists(s) => inputs'[s] = inputs[s]
    /\ \A x \in Scenarios : scenario[x].status # "none" => scenario'[x] = scenario[x]

LEMMA AccountedGrows ==
  ASSUME Grows, NEW s, NEW f, NEW o, Accounted(s, f, o)
  PROVE  Accounted(s, f, o)'
BY DEF Grows, Accounted, Applied

LEMMA ShowsGrows ==
  ASSUME Grows, NEW outputs, NEW overrides, NEW data, Shows(outputs, overrides, data)
  PROVE  Shows(outputs, overrides, data)'
BY DEF Grows, Shows, Applied, Result

LEMMA FeedsGrows ==
  ASSUME Grows, NEW c \in Connections, NEW s \in Studies \cup {NoStudy}, Exists(c), Feeds(c, s)
  PROVE  Exists(c)' /\ Feeds(c, s)'
BY DEF Grows, Feeds, Exists

LEMMA ScenarioStudy ==
  ASSUME NEW x \in Scenarios
  PROVE  x[1] \in Studies
BY ViabilityAssumption

LEMMA JobTypes ==
  ASSUME Typed, NEW j \in DOMAIN jobs
  PROVE  /\ jobs[j] \in Jobs /\ jobs[j].connection \in Connections
         /\ jobs[j].study \in Studies \cup {NoStudy} /\ jobs[j].patch \subseteq Fields
         /\ jobs[j].status \in {"QUEUED", "SUCCEEDED", "FAILED", "APPLIED"}
         /\ j \in 1 .. Len(jobs)
<1>1. jobs[j] \in Jobs /\ j \in 1 .. Len(jobs)
  BY DEF Typed
<1> QED
  BY <1>1 DEF Jobs

\* The request of a handler that does not move goes on to fit.
LEMMA OthersFit ==
  ASSUME IInv, Grows, NEW k \in Handlers, req'[k] = req[k], serial /\ Busy(k) => Unread
  PROVE  RequestFits(k)'
<1>1. Typed /\ RequestFits(k) /\ ScenariosFit
  BY DEF IInv
<1>2. ASSUME req[k].op = "run"  PROVE RunFits(k)'
  BY <1>1, <1>2, FeedsGrows DEF RequestFits, RunFits
<1>3. ASSUME req[k].op = "queue"  PROVE QueueFits(k)'
  BY <1>1, <1>3 DEF RequestFits, QueueFits, Grows, Exists
<1>4. ASSUME req[k].op = "apply"  PROVE ApplyFits(k)'
  <2> DEFINE j == req[k].job
             s == jobs[j].study
  <2>1. /\ j \in DOMAIN jobs /\ jobs[j].status \in {"SUCCEEDED", "APPLIED"} /\ s # NoStudy
        /\ DOMAIN req[k].inputs = Fields
        /\ \A f \in Fields : \/ Accounted(s, f, req[k].inputs[f])
                             \/ req[k].inputs[f] = j /\ f \in jobs[j].patch
        /\ serial => req[k].inputs = Merge(inputs[s], j)
    BY <1>1, <1>4 DEF RequestFits, ApplyFits
  <2>2. s \in Studies /\ Exists(s)
    BY <1>1, <2>1, JobTypes DEF IInv, JobsFit, Feeds
  <2>3. /\ j \in DOMAIN jobs' /\ jobs'[j].study = s /\ jobs'[j].patch = jobs[j].patch
        /\ jobs'[j].status \in {"SUCCEEDED", "APPLIED"}
    BY <2>1 DEF Grows
  <2>4. \A f \in Fields : Accounted(s, f, req[k].inputs[f]) => Accounted(s, f, req[k].inputs[f])'
    <3>1. TAKE f \in Fields
    <3>2. req'[k].inputs[f] = req[k].inputs[f]
      OBVIOUS
    <3>3. PICK o : o = req[k].inputs[f]
      OBVIOUS
    <3>4. PICK t : t = s
      OBVIOUS
    <3>5. Accounted(t, f, o) => Accounted(t, f, o)'
      BY AccountedGrows
    <3> QED
      BY <2>3, <3>2, <3>3, <3>4, <3>5 DEF Accounted, Applied
  <2>5. serial => req[k].inputs = [f \in Fields |-> IF f \in jobs'[j].patch THEN j ELSE inputs'[s][f]]
    BY <1>4, <2>1, <2>2, <2>3 DEF Merge, Unread, Busy
  <2> QED
    <3>1. (DOMAIN req[k].inputs = Fields /\ s # NoStudy)'
      BY <2>1, <2>3
    <3>2. (\A f \in Fields : \/ Accounted(s, f, req[k].inputs[f])
                             \/ req[k].inputs[f] = j /\ f \in jobs[j].patch)'
      <4>1. ASSUME NEW f \in Fields
            PROVE  (\/ Accounted(s, f, req[k].inputs[f])
                    \/ req[k].inputs[f] = j /\ f \in jobs[j].patch)'
        <5>1. CASE Accounted(s, f, req[k].inputs[f])
          BY <2>3, <2>4, <5>1 DEF Accounted, Applied
        <5>2. CASE req[k].inputs[f] = j /\ f \in jobs[j].patch
          BY <2>3, <5>2
        <5> QED
          BY <2>1, <5>1, <5>2
      <4> QED
        BY <4>1
    <3>3. (serial => req[k].inputs = Merge(inputs[s], j))'
      <4>1. serial' = serial /\ req'[k] = req[k]
        BY DEF Grows
      <4>2. PICK i, t, data : i = j /\ t = s /\ data = req[k].inputs
        OBVIOUS
      <4>3. serial => data = [f \in Fields |-> IF f \in jobs'[i].patch THEN i ELSE inputs'[t][f]]
        BY <2>5, <4>2
      <4>4. req'[k].job = i /\ jobs'[i].study = t /\ req'[k].inputs = data
        BY <2>3, <4>1, <4>2
      <4> QED
        BY <4>1, <4>3, <4>4 DEF Merge
    <3> QED
      BY <2>3, <3>1, <3>2, <3>3 DEF ApplyFits
<1>5. ASSUME req[k].op = "calculate"  PROVE CalculationFits(k)'
  <2> DEFINE x == req[k].scenario
  <2>1. /\ x \in Scenarios /\ scenario[x].status # "none" /\ x[1] \in Studies /\ Exists(x[1])
        /\ serial => /\ req[k].read = scenario[x].outputs
                     /\ req[k].result = Result(inputs[x[1]], scenario[x].overrides)
    BY <1>1, <1>5, ScenarioStudy DEF RequestFits, CalculationFits, ScenariosFit
  <2>2. scenario'[x].status # "none"
    BY <2>1 DEF Grows
  <2>3. serial => scenario'[x] = scenario[x] /\ inputs'[x[1]] = inputs[x[1]]
    BY <1>5, <2>1 DEF Unread, Busy
  <2> QED
    BY <2>1, <2>2, <2>3 DEF CalculationFits, Result, Grows
<1>6. ASSUME req[k].op \in {"freeze", "frozen"}  PROVE FreezeFits(k)'
  <2> DEFINE x == req[k].scenario
  <2>1. x \in Scenarios /\ x[1] \in Studies /\ Exists(x[1]) /\ (serial => req[k].inputs = inputs[x[1]])
    BY <1>1, <1>6, ScenarioStudy DEF RequestFits, FreezeFits
  <2>2. owner'[x[1]] = owner[x[1]]
    BY <2>1 DEF Grows
  <2>3. serial => inputs'[x[1]] = inputs[x[1]]
    BY <1>6, <2>1 DEF Unread, Busy
  <2> QED
    BY <2>1, <2>2, <2>3 DEF FreezeFits, Exists, Grows
<1>7. ASSUME req[k].op = "frozen"  PROVE FrozenFits(k)'
  <2> DEFINE x == req[k].scenario
  <2>1. /\ x \in Scenarios /\ scenario[x].status = "CALCULATED"
        /\ serial => req[k].outputs = scenario[x].outputs
    BY <1>1, <1>7 DEF RequestFits, FrozenFits, FreezeFits
  <2>2. scenario'[x].status = "CALCULATED"
    BY <2>1 DEF Grows
  <2>3. serial => scenario'[x] = scenario[x]
    BY <1>7, <2>1 DEF Unread, Busy
  <2> QED
    BY <2>1, <2>2, <2>3 DEF FrozenFits, Grows
<1> QED
  BY <1>2, <1>3, <1>4, <1>5, <1>6, <1>7 DEF RequestFits

-----------------------------------------------------------------------------
(* Steps of a request alone.                                               *)

LEMMA RequestMoves ==
  ASSUME IInv, NEW h \in Handlers, NEW new, req' = [req EXCEPT ![h] = new],
         UNCHANGED <<owner, inputs, scenario, snapshots, connection, jobs, serial>>,
         RequestFits(h)', new.op = "idle" \/ (serial => \A k \in Handlers \ {h} : ~Busy(k))
  PROVE  IInv'
<1>1. /\ Typed /\ JobsFit /\ InputsFit /\ AppliedStays /\ ScenariosFit /\ SnapshotsFit
      /\ OneAtATime /\ ConnectionTellsItsLastRun /\ serial \in BOOLEAN
  BY DEF IInv
<1>2. /\ owner' = owner /\ inputs' = inputs /\ scenario' = scenario /\ snapshots' = snapshots
      /\ connection' = connection /\ jobs' = jobs /\ serial' = serial
  OBVIOUS
<1>3. /\ req'[h] = new /\ DOMAIN req' = Handlers
      /\ \A k \in Handlers : k # h => req'[k] = req[k]
  BY <1>1 DEF Typed
<1>4. Typed'
  BY <1>1, <1>2, <1>3 DEF Typed
<1>5. JobsFit' /\ InputsFit' /\ AppliedStays'
  BY <1>1, <1>2 DEF JobsFit, Exists, Feeds, InputsFit, Accounted, Applied, AppliedStays
<1>6. ScenariosFit' /\ SnapshotsFit'
  BY <1>1, <1>2 DEF ScenariosFit, Exists, Shows, Applied, Result, SnapshotsFit
<1>7. ConnectionTellsItsLastRun'
  BY <1>1, <1>2 DEF ConnectionTellsItsLastRun, Ran
<1>8. OneAtATime'
  BY <1>1, <1>2, <1>3 DEF OneAtATime, Busy
<1>9. Grows /\ Unread
  BY <1>2 DEF Grows, Unread
<1>10. \A k \in Handlers : RequestFits(k)'
  BY <1>3, <1>9, OthersFit
<1> QED
  BY <1>1, <1>2, <1>4, <1>5, <1>6, <1>7, <1>8, <1>10 DEF IInv

LEMMA BeginMoves ==
  ASSUME IInv, NEW h \in Handlers, NEW new, Begin(h, new),
         UNCHANGED <<owner, inputs, scenario, snapshots, connection, jobs, serial>>,
         RequestFits(h)'
  PROVE  IInv'
<1>1. req' = [req EXCEPT ![h] = new]
  BY DEF Begin
<1>2. serial => \A k \in Handlers \ {h} : ~Busy(k)
  BY DEF Begin, Alone, Busy, Idle
<1> QED
  BY <1>1, <1>2, RequestMoves

LEMMA NewRequest ==
  ASSUME Typed, NEW h \in Handlers, NEW new, Begin(h, new)
  PROVE  req'[h] = new
BY DEF Begin, Typed

LEMMA AbortStep ==
  ASSUME IInv, NEW h \in Handlers, Abort(h)
  PROVE  IInv'
<1>1. req' = [req EXCEPT ![h] = Idle] /\ Idle.op = "idle"
      /\ UNCHANGED <<owner, inputs, scenario, snapshots, connection, jobs, serial>>
  BY DEF Abort, End, Idle
<1>2. req'[h] = Idle
  BY <1>1 DEF IInv, Typed
<1>3. RequestFits(h)'
  BY <1>1, <1>2 DEF RequestFits
<1> QED
  BY <1>1, <1>3, RequestMoves

LEMMA BeginCalculationStep ==
  ASSUME IInv, NEW h \in Handlers, NEW x \in Scenarios, BeginCalculation(h, x)
  PROVE  IInv'
<1> DEFINE new == [op |-> "calculate", scenario |-> x, read |-> scenario[x].outputs,
                   result |-> Result(inputs[x[1]], scenario[x].overrides)]
<1>1. Begin(h, new) /\ scenario[x] # NoRow
      /\ UNCHANGED <<owner, inputs, scenario, snapshots, connection, jobs, serial>>
  BY DEF BeginCalculation
<1>2. /\ new.op = "calculate" /\ new.scenario = x /\ new.read = scenario[x].outputs
      /\ new.result = Result(inputs[x[1]], scenario[x].overrides)
  OBVIOUS
<1> HIDE DEF new
<1>3. req'[h] = new
  BY <1>1, NewRequest DEF IInv
<1>4. scenario[x].status # "none"
  BY <1>1 DEF IInv, ScenariosFit
<1>5. RequestFits(h)'
  BY <1>1, <1>2, <1>3, <1>4 DEF RequestFits, CalculationFits, Result
<1> QED
  BY <1>1, <1>5, BeginMoves

LEMMA BeginSnapshotStep ==
  ASSUME IInv, NEW h \in Handlers, NEW x \in Scenarios, BeginSnapshot(h, x)
  PROVE  IInv'
<1> DEFINE new == [op |-> "freeze", scenario |-> x, inputs |-> inputs[x[1]]]
<1>1. Begin(h, new) /\ Exists(x[1])
      /\ UNCHANGED <<owner, inputs, scenario, snapshots, connection, jobs, serial>>
  BY DEF BeginSnapshot
<1>2. new.op = "freeze" /\ new.scenario = x /\ new.inputs = inputs[x[1]]
  OBVIOUS
<1> HIDE DEF new
<1>3. req'[h] = new
  BY <1>1, NewRequest DEF IInv
<1>4. RequestFits(h)'
  BY <1>1, <1>2, <1>3 DEF RequestFits, FreezeFits, Exists
<1> QED
  BY <1>1, <1>4, BeginMoves

LEMMA ReadScenarioStep ==
  ASSUME IInv, NEW h \in Handlers, ReadScenario(h)
  PROVE  IInv'
<1> DEFINE x == req[h].scenario
           new == [op |-> "frozen", scenario |-> x, inputs |-> req[h].inputs,
                   outputs |-> scenario[x].outputs]
<1>1. /\ req[h].op = "freeze" /\ scenario[x].status = "CALCULATED"
      /\ req' = [req EXCEPT ![h] = new]
      /\ UNCHANGED <<owner, inputs, scenario, snapshots, connection, jobs, serial>>
  BY DEF ReadScenario
<1>2. /\ new.op = "frozen" /\ new.scenario = x /\ new.inputs = req[h].inputs
      /\ new.outputs = scenario[x].outputs
  OBVIOUS
<1> HIDE DEF new
<1>3. req'[h] = new
  BY <1>1 DEF IInv, Typed
<1>4. x \in Scenarios /\ Exists(x[1]) /\ (serial => req[h].inputs = inputs[x[1]])
  BY <1>1 DEF IInv, RequestFits, FreezeFits
<1>5. RequestFits(h)'
  BY <1>1, <1>2, <1>3, <1>4 DEF RequestFits, FreezeFits, FrozenFits, Exists
<1>6. serial => \A k \in Handlers \ {h} : ~Busy(k)
  BY <1>1 DEF IInv, OneAtATime, Busy
<1> QED
  BY <1>1, <1>5, <1>6, RequestMoves

LEMMA BeginQueueStep ==
  ASSUME IInv, NEW h \in Handlers, NEW c \in Connections, BeginQueue(h, c)
  PROVE  IInv'
<1> DEFINE new == [op |-> "queue", connection |-> c, read |-> connection[c]]
<1>1. Begin(h, new) /\ Exists(c)
      /\ UNCHANGED <<owner, inputs, scenario, snapshots, connection, jobs, serial>>
  BY DEF BeginQueue
<1>2. new.op = "queue" /\ new.connection = c
  OBVIOUS
<1> HIDE DEF new
<1>3. req'[h] = new
  BY <1>1, NewRequest DEF IInv
<1>4. RequestFits(h)'
  BY <1>1, <1>2, <1>3 DEF RequestFits, QueueFits, Exists
<1> QED
  BY <1>1, <1>4, BeginMoves

LEMMA BeginRunStep ==
  ASSUME IInv, NEW h \in Handlers, NEW c \in Connections, NEW s \in Studies \cup {NoStudy},
         BeginRun(h, c, s)
  PROVE  IInv'
<1> DEFINE new == [op |-> "run", connection |-> c, study |-> s, read |-> "SYNCING"]
<1>1. Begin(h, new) /\ Exists(c) /\ Feeds(c, s)
      /\ UNCHANGED <<owner, inputs, scenario, snapshots, connection, jobs, serial>>
  BY DEF BeginRun
<1>2. new.op = "run" /\ new.connection = c /\ new.study = s /\ new.read = "SYNCING"
  OBVIOUS
<1> HIDE DEF new
<1>3. req'[h] = new
  BY <1>1, NewRequest DEF IInv
<1>4. RequestFits(h)'
  BY <1>1, <1>2, <1>3 DEF RequestFits, RunFits, Exists, Feeds
<1> QED
  BY <1>1, <1>4, BeginMoves

LEMMA BeginApplyStep ==
  ASSUME IInv, NEW h \in Handlers, NEW j \in DOMAIN jobs, BeginApply(h, j)
  PROVE  IInv'
<1> DEFINE s == jobs[j].study
           new == [op |-> "apply", job |-> j, inputs |-> Merge(inputs[s], j)]
<1>1. Begin(h, new) /\ jobs[j].status = "SUCCEEDED" /\ s # NoStudy
      /\ UNCHANGED <<owner, inputs, scenario, snapshots, connection, jobs, serial>>
  BY DEF BeginApply
<1>2. new.op = "apply" /\ new.job = j /\ new.inputs = Merge(inputs[s], j)
  OBVIOUS
<1> HIDE DEF new
<1>3. req'[h] = new
  BY <1>1, NewRequest DEF IInv
<1>4. s \in Studies /\ Exists(s)
  BY <1>1, JobTypes DEF IInv, JobsFit, Feeds
<1>5. \A f \in Fields : Accounted(s, f, inputs[s][f])
  BY <1>4 DEF IInv, InputsFit
<1>6. ApplyFits(h)'
  <2>1. /\ req'[h].job = j /\ req'[h].inputs = Merge(inputs[s], j) /\ jobs' = jobs
        /\ inputs' = inputs
    BY <1>1, <1>2, <1>3
  <2>2. DOMAIN Merge(inputs[s], j) = Fields
    BY DEF Merge
  <2>3. \A f \in Fields : \/ Accounted(s, f, Merge(inputs[s], j)[f])
                          \/ Merge(inputs[s], j)[f] = j /\ f \in jobs[j].patch
    BY <1>5 DEF Merge
  <2> QED
    BY <1>1, <2>1, <2>2, <2>3 DEF ApplyFits, Accounted, Applied, Merge
<1>7. RequestFits(h)'
  BY <1>2, <1>3, <1>6 DEF RequestFits
<1> QED
  BY <1>1, <1>7, BeginMoves

-----------------------------------------------------------------------------
(* New studies, scenarios and connections.                                 *)

LEMMA CreateStudyStep ==
  ASSUME IInv, NEW s \in Studies, NEW t \in Tenants, CreateStudy(s, t)
  PROVE  IInv'
<1>1. /\ Typed /\ JobsFit /\ InputsFit /\ AppliedStays /\ ScenariosFit /\ SnapshotsFit
      /\ OneAtATime /\ ConnectionTellsItsLastRun /\ serial \in BOOLEAN
  BY DEF IInv
<1>2. /\ ~Exists(s) /\ scenario' = scenario /\ snapshots' = snapshots
      /\ connection' = connection /\ jobs' = jobs /\ serial' = serial /\ req' = req
      /\ owner' = [owner EXCEPT ![s] = t]
      /\ inputs' = [inputs EXCEPT ![s] = [f \in Fields |-> Declared]]
  BY DEF CreateStudy
<1>3. /\ \A r \in Studies \cup Connections : r # s => owner'[r] = owner[r]
      /\ \A r \in Studies : r # s => inputs'[r] = inputs[r]
      /\ inputs'[s] = [f \in Fields |-> Declared]
  BY <1>1, <1>2 DEF Typed
<1>4. Typed'
  BY <1>1, <1>2 DEF Typed
<1>5. Grows /\ Unread
  BY <1>2, <1>3 DEF Grows, Unread, Exists
<1>6. JobsFit'
  <2>1. SUFFICES ASSUME NEW j \in DOMAIN jobs
                 PROVE  /\ Exists(jobs[j].connection)' /\ Feeds(jobs[j].connection, jobs[j].study)'
                        /\ jobs'[j].status = "APPLIED" => jobs'[j].study # NoStudy
    BY <1>2 DEF JobsFit
  <2>2. PICK c \in Connections, u \in Studies \cup {NoStudy} : c = jobs[j].connection /\ u = jobs[j].study
    BY <1>1, JobTypes
  <2>3. Exists(c) /\ Feeds(c, u)
    BY <1>1, <2>2 DEF JobsFit
  <2>4. Exists(c)' /\ Feeds(c, u)'
    BY <1>5, <2>3, FeedsGrows
  <2> QED
    BY <1>1, <1>2, <2>2, <2>4 DEF JobsFit, Exists, Feeds
<1>7. InputsFit'
  BY <1>1, <1>2, <1>3 DEF InputsFit, Exists, Accounted, Applied
<1>8. AppliedStays'
  <2>1. \A j \in DOMAIN jobs : jobs[j].status = "APPLIED" =>
           jobs[j].study \in Studies /\ Exists(jobs[j].study)
    BY <1>1, JobTypes DEF JobsFit, Feeds
  <2> QED
    BY <1>1, <1>2, <1>3, <2>1 DEF AppliedStays
<1>9. ScenariosFit' /\ SnapshotsFit'
  BY <1>1, <1>2, <1>3, ScenarioStudy DEF ScenariosFit, SnapshotsFit, Exists, Shows, Applied, Result
<1>10. ConnectionTellsItsLastRun' /\ OneAtATime'
  BY <1>1, <1>2 DEF ConnectionTellsItsLastRun, Ran, OneAtATime, Busy
<1>11. \A k \in Handlers : RequestFits(k)'
  BY <1>2, <1>5, OthersFit
<1> QED
  BY <1>1, <1>2, <1>4, <1>6, <1>7, <1>8, <1>9, <1>10, <1>11 DEF IInv

LEMMA CreateScenarioStep ==
  ASSUME IInv, NEW x \in Scenarios, NEW overrides \in Overrides, CreateScenario(x, overrides)
  PROVE  IInv'
<1> DEFINE row == [NoRow EXCEPT !.status = "DRAFT", !.overrides = overrides]
<1>1. /\ Typed /\ JobsFit /\ InputsFit /\ AppliedStays /\ ScenariosFit /\ SnapshotsFit
      /\ OneAtATime /\ ConnectionTellsItsLastRun /\ serial \in BOOLEAN
  BY DEF IInv
<1>2. /\ Exists(x[1]) /\ scenario[x] = NoRow
      /\ owner' = owner /\ inputs' = inputs /\ snapshots' = snapshots
      /\ connection' = connection /\ jobs' = jobs /\ serial' = serial /\ req' = req
      /\ scenario' = [scenario EXCEPT ![x] = row]
  BY DEF CreateScenario
<1>3. DOMAIN row = Columns /\ row.status = "DRAFT"
  BY DEF NoRow, Columns
<1>4. scenario[x].status = "none"
  BY <1>2 DEF NoRow
<1> HIDE DEF row
<1>5. /\ scenario'[x] = row /\ DOMAIN scenario' = Scenarios
      /\ \A y \in Scenarios : y # x => scenario'[y] = scenario[y]
  BY <1>1, <1>2 DEF Typed
<1>6. Typed'
  BY <1>1, <1>2, <1>3, <1>5 DEF Typed
<1>7. Grows /\ Unread
  BY <1>2, <1>4, <1>5 DEF Grows, Unread
<1>8. JobsFit' /\ InputsFit' /\ AppliedStays'
  BY <1>1, <1>2 DEF JobsFit, Exists, Feeds, InputsFit, Accounted, Applied, AppliedStays
<1>9. ScenariosFit'
  BY <1>1, <1>2, <1>3, <1>5 DEF ScenariosFit, Exists, Shows, Applied, Result
<1>10. SnapshotsFit'
  BY <1>1, <1>2, <1>4, <1>5 DEF SnapshotsFit, Shows, Applied, Result
<1>11. ConnectionTellsItsLastRun' /\ OneAtATime'
  BY <1>1, <1>2 DEF ConnectionTellsItsLastRun, Ran, OneAtATime, Busy
<1>12. \A k \in Handlers : RequestFits(k)'
  BY <1>2, <1>7, OthersFit
<1> QED
  BY <1>1, <1>2, <1>6, <1>8, <1>9, <1>10, <1>11, <1>12 DEF IInv

LEMMA CreateConnectionStep ==
  ASSUME IInv, NEW c \in Connections, NEW t \in Tenants, CreateConnection(c, t)
  PROVE  IInv'
<1>1. /\ Typed /\ JobsFit /\ InputsFit /\ AppliedStays /\ ScenariosFit /\ SnapshotsFit
      /\ OneAtATime /\ ConnectionTellsItsLastRun /\ serial \in BOOLEAN
  BY DEF IInv
<1>2. /\ ~Exists(c) /\ scenario' = scenario /\ snapshots' = snapshots
      /\ inputs' = inputs /\ jobs' = jobs /\ serial' = serial /\ req' = req
      /\ owner' = [owner EXCEPT ![c] = t]
      /\ connection' = [connection EXCEPT ![c] = "PENDING_HOMOLOGATION"]
  BY DEF CreateConnection
<1>3. /\ \A r \in Studies \cup Connections : r # c => owner'[r] = owner[r]
      /\ \A d \in Connections : d # c => connection'[d] = connection[d]
      /\ c \notin Studies
  BY <1>1, <1>2, ViabilityAssumption DEF Typed
<1>4. Typed'
  BY <1>1, <1>2 DEF Typed
<1>5. Grows /\ Unread
  BY <1>2, <1>3 DEF Grows, Unread, Exists
<1>6. \A j \in DOMAIN jobs :
        /\ jobs[j].connection \in Connections /\ Exists(jobs[j].connection)
        /\ jobs[j].connection # c
        /\ jobs[j].study \in Studies \cup {NoStudy}
  BY <1>1, <1>2, JobTypes DEF JobsFit
<1>7. JobsFit'
  <2>1. SUFFICES ASSUME NEW j \in DOMAIN jobs
                 PROVE  /\ Exists(jobs[j].connection)' /\ Feeds(jobs[j].connection, jobs[j].study)'
                        /\ jobs'[j].status = "APPLIED" => jobs'[j].study # NoStudy
    BY <1>2 DEF JobsFit
  <2>2. PICK d \in Connections, u \in Studies \cup {NoStudy} : d = jobs[j].connection /\ u = jobs[j].study
    BY <1>6
  <2>3. Exists(d) /\ Feeds(d, u)
    BY <1>1, <2>2 DEF JobsFit
  <2>4. Exists(d)' /\ Feeds(d, u)'
    BY <1>5, <2>3, FeedsGrows
  <2> QED
    BY <1>1, <1>2, <2>2, <2>4 DEF JobsFit, Exists, Feeds
<1>8. InputsFit' /\ AppliedStays'
  BY <1>1, <1>2, <1>3 DEF InputsFit, Exists, Accounted, Applied, AppliedStays
<1>9. ScenariosFit' /\ SnapshotsFit'
  BY <1>1, <1>2, <1>3, ScenarioStudy DEF ScenariosFit, SnapshotsFit, Exists, Shows, Applied, Result
<1>10. ConnectionTellsItsLastRun' /\ OneAtATime'
  BY <1>1, <1>2, <1>3, <1>6 DEF ConnectionTellsItsLastRun, Ran, OneAtATime, Busy
<1>11. \A k \in Handlers : RequestFits(k)'
  BY <1>2, <1>5, OthersFit
<1> QED
  BY <1>1, <1>2, <1>4, <1>7, <1>8, <1>9, <1>10, <1>11 DEF IInv

-----------------------------------------------------------------------------
(* Commits.                                                                *)

\* The requests that a commit leaves to be served.
LEMMA CommitLeaves ==
  ASSUME IInv, NEW h \in Handlers, req[h].op # "idle", End(h), Grows
  PROVE  /\ DOMAIN req' = Handlers /\ OneAtATime'
         /\ \A k \in Handlers : RequestFits(k)'
<1>1. Typed /\ OneAtATime
  BY DEF IInv
<1>2. /\ req'[h] = Idle /\ DOMAIN req' = Handlers /\ Idle.op = "idle"
      /\ \A k \in Handlers : k # h => req'[k] = req[k]
  BY <1>1 DEF Typed, End, Idle
<1>3. RequestFits(h)'
  BY <1>2 DEF RequestFits
<1>4. \A k \in Handlers \ {h} : serial => ~Busy(k)
  BY <1>1 DEF OneAtATime, Busy
<1>5. \A k \in Handlers \ {h} : RequestFits(k)'
  BY <1>2, <1>4, OthersFit
<1>6. OneAtATime'
  BY <1>1, <1>2 DEF OneAtATime, Busy, Grows
<1> QED
  BY <1>2, <1>3, <1>5, <1>6

LEMMA CommitCalculationStep ==
  ASSUME IInv, NEW h \in Handlers, CommitCalculation(h)
  PROVE  IInv'
<1> DEFINE x == req[h].scenario
           result == req[h].result
           row == [scenario[x] EXCEPT !.status = "CALCULATED",
                       !.outputs = IF result = req[h].read THEN scenario[x].outputs ELSE result,
                       !.flow = result]
<1>1. /\ Typed /\ JobsFit /\ InputsFit /\ AppliedStays /\ ScenariosFit /\ SnapshotsFit
      /\ OneAtATime /\ ConnectionTellsItsLastRun /\ serial \in BOOLEAN
  BY DEF IInv
<1>2. /\ req[h].op = "calculate" /\ End(h)
      /\ owner' = owner /\ inputs' = inputs /\ snapshots' = snapshots
      /\ connection' = connection /\ jobs' = jobs /\ serial' = serial
      /\ scenario' = [scenario EXCEPT ![x] = row]
  BY DEF CommitCalculation
<1>3. /\ x \in Scenarios /\ scenario[x].status # "none" /\ Exists(x[1])
      /\ serial => /\ req[h].read = scenario[x].outputs
                   /\ result = Result(inputs[x[1]], scenario[x].overrides)
  BY <1>1, <1>2 DEF IInv, RequestFits, CalculationFits, ScenariosFit
<1>4. DOMAIN scenario[x] = Columns
  BY <1>1, <1>3 DEF Typed
<1>5. /\ DOMAIN row = Columns /\ row.status = "CALCULATED"
      /\ row.overrides = scenario[x].overrides /\ row.flow = result
      /\ row.outputs = (IF result = req[h].read THEN scenario[x].outputs ELSE result)
  BY <1>4 DEF Columns
<1> HIDE DEF row
<1>6. /\ scenario'[x] = row /\ DOMAIN scenario' = Scenarios
      /\ \A y \in Scenarios : y # x => scenario'[y] = scenario[y]
  BY <1>1, <1>2, <1>3 DEF Typed
<1>7. Grows
  BY <1>2, <1>3, <1>5, <1>6 DEF Grows
<1>8. /\ DOMAIN req' = Handlers /\ OneAtATime'
      /\ \A k \in Handlers : RequestFits(k)'
  BY <1>2, <1>7, CommitLeaves
<1>9. Typed'
  BY <1>1, <1>2, <1>5, <1>6, <1>8 DEF Typed
<1>10. JobsFit' /\ InputsFit' /\ AppliedStays'
  BY <1>1, <1>2 DEF JobsFit, Exists, Feeds, InputsFit, Accounted, Applied, AppliedStays
<1>11. serial => row.outputs = row.flow /\ Shows(row.outputs, row.overrides, inputs[x[1]])
  BY <1>3, <1>5 DEF Shows, Result
<1>12. ScenariosFit'
  <2>1. SUFFICES ASSUME NEW y \in Scenarios
                 PROVE  /\ scenario'[y].status = "none" => scenario'[y] = NoRow
                        /\ scenario'[y].status # "none" => Exists(y[1])'
                        /\ serial' /\ scenario'[y].status = "CALCULATED" =>
                              /\ scenario'[y].outputs = scenario'[y].flow
                              /\ Shows(scenario[y].outputs, scenario[y].overrides, inputs[y[1]])'
    BY DEF ScenariosFit
  <2>2. CASE y = x
    BY <1>2, <1>3, <1>5, <1>6, <1>11, <2>2 DEF Exists, Shows, Applied, Result
  <2>3. CASE y # x
    BY <1>1, <1>2, <1>6, <2>3 DEF ScenariosFit, Exists, Shows, Applied, Result
  <2> QED
    BY <2>2, <2>3
<1>13. SnapshotsFit'
  BY <1>1, <1>2, <1>5, <1>6 DEF SnapshotsFit, Shows, Applied, Result
<1>14. ConnectionTellsItsLastRun'
  BY <1>1, <1>2 DEF ConnectionTellsItsLastRun, Ran
<1> QED
  BY <1>1, <1>2, <1>8, <1>9, <1>10, <1>12, <1>13, <1>14 DEF IInv

LEMMA CommitSnapshotStep ==
  ASSUME IInv, NEW h \in Handlers, CommitSnapshot(h)
  PROVE  IInv'
<1> DEFINE x == req[h].scenario
           new == [scenario |-> x, inputs |-> req[h].inputs, outputs |-> req[h].outputs,
                   flow |-> scenario[x].flow]
<1>1. /\ Typed /\ JobsFit /\ InputsFit /\ AppliedStays /\ ScenariosFit /\ SnapshotsFit
      /\ OneAtATime /\ ConnectionTellsItsLastRun /\ serial \in BOOLEAN
  BY DEF IInv
<1>2. /\ req[h].op = "frozen" /\ End(h)
      /\ owner' = owner /\ inputs' = inputs /\ scenario' = scenario
      /\ connection' = connection /\ jobs' = jobs /\ serial' = serial
      /\ snapshots' = snapshots \cup {new}
  BY DEF CommitSnapshot
<1>3. /\ new.scenario = x /\ new.inputs = req[h].inputs /\ new.outputs = req[h].outputs
      /\ new.flow = scenario[x].flow
  OBVIOUS
<1> HIDE DEF new
<1>4. /\ x \in Scenarios /\ scenario[x].status = "CALCULATED"
      /\ serial => req[h].inputs = inputs[x[1]] /\ req[h].outputs = scenario[x].outputs
  BY <1>1, <1>2 DEF IInv, RequestFits, FreezeFits, FrozenFits
<1>5. Grows
  BY <1>2 DEF Grows
<1>6. /\ DOMAIN req' = Handlers /\ OneAtATime'
      /\ \A k \in Handlers : RequestFits(k)'
  BY <1>2, <1>5, CommitLeaves
<1>7. Typed'
  BY <1>1, <1>2, <1>6 DEF Typed
<1>8. JobsFit' /\ InputsFit' /\ AppliedStays' /\ ScenariosFit'
  BY <1>1, <1>2 DEF JobsFit, Exists, Feeds, InputsFit, Accounted, Applied, AppliedStays,
                    ScenariosFit, Shows, Result
<1>9. serial => /\ new.outputs = new.flow
                /\ Shows(new.outputs, scenario[x].overrides, new.inputs)
  BY <1>1, <1>3, <1>4 DEF ScenariosFit
<1>10. SnapshotsFit'
  BY <1>1, <1>2, <1>3, <1>4, <1>9 DEF SnapshotsFit, Shows, Applied, Result
<1>11. ConnectionTellsItsLastRun'
  BY <1>1, <1>2 DEF ConnectionTellsItsLastRun, Ran
<1> QED
  BY <1>1, <1>2, <1>6, <1>7, <1>8, <1>10, <1>11 DEF IInv

\* A job is added; it is not applied yet.
LEMMA JobCommitted ==
  ASSUME IInv, NEW h \in Handlers, req[h].op # "idle", End(h), NEW new \in Jobs,
         jobs' = Append(jobs, new), Exists(new.connection), Feeds(new.connection, new.study),
         new.status # "APPLIED", DOMAIN connection' = Connections,
         UNCHANGED <<owner, inputs, scenario, snapshots, serial>>, ConnectionTellsItsLastRun'
  PROVE  IInv'
<1>1. /\ Typed /\ JobsFit /\ InputsFit /\ AppliedStays /\ ScenariosFit /\ SnapshotsFit
      /\ serial \in BOOLEAN /\ jobs \in Seq(Jobs)
  BY DEF IInv, Typed
<1>2. /\ owner' = owner /\ inputs' = inputs /\ snapshots' = snapshots
      /\ scenario' = scenario /\ serial' = serial
  OBVIOUS
<1>3. /\ DOMAIN jobs = 1 .. Len(jobs) /\ DOMAIN jobs' = 1 .. Len(jobs) + 1 /\ Len(jobs) \in Nat
      /\ jobs'[Len(jobs) + 1] = new /\ \A j \in DOMAIN jobs : jobs'[j] = jobs[j]
      /\ jobs' \in Seq(Jobs)
  BY <1>1
<1>4. /\ DOMAIN jobs \subseteq DOMAIN jobs'
      /\ \A j \in DOMAIN jobs' : j \in DOMAIN jobs \/ jobs'[j] = new
  BY <1>3
<1>5. Grows
  BY <1>2, <1>3, <1>4 DEF Grows
<1>6. /\ DOMAIN req' = Handlers /\ OneAtATime'
      /\ \A k \in Handlers : RequestFits(k)'
  BY <1>5, CommitLeaves
<1>7. Typed'
  BY <1>1, <1>2, <1>3, <1>6 DEF Typed
<1>8. JobsFit'
  BY <1>1, <1>2, <1>3, <1>4 DEF JobsFit, Exists, Feeds
<1>9. \A o : Applied(o) => o \in DOMAIN jobs' /\ jobs'[o].status = "APPLIED" /\ jobs'[o] = jobs[o]
  BY <1>3, <1>4 DEF Applied
<1>10. InputsFit'
  BY <1>1, <1>2, <1>9 DEF InputsFit, Exists, Accounted, Applied
<1>11. AppliedStays'
  BY <1>1, <1>2, <1>3, <1>4 DEF AppliedStays
<1>12. ScenariosFit'
  BY <1>1, <1>2, <1>9 DEF ScenariosFit, Exists, Shows, Applied, Result
<1>13. SnapshotsFit'
  BY <1>1, <1>2, <1>9 DEF SnapshotsFit, Shows, Applied, Result
<1> QED
  BY <1>1, <1>2, <1>6, <1>7, <1>8, <1>10, <1>11, <1>12, <1>13 DEF IInv

LEMMA CommitQueueStep ==
  ASSUME IInv, NEW h \in Handlers, CommitQueue(h)
  PROVE  IInv'
<1> DEFINE c == req[h].connection
           new == Job(c, NoStudy, "QUEUED", {})
<1>1. /\ req[h].op = "queue" /\ End(h) /\ jobs' = Append(jobs, new)
      /\ UNCHANGED <<owner, inputs, scenario, snapshots, serial>>
      /\ \/ connection' = connection
         \/ connection' = [connection EXCEPT ![c] = "SYNC_QUEUED"]
  BY DEF CommitQueue
<1>2. c \in Connections /\ Exists(c)
  BY <1>1 DEF IInv, RequestFits, QueueFits
<1>3. new \in Jobs /\ new.connection = c /\ new.study = NoStudy /\ new.status = "QUEUED"
  BY <1>2 DEF Job, Jobs
<1> HIDE DEF new
<1>4. Feeds(c, NoStudy)
  BY DEF Feeds
<1>5. /\ DOMAIN connection' = Connections
      /\ \A d \in Connections : connection'[d] \in {connection[d], "SYNC_QUEUED"}
  BY <1>1 DEF IInv, Typed
<1>6. ConnectionTellsItsLastRun'
  <2>1. jobs \in Seq(Jobs) /\ Typed /\ ConnectionTellsItsLastRun
    BY DEF IInv, Typed
  <2>2. /\ DOMAIN jobs \subseteq DOMAIN jobs' /\ \A j \in DOMAIN jobs : jobs'[j] = jobs[j]
        /\ \A j \in DOMAIN jobs' : j \in DOMAIN jobs \/ jobs'[j] = new
    BY <1>1, <2>1
  <2>3. SUFFICES ASSUME NEW j \in DOMAIN jobs', jobs'[j].status # "QUEUED",
                        \A i \in DOMAIN jobs' : jobs'[i].status # "QUEUED"
                           /\ jobs'[i].connection = jobs'[j].connection => i <= j,
                        connection'[jobs'[j].connection] \in {"ACTIVE", "ERROR"}
                 PROVE  connection'[jobs'[j].connection] =
                            IF jobs'[j].status = "FAILED" THEN "ERROR" ELSE "ACTIVE"
    BY DEF ConnectionTellsItsLastRun, Ran
  <2>4. j \in DOMAIN jobs /\ jobs'[j] = jobs[j]
    BY <1>3, <2>2, <2>3
  <2>5. jobs[j].connection \in Connections
    BY <2>1, <2>4, JobTypes
  <2>6. connection'[jobs[j].connection] = connection[jobs[j].connection]
    BY <1>5, <2>3, <2>4, <2>5
  <2>7. \A i \in DOMAIN jobs : Ran(i) /\ jobs[i].connection = jobs[j].connection => i <= j
    BY <2>2, <2>3, <2>4 DEF Ran
  <2> QED
    BY <2>1, <2>3, <2>4, <2>6, <2>7 DEF ConnectionTellsItsLastRun, Ran
<1> QED
  BY <1>1, <1>2, <1>3, <1>4, <1>5, <1>6, JobCommitted

LEMMA EndRunStep ==
  ASSUME IInv, NEW h \in Handlers, NEW status \in {"SUCCEEDED", "FAILED"},
         NEW patch \in SUBSET Fields, EndRun(h, status, patch)
  PROVE  IInv'
<1> DEFINE c == req[h].connection
           outcome == IF status = "SUCCEEDED" THEN "ACTIVE" ELSE "ERROR"
           new == Job(c, req[h].study, status, patch)
<1>1. /\ req[h].op = "run" /\ End(h) /\ jobs' = Append(jobs, new)
      /\ UNCHANGED <<owner, inputs, scenario, snapshots, serial>>
      /\ connection' = IF req[h].read = outcome THEN connection
                       ELSE [connection EXCEPT ![c] = outcome]
  BY DEF EndRun
<1>2. /\ c \in Connections /\ Exists(c)
      /\ req[h].study \in Studies \cup {NoStudy} /\ Feeds(c, req[h].study)
      /\ req[h].read = "SYNCING"
  BY <1>1 DEF IInv, RequestFits, RunFits
<1>3. /\ new \in Jobs /\ new.connection = c /\ new.study = req[h].study
      /\ new.status = status
  BY <1>2 DEF Job, Jobs
<1> HIDE DEF new
<1>4. connection' = [connection EXCEPT ![c] = outcome]
  BY <1>1, <1>2
<1>5. /\ DOMAIN connection' = Connections /\ connection'[c] = outcome
      /\ \A d \in Connections : d # c => connection'[d] = connection[d]
  BY <1>2, <1>4 DEF IInv, Typed
<1>6. ConnectionTellsItsLastRun'
  <2>1. jobs \in Seq(Jobs) /\ Typed /\ ConnectionTellsItsLastRun
    BY DEF IInv, Typed
  <2>2. /\ DOMAIN jobs = 1 .. Len(jobs) /\ DOMAIN jobs' = 1 .. Len(jobs) + 1 /\ Len(jobs) \in Nat
        /\ jobs'[Len(jobs) + 1] = new /\ \A j \in DOMAIN jobs : jobs'[j] = jobs[j]
    BY <1>1, <2>1
  <2>3. SUFFICES ASSUME NEW j \in DOMAIN jobs', jobs'[j].status # "QUEUED",
                        \A i \in DOMAIN jobs' : jobs'[i].status # "QUEUED"
                           /\ jobs'[i].connection = jobs'[j].connection => i <= j,
                        connection'[jobs'[j].connection] \in {"ACTIVE", "ERROR"}
                 PROVE  connection'[jobs'[j].connection] =
                            IF jobs'[j].status = "FAILED" THEN "ERROR" ELSE "ACTIVE"
    BY DEF ConnectionTellsItsLastRun, Ran
  <2>4. CASE j = Len(jobs) + 1
    BY <1>3, <1>5, <2>2, <2>4
  <2>5. CASE j # Len(jobs) + 1
    <3>1. j \in DOMAIN jobs /\ jobs'[j] = jobs[j] /\ j < Len(jobs) + 1
      BY <2>2, <2>3, <2>5
    <3>2. Len(jobs) + 1 \in DOMAIN jobs' /\ ~(Len(jobs) + 1 <= j)
      BY <2>2, <3>1
    <3>3. jobs[j].connection # c
      BY <1>3, <2>2, <2>3, <3>1, <3>2
    <3>4. jobs[j].connection \in Connections
      BY <2>1, <3>1, JobTypes
    <3>5. connection'[jobs[j].connection] = connection[jobs[j].connection]
      BY <1>5, <3>3, <3>4
    <3>6. \A i \in DOMAIN jobs : i \in DOMAIN jobs' /\ jobs'[i] = jobs[i]
      BY <2>2
    <3>7. \A i \in DOMAIN jobs : Ran(i) /\ jobs[i].connection = jobs[j].connection => i <= j
      BY <2>3, <3>1, <3>6 DEF Ran
    <3> QED
      BY <2>1, <2>3, <3>1, <3>5, <3>7 DEF ConnectionTellsItsLastRun, Ran
  <2> QED
    BY <2>4, <2>5
<1> QED
  BY <1>1, <1>2, <1>3, <1>5, <1>6, JobCommitted

LEMMA CommitApplyStep ==
  ASSUME IInv, NEW h \in Handlers, CommitApply(h)
  PROVE  IInv'
<1> DEFINE j == req[h].job
           s == jobs[j].study
           row == [jobs[j] EXCEPT !.status = "APPLIED"]
<1>1. /\ Typed /\ JobsFit /\ InputsFit /\ AppliedStays /\ ScenariosFit /\ SnapshotsFit
      /\ ConnectionTellsItsLastRun /\ serial \in BOOLEAN /\ jobs \in Seq(Jobs)
  BY DEF IInv, Typed
<1>2. /\ req[h].op = "apply" /\ End(h)
      /\ owner' = owner /\ scenario' = scenario /\ snapshots' = snapshots
      /\ connection' = connection /\ serial' = serial
      /\ inputs' = [inputs EXCEPT ![s] = req[h].inputs]
      /\ jobs' = [jobs EXCEPT ![j] = row]
  BY DEF CommitApply
<1>3. /\ j \in DOMAIN jobs /\ jobs[j].status \in {"SUCCEEDED", "APPLIED"} /\ s # NoStudy
      /\ DOMAIN req[h].inputs = Fields
      /\ \A f \in Fields : \/ Accounted(s, f, req[h].inputs[f])
                           \/ req[h].inputs[f] = j /\ f \in jobs[j].patch
      /\ serial => req[h].inputs = Merge(inputs[s], j)
  BY <1>2 DEF IInv, RequestFits, ApplyFits
<1>4. jobs[j] \in Jobs
  BY <1>1, <1>3
<1>5. /\ row \in Jobs /\ row.connection = jobs[j].connection /\ row.study = s
      /\ row.patch = jobs[j].patch /\ row.status = "APPLIED"
  BY <1>4 DEF Jobs
<1> HIDE DEF row
<1>6. s \in Studies /\ Exists(s)
  BY <1>1, <1>3, JobTypes DEF JobsFit, Feeds
<1>7. /\ jobs' \in Seq(Jobs) /\ DOMAIN jobs' = DOMAIN jobs /\ jobs'[j] = row
      /\ \A i \in DOMAIN jobs : i # j => jobs'[i] = jobs[i]
  BY <1>1, <1>2, <1>3, <1>5
<1>8. /\ DOMAIN inputs' = Studies /\ inputs'[s] = req[h].inputs
      /\ \A u \in Studies : u # s => inputs'[u] = inputs[u]
  BY <1>1, <1>2, <1>6 DEF Typed
<1>9. Grows
  BY <1>2, <1>3, <1>5, <1>7 DEF Grows
<1>10. /\ DOMAIN req' = Handlers /\ OneAtATime'
       /\ \A k \in Handlers : RequestFits(k)'
  BY <1>2, <1>9, CommitLeaves
<1>11. Typed'
  BY <1>1, <1>2, <1>7, <1>8, <1>10 DEF Typed
<1>12. \A i \in DOMAIN jobs : /\ jobs'[i].connection = jobs[i].connection
                              /\ jobs'[i].study = jobs[i].study /\ jobs'[i].patch = jobs[i].patch
  BY <1>5, <1>7
<1>13. JobsFit'
  BY <1>1, <1>2, <1>3, <1>7, <1>12 DEF JobsFit, Exists, Feeds
<1>14. \A o : Applied(o) => o \in DOMAIN jobs' /\ jobs'[o].status = "APPLIED"
  BY <1>5, <1>7 DEF Applied
<1>15. j \in DOMAIN jobs' /\ jobs'[j].status = "APPLIED"
  BY <1>3, <1>5, <1>7
<1>16. InputsFit'
  <2>1. SUFFICES ASSUME NEW u \in Studies, Exists(u)'
                 PROVE  /\ DOMAIN inputs'[u] = Fields
                        /\ \A f \in Fields : Accounted(u, f, inputs[u][f])'
    BY DEF InputsFit
  <2>2. \A f, o : Accounted(u, f, o) => Accounted(u, f, o)'
    BY <1>12, <1>14 DEF Accounted, Applied
  <2>3. CASE u # s
    BY <1>1, <1>2, <1>8, <2>1, <2>2, <2>3 DEF InputsFit, Exists, Accounted
  <2>4. CASE u = s
    <3>1. PICK data, patch, i : data = req[h].inputs /\ patch = jobs[j].patch /\ i = j
      OBVIOUS
    <3>2. /\ DOMAIN data = Fields
          /\ \A f \in Fields : Accounted(u, f, data[f]) \/ (data[f] = i /\ f \in patch)
      BY <1>3, <2>4, <3>1
    <3>3. /\ i \in DOMAIN jobs' /\ jobs'[i].status = "APPLIED"
          /\ jobs'[i].study = u /\ jobs'[i].patch = patch
      BY <1>3, <1>12, <1>15, <2>4, <3>1
    <3>4. \A f \in patch : Accounted(u, f, i)'
      BY <3>3 DEF Accounted, Applied
    <3>5. \A f \in Fields : Accounted(u, f, data[f])'
      BY <2>2, <3>2, <3>4
    <3>6. inputs'[u] = data
      BY <1>8, <2>4, <3>1
    <3> HIDE DEF s, j
    <3> QED
      BY <3>2, <3>5, <3>6 DEF Accounted, Applied
  <2> QED
    BY <2>3, <2>4
<1>17. AppliedStays'
  <2>1. SUFFICES ASSUME serial, NEW i \in DOMAIN jobs, jobs'[i].status = "APPLIED",
                        NEW f \in jobs[i].patch
                 PROVE  inputs'[jobs[i].study][f] # Declared
    BY <1>2, <1>7, <1>12 DEF AppliedStays
  <2>2. inputs'[s] = Merge(inputs[s], j)
    BY <1>3, <1>8, <2>1
  <2>3. f \in Fields /\ jobs[i].study \in Studies \cup {NoStudy} /\ j \in 1 .. Len(jobs)
    BY <1>1, <1>3, <2>1, JobTypes
  <2>4. CASE i = j
    BY <2>1, <2>2, <2>3, <2>4 DEF Merge, Declared
  <2>5. CASE i # j
    <3>1. jobs[i].status = "APPLIED" /\ inputs[jobs[i].study][f] # Declared
      BY <1>1, <1>7, <2>1, <2>5 DEF AppliedStays
    <3>2. jobs[i].study \in Studies
      BY <1>1, <2>3, <3>1 DEF JobsFit
    <3>3. Merge(inputs[s], j)[f] = j \/ Merge(inputs[s], j)[f] = inputs[s][f]
      BY <2>3 DEF Merge
    <3>4. CASE jobs[i].study = s
      BY <2>2, <2>3, <3>1, <3>3, <3>4 DEF Declared
    <3>5. CASE jobs[i].study # s
      BY <1>8, <3>1, <3>2, <3>5
    <3> QED
      BY <3>4, <3>5
  <2> QED
    BY <2>4, <2>5
<1>18. ScenariosFit'
  <2>1. \A x \in Scenarios : x[1] \in Studies
    BY ScenarioStudy
  <2>2. SUFFICES ASSUME serial, NEW x \in Scenarios, scenario[x].status = "CALCULATED", NEW f \in Fields
                 PROVE  \/ scenario[x].outputs[f] = Result(inputs'[x[1]], scenario[x].overrides)[f]
                        \/ Applied(inputs[x[1]][f])'
    BY <1>1, <1>2 DEF ScenariosFit, Exists, Shows, Result
  <2>3. \/ scenario[x].outputs[f] = Result(inputs[x[1]], scenario[x].overrides)[f]
        \/ Applied(inputs[x[1]][f])
    BY <1>1, <2>2 DEF ScenariosFit, Shows
  <2>4. inputs'[x[1]][f] = inputs[x[1]][f] \/ inputs'[x[1]][f] = j
    BY <1>3, <1>8, <2>1, <2>2 DEF Merge
  <2> QED
    BY <1>14, <1>15, <2>3, <2>4 DEF Result, Applied
<1>19. SnapshotsFit'
  BY <1>1, <1>2, <1>14 DEF SnapshotsFit, Shows, Applied, Result
<1>20. ConnectionTellsItsLastRun'
  <2>1. \A i \in DOMAIN jobs : /\ Ran(i)' <=> Ran(i)
                               /\ jobs'[i].status = "FAILED" <=> jobs[i].status = "FAILED"
    BY <1>3, <1>5, <1>7 DEF Ran
  <2> QED
    BY <1>1, <1>2, <1>7, <1>12, <2>1 DEF ConnectionTellsItsLastRun
<1> QED
  BY <1>1, <1>2, <1>10, <1>11, <1>13, <1>16, <1>17, <1>18, <1>19, <1>20 DEF IInv

-----------------------------------------------------------------------------
(* The invariant is inductive.                                             *)

LEMMA Initially == Init => IInv
<1> SUFFICES ASSUME Init PROVE IInv
  OBVIOUS
<1>1. /\ \A x \in Scenarios : DOMAIN scenario[x] = Columns /\ scenario[x] = NoRow
                              /\ scenario[x].status = "none"
      /\ \A r \in Studies \cup Connections : owner[r] = "none"
      /\ \A h \in Handlers : req[h].op = "idle"
      /\ jobs = <<>> /\ DOMAIN jobs = {} /\ snapshots = {}
  BY DEF Init, NoRow, Columns, Idle
<1>2. Typed /\ serial \in BOOLEAN
  BY <1>1 DEF Init, Typed
<1>3. JobsFit /\ InputsFit /\ AppliedStays /\ ScenariosFit /\ SnapshotsFit
  BY <1>1 DEF JobsFit, InputsFit, AppliedStays, ScenariosFit, SnapshotsFit, Exists
<1>4. OneAtATime /\ (\A h \in Handlers : RequestFits(h)) /\ ConnectionTellsItsLastRun
  BY <1>1 DEF OneAtATime, Busy, RequestFits, ConnectionTellsItsLastRun
<1> QED
  BY <1>2, <1>3, <1>4 DEF IInv

LEMMA Inductive == IInv /\ [Next]_vars => IInv'
<1> SUFFICES ASSUME IInv, [Next]_vars PROVE IInv'
  OBVIOUS
<1>1. ASSUME NEW h \in Handlers, NEW answer \in Answers, EndRun(h, answer.status, answer.patch)
      PROVE  IInv'
  <2>1. answer.status \in {"SUCCEEDED", "FAILED"} /\ answer.patch \in SUBSET Fields
    BY ViabilityAssumption DEF Answers
  <2> QED
    BY <1>1, <2>1, EndRunStep
<1>2. CASE UNCHANGED vars
  <2>1. /\ owner' = owner /\ inputs' = inputs /\ scenario' = scenario /\ snapshots' = snapshots
        /\ connection' = connection /\ jobs' = jobs /\ req' = req /\ serial' = serial
    BY <1>2 DEF vars
  <2>2. Grows /\ Unread
    BY <2>1 DEF Grows, Unread
  <2>3. \A k \in Handlers : RequestFits(k)'
    BY <2>1, <2>2, OthersFit
  <2>4. Typed' /\ serial' \in BOOLEAN
    BY <2>1 DEF IInv, Typed
  <2>5. JobsFit' /\ InputsFit' /\ AppliedStays'
    BY <2>1 DEF IInv, JobsFit, InputsFit, AppliedStays, Exists, Feeds, Accounted, Applied
  <2>6. ScenariosFit' /\ SnapshotsFit'
    BY <2>1 DEF IInv, ScenariosFit, SnapshotsFit, Exists, Shows, Applied, Result
  <2>7. OneAtATime'
    BY <2>1 DEF IInv, OneAtATime, Busy
  <2>8. ConnectionTellsItsLastRun'
    BY <2>1 DEF IInv, ConnectionTellsItsLastRun, Exists, Ran
  <2> QED
    BY <2>3, <2>4, <2>5, <2>6, <2>7, <2>8 DEF IInv
<1>3. CASE \E s \in Studies, t \in Tenants : CreateStudy(s, t)
  BY <1>3, CreateStudyStep
<1>4. CASE \E x \in Scenarios, overrides \in Overrides : CreateScenario(x, overrides)
  BY <1>4, CreateScenarioStep
<1>5. CASE \E c \in Connections, t \in Tenants : CreateConnection(c, t)
  BY <1>5, CreateConnectionStep
<1>6. ASSUME NEW h \in Handlers,
             \/ Abort(h) \/ CommitCalculation(h) \/ ReadScenario(h) \/ CommitSnapshot(h)
             \/ CommitQueue(h) \/ CommitApply(h)
      PROVE  IInv'
  BY <1>6, AbortStep, CommitCalculationStep, ReadScenarioStep, CommitSnapshotStep,
     CommitQueueStep, CommitApplyStep
<1>7. ASSUME NEW h \in Handlers,
             \/ \E x \in Scenarios : BeginCalculation(h, x)
             \/ \E x \in Scenarios : BeginSnapshot(h, x)
             \/ \E c \in Connections : BeginQueue(h, c)
             \/ \E c \in Connections, s \in Studies \cup {NoStudy} : BeginRun(h, c, s)
             \/ \E j \in DOMAIN jobs : BeginApply(h, j)
      PROVE  IInv'
  BY <1>7, BeginCalculationStep, BeginSnapshotStep, BeginQueueStep, BeginRunStep, BeginApplyStep
<1> QED
  BY <1>1, <1>2, <1>3, <1>4, <1>5, <1>6, <1>7 DEF Next

-----------------------------------------------------------------------------
(* Theorems.                                                               *)

\* The inductive invariant holds of every reachable state: what a request
\* holds in its hands agrees with what is stored, and when no requests overlap
\* it is what is stored.
THEOREM Invariance == Spec => []IInv
BY Initially, Inductive, PTL DEF Spec

\* Every input that was not declared was brought, for this very study, by an
\* applied job of a connection of the study's own tenant, and no applied field
\* is lost when no requests overlap (run_erp_sync, apply_erp_sync).
THEOREM Accounting == Spec => []InputsAreAccountedFor
<1>1. IInv => InputsAreAccountedFor
  <2> SUFFICES ASSUME IInv PROVE InputsAreAccountedFor
    OBVIOUS
  <2>1. Typed /\ JobsFit /\ InputsFit /\ AppliedStays
    BY DEF IInv
  <2>2. ASSUME NEW s \in Studies, Exists(s), NEW f \in Fields, inputs[s][f] # Declared
        PROVE  LET job == jobs[inputs[s][f]]
               IN  /\ job.status = "APPLIED" /\ job.study = s /\ f \in job.patch
                   /\ owner[job.connection] = owner[s]
    <3>1. PICK o : o = inputs[s][f]
      OBVIOUS
    <3>2. o \in DOMAIN jobs /\ jobs[o].status = "APPLIED" /\ jobs[o].study = s /\ f \in jobs[o].patch
      BY <2>1, <2>2, <3>1 DEF InputsFit, Accounted, Applied
    <3>3. owner[jobs[o].connection] = owner[s]
      BY <2>1, <3>2 DEF JobsFit, Feeds
    <3> QED
      BY <3>1, <3>2, <3>3
  <2> QED
    BY <2>1, <2>2 DEF AppliedStays, InputsAreAccountedFor
<1> QED
  BY <1>1, Invariance, PTL

\* A connection that shows the outcome of a run shows that of its last one,
\* however runs and requests overlap (run_erp_sync, request_erp_sync).
THEOREM LastRun == Spec => []ConnectionTellsItsLastRun
<1>1. IInv => ConnectionTellsItsLastRun
  BY DEF IInv
<1> QED
  BY <1>1, Invariance, PTL

\* When no requests overlap, a snapshot is of one calculation and older than
\* the inputs it shows only where a job has been applied (calculate_scenario,
\* create_snapshot).
THEOREM OneCalculation == Spec => []SnapshotsShowOneCalculation
<1>1. IInv => SnapshotsShowOneCalculation
  BY DEF IInv, SnapshotsFit, Shows, Applied, SnapshotsShowOneCalculation
<1> QED
  BY <1>1, Invariance, PTL

-----------------------------------------------------------------------------
(* Induction over the naturals, and over what a recursive function yields. *)

LEMMA LeastNatural ==
    ASSUME NEW T \in SUBSET Nat, T # {}
    PROVE  \E x \in T : \A y \in T : x <= y
<1> DEFINE R == OpToRel(<, Nat)
<1>1. IsWellFoundedOn(R, Nat)
  BY NatLessThanWellFounded
<1>2. \A x, y \in Nat : y < x => <<y, x>> \in R
  BY DEF R, OpToRel
<1> HIDE DEF R
<1>3. PICK x \in T : \A y \in T : ~ (<<y, x>> \in R)
  BY <1>1, WFMin
<1>4. ASSUME NEW y \in T, ~ (x <= y)
      PROVE  FALSE
  <2>1. x \in Nat /\ y \in Nat /\ y < x
    BY <1>4
  <2>2. <<y, x>> \in R
    BY <1>2, <2>1
  <2> QED
    BY <1>3, <2>2
<1> QED
  BY <1>4

LEMMA StepByStep ==
    ASSUME NEW S, 0 \in S, \A n \in Nat : n \in S => n + 1 \in S
    PROVE  \A n \in Nat : n \in S
<1> SUFFICES ASSUME Nat \ S # {}
             PROVE  FALSE
  OBVIOUS
<1>1. PICK m \in Nat \ S : \A y \in Nat \ S : m <= y
  BY LeastNatural
<1>2. m # 0 /\ m - 1 \in Nat
  BY <1>1
<1>3. m - 1 \in S
  BY <1>1, <1>2
<1>4. (m - 1) + 1 \in S
  BY <1>2, <1>3
<1> QED
  BY <1>1, <1>4

-----------------------------------------------------------------------------
(* Sums.                                                                   *)

Whole(v, n) == \A i \in 1..n : v[i] \in Int

\* f holds the sums of the first values of v.
IsRunning(f, v, n) ==
    /\ f = [i \in 0..n |-> f[i]]
    /\ f[0] = 0
    /\ \A i \in 1..n : f[i] = f[i - 1] + v[i]

Running(values, n) ==
    LET sum[i \in 0..n] == IF i = 0 THEN 0 ELSE sum[i - 1] + values[i]
    IN  sum

LEMMA RunningExists ==
    ASSUME NEW v, NEW n \in Nat, Whole(v, n)
    PROVE  \E f : IsRunning(f, v, n)
<1> DEFINE S == {k \in Nat : k <= n => \E f : IsRunning(f, v, k)}
<1>1. 0 \in S
  <2>1. IsRunning([i \in 0..0 |-> 0], v, 0)
    BY DEF IsRunning
  <2> QED
    BY <2>1
<1>2. ASSUME NEW k \in Nat, k \in S
      PROVE  k + 1 \in S
  <2> SUFFICES ASSUME k + 1 <= n
               PROVE  \E f : IsRunning(f, v, k + 1)
    OBVIOUS
  <2>1. PICK f : IsRunning(f, v, k)
    BY <1>2
  <2>2. IsRunning([i \in 0..k + 1 |-> IF i <= k THEN f[i] ELSE f[k] + v[k + 1]], v, k + 1)
    <3> DEFINE g == [i \in 0..k + 1 |-> IF i <= k THEN f[i] ELSE f[k] + v[k + 1]]
    <3>1. g = [i \in 0..k + 1 |-> g[i]] /\ g[0] = 0 /\ g[k + 1] = g[k] + v[k + 1]
      BY <2>1 DEF IsRunning
    <3>2. ASSUME NEW i \in 1..k
          PROVE  g[i] = g[i - 1] + v[i]
      <4>1. g[i] = f[i] /\ g[i - 1] = f[i - 1]
        OBVIOUS
      <4> QED
        BY <2>1, <4>1 DEF IsRunning
    <3> HIDE DEF g
    <3>3. ASSUME NEW i \in 1..k + 1
          PROVE  g[i] = g[i - 1] + v[i]
      <4>1. i \in 1..k \/ (i = k + 1 /\ i - 1 = k)
        OBVIOUS
      <4> QED
        BY <3>1, <3>2, <4>1
    <3>4. IsRunning(g, v, k + 1)
      BY <3>1, <3>3 DEF IsRunning
    <3> QED
      BY <3>4 DEF g
  <2> QED
    BY <2>2
<1> HIDE DEF S
<1>3. n \in S
  BY <1>1, <1>2, StepByStep
<1> QED
  BY <1>3 DEF S

LEMMA RunningRuns ==
    ASSUME NEW v, NEW n \in Nat, Whole(v, n)
    PROVE  IsRunning(Running(v, n), v, n)
<1>1. PICK f : IsRunning(f, v, n)
  BY RunningExists
<1>2. f = [i \in 0..n |-> IF i = 0 THEN 0 ELSE f[i - 1] + v[i]]
  <2>1. f = [i \in 0..n |-> f[i]]
    BY <1>1 DEF IsRunning
  <2>2. \A i \in 0..n : f[i] = IF i = 0 THEN 0 ELSE f[i - 1] + v[i]
    BY <1>1 DEF IsRunning
  <2> QED
    BY <2>1, <2>2
<1>3. Running(v, n) = [i \in 0..n |-> IF i = 0 THEN 0 ELSE Running(v, n)[i - 1] + v[i]]
  BY <1>2 DEF Running
<1> HIDE DEF Running
<1> QED
  BY <1>3 DEF IsRunning

\* What is summed determines the sums.
LEMMA RunningAgree ==
    ASSUME NEW v, NEW n \in Nat, NEW f, IsRunning(f, v, n),
           NEW w, NEW m \in Nat, NEW g, IsRunning(g, w, m),
           NEW k \in Nat, k <= n, k <= m, \A i \in 1..k : v[i] = w[i]
    PROVE  f[k] = g[k]
<1> DEFINE S == {j \in Nat : j <= k => f[j] = g[j]}
<1>1. 0 \in S
  BY DEF IsRunning
<1>2. ASSUME NEW j \in Nat, j \in S
      PROVE  j + 1 \in S
  <2> SUFFICES ASSUME j + 1 <= k
               PROVE  f[j + 1] = g[j + 1]
    OBVIOUS
  <2>1. f[j] = g[j] /\ v[j + 1] = w[j + 1]
    BY <1>2
  <2>2. j + 1 \in 1..n /\ j + 1 \in 1..m /\ (j + 1) - 1 = j
    OBVIOUS
  <2>3. f[j + 1] = f[j] + v[j + 1] /\ g[j + 1] = g[j] + w[j + 1]
    BY <2>2 DEF IsRunning
  <2> QED
    BY <2>1, <2>3
<1> HIDE DEF S
<1>3. k \in S
  BY <1>1, <1>2, StepByStep
<1> QED
  BY <1>3 DEF S

LEMMA TotalIsLast ==
    ASSUME NEW v, NEW n
    PROVE  Total(v, n) = Running(v, n)[n]
BY DEF Total, Running

LEMMA TotalNone ==
    ASSUME NEW v
    PROVE  Total(v, 0) = 0
<1>1. IsRunning(Running(v, 0), v, 0)
  BY RunningRuns DEF Whole
<1> QED
  BY <1>1, TotalIsLast DEF IsRunning

\* Only what is summed matters.
LEMMA TotalSame ==
    ASSUME NEW v, NEW w, NEW n \in Nat, Whole(v, n), \A i \in 1..n : v[i] = w[i]
    PROVE  Total(v, n) = Total(w, n)
<1>1. Whole(w, n)
  BY DEF Whole
<1>2. IsRunning(Running(v, n), v, n) /\ IsRunning(Running(w, n), w, n)
  BY <1>1, RunningRuns
<1>3. Running(v, n)[n] = Running(w, n)[n]
  BY <1>2, RunningAgree
<1> QED
  BY <1>3, TotalIsLast

LEMMA TotalOneMore ==
    ASSUME NEW v, NEW n \in Nat, Whole(v, n + 1)
    PROVE  Total(v, n + 1) = Total(v, n) + v[n + 1]
<1>1. Whole(v, n)
  BY DEF Whole
<1>2. IsRunning(Running(v, n), v, n) /\ IsRunning(Running(v, n + 1), v, n + 1)
  BY <1>1, RunningRuns
<1>3. Running(v, n)[n] = Running(v, n + 1)[n]
  BY <1>2, RunningAgree
<1>4. Running(v, n + 1)[n + 1] = Running(v, n + 1)[n] + v[n + 1]
  BY <1>2 DEF IsRunning
<1> QED
  BY <1>3, <1>4, TotalIsLast

LEMMA TotalWhole ==
    ASSUME NEW v, NEW n \in Nat, Whole(v, n)
    PROVE  Total(v, n) \in Int
<1> DEFINE S == {k \in Nat : k <= n => Total(v, k) \in Int}
<1>1. 0 \in S
  BY TotalNone
<1>2. ASSUME NEW k \in Nat, k \in S
      PROVE  k + 1 \in S
  <2> SUFFICES ASSUME k + 1 <= n
               PROVE  Total(v, k + 1) \in Int
    OBVIOUS
  <2>1. Whole(v, k + 1) /\ Total(v, k) \in Int /\ v[k + 1] \in Int
    BY <1>2 DEF Whole
  <2> QED
    BY <2>1, TotalOneMore
<1> HIDE DEF S
<1>3. n \in S
  BY <1>1, <1>2, StepByStep
<1> QED
  BY <1>3 DEF S

\* A sum that begins with something and takes nothing away is something.
LEMMA TotalPositive ==
    ASSUME NEW v, NEW n \in Nat \ {0}, \A i \in 1..n : v[i] \in Nat, v[1] > 0
    PROVE  Total(v, n) > 0
<1> DEFINE S == {k \in Nat : k + 1 <= n => Total(v, k + 1) > 0}
<1>0. Whole(v, n)
  BY DEF Whole
<1>1. 0 \in S
  <2>1. Whole(v, 0 + 1) /\ v[1] \in Nat
    BY <1>0 DEF Whole
  <2>2. Total(v, 0 + 1) = Total(v, 0) + v[0 + 1]
    BY <2>1, TotalOneMore
  <2> QED
    BY <2>1, <2>2, TotalNone
<1>2. ASSUME NEW k \in Nat, k \in S
      PROVE  k + 1 \in S
  <2> SUFFICES ASSUME (k + 1) + 1 <= n
               PROVE  Total(v, (k + 1) + 1) > 0
    OBVIOUS
  <2>1. Whole(v, (k + 1) + 1) /\ Whole(v, k + 1) /\ v[(k + 1) + 1] \in Nat
    BY <1>0 DEF Whole
  <2>2. Total(v, k + 1) > 0 /\ Total(v, k + 1) \in Int
    BY <1>2, <2>1, TotalWhole
  <2>3. Total(v, (k + 1) + 1) = Total(v, k + 1) + v[(k + 1) + 1]
    BY <2>1, TotalOneMore
  <2> QED
    BY <2>1, <2>2, <2>3
<1> HIDE DEF S
<1>3. n - 1 \in S
  BY <1>1, <1>2, StepByStep
<1> QED
  BY <1>3 DEF S

LEMMA TotalScaled ==
    ASSUME NEW v, NEW w, NEW n \in Nat, Whole(v, n), NEW c \in Int,
           \A i \in 1..n : w[i] = v[i] * c
    PROVE  Total(w, n) = Total(v, n) * c
<1> DEFINE S == {k \in Nat : k <= n => Total(w, k) = Total(v, k) * c}
<1>1. 0 \in S
  BY TotalNone
<1>2. ASSUME NEW k \in Nat, k \in S
      PROVE  k + 1 \in S
  <2> SUFFICES ASSUME k + 1 <= n
               PROVE  Total(w, k + 1) = Total(v, k + 1) * c
    OBVIOUS
  <2>1. /\ Whole(v, k + 1) /\ Whole(v, k) /\ v[k + 1] \in Int
        /\ w[k + 1] = v[k + 1] * c /\ Total(w, k) = Total(v, k) * c
    BY <1>2 DEF Whole
  <2>2. Whole(w, k + 1)
    BY <2>1 DEF Whole
  <2>3. Total(v, k) \in Int
    BY <2>1, TotalWhole
  <2>4. /\ Total(v, k + 1) = Total(v, k) + v[k + 1]
        /\ Total(w, k + 1) = Total(w, k) + w[k + 1]
    BY <2>1, <2>2, TotalOneMore
  <2>5. \A x, y \in Int : (x + y) * c = x * c + y * c
    OBVIOUS
  <2> QED
    BY <2>1, <2>3, <2>4, <2>5
<1> HIDE DEF S
<1>3. n \in S
  BY <1>1, <1>2, StepByStep
<1> QED
  BY <1>3 DEF S

-----------------------------------------------------------------------------
(* Growth.                                                                 *)

Grown(x, rate) == x * (1 + rate)

IsPower(f, rate, n) ==
    /\ f = [i \in 0..n |-> f[i]]
    /\ f[0] = 1
    /\ \A i \in 1..n : f[i] = Grown(f[i - 1], rate)

Powers(rate, n) ==
    LET power[j \in 0..n] == IF j = 0 THEN 1 ELSE Grown(power[j - 1], rate)
    IN  power

LEMMA PowersExist ==
    ASSUME NEW rate \in Nat, NEW n \in Nat
    PROVE  \E f : IsPower(f, rate, n)
<1> DEFINE S == {k \in Nat : \E f : IsPower(f, rate, k)}
<1>1. 0 \in S
  <2>1. IsPower([i \in 0..0 |-> 1], rate, 0)
    BY DEF IsPower
  <2> QED
    BY <2>1
<1>2. ASSUME NEW k \in Nat, k \in S
      PROVE  k + 1 \in S
  <2>1. PICK f : IsPower(f, rate, k)
    BY <1>2
  <2>2. IsPower([i \in 0..k + 1 |-> IF i <= k THEN f[i] ELSE Grown(f[k], rate)], rate, k + 1)
    <3> DEFINE g == [i \in 0..k + 1 |-> IF i <= k THEN f[i] ELSE Grown(f[k], rate)]
    <3>1. g = [i \in 0..k + 1 |-> g[i]] /\ g[0] = 1 /\ g[k + 1] = Grown(g[k], rate)
      BY <2>1 DEF IsPower
    <3>2. ASSUME NEW i \in 1..k
          PROVE  g[i] = Grown(g[i - 1], rate)
      <4>1. g[i] = f[i] /\ g[i - 1] = f[i - 1]
        OBVIOUS
      <4> QED
        BY <2>1, <4>1 DEF IsPower
    <3> HIDE DEF g
    <3>3. \A i \in 1..k + 1 : g[i] = Grown(g[i - 1], rate)
      <4> SUFFICES ASSUME NEW i \in 1..k + 1
                   PROVE  g[i] = Grown(g[i - 1], rate)
        OBVIOUS
      <4>1. i \in 1..k \/ (i = k + 1 /\ i - 1 = k)
        OBVIOUS
      <4> QED
        BY <3>1, <3>2, <4>1
    <3>4. IsPower(g, rate, k + 1)
      BY <3>1, <3>3 DEF IsPower
    <3> QED
      BY <3>4 DEF g
  <2> QED
    BY <2>2
<1> HIDE DEF S
<1>3. n \in S
  BY <1>1, <1>2, StepByStep
<1> QED
  BY <1>3 DEF S

LEMMA PowersRun ==
    ASSUME NEW rate \in Nat, NEW n \in Nat
    PROVE  IsPower(Powers(rate, n), rate, n)
<1>1. PICK f : IsPower(f, rate, n)
  BY PowersExist
<1>2. f = [i \in 0..n |-> IF i = 0 THEN 1 ELSE Grown(f[i - 1], rate)]
  <2>1. ASSUME NEW i \in 0..n
        PROVE  f[i] = IF i = 0 THEN 1 ELSE Grown(f[i - 1], rate)
    <3>1. i = 0 \/ i \in 1..n
      OBVIOUS
    <3> QED
      BY <1>1, <3>1 DEF IsPower
  <2> QED
    BY <1>1, <2>1 DEF IsPower
<1>3. Powers(rate, n) = [i \in 0..n |-> IF i = 0 THEN 1 ELSE Grown(Powers(rate, n)[i - 1], rate)]
  BY <1>2 DEF Powers
<1> HIDE DEF Powers
<1> QED
  BY <1>3 DEF IsPower

LEMMA GrowthIsLast ==
    ASSUME NEW rate, NEW n
    PROVE  Growth(rate, n) = Powers(rate, n)[n]
BY DEF Growth, Powers, Grown

LEMMA PowersAgree ==
    ASSUME NEW rate \in Nat, NEW n \in Nat, NEW k \in Nat, k <= n
    PROVE  Powers(rate, n)[k] = Growth(rate, k)
<1> DEFINE f == Powers(rate, n)
           g == Powers(rate, k)
           S == {j \in Nat : j <= k => f[j] = g[j]}
<1>0. IsPower(f, rate, n) /\ IsPower(g, rate, k)
  BY PowersRun
<1> HIDE DEF f, g
<1>1. 0 \in S
  BY <1>0 DEF IsPower
<1>2. ASSUME NEW j \in Nat, j \in S
      PROVE  j + 1 \in S
  <2> SUFFICES ASSUME j + 1 <= k
               PROVE  f[j + 1] = g[j + 1]
    OBVIOUS
  <2>1. f[j] = g[j]
    BY <1>2
  <2>2. j + 1 \in 1..n /\ j + 1 \in 1..k /\ (j + 1) - 1 = j
    OBVIOUS
  <2>3. f[j + 1] = Grown(f[j], rate) /\ g[j + 1] = Grown(g[j], rate)
    BY <1>0, <2>2 DEF IsPower
  <2> QED
    BY <2>1, <2>3
<1> HIDE DEF S
<1>3. k \in S
  BY <1>1, <1>2, StepByStep
<1> QED
  BY <1>3, GrowthIsLast DEF S, f, g

\* Money grows by its rate every month.
LEMMA GrowthGrows ==
    ASSUME NEW rate \in Nat, NEW k \in Nat
    PROVE  Growth(rate, 0) = 1 /\ Growth(rate, k + 1) = Growth(rate, k) * (1 + rate)
<1>1. IsPower(Powers(rate, 0), rate, 0) /\ IsPower(Powers(rate, k + 1), rate, k + 1)
  BY PowersRun
<1>2. Growth(rate, 0) = 1
  BY <1>1, GrowthIsLast DEF IsPower
<1>3. Powers(rate, k + 1)[k + 1] = Grown(Powers(rate, k + 1)[k], rate)
  <2>1. k + 1 \in 1..k + 1 /\ (k + 1) - 1 = k
    OBVIOUS
  <2> QED
    BY <1>1, <2>1 DEF IsPower
<1>4. Powers(rate, k + 1)[k] = Growth(rate, k)
  BY PowersAgree
<1> QED
  BY <1>2, <1>3, <1>4, GrowthIsLast DEF Grown

LEMMA GrowthWhole ==
    ASSUME NEW rate \in Nat, NEW n \in Nat
    PROVE  Growth(rate, n) \in Int
<1> DEFINE S == {k \in Nat : Growth(rate, k) \in Int}
<1>1. 0 \in S
  BY GrowthGrows
<1>2. ASSUME NEW k \in Nat, k \in S
      PROVE  k + 1 \in S
  BY <1>2, GrowthGrows
<1> HIDE DEF S
<1>3. n \in S
  BY <1>1, <1>2, StepByStep
<1> QED
  BY <1>3 DEF S

-----------------------------------------------------------------------------
(* Plans.                                                                  *)

LEMMA LeastOfTwo ==
    ASSUME NEW a \in Int, NEW b \in Int
    PROVE  /\ Min({a, b}) = (IF a <= b THEN a ELSE b)
           /\ Max({a, b}) = (IF a <= b THEN b ELSE a)
<1>1. Min({a, b}) \in {a, b} /\ Min({a, b}) <= a /\ Min({a, b}) <= b
  <2>1. \E x \in {a, b} : \A y \in {a, b} : x <= y
    OBVIOUS
  <2> QED
    BY <2>1 DEF Min
<1>2. Max({a, b}) \in {a, b} /\ Max({a, b}) >= a /\ Max({a, b}) >= b
  <2>1. \E x \in {a, b} : \A y \in {a, b} : x >= y
    OBVIOUS
  <2> QED
    BY <2>1 DEF Max
<1> QED
  BY <1>1, <1>2

LEMMA AtLeastOne ==
    ASSUME NEW m \in Int
    PROVE  Max({1, m}) \in Int /\ Max({1, m}) >= 1
<1>1. PICK one \in Int : one = 1
  OBVIOUS
<1>2. Max({one, m}) = IF one <= m THEN m ELSE one
  BY LeastOfTwo
<1> QED
  BY <1>1, <1>2

LEMMA Quotient ==
    ASSUME NEW a \in Nat, NEW b \in Nat \ {0}
    PROVE  /\ a \div b \in Nat
           /\ a % b = 0 => b * (a \div b) = a
OBVIOUS

LEMMA ProductWhole ==
    ASSUME NEW a \in Nat, NEW b \in Nat
    PROVE  a * b \in Nat
OBVIOUS

LEMMA PercentWhole ==
    ASSUME NEW v \in Nat
    PROVE  Percent(v) \in Nat
BY DEF Percent

LEMMA PaddedWhole ==
    ASSUME NEW S \in {Nat, Int}, NEW values \in Seq(S), NEW n \in Nat, NEW i \in 1..n
    PROVE  Padded(values, n)[i] \in S
BY DEF Padded

\* Weights are natural numbers and not all of them are zero.
LEMMA WeightsWeigh ==
    ASSUME NEW curve \in Seq(Nat), NEW n \in Nat \ {0}, NEW default \in Nat
    PROVE  /\ \A i \in 1..n : Weights(curve, n, default)[i] \in Nat
           /\ Total(Weights(curve, n, default), n) \in Nat \ {0}
<1> DEFINE shares == [i \in DOMAIN curve |-> Percent(curve[i])]
           given == Padded(shares, n)
           even == [i \in 1..n |-> IF i <= Max({1, Min({n, default})}) THEN 1 ELSE 0]
<1>1. shares \in Seq(Nat)
  <2>1. \A i \in DOMAIN curve : Percent(curve[i]) \in Nat
    BY PercentWhole
  <2> QED
    BY <2>1
<1> HIDE DEF shares
<1>2. \A i \in 1..n : given[i] \in Nat
  BY <1>1, PaddedWhole
<1> HIDE DEF given
<1>3. \A i \in 1..n : even[i] \in Nat
  OBVIOUS
<1>4. even[1] > 0
  <2>1. PICK m \in Int : m = Min({n, default})
    BY LeastOfTwo
  <2>2. Max({1, m}) >= 1
    BY AtLeastOne
  <2> QED
    BY <2>1, <2>2
<1> HIDE DEF even
<1>5. Weights(curve, n, default) = IF Total(given, n) > 0 THEN given ELSE even
  BY DEF Weights, given, even, shares
<1>6. Total(given, n) \in Int
  BY <1>2, TotalWhole DEF Whole
<1>7. Total(even, n) \in Int /\ Total(even, n) > 0
  BY <1>3, <1>4, TotalWhole, TotalPositive DEF Whole
<1> QED
  BY <1>2, <1>3, <1>5, <1>6, <1>7

LEMMA SpreadWhole ==
    ASSUME NEW total \in Nat, NEW curve \in Seq(Nat), NEW n \in Nat \ {0},
           NEW default \in Nat, NEW i \in 1..n
    PROVE  Spread(total, curve, n, default)[i] \in Nat
<1>1. PICK w, t : /\ w = Weights(curve, n, default) /\ t = Total(w, n)
                  /\ w[i] \in Nat /\ t \in Nat \ {0}
  BY WeightsWeigh
<1>2. Spread(total, curve, n, default)[i] = (total * w[i]) \div t
  BY <1>1 DEF Spread
<1>3. total * w[i] \in Nat
  BY <1>1, ProductWhole
<1> QED
  BY <1>1, <1>2, <1>3, Quotient

LEMMA PlanFits ==
    ASSUME NEW p \in Calculated
    PROVE  /\ p.months \in Nat \ {0}
           /\ p.rate \in Nat /\ p.discount \in Nat
           /\ p.grace \in Nat /\ p.amortization \in Nat
           /\ Share(p) \in 0..100
           /\ FundingCap(p) \in Nat
           /\ \A i \in 1..p.months :
                 /\ Works(p)[i] \in Nat
                 /\ Revenues(p)[i] \in Int /\ Others(p)[i] \in Int /\ Land(p)[i] \in Int
                 /\ Padded(p.equity, p.months)[i] \in Int
<1>1. /\ p.months \in Nat \ {0}
      /\ p.rate \in Nat /\ p.discount \in Nat
      /\ p.grace \in Nat /\ p.amortization \in Nat
      /\ p.funding \in Nat /\ p.bdi \in Nat
      /\ p.vgv \in Nat /\ p.units \in Nat /\ p.unitPrice \in Nat
      /\ p.construction \in Nat /\ p.area \in Nat /\ p.costPerArea \in Nat
  BY PlanAssumption
<1>2. /\ p.land \in Nat /\ p.other \in Nat
      /\ p.constructionMonths \in Nat /\ p.absorptionMonths \in Nat
      /\ p.absorption \in Seq(Nat) /\ p.curve \in Seq(Nat)
      /\ p.cashSchedule \in Seq(Int) /\ p.landSchedule \in Seq(Int) /\ p.equity \in Seq(Int)
  BY PlanAssumption
<1>3. Share(p) \in 0..100
  <2>1. PICK percent \in Nat : percent = Percent(p.funding)
    BY <1>1, PercentWhole
  <2>2. Min({100, percent}) = IF 100 <= percent THEN 100 ELSE percent
    BY LeastOfTwo
  <2> QED
    BY <2>1, <2>2 DEF Share
<1>4. Construction(p) \in Nat
  <2>1. Percent(p.bdi) \in Nat /\ p.area * p.costPerArea \in Nat
    BY <1>1, PercentWhole, ProductWhole
  <2>2. p.area * p.costPerArea * (100 + Percent(p.bdi)) \in Nat
    BY <2>1, ProductWhole
  <2> QED
    BY <1>1, <2>2, Quotient DEF Construction
<1>5. FundingCap(p) \in Nat
  <2>1. Construction(p) * Share(p) \in Nat
    BY <1>3, <1>4, ProductWhole
  <2> QED
    BY <2>1, Quotient DEF FundingCap
<1>6. Revenue(p) \in Nat
  BY <1>1, ProductWhole DEF Revenue
<1>7. ASSUME NEW i \in 1..p.months
      PROVE  /\ Works(p)[i] \in Nat
             /\ Revenues(p)[i] \in Int /\ Others(p)[i] \in Int /\ Land(p)[i] \in Int
             /\ Padded(p.equity, p.months)[i] \in Int
  <2>1. Works(p)[i] \in Nat
    BY <1>1, <1>2, <1>4, SpreadWhole DEF Works
  <2>2. Others(p)[i] \in Int
    <3>1. <<>> \in Seq(Nat)
      OBVIOUS
    <3>2. Spread(p.other, <<>>, p.months, p.months)[i] \in Nat
      BY <1>1, <1>2, <3>1, SpreadWhole
    <3> QED
      BY <3>2 DEF Others
  <2>3. Revenues(p)[i] \in Int
    <3>1. Spread(Revenue(p), p.absorption, p.months, p.absorptionMonths)[i] \in Nat
      BY <1>1, <1>2, <1>6, SpreadWhole
    <3>2. Padded(p.cashSchedule, p.months)[i] \in Int
      BY <1>1, <1>2, PaddedWhole
    <3> QED
      BY <3>1, <3>2 DEF Revenues
  <2>4. Land(p)[i] \in Int
    <3>1. (IF p.landSchedule # <<>> THEN p.landSchedule ELSE <<p.land>>) \in Seq(Int)
      BY <1>2
    <3> QED
      BY <1>1, <3>1, PaddedWhole DEF Land
  <2>5. Padded(p.equity, p.months)[i] \in Int
    BY <1>1, <1>2, PaddedWhole
  <2> QED
    BY <2>1, <2>2, <2>3, <2>4, <2>5
<1> QED
  BY <1>1, <1>3, <1>5, <1>7

-----------------------------------------------------------------------------
(* The inductive invariant.                                                *)

Turn == [draw: Nat, repaid: Nat, interest: Int, net: Int, cumulative: Int, debt: Nat, value: Int]

Given == Padded(plan.equity, plan.months)

CashTyped ==
    /\ plan \in Calculated
    /\ flow \in Seq(Turn) /\ Len(flow) <= plan.months
    /\ debt \in Nat /\ remaining \in Nat
    /\ cumulative \in Int /\ unlevered \in Int /\ lowest \in Int
    /\ value \in Int /\ unleveredValue \in Int

Before == [k \in DOMAIN flow |-> BeforeEquity(k)]

\* low is the lowest of the sums of b, and of zero.
IsLowest(low, b, n) ==
    /\ low \in Int /\ low <= 0
    /\ \A k \in 1..n : low <= Total(b, k)
    /\ low < 0 => \E k \in 1..n : low = Total(b, k)

\* The running total is that of the months, and the lowest point is one of theirs.
CashFits ==
    /\ Total(Before, Len(flow)) = cumulative - Total(Given, Len(flow))
    /\ IsLowest(lowest, Before, Len(flow))

Owed == [i \in DOMAIN flow |-> flow[i].draw - flow[i].repaid]

\* Since month d nothing was drawn, and instalments are due.
Settling(d) ==
    /\ plan.amortization > 0 /\ plan.grace <= d
    /\ \A i \in d + 1..Len(flow) : flow[i].draw = 0

LoanFits ==
    /\ debt = Total(Owed, Len(flow))
    /\ debt + remaining <= FundingCap(plan)
    /\ \A d \in 0..Len(flow) : Settling(d) =>
          \/ debt = 0
          \/ debt + (Len(flow) - d) * (FundingCap(plan) \div plan.amortization) <= FundingCap(plan)

\* What is given in each month, in money of month n.
Grow(equity, discount, n) == [i \in 1..n |-> equity[i] * Growth(discount, n - i)]

Worth == Total(Grow(Given, plan.discount, Len(flow)), Len(flow))

Neutral == plan.rate = plan.discount => value - unleveredValue = debt + Worth

ReportFits ==
    Reported =>
        /\ Len(flow) = plan.months
        /\ report.requiredEquity = Max({0, -lowest})
        /\ report.npv = value /\ report.unleveredNpv = unleveredValue

CashInv == CashTyped /\ CashFits /\ LoanFits /\ Neutral /\ ReportFits

\* What one turn of the loop does, with the amounts it moves.
Moves(i, draw, repaid, interest, project) ==
    /\ remaining' = remaining - draw
    /\ debt' = debt + draw - repaid
    /\ cumulative' = cumulative + (project + draw - interest - repaid + Given[i])
    /\ unlevered' = unlevered + project
    /\ lowest' = Min({lowest, cumulative' - Total(Given, i)})
    /\ value' = value * (1 + plan.discount) + (project + draw - interest - repaid + Given[i])
    /\ unleveredValue' = unleveredValue * (1 + plan.discount) + project
    /\ flow' = Append(flow, [draw |-> draw, repaid |-> repaid, interest |-> interest,
                             net |-> project + draw - interest - repaid + Given[i],
                             cumulative |-> cumulative', debt |-> debt', value |-> value'])
    /\ plan' = plan /\ report' = report

Repays(i, repaid) ==
    IF plan.amortization > 0 /\ i > plan.grace
    THEN repaid = Min({FundingCap(plan) \div plan.amortization, debt})
    ELSE repaid = 0

\* The amounts of month i, and what becomes of the plan's state with them.
Amounts(i, draw, repaid, interest, project, net) ==
    /\ i = Len(flow) + 1
    /\ draw = Min({(Works(plan)[i] * Share(plan)) \div 100, remaining})
    /\ repaid = Instalment(i)
    /\ interest = Interest(draw, repaid)
    /\ project = Revenues(plan)[i] - Land(plan)[i] - Works(plan)[i] - Others(plan)[i]
    /\ net = project + draw - interest - repaid + Given[i]

Turns(i, draw, repaid, interest, project, net) ==
    /\ remaining' = remaining - draw
    /\ debt' = Max({0, debt + draw - repaid})
    /\ cumulative' = cumulative + net
    /\ unlevered' = unlevered + project
    /\ lowest' = Lowest(cumulative', Total(Given, i))
    /\ value' = value * (1 + plan.discount) + net
    /\ unleveredValue' = unleveredValue * (1 + plan.discount) + project
    /\ flow' = Append(flow, [draw |-> draw, repaid |-> repaid, interest |-> interest,
                             net |-> net, cumulative |-> cumulative', debt |-> debt',
                             value |-> value'])
    /\ plan' = plan /\ report' = report

LEMMA MonthTurns ==
    ASSUME Month,
           NEW i, NEW draw, NEW repaid, NEW interest, NEW project, NEW net,
           Amounts(i, draw, repaid, interest, project, net)
    PROVE  i <= plan.months /\ Turns(i, draw, repaid, interest, project, net)
<1> DEFINE I == Len(flow) + 1
           D == Min({(Works(plan)[I] * Share(plan)) \div 100, remaining})
           R == Instalment(I)
           T == Interest(D, R)
           P == Revenues(plan)[I] - Land(plan)[I] - Works(plan)[I] - Others(plan)[I]
           N == P + D - T - R + Padded(plan.equity, plan.months)[I]
<1>1. I <= plan.months /\ Turns(I, D, R, T, P, N)
  BY DEF Month, Turns, Given
<1>2. i = I /\ draw = D /\ repaid = R /\ interest = T /\ project = P /\ net = N
  BY DEF Amounts, Given
<1> HIDE DEF I, D, R, T, P, N
<1> QED
  BY <1>1, <1>2

LEMMA MonthMoves ==
    ASSUME CashTyped, Month
    PROVE  \E i \in 1..plan.months, draw, repaid \in Nat, interest, project \in Int :
              /\ i = Len(flow) + 1 /\ Given[i] \in Int
              /\ draw <= remaining /\ repaid <= debt
              /\ interest = debt * plan.rate
              /\ Repays(i, repaid)
              /\ Moves(i, draw, repaid, interest, project)
<1>0. PICK i : i = Len(flow) + 1
  OBVIOUS
<1>1. i \in 1..plan.months /\ plan \in Calculated /\ Len(flow) \in Nat
  <2>1. i <= plan.months
    BY <1>0, SMTT(30) DEF Month
  <2>2. plan \in Calculated /\ Len(flow) \in Nat /\ plan.months \in Nat
    BY PlanFits DEF CashTyped
  <2> QED
    BY <1>0, <2>1, <2>2
<1>2. /\ Given[i] \in Int /\ Works(plan)[i] \in Nat /\ Share(plan) \in 0..100
      /\ FundingCap(plan) \in Nat /\ plan.amortization \in Nat /\ plan.grace \in Nat
      /\ plan.rate \in Nat
      /\ Revenues(plan)[i] \in Int /\ Others(plan)[i] \in Int /\ Land(plan)[i] \in Int
  BY <1>1, PlanFits DEF Given
<1>3. PICK draw \in Nat :
         draw = Min({(Works(plan)[i] * Share(plan)) \div 100, remaining}) /\ draw <= remaining
  <2>1. Works(plan)[i] * Share(plan) \in Nat
    BY <1>2, ProductWhole
  <2>2. PICK due \in Nat : due = (Works(plan)[i] * Share(plan)) \div 100
    BY <2>1, Quotient
  <2>3. remaining \in Nat /\ Min({due, remaining}) = IF due <= remaining THEN due ELSE remaining
    BY LeastOfTwo DEF CashTyped
  <2> QED
    BY <2>2, <2>3
<1>4. PICK repaid \in Nat : repaid = Instalment(i) /\ Repays(i, repaid) /\ repaid <= debt
  <2>0. debt \in Nat
    BY DEF CashTyped
  <2>1. CASE plan.amortization > 0 /\ i > plan.grace
    <3>1. PICK due \in Nat : due = FundingCap(plan) \div plan.amortization
      BY <1>2, <2>1, Quotient
    <3>2. Min({due, debt}) = IF due <= debt THEN due ELSE debt
      BY <2>0, LeastOfTwo
    <3> QED
      BY <2>0, <2>1, <3>1, <3>2 DEF Instalment, Repays
  <2>2. CASE ~ (plan.amortization > 0 /\ i > plan.grace)
    BY <2>0, <2>2 DEF Instalment, Repays
  <2> QED
    BY <2>1, <2>2
<1>5. PICK interest \in Int : interest = debt * plan.rate /\ interest = Interest(draw, repaid)
  <2>1. debt * plan.rate \in Nat
    BY <1>2, ProductWhole DEF CashTyped
  <2> QED
    BY <2>1 DEF Interest
<1>6. PICK project \in Int :
         project = Revenues(plan)[i] - Land(plan)[i] - Works(plan)[i] - Others(plan)[i]
  BY <1>2
<1>7. Max({0, debt + draw - repaid}) = debt + draw - repaid
  <2>1. PICK left \in Nat : left = debt + draw - repaid
    BY <1>4 DEF CashTyped
  <2>2. Max({0, left}) = IF 0 <= left THEN left ELSE 0
    BY LeastOfTwo
  <2> QED
    BY <2>1, <2>2
<1>8. PICK net : /\ net = project + draw - interest - repaid + Given[i]
                /\ Turns(i, draw, repaid, interest, project, net)
  <2>0. PICK net : net = project + draw - interest - repaid + Given[i]
    OBVIOUS
  <2>1. Amounts(i, draw, repaid, interest, project, net)
    BY <1>0, <1>3, <1>4, <1>5, <1>6, <2>0 DEF Amounts
  <2>2. Turns(i, draw, repaid, interest, project, net)
    BY <2>1, MonthTurns
  <2> QED
    BY <2>0, <2>2
<1>9. lowest' = Min({lowest, cumulative' - Total(Given, i)})
  BY <1>8 DEF Turns, Lowest
<1>10. Moves(i, draw, repaid, interest, project)
  BY <1>7, <1>8, <1>9 DEF Turns, Moves
<1> QED
  BY <1>0, <1>1, <1>2, <1>3, <1>4, <1>5, <1>6, <1>10

-----------------------------------------------------------------------------
(* What a turn does to the sums.                                           *)

LEMMA Multiplied ==
    ASSUME NEW a \in Int, NEW b \in Int
    PROVE  a * b \in Int
OBVIOUS

LEMMA OrderTimes ==
    ASSUME NEW a \in Nat, NEW b \in Nat, NEW k \in Nat, a <= b
    PROVE  a * k <= b * k
<1>1. PICK c \in Nat : c = b - a
  OBVIOUS
<1>2. c * k \in Nat
  BY ProductWhole
<1>3. b * k = a * k + c * k
  BY <1>1
<1>4. a * k \in Nat /\ b * k \in Nat
  BY ProductWhole
<1> QED
  BY <1>2, <1>3, <1>4

\* A list that continues another has its sums and one more.
Continues(c, b, n) == \A k \in 1..n : c[k] = b[k]

LEMMA TotalContinues ==
    ASSUME NEW b, NEW c, NEW n \in Nat, Whole(c, n + 1), Continues(c, b, n)
    PROVE  /\ \A k \in 0..n : Total(c, k) = Total(b, k) /\ Total(b, k) \in Int
           /\ Total(c, n + 1) = Total(b, n) + c[n + 1]
<1>1. ASSUME NEW k \in 0..n
      PROVE  Total(c, k) = Total(b, k) /\ Total(b, k) \in Int
  <2>1. Whole(c, k) /\ \A i \in 1..k : c[i] = b[i]
    BY DEF Whole, Continues
  <2>2. Total(c, k) = Total(b, k)
    BY <2>1, TotalSame
  <2>3. Total(c, k) \in Int
    BY <2>1, TotalWhole
  <2> QED
    BY <2>2, <2>3
<1>2. Total(c, n + 1) = Total(c, n) + c[n + 1]
  BY TotalOneMore
<1> QED
  BY <1>1, <1>2

LEMMA LowestContinues ==
    ASSUME NEW b, NEW c, NEW n \in Nat, Whole(c, n + 1), Continues(c, b, n),
           NEW low, IsLowest(low, b, n)
    PROVE  IsLowest(Min({low, Total(c, n + 1)}), c, n + 1)
<1>1. PICK now \in Int : now = Total(c, n + 1)
  BY TotalWhole
<1>2. low \in Int /\ low <= 0
  BY DEF IsLowest
<1>3. PICK next \in Int : next = Min({low, now}) /\ next = IF low <= now THEN low ELSE now
  BY <1>2, LeastOfTwo
<1>4. \A k \in 1..n : low <= Total(c, k) /\ Total(c, k) \in Int
  BY TotalContinues DEF IsLowest
<1>5. \A k \in 1..n + 1 : next <= Total(c, k)
  <2> TAKE k \in 1..n + 1
  <2>1. k \in 1..n \/ k = n + 1
    OBVIOUS
  <2> QED
    BY <1>1, <1>2, <1>3, <1>4, <2>1
<1>6. ASSUME next < 0
      PROVE  \E k \in 1..n + 1 : next = Total(c, k)
  <2>1. CASE low <= now
    <3>1. PICK k \in 1..n : low = Total(b, k)
      BY <1>3, <1>6, <2>1 DEF IsLowest
    <3>2. k \in 1..n + 1 /\ Total(c, k) = Total(b, k)
      BY TotalContinues
    <3> QED
      BY <1>3, <2>1, <3>1, <3>2
  <2>2. CASE ~ (low <= now)
    <3>1. next = Total(c, n + 1) /\ n + 1 \in 1..n + 1
      BY <1>1, <1>3, <2>2
    <3> QED
      BY <3>1
  <2> QED
    BY <2>1, <2>2
<1>7. next <= 0
  BY <1>2, <1>3
<1>8. IsLowest(next, c, n + 1)
  BY <1>5, <1>6, <1>7 DEF IsLowest
<1> QED
  BY <1>1, <1>3, <1>8

\* What is owed after an instalment: the instalments since month d have paid it.
LEMMA InstalmentPays ==
    ASSUME NEW cap \in Nat, NEW due \in Nat, NEW owed \in Nat, NEW months \in Nat,
           \/ owed = 0
           \/ owed + months * due <= cap
    PROVE  \/ owed - Min({due, owed}) = 0
           \/ (owed - Min({due, owed})) + (months + 1) * due <= cap
<1>1. PICK paid \in Nat : paid = Min({due, owed}) /\ paid = IF due <= owed THEN due ELSE owed
  BY LeastOfTwo
<1>2. PICK product \in Nat : product = months * due
  BY ProductWhole
<1>3. (months + 1) * due = product + due
  BY <1>2
<1> QED
  BY <1>1, <1>2, <1>3

\* The equity given up to a month grows until the next.
LEMMA EquityGrows ==
    ASSUME NEW equity, NEW discount \in Nat, NEW n \in Nat, Whole(equity, n + 1)
    PROVE  /\ Total(Grow(equity, discount, n), n) \in Int
           /\ Total(Grow(equity, discount, n + 1), n + 1) =
                Total(Grow(equity, discount, n), n) * (1 + discount) + equity[n + 1]
<1>1. ASSUME NEW m \in Nat, m <= n + 1, NEW i \in 1..m
      PROVE  Grow(equity, discount, m)[i] \in Int
  <2>1. m - i \in Nat /\ equity[i] \in Int
    BY <1>1 DEF Whole
  <2>2. PICK g, e \in Int : g = Growth(discount, m - i) /\ e = equity[i]
    BY <2>1, GrowthWhole
  <2>3. Grow(equity, discount, m)[i] = e * g
    BY <2>2 DEF Grow
  <2>4. e * g \in Int
    BY Multiplied
  <2> QED
    BY <2>3, <2>4
<1>2. Whole(Grow(equity, discount, n), n) /\ Whole(Grow(equity, discount, n + 1), n + 1)
  BY <1>1 DEF Whole
<1>3. ASSUME NEW i \in 1..n
      PROVE  Grow(equity, discount, n + 1)[i] = Grow(equity, discount, n)[i] * (1 + discount)
  <2>1. n - i \in Nat /\ (n + 1) - i = (n - i) + 1 /\ equity[i] \in Int /\ i \in 1..n + 1
    BY DEF Whole
  <2>2. PICK g, e \in Int : g = Growth(discount, n - i) /\ e = equity[i]
    BY <2>1, GrowthWhole
  <2>3. Growth(discount, (n + 1) - i) = g * (1 + discount)
    BY <2>1, <2>2, GrowthGrows
  <2>4. Grow(equity, discount, n + 1)[i] = e * (g * (1 + discount))
    BY <2>1, <2>2, <2>3 DEF Grow
  <2>5. Grow(equity, discount, n)[i] = e * g
    BY <2>2 DEF Grow
  <2>6. e * (g * (1 + discount)) = (e * g) * (1 + discount)
    OBVIOUS
  <2> QED
    BY <2>4, <2>5, <2>6
<1>4. Whole(Grow(equity, discount, n + 1), n)
  BY <1>2 DEF Whole
<1>5. Total(Grow(equity, discount, n + 1), n) = Total(Grow(equity, discount, n), n) * (1 + discount)
  BY <1>2, <1>3, TotalScaled
<1>6. Grow(equity, discount, n + 1)[n + 1] = equity[n + 1]
  <2>1. (n + 1) - (n + 1) = 0 /\ n + 1 \in 1..n + 1 /\ equity[n + 1] \in Int
    BY DEF Whole
  <2>2. Grow(equity, discount, n + 1)[n + 1] = equity[n + 1] * Growth(discount, 0)
    BY <2>1 DEF Grow
  <2>3. Growth(discount, 0) = 1
    BY GrowthGrows
  <2> QED
    BY <2>1, <2>2, <2>3
<1>7. Total(Grow(equity, discount, n + 1), n + 1) =
        Total(Grow(equity, discount, n + 1), n) + Grow(equity, discount, n + 1)[n + 1]
  BY <1>2, TotalOneMore
<1>8. Total(Grow(equity, discount, n), n) \in Int
  BY <1>2, TotalWhole
<1> QED
  BY <1>5, <1>6, <1>7, <1>8

\* A loan at the discount rate moves the two present values by the same amount.
LEMMA LoanIsNeutral ==
    ASSUME NEW v \in Int, NEW u \in Int, NEW owed \in Nat, NEW worth \in Int, NEW rate \in Nat,
           v - u = owed + worth,
           NEW draw \in Nat, NEW repaid \in Nat, NEW project \in Int, NEW given \in Int
    PROVE  (v * (1 + rate) + (project + draw - owed * rate - repaid + given))
             - (u * (1 + rate) + project)
           = (owed + draw - repaid) + (worth * (1 + rate) + given)
<1>1. v = u + owed + worth
  OBVIOUS
<1>2. v * (1 + rate) = u * (1 + rate) + owed * (1 + rate) + worth * (1 + rate)
  BY <1>1
<1>3. owed * (1 + rate) = owed + owed * rate
  OBVIOUS
<1>4. PICK a, b, c, d \in Int : /\ a = u * (1 + rate) /\ b = owed * rate
                               /\ c = worth * (1 + rate) /\ d = v * (1 + rate)
  BY Multiplied
<1> QED
  BY <1>2, <1>3, <1>4

-----------------------------------------------------------------------------
(* What a turn does to the invariant.                                      *)

LEMMA ListsWhole ==
    ASSUME CashTyped
    PROVE  /\ Whole(Before, Len(flow)) /\ Whole(Owed, Len(flow)) /\ Whole(Given, plan.months)
           /\ Len(flow) \in Nat /\ DOMAIN flow = 1..Len(flow)
<1>1. flow \in Seq(Turn) /\ Len(flow) \in Nat /\ plan.months \in Nat /\ Len(flow) <= plan.months
  BY PlanFits DEF CashTyped
<1>2. DOMAIN flow = 1..Len(flow)
  BY <1>1
<1>3. ASSUME NEW i \in 1..plan.months
      PROVE  Given[i] \in Int
  BY PlanFits DEF CashTyped, Given
<1>4. ASSUME NEW i \in 1..Len(flow)
      PROVE  Before[i] \in Int /\ Owed[i] \in Int
  <2>1. flow[i] \in Turn /\ i \in 1..plan.months
    BY <1>1
  <2>2. flow[i].net \in Int /\ flow[i].draw \in Nat /\ flow[i].repaid \in Nat
    BY <2>1 DEF Turn
  <2>3. Given[i] \in Int
    BY <1>3, <2>1
  <2>4. Before[i] = flow[i].net - Given[i] /\ Owed[i] = flow[i].draw - flow[i].repaid
    BY <1>2 DEF Before, BeforeEquity, Owed, Given
  <2> QED
    BY <2>2, <2>3, <2>4
<1> QED
  BY <1>1, <1>2, <1>3, <1>4 DEF Whole

\* The lists of the months so far, continued by one month.
Appended(n, draw, repaid, before) ==
    /\ n = Len(flow) /\ Len(flow') = n + 1 /\ n + 1 <= plan.months
    /\ plan' = plan /\ Given' = Given
    /\ Continues(Before', Before, n) /\ Before'[n + 1] = before
    /\ Continues(Owed', Owed, n) /\ Owed'[n + 1] = draw - repaid
    /\ \A k \in 1..n : flow'[k].draw = flow[k].draw
    /\ flow'[n + 1].draw = draw

LEMMA MonthAppends ==
    ASSUME CashTyped, Month
    PROVE  /\ CashTyped'
           /\ \E n, draw, repaid \in Nat, interest, project, before, i \in Int :
                 /\ i = n + 1
                 /\ interest = debt * plan.rate
                 /\ before = project + draw - interest - repaid
                 /\ Appended(n, draw, repaid, before)
                 /\ draw <= remaining /\ repaid <= debt
                 /\ Repays(i, repaid)
                 /\ Moves(i, draw, repaid, interest, project)
<1>1. PICK i \in 1..plan.months, draw, repaid \in Nat, interest, project \in Int :
              /\ i = Len(flow) + 1 /\ Given[i] \in Int
              /\ draw <= remaining /\ repaid <= debt
              /\ interest = debt * plan.rate
              /\ Repays(i, repaid)
              /\ Moves(i, draw, repaid, interest, project)
  BY MonthMoves
<1>2. /\ Len(flow) \in Nat /\ DOMAIN flow = 1..Len(flow) /\ Whole(Given, plan.months)
      /\ plan.months \in Nat /\ plan.discount \in Nat
  BY ListsWhole, PlanFits DEF CashTyped
<1>3. PICK n \in Nat : n = Len(flow) /\ i = n + 1
  BY <1>1, <1>2
<1>4. PICK given, before, net \in Int :
         /\ given = Given[i] /\ before = project + draw - interest - repaid
         /\ net = before + given /\ net = project + draw - interest - repaid + Given[i]
  <2>1. PICK given \in Int : given = Given[i]
    BY <1>1
  <2> QED
    BY <2>1
<1>5. plan' = plan /\ report' = report /\ Given' = Given
  BY <1>1 DEF Moves, Given
<1>6. cumulative' \in Int /\ unlevered' \in Int /\ debt' \in Nat /\ remaining' \in Nat
  <2>1. /\ cumulative' = cumulative + net /\ unlevered' = unlevered + project
        /\ debt' = debt + draw - repaid /\ remaining' = remaining - draw
    BY <1>1, <1>4 DEF Moves
  <2> QED
    BY <1>1, <2>1 DEF CashTyped
<1>7. value' \in Int /\ unleveredValue' \in Int
  <2>1. /\ value' = value * (1 + plan.discount) + net
        /\ unleveredValue' = unleveredValue * (1 + plan.discount) + project
    BY <1>1, <1>4 DEF Moves
  <2>2. value * (1 + plan.discount) \in Int /\ unleveredValue * (1 + plan.discount) \in Int
    BY <1>2, Multiplied DEF CashTyped
  <2> QED
    BY <2>1, <2>2
<1>8. lowest' \in Int
  <2>1. Whole(Given, i)
    BY <1>2 DEF Whole
  <2>2. PICK now \in Int : now = cumulative' - Total(Given, i)
    BY <1>6, <2>1, TotalWhole
  <2>3. lowest' = Min({lowest, now})
    BY <1>1, <2>2 DEF Moves
  <2>4. Min({lowest, now}) \in Int
    BY LeastOfTwo DEF CashTyped
  <2> QED
    BY <2>3, <2>4
<1>9. PICK turn \in Turn : /\ flow' = Append(flow, turn)
                           /\ turn.draw = draw /\ turn.repaid = repaid /\ turn.net = net
  <2>1. PICK turn : turn = [draw |-> draw, repaid |-> repaid, interest |-> interest,
                            net |-> net, cumulative |-> cumulative', debt |-> debt',
                            value |-> value']
    OBVIOUS
  <2>2. flow' = Append(flow, turn)
    BY <1>1, <1>4, <2>1 DEF Moves
  <2>3. turn \in Turn
    BY <1>6, <1>7, <2>1 DEF Turn
  <2>4. turn.draw = draw /\ turn.repaid = repaid /\ turn.net = net
    BY <2>1
  <2> QED
    BY <2>2, <2>3, <2>4
<1>10. /\ flow' \in Seq(Turn) /\ Len(flow') = n + 1 /\ DOMAIN flow' = 1..n + 1
       /\ flow'[n + 1] = turn
       /\ \A k \in 1..n : flow'[k] = flow[k]
  BY <1>3, <1>9 DEF CashTyped
<1>11. CashTyped'
  <2>1. Len(flow') <= plan'.months
    BY <1>2, <1>3, <1>5, <1>10
  <2> QED
    BY <1>5, <1>6, <1>7, <1>8, <1>10, <2>1 DEF CashTyped
<1>12. Continues(Before', Before, n) /\ Before'[n + 1] = net - Given[n + 1]
  <2>1. \A k \in 1..n + 1 : Before'[k] = flow'[k].net - Given[k]
    BY <1>5, <1>10 DEF Before, BeforeEquity, Given
  <2>2. \A k \in 1..n : Before[k] = flow[k].net - Given[k]
    BY <1>2, <1>3 DEF Before, BeforeEquity, Given
  <2>3. Continues(Before', Before, n)
    BY <1>10, <2>1, <2>2 DEF Continues
  <2>4. Before'[n + 1] = net - Given[n + 1]
    BY <1>9, <1>10, <2>1
  <2> QED
    BY <2>3, <2>4
<1>13. Continues(Owed', Owed, n) /\ Owed'[n + 1] = draw - repaid
  <2>1. \A k \in 1..n + 1 : Owed'[k] = flow'[k].draw - flow'[k].repaid
    BY <1>10 DEF Owed
  <2>2. \A k \in 1..n : Owed[k] = flow[k].draw - flow[k].repaid
    BY <1>2, <1>3 DEF Owed
  <2>3. Continues(Owed', Owed, n)
    BY <1>10, <2>1, <2>2 DEF Continues
  <2>4. Owed'[n + 1] = draw - repaid
    BY <1>9, <1>10, <2>1
  <2> QED
    BY <2>3, <2>4
<1>14. net - Given[n + 1] = before
  BY <1>3, <1>4
<1>15. Appended(n, draw, repaid, before)
  BY <1>3, <1>5, <1>9, <1>10, <1>12, <1>13, <1>14 DEF Appended
<1>16. /\ i = n + 1
       /\ interest = debt * plan.rate
       /\ before = project + draw - interest - repaid
       /\ Appended(n, draw, repaid, before)
       /\ draw <= remaining /\ repaid <= debt
       /\ Repays(i, repaid)
       /\ Moves(i, draw, repaid, interest, project)
  BY <1>1, <1>3, <1>4, <1>15
<1>17. i \in Int
  OBVIOUS
<1> QED
  BY <1>11, <1>16, <1>17, Zenon

LEMMA MonthFitsCash ==
    ASSUME CashTyped, CashFits, Month
    PROVE  CashFits'
<1>1. PICK n, draw, repaid \in Nat, interest, project, before, i \in Int :
         /\ i = n + 1
         /\ interest = debt * plan.rate
         /\ before = project + draw - interest - repaid
         /\ Appended(n, draw, repaid, before)
         /\ Repays(i, repaid)
         /\ Moves(i, draw, repaid, interest, project)
  BY MonthAppends
<1>2. Whole(Given, plan.months) /\ plan.months \in Nat /\ n = Len(flow) /\ n + 1 <= plan.months
  <2>1. plan.months \in Nat
    BY PlanFits DEF CashTyped
  <2> QED
    BY <1>1, <2>1, ListsWhole DEF Appended
<1>3. Whole(Given, n + 1)
  BY <1>2 DEF Whole
<1>4. PICK b, c : /\ b = Before /\ c = Before' /\ Whole(b, n) /\ Whole(c, n + 1)
                  /\ Continues(c, b, n) /\ c[n + 1] = before
  <2>1. Whole(Before, n) /\ Continues(Before', Before, n) /\ Before'[n + 1] = before
    BY <1>1, <1>2, ListsWhole DEF Appended
  <2>2. Whole(Before', n + 1)
    <3> SUFFICES ASSUME NEW k \in 1..n + 1
                 PROVE  Before'[k] \in Int
      BY DEF Whole
    <3>1. k \in 1..n \/ k = n + 1
      OBVIOUS
    <3> QED
      BY <2>1, <3>1 DEF Whole, Continues
  <2> QED
    BY <2>1, <2>2
<1>5. PICK g \in Int, h \in Int, j \in Int :
         /\ g = Total(Given, n) /\ h = Total(Given, n + 1) /\ j = Given[n + 1] /\ h = g + j
  <2>1. Whole(Given, n) /\ Given[n + 1] \in Int
    BY <1>3 DEF Whole
  <2> QED
    BY <1>3, <2>1, TotalWhole, TotalOneMore
<1>6. Total(b, n) = cumulative - g /\ IsLowest(lowest, b, n)
  BY <1>2, <1>4, <1>5 DEF CashFits
<1>7. Total(c, n + 1) = Total(b, n) + before
  BY <1>4, TotalContinues
<1>8. cumulative' = cumulative + (project + draw - interest - repaid + j)
  BY <1>1, <1>5 DEF Moves
<1>9. Total(c, n + 1) = cumulative' - h
  <2>1. PICK cash \in Int : cash = cumulative
    BY DEF CashTyped
  <2>2. cumulative' = cash + (before + j)
    BY <1>1, <1>8, <2>1
  <2>3. Total(c, n + 1) = (cash - g) + before
    BY <1>6, <1>7, <2>1
  <2> QED
    BY <1>5, <2>2, <2>3
<1>10. lowest' = Min({lowest, cumulative' - h})
  BY <1>1, <1>5 DEF Moves
<1>11. IsLowest(lowest', c, n + 1)
  BY <1>4, <1>6, <1>9, <1>10, LowestContinues
<1>12. Len(flow') = n + 1 /\ Given' = Given
  BY <1>1 DEF Appended
<1> QED
  BY <1>4, <1>5, <1>9, <1>11, <1>12 DEF CashFits

LEMMA MonthFitsLoan ==
    ASSUME CashTyped, LoanFits, Month
    PROVE  LoanFits'
<1>1. PICK n, draw, repaid \in Nat, interest, project, before, i \in Int :
         /\ i = n + 1
         /\ Appended(n, draw, repaid, before)
         /\ draw <= remaining /\ repaid <= debt
         /\ Repays(i, repaid)
         /\ Moves(i, draw, repaid, interest, project)
  BY MonthAppends
<1>2. /\ debt' = debt + draw - repaid /\ remaining' = remaining - draw /\ plan' = plan
      /\ n = Len(flow) /\ Len(flow') = n + 1
  BY <1>1 DEF Moves, Appended
<1>3. PICK cap \in Nat : cap = FundingCap(plan) /\ cap = FundingCap(plan')
  BY <1>2, PlanFits DEF CashTyped
<1>4. debt \in Nat /\ remaining \in Nat /\ debt + remaining <= cap
  BY <1>3 DEF CashTyped, LoanFits
<1>5. debt' + remaining' <= FundingCap(plan')
  BY <1>1, <1>2, <1>3, <1>4
<1>6. debt' = Total(Owed', Len(flow'))
  <2>1. PICK b, c : /\ b = Owed /\ c = Owed' /\ Whole(b, n)
                    /\ Continues(c, b, n) /\ c[n + 1] = draw - repaid
    BY <1>1, <1>2, ListsWhole DEF Appended
  <2>2. Whole(c, n + 1)
    <3> SUFFICES ASSUME NEW k \in 1..n + 1
                 PROVE  c[k] \in Int
      BY DEF Whole
    <3>1. k \in 1..n \/ k = n + 1
      OBVIOUS
    <3> QED
      BY <2>1, <3>1 DEF Whole, Continues
  <2>3. Total(c, n + 1) = Total(b, n) + (draw - repaid)
    BY <2>1, <2>2, TotalContinues
  <2>4. debt = Total(b, n)
    BY <1>2, <2>1 DEF LoanFits
  <2> QED
    BY <1>2, <1>4, <2>1, <2>3, <2>4
<1>7. ASSUME NEW d \in 0..n + 1, Settling(d)'
      PROVE  \/ debt' = 0
             \/ debt' + ((n + 1) - d) * (cap \div plan.amortization) <= cap
  <2>1. /\ plan.amortization > 0 /\ plan.grace <= d
        /\ \A k \in d + 1..n + 1 : flow'[k].draw = 0
    BY <1>2, <1>7 DEF Settling
  <2>2. PICK due \in Nat : due = cap \div plan.amortization
    BY <2>1, PlanFits, Quotient DEF CashTyped
  <2>3. CASE d = n + 1
    <3>1. ((n + 1) - d) * due = 0
      BY <2>2, <2>3
    <3>2. debt' \in Nat /\ remaining' \in Nat
      BY <1>1, <1>2, <1>4
    <3> QED
      BY <1>3, <1>5, <2>2, <3>1, <3>2
  <2>4. CASE d \in 0..n
    <3>1. draw = 0
      <4>1. n + 1 \in d + 1..n + 1
        BY <2>4
      <4> QED
        BY <1>1, <2>1, <4>1 DEF Appended
    <3>2. Settling(d)
      <4>1. \A k \in d + 1..n : k \in 1..n /\ k \in d + 1..n + 1
        BY <2>4
      <4>2. \A k \in d + 1..n : flow[k].draw = 0
        BY <1>1, <2>1, <4>1 DEF Appended
      <4> QED
        BY <1>2, <2>1, <4>2 DEF Settling
    <3>3. PICK months \in Nat : months = n - d
      BY <2>4
    <3>4. debt = 0 \/ debt + months * due <= cap
      BY <1>2, <1>3, <2>2, <2>4, <3>2, <3>3 DEF LoanFits
    <3>5. repaid = Min({due, debt})
      <4>1. i > plan.grace
        BY <1>1, <2>1, <2>4, PlanFits DEF CashTyped
      <4> QED
        BY <1>1, <1>3, <2>1, <2>2, <4>1 DEF Repays
    <3>6. \/ debt - repaid = 0
          \/ (debt - repaid) + (months + 1) * due <= cap
      BY <1>4, <3>4, <3>5, InstalmentPays
    <3>7. debt' = debt - repaid
      BY <1>1, <1>2, <1>4, <3>1
    <3>8. (n + 1) - d = months + 1
      BY <2>4, <3>3
    <3> QED
      BY <2>2, <3>6, <3>7, <3>8
  <2> QED
    BY <2>3, <2>4
<1> QED
  BY <1>2, <1>3, <1>5, <1>6, <1>7 DEF LoanFits

LEMMA MonthFitsWorth ==
    ASSUME CashTyped, Neutral, Month
    PROVE  Neutral'
<1>1. PICK n, draw, repaid \in Nat, interest, project, before, i \in Int :
         /\ i = n + 1
         /\ interest = debt * plan.rate
         /\ Appended(n, draw, repaid, before)
         /\ Moves(i, draw, repaid, interest, project)
  BY MonthAppends
<1>2. /\ debt' = debt + draw - repaid /\ plan' = plan /\ Given' = Given
      /\ n = Len(flow) /\ Len(flow') = n + 1 /\ n + 1 <= plan.months
  BY <1>1 DEF Moves, Appended
<1>3. SUFFICES ASSUME plan.rate = plan.discount
               PROVE  value' - unleveredValue' = debt' + Worth'
  BY <1>2 DEF Neutral
<1>4. PICK rate \in Nat : rate = plan.rate /\ rate = plan.discount
  BY <1>3, PlanFits DEF CashTyped
<1>5. Whole(Given, n + 1)
  BY <1>2, ListsWhole, PlanFits DEF Whole, CashTyped
<1>6. PICK worth, given \in Int : /\ worth = Total(Grow(Given, rate, n), n)
                                  /\ given = Given[n + 1]
                                  /\ Total(Grow(Given, rate, n + 1), n + 1) = worth * (1 + rate) + given
  <2>1. Given[n + 1] \in Int
    BY <1>5 DEF Whole
  <2> QED
    BY <1>5, <2>1, EquityGrows
<1>7. Worth = worth /\ Worth' = worth * (1 + rate) + given
  BY <1>2, <1>4, <1>6 DEF Worth
<1>8. PICK v, u \in Int, owed \in Nat : v = value /\ u = unleveredValue /\ owed = debt
  BY DEF CashTyped
<1>9. v - u = owed + worth
  BY <1>3, <1>7, <1>8 DEF Neutral
<1>10. /\ value' = v * (1 + rate) + (project + draw - owed * rate - repaid + given)
       /\ unleveredValue' = u * (1 + rate) + project
  BY <1>1, <1>4, <1>6, <1>8 DEF Moves
<1>11. (v * (1 + rate) + (project + draw - owed * rate - repaid + given))
         - (u * (1 + rate) + project)
       = (owed + draw - repaid) + (worth * (1 + rate) + given)
  BY <1>9, LoanIsNeutral
<1> QED
  BY <1>2, <1>7, <1>8, <1>10, <1>11

LEMMA CashBegins ==
    ASSUME CashInit
    PROVE  CashInv
<1>1. /\ plan \in Calculated /\ flow = <<>> /\ report = <<>>
      /\ debt = 0 /\ remaining = FundingCap(plan)
      /\ cumulative = 0 /\ unlevered = 0 /\ lowest = 0 /\ value = 0 /\ unleveredValue = 0
  BY DEF CashInit
<1>2. Len(flow) = 0 /\ flow \in Seq(Turn)
  BY <1>1
<1>3. FundingCap(plan) \in Nat /\ plan.months \in Nat
  BY <1>1, PlanFits
<1>4. CashTyped
  BY <1>1, <1>2, <1>3 DEF CashTyped
<1>5. Total(Before, 0) = 0 /\ Total(Given, 0) = 0 /\ Total(Owed, 0) = 0 /\ Worth = 0
  BY <1>2, TotalNone DEF Worth
<1>6. CashFits
  BY <1>1, <1>2, <1>5 DEF CashFits, IsLowest
<1>7. LoanFits
  BY <1>1, <1>2, <1>3, <1>5 DEF LoanFits
<1>8. Neutral
  BY <1>1, <1>5 DEF Neutral
<1>9. ReportFits
  BY <1>1 DEF ReportFits, Reported
<1> QED
  BY <1>4, <1>6, <1>7, <1>8, <1>9 DEF CashInv

LEMMA CashStays ==
    ASSUME CashInv, [CashNext]_cashVars
    PROVE  CashInv'
<1>1. CashTyped /\ CashFits /\ LoanFits /\ Neutral /\ ReportFits
  BY DEF CashInv
<1>2. CASE Month
  <2>1. CashTyped' /\ CashFits' /\ LoanFits' /\ Neutral'
    BY <1>1, <1>2, MonthAppends, MonthFitsCash, MonthFitsLoan, MonthFitsWorth
  <2>2. ReportFits'
    <3>1. PICK n, draw, repaid \in Nat, interest, project, before, i \in Int :
             /\ Appended(n, draw, repaid, before)
             /\ Moves(i, draw, repaid, interest, project)
      BY <1>1, <1>2, MonthAppends
    <3>2. Len(flow) # plan.months /\ report' = report
      <4>1. n = Len(flow) /\ n + 1 <= plan.months /\ plan.months \in Nat
        BY <1>1, <3>1, PlanFits DEF Appended, CashTyped
      <4>2. report' = report
        BY <3>1 DEF Moves
      <4> QED
        BY <4>1, <4>2
    <3> QED
      BY <1>1, <3>2 DEF ReportFits, Reported
  <2> QED
    BY <2>1, <2>2 DEF CashInv
<1>3. ASSUME UNCHANGED <<plan, flow, debt, remaining, cumulative, unlevered, lowest, value, unleveredValue>>
      PROVE  CashTyped' /\ CashFits' /\ LoanFits' /\ Neutral'
  <2>1. CashTyped'
    BY <1>1, <1>3 DEF CashTyped
  <2>2. CashFits'
    BY <1>1, <1>3 DEF CashFits, Before, BeforeEquity, Given
  <2>3. LoanFits'
    BY <1>1, <1>3 DEF LoanFits, Owed, Settling
  <2>4. Neutral'
    BY <1>1, <1>3 DEF Neutral, Worth, Given
  <2> QED
    BY <2>1, <2>2, <2>3, <2>4
<1>4. CASE Report
  <2>1. CashTyped' /\ CashFits' /\ LoanFits' /\ Neutral'
    BY <1>3, <1>4 DEF Report
  <2>2. ReportFits'
    BY <1>4 DEF Report, ReportFits
  <2> QED
    BY <2>1, <2>2 DEF CashInv
<1>5. CASE UNCHANGED cashVars
  <2>1. CashTyped' /\ CashFits' /\ LoanFits' /\ Neutral'
    BY <1>3, <1>5 DEF cashVars
  <2>2. ReportFits'
    BY <1>1, <1>5 DEF cashVars, ReportFits, Reported
  <2> QED
    BY <2>1, <2>2 DEF CashInv
<1> QED
  BY <1>2, <1>4, <1>5 DEF CashNext

\* The equity that is reported is the lowest point, turned round.
LEMMA EquityIsTheLeast ==
    ASSUME CashInv
    PROVE  RequiredEquityIsTheLeast
<1> SUFFICES ASSUME Reported
             PROVE  /\ \A i \in DOMAIN flow : report.requiredEquity + CashBeforeEquity(i) >= 0
                    /\ report.requiredEquity > 0 =>
                          \E i \in DOMAIN flow : report.requiredEquity + CashBeforeEquity(i) = 0
  BY DEF RequiredEquityIsTheLeast
<1>1. Whole(Before, Len(flow)) /\ Len(flow) \in Nat /\ DOMAIN flow = 1..Len(flow)
  BY ListsWhole DEF CashInv
<1>2. PICK low \in Int : low = lowest /\ IsLowest(low, Before, Len(flow)) /\ low <= 0
  BY DEF CashInv, CashFits, CashTyped, IsLowest
<1>3. report.requiredEquity = -low
  <2>1. PICK least \in Nat : least = -low
    BY <1>2
  <2>2. Max({0, least}) = IF 0 <= least THEN least ELSE 0
    BY LeastOfTwo
  <2>3. report.requiredEquity = Max({0, -low})
    BY <1>2 DEF CashInv, ReportFits
  <2> QED
    BY <2>1, <2>2, <2>3
<1>4. ASSUME NEW i \in 1..Len(flow)
      PROVE  CashBeforeEquity(i) = Total(Before, i) /\ Total(Before, i) \in Int
  <2>1. Whole(Before, i)
    BY <1>1 DEF Whole
  <2> QED
    BY <1>1, <2>1, TotalWhole DEF CashBeforeEquity, Before
<1>5. ASSUME NEW i \in DOMAIN flow
      PROVE  report.requiredEquity + CashBeforeEquity(i) >= 0
  BY <1>1, <1>2, <1>3, <1>4 DEF IsLowest
<1>6. ASSUME report.requiredEquity > 0
      PROVE  \E i \in DOMAIN flow : report.requiredEquity + CashBeforeEquity(i) = 0
  <2>1. low < 0
    BY <1>2, <1>3, <1>6
  <2>2. PICK i \in 1..Len(flow) : low = Total(Before, i)
    BY <1>2, <2>1 DEF IsLowest
  <2> QED
    BY <1>1, <1>2, <1>3, <1>4, <2>2
<1> QED
  BY <1>5, <1>6

LEMMA GreatestBelow ==
    ASSUME NEW n \in Nat, NEW S \in SUBSET (0..n), S # {}
    PROVE  Max(S) \in S /\ \A x \in S : x <= Max(S)
<1> DEFINE T == {n - x : x \in S}
<1>1. T \in SUBSET Nat /\ T # {}
  <2>1. \A x \in S : x \in 0..n /\ n - x \in Nat
    OBVIOUS
  <2> QED
    BY <2>1
<1> HIDE DEF T
<1>2. PICK t \in T : \A y \in T : t <= y
  BY <1>1, LeastNatural
<1>3. PICK m \in S : t = n - m
  BY DEF T
<1>4. \A x \in S : n - x \in T /\ x \in 0..n
  BY DEF T
<1>5. \A x \in S : m >= x
  BY <1>2, <1>3, <1>4
<1>6. \E x \in S : \A y \in S : x >= y
  BY <1>5
<1>7. Max(S) \in S /\ \A y \in S : Max(S) >= y
  BY <1>6 DEF Max
<1> QED
  BY <1>4, <1>7

LEMMA LoanAddsUp ==
    ASSUME CashInv
    PROVE  FinancingAddsUp
<1>1. /\ CashTyped /\ LoanFits /\ Neutral /\ ReportFits
      /\ Len(flow) \in Nat /\ DOMAIN flow = 1..Len(flow)
  BY ListsWhole DEF CashInv
<1>2. debt = Total([i \in DOMAIN flow |-> flow[i].draw - flow[i].repaid], Len(flow))
  BY <1>1 DEF LoanFits, Owed
<1>3. debt \in Nat /\ remaining \in Nat
  BY <1>1 DEF CashTyped
<1>4. ASSUME Reported, plan.amortization > 0,
             NEW drawn, drawn = Max({0} \cup {i \in DOMAIN flow : flow[i].draw > 0}),
             Max({drawn, plan.grace}) + plan.amortization <= plan.months
      PROVE  debt = 0
  <2>1. /\ plan.grace \in Nat /\ plan.amortization \in Nat \ {0} /\ plan.months \in Nat
        /\ FundingCap(plan) \in Nat /\ Len(flow) = plan.months
    BY <1>1, <1>4, PlanFits DEF CashTyped, ReportFits
  <2>2. drawn \in 0..Len(flow) /\ \A i \in DOMAIN flow : flow[i].draw > 0 => i <= drawn
    <3> DEFINE S == {0} \cup {i \in DOMAIN flow : flow[i].draw > 0}
    <3>1. S \in SUBSET (0..Len(flow)) /\ S # {}
      BY <1>1
    <3>2. Max(S) \in S /\ \A x \in S : x <= Max(S)
      BY <1>1, <3>1, GreatestBelow
    <3>3. drawn = Max(S)
      BY <1>4
    <3> QED
      BY <3>1, <3>2, <3>3
  <2>3. PICK d \in 0..plan.months : /\ d = Max({drawn, plan.grace}) /\ drawn <= d /\ plan.grace <= d
                                    /\ d + plan.amortization <= plan.months
    <3>1. PICK g, f \in Nat : g = plan.grace /\ f = drawn
      BY <2>1, <2>2
    <3>2. Max({f, g}) = IF f <= g THEN g ELSE f
      BY LeastOfTwo
    <3>3. Max({drawn, plan.grace}) = Max({f, g})
      BY <3>1
    <3>4. PICK d : d = Max({drawn, plan.grace}) /\ d + plan.amortization <= plan.months
      BY <1>4
    <3>5. d = IF f <= g THEN g ELSE f
      BY <3>2, <3>3, <3>4
    <3>6. d \in Nat /\ f <= d /\ g <= d
      BY <3>5
    <3>7. d \in 0..plan.months
      BY <2>1, <3>4, <3>6
    <3> QED
      BY <3>1, <3>4, <3>6, <3>7
  <2>4. Settling(d)
    <3>1. ASSUME NEW i \in d + 1..Len(flow)
          PROVE  flow[i].draw = 0
      <4>1. i \in DOMAIN flow /\ ~ (i <= drawn)
        BY <1>1, <2>2, <2>3
      <4>2. flow[i].draw \in Nat
        <5>1. flow[i] \in Turn
          BY <1>1, <4>1 DEF CashTyped
        <5> QED
          BY <5>1 DEF Turn
      <4> QED
        BY <2>2, <4>1, <4>2
    <3> QED
      BY <1>4, <2>3, <3>1 DEF Settling
  <2>5. PICK cap, count, due \in Nat : /\ cap = FundingCap(plan) /\ count = plan.amortization
                                       /\ due = cap \div count /\ count * due = cap
    <3>1. FundingCap(plan) % plan.amortization = 0
      BY <1>1, <1>4, PlanAssumption DEF CashTyped
    <3> QED
      BY <2>1, <3>1, Quotient
  <2>6. PICK months \in Nat : months = Len(flow) - d /\ count <= months
    BY <2>1, <2>3, <2>5
  <2>7. debt = 0 \/ debt + months * due <= cap
    <3>1. d \in 0..Len(flow)
      BY <2>1, <2>3
    <3> QED
      BY <1>1, <2>4, <2>5, <2>6, <3>1 DEF LoanFits
  <2>8. count * due <= months * due /\ months * due \in Nat
    BY <2>6, OrderTimes, ProductWhole
  <2> QED
    BY <1>3, <2>5, <2>7, <2>8
<1>5. LoansAreRepaid
  <2>1. PICK drawn : drawn = Max({0} \cup {i \in DOMAIN flow : flow[i].draw > 0})
    OBVIOUS
  <2>2. (Reported /\ plan.amortization > 0) =>
           (Max({drawn, plan.grace}) + plan.amortization <= plan.months => debt = 0)
    BY <1>4, <2>1
  <2> QED
    BY <1>2, <1>3, <2>1, <2>2 DEF LoansAreRepaid
<1>6. FinancingIsNeutral
  <2>1. Reported => Worth = EquityWorth(plan.months)
    BY <1>1 DEF ReportFits, Worth, EquityWorth, Grow, Given
  <2> QED
    BY <1>1, <2>1 DEF FinancingIsNeutral, Neutral, ReportFits
<1> QED
  BY <1>5, <1>6 DEF FinancingAddsUp

-----------------------------------------------------------------------------

LEMMA CashInvariance ==
    CashSpec => []CashInv
<1>1. CashInit => CashInv
  BY CashBegins
<1>2. CashInv /\ [CashNext]_cashVars => CashInv'
  BY CashStays
<1> QED
  BY <1>1, <1>2, PTL DEF CashSpec

\* The reported equity is what the worst month lacks, for every plan
\* (calculate).
THEOREM RequiredEquity ==
    CashSpec => []RequiredEquityIsTheLeast
<1>1. CashInv => RequiredEquityIsTheLeast
  BY EquityIsTheLeast
<1> QED
  BY <1>1, CashInvariance, PTL

\* A loan is repaid and neither gains nor loses at the discount rate, for every
\* plan (calculate).
THEOREM Financing ==
    CashSpec => []FinancingAddsUp
<1>1. CashInv => FinancingAddsUp
  BY LoanAddsUp
<1> QED
  BY <1>1, CashInvariance, PTL

=============================================================================
