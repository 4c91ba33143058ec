------------------------------- MODULE Viability -------------------------------
(***************************************************************************)
(* Viability studies: scenarios are calculated from the inputs of their    *)
(* study, calculated scenarios are frozen in snapshots, and what an ERP    *)
(* holds is fetched by synchronisation jobs and applied to the inputs.     *)
(*                                                                         *)
(* An input is a field and the origin of its value: the declaration of     *)
(* the study or the job that brought it.  The result of a calculation is   *)
(* what it was calculated from, so that two results differ where their     *)
(* data do; CashFlow models the arithmetic.                                *)
(*                                                                         *)
(* A handler reads in one READ COMMITTED transaction and writes at its     *)
(* end; only a run of a synchronisation flushes, and so holds the row of   *)
(* its connection, while it calls the ERP.  Abort is any error.            *)
(***************************************************************************)
EXTENDS Integers, Sequences, FiniteSets

CONSTANTS
    Handlers,       \* request handlers that run at the same time
    Studies,        \* bound: studies
    Connections,    \* bound: ERP connections
    Tenants,        \* bound: tenants
    Scenarios,      \* bound: scenarios, as <<study, key>>
    Fields,         \* the input fields a calculation reads
    Overrides,      \* bound: the sets of fields that scenarios override
    Patches,        \* bound: the sets of fields an ERP answers with
    MaxJobs,        \* bound: synchronisation jobs
    MaxSnapshots,   \* bound: snapshots
    NoStudy         \* a job that is for no study

ASSUME ViabilityAssumption ==
    /\ NoStudy \notin Studies /\ Studies \cap Connections = {}
    /\ \A x \in Scenarios : x[1] \in Studies
    /\ Overrides \subseteq SUBSET Fields /\ Patches \subseteq SUBSET Fields
    /\ MaxJobs \in Nat /\ MaxSnapshots \in Nat

\* Origins of a value: declared with the study, overridden by the scenario, a job.
Declared == 0
Overridden == -1
JobIds == 1..MaxJobs
Origins == {Declared, Overridden} \cup JobIds

VARIABLES
    owner,        \* the tenant of each study and connection; "none": not created
    inputs,       \* per study, the origins of its inputs
    scenario,     \* per scenario, its row
    snapshots,    \* the snapshots
    connection,   \* per connection, its status
    jobs,         \* finished and queued jobs, in the order of their commits
    req,          \* per handler, the request it is in the middle of
    serial        \* no two requests overlap

vars == <<owner, inputs, scenario, snapshots, connection, jobs, req, serial>>

NoData == <<>>
NoRow == [status |-> "none", overrides |-> {}, outputs |-> NoData, flow |-> NoData]

Exists(r) == owner[r] # "none"

\* deep_merge of the scenario's overrides into the inputs, and calculate.
Result(data, overrides) ==
    [f \in Fields |-> IF f \in overrides THEN Overridden ELSE data[f]]

\* Mutant: what the job brought replaces the inputs.
Replace(data, j) ==
    [f \in Fields |-> IF f \in jobs[j].patch THEN j ELSE Declared]

\* _merge_patch of what job j brought into the inputs.
Merge(data, j) ==
    [f \in Fields |-> IF f \in jobs[j].patch THEN j ELSE data[f]]

-----------------------------------------------------------------------------
(* Handlers *)

Idle == [op |-> "idle"]

\* The row of the connection is locked by a run that has flushed it.
Locked(c) == \E h \in Handlers : req[h].op = "run" /\ req[h].connection = c

Alone == serial => \A h \in Handlers : req[h] = Idle

Begin(h, request) ==
    /\ req[h] = Idle
    /\ Alone
    /\ req' = [req EXCEPT ![h] = request]

End(h) == req' = [req EXCEPT ![h] = Idle]

\* An error, a failed flush or a crash: nothing of the transaction remains.
Abort(h) ==
    /\ req[h] # Idle
    /\ End(h)
    /\ UNCHANGED <<owner, inputs, scenario, snapshots, connection, jobs, serial>>

Init ==
    /\ owner = [r \in Studies \cup Connections |-> "none"]
    /\ inputs = [s \in Studies |-> NoData]
    /\ scenario = [x \in Scenarios |-> NoRow]
    /\ snapshots = {}
    /\ connection = [c \in Connections |-> "none"]
    /\ jobs = <<>>
    /\ req = [h \in Handlers |-> Idle]
    /\ serial \in BOOLEAN

-----------------------------------------------------------------------------
(* Studies and scenarios *)

CreateStudy(s, t) ==
    /\ ~Exists(s)
    /\ owner' = [owner EXCEPT ![s] = t]
    /\ inputs' = [inputs EXCEPT ![s] = [f \in Fields |-> Declared]]
    /\ UNCHANGED <<scenario, snapshots, connection, jobs, req, serial>>

CreateScenario(x, overrides) ==
    /\ Exists(x[1])
    /\ scenario[x] = NoRow
    /\ scenario' = [scenario EXCEPT ![x] = [NoRow EXCEPT !.status = "DRAFT", !.overrides = overrides]]
    /\ UNCHANGED <<owner, inputs, snapshots, connection, jobs, req, serial>>

\* calculate_scenario reads the study and the scenario ...
BeginCalculation(h, x) ==
    /\ scenario[x] # NoRow
    /\ Begin(h, [op |-> "calculate", scenario |-> x, read |-> scenario[x].outputs,
                 result |-> Result(inputs[x[1]], scenario[x].overrides)])
    /\ UNCHANGED <<owner, inputs, scenario, snapshots, connection, jobs, serial>>

\* Mutant: the monthly flow of an earlier calculation is kept.
KeepFlow(h) ==
    LET x == req[h].scenario
        result == req[h].result
        row == scenario[x]
    IN  /\ req[h].op = "calculate"
        /\ scenario' = [scenario EXCEPT ![x] =
               [row EXCEPT !.status = "CALCULATED",
                           !.outputs = IF result = req[h].read THEN @ ELSE result,
                           !.flow = IF @ = NoData THEN result ELSE @]]
        /\ End(h)
        /\ UNCHANGED <<owner, inputs, snapshots, connection, jobs, serial>>

\* ... and replaces the flow.  Outputs that equal the ones it has read are not
\* part of its UPDATE.  A calculation that commits between its DELETE and its
\* INSERTs makes them collide (uq_viability_scenario_period), which is an Abort.
CommitCalculation(h) ==
    LET x == req[h].scenario
        result == req[h].result
        row == scenario[x]
    IN  /\ req[h].op = "calculate"
        /\ scenario' = [scenario EXCEPT ![x] =
               [row EXCEPT !.status = "CALCULATED",
                           !.outputs = IF result = req[h].read THEN @ ELSE result,
                           !.flow = result]]
        /\ End(h)
        /\ UNCHANGED <<owner, inputs, snapshots, connection, jobs, serial>>

-----------------------------------------------------------------------------
(* Snapshots *)

\* create_snapshot reads the study, ...
BeginSnapshot(h, x) ==
    /\ Exists(x[1])
    /\ Cardinality(snapshots) < MaxSnapshots
    /\ Begin(h, [op |-> "freeze", scenario |-> x, inputs |-> inputs[x[1]]])
    /\ UNCHANGED <<owner, inputs, scenario, snapshots, connection, jobs, serial>>

\* ... then the scenario, which must be calculated, ...
ReadScenario(h) ==
    /\ req[h].op = "freeze"
    /\ scenario[req[h].scenario].status = "CALCULATED"
    /\ req' = [req EXCEPT ![h] =
           [op |-> "frozen", scenario |-> req[h].scenario, inputs |-> req[h].inputs,
            outputs |-> scenario[req[h].scenario].outputs]]
    /\ UNCHANGED <<owner, inputs, scenario, snapshots, connection, jobs, serial>>

\* What is hashed; the study itself is not.
Payload(snapshot) ==
    <<snapshot.scenario[2], snapshot.inputs, snapshot.outputs, snapshot.flow>>

\* ... and then its flow.  The hash of the payload is unique.
CommitSnapshot(h) ==
    LET x == req[h].scenario
        snapshot == [scenario |-> x, inputs |-> req[h].inputs, outputs |-> req[h].outputs,
                     flow |-> scenario[x].flow]
    IN  /\ req[h].op = "frozen"
        /\ \A other \in snapshots : Payload(other) # Payload(snapshot)
        /\ snapshots' = snapshots \cup {snapshot}
        /\ End(h)
        /\ UNCHANGED <<owner, inputs, scenario, connection, jobs, serial>>

-----------------------------------------------------------------------------
(* ERP connections and synchronisation *)

CreateConnection(c, t) ==
    /\ ~Exists(c)
    /\ owner' = [owner EXCEPT ![c] = t]
    /\ connection' = [connection EXCEPT ![c] = "PENDING_HOMOLOGATION"]
    /\ UNCHANGED <<inputs, scenario, snapshots, jobs, req, serial>>

Job(c, s, status, patch) ==
    [connection |-> c, study |-> s, status |-> status, patch |-> patch]

\* Jobs that are or will be committed.
JobsTaken == Len(jobs) + Cardinality({h \in Handlers : req[h].op \in {"run", "queue"}})

\* request_erp_sync leaves a job that nothing in the service takes up.
BeginQueue(h, c) ==
    /\ Exists(c)
    /\ JobsTaken < MaxJobs
    /\ Begin(h, [op |-> "queue", connection |-> c, read |-> connection[c]])
    /\ UNCHANGED <<owner, inputs, scenario, snapshots, connection, jobs, serial>>

\* The status is written, which waits for the row, unless it was read like that.
CommitQueue(h) ==
    LET c == req[h].connection
    IN  /\ req[h].op = "queue"
        /\ req[h].read # "SYNC_QUEUED" => ~Locked(c)
        /\ connection' = IF req[h].read = "SYNC_QUEUED" THEN connection
                         ELSE [connection EXCEPT ![c] = "SYNC_QUEUED"]
        /\ jobs' = Append(jobs, Job(c, NoStudy, "QUEUED", {}))
        /\ End(h)
        /\ UNCHANGED <<owner, inputs, scenario, snapshots, serial>>

\* Mutant: the study may be anybody's.
Admits(c, s) == s # NoStudy => Exists(s)

\* The study is of the tenant of the connection.
Feeds(c, s) == s # NoStudy => Exists(s) /\ owner[s] = owner[c]

\* Mutant: the connection is not flushed before the ERP is called.
RunUnflushed(h, c, s) ==
    /\ Exists(c)
    /\ Feeds(c, s)
    /\ JobsTaken < MaxJobs
    /\ Begin(h, [op |-> "run", connection |-> c, study |-> s, read |-> connection[c]])
    /\ UNCHANGED <<owner, inputs, scenario, snapshots, connection, jobs, serial>>

\* run_erp_sync up to its flush, which writes SYNCING and waits for the row;
\* no connection is ever REVOKED.
BeginRun(h, c, s) ==
    /\ Exists(c)
    /\ Feeds(c, s)
    /\ ~Locked(c)
    /\ JobsTaken < MaxJobs
    /\ Begin(h, [op |-> "run", connection |-> c, study |-> s, read |-> "SYNCING"])
    /\ UNCHANGED <<owner, inputs, scenario, snapshots, connection, jobs, serial>>

\* sync of the adapter: what all its resources hold, or an ERPAdapterError of
\* one of them and nothing of the others.
Answers ==
    [status: {"SUCCEEDED"}, patch: Patches] \cup [status: {"FAILED"}, patch: {{}}]

\* The answer of the ERP and the commit.
EndRun(h, status, patch) ==
    LET c == req[h].connection
        outcome == IF status = "SUCCEEDED" THEN "ACTIVE" ELSE "ERROR"
    IN  /\ req[h].op = "run"
        /\ connection' = IF req[h].read = outcome THEN connection
                         ELSE [connection EXCEPT ![c] = outcome]
        /\ jobs' = Append(jobs, Job(c, req[h].study, status, patch))
        /\ End(h)
        /\ UNCHANGED <<owner, inputs, scenario, snapshots, serial>>

-----------------------------------------------------------------------------
(* Applying what a job brought *)

\* apply_erp_sync; of a job that is APPLIED, it answers with the study.
BeginApply(h, j) ==
    /\ jobs[j].status = "SUCCEEDED"
    /\ jobs[j].study # NoStudy
    /\ jobs[j].patch # {}
    /\ Begin(h, [op |-> "apply", job |-> j, inputs |-> Merge(inputs[jobs[j].study], j)])
    /\ UNCHANGED <<owner, inputs, scenario, snapshots, connection, jobs, serial>>

\* Mutant: the job is not marked.
ApplyUnmarked(h) ==
    /\ req[h].op = "apply"
    /\ inputs' = [inputs EXCEPT ![jobs[req[h].job].study] = req[h].inputs]
    /\ End(h)
    /\ UNCHANGED <<owner, scenario, snapshots, connection, jobs, serial>>

CommitApply(h) ==
    /\ req[h].op = "apply"
    /\ inputs' = [inputs EXCEPT ![jobs[req[h].job].study] = req[h].inputs]
    /\ jobs' = [jobs EXCEPT ![req[h].job].status = "APPLIED"]
    /\ End(h)
    /\ UNCHANGED <<owner, scenario, snapshots, connection, serial>>

-----------------------------------------------------------------------------

Next ==
    \/ \E s \in Studies, t \in Tenants : CreateStudy(s, t)
    \/ \E x \in Scenarios, overrides \in Overrides : CreateScenario(x, overrides)
    \/ \E c \in Connections, t \in Tenants : CreateConnection(c, t)
    \/ \E h \in Handlers :
          \/ Abort(h)
          \/ \E x \in Scenarios : BeginCalculation(h, x)
          \/ CommitCalculation(h)
          \/ \E x \in Scenarios : BeginSnapshot(h, x)
          \/ ReadScenario(h)
          \/ CommitSnapshot(h)
          \/ \E c \in Connections : BeginQueue(h, c)
          \/ CommitQueue(h)
          \/ \E c \in Connections, s \in Studies \cup {NoStudy} : BeginRun(h, c, s)
          \/ \E answer \in Answers : EndRun(h, answer.status, answer.patch)
          \/ \E j \in DOMAIN jobs : BeginApply(h, j)
          \/ CommitApply(h)

Spec == Init /\ [][Next]_vars

-----------------------------------------------------------------------------
(* Properties *)

\* Every input that was not declared was brought, for this very study, by an
\* applied job of a connection of the study's own tenant, however
\* synchronisations and applications overlap; and when none overlap, no field
\* of an applied job is lost (run_erp_sync, apply_erp_sync).
InputsAreAccountedFor ==
    /\ \A s \in Studies : Exists(s) =>
          \A f \in Fields : inputs[s][f] # Declared =>
              LET job == jobs[inputs[s][f]]
              IN  /\ job.status = "APPLIED" /\ job.study = s /\ f \in job.patch
                  /\ owner[job.connection] = owner[s]
    /\ serial => \A j \in DOMAIN jobs : jobs[j].status = "APPLIED" =>
          \A f \in jobs[j].patch : inputs[jobs[j].study][f] # Declared

Ran(j) == jobs[j].status # "QUEUED"

\* A connection that shows the outcome of a run shows that of its last one,
\* although runs and requests of the same connection overlap: runs take turns
\* on its row (run_erp_sync, request_erp_sync).
ConnectionTellsItsLastRun ==
    \A j \in DOMAIN jobs :
        LET c == jobs[j].connection
        IN  /\ Ran(j) /\ \A i \in DOMAIN jobs : Ran(i) /\ jobs[i].connection = c => i <= j
            /\ connection[c] \in {"ACTIVE", "ERROR"}
            => connection[c] = IF jobs[j].status = "FAILED" THEN "ERROR" ELSE "ACTIVE"

\* When no requests overlap, a snapshot is of one calculation, outputs and
\* flow, and is older than the inputs it shows only in fields that an applied
\* job has brought: no other way leads to a snapshot that contradicts itself
\* (calculate_scenario, create_snapshot).
SnapshotsShowOneCalculation ==
    serial => \A snapshot \in snapshots :
        /\ snapshot.outputs = snapshot.flow
        /\ \A f \in Fields :
              snapshot.outputs[f] = Result(snapshot.inputs, scenario[snapshot.scenario].overrides)[f]
              \/ snapshot.inputs[f] \in {j \in DOMAIN jobs : jobs[j].status = "APPLIED"}

=============================================================================
