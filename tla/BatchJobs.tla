----------------------------- MODULE BatchJobs ------------------------------
(***************************************************************************)
(* Bulk connection-test jobs: BatchService (app/bl/services/batches.py)    *)
(* over the job rows of GatewayStore (app/dal/db/store.py), inside the     *)
(* application's lifespan (app/main.py), with inventory edits, failing     *)
(* database transactions, a crash between any two steps, restart recovery  *)
(* and a second process that opens the same database.                      *)
(*                                                                         *)
(* One action is one database transaction (or one in-memory step between   *)
(* two of them): GatewayStore._transaction makes each atomic, and nothing  *)
(* makes two of them atomic together.                                      *)
(***************************************************************************)
EXTENDS Naturals, Sequences

CONSTANTS
    Jobs,            \* job ids create_job may draw (bounds the jobs of a run)
    NoJob,           \* "no job"
    Conns,           \* connection ids
    Selections,      \* the id lists a caller may submit
    ProviderIsFake,  \* is app.state.device_data_provider "fake"?
    SecondProcess,   \* may another process open the same database?
    MaxFaults        \* bound: transactions and thread starts that fail

ASSUME BatchAssumption ==
    /\ NoJob \notin Jobs
    /\ Selections \subseteq Seq(Conns)
    /\ \A ids \in Selections :
        /\ Len(ids) \in 1 .. 1000
        /\ \A i, k \in 1 .. Len(ids) : ids[i] = ids[k] => i = k
    /\ ProviderIsFake \in BOOLEAN
    /\ SecondProcess \in BOOLEAN
    /\ MaxFaults \in Nat

VARIABLES
    \* The database.
    jobs,       \* table gateway_jobs: the row of each job id
    inventory,  \* client_type of each connection, or "deleted"
    \* The application process.
    proc,       \* "up", "stopping" (BatchService._closed), "stopped", "crashed"
    start,      \* the start() call that holds BatchService._lock, if any
    queue,      \* work items of the executor
    threadUp,   \* has the executor's one thread been started?
    future,     \* the job of BatchService._future
    worker,     \* the executor's thread in _run
    \* Bookkeeping that the code does not have.
    faults,     \* failures injected so far
    lost        \* jobs whose last write failed or was never acknowledged

process == <<start, queue, threadUp, future, worker>>
vars == <<jobs, inventory, proc, start, queue, threadUp, future, worker,
          faults, lost>>

Kinds == {"network", "fake"}
Item == [conn : Conns, kind : Kinds]
Result == [conn : Conns, simulated : BOOLEAN, success : BOOLEAN]
Errors == {"none", "unscheduled", "shutdown", "batch", "restart"}
Row == [status : {"absent", "queued", "running", "completed", "failed"},
        slot : BOOLEAN, snapshot : Seq(Item), completed : Nat,
        results : Seq(Result), error : Errors]

StartState == [pc : {"free", "check", "create", "submit", "unscheduled"},
               ids : Seq(Conns), idx : Nat, job : Jobs \cup {NoJob}]
WorkerState == [pc : {"idle", "running", "load", "loop", "testing",
                      "completing", "failing", "interrupting"},
                job : Jobs \cup {NoJob}, profiles : Seq(Item), next : Nat]

Absent == [status |-> "absent", slot |-> FALSE, snapshot |-> <<>>,
           completed |-> 0, results |-> <<>>, error |-> "none"]

Active(row)   == row.status \in {"queued", "running"}
Terminal(row) == row.status \in {"completed", "failed"}

-----------------------------------------------------------------------------
\* Transactions.  A write commits and is acknowledged, is rolled back
\* ("lost": 503), or commits although the caller sees an error ("unknown": the
\* connection broke at COMMIT).

Outcomes == {"ok", "lost", "unknown"}

Happens(outcome) ==
    /\ outcome # "ok" => faults < MaxFaults
    /\ faults' = IF outcome = "ok" THEN faults ELSE faults + 1

\* Job j's row becomes `row` unless the store refuses it or rolls it back.
Write(j, allowed, row, outcome) ==
    jobs' = [jobs EXCEPT ![j] =
                IF allowed /\ outcome # "lost" THEN row ELSE @]

-----------------------------------------------------------------------------
\* GatewayStore: the job rows.

SlotFree == \A j \in Jobs : ~jobs[j].slot

\* set_job_status: the transition table and the two conditions on it.
StatusAllowed(row, status) ==
    /\ \/ row.status = "queued"  /\ status \in {"queued", "running", "failed"}
       \/ row.status = "running" /\ status \in {"running", "completed", "failed"}
       \/ Terminal(row)          /\ status = row.status
    /\ status = "completed" => row.completed = Len(row.snapshot)

BadWithStatus(row, status, error) ==
    [row EXCEPT !.status = status, !.error = error]

WithStatus(row, status, error) ==
    [row EXCEPT !.status = status, !.error = error,
                !.slot = status \in {"queued", "running"}]

\* record_job_result: what it requires of the row, and the row it leaves.
BadRecordAllowed(row, result) ==
    /\ \E i \in DOMAIN row.snapshot : row.snapshot[i].conn = result.conn
    /\ \A k \in DOMAIN row.results : row.results[k].conn # result.conn

RecordAllowed(row, result) ==
    /\ Active(row)
    /\ \E i \in DOMAIN row.snapshot :
        /\ row.snapshot[i].conn = result.conn
        /\ result.simulated = (row.snapshot[i].kind = "fake")
    /\ \A k \in DOMAIN row.results : row.results[k].conn # result.conn

BadWithResult(row, result) ==
    [row EXCEPT !.results = <<result>>, !.completed = @ + 1]

WithResult(row, result) ==
    LET results == Append(row.results, result)
    IN  [row EXCEPT !.results = results, !.completed = Len(results)]

\* GatewayStore.__init__: opening the database ends every unfinished job.
BadRecovered(row) ==
    IF row.slot
    THEN [row EXCEPT !.status = "interrupted", !.slot = FALSE, !.error = "restart"]
    ELSE row

Recovered(row) ==
    IF row.slot
    THEN [row EXCEPT !.status = "failed", !.slot = FALSE, !.error = "restart"]
    ELSE row

\* create_job's snapshot: every selected connection as it is now.
Snapshot(ids) == [i \in DOMAIN ids |-> [conn |-> ids[i],
                                        kind |-> inventory[ids[i]]]]

NewRow(ids) == [Absent EXCEPT !.status = "queued", !.slot = TRUE,
                              !.snapshot = Snapshot(ids)]

\* ManagementService.check_test_provider.
ProviderAccepts(kind) == kind = "fake" => ProviderIsFake

-----------------------------------------------------------------------------
\* The inventory requests that run beside a job: a save may flip client_type
\* (the API accepts "fake" whatever the provider is), a delete ends the id.

EditConnection(c, kind) ==
    /\ proc = "up"
    /\ inventory[c] # "deleted"
    /\ inventory' = [inventory EXCEPT ![c] = kind]
    /\ UNCHANGED <<jobs, proc, process, faults, lost>>

-----------------------------------------------------------------------------
\* BatchService.start.  It holds _lock from the first check to the submit, so
\* one call is in progress at a time and the others wait.  A refused call
\* raises and leaves everything as it was.

NoStart == [pc |-> "free", ids |-> <<>>, idx |-> 1, job |-> NoJob]

\* self._future is None or self._future.done()
FutureDone ==
    /\ \A i \in DOMAIN queue : queue[i] # future
    /\ worker.pc # "idle" => worker.job # future

StartBegin(ids) ==
    /\ proc = "up"
    /\ start.pc = "free"
    /\ FutureDone
    /\ \E j \in Jobs : jobs[j].status = "absent"   \* bound: ids left to draw
    /\ start' = [NoStart EXCEPT !.pc = "check", !.ids = ids]
    /\ UNCHANGED <<jobs, inventory, proc, queue, threadUp, future, worker,
                   faults, lost>>

\* store.get and check_test_provider, one transaction per connection.
StartCheck ==
    /\ start.pc = "check"
    /\ \E outcome \in {"ok", "lost"} :
        /\ Happens(outcome)
        /\ LET kind == inventory[start.ids[start.idx]]
               passes == outcome = "ok" /\ kind # "deleted" /\ ProviderAccepts(kind)
           IN  start' = IF ~passes THEN NoStart
                        ELSE IF start.idx < Len(start.ids)
                        THEN [start EXCEPT !.idx = @ + 1]
                        ELSE [start EXCEPT !.pc = "create"]
    /\ UNCHANGED <<jobs, inventory, proc, queue, threadUp, future, worker, lost>>

\* create_job: the active-slot check, the snapshot and the insert are one
\* transaction.
BadCreateAllowed(ids) ==
    \A i \in DOMAIN ids : inventory[ids[i]] # "deleted"

CreateAllowed(ids) ==
    /\ SlotFree
    /\ \A i \in DOMAIN ids : inventory[ids[i]] # "deleted"

StartCreate(j) ==
    /\ start.pc = "create"
    /\ jobs[j].status = "absent"
    /\ \E outcome \in Outcomes :
        LET allowed == CreateAllowed(start.ids)
        IN  /\ Happens(outcome)
            /\ Write(j, allowed, NewRow(start.ids), outcome)
            /\ start' = IF allowed /\ outcome = "ok"
                        THEN [start EXCEPT !.pc = "submit", !.job = j]
                        ELSE NoStart
            /\ lost' = IF allowed /\ outcome = "unknown"
                       THEN lost \cup {j} ELSE lost
    /\ UNCHANGED <<inventory, proc, queue, threadUp, future, worker>>

\* ThreadPoolExecutor.submit queues the work item, then starts the thread if
\* there is none; a failing thread start raises and leaves the item queued.
StartSubmit ==
    /\ start.pc = "submit"
    /\ queue' = Append(queue, start.job)
    /\ threadUp' = TRUE
    /\ future' = start.job
    /\ start' = NoStart
    /\ UNCHANGED <<jobs, inventory, proc, worker, faults, lost>>

StartSubmitFails ==
    /\ start.pc = "submit"
    /\ ~threadUp
    /\ Happens("lost")
    /\ queue' = Append(queue, start.job)
    /\ start' = [start EXCEPT !.pc = "unscheduled"]
    /\ UNCHANGED <<jobs, inventory, proc, threadUp, future, worker, lost>>

\* _fail: best effort; a refused or failing write is swallowed.
Fail(j, error, outcome) ==
    LET allowed == StatusAllowed(jobs[j], "failed")
    IN  /\ Happens(outcome)
        /\ Write(j, allowed, WithStatus(jobs[j], "failed", error), outcome)
        /\ lost' = IF Active(jobs[j]) /\ outcome = "lost"
                   THEN lost \cup {j} ELSE lost

StartUnscheduled ==
    /\ start.pc = "unscheduled"
    /\ \E outcome \in Outcomes : Fail(start.job, "unscheduled", outcome)
    /\ start' = NoStart
    /\ UNCHANGED <<inventory, proc, queue, threadUp, future, worker>>

-----------------------------------------------------------------------------
\* BatchService._run on the executor's single thread.

IdleWorker == [pc |-> "idle", job |-> NoJob, profiles |-> <<>>, next |-> 1]

WorkerTake ==
    /\ threadUp
    /\ worker.pc = "idle"
    /\ queue # <<>>
    /\ worker' = [IdleWorker EXCEPT !.pc = "running", !.job = Head(queue)]
    /\ queue' = Tail(queue)
    /\ UNCHANGED <<jobs, inventory, proc, start, threadUp, future, faults, lost>>

\* A store call of _run: its write, then the next label, or "failing" when the
\* store refuses it or reports an error (the except clause of _run).
WorkerWrites(allowed, row, then) ==
    /\ \E outcome \in Outcomes :
        /\ Happens(outcome)
        /\ Write(worker.job, allowed, row, outcome)
        /\ worker' = IF allowed /\ outcome = "ok"
                     THEN then ELSE [worker EXCEPT !.pc = "failing"]
    /\ UNCHANGED <<inventory, proc, start, queue, threadUp, future, lost>>

WorkerSetRunning ==
    /\ worker.pc = "running"
    /\ LET row == jobs[worker.job]
       IN  WorkerWrites(StatusAllowed(row, "running"),
                        WithStatus(row, "running", "none"),
                        [worker EXCEPT !.pc = "load"])

\* get_job_connections: a read, so a failure leaves no doubt.
Loaded(row) == row.snapshot

WorkerLoad ==
    /\ worker.pc = "load"
    /\ \E outcome \in {"ok", "lost"} :
        /\ Happens(outcome)
        /\ worker' = IF outcome = "ok"
                     THEN [worker EXCEPT !.pc = "loop",
                                         !.profiles = Loaded(jobs[worker.job])]
                     ELSE [worker EXCEPT !.pc = "failing"]
    /\ UNCHANGED <<jobs, inventory, proc, start, queue, threadUp, future, lost>>

\* The head of the loop: leave it, stop at the next device, or test it.
\* test_profile checks the provider outside safe_test, so that check raises.
BadLoopLabel(w) ==
    IF proc = "stopping" THEN "interrupting"
    ELSE IF w.next > Len(w.profiles) THEN "completing"
    ELSE IF ~ProviderAccepts(w.profiles[w.next].kind) THEN "failing"
    ELSE "testing"

LoopLabel(w) ==
    IF w.next > Len(w.profiles) THEN "completing"
    ELSE IF proc = "stopping" THEN "interrupting"
    ELSE IF ~ProviderAccepts(w.profiles[w.next].kind) THEN "failing"
    ELSE "testing"

WorkerLoop ==
    /\ worker.pc = "loop"
    /\ worker' = [worker EXCEPT !.pc = LoopLabel(worker)]
    /\ UNCHANGED <<jobs, inventory, proc, start, queue, threadUp, future,
                   faults, lost>>

\* The test ends (safe_test turns every failure into a result) and is recorded.
WorkerRecord ==
    /\ worker.pc = "testing"
    /\ \E success \in BOOLEAN :
        LET row == jobs[worker.job]
            item == worker.profiles[worker.next]
            result == [conn |-> item.conn, simulated |-> item.kind = "fake",
                       success |-> success]
        IN  WorkerWrites(RecordAllowed(row, result), WithResult(row, result),
                         [worker EXCEPT !.pc = "loop", !.next = @ + 1])

WorkerComplete ==
    /\ worker.pc = "completing"
    /\ LET row == jobs[worker.job]
       IN  WorkerWrites(StatusAllowed(row, "completed"),
                        WithStatus(row, "completed", "none"), IdleWorker)

BadWorkerFail ==
    /\ worker.pc \in {"failing", "interrupting"}
    /\ worker' = IdleWorker
    /\ UNCHANGED <<jobs, inventory, proc, start, queue, threadUp, future,
                   faults, lost>>

WorkerFail ==
    /\ worker.pc \in {"failing", "interrupting"}
    /\ LET error == IF worker.pc = "interrupting" THEN "shutdown" ELSE "batch"
       IN  \E outcome \in Outcomes : Fail(worker.job, error, outcome)
    /\ worker' = IdleWorker
    /\ UNCHANGED <<inventory, proc, start, queue, threadUp, future>>

-----------------------------------------------------------------------------
\* The lifespan of the process.

ProcessGone ==
    /\ start' = NoStart
    /\ queue' = <<>>
    /\ threadUp' = FALSE
    /\ future' = NoJob
    /\ worker' = IdleWorker

\* BatchService.shutdown: under _lock, _closed and _stop are set together.
ShutdownBegin ==
    /\ proc = "up"
    /\ start.pc = "free"
    /\ proc' = "stopping"
    /\ UNCHANGED <<jobs, inventory, process, faults, lost>>

\* executor.shutdown(wait=True) joins the thread, which first empties the queue
\* (a queue without a thread has nothing to join); then lifespan closes the store.
BadExecutorJoined == TRUE
BadQueueDrained == worker.pc = "idle" /\ queue = <<>>
ExecutorJoined == threadUp => worker.pc = "idle" /\ queue = <<>>

ShutdownEnd ==
    /\ proc = "stopping"
    /\ ExecutorJoined
    /\ proc' = "stopped"
    /\ ProcessGone
    /\ UNCHANGED <<jobs, inventory, faults, lost>>

Crash ==
    /\ proc \in {"up", "stopping"}
    /\ proc' = "crashed"
    /\ ProcessGone
    /\ UNCHANGED <<jobs, inventory, faults, lost>>

OpenStore ==
    /\ jobs' = [j \in Jobs |-> Recovered(jobs[j])]
    /\ lost' = {}

Restart ==
    /\ proc \in {"stopped", "crashed"}
    /\ proc' = "up"
    /\ OpenStore
    /\ UNCHANGED <<inventory, process, faults>>

\* Another process (a second gateway, the demo seeder) opens the database while
\* this one runs.
SecondOpen ==
    /\ SecondProcess
    /\ proc \in {"up", "stopping"}
    /\ OpenStore
    /\ UNCHANGED <<inventory, proc, process, faults>>

-----------------------------------------------------------------------------
Init ==
    /\ jobs = [j \in Jobs |-> Absent]
    /\ inventory \in [Conns -> Kinds]
    /\ proc = "up"
    /\ start = NoStart
    /\ queue = <<>>
    /\ threadUp = FALSE
    /\ future = NoJob
    /\ worker = IdleWorker
    /\ faults = 0
    /\ lost = {}

StartStep ==
    \/ StartCheck
    \/ \E j \in Jobs : StartCreate(j)
    \/ StartSubmit
    \/ StartSubmitFails
    \/ StartUnscheduled

WorkerStep ==
    \/ WorkerTake
    \/ WorkerSetRunning
    \/ WorkerLoad
    \/ WorkerLoop
    \/ WorkerRecord
    \/ WorkerComplete
    \/ WorkerFail

Next ==
    \/ \E c \in Conns, kind \in Kinds \cup {"deleted"} : EditConnection(c, kind)
    \/ \E ids \in Selections : StartBegin(ids)
    \/ StartStep
    \/ WorkerStep
    \/ ShutdownBegin
    \/ ShutdownEnd
    \/ Crash
    \/ Restart
    \/ SecondOpen

Spec == Init /\ [][Next]_vars

\* Threads that can run are scheduled; a device test ends because its Deadline
\* closes every resource it waits on.  Nothing forces a request, a shutdown, a
\* crash or a restart to happen.
Fairness ==
    /\ WF_vars(StartStep)
    /\ WF_vars(WorkerStep)
    /\ WF_vars(ShutdownEnd)

FairSpec == Spec /\ Fairness

-----------------------------------------------------------------------------
\* Properties.

\* Types of the variables: every row stays within gateway_jobs' CHECK constraints.
TypeOK ==
    /\ jobs \in [Jobs -> Row]
    /\ inventory \in [Conns -> Kinds \cup {"deleted"}]
    /\ proc \in {"up", "stopping", "stopped", "crashed"}
    /\ start \in StartState
    /\ queue \in Seq(Jobs)
    /\ threadUp \in BOOLEAN
    /\ future \in Jobs \cup {NoJob}
    /\ worker \in WorkerState
    /\ faults \in 0 .. MaxFaults
    /\ lost \subseteq Jobs

\* At most one job is unfinished at any time, and active_slot marks exactly the
\* unfinished one, whatever fails, crashes or is opened twice in between
\* (README: "at most one active bulk job"; create_job, set_job_status, recovery).
OneActiveJob ==
    /\ \A j \in Jobs : jobs[j].slot <=> Active(jobs[j])
    /\ \A j, k \in Jobs : Active(jobs[j]) /\ Active(jobs[k]) => j = k

\* The results of a job report on the devices of its snapshot, in order, each
\* once and with the simulated flag of the profile as it was at creation, even
\* if the connection was edited or deleted since; a completed job reports on
\* all of them (record_job_result, get_job_connections, set_job_status).
ReportFollowsSnapshot ==
    \A j \in Jobs :
        LET row == jobs[j]
        IN  /\ row.completed = Len(row.results)
            /\ Len(row.results) <= Len(row.snapshot)
            /\ \A i \in 1 .. Len(row.results) :
                /\ row.results[i].conn = row.snapshot[i].conn
                /\ row.results[i].simulated = (row.snapshot[i].kind = "fake")
            /\ row.status = "completed" => Len(row.results) = Len(row.snapshot)

\* Somebody in this process still works for job j: the start() that created it,
\* the executor's queue, or the worker.
HasOwner(j) ==
    \/ start.pc \in {"submit", "unscheduled"} /\ start.job = j
    \/ threadUp /\ \E i \in DOMAIN queue : queue[i] = j
    \/ worker.pc # "idle" /\ worker.job = j

\* An unfinished job of a running process has an owner that will end it, unless
\* the write that should have ended or acknowledged it failed (_fail: "restart
\* recovery is required"; the submit's except clause in start).
ActiveJobHasOwner ==
    proc \in {"up", "stopping"} =>
        \A j \in Jobs : Active(jobs[j]) => HasOwner(j) \/ j \in lost

\* After an orderly shutdown no job is left unfinished for restart recovery: the
\* store is closed after the worker has stopped (app/main.py, lifespan).
OrderlyShutdown ==
    proc = "stopped" => \A j \in Jobs : Active(jobs[j]) => j \in lost

\* A job is marked interrupted by shutdown only if a device really was left
\* untested; a stop that arrives during the last test changes nothing
\* (_run checks _stop before each device, not after the last).
ShutdownLeavesWork ==
    \A j \in Jobs : jobs[j].error = "shutdown" =>
        Len(jobs[j].results) < Len(jobs[j].snapshot)

\* What a caller has seen of a finished job stays: no later step of a worker, of
\* recovery or of a second process revives it or changes its snapshot or results
\* (exports are taken from finished jobs only).
TerminalIsFinal ==
    [][\A j \in Jobs : Terminal(jobs[j]) =>
        /\ jobs'[j].status = jobs[j].status
        /\ jobs'[j].snapshot = jobs[j].snapshot
        /\ jobs'[j].results = jobs[j].results
        /\ jobs'[j].completed = jobs[j].completed]_vars

\* Every accepted job ends, unless the process dies or the write that should end
\* it fails; in particular a device that fails does not hold the job up.
JobsSettle ==
    \A j \in Jobs : Active(jobs[j]) ~>
        Terminal(jobs[j]) \/ j \in lost \/ proc = "crashed"

\* A shutdown ends: it neither waits for a start() that waits for it nor for a
\* worker that goes on with every remaining device.
ShutdownEnds == (proc = "stopping") ~> (proc # "stopping")

\* README, "A failed device does not stop the remaining devices", and batches.py,
\* "failure-isolated jobs": without a storage failure or a second process the
\* batch as a whole never fails.
FailureIsolated ==
    faults = 0 /\ ~SecondProcess => \A j \in Jobs : jobs[j].error # "batch"

\* BatchJobs implements the promise of JobService.
Plans == {[i \in DOMAIN ids |-> [conn |-> ids[i], kind |-> kinds[ids[i]]]] :
             ids \in Selections, kinds \in [Conns -> Kinds]}

Service == INSTANCE JobService WITH
    phase  <- [j \in Jobs |-> IF Active(jobs[j]) THEN "active" ELSE jobs[j].status],
    plan   <- [j \in Jobs |-> jobs[j].snapshot],
    report <- [j \in Jobs |-> jobs[j].results]

ImplementsService == Service!Spec
=============================================================================
