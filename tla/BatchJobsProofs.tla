-------------------------- MODULE BatchJobsProofs ---------------------------
(***************************************************************************)
(* Proofs about BatchJobs, for every set of jobs, connections and          *)
(* selections, every provider setting and every number of failures.        *)
(***************************************************************************)
EXTENDS BatchJobs, TLAPS

Statuses == {"absent", "queued", "running", "completed", "failed"}

\* A label of start() or of the worker that needs a job has one, and an id list
\* in use is one that passed start()'s validation.
Labels ==
    /\ start.pc \in {"submit", "unscheduled"} => start.job \in Jobs
    /\ start.pc # "free" => start.ids \in Selections
    /\ start.pc = "check" => start.idx \in 1 .. Len(start.ids)
    /\ worker.pc # "idle" => worker.job \in Jobs
    /\ worker.next \in Nat \ {0}
    /\ worker.pc = "testing" => worker.next <= Len(worker.profiles)

TypeInv == TypeOK /\ Labels

-----------------------------------------------------------------------------
\* Rows.

\* Marking a job (set_job_status) and recovering it keep the row well-formed.
LEMMA WithStatusType ==
    ASSUME NEW row \in Row, NEW status \in Statuses, NEW error \in Errors
    PROVE  /\ WithStatus(row, status, error) \in Row
           /\ Recovered(row) \in Row
<1>1. (status \in {"queued", "running"}) \in BOOLEAN
  OBVIOUS
<1>2. WithStatus(row, status, error) \in Row
  BY <1>1 DEF WithStatus, Row, Statuses
<1>3. Recovered(row) \in Row
  BY DEF Recovered, Row, Errors
<1>. QED
  BY <1>2, <1>3

\* Recording a well-formed result keeps the row well-formed.
LEMMA WithResultType ==
    ASSUME NEW row \in Row, NEW result \in Result
    PROVE  WithResult(row, result) \in Row
<1>1. Append(row.results, result) \in Seq(Result)
  BY DEF Row
<1>2. Len(Append(row.results, result)) \in Nat
  BY <1>1
<1>. QED
  BY <1>1, <1>2 DEF WithResult, Row

\* The row create_job inserts is well-formed.
LEMMA NewRowType ==
    ASSUME NEW ids \in Selections, TypeOK, CreateAllowed(ids)
    PROVE  /\ Snapshot(ids) \in Seq(Item)
           /\ NewRow(ids) \in Row
<1>1. /\ ids \in Seq(Conns)
      /\ Len(ids) \in Nat
      /\ DOMAIN ids = 1 .. Len(ids)
  <2>1. ids \in Seq(Conns)
    BY BatchAssumption, ZenonT(60) DEF BatchAssumption
  <2>. QED
    BY <2>1
<1>2. ASSUME NEW i \in DOMAIN ids
      PROVE  [conn |-> ids[i], kind |-> inventory[ids[i]]] \in Item
  <2>1. ids[i] \in Conns
    BY <1>1
  <2>2. inventory[ids[i]] \in Kinds
    BY <2>1 DEF TypeOK, CreateAllowed
  <2>. QED
    BY <2>1, <2>2 DEF Item
<1>3. Snapshot(ids) \in [1 .. Len(ids) -> Item]
  BY <1>1, <1>2 DEF Snapshot
<1>4. Snapshot(ids) \in Seq(Item)
  BY <1>1, <1>3
<1>5. /\ <<>> \in Seq(Result)
      /\ 0 \in Nat
  OBVIOUS
<1>. QED
  BY <1>4, <1>5 DEF NewRow, Absent, Row, Errors

\* A write leaves well-formed rows.
LEMMA WriteType ==
    ASSUME TypeOK, NEW j \in Jobs, NEW allowed, NEW row, NEW outcome,
           allowed => row \in Row,
           Write(j, allowed, row, outcome)
    PROVE  jobs' \in [Jobs -> Row]
BY DEF Write, TypeOK

\* Failures are counted within their bound.
LEMMA HappensType ==
    ASSUME TypeOK, NEW outcome, Happens(outcome)
    PROVE  faults' \in 0 .. MaxFaults
<1>1. MaxFaults \in Nat
  BY BatchAssumption DEF BatchAssumption
<1>2. faults \in 0 .. MaxFaults
  BY DEF TypeOK
<1>. QED
  BY <1>1, <1>2 DEF Happens

\* Marking an allowed job failed (_fail) keeps rows, the failure count and the
\* set of lost jobs well-formed.
LEMMA FailType ==
    ASSUME TypeOK, NEW j \in Jobs, NEW error \in Errors, NEW outcome,
           Fail(j, error, outcome)
    PROVE  /\ jobs' \in [Jobs -> Row]
           /\ faults' \in 0 .. MaxFaults
           /\ lost' \subseteq Jobs
<1>1. jobs[j] \in Row
  BY DEF TypeOK
<1>2. WithStatus(jobs[j], "failed", error) \in Row
  BY <1>1, WithStatusType DEF Statuses
<1>3. jobs' \in [Jobs -> Row]
  BY <1>2, WriteType DEF Fail
<1>4. faults' \in 0 .. MaxFaults
  BY HappensType DEF Fail
<1>5. lost' \subseteq Jobs
  BY DEF Fail, TypeOK
<1>. QED
  BY <1>3, <1>4, <1>5

\* The initial worker and start() call are well-formed.
LEMMA IdleType ==
    /\ NoStart \in StartState
    /\ IdleWorker \in WorkerState
<1>1. <<>> \in Seq(Conns) /\ <<>> \in Seq(Item) /\ 1 \in Nat
  OBVIOUS
<1>. QED
  BY <1>1 DEF NoStart, IdleWorker, StartState, WorkerState

-----------------------------------------------------------------------------
\* Type correctness.

\* A step of start() preserves the types and the labels.
LEMMA StartTyped == TypeInv /\ StartStep => TypeInv'
<1>. SUFFICES ASSUME TypeInv, StartStep PROVE TypeInv'
  OBVIOUS
<1>. USE DEF TypeInv
<1>1. CASE StartCheck
  <2>1. faults' \in 0 .. MaxFaults
    BY <1>1, HappensType DEF StartCheck
  <2>2. start' \in {NoStart, [start EXCEPT !.idx = @ + 1],
                    [start EXCEPT !.pc = "create"]}
    BY <1>1 DEF StartCheck
  <2>3. start.idx < Len(start.ids) \/ start'.pc # "check"
    BY <1>1 DEF StartCheck, NoStart, TypeOK
  <2>4. start.pc = "check" /\ start.ids \in Selections
    BY <1>1 DEF StartCheck, Labels
  <2>5. TypeOK'
    <3>1. start' \in StartState
      <4>1. start \in StartState
        BY DEF TypeOK
      <4>2. /\ [start EXCEPT !.idx = @ + 1] \in StartState
            /\ [start EXCEPT !.pc = "create"] \in StartState
        BY <4>1 DEF StartState
      <4>. QED
        BY <2>2, <4>2, IdleType
    <3>. QED
      BY <1>1, <2>1, <3>1 DEF StartCheck, TypeOK
  <2>6. start.idx \in 1 .. Len(start.ids) /\ Len(start.ids) \in Nat
    BY <2>4 DEF Labels, TypeOK
  <2>7. start' = NoStart \/
        /\ start'.ids = start.ids
        /\ \/ start'.pc = "create"
           \/ start'.pc = "check" /\ start'.idx \in 1 .. Len(start.ids)
    BY <2>2, <2>3, <2>4, <2>6 DEF TypeOK, StartState
  <2>8. Labels'
    <3>1. CASE start' = NoStart
      BY <1>1, <2>4, <3>1 DEF StartCheck, Labels, NoStart
    <3>2. CASE start' # NoStart
      BY <1>1, <2>4, <2>7, <3>2 DEF StartCheck, Labels
    <3>. QED
      BY <3>1, <3>2
  <2>. QED
    BY <2>5, <2>8
<1>2. ASSUME NEW j \in Jobs, StartCreate(j)
      PROVE  TypeInv'
  <2>1. PICK outcome \in Outcomes :
          /\ Happens(outcome)
          /\ Write(j, CreateAllowed(start.ids), NewRow(start.ids), outcome)
          /\ start' \in {[start EXCEPT !.pc = "submit", !.job = j], NoStart}
          /\ lost' \in {lost, lost \cup {j}}
    BY <1>2 DEF StartCreate
  <2>2. start.ids \in Selections
    BY <1>2 DEF StartCreate, Labels
  <2>3. jobs' \in [Jobs -> Row]
    BY <2>1, <2>2, NewRowType, WriteType
  <2>4. faults' \in 0 .. MaxFaults
    BY <2>1, HappensType
  <2>5. [start EXCEPT !.pc = "submit", !.job = j] \in StartState
    BY DEF TypeOK, StartState
  <2>6. TypeOK'
    BY <1>2, <2>1, <2>3, <2>4, <2>5, IdleType DEF StartCreate, TypeOK
  <2>7. Labels'
    BY <1>2, <2>1, <2>2 DEF StartCreate, Labels, NoStart, TypeOK, StartState
  <2>. QED
    BY <2>6, <2>7
<1>3. CASE StartSubmit
  <2>1. start.job \in Jobs
    BY <1>3 DEF StartSubmit, Labels
  <2>2. queue' \in Seq(Jobs)
    BY <1>3, <2>1 DEF StartSubmit, TypeOK
  <2>3. TypeOK'
    BY <1>3, <2>1, <2>2, IdleType DEF StartSubmit, TypeOK
  <2>4. Labels'
    BY <1>3 DEF StartSubmit, Labels, NoStart
  <2>. QED
    BY <2>3, <2>4
<1>4. CASE StartSubmitFails
  <2>1. start.job \in Jobs
    BY <1>4 DEF StartSubmitFails, Labels
  <2>2. queue' \in Seq(Jobs)
    BY <1>4, <2>1 DEF StartSubmitFails, TypeOK
  <2>3. faults' \in 0 .. MaxFaults
    BY <1>4, HappensType DEF StartSubmitFails
  <2>4. [start EXCEPT !.pc = "unscheduled"] \in StartState
    BY DEF TypeOK, StartState
  <2>5. TypeOK'
    BY <1>4, <2>2, <2>3, <2>4 DEF StartSubmitFails, TypeOK
  <2>6. Labels'
    BY <1>4 DEF StartSubmitFails, Labels, TypeOK, StartState
  <2>. QED
    BY <2>5, <2>6
<1>5. CASE StartUnscheduled
  <2>1. start.job \in Jobs
    BY <1>5 DEF StartUnscheduled, Labels
  <2>2. PICK outcome \in Outcomes : Fail(start.job, "unscheduled", outcome)
    BY <1>5 DEF StartUnscheduled
  <2>3. /\ jobs' \in [Jobs -> Row]
        /\ faults' \in 0 .. MaxFaults
        /\ lost' \subseteq Jobs
    BY <2>1, <2>2, FailType DEF Errors
  <2>4. TypeOK'
    BY <1>5, <2>3, IdleType DEF StartUnscheduled, TypeOK
  <2>5. Labels'
    BY <1>5 DEF StartUnscheduled, Labels, NoStart
  <2>. QED
    BY <2>4, <2>5
<1>. QED
  BY <1>1, <1>2, <1>3, <1>4, <1>5 DEF StartStep

\* A step of the worker preserves the types and the labels.
LEMMA WorkerTyped == TypeInv /\ WorkerStep => TypeInv'
<1>. SUFFICES ASSUME TypeInv, WorkerStep PROVE TypeInv'
  OBVIOUS
<1>. USE DEF TypeInv
<1>a. ASSUME NEW allowed, NEW row, NEW then \in WorkerState,
             worker.pc # "idle",
             allowed => row \in Row,
             WorkerWrites(allowed, row, then),
             then.pc # "idle" => then.job \in Jobs,
             then.next # 0,
             then.pc # "testing"
      PROVE  TypeInv'
  <2>1. worker.job \in Jobs
    BY <1>a DEF Labels
  <2>2. PICK outcome \in Outcomes :
          /\ Happens(outcome)
          /\ Write(worker.job, allowed, row, outcome)
          /\ worker' \in {then, [worker EXCEPT !.pc = "failing"]}
    BY <1>a DEF WorkerWrites
  <2>3. jobs' \in [Jobs -> Row]
    BY <1>a, <2>1, <2>2, WriteType
  <2>4. faults' \in 0 .. MaxFaults
    BY <2>2, HappensType
  <2>5. /\ [worker EXCEPT !.pc = "failing"] \in WorkerState
        /\ [worker EXCEPT !.pc = "failing"].pc = "failing"
        /\ [worker EXCEPT !.pc = "failing"].job = worker.job
        /\ [worker EXCEPT !.pc = "failing"].next = worker.next
    BY DEF TypeOK, WorkerState
  <2>6. worker' \in WorkerState
    BY <1>a, <2>2, <2>5
  <2>7. TypeOK'
    BY <1>a, <2>3, <2>4, <2>6 DEF WorkerWrites, TypeOK
  <2>8. /\ worker'.pc # "idle" => worker'.job \in Jobs
        /\ worker'.next \in Nat \ {0}
        /\ worker'.pc # "testing"
    BY <1>a, <2>1, <2>2, <2>5 DEF Labels, WorkerState
  <2>9. UNCHANGED start
    BY <1>a DEF WorkerWrites
  <2>. QED
    BY <2>7, <2>8, <2>9 DEF Labels
<1>1. CASE WorkerTake
  <2>1. Head(queue) \in Jobs /\ Tail(queue) \in Seq(Jobs)
    BY <1>1 DEF WorkerTake, TypeOK
  <2>2. /\ worker' \in WorkerState
        /\ worker'.job \in Jobs
        /\ worker'.pc = "running"
        /\ worker'.next = 1
    BY <1>1, <2>1, IdleType DEF WorkerTake, IdleWorker, WorkerState
  <2>3. TypeOK'
    BY <1>1, <2>1, <2>2 DEF WorkerTake, TypeOK
  <2>4. Labels'
    BY <1>1, <2>2 DEF WorkerTake, Labels
  <2>. QED
    BY <2>3, <2>4
<1>2. CASE WorkerSetRunning
  <2>. DEFINE then == [worker EXCEPT !.pc = "load"]
  <2>1. worker.job \in Jobs /\ jobs[worker.job] \in Row
    BY <1>2 DEF WorkerSetRunning, Labels, TypeOK
  <2>2. WithStatus(jobs[worker.job], "running", "none") \in Row
    BY <2>1, WithStatusType DEF Statuses, Errors
  <2>3. /\ then \in WorkerState
        /\ then.pc = "load" /\ then.job = worker.job /\ then.next = worker.next
    BY DEF TypeOK, WorkerState
  <2>4. WorkerWrites(StatusAllowed(jobs[worker.job], "running"),
                     WithStatus(jobs[worker.job], "running", "none"), then)
    BY <1>2 DEF WorkerSetRunning
  <2>. QED
    BY <1>2, <1>a, <2>1, <2>2, <2>3, <2>4 DEF WorkerSetRunning, Labels
<1>3. CASE WorkerLoad
  <2>1. worker.job \in Jobs /\ jobs[worker.job] \in Row
    BY <1>3 DEF WorkerLoad, Labels, TypeOK
  <2>2. PICK outcome \in {"ok", "lost"} :
          /\ Happens(outcome)
          /\ worker' \in {[worker EXCEPT !.pc = "loop",
                                         !.profiles = jobs[worker.job].snapshot],
                          [worker EXCEPT !.pc = "failing"]}
    BY <1>3 DEF WorkerLoad, Loaded
  <2>3. /\ worker' \in WorkerState
        /\ worker'.pc \in {"loop", "failing"}
        /\ worker'.job = worker.job /\ worker'.next = worker.next
    BY <2>1, <2>2 DEF TypeOK, WorkerState, Row
  <2>4. faults' \in 0 .. MaxFaults
    BY <2>2, HappensType
  <2>5. TypeOK'
    BY <1>3, <2>3, <2>4 DEF WorkerLoad, TypeOK
  <2>6. Labels'
    BY <1>3, <2>1, <2>3 DEF WorkerLoad, Labels
  <2>. QED
    BY <2>5, <2>6
<1>4. CASE WorkerLoop
  <2>1. /\ worker' = [worker EXCEPT !.pc = LoopLabel(worker)]
        /\ worker.job \in Jobs
    BY <1>4 DEF WorkerLoop, Labels
  <2>2. LoopLabel(worker) \in {"completing", "interrupting", "failing", "testing"}
    BY DEF LoopLabel
  <2>3. /\ worker' \in WorkerState
        /\ worker'.pc = LoopLabel(worker)
        /\ worker'.job = worker.job
        /\ worker'.next = worker.next
        /\ worker'.profiles = worker.profiles
    BY <2>1, <2>2 DEF TypeOK, WorkerState
  <2>4. worker.next \in Nat /\ Len(worker.profiles) \in Nat
    BY DEF TypeOK, WorkerState
  <2>5. LoopLabel(worker) = "testing" => worker.next <= Len(worker.profiles)
    BY <2>4 DEF LoopLabel
  <2>6. TypeOK'
    BY <1>4, <2>3 DEF WorkerLoop, TypeOK
  <2>7. Labels'
    BY <1>4, <2>1, <2>3, <2>5 DEF WorkerLoop, Labels
  <2>. QED
    BY <2>6, <2>7
<1>5. CASE WorkerRecord
  <2>. DEFINE item == worker.profiles[worker.next]
              then == [worker EXCEPT !.pc = "loop", !.next = @ + 1]
              result(success) == [conn |-> item.conn,
                                  simulated |-> item.kind = "fake",
                                  success |-> success]
  <2>1. worker.job \in Jobs /\ jobs[worker.job] \in Row
    BY <1>5 DEF WorkerRecord, Labels, TypeOK
  <2>2. PICK success \in BOOLEAN :
          WorkerWrites(RecordAllowed(jobs[worker.job], result(success)),
                       WithResult(jobs[worker.job], result(success)), then)
    BY <1>5 DEF WorkerRecord
  <2>3. item \in Item
    BY <1>5 DEF WorkerRecord, Labels, TypeOK, WorkerState
  <2>4. (item.kind = "fake") \in BOOLEAN
    OBVIOUS
  <2>5. result(success) \in Result
    BY <2>3, <2>4 DEF Item, Result
  <2>6. WithResult(jobs[worker.job], result(success)) \in Row
    BY <2>1, <2>5, WithResultType
  <2>7. /\ then \in WorkerState
        /\ then.pc = "loop" /\ then.job = worker.job /\ then.next = worker.next + 1
    <3>1. worker \in WorkerState
      BY DEF TypeOK
    <3>2. worker.next + 1 \in Nat
      BY <3>1 DEF WorkerState
    <3>. QED
      BY <3>1, <3>2 DEF WorkerState
  <2>8. then.next # 0
    BY <2>7 DEF Labels
  <2>. HIDE DEF then, result
  <2>. QED
    BY <1>5, <1>a, <2>1, <2>2, <2>6, <2>7, <2>8 DEF WorkerRecord
<1>6. CASE WorkerComplete
  <2>1. worker.job \in Jobs /\ jobs[worker.job] \in Row
    BY <1>6 DEF WorkerComplete, Labels, TypeOK
  <2>2. WithStatus(jobs[worker.job], "completed", "none") \in Row
    BY <2>1, WithStatusType DEF Statuses, Errors
  <2>3. /\ IdleWorker \in WorkerState
        /\ IdleWorker.pc = "idle" /\ IdleWorker.next = 1
    BY IdleType DEF IdleWorker
  <2>4. WorkerWrites(StatusAllowed(jobs[worker.job], "completed"),
                     WithStatus(jobs[worker.job], "completed", "none"), IdleWorker)
    BY <1>6 DEF WorkerComplete
  <2>. QED
    BY <1>6, <1>a, <2>2, <2>3, <2>4 DEF WorkerComplete
<1>7. CASE WorkerFail
  <2>1. worker.job \in Jobs
    BY <1>7 DEF WorkerFail, Labels
  <2>2. PICK error \in Errors, outcome \in Outcomes :
          Fail(worker.job, error, outcome)
    BY <1>7 DEF WorkerFail, Errors
  <2>3. /\ jobs' \in [Jobs -> Row]
        /\ faults' \in 0 .. MaxFaults
        /\ lost' \subseteq Jobs
    BY <2>1, <2>2, FailType
  <2>4. TypeOK'
    BY <1>7, <2>3, IdleType DEF WorkerFail, TypeOK
  <2>5. Labels'
    BY <1>7 DEF WorkerFail, Labels, IdleWorker
  <2>. QED
    BY <2>4, <2>5
<1>. QED
  BY <1>1, <1>2, <1>3, <1>4, <1>5, <1>6, <1>7 DEF WorkerStep

\* A step of the environment (inventory requests, shutdown, crash, restart, a
\* second process) preserves the types and the labels.
LEMMA LifespanTyped ==
    ASSUME TypeInv,
           \/ \E c \in Conns, kind \in Kinds \cup {"deleted"} : EditConnection(c, kind)
           \/ \E ids \in Selections : StartBegin(ids)
           \/ ShutdownBegin \/ ShutdownEnd \/ Crash \/ Restart \/ SecondOpen
    PROVE  TypeInv'
<1>. USE DEF TypeInv
<1>1. ASSUME NEW c \in Conns, NEW kind \in Kinds \cup {"deleted"},
             EditConnection(c, kind)
      PROVE  TypeInv'
  BY <1>1 DEF EditConnection, process, TypeOK, Labels
<1>2. ASSUME NEW ids \in Selections, StartBegin(ids)
      PROVE  TypeInv'
  <2>1. ids \in Seq(Conns) /\ Len(ids) \in Nat /\ Len(ids) # 0
    <3>1. ids \in Seq(Conns) /\ Len(ids) \in 1 .. 1000
      BY BatchAssumption, ZenonT(60) DEF BatchAssumption
    <3>2. \A n \in 1 .. 1000 : n \in Nat /\ n # 0
      OBVIOUS
    <3>. QED
      BY <3>1, <3>2, ZenonT(60)
  <2>2. /\ start' \in StartState
        /\ start'.pc = "check" /\ start'.ids = ids /\ start'.idx = 1
    BY <1>2, <2>1, IdleType DEF StartBegin, NoStart, StartState
  <2>3. TypeOK'
    BY <1>2, <2>2 DEF StartBegin, TypeOK
  <2>4. 1 \in 1 .. Len(ids)
    BY <2>1
  <2>5. Labels'
    BY <1>2, <2>2, <2>4 DEF StartBegin, Labels
  <2>. QED
    BY <2>3, <2>5
<1>3. CASE ShutdownBegin
  BY <1>3 DEF ShutdownBegin, process, TypeOK, Labels
<1>4. CASE ShutdownEnd \/ Crash
  <2>1. ProcessGone
    BY <1>4 DEF ShutdownEnd, Crash
  <2>2. <<>> \in Seq(Jobs)
    OBVIOUS
  <2>3. TypeOK'
    BY <1>4, <2>1, <2>2, IdleType DEF ShutdownEnd, Crash, ProcessGone, TypeOK
  <2>4. Labels'
    BY <2>1 DEF ProcessGone, NoStart, IdleWorker, Labels
  <2>. QED
    BY <2>3, <2>4
<1>5. CASE Restart \/ SecondOpen
  <2>1. OpenStore
    BY <1>5 DEF Restart, SecondOpen
  <2>2. ASSUME NEW j \in Jobs PROVE Recovered(jobs[j]) \in Row
    BY WithStatusType DEF TypeOK, Statuses, Errors
  <2>3. jobs' \in [Jobs -> Row]
    BY <2>1, <2>2 DEF OpenStore
  <2>4. TypeOK'
    BY <1>5, <2>1, <2>3 DEF Restart, SecondOpen, OpenStore, process, TypeOK
  <2>5. Labels'
    BY <1>5 DEF Restart, SecondOpen, process, Labels
  <2>. QED
    BY <2>4, <2>5
<1>. QED
  BY <1>1, <1>2, <1>3, <1>4, <1>5

\* The initial state satisfies the types and the labels.
LEMMA InitTyped == Init => TypeInv
<1>. SUFFICES ASSUME Init PROVE TypeInv
  OBVIOUS
<1>1. Absent \in Row
  <2>1. <<>> \in Seq(Item) /\ <<>> \in Seq(Result) /\ 0 \in Nat
    OBVIOUS
  <2>. QED
    BY <2>1 DEF Absent, Row, Errors
<1>2. /\ <<>> \in Seq(Jobs)
      /\ 0 \in 0 .. MaxFaults
  <2>1. MaxFaults \in Nat
    BY BatchAssumption DEF BatchAssumption
  <2>. QED
    BY <2>1
<1>3. TypeOK
  BY <1>1, <1>2, IdleType DEF Init, TypeOK
<1>4. Labels
  BY DEF Init, Labels, NoStart, IdleWorker
<1>. QED
  BY <1>3, <1>4 DEF TypeInv

\* Every step preserves them.
LEMMA NextTyped == TypeInv /\ [Next]_vars => TypeInv'
<1>. SUFFICES ASSUME TypeInv, [Next]_vars PROVE TypeInv'
  OBVIOUS
<1>1. CASE UNCHANGED vars
  BY <1>1 DEF vars, TypeInv, TypeOK, Labels
<1>2. CASE Next
  BY <1>2, StartTyped, WorkerTyped, LifespanTyped DEF Next
<1>. QED
  BY <1>1, <1>2

\* Type correctness of the job service, and: whoever needs a job has one.
THEOREM TypeCorrect == Spec => []TypeOK
<1>1. TypeInv => TypeOK
  BY DEF TypeInv
<1>. QED
  BY <1>1, InitTyped, NextTyped, PTL DEF Spec

-----------------------------------------------------------------------------
\* What a step may do to the job rows: every step leaves them alone, or is one
\* of the four transactions of GatewayStore that write them.

Created(j, ids) ==
    /\ jobs[j].status = "absent"
    /\ CreateAllowed(ids)
    /\ jobs' = [jobs EXCEPT ![j] = NewRow(ids)]

Marked(j, status, error) ==
    /\ StatusAllowed(jobs[j], status)
    /\ jobs' = [jobs EXCEPT ![j] = WithStatus(jobs[j], status, error)]

Recorded(j, result) ==
    /\ worker.pc = "testing"
    /\ worker.job = j
    /\ worker'.pc # "testing"
    /\ result.conn = worker.profiles[worker.next].conn
    /\ result.simulated = (worker.profiles[worker.next].kind = "fake")
    /\ RecordAllowed(jobs[j], result)
    /\ jobs' = [jobs EXCEPT ![j] = WithResult(jobs[j], result)]

JobsStep ==
    \/ jobs' = jobs
    \/ \E j \in Jobs, ids \in Selections : Created(j, ids)
    \/ \E j \in Jobs, status \in Statuses \ {"absent"}, error \in Errors :
         Marked(j, status, error)
    \/ \E j \in Jobs, result \in Result : Recorded(j, result)
    \/ jobs' = [j \in Jobs |-> Recovered(jobs[j])]

\* A write that the store refuses or rolls back changes no row.
LEMMA WriteCases ==
    ASSUME TypeOK, NEW j, NEW allowed, NEW row, NEW outcome,
           Write(j, allowed, row, outcome)
    PROVE  \/ jobs' = jobs
           \/ allowed /\ jobs' = [jobs EXCEPT ![j] = row]
<1>1. jobs = [jobs EXCEPT ![j] = jobs[j]]
  BY DEF TypeOK
<1>. QED
  BY <1>1 DEF Write

\* _fail marks the job failed or changes nothing.
LEMMA FailStep ==
    ASSUME TypeOK, NEW j \in Jobs, NEW error \in Errors, NEW outcome,
           Fail(j, error, outcome)
    PROVE  JobsStep
<1>1. jobs' = jobs \/ Marked(j, "failed", error)
  BY WriteCases DEF Fail, Marked
<1>. QED
  BY <1>1 DEF JobsStep, Statuses

\* Every step of the system is such a step on the rows.
LEMMA NextJobsStep == TypeInv /\ [Next]_vars => JobsStep
<1>. SUFFICES ASSUME TypeInv, [Next]_vars PROVE JobsStep
  OBVIOUS
<1>. USE DEF TypeInv
<1>0. ASSUME jobs' = jobs PROVE JobsStep
  BY <1>0 DEF JobsStep
<1>1. ASSUME NEW j \in Jobs, StartCreate(j) PROVE JobsStep
  <2>1. start.ids \in Selections /\ jobs[j].status = "absent"
    BY <1>1 DEF StartCreate, Labels
  <2>2. PICK outcome \in Outcomes :
          Write(j, CreateAllowed(start.ids), NewRow(start.ids), outcome)
    BY <1>1 DEF StartCreate
  <2>3. jobs' = jobs \/ Created(j, start.ids)
    BY <2>1, <2>2, WriteCases DEF Created
  <2>. QED
    BY <2>1, <2>3 DEF JobsStep
<1>2. CASE StartUnscheduled
  <2>1. start.job \in Jobs /\ "unscheduled" \in Errors
    BY <1>2 DEF StartUnscheduled, Labels, Errors
  <2>. QED
    BY <1>2, <2>1, FailStep DEF StartUnscheduled
<1>3. CASE WorkerFail
  <2>1. worker.job \in Jobs
    BY <1>3 DEF WorkerFail, Labels
  <2>2. PICK error \in Errors, outcome \in Outcomes :
          Fail(worker.job, error, outcome)
    BY <1>3 DEF WorkerFail, Errors
  <2>. QED
    BY <2>1, <2>2, FailStep
<1>4. CASE WorkerSetRunning
  <2>1. worker.job \in Jobs
    BY <1>4 DEF WorkerSetRunning, Labels
  <2>2. PICK outcome \in Outcomes :
          Write(worker.job, StatusAllowed(jobs[worker.job], "running"),
                WithStatus(jobs[worker.job], "running", "none"), outcome)
    BY <1>4 DEF WorkerSetRunning, WorkerWrites
  <2>3. jobs' = jobs \/ Marked(worker.job, "running", "none")
    BY <2>2, WriteCases DEF Marked
  <2>. QED
    BY <2>1, <2>3 DEF JobsStep, Statuses, Errors
<1>5. CASE WorkerComplete
  <2>1. worker.job \in Jobs
    BY <1>5 DEF WorkerComplete, Labels
  <2>2. PICK outcome \in Outcomes :
          Write(worker.job, StatusAllowed(jobs[worker.job], "completed"),
                WithStatus(jobs[worker.job], "completed", "none"), outcome)
    BY <1>5 DEF WorkerComplete, WorkerWrites
  <2>3. jobs' = jobs \/ Marked(worker.job, "completed", "none")
    BY <2>2, WriteCases DEF Marked
  <2>. QED
    BY <2>1, <2>3 DEF JobsStep, Statuses, Errors
<1>6. CASE WorkerRecord
  <2>. DEFINE item == worker.profiles[worker.next]
              result(success) == [conn |-> item.conn,
                                  simulated |-> item.kind = "fake",
                                  success |-> success]
  <2>1. worker.job \in Jobs /\ worker.pc = "testing"
    BY <1>6 DEF WorkerRecord, Labels
  <2>2. item \in Item
    BY <2>1 DEF Labels, TypeOK, WorkerState
  <2>3. PICK success \in BOOLEAN, outcome \in Outcomes :
          Write(worker.job, RecordAllowed(jobs[worker.job], result(success)),
                WithResult(jobs[worker.job], result(success)), outcome)
    BY <1>6 DEF WorkerRecord, WorkerWrites
  <2>a. worker'.pc # "testing"
    <3>1. worker' \in {[worker EXCEPT !.pc = "loop", !.next = @ + 1],
                      [worker EXCEPT !.pc = "failing"]}
      BY <1>6 DEF WorkerRecord, WorkerWrites
    <3>. QED
      BY <3>1 DEF TypeOK, WorkerState
  <2>4. (item.kind = "fake") \in BOOLEAN
    OBVIOUS
  <2>5. /\ result(success) \in Result
        /\ result(success).conn = item.conn
        /\ result(success).simulated = (item.kind = "fake")
    BY <2>2, <2>4 DEF Item, Result
  <2>. HIDE DEF result
  <2>6. jobs' = jobs \/ Recorded(worker.job, result(success))
    BY <2>1, <2>3, <2>a, <2>5, WriteCases DEF Recorded
  <2>. QED
    BY <2>1, <2>5, <2>6 DEF JobsStep
<1>7. CASE Restart \/ SecondOpen
  BY <1>7 DEF Restart, SecondOpen, OpenStore, JobsStep
<1>8. CASE StartCheck \/ StartSubmit \/ StartSubmitFails
  BY <1>0, <1>8 DEF StartCheck, StartSubmit, StartSubmitFails
<1>9. CASE WorkerTake \/ WorkerLoad \/ WorkerLoop
  BY <1>0, <1>9 DEF WorkerTake, WorkerLoad, WorkerLoop
<1>10. CASE \/ \E c \in Conns, kind \in Kinds \cup {"deleted"} : EditConnection(c, kind)
            \/ \E ids \in Selections : StartBegin(ids)
            \/ ShutdownBegin \/ ShutdownEnd \/ Crash
  BY <1>0, <1>10 DEF EditConnection, StartBegin, ShutdownBegin, ShutdownEnd, Crash
<1>11. CASE UNCHANGED vars
  BY <1>0, <1>11 DEF vars
<1>. QED
  BY <1>1, <1>2, <1>3, <1>4, <1>5, <1>6, <1>7, <1>8, <1>9, <1>10, <1>11
     DEF Next, StartStep, WorkerStep

-----------------------------------------------------------------------------
\* At most one unfinished job.

\* Every step keeps active_slot in step with the status, and at most one job
\* unfinished: create_job looks at the slots and inserts in one transaction,
\* and no other write makes a finished job unfinished.
LEMMA NextOneActive == TypeInv /\ OneActiveJob /\ JobsStep => OneActiveJob'
<1>. SUFFICES ASSUME TypeInv, OneActiveJob, JobsStep PROVE OneActiveJob'
  OBVIOUS
<1>. USE DEF OneActiveJob
<1>0. jobs \in [Jobs -> Row]
  BY DEF TypeInv, TypeOK
<1>1. CASE jobs' = jobs
  BY <1>1
<1>2. ASSUME NEW j \in Jobs, NEW ids \in Selections, Created(j, ids)
      PROVE  OneActiveJob'
  <2>1. \A k \in Jobs : ~Active(jobs[k])
    BY <1>2 DEF Created, CreateAllowed, SlotFree
  <2>2. NewRow(ids).status = "queued" /\ NewRow(ids).slot = TRUE
    BY DEF NewRow, Absent
  <2>3. \A k \in Jobs : jobs'[k] = IF k = j THEN NewRow(ids) ELSE jobs[k]
    BY <1>0, <1>2 DEF Created
  <2>. QED
    BY <2>1, <2>2, <2>3 DEF Active
<1>3. ASSUME NEW j \in Jobs, NEW status \in Statuses \ {"absent"},
             NEW error \in Errors, Marked(j, status, error)
      PROVE  OneActiveJob'
  <2>. DEFINE row == WithStatus(jobs[j], status, error)
  <2>1. jobs[j] \in Row
    BY <1>0
  <2>2. row.status = status /\ (row.slot <=> status \in {"queued", "running"})
    BY <2>1 DEF WithStatus, Row
  <2>3. status \in {"queued", "running"} => Active(jobs[j])
    BY <1>3, <2>1 DEF Marked, StatusAllowed, Active, Terminal
  <2>4. \A k \in Jobs : jobs'[k] = IF k = j THEN row ELSE jobs[k]
    BY <1>0, <1>3 DEF Marked
  <2>. HIDE DEF row
  <2>. QED
    BY <2>2, <2>3, <2>4 DEF Active
<1>4. ASSUME NEW j \in Jobs, NEW result \in Result, Recorded(j, result)
      PROVE  OneActiveJob'
  <2>. DEFINE row == WithResult(jobs[j], result)
  <2>1. row.status = jobs[j].status /\ row.slot = jobs[j].slot
    BY <1>0 DEF WithResult, Row
  <2>2. \A k \in Jobs : jobs'[k] = IF k = j THEN row ELSE jobs[k]
    BY <1>0, <1>4 DEF Recorded
  <2>. HIDE DEF row
  <2>. QED
    BY <2>1, <2>2 DEF Active
<1>5. CASE jobs' = [j \in Jobs |-> Recovered(jobs[j])]
  <2>1. ASSUME NEW j \in Jobs
        PROVE  ~Active(jobs'[j]) /\ jobs'[j].slot = FALSE
    <3>1. jobs[j] \in Row /\ jobs'[j] = Recovered(jobs[j])
      BY <1>0, <1>5
    <3>. QED
      BY <3>1 DEF Recovered, Active, Row
  <2>. QED
    BY <2>1
<1>. QED
  BY <1>1, <1>2, <1>3, <1>4, <1>5 DEF JobsStep

\* At most one bulk job is unfinished in every reachable state, for every number
\* of jobs, devices, storage failures, crashes and openings of the database.
THEOREM AtMostOneActive == Spec => []OneActiveJob
<1>1. Init => OneActiveJob
  BY DEF Init, OneActiveJob, Absent, Active
<1>2. TypeInv /\ OneActiveJob /\ [Next]_vars => OneActiveJob'
  BY NextJobsStep, NextOneActive
<1>. QED
  BY <1>1, <1>2, InitTyped, NextTyped, PTL DEF Spec

-----------------------------------------------------------------------------
\* A finished job stays as it is.

FinalStep ==
    \A j \in Jobs : Terminal(jobs[j]) =>
        /\ jobs'[j].status = jobs[j].status
        /\ jobs'[j].snapshot = jobs[j].snapshot
        /\ jobs'[j].results = jobs[j].results
        /\ jobs'[j].completed = jobs[j].completed

\* No transaction of the store changes a finished job's status or report.
LEMMA NextFinal == TypeInv /\ OneActiveJob /\ JobsStep => FinalStep
<1>. SUFFICES ASSUME TypeInv, OneActiveJob, JobsStep,
                     NEW j \in Jobs, Terminal(jobs[j])
              PROVE  /\ jobs'[j].status = jobs[j].status
                     /\ jobs'[j].snapshot = jobs[j].snapshot
                     /\ jobs'[j].results = jobs[j].results
                     /\ jobs'[j].completed = jobs[j].completed
  BY DEF FinalStep
<1>0. jobs \in [Jobs -> Row] /\ jobs[j] \in Row
  BY DEF TypeInv, TypeOK
<1>1. CASE jobs' = jobs
  BY <1>1
<1>2. ASSUME NEW k \in Jobs, NEW ids \in Selections, Created(k, ids)
      PROVE  jobs'[j] = jobs[j]
  BY <1>0, <1>2 DEF Created, Terminal
<1>3. ASSUME NEW k \in Jobs, NEW status \in Statuses \ {"absent"},
             NEW error \in Errors, Marked(k, status, error), k = j
      PROVE  /\ jobs'[j].status = jobs[j].status
             /\ jobs'[j].snapshot = jobs[j].snapshot
             /\ jobs'[j].results = jobs[j].results
             /\ jobs'[j].completed = jobs[j].completed
  <2>1. status = jobs[j].status
    BY <1>3, <1>0 DEF Marked, StatusAllowed, Terminal
  <2>2. jobs'[j] = WithStatus(jobs[j], status, error)
    BY <1>0, <1>3 DEF Marked
  <2>. QED
    BY <1>0, <2>1, <2>2 DEF WithStatus, Row
<1>4. ASSUME NEW k \in Jobs, NEW status \in Statuses \ {"absent"},
             NEW error \in Errors, Marked(k, status, error), k # j
      PROVE  jobs'[j] = jobs[j]
  BY <1>0, <1>4 DEF Marked
<1>5. ASSUME NEW k \in Jobs, NEW result \in Result, Recorded(k, result)
      PROVE  jobs'[j] = jobs[j]
  BY <1>0, <1>5 DEF Recorded, RecordAllowed, Active, Terminal
<1>6. CASE jobs' = [k \in Jobs |-> Recovered(jobs[k])]
  <2>1. ~jobs[j].slot
    BY DEF OneActiveJob, Active, Terminal
  <2>2. jobs'[j] = jobs[j]
    BY <1>6, <2>1 DEF Recovered
  <2>. QED
    BY <2>2
<1>. QED
  BY <1>1, <1>2, <1>3, <1>4, <1>5, <1>6 DEF JobsStep

\* A finished job never changes again: not by a worker that outlives a second
\* opening of the database, not by recovery, not by a later job.
THEOREM FinishedJobsStay == Spec => TerminalIsFinal
<1>1. TypeInv /\ OneActiveJob /\ [Next]_vars => [FinalStep]_vars
  BY NextJobsStep, NextFinal
<1>2. Spec => [](TypeInv /\ OneActiveJob)
  <2>1. Init => OneActiveJob
    BY DEF Init, OneActiveJob, Absent, Active
  <2>2. TypeInv /\ OneActiveJob /\ [Next]_vars => OneActiveJob'
    BY NextJobsStep, NextOneActive
  <2>. QED
    BY <2>1, <2>2, InitTyped, NextTyped, PTL DEF Spec
<1>. QED
  BY <1>1, <1>2, PTL DEF Spec, TerminalIsFinal, FinalStep

-----------------------------------------------------------------------------
\* Reports follow snapshots.

Unstarted(j) == jobs[j].status # "absent" /\ jobs[j].results = <<>>

\* A job waits in one place, untouched, until the worker takes it; from then on
\* the worker stands at the device after the last recorded one.
WorkInv ==
    /\ start.pc = "submit" =>
        /\ Unstarted(start.job)
        /\ \A i \in 1 .. Len(queue) : queue[i] # start.job
        /\ worker.pc # "idle" => worker.job # start.job
    /\ \A i \in 1 .. Len(queue) :
        /\ Unstarted(queue[i])
        /\ worker.pc # "idle" => worker.job # queue[i]
        /\ \A k \in 1 .. Len(queue) : queue[i] = queue[k] => i = k
    /\ worker.pc # "idle" => jobs[worker.job].status # "absent"
    /\ worker.pc \in {"running", "load"} =>
        jobs[worker.job].results = <<>> /\ worker.next = 1
    /\ worker.pc \in {"loop", "testing", "completing"} =>
        /\ worker.profiles = jobs[worker.job].snapshot
        /\ worker.next = Len(jobs[worker.job].results) + 1

\* A created row keeps its snapshot, and its results unless the worker records.
LEMMA RowsKeep ==
    ASSUME TypeInv, JobsStep, NEW j \in Jobs, jobs[j].status # "absent"
    PROVE  /\ jobs'[j].status # "absent"
           /\ jobs'[j].snapshot = jobs[j].snapshot
           /\ worker' = worker \/ worker.pc # "testing" \/ worker.job # j
                => jobs'[j].results = jobs[j].results
<1>0. jobs \in [Jobs -> Row] /\ jobs[j] \in Row
  BY DEF TypeInv, TypeOK
<1>1. CASE jobs' = jobs
  BY <1>1
<1>2. ASSUME NEW k \in Jobs, NEW ids \in Selections, Created(k, ids)
      PROVE  jobs'[j] = jobs[j]
  BY <1>0, <1>2 DEF Created
<1>3. ASSUME NEW k \in Jobs, NEW status \in Statuses \ {"absent"},
             NEW error \in Errors, Marked(k, status, error)
      PROVE  /\ jobs'[j].status # "absent"
             /\ jobs'[j].snapshot = jobs[j].snapshot
             /\ jobs'[j].results = jobs[j].results
  <2>1. jobs'[j] = IF k = j THEN WithStatus(jobs[j], status, error) ELSE jobs[j]
    BY <1>0, <1>3 DEF Marked
  <2>. QED
    BY <1>0, <2>1 DEF WithStatus, Row
<1>4. ASSUME NEW k \in Jobs, NEW result \in Result, Recorded(k, result)
      PROVE  /\ jobs'[j].status = jobs[j].status
             /\ jobs'[j].snapshot = jobs[j].snapshot
             /\ worker' = worker \/ worker.pc # "testing" \/ worker.job # j
                  => jobs'[j].results = jobs[j].results
  <2>1. jobs'[j] = IF k = j THEN WithResult(jobs[j], result) ELSE jobs[j]
    BY <1>0, <1>4 DEF Recorded
  <2>2. worker.pc = "testing" /\ worker'.pc # "testing" /\ worker.job = k
    BY <1>4 DEF Recorded
  <2>3. /\ WithResult(jobs[j], result).status = jobs[j].status
        /\ WithResult(jobs[j], result).snapshot = jobs[j].snapshot
    BY <1>0 DEF WithResult, Row
  <2>. QED
    BY <2>1, <2>2, <2>3
<1>5. CASE jobs' = [k \in Jobs |-> Recovered(jobs[k])]
  <2>1. jobs'[j] = Recovered(jobs[j])
    BY <1>5
  <2>. QED
    BY <1>0, <2>1 DEF Recovered, Row
<1>. QED
  BY <1>1, <1>2, <1>3, <1>4, <1>5 DEF JobsStep

\* A step that leaves the queue and the worker alone and brings start() to no
\* submit preserves the invariant.
LEMMA QuietWork ==
    ASSUME TypeInv, WorkInv, JobsStep,
           UNCHANGED <<queue, worker>>,
           start'.pc = "submit" => start' = start
    PROVE  WorkInv'
<1>1. ASSUME start.pc = "submit" PROVE start.job \in Jobs
  BY <1>1 DEF TypeInv, Labels
<1>2. \A i \in 1 .. Len(queue) : queue[i] \in Jobs
  BY DEF TypeInv, TypeOK
<1>3. worker.pc # "idle" => worker.job \in Jobs
  BY DEF TypeInv, Labels
<1>4. \A j \in Jobs : jobs[j].status # "absent" =>
        /\ jobs'[j].status # "absent"
        /\ jobs'[j].snapshot = jobs[j].snapshot
        /\ jobs'[j].results = jobs[j].results
  BY RowsKeep
<1>5. start'.pc = "submit" =>
        /\ Unstarted(start.job)'
        /\ \A i \in 1 .. Len(queue') : queue'[i] # start'.job
        /\ worker'.pc # "idle" => worker'.job # start'.job
  BY <1>1, <1>4 DEF WorkInv, Unstarted
<1>6. \A i \in 1 .. Len(queue') :
        /\ Unstarted(queue[i])'
        /\ worker'.pc # "idle" => worker'.job # queue'[i]
        /\ \A k \in 1 .. Len(queue') : queue'[i] = queue'[k] => i = k
  BY <1>2, <1>4 DEF WorkInv, Unstarted
<1>7. /\ worker'.pc # "idle" => jobs'[worker'.job].status # "absent"
      /\ worker'.pc \in {"running", "load"} =>
           jobs'[worker'.job].results = <<>> /\ worker'.next = 1
      /\ worker'.pc \in {"loop", "testing", "completing"} =>
           /\ worker'.profiles = jobs'[worker'.job].snapshot
           /\ worker'.next = Len(jobs'[worker'.job].results) + 1
  BY <1>3, <1>4 DEF WorkInv
<1>. QED
  BY <1>5, <1>6, <1>7 DEF WorkInv

\* A step that changes only the rows and the worker's label, within the same job,
\* preserves what is said of the waiting jobs.
LEMMA WaitingWork ==
    ASSUME TypeInv, WorkInv, JobsStep, UNCHANGED <<start, queue>>,
           worker.pc # "idle",
           worker'.pc # "idle" => worker'.job = worker.job
    PROVE  /\ start'.pc = "submit" =>
                /\ Unstarted(start.job)'
                /\ \A i \in 1 .. Len(queue') : queue'[i] # start'.job
                /\ worker'.pc # "idle" => worker'.job # start'.job
           /\ \A i \in 1 .. Len(queue') :
                /\ Unstarted(queue[i])'
                /\ worker'.pc # "idle" => worker'.job # queue'[i]
                /\ \A k \in 1 .. Len(queue') : queue'[i] = queue'[k] => i = k
           /\ worker'.pc # "idle" => jobs'[worker'.job].status # "absent"
<1>1. ASSUME start.pc = "submit" PROVE start.job \in Jobs
  BY <1>1 DEF TypeInv, Labels
<1>2. \A i \in 1 .. Len(queue) : queue[i] \in Jobs
  BY DEF TypeInv, TypeOK
<1>3. worker.job \in Jobs
  BY DEF TypeInv, Labels
<1>4. \A j \in Jobs : jobs[j].status # "absent" =>
        /\ jobs'[j].status # "absent"
        /\ worker.job # j => jobs'[j].results = jobs[j].results
  BY RowsKeep
<1>5. start.pc = "submit" => Unstarted(start.job)'
  BY <1>1, <1>4 DEF WorkInv, Unstarted
<1>6. \A i \in 1 .. Len(queue) : Unstarted(queue[i])'
  BY <1>2, <1>4 DEF WorkInv, Unstarted
<1>7. worker'.pc # "idle" => jobs'[worker'.job].status # "absent"
  BY <1>3, <1>4 DEF WorkInv
<1>. QED
  BY <1>5, <1>6, <1>7 DEF WorkInv

\* A step of start() preserves the invariant.
LEMMA StartWork == TypeInv /\ WorkInv /\ JobsStep /\ StartStep => WorkInv'
<1>. SUFFICES ASSUME TypeInv, WorkInv, JobsStep, StartStep PROVE WorkInv'
  OBVIOUS
<1>1. CASE StartCheck
  <2>1. start'.pc # "submit"
    BY <1>1 DEF StartCheck, NoStart, TypeInv, TypeOK, StartState
  <2>. QED
    BY <1>1, <2>1, QuietWork DEF StartCheck
<1>2. ASSUME NEW j \in Jobs, StartCreate(j)
      PROVE  WorkInv'
  <2>1. CASE start'.pc # "submit"
    BY <1>2, <2>1, QuietWork DEF StartCreate
  <2>2. CASE start'.pc = "submit"
    <3>1. /\ start'.job = j
          /\ jobs' = [jobs EXCEPT ![j] = NewRow(start.ids)]
          /\ jobs[j].status = "absent"
          /\ UNCHANGED <<queue, worker>>
      <4>1. PICK outcome \in Outcomes :
              /\ Write(j, CreateAllowed(start.ids), NewRow(start.ids), outcome)
              /\ start' = IF CreateAllowed(start.ids) /\ outcome = "ok"
                          THEN [start EXCEPT !.pc = "submit", !.job = j]
                          ELSE NoStart
        BY <1>2 DEF StartCreate
      <4>2. CreateAllowed(start.ids) /\ outcome = "ok"
        BY <2>2, <4>1 DEF NoStart
      <4>3. start'.job = j
        BY <4>1, <4>2 DEF TypeInv, TypeOK, StartState
      <4>. QED
        BY <1>2, <4>1, <4>2, <4>3 DEF StartCreate, Write
    <3>2. jobs'[j].status # "absent" /\ jobs'[j].results = <<>>
      BY <3>1 DEF NewRow, Absent, TypeInv, TypeOK
    <3>3. \A k \in Jobs : k # j => jobs'[k] = jobs[k]
      BY <3>1 DEF TypeInv, TypeOK
    <3>4. \A i \in 1 .. Len(queue) : queue[i] \in Jobs
      BY DEF TypeInv, TypeOK
    <3>5. \A i \in 1 .. Len(queue) : queue[i] # j /\ jobs'[queue[i]] = jobs[queue[i]]
      BY <3>1, <3>3, <3>4 DEF WorkInv, Unstarted
    <3>6. worker.pc # "idle" =>
            worker.job # j /\ jobs'[worker.job] = jobs[worker.job]
      BY <3>1, <3>3 DEF WorkInv, TypeInv, Labels
    <3>. QED
      BY <2>2, <3>1, <3>2, <3>5, <3>6 DEF WorkInv, Unstarted
  <2>. QED
    BY <2>1, <2>2
<1>3. ASSUME StartSubmit \/ StartSubmitFails
      PROVE  WorkInv'
  <2>1. /\ queue' = Append(queue, start.job)
        /\ start'.pc # "submit"
        /\ start.pc = "submit"
        /\ UNCHANGED <<jobs, worker>>
    BY <1>3 DEF StartSubmit, StartSubmitFails, NoStart, TypeInv, TypeOK, StartState
  <2>2. queue \in Seq(Jobs) /\ start.job \in Jobs
    BY <2>1 DEF TypeInv, TypeOK, Labels
  <2>3. /\ Len(queue') = Len(queue) + 1
        /\ Len(queue) \in Nat
        /\ \A i \in 1 .. Len(queue') :
            queue'[i] = IF i = Len(queue) + 1 THEN start.job ELSE queue[i]
        /\ \A i \in 1 .. Len(queue') :
            i # Len(queue) + 1 => i \in 1 .. Len(queue)
    BY <2>1, <2>2
  <2>4. \A i \in 1 .. Len(queue') :
          /\ Unstarted(queue'[i])
          /\ worker.pc # "idle" => worker.job # queue'[i]
    BY <2>1, <2>3 DEF WorkInv
  <2>5. \A i, k \in 1 .. Len(queue') : queue'[i] = queue'[k] => i = k
    BY <2>1, <2>3 DEF WorkInv
  <2>. QED
    BY <2>1, <2>4, <2>5 DEF WorkInv, Unstarted
<1>4. CASE StartUnscheduled
  BY <1>4, QuietWork DEF StartUnscheduled, NoStart
<1>. QED
  BY <1>1, <1>2, <1>3, <1>4 DEF StartStep

\* A step of the worker preserves the invariant.
LEMMA WorkerWork == TypeInv /\ WorkInv /\ JobsStep /\ WorkerStep => WorkInv'
<1>. SUFFICES ASSUME TypeInv, WorkInv, JobsStep, WorkerStep PROVE WorkInv'
  OBVIOUS
<1>w. worker \in WorkerState /\ (worker.pc # "idle" => worker.job \in Jobs)
  BY DEF TypeInv, TypeOK, Labels
<1>k. ASSUME worker.pc # "idle", worker.pc # "testing"
      PROVE  /\ jobs'[worker.job].snapshot = jobs[worker.job].snapshot
             /\ jobs'[worker.job].results = jobs[worker.job].results
  BY <1>k, <1>w, RowsKeep DEF WorkInv
<1>1. CASE WorkerTake
  <2>1. queue \in Seq(Jobs) /\ queue # <<>> /\ worker.pc = "idle"
    BY <1>1 DEF WorkerTake, TypeInv, TypeOK
  <2>2. /\ queue' = Tail(queue)
        /\ worker'.pc = "running" /\ worker'.job = Head(queue) /\ worker'.next = 1
        /\ UNCHANGED <<jobs, start>>
    BY <1>1 DEF WorkerTake, IdleWorker
  <2>3. /\ Len(queue) \in Nat /\ Len(queue) # 0
        /\ Len(queue') = Len(queue) - 1
        /\ \A i \in 1 .. Len(queue') : queue'[i] = queue[i + 1]
        /\ \A i \in 1 .. Len(queue') : i + 1 \in 1 .. Len(queue) /\ i + 1 # 1
        /\ 1 \in 1 .. Len(queue)
        /\ Head(queue) = queue[1]
    BY <2>1, <2>2
  <2>4. /\ Unstarted(queue[1])
        /\ \A i \in 1 .. Len(queue') :
            /\ Unstarted(queue'[i])
            /\ queue'[i] # queue[1]
    BY <2>3 DEF WorkInv
  <2>5. \A i, k \in 1 .. Len(queue') : queue'[i] = queue'[k] => i = k
    <3>. SUFFICES ASSUME NEW i \in 1 .. Len(queue'), NEW k \in 1 .. Len(queue'),
                         queue'[i] = queue'[k]
                  PROVE  i = k
      OBVIOUS
    <3>1. i + 1 = k + 1
      BY <2>3 DEF WorkInv
    <3>. QED
      BY <3>1, <2>3
  <2>6. start.pc = "submit" =>
          /\ Unstarted(start.job)
          /\ start.job # queue[1]
          /\ \A i \in 1 .. Len(queue') : queue'[i] # start.job
    BY <2>3 DEF WorkInv
  <2>. QED
    BY <2>2, <2>3, <2>4, <2>5, <2>6 DEF WorkInv, Unstarted
<1>2. CASE WorkerSetRunning
  <2>1. /\ worker.pc = "running"
        /\ worker' \in {[worker EXCEPT !.pc = "load"], [worker EXCEPT !.pc = "failing"]}
        /\ UNCHANGED <<start, queue>>
    BY <1>2 DEF WorkerSetRunning, WorkerWrites
  <2>2. /\ worker'.pc \in {"load", "failing"}
        /\ worker'.job = worker.job /\ worker'.next = worker.next
    BY <2>1, <1>w DEF WorkerState
  <2>3. jobs'[worker.job].results = <<>> /\ worker.next = 1
    BY <2>1, <1>k DEF WorkInv
  <2>. QED
    BY <2>1, <2>2, <2>3, WaitingWork DEF WorkInv
<1>3. CASE WorkerLoad
  <2>1. /\ worker.pc = "load"
        /\ worker' \in {[worker EXCEPT !.pc = "loop",
                                       !.profiles = jobs[worker.job].snapshot],
                        [worker EXCEPT !.pc = "failing"]}
        /\ UNCHANGED <<jobs, start, queue>>
    BY <1>3 DEF WorkerLoad, Loaded
  <2>2. /\ worker'.pc \in {"loop", "failing"}
        /\ worker'.job = worker.job /\ worker'.next = worker.next
        /\ worker'.pc = "loop" => worker'.profiles = jobs[worker.job].snapshot
    BY <2>1, <1>w DEF WorkerState
  <2>3. /\ jobs[worker.job].results = <<>> /\ worker.next = 1
        /\ Len(<<>>) + 1 = 1
    BY <2>1 DEF WorkInv
  <2>. QED
    BY <2>1, <2>2, <2>3, WaitingWork DEF WorkInv
<1>4. CASE WorkerLoop
  <2>1. /\ worker.pc = "loop"
        /\ worker' = [worker EXCEPT !.pc = LoopLabel(worker)]
        /\ UNCHANGED <<jobs, start, queue>>
    BY <1>4 DEF WorkerLoop
  <2>2. LoopLabel(worker) \in {"completing", "interrupting", "failing", "testing"}
    BY DEF LoopLabel
  <2>3. /\ worker'.pc \in {"completing", "interrupting", "failing", "testing"}
        /\ worker'.job = worker.job /\ worker'.next = worker.next
        /\ worker'.profiles = worker.profiles
    BY <2>1, <2>2, <1>w DEF WorkerState
  <2>. QED
    BY <2>1, <2>3, WaitingWork DEF WorkInv
<1>5. CASE WorkerRecord
  <2>. DEFINE item == worker.profiles[worker.next]
              result(success) == [conn |-> item.conn,
                                  simulated |-> item.kind = "fake",
                                  success |-> success]
              row(success) == WithResult(jobs[worker.job], result(success))
  <2>1. /\ worker.pc = "testing" /\ worker.job \in Jobs
        /\ UNCHANGED <<start, queue>>
    BY <1>5, <1>w DEF WorkerRecord, WorkerWrites
  <2>2. PICK success \in BOOLEAN, outcome \in Outcomes :
          /\ Write(worker.job, RecordAllowed(jobs[worker.job], result(success)),
                   row(success), outcome)
          /\ worker' = IF RecordAllowed(jobs[worker.job], result(success))
                           /\ outcome = "ok"
                       THEN [worker EXCEPT !.pc = "loop", !.next = @ + 1]
                       ELSE [worker EXCEPT !.pc = "failing"]
    BY <1>5 DEF WorkerRecord, WorkerWrites
  <2>3. /\ worker'.pc \in {"loop", "failing"}
        /\ worker'.job = worker.job
        /\ worker'.profiles = worker.profiles
    BY <2>2, <1>w DEF WorkerState
  <2>4. ASSUME worker'.pc = "loop"
        PROVE  worker'.next = Len(jobs'[worker.job].results) + 1
    <3>1. /\ worker'.next = worker.next + 1
          /\ jobs' = [jobs EXCEPT ![worker.job] = row(success)]
      BY <2>2, <2>4, <1>w DEF Write, WorkerState
    <3>2. jobs[worker.job] \in Row
      BY <2>1 DEF TypeInv, TypeOK
    <3>3. row(success).results = Append(jobs[worker.job].results, result(success))
      BY <3>2 DEF WithResult, Row
    <3>. HIDE DEF row, result
    <3>4. jobs'[worker.job].results = Append(jobs[worker.job].results, result(success))
      BY <3>1, <3>3, <2>1 DEF TypeInv, TypeOK
    <3>5. /\ jobs[worker.job].results \in Seq(Result)
          /\ worker.next = Len(jobs[worker.job].results) + 1
      BY <3>2, <2>1 DEF Row, WorkInv
    <3>6. Len(jobs'[worker.job].results) = Len(jobs[worker.job].results) + 1
      BY <3>4, <3>5
    <3>. QED
      BY <3>1, <3>5, <3>6
  <2>5. jobs'[worker.job].snapshot = jobs[worker.job].snapshot
    BY <2>1, RowsKeep DEF WorkInv
  <2>. HIDE DEF row, result
  <2>. QED
    BY <2>1, <2>3, <2>4, <2>5, WaitingWork DEF WorkInv
<1>6. CASE WorkerComplete
  <2>1. /\ worker.pc = "completing"
        /\ worker' \in {IdleWorker, [worker EXCEPT !.pc = "failing"]}
        /\ UNCHANGED <<start, queue>>
    BY <1>6 DEF WorkerComplete, WorkerWrites
  <2>2. /\ worker'.pc \in {"idle", "failing"}
        /\ worker'.pc # "idle" => worker'.job = worker.job
    BY <2>1, <1>w DEF WorkerState, IdleWorker
  <2>. QED
    BY <2>1, <2>2, WaitingWork DEF WorkInv
<1>7. CASE WorkerFail
  <2>1. /\ worker.pc # "idle"
        /\ worker'.pc = "idle"
        /\ UNCHANGED <<start, queue>>
    BY <1>7 DEF WorkerFail, IdleWorker
  <2>. QED
    BY <2>1, WaitingWork DEF WorkInv
<1>. QED
  BY <1>1, <1>2, <1>3, <1>4, <1>5, <1>6, <1>7 DEF WorkerStep

\* Every step preserves the invariant.
LEMMA NextWork == TypeInv /\ WorkInv /\ [Next]_vars => WorkInv'
<1>. SUFFICES ASSUME TypeInv, WorkInv, [Next]_vars PROVE WorkInv'
  OBVIOUS
<1>j. JobsStep
  BY NextJobsStep
<1>1. CASE StartStep
  BY <1>1, <1>j, StartWork
<1>2. CASE WorkerStep
  BY <1>2, <1>j, WorkerWork
<1>3. CASE \/ \E c \in Conns, kind \in Kinds \cup {"deleted"} : EditConnection(c, kind)
           \/ ShutdownBegin \/ Restart \/ SecondOpen \/ UNCHANGED vars
  <2>1. UNCHANGED <<start, queue, worker>>
    BY <1>3 DEF EditConnection, ShutdownBegin, Restart, SecondOpen, process, vars
  <2>. QED
    BY <2>1, <1>j, QuietWork
<1>4. CASE \E ids \in Selections : StartBegin(ids)
  <2>1. start'.pc # "submit" /\ UNCHANGED <<queue, worker>>
    BY <1>4 DEF StartBegin, NoStart
  <2>. QED
    BY <2>1, <1>j, QuietWork
<1>5. CASE ShutdownEnd \/ Crash
  <2>1. ProcessGone
    BY <1>5 DEF ShutdownEnd, Crash
  <2>2. Len(<<>>) = 0 /\ 1 .. 0 = {}
    OBVIOUS
  <2>. QED
    BY <2>1, <2>2 DEF ProcessGone, NoStart, IdleWorker, WorkInv
<1>. QED
  BY <1>1, <1>2, <1>3, <1>4, <1>5 DEF Next

\* Every step keeps every report a faithful prefix of its snapshot.
LEMMA NextReport ==
    TypeInv /\ WorkInv /\ ReportFollowsSnapshot /\ JobsStep => ReportFollowsSnapshot'
<1>. DEFINE Good(row) ==
       /\ row.completed = Len(row.results)
       /\ Len(row.results) <= Len(row.snapshot)
       /\ \A i \in 1 .. Len(row.results) :
           /\ row.results[i].conn = row.snapshot[i].conn
           /\ row.results[i].simulated = (row.snapshot[i].kind = "fake")
       /\ row.status = "completed" => Len(row.results) = Len(row.snapshot)
<1>. SUFFICES ASSUME TypeInv, WorkInv, ReportFollowsSnapshot, JobsStep,
                     NEW j \in Jobs
              PROVE  Good(jobs'[j])
  BY DEF ReportFollowsSnapshot
<1>0. jobs \in [Jobs -> Row] /\ jobs[j] \in Row /\ Good(jobs[j])
  BY DEF TypeInv, TypeOK, ReportFollowsSnapshot
<1>1. CASE jobs'[j] = jobs[j]
  BY <1>0, <1>1
<1>2. ASSUME NEW ids \in Selections, Created(j, ids)
      PROVE  Good(jobs'[j])
  <2>1. jobs'[j] = NewRow(ids)
    BY <1>0, <1>2 DEF Created
  <2>2. /\ NewRow(ids).completed = 0 /\ NewRow(ids).results = <<>>
        /\ NewRow(ids).status = "queued"
        /\ NewRow(ids).snapshot = Snapshot(ids)
    BY DEF NewRow, Absent
  <2>3. Snapshot(ids) \in Seq(Item)
    BY <1>2, NewRowType DEF Created, TypeInv
  <2>4. /\ Len(<<>>) = 0 /\ 1 .. 0 = {}
        /\ 0 <= Len(Snapshot(ids))
    BY <2>3
  <2>. QED
    BY <2>1, <2>2, <2>4
<1>3. ASSUME NEW status \in Statuses \ {"absent"}, NEW error \in Errors,
             Marked(j, status, error)
      PROVE  Good(jobs'[j])
  <2>1. /\ jobs'[j] = WithStatus(jobs[j], status, error)
        /\ StatusAllowed(jobs[j], status)
    BY <1>0, <1>3 DEF Marked
  <2>2. /\ jobs'[j].status = status
        /\ jobs'[j].completed = jobs[j].completed
        /\ jobs'[j].results = jobs[j].results
        /\ jobs'[j].snapshot = jobs[j].snapshot
    BY <1>0, <2>1 DEF WithStatus, Row
  <2>3. status = "completed" => Len(jobs[j].results) = Len(jobs[j].snapshot)
    BY <1>0, <2>1 DEF StatusAllowed
  <2>. QED
    BY <1>0, <2>2, <2>3
<1>4. ASSUME NEW result \in Result, Recorded(j, result)
      PROVE  Good(jobs'[j])
  <2>. DEFINE old == jobs[j].results
              n == Len(old) + 1
  <2>1. jobs'[j] = WithResult(jobs[j], result)
    BY <1>0, <1>4 DEF Recorded
  <2>2. old \in Seq(Result) /\ n \in Nat
    BY <1>0 DEF Row
  <2>3. /\ jobs'[j].results = Append(old, result)
        /\ jobs'[j].completed = Len(Append(old, result))
        /\ jobs'[j].snapshot = jobs[j].snapshot
        /\ jobs'[j].status = jobs[j].status
    BY <1>0, <2>1 DEF WithResult, Row
  <2>4. /\ worker.next = n
        /\ worker.profiles = jobs[j].snapshot
        /\ n <= Len(jobs[j].snapshot)
    BY <1>4 DEF Recorded, WorkInv, TypeInv, Labels
  <2>5. /\ result.conn = jobs[j].snapshot[n].conn
        /\ result.simulated = (jobs[j].snapshot[n].kind = "fake")
    BY <1>4, <2>4 DEF Recorded
  <2>6. /\ Len(Append(old, result)) = n
        /\ \A i \in 1 .. n :
            Append(old, result)[i] = IF i = n THEN result ELSE old[i]
        /\ \A i \in 1 .. n : i # n => i \in 1 .. Len(old)
    BY <2>2
  <2>7. jobs[j].status # "completed"
    BY <1>4 DEF Recorded, RecordAllowed, Active
  <2>. HIDE DEF old, n
  <2>8. \A i \in 1 .. n :
          /\ jobs'[j].results[i].conn = jobs'[j].snapshot[i].conn
          /\ jobs'[j].results[i].simulated = (jobs'[j].snapshot[i].kind = "fake")
    <3>. SUFFICES ASSUME NEW i \in 1 .. n
                  PROVE  /\ jobs'[j].results[i].conn = jobs'[j].snapshot[i].conn
                         /\ jobs'[j].results[i].simulated =
                               (jobs'[j].snapshot[i].kind = "fake")
      OBVIOUS
    <3>1. CASE i = n
      BY <2>3, <2>5, <2>6, <3>1
    <3>2. CASE i # n
      BY <1>0, <2>3, <2>6, <3>2 DEF old
    <3>. QED
      BY <3>1, <3>2
  <2>. QED
    BY <2>3, <2>4, <2>6, <2>7, <2>8
<1>5. CASE jobs' = [k \in Jobs |-> Recovered(jobs[k])]
  <2>1. jobs'[j] = Recovered(jobs[j])
    BY <1>5
  <2>2. /\ jobs'[j].status \in {jobs[j].status, "failed"}
        /\ jobs'[j].completed = jobs[j].completed
        /\ jobs'[j].results = jobs[j].results
        /\ jobs'[j].snapshot = jobs[j].snapshot
    BY <1>0, <2>1 DEF Recovered, Row
  <2>. QED
    BY <1>0, <2>2
<1>6. ASSUME NEW k \in Jobs, k # j,
             \/ \E ids \in Selections : Created(k, ids)
             \/ \E status \in Statuses \ {"absent"}, error \in Errors :
                  Marked(k, status, error)
             \/ \E result \in Result : Recorded(k, result)
      PROVE  jobs'[j] = jobs[j]
  BY <1>0, <1>6 DEF Created, Marked, Recorded
<1>. HIDE DEF Good
<1>. QED
  BY <1>1, <1>2, <1>3, <1>4, <1>5, <1>6 DEF JobsStep

\* The report of a job follows its snapshot, whatever is edited, deleted, lost or
\* restarted in the meantime.
THEOREM ReportsFollowSnapshots == Spec => []ReportFollowsSnapshot
<1>1. Init => WorkInv /\ ReportFollowsSnapshot
  <2>1. Len(<<>>) = 0 /\ 1 .. 0 = {}
    OBVIOUS
  <2>. QED
    BY <2>1 DEF Init, WorkInv, ReportFollowsSnapshot, NoStart, IdleWorker, Absent
<1>2. TypeInv /\ WorkInv /\ ReportFollowsSnapshot /\ [Next]_vars
        => ReportFollowsSnapshot'
  BY NextJobsStep, NextReport
<1>. QED
  BY <1>1, <1>2, InitTyped, NextTyped, NextWork, PTL DEF Spec

-----------------------------------------------------------------------------
\* BatchJobs implements JobService.

\* A job id that was not drawn yet has no results.
AbsentInv == \A j \in Jobs : jobs[j].status = "absent" => jobs[j].results = <<>>

\* Only create_job makes a row, and it makes it without results.
LEMMA NextAbsent == TypeInv /\ AbsentInv /\ JobsStep => AbsentInv'
<1>. SUFFICES ASSUME TypeInv, AbsentInv, JobsStep, NEW j \in Jobs,
                     jobs'[j].status = "absent"
              PROVE  jobs'[j].results = <<>>
  BY DEF AbsentInv
<1>0. jobs \in [Jobs -> Row] /\ jobs[j] \in Row
  BY DEF TypeInv, TypeOK
<1>1. CASE jobs'[j] = jobs[j]
  BY <1>1 DEF AbsentInv
<1>2. ASSUME NEW k \in Jobs, NEW ids \in Selections, Created(k, ids)
      PROVE  jobs'[j] = jobs[j]
  BY <1>0, <1>2 DEF Created, NewRow, Absent
<1>3. ASSUME NEW k \in Jobs, NEW status \in Statuses \ {"absent"},
             NEW error \in Errors, Marked(k, status, error)
      PROVE  jobs'[j] = jobs[j]
  <2>1. jobs'[j] = IF k = j THEN WithStatus(jobs[j], status, error) ELSE jobs[j]
    BY <1>0, <1>3 DEF Marked
  <2>2. WithStatus(jobs[j], status, error).status = status
    BY <1>0 DEF WithStatus, Row
  <2>. QED
    BY <2>1, <2>2
<1>4. ASSUME NEW k \in Jobs, NEW result \in Result, Recorded(k, result)
      PROVE  jobs'[j] = jobs[j]
  <2>1. jobs'[j] = IF k = j THEN WithResult(jobs[j], result) ELSE jobs[j]
    BY <1>0, <1>4 DEF Recorded
  <2>2. k = j => WithResult(jobs[j], result).status \in {"queued", "running"}
    BY <1>0, <1>4 DEF WithResult, Row, Recorded, RecordAllowed, Active
  <2>. QED
    BY <2>1, <2>2
<1>5. CASE jobs' = [k \in Jobs |-> Recovered(jobs[k])]
  <2>1. jobs'[j] = Recovered(jobs[j])
    BY <1>5
  <2>2. jobs'[j].results = jobs[j].results /\ jobs[j].status = "absent"
    BY <1>0, <2>1 DEF Recovered, Row
  <2>. QED
    BY <2>2 DEF AbsentInv
<1>. QED
  BY <1>1, <1>2, <1>3, <1>4, <1>5 DEF JobsStep

\* The state that the implementation proof needs.
ServiceInv ==
    TypeInv /\ OneActiveJob /\ WorkInv /\ ReportFollowsSnapshot /\ AbsentInv

\* Every transaction on the rows is a step of JobService or invisible there:
\* creation accepts, recording reports, the last mark completes or aborts, the
\* mark "running" is invisible, and recovery aborts the one unfinished job.
LEMMA NextService ==
    ServiceInv /\ JobsStep => [Service!Next]_(Service!vars)
<1>. SUFFICES ASSUME ServiceInv, JobsStep
              PROVE  Service!Next \/ UNCHANGED Service!vars
  BY DEF Service!vars
<1>0. jobs \in [Jobs -> Row]
  BY DEF ServiceInv, TypeInv, TypeOK
<1>1. CASE jobs' = jobs
  BY <1>1 DEF Service!vars, Active
<1>2. ASSUME NEW j \in Jobs, NEW ids \in Selections, Created(j, ids)
      PROVE  Service!Next
  <2>1. /\ NewRow(ids).status = "queued" /\ NewRow(ids).results = <<>>
        /\ NewRow(ids).snapshot = Snapshot(ids)
    BY DEF NewRow, Absent
  <2>2. \A k \in Jobs : jobs'[k] = IF k = j THEN NewRow(ids) ELSE jobs[k]
    BY <1>0, <1>2 DEF Created
  <2>3. Snapshot(ids) \in Plans
    <3>. DEFINE kinds == [c \in Conns |-> IF inventory[c] = "deleted"
                                         THEN "network" ELSE inventory[c]]
    <3>1. kinds \in [Conns -> Kinds]
      BY DEF ServiceInv, TypeInv, TypeOK, Kinds
    <3>2. ids \in Seq(Conns)
      BY BatchAssumption, ZenonT(60) DEF BatchAssumption
    <3>3. \A i \in DOMAIN ids : ids[i] \in Conns
      BY <3>2
    <3>4. \A i \in DOMAIN ids : kinds[ids[i]] = inventory[ids[i]]
      BY <1>2, <3>3 DEF Created, CreateAllowed
    <3>5. Snapshot(ids) = [i \in DOMAIN ids |-> [conn |-> ids[i], kind |-> kinds[ids[i]]]]
      BY <3>4 DEF Snapshot
    <3>. HIDE DEF kinds
    <3>. QED
      BY <3>1, <3>5 DEF Plans
  <2>4. jobs[j].status = "absent" /\ jobs[j].results = <<>>
    BY <1>2 DEF Created, ServiceInv, AbsentInv
  <2>5. \A k \in Jobs : ~Active(jobs[k])
    BY <1>2 DEF Created, CreateAllowed, SlotFree, ServiceInv, OneActiveJob
  <2>6. PICK p \in Plans : p = Snapshot(ids)
    BY <2>3
  <2>. DEFINE Phases == [k \in Jobs |-> IF Active(jobs[k]) THEN "active"
                                       ELSE jobs[k].status]
  <2>7. [k \in Jobs |-> IF Active(jobs'[k]) THEN "active" ELSE jobs'[k].status]
          = [Phases EXCEPT ![j] = "active"]
    BY <2>1, <2>2 DEF Active
  <2>8. [k \in Jobs |-> jobs'[k].snapshot]
          = [[k \in Jobs |-> jobs[k].snapshot] EXCEPT ![j] = p]
    BY <2>1, <2>2, <2>6
  <2>9. [k \in Jobs |-> jobs'[k].results] = [k \in Jobs |-> jobs[k].results]
    BY <2>1, <2>2, <2>4
  <2>10. /\ Phases[j] = "absent"
         /\ \A k \in Jobs : Phases[k] # "active"
    BY <1>0, <2>4, <2>5 DEF Row, Active
  <2>11. Service!Accept(j, p)
    BY <2>7, <2>8, <2>9, <2>10 DEF Service!Accept, Service!Active
  <2>. QED
    BY <2>11 DEF Service!Next
<1>3. ASSUME NEW j \in Jobs, NEW status \in Statuses \ {"absent"},
             NEW error \in Errors, Marked(j, status, error)
      PROVE  Service!Next \/ UNCHANGED Service!vars
  <2>1. jobs[j] \in Row
    BY <1>0
  <2>2. /\ WithStatus(jobs[j], status, error).status = status
        /\ WithStatus(jobs[j], status, error).snapshot = jobs[j].snapshot
        /\ WithStatus(jobs[j], status, error).results = jobs[j].results
    BY <2>1 DEF WithStatus, Row
  <2>3. \A k \in Jobs :
          jobs'[k] = IF k = j THEN WithStatus(jobs[j], status, error) ELSE jobs[k]
    BY <1>0, <1>3 DEF Marked
  <2>4. StatusAllowed(jobs[j], status)
    BY <1>3 DEF Marked
  <2>5. CASE Terminal(jobs[j])
    <3>1. status = jobs[j].status
      BY <2>4, <2>5 DEF StatusAllowed, Terminal
    <3>. QED
      BY <2>2, <2>3, <3>1 DEF Service!vars, Active
  <2>6. CASE Active(jobs[j]) /\ status \in {"queued", "running"}
    BY <2>2, <2>3, <2>6 DEF Service!vars, Active
  <2>7. CASE Active(jobs[j]) /\ status = "failed"
    <3>1. Service!Abort(j)
      BY <2>2, <2>3, <2>7 DEF Service!Abort, Service!Active, Active
    <3>. QED
      BY <3>1 DEF Service!Next
  <2>8. CASE Active(jobs[j]) /\ status = "completed"
    <3>1. Len(jobs[j].results) = Len(jobs[j].snapshot)
      BY <2>4, <2>8 DEF StatusAllowed, ServiceInv, ReportFollowsSnapshot
    <3>2. Service!Complete(j)
      BY <2>2, <2>3, <2>8, <3>1 DEF Service!Complete, Service!Active, Active
    <3>. QED
      BY <3>2 DEF Service!Next
  <2>. QED
    BY <2>4, <2>5, <2>6, <2>7, <2>8 DEF StatusAllowed, Active, Terminal, Statuses
<1>4. ASSUME NEW j \in Jobs, NEW result \in Result, Recorded(j, result)
      PROVE  Service!Next
  <2>. DEFINE n == Len(jobs[j].results) + 1
  <2>1. jobs[j] \in Row /\ Active(jobs[j])
    BY <1>0, <1>4 DEF Recorded, RecordAllowed
  <2>2. /\ WithResult(jobs[j], result).status = jobs[j].status
        /\ WithResult(jobs[j], result).snapshot = jobs[j].snapshot
        /\ WithResult(jobs[j], result).results = Append(jobs[j].results, result)
    BY <2>1 DEF WithResult, Row
  <2>3. \A k \in Jobs :
          jobs'[k] = IF k = j THEN WithResult(jobs[j], result) ELSE jobs[k]
    BY <1>0, <1>4 DEF Recorded
  <2>4. /\ worker.next = n /\ worker.profiles = jobs[j].snapshot
        /\ n <= Len(jobs[j].snapshot)
    BY <1>4 DEF Recorded, ServiceInv, WorkInv, TypeInv, Labels
  <2>5. Len(jobs[j].results) < Len(jobs[j].snapshot)
    BY <2>1, <2>4 DEF Row
  <2>6. result = [conn |-> jobs[j].snapshot[n].conn,
                  simulated |-> jobs[j].snapshot[n].kind = "fake",
                  success |-> result.success]
    BY <1>4, <2>4 DEF Recorded, Result
  <2>7. result.success \in BOOLEAN
    BY DEF Result
  <2>8. Service!Report(j, result.success)
    BY <2>1, <2>2, <2>3, <2>5, <2>6 DEF Service!Report, Service!Active, Active
  <2>. QED
    BY <2>7, <2>8 DEF Service!Next
<1>5. ASSUME jobs' = [j \in Jobs |-> Recovered(jobs[j])]
      PROVE  Service!Next \/ UNCHANGED Service!vars
  <2>1. ASSUME NEW j \in Jobs
        PROVE  /\ jobs'[j].snapshot = jobs[j].snapshot
               /\ jobs'[j].results = jobs[j].results
               /\ jobs'[j].status = IF Active(jobs[j]) THEN "failed" ELSE jobs[j].status
    BY <1>0, <1>5 DEF Recovered, Row, ServiceInv, OneActiveJob
  <2>2. ASSUME NEW j \in Jobs, Active(jobs[j])
        PROVE  Service!Next
    <3>1. \A k \in Jobs : k # j => ~Active(jobs[k])
      BY <2>2 DEF ServiceInv, OneActiveJob
    <3>2. Service!Abort(j)
      BY <2>1, <2>2, <3>1 DEF Service!Abort, Service!Active, Active
    <3>. QED
      BY <3>2 DEF Service!Next
  <2>3. ASSUME \A j \in Jobs : ~Active(jobs[j])
        PROVE  UNCHANGED Service!vars
    BY <2>1, <2>3 DEF Service!vars, Active
  <2>. QED
    BY <2>2, <2>3
<1>. QED
  BY <1>1, <1>2, <1>3, <1>4, <1>5 DEF JobsStep

\* The batch service, with its database, threads, failures and restarts, keeps
\* the promise of JobService.
THEOREM Implementation == Spec => ImplementsService
<1>1. Init => ServiceInv
  <2>1. Len(<<>>) = 0 /\ 1 .. 0 = {}
    OBVIOUS
  <2>2. Init => WorkInv /\ ReportFollowsSnapshot /\ OneActiveJob /\ AbsentInv
    BY <2>1 DEF Init, WorkInv, ReportFollowsSnapshot, OneActiveJob, AbsentInv,
                NoStart, IdleWorker, Absent, Active
  <2>. QED
    BY <2>2, InitTyped DEF ServiceInv
<1>2. ServiceInv /\ [Next]_vars => ServiceInv'
  BY NextTyped, NextJobsStep, NextOneActive, NextWork, NextReport, NextAbsent
     DEF ServiceInv
<1>3. Init => Service!Init
  BY DEF Init, Service!Init, Absent, Active
<1>4. ServiceInv /\ [Next]_vars => [Service!Next]_(Service!vars)
  BY NextJobsStep, NextService DEF ServiceInv
<1>. QED
  BY <1>1, <1>2, <1>3, <1>4, PTL DEF Spec, ImplementsService, Service!Spec

-----------------------------------------------------------------------------
\* Who works for an unfinished job.

\* No call of start() is under way once the service is closed, only a started
\* thread works, and it is gone with its process.
Lifespan ==
    /\ proc # "up" => start.pc = "free"
    /\ worker.pc # "idle" => threadUp
    /\ proc \in {"stopped", "crashed"} => ~threadUp

OwnerInv == OneActiveJob /\ Lifespan /\ ActiveJobHasOwner

\* Every step keeps the lifespan's promises.
LEMMA NextLifespan == TypeInv /\ Lifespan /\ [Next]_vars => Lifespan'
<1>. SUFFICES ASSUME TypeInv, Lifespan, [Next]_vars PROVE Lifespan'
  OBVIOUS
<1>. USE DEF Lifespan
<1>1. CASE StartStep
  <2>1. start.pc # "free" /\ UNCHANGED <<proc, worker>>
    BY <1>1 DEF StartStep, StartCheck, StartCreate, StartSubmit, StartSubmitFails,
                StartUnscheduled
  <2>2. UNCHANGED threadUp \/ threadUp' = TRUE
    BY <1>1 DEF StartStep, StartCheck, StartCreate, StartSubmit, StartSubmitFails,
                StartUnscheduled
  <2>. QED
    BY <2>1, <2>2
<1>2. CASE WorkerStep
  <2>1. threadUp /\ UNCHANGED <<proc, start, threadUp>>
    BY <1>2 DEF WorkerStep, WorkerTake, WorkerSetRunning, WorkerLoad, WorkerLoop,
                WorkerRecord, WorkerComplete, WorkerFail, WorkerWrites
  <2>. QED
    BY <2>1
<1>3. CASE \E ids \in Selections : StartBegin(ids)
  BY <1>3 DEF StartBegin
<1>4. CASE ShutdownEnd \/ Crash
  BY <1>4 DEF ShutdownEnd, Crash, ProcessGone, NoStart, IdleWorker
<1>5. CASE \/ \E c \in Conns, kind \in Kinds \cup {"deleted"} : EditConnection(c, kind)
           \/ ShutdownBegin \/ Restart \/ SecondOpen \/ UNCHANGED vars
  BY <1>5 DEF EditConnection, ShutdownBegin, Restart, SecondOpen, process, vars
<1>. QED
  BY <1>1, <1>2, <1>3, <1>4, <1>5 DEF Next

\* Opening the database leaves no job unfinished.
LEMMA NoneActiveOnceOpen ==
    ASSUME TypeInv, OneActiveJob, OpenStore, NEW j \in Jobs
    PROVE  ~Active(jobs'[j])
<1>1. jobs[j] \in Row /\ jobs'[j] = Recovered(jobs[j])
  BY DEF TypeInv, TypeOK, OpenStore
<1>. QED
  BY <1>1 DEF OneActiveJob, Recovered, Active, Row

\* _fail leaves its job unfinished only when the write was lost, and no other job
\* becomes unfinished.
LEMMA FailEnds ==
    ASSUME TypeInv, NEW k \in Jobs, NEW error, NEW outcome, Fail(k, error, outcome),
           NEW j \in Jobs, Active(jobs'[j])
    PROVE  /\ Active(jobs[j])
           /\ lost \subseteq lost'
           /\ j = k => j \in lost'
<1>. DEFINE allowed == StatusAllowed(jobs[k], "failed")
            row == WithStatus(jobs[k], "failed", error)
<1>1. jobs \in [Jobs -> Row] /\ jobs[k] \in Row
  BY DEF TypeInv, TypeOK
<1>2. ~Active(row)
  BY <1>1 DEF WithStatus, Active, Row
<1>3. Active(jobs[k]) => allowed
  BY DEF Active, StatusAllowed
<1>4. /\ jobs'[j] = IF j = k /\ allowed /\ outcome # "lost" THEN row ELSE jobs[j]
      /\ lost' = IF Active(jobs[k]) /\ outcome = "lost" THEN lost \cup {k} ELSE lost
  BY <1>1 DEF Fail, Write
<1>. HIDE DEF allowed, row
<1>. QED
  BY <1>2, <1>3, <1>4

\* A store call of the worker leaves its job with the worker, or finished.
LEMMA WritesOwned ==
    ASSUME TypeInv, OwnerInv, worker.pc # "idle",
           NEW allowed, NEW row, NEW then,
           WorkerWrites(allowed, row, then),
           (then.pc # "idle" /\ then.job = worker.job) \/ ~Active(row)
    PROVE  ActiveJobHasOwner'
<1>. SUFFICES ASSUME proc' \in {"up", "stopping"}, NEW j \in Jobs, Active(jobs'[j])
              PROVE  HasOwner(j)' \/ j \in lost'
  BY DEF ActiveJobHasOwner
<1>1. PICK outcome \in Outcomes :
        /\ Write(worker.job, allowed, row, outcome)
        /\ worker' = IF allowed /\ outcome = "ok"
                     THEN then ELSE [worker EXCEPT !.pc = "failing"]
  BY DEF WorkerWrites
<1>2. UNCHANGED <<proc, start, queue, threadUp, lost>>
  BY DEF WorkerWrites
<1>3. jobs \in [Jobs -> Row] /\ worker \in WorkerState /\ worker.job \in Jobs
  BY DEF TypeInv, TypeOK, Labels
<1>4. CASE j = worker.job
  <2>1. CASE allowed /\ outcome = "ok"
    <3>1. jobs'[j] = row
      BY <1>1, <1>3, <1>4, <2>1 DEF Write
    <3>. QED
      BY <1>1, <1>4, <2>1, <3>1 DEF HasOwner
  <2>2. CASE ~(allowed /\ outcome = "ok")
    BY <1>1, <1>3, <1>4, <2>2 DEF HasOwner, WorkerState
  <2>. QED
    BY <2>1, <2>2
<1>5. CASE j # worker.job
  <2>1. jobs'[j] = jobs[j]
    BY <1>1, <1>3, <1>5 DEF Write
  <2>. QED
    BY <1>2, <1>5, <2>1 DEF OwnerInv, ActiveJobHasOwner, HasOwner
<1>. QED
  BY <1>4, <1>5

\* A step of start() hands its job over, to the caller, to the executor or to
\* restart recovery.
LEMMA StartOwned == TypeInv /\ OwnerInv /\ StartStep => ActiveJobHasOwner'
<1>. SUFFICES ASSUME TypeInv, OwnerInv, StartStep,
                     proc' \in {"up", "stopping"}, NEW j \in Jobs, Active(jobs'[j])
              PROVE  HasOwner(j)' \/ j \in lost'
  BY DEF ActiveJobHasOwner
<1>0. jobs \in [Jobs -> Row] /\ start \in StartState /\ queue \in Seq(Jobs)
  BY DEF TypeInv, TypeOK
<1>1. ASSUME Active(jobs[j]), UNCHANGED proc PROVE HasOwner(j) \/ j \in lost
  BY <1>1 DEF OwnerInv, ActiveJobHasOwner
<1>2. CASE StartCheck
  BY <1>1, <1>2 DEF StartCheck, HasOwner
<1>3. ASSUME NEW k \in Jobs, StartCreate(k) PROVE HasOwner(j)' \/ j \in lost'
  <2>1. PICK outcome \in Outcomes :
          /\ Write(k, CreateAllowed(start.ids), NewRow(start.ids), outcome)
          /\ start' = IF CreateAllowed(start.ids) /\ outcome = "ok"
                      THEN [start EXCEPT !.pc = "submit", !.job = k]
                      ELSE NoStart
          /\ lost' = IF CreateAllowed(start.ids) /\ outcome = "unknown"
                     THEN lost \cup {k} ELSE lost
    BY <1>3 DEF StartCreate
  <2>2. start.pc = "create" /\ ~Active(jobs[k])
        /\ UNCHANGED <<proc, queue, threadUp, worker>>
    BY <1>3 DEF StartCreate, Active
  <2>3. CASE j = k
    <3>1. CreateAllowed(start.ids) /\ outcome \in {"ok", "unknown"}
      BY <1>0, <2>1, <2>2, <2>3 DEF Write, Outcomes
    <3>. QED
      BY <1>0, <2>1, <2>3, <3>1 DEF HasOwner, StartState
  <2>4. CASE j # k
    <3>1. jobs'[j] = jobs[j]
      BY <1>0, <2>1, <2>4 DEF Write
    <3>. QED
      BY <1>1, <2>1, <2>2, <3>1 DEF HasOwner
  <2>. QED
    BY <2>3, <2>4
<1>4. CASE StartSubmit \/ StartSubmitFails
  <2>1. /\ queue' = Append(queue, start.job)
        /\ start.job \in Jobs
        /\ UNCHANGED <<jobs, proc, worker, lost>>
    BY <1>4 DEF StartSubmit, StartSubmitFails, TypeInv, Labels
  <2>2. /\ DOMAIN queue \subseteq DOMAIN queue'
        /\ \A i \in DOMAIN queue : queue'[i] = queue[i]
        /\ \E i \in DOMAIN queue' : queue'[i] = start.job
    <3>1. /\ Len(queue') = Len(queue) + 1 /\ Len(queue) \in Nat
          /\ DOMAIN queue' = 1 .. Len(queue') /\ DOMAIN queue = 1 .. Len(queue)
      BY <1>0, <2>1
    <3>2. queue'[Len(queue) + 1] = start.job /\ Len(queue) + 1 \in DOMAIN queue'
      BY <1>0, <2>1, <3>1
    <3>3. \A i \in DOMAIN queue : queue'[i] = queue[i]
      BY <1>0, <2>1, <3>1
    <3>. QED
      BY <3>1, <3>2, <3>3
  <2>3. (start'.job = start.job /\ start'.pc = "unscheduled") \/ threadUp'
    BY <1>0, <1>4 DEF StartSubmit, StartSubmitFails, StartState
  <2>4. threadUp => threadUp'
    BY <1>4 DEF StartSubmit, StartSubmitFails
  <2>5. CASE start.job = j
    BY <2>2, <2>3, <2>5 DEF HasOwner
  <2>6. CASE start.job # j
    BY <1>1, <2>1, <2>2, <2>4, <2>6 DEF HasOwner
  <2>. QED
    BY <2>5, <2>6
<1>5. CASE StartUnscheduled
  <2>1. start.job \in Jobs
    BY <1>5 DEF StartUnscheduled, TypeInv, Labels
  <2>2. Active(jobs[j]) /\ lost \subseteq lost' /\ (j = start.job => j \in lost')
    BY <1>5, <2>1, FailEnds DEF StartUnscheduled
  <2>. QED
    BY <1>1, <1>5, <2>2 DEF StartUnscheduled, HasOwner
<1>. QED
  BY <1>2, <1>3, <1>4, <1>5 DEF StartStep

\* The worker takes a queued job over and keeps it until it has ended it.
LEMMA WorkerOwned == TypeInv /\ OwnerInv /\ WorkerStep => ActiveJobHasOwner'
<1>. SUFFICES ASSUME TypeInv, OwnerInv, WorkerStep PROVE ActiveJobHasOwner'
  OBVIOUS
<1>0. jobs \in [Jobs -> Row] /\ worker \in WorkerState /\ queue \in Seq(Jobs)
  BY DEF TypeInv, TypeOK
<1>1. CASE WorkerTake
  <2>1. /\ worker.pc = "idle" /\ queue' = Tail(queue) /\ queue # <<>>
        /\ worker'.pc = "running" /\ worker'.job = Head(queue)
        /\ UNCHANGED <<jobs, proc, start, threadUp, lost>>
    BY <1>1 DEF WorkerTake, IdleWorker
  <2>2. ASSUME NEW i \in DOMAIN queue
        PROVE  queue[i] = Head(queue) \/ \E k \in DOMAIN queue' : queue'[k] = queue[i]
    <3>1. /\ Len(queue) \in Nat /\ DOMAIN queue = 1 .. Len(queue)
          /\ Len(queue') = Len(queue) - 1 /\ DOMAIN queue' = 1 .. Len(queue')
          /\ Head(queue) = queue[1]
      BY <1>0, <2>1
    <3>2. ASSUME i # 1 PROVE i - 1 \in DOMAIN queue' /\ queue'[i - 1] = queue[i]
      BY <1>0, <2>1, <3>1, <3>2
    <3>. QED
      BY <3>1, <3>2
  <2>. QED
    BY <2>1, <2>2 DEF OwnerInv, ActiveJobHasOwner, HasOwner
<1>2. CASE WorkerSetRunning
  BY <1>0, <1>2, WritesOwned DEF WorkerSetRunning, WorkerState
<1>3. CASE WorkerLoad \/ WorkerLoop
  <2>1. worker' \in {[worker EXCEPT !.pc = "loop", !.profiles = jobs[worker.job].snapshot],
                     [worker EXCEPT !.pc = "failing"],
                     [worker EXCEPT !.pc = LoopLabel(worker)]}
    BY <1>3 DEF WorkerLoad, WorkerLoop, Loaded
  <2>2. worker'.pc # "idle" /\ worker'.job = worker.job
    BY <1>0, <2>1 DEF WorkerState, LoopLabel
  <2>3. worker.pc # "idle" /\ UNCHANGED <<jobs, proc, start, queue, threadUp, lost>>
    BY <1>3 DEF WorkerLoad, WorkerLoop
  <2>. QED
    BY <2>2, <2>3 DEF OwnerInv, ActiveJobHasOwner, HasOwner
<1>4. CASE WorkerRecord
  <2>. DEFINE then == [worker EXCEPT !.pc = "loop", !.next = @ + 1]
  <2>1. then.pc = "loop" /\ then.job = worker.job
    BY <1>0 DEF WorkerState
  <2>2. worker.pc # "idle" /\ \E allowed, row : WorkerWrites(allowed, row, then)
    BY <1>4 DEF WorkerRecord
  <2>. HIDE DEF then
  <2>. QED
    BY <2>1, <2>2, WritesOwned
<1>5. CASE WorkerComplete
  <2>1. jobs[worker.job] \in Row
    BY <1>0, <1>5 DEF WorkerComplete, TypeInv, Labels
  <2>2. ~Active(WithStatus(jobs[worker.job], "completed", "none"))
    BY <2>1 DEF WithStatus, Active, Row
  <2>. QED
    BY <1>5, <2>2, WritesOwned DEF WorkerComplete
<1>6. CASE WorkerFail
  <2>1. worker.job \in Jobs /\ worker.pc # "idle"
    BY <1>6 DEF WorkerFail, TypeInv, Labels
  <2>2. PICK error, outcome : Fail(worker.job, error, outcome)
    BY <1>6 DEF WorkerFail
  <2>3. ASSUME NEW j \in Jobs, Active(jobs'[j])
        PROVE  Active(jobs[j]) /\ lost \subseteq lost' /\ (j = worker.job => j \in lost')
    BY <2>1, <2>2, <2>3, FailEnds
  <2>4. UNCHANGED <<proc, start, queue, threadUp>>
    BY <1>6 DEF WorkerFail
  <2>. QED
    BY <2>3, <2>4 DEF OwnerInv, ActiveJobHasOwner, HasOwner
<1>. QED
  BY <1>1, <1>2, <1>3, <1>4, <1>5, <1>6 DEF WorkerStep

\* Every step keeps an owner for the unfinished job.
LEMMA NextOwned == TypeInv /\ OwnerInv /\ [Next]_vars => OwnerInv'
<1>. SUFFICES ASSUME TypeInv, OwnerInv, [Next]_vars PROVE OwnerInv'
  OBVIOUS
<1>1. OneActiveJob' /\ Lifespan'
  BY NextJobsStep, NextOneActive, NextLifespan DEF OwnerInv
<1>2. CASE StartStep \/ WorkerStep
  BY <1>1, <1>2, StartOwned, WorkerOwned DEF OwnerInv
<1>3. CASE Restart \/ SecondOpen
  <2>1. \A j \in Jobs : ~Active(jobs'[j])
    BY <1>3, NoneActiveOnceOpen DEF Restart, SecondOpen, OwnerInv
  <2>. QED
    BY <1>1, <2>1 DEF OwnerInv, ActiveJobHasOwner
<1>4. CASE ShutdownEnd \/ Crash
  BY <1>1, <1>4 DEF ShutdownEnd, Crash, OwnerInv, ActiveJobHasOwner
<1>5. CASE \/ \E c \in Conns, kind \in Kinds \cup {"deleted"} : EditConnection(c, kind)
           \/ \E ids \in Selections : StartBegin(ids)
           \/ ShutdownBegin \/ UNCHANGED vars
  <2>1. /\ UNCHANGED <<jobs, queue, threadUp, worker, lost>>
        /\ UNCHANGED start \/ start.pc = "free"
        /\ proc \in {"up", "stopping"} \/ UNCHANGED proc
    BY <1>5 DEF EditConnection, StartBegin, ShutdownBegin, process, vars
  <2>. QED
    BY <1>1, <2>1 DEF OwnerInv, ActiveJobHasOwner, HasOwner
<1>. QED
  BY <1>2, <1>3, <1>4, <1>5 DEF Next

\* Every step keeps the unfinished jobs of a stopped process down to those whose
\* last write was lost: the executor was joined with an empty queue, and nobody
\* works in a stopped process.
LEMMA NextOrderly ==
    TypeInv /\ OwnerInv /\ OrderlyShutdown /\ [Next]_vars => OrderlyShutdown'
<1>. SUFFICES ASSUME TypeInv, OwnerInv, OrderlyShutdown, [Next]_vars,
                     proc' = "stopped", NEW j \in Jobs, Active(jobs'[j])
              PROVE  j \in lost'
  BY DEF OrderlyShutdown
<1>1. CASE ShutdownEnd
  <2>1. HasOwner(j) \/ j \in lost
    BY <1>1 DEF ShutdownEnd, OwnerInv, ActiveJobHasOwner
  <2>2. ~HasOwner(j)
    BY <1>1 DEF ShutdownEnd, ExecutorJoined, HasOwner, OwnerInv, Lifespan
  <2>. QED
    BY <1>1, <2>1, <2>2 DEF ShutdownEnd
<1>2. CASE ~ShutdownEnd
  <2>1. proc = "stopped"
    BY <1>2 DEF Next, EditConnection, StartBegin, StartStep, StartCheck, StartCreate,
                StartSubmit, StartSubmitFails, StartUnscheduled, WorkerStep, WorkerTake,
                WorkerSetRunning, WorkerLoad, WorkerLoop, WorkerRecord, WorkerComplete,
                WorkerFail, WorkerWrites, ShutdownBegin, Crash, Restart, SecondOpen, vars
  <2>2. start.pc = "free" /\ worker.pc = "idle" /\ ~threadUp
    BY <2>1 DEF OwnerInv, Lifespan
  <2>3. UNCHANGED <<jobs, lost>>
    BY <1>2, <2>1, <2>2
       DEF Next, EditConnection, StartBegin, StartStep, StartCheck, StartCreate,
           StartSubmit, StartSubmitFails, StartUnscheduled, WorkerStep, WorkerTake,
           WorkerSetRunning, WorkerLoad, WorkerLoop, WorkerRecord, WorkerComplete,
           WorkerFail, ShutdownBegin, Crash, Restart, SecondOpen, vars
  <2>. QED
    BY <2>1, <2>3 DEF OrderlyShutdown
<1>. QED
  BY <1>1, <1>2

\* Initially there is no job.
LEMMA InitOwned == Init => OwnerInv /\ OrderlyShutdown
BY DEF Init, OwnerInv, OneActiveJob, Lifespan, ActiveJobHasOwner, OrderlyShutdown,
       NoStart, IdleWorker, Absent, Active

\* An unfinished job of a running process always has an owner that will end it,
\* whatever fails and whoever opens the database, unless the write that should have
\* ended or acknowledged it failed.
THEOREM UnfinishedJobsHaveOwners == Spec => []ActiveJobHasOwner
<1>1. OwnerInv => ActiveJobHasOwner
  BY DEF OwnerInv
<1>. QED
  BY <1>1, InitOwned, InitTyped, NextOwned, NextTyped, PTL DEF Spec

\* An orderly shutdown leaves no job for restart recovery, unless the write that
\* should have ended it failed.
THEOREM ShutdownIsOrderly == Spec => []OrderlyShutdown
<1>. QED
  BY InitOwned, InitTyped, NextOwned, NextOrderly, NextTyped, PTL DEF Spec

-----------------------------------------------------------------------------
\* A stop is only reported when it left a device untested.

Short(row) == Len(row.results) < Len(row.snapshot)
HonestStop(row) == row.error = "shutdown" => row.status = "failed" /\ Short(row)

\* _run goes to its interrupted end only before a device that is still to be
\* tested, and nothing is recorded for the job from then on.
StopInv ==
    /\ \A j \in Jobs : HonestStop(jobs[j])
    /\ worker.pc = "interrupting" => Short(jobs[worker.job])

\* A write of an honest row keeps the rows honest.
LEMMA WriteHonest ==
    ASSUME TypeInv, StopInv, NEW k \in Jobs, NEW allowed, NEW row, NEW outcome,
           Write(k, allowed, row, outcome), allowed => HonestStop(row)
    PROVE  \A j \in Jobs : HonestStop(jobs'[j])
<1>1. jobs \in [Jobs -> Row]
  BY DEF TypeInv, TypeOK
<1>2. jobs' = jobs \/ (allowed /\ jobs' = [jobs EXCEPT ![k] = row])
  BY WriteCases DEF TypeInv
<1>. QED
  BY <1>1, <1>2 DEF StopInv

\* Every row that a step writes is honest.
LEMMA NextHonest ==
    TypeInv /\ StopInv /\ [Next]_vars => \A j \in Jobs : HonestStop(jobs'[j])
<1>. SUFFICES ASSUME TypeInv, StopInv, [Next]_vars
              PROVE  \A j \in Jobs : HonestStop(jobs'[j])
  OBVIOUS
<1>0. /\ jobs \in [Jobs -> Row]
      /\ worker.pc # "idle" => worker.job \in Jobs
  BY DEF TypeInv, TypeOK, Labels
<1>m. ASSUME NEW k \in Jobs, NEW status, NEW error,
             error = "shutdown" => status = "failed" /\ Short(jobs[k])
      PROVE  HonestStop(WithStatus(jobs[k], status, error))
  <2>1. jobs[k] \in Row
    BY <1>0
  <2>. QED
    BY <1>m, <2>1 DEF WithStatus, HonestStop, Short, Row
<1>1. ASSUME NEW k \in Jobs, StartCreate(k)
      PROVE  \A j \in Jobs : HonestStop(jobs'[j])
  <2>1. HonestStop(NewRow(start.ids))
    BY DEF HonestStop, NewRow, Absent
  <2>2. PICK outcome :
          Write(k, CreateAllowed(start.ids), NewRow(start.ids), outcome)
    BY <1>1 DEF StartCreate
  <2>. QED
    BY <2>1, <2>2, WriteHonest
<1>2. CASE StartUnscheduled
  <2>1. start.job \in Jobs
    BY <1>2 DEF StartUnscheduled, TypeInv, Labels
  <2>2. PICK outcome :
          Write(start.job, StatusAllowed(jobs[start.job], "failed"),
                WithStatus(jobs[start.job], "failed", "unscheduled"), outcome)
    BY <1>2 DEF StartUnscheduled, Fail
  <2>. QED
    BY <1>m, <2>1, <2>2, WriteHonest
<1>3. CASE WorkerFail
  <2>1. worker.job \in Jobs
    BY <1>0, <1>3 DEF WorkerFail
  <2>2. PICK outcome, error :
          /\ error = "shutdown" => worker.pc = "interrupting"
          /\ Write(worker.job, StatusAllowed(jobs[worker.job], "failed"),
                   WithStatus(jobs[worker.job], "failed", error), outcome)
    BY <1>3 DEF WorkerFail, Fail
  <2>3. HonestStop(WithStatus(jobs[worker.job], "failed", error))
    BY <1>m, <2>1, <2>2 DEF StopInv
  <2>. QED
    BY <2>1, <2>2, <2>3, WriteHonest
<1>4. ASSUME NEW status, NEW then, worker.pc # "idle",
             WorkerWrites(StatusAllowed(jobs[worker.job], status),
                          WithStatus(jobs[worker.job], status, "none"), then)
      PROVE  \A j \in Jobs : HonestStop(jobs'[j])
  <2>1. worker.job \in Jobs
    BY <1>0, <1>4
  <2>2. PICK outcome :
          Write(worker.job, StatusAllowed(jobs[worker.job], status),
                WithStatus(jobs[worker.job], status, "none"), outcome)
    BY <1>4 DEF WorkerWrites
  <2>3. HonestStop(WithStatus(jobs[worker.job], status, "none"))
    BY <1>m, <2>1
  <2>. QED
    BY <2>1, <2>2, <2>3, WriteHonest
<1>a. CASE WorkerSetRunning
  BY <1>4, <1>a DEF WorkerSetRunning
<1>b. CASE WorkerComplete
  BY <1>4, <1>b DEF WorkerComplete
<1>5. CASE WorkerRecord
  <2>1. worker.job \in Jobs /\ jobs[worker.job] \in Row
    BY <1>0, <1>5 DEF WorkerRecord
  <2>2. PICK result, outcome :
          Write(worker.job, RecordAllowed(jobs[worker.job], result),
                WithResult(jobs[worker.job], result), outcome)
    BY <1>5 DEF WorkerRecord, WorkerWrites
  <2>3. ASSUME RecordAllowed(jobs[worker.job], result)
        PROVE  HonestStop(WithResult(jobs[worker.job], result))
    <3>1. jobs[worker.job].error # "shutdown"
      BY <2>1, <2>3 DEF RecordAllowed, Active, StopInv, HonestStop
    <3>2. WithResult(jobs[worker.job], result).error = jobs[worker.job].error
      BY <2>1 DEF WithResult, Row
    <3>. QED
      BY <3>1, <3>2 DEF HonestStop
  <2>. QED
    BY <2>1, <2>2, <2>3, WriteHonest
<1>6. CASE Restart \/ SecondOpen
  <2>1. ASSUME NEW j \in Jobs PROVE HonestStop(Recovered(jobs[j]))
    <3>1. jobs[j] \in Row /\ HonestStop(jobs[j])
      BY <1>0 DEF StopInv
    <3>. QED
      BY <3>1 DEF Recovered, HonestStop, Row
  <2>. QED
    BY <1>6, <2>1 DEF Restart, SecondOpen, OpenStore
<1>7. CASE jobs' = jobs
  BY <1>7 DEF StopInv
<1>8. CASE UNCHANGED vars
  BY <1>7, <1>8 DEF vars
<1>9. CASE \/ \E c \in Conns, kind \in Kinds \cup {"deleted"} : EditConnection(c, kind)
           \/ \E ids \in Selections : StartBegin(ids)
           \/ ShutdownBegin \/ ShutdownEnd \/ Crash
           \/ StartCheck \/ StartSubmit \/ StartSubmitFails
           \/ WorkerTake \/ WorkerLoad \/ WorkerLoop
  BY <1>7, <1>9
     DEF EditConnection, StartBegin, ShutdownBegin, ShutdownEnd, Crash, StartCheck,
         StartSubmit, StartSubmitFails, WorkerTake, WorkerLoad, WorkerLoop
<1>. QED
  BY <1>1, <1>2, <1>3, <1>a, <1>b, <1>5, <1>6, <1>8, <1>9 DEF Next, StartStep, WorkerStep

\* The worker comes to its interrupted end from the head of the loop, and stays
\* there until it has failed the job.
LEMMA Interrupted ==
    ASSUME TypeInv, [Next]_vars, worker'.pc = "interrupting"
    PROVE  \/ worker' = worker
           \/ WorkerLoop
<1>1. worker \in WorkerState
  BY DEF TypeInv, TypeOK
<1>2. ASSUME NEW allowed, NEW row, NEW then, WorkerWrites(allowed, row, then),
             then.pc # "interrupting"
      PROVE  FALSE
  <2>1. worker' \in {then, [worker EXCEPT !.pc = "failing"]}
    BY <1>2 DEF WorkerWrites
  <2>. QED
    BY <1>1, <1>2, <2>1 DEF WorkerState
<1>3. /\ [worker EXCEPT !.pc = "load"].pc = "load"
      /\ [worker EXCEPT !.pc = "loop", !.next = @ + 1].pc = "loop"
      /\ IdleWorker.pc = "idle"
  BY <1>1 DEF WorkerState, IdleWorker
<1>4. ~WorkerSetRunning
  BY <1>2, <1>3 DEF WorkerSetRunning
<1>5. ~WorkerRecord
  BY <1>2, <1>3 DEF WorkerRecord
<1>6. ~WorkerComplete
  BY <1>2, <1>3 DEF WorkerComplete
<1>7. ~WorkerLoad
  <2>1. ASSUME WorkerLoad
        PROVE  worker' \in {[worker EXCEPT !.pc = "loop",
                                           !.profiles = Loaded(jobs[worker.job])],
                            [worker EXCEPT !.pc = "failing"]}
    BY <2>1 DEF WorkerLoad
  <2>. QED
    BY <1>1, <2>1 DEF WorkerState
<1>8. ~WorkerTake /\ ~WorkerFail /\ ~ShutdownEnd /\ ~Crash
  <2>1. [IdleWorker EXCEPT !.pc = "running", !.job = Head(queue)].pc = "running"
    BY DEF IdleWorker
  <2>. QED
    BY <1>3, <2>1 DEF WorkerTake, WorkerFail, ShutdownEnd, Crash, ProcessGone
<1>9. ASSUME \/ StartStep \/ ShutdownBegin \/ Restart \/ SecondOpen
             \/ \E c \in Conns, kind \in Kinds \cup {"deleted"} : EditConnection(c, kind)
             \/ \E ids \in Selections : StartBegin(ids)
             \/ UNCHANGED vars
      PROVE  worker' = worker
  BY <1>9 DEF StartStep, StartCheck, StartCreate, StartSubmit, StartSubmitFails,
              StartUnscheduled, ShutdownBegin, Restart, SecondOpen, EditConnection,
              StartBegin, process, vars
<1>. QED
  BY <1>4, <1>5, <1>6, <1>7, <1>8, <1>9 DEF Next, WorkerStep

\* Every step preserves the invariant.
LEMMA NextStop == TypeInv /\ WorkInv /\ StopInv /\ [Next]_vars => StopInv'
<1>. SUFFICES ASSUME TypeInv, WorkInv, StopInv, [Next]_vars PROVE StopInv'
  OBVIOUS
<1>1. \A j \in Jobs : HonestStop(jobs'[j])
  BY NextHonest
<1>2. ASSUME worker'.pc = "interrupting" PROVE Short(jobs'[worker'.job])
  <2>0. worker \in WorkerState
    BY DEF TypeInv, TypeOK
  <2>1. CASE worker' = worker
    <3>1. worker.job \in Jobs /\ worker.pc # "testing" /\ Short(jobs[worker.job])
      BY <1>2, <2>1 DEF TypeInv, Labels, StopInv
    <3>2. jobs[worker.job].status # "absent"
      BY <1>2, <2>1 DEF WorkInv
    <3>3. /\ jobs'[worker.job].snapshot = jobs[worker.job].snapshot
          /\ jobs'[worker.job].results = jobs[worker.job].results
      BY <3>1, <3>2, RowsKeep, NextJobsStep
    <3>. QED
      BY <2>1, <3>1, <3>3 DEF Short
  <2>2. CASE WorkerLoop
    <3>1. /\ worker.pc = "loop" /\ jobs' = jobs
          /\ LoopLabel(worker) = "interrupting" /\ worker'.job = worker.job
      BY <1>2, <2>0, <2>2 DEF WorkerLoop, WorkerState
    <3>2. ~(worker.next > Len(worker.profiles))
      BY <3>1 DEF LoopLabel
    <3>3. /\ worker.profiles = jobs[worker.job].snapshot
          /\ worker.next = Len(jobs[worker.job].results) + 1
      BY <3>1 DEF WorkInv
    <3>4. jobs[worker.job] \in Row
      BY <3>1 DEF TypeInv, TypeOK, Labels
    <3>5. Len(jobs[worker.job].snapshot) \in Nat /\ Len(jobs[worker.job].results) \in Nat
      BY <3>4 DEF Row
    <3>. QED
      BY <3>1, <3>2, <3>3, <3>5 DEF Short
  <2>. QED
    BY <1>2, <2>1, <2>2, Interrupted
<1>. QED
  BY <1>1, <1>2 DEF StopInv

\* A job is reported as interrupted by shutdown only when a device was left
\* untested, whenever the stop arrives.
THEOREM StopLeavesWork == Spec => []ShutdownLeavesWork
<1>1. Init => StopInv /\ WorkInv
  <2>1. Len(<<>>) = 0 /\ 1 .. 0 = {}
    OBVIOUS
  <2>. QED
    BY <2>1 DEF Init, StopInv, WorkInv, HonestStop, NoStart, IdleWorker, Absent
<1>2. StopInv => ShutdownLeavesWork
  BY DEF StopInv, HonestStop, Short, ShutdownLeavesWork
<1>. QED
  BY <1>1, <1>2, InitTyped, NextTyped, NextWork, NextStop, PTL DEF Spec

=============================================================================
