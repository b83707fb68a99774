----------------------------- MODULE JobService -----------------------------
(***************************************************************************)
(* What a caller of the connection-test API is promised about bulk jobs,   *)
(* with the worker, the database transactions and the process left out:    *)
(* a job is accepted with a fixed plan of devices, reports on them one by  *)
(* one in plan order, and ends once, as "completed" (every device          *)
(* reported) or "failed".  BatchJobs implements this module.               *)
(***************************************************************************)
EXTENDS Naturals, Sequences

CONSTANTS Jobs,   \* job identifiers
          Plans   \* the device lists a job may be accepted with

VARIABLES phase,  \* what GET /connection-tests/{id} shows of each job
          plan,   \* the devices a job was accepted with
          report  \* the results published so far

vars == <<phase, plan, report>>

Active(j)   == phase[j] = "active"

Init ==
    /\ phase  = [j \in Jobs |-> "absent"]
    /\ plan   = [j \in Jobs |-> <<>>]
    /\ report = [j \in Jobs |-> <<>>]

\* One job at a time.
Accept(j, p) ==
    /\ phase[j] = "absent"
    /\ \A k \in Jobs : ~Active(k)
    /\ phase' = [phase EXCEPT ![j] = "active"]
    /\ plan' = [plan EXCEPT ![j] = p]
    /\ UNCHANGED report

Report(j, success) ==
    /\ Active(j)
    /\ Len(report[j]) < Len(plan[j])
    /\ LET item == plan[j][Len(report[j]) + 1]
       IN  report' = [report EXCEPT ![j] =
               Append(@, [conn |-> item.conn,
                          simulated |-> item.kind = "fake",
                          success |-> success])]
    /\ UNCHANGED <<phase, plan>>

Complete(j) ==
    /\ Active(j)
    /\ Len(report[j]) = Len(plan[j])
    /\ phase' = [phase EXCEPT ![j] = "completed"]
    /\ UNCHANGED <<plan, report>>

\* Shutdown, a restart or a storage failure ends a job early; its partial
\* results stay.
Abort(j) ==
    /\ Active(j)
    /\ phase' = [phase EXCEPT ![j] = "failed"]
    /\ UNCHANGED <<plan, report>>

Next ==
    \E j \in Jobs :
        \/ \E p \in Plans : Accept(j, p)
        \/ \E success \in BOOLEAN : Report(j, success)
        \/ Complete(j)
        \/ Abort(j)

Spec == Init /\ [][Next]_vars
=============================================================================
