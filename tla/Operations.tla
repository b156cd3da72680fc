------------------------------ MODULE Operations ------------------------------
(***************************************************************************)
(* One process and the day's end in it: the end-of-day job is one of the   *)
(* loops WorkerSupervisor runs. An exception in run_eod ends the loop; the *)
(* supervisor starts it again, and it runs the day's end again; a file     *)
(* that does not parse ends it each time, until it is given up. The death  *)
(* of the process takes supervisor and job with it. (The loop itself is    *)
(* not in the repository: DEPLOY.md:68 and README.md:81 name it.)          *)
(***************************************************************************)
EXTENDS Supervisor, EvidenceGate

CONSTANT Eod      \* the worker that calls run_eod

ASSUME OperationsAssumption == Eod \in Names

opsVars == <<supervisorVars, gateVars>>

OpsInit == SupervisorInit /\ GateInit

\* The job's own steps, while its task runs
EodStep ==
    /\ task[Eod] = "running" /\ UNCHANGED supervisorVars
    /\ (\E clean \in BOOLEAN : Reconcile(clean)) \/ Advance \/ CountLiveDay \/ Report

\* It fails, or is cancelled, in a run or between two: the run is abandoned there
Leaves(w) == IF w = Eod /\ eod.at # "idle" THEN Abandon ELSE UNCHANGED gateVars
Fails(w)  == WorkerEnds(w) /\ Leaves(w)
Stops(w)  == Cancelled(w) /\ Leaves(w)

BootUp(m) == monitor.at = "down" /\ ~ stopping /\ Boot(m) /\ Run

\* kill -9, a power cut, or the end of a shutdown: a new process has new tasks
ProcessDies ==
    /\ Die
    /\ task' = [w \in Names |-> "none"] /\ restarts' = [w \in Names |-> 0]
    /\ monitor' = [at |-> "down", i |-> 1] /\ stopping' = FALSE /\ awaited' = {}
    /\ notice' = [w \in Names |-> "none"]
    /\ UNCHANGED wired

Supervise ==
    /\ Wake \/ Inspect \/ Alerted
    /\ UNCHANGED gateVars

OpsNext ==
    \/ EodStep \/ Supervise \/ ProcessDies
    \/ \E m \in {"paper", "live"} : BootUp(m)
    \/ Shutdown /\ UNCHANGED gateVars
    \/ \E w \in Names : Fails(w) \/ Stops(w)
    \/ Acknowledge /\ UNCHANGED supervisorVars

\* The event loop resumes what is ready, and a cancelled task ends
OpsSpec ==
    /\ OpsInit /\ [][OpsNext]_opsVars
    /\ WF_opsVars(Supervise)
    /\ \A w \in Names : WF_opsVars(Stops(w))
=============================================================================
