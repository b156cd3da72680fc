------------------------------ MODULE Supervisor ------------------------------
(***************************************************************************)
(* WorkerSupervisor of src/src/app.py: the background loops of one process *)
(* as asyncio tasks, the monitor that restarts the ones that ended, and    *)
(* shutdown. The monitor awaits three things: its sleep, a heartbeat per   *)
(* worker, and the alert for a worker it gives up, if it was built with an *)
(* alert_fn at all: build_runtime passes on the one it is given, None by   *)
(* default, and run_paper.py gives none. shutdown may begin at each of     *)
(* them: it cancels what runs then and awaits that.                        *)
(***************************************************************************)
EXTENDS Integers, Sequences

CONSTANTS
    Workers,       \* the specs, in the order they were added
    MaxRestarts    \* max_restarts

Names == {Workers[i] : i \in DOMAIN Workers}

ASSUME SupervisorAssumption ==
    Workers \in Seq(STRING) /\ Workers # <<>> /\ MaxRestarts \in Nat

VARIABLES
    wired,      \* alert_fn is not None
    task,       \* _tasks: "none" not there, "running", "ended", "cancelling"
    restarts,   \* WorkerSpec.restarts
    monitor,    \* what run awaits: "down" before and after it, "sleep",
                \* "heartbeat" and "alert" of the i-th worker
    stopping,   \* _stopping
    awaited,    \* the tasks shutdown's gather waits for
    notice      \* how each worker that was given up is known: "none"; "recorded",
                \* by its gave_up in events only; "alerted"; "unheard", by that
                \* and an alert that raised

supervisorVars == <<wired, task, restarts, monitor, stopping, awaited, notice>>

SupervisorInit ==
    /\ wired \in BOOLEAN
    /\ task = [w \in Names |-> "none"] /\ restarts = [w \in Names |-> 0]
    /\ monitor = [at |-> "down", i |-> 1]
    /\ stopping = FALSE /\ awaited = {}
    /\ notice = [w \in Names |-> "none"]

\* run, up to its first sleep
Run ==
    /\ monitor.at = "down" /\ ~ stopping
    /\ task' = [w \in Names |-> "running"]
    /\ monitor' = [at |-> "sleep", i |-> 1]
    /\ UNCHANGED <<wired, restarts, stopping, awaited, notice>>

\* The loop of a worker raises, or returns: to the supervisor the same
WorkerEnds(w) ==
    /\ task[w] = "running"
    /\ task' = [task EXCEPT ![w] = "ended"]
    /\ UNCHANGED <<wired, restarts, monitor, stopping, awaited, notice>>

Wake ==
    /\ monitor.at = "sleep"
    /\ monitor' = [at |-> "heartbeat", i |-> 1]
    /\ UNCHANGED <<wired, task, restarts, stopping, awaited, notice>>

Worker == Workers[monitor.i]

\* The next worker of the for loop, or its end: _stopping is looked at only here
\* (OnlyTheFirst: the loop over the workers is left after one.)
OnlyTheFirst == [at |-> IF stopping THEN "down" ELSE "sleep", i |-> 1]
Onward ==
    IF monitor.i < Len(Workers) THEN [at |-> "heartbeat", i |-> monitor.i + 1]
    ELSE [at |-> IF stopping THEN "down" ELSE "sleep", i |-> 1]

GivesUp(w) == restarts[w] >= MaxRestarts

\* The worker is given up: the event first, then the alert, if there is one to
\* send, and only then is the task forgotten.
GiveUp(w) ==
    /\ notice' = [notice EXCEPT ![w] = "recorded"]
    /\ IF wired
       THEN monitor' = [monitor EXCEPT !.at = "alert"] /\ UNCHANGED task
       ELSE monitor' = Onward /\ task' = [task EXCEPT ![w] = "none"]
    /\ UNCHANGED restarts

StartAgain(w) ==
    /\ task' = [task EXCEPT ![w] = "running"]
    /\ restarts' = [restarts EXCEPT ![w] = @ + 1]
    /\ monitor' = Onward
    /\ UNCHANGED notice

\* The heartbeat is set, of a dead worker too, or lost; then the worker is looked at
Inspect ==
    /\ monitor.at = "heartbeat"
    /\ IF task[Worker] # "ended" THEN monitor' = Onward /\ UNCHANGED <<task, restarts, notice>>
       ELSE IF GivesUp(Worker) THEN GiveUp(Worker) ELSE StartAgain(Worker)
    /\ UNCHANGED <<wired, stopping, awaited>>

\* alert_fn returned, or raised and that was logged
Alerted ==
    /\ monitor.at = "alert"
    /\ \E outcome \in {"alerted", "unheard"} : notice' = [notice EXCEPT ![Worker] = outcome]
    /\ task' = [task EXCEPT ![Worker] = "none"]
    /\ monitor' = Onward
    /\ UNCHANGED <<wired, restarts, stopping, awaited>>

\* shutdown, up to its gather
Shutdown ==
    /\ ~ stopping /\ monitor.at # "down" /\ stopping' = TRUE
    /\ task' = [w \in Names |-> IF task[w] = "running" THEN "cancelling" ELSE task[w]]
    /\ awaited' = {w \in Names : task[w] = "running"}
    /\ UNCHANGED <<wired, restarts, monitor, notice>>

\* A cancelled task is done, like one that ended by itself
Cancelled(w) ==
    /\ task[w] = "cancelling"
    /\ task' = [task EXCEPT ![w] = "ended"] /\ awaited' = awaited \ {w}
    /\ UNCHANGED <<wired, restarts, monitor, stopping, notice>>

MonitorStep == Run \/ Wake \/ Inspect \/ Alerted

SupervisorNext ==
    \/ MonitorStep \/ Shutdown
    \/ \E w \in Names : WorkerEnds(w) \/ Cancelled(w)

\* The event loop resumes what is ready; whether a loop ends is its own affair
SupervisorSpec ==
    /\ SupervisorInit /\ [][SupervisorNext]_supervisorVars
    /\ WF_supervisorVars(MonitorStep) /\ \A w \in Names : WF_supervisorVars(Cancelled(w))

------------------------------------------------------------------------------
SupervisorTypeOK ==
    /\ wired \in BOOLEAN
    /\ task \in [Names -> {"none", "running", "ended", "cancelling"}]
    /\ restarts \in [Names -> 0 .. MaxRestarts]
    /\ monitor \in [at : {"down", "sleep", "heartbeat", "alert"}, i : DOMAIN Workers]
    /\ stopping \in BOOLEAN /\ awaited \subseteq Names
    /\ notice \in [Names -> {"none", "recorded", "alerted", "unheard"}]

\* What there is to be read of a worker that was given up: its event, and where
\* an alert_fn is wired also the alert, or that it could not be sent.
Noticed(w) == notice[w] \in IF wired THEN {"alerted", "unheard"} ELSE {"recorded"}

\* A loop that ended is started again, or given up in the supervisor's events and
\* with an alert where one is wired, or the whole process stops (app.py:117-134).
DeathNoticed ==
    \A w \in Names : task[w] = "ended" ~> task[w] = "running" \/ Noticed(w) \/ monitor.at = "down"

\* app.py:9-10, "a dead exit-manager loop must never go unnoticed". The code does
\* not keep it: see the README, Divergences.
NobodyMissesADeath ==
    monitor.at # "down" => \A w \in Names : task[w] = "none" => notice[w] = "alerted"
=============================================================================
