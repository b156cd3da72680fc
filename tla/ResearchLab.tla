------------------------------ MODULE ResearchLab ------------------------------
(***************************************************************************)
(* The research lab: src/src/ops/research_lab.py. A run is a directory     *)
(* with a meta.json and, once its replay has got so far, a results.json.   *)
(* Its name is made of strategy, dataset and the second it was started in; *)
(* one strategy and dataset are modelled, so a run is a second.            *)
(*                                                                         *)
(* start has an await between the test of _proc and its assignment, the    *)
(* creation of the process; _reap reads _proc on its first step, one turn  *)
(* of the loop after it was made, and waits for that process to end.       *)
(***************************************************************************)
EXTENDS Integers, Sequences

CONSTANTS
    Seconds,   \* the seconds there are
    MaxStarts  \* bound of the model: starts

ASSUME LabAssumption == Seconds \in Nat \ {0} /\ MaxStarts \in Nat

Runs == 1 .. Seconds

VARIABLES
    second,   \* the time
    meta,     \* meta.json's status of each run, "none" without a directory
    results,  \* the runs with a results.json
    procs,    \* the processes in order: their run, their state and their _reap
    proc,     \* _proc: the last one assigned, 0 for None
    starts,   \* counts them
    ended,    \* ghost: the runs a replay of which ended well
    broken    \* ghost: runs whose start failed, overlapped or was cut short

labVars == <<second, meta, results, procs, proc, starts, ended, broken>>

\* returncode is None
Busy == proc # 0 /\ procs[proc].state \in {"running", "written"}

\* A task that has not taken its first step; it will, before a request that comes
\* now is past its await
Unreaped == \E k \in DOMAIN procs : procs[k].reap = "new"

------------------------------------------------------------------------------
(* start, called by a handler; spawning holds the runs being created.        *)

\* ... up to its await
Begin(spawning) ==
    /\ ~ Busy /\ ~ Unreaped /\ starts < MaxStarts /\ starts' = starts + 1
    /\ meta' = [meta EXCEPT ![second] = "running"]
    /\ broken' = IF spawning = {} THEN broken ELSE broken \cup spawning \cup {second}
    /\ UNCHANGED <<second, results, procs, proc, ended>>

\* ... and past it
Spawned(run) ==
    /\ procs' = Append(procs, [run |-> run, state |-> "running", read |-> FALSE,
                               reap |-> "new", of |-> 0])
    /\ proc' = Len(procs')
    /\ UNCHANGED <<second, meta, results, starts, ended, broken>>

SpawnFails(run) ==
    /\ broken' = broken \cup {run}
    /\ UNCHANGED <<second, meta, results, procs, proc, starts, ended>>

\* The replay writes its results, and ends well or badly
ProcWrites(k) ==
    /\ procs[k].state = "running"
    /\ procs' = [procs EXCEPT ![k].state = "written"]
    /\ results' = results \cup {procs[k].run}
    /\ UNCHANGED <<second, meta, proc, starts, ended, broken>>

ProcEnds(k, state) ==
    /\ \/ procs[k].state = "written" /\ state = "ok"
       \/ procs[k].state \in {"running", "written"} /\ state = "failed"
    /\ procs' = [procs EXCEPT ![k].state = state]
    /\ ended' = IF state = "ok" THEN ended \cup {procs[k].run} ELSE ended
    /\ UNCHANGED <<second, meta, results, proc, starts, broken>>

\* _reap: its first step takes _proc, and fails if another one reads from it
ReapBegins(k) ==
    /\ procs[k].reap = "new"
    /\ procs' = IF procs[proc].read THEN [procs EXCEPT ![k].reap = "lost"]
                ELSE [procs EXCEPT ![k].reap = "waiting", ![k].of = proc, ![proc].read = TRUE]
    /\ UNCHANGED <<second, meta, results, proc, starts, ended, broken>>

\* ... and its last
\* (DoneOnly: a failure is not written down. ResultsSuffice: the return code is
\* not looked at.)
DoneOnly(k) ==
    IF procs[procs[k].of].state = "ok" /\ procs[k].run \in results THEN "done" ELSE meta[procs[k].run]
ResultsSuffice(k) == IF procs[k].run \in results THEN "done" ELSE "failed"
Outcome(k) ==
    IF procs[procs[k].of].state = "ok" /\ procs[k].run \in results THEN "done" ELSE "failed"

ReapEnds(k) ==
    /\ procs[k].reap = "waiting" /\ procs[procs[k].of].state \in {"ok", "failed"}
    /\ meta' = [meta EXCEPT ![procs[k].run] = Outcome(k)]
    /\ procs' = [procs EXCEPT ![k].reap = "over", ![k].of = 0, ![procs[k].of].read = FALSE]
    /\ UNCHANGED <<second, results, proc, starts, ended, broken>>

\* The process of the lab starts anew: nobody reaps what still runs, and it may
\* write its results yet, here at once
LabRestart ==
    /\ procs' = <<>> /\ proc' = 0
    /\ \E orphans \in SUBSET {procs[k].run : k \in DOMAIN procs} : results' = results \cup orphans
    /\ broken' = broken \cup {r \in Runs : meta[r] = "running"}
    /\ UNCHANGED <<second, meta, starts, ended>>

SecondPasses ==
    /\ second < Seconds /\ second' = second + 1
    /\ UNCHANGED <<meta, results, procs, proc, starts, ended, broken>>

LabInit ==
    /\ second = 1 /\ meta = [r \in Runs |-> "none"] /\ results = {}
    /\ procs = <<>> /\ proc = 0 /\ starts = 0 /\ ended = {} /\ broken = {}

------------------------------------------------------------------------------
\* A run that is shown as done had a replay that ended well, unless its start
\* overlapped another or was cut short (research_lab.py:88, "done").
DoneIsTrue ==
    \A r \in Runs \ broken : meta[r] = "done" => r \in ended

\* A run that was started on its own, and not cut short, is shown as done or
\* failed in the end (research_lab.py:84).
RunSettled == \A r \in Runs : meta[r] = "running" ~> meta[r] # "running" \/ r \in broken

\* research_lab.py:11, "one run at a time". The code does not keep it: see the
\* README, Divergences.
OneRunAtATime ==
    \A j, k \in DOMAIN procs :
        {procs[j].state, procs[k].state} \subseteq {"running", "written"} => j = k
=============================================================================
