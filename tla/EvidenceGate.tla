----------------------------- MODULE EvidenceGate -----------------------------
(***************************************************************************)
(* The evidence that lets a process trade live, from the end of a day to   *)
(* the boot that reads it: run_eod (src/src/ops/eod_worker.py) and         *)
(* advance_gate (ops/paper_report.py) write gate_state.json, in live mode  *)
(* twice; assert_live_allowed (app.py) and ramp_cap_for (runtime.py) read  *)
(* it. No write is atomic: what dies in it leaves a file that does not     *)
(* parse, what dies between two leaves the first alone, and whoever runs   *)
(* the day's end again adds to what is there.                              *)
(***************************************************************************)
EXTENDS Integers, Sequences, FiniteSets

CONSTANTS
    MinDays,      \* MIN_PAPER_DAYS
    MinStreak,    \* clean_reconciliation_streak asked for
    RampDays,     \* live_ramp.days
    MaxRuns       \* bound of the model: recorded runs

ASSUME GateAssumption == {MinDays, MinStreak, RampDays, MaxRuns} \subseteq Nat

VARIABLES
    mode,      \* of the process: "down", "paper", "live"
    ramped,    \* RampedRisk holds a cap
    file,      \* gate_state.json: its counters, the acknowledgements a human sets
               \* in it, its history; whether it parses
    eod,       \* run_eod: the write it is before, and what reconcile found
    booted     \* ghost: the length of the history at boot

gateVars == <<mode, ramped, file, eod, booted>>

Recorded(h, wanted) == Cardinality({i \in DOMAIN h : h[i] \in wanted})
CleanRuns     == [clean : {TRUE}, live : BOOLEAN]
CleanLiveRuns == [clean : {TRUE}, live : {TRUE}]

NoRun == [at |-> "idle", clean |-> FALSE]

GateInit ==
    /\ mode = "down" /\ ramped = FALSE /\ booted = 0 /\ eod = NoRun
    /\ file = [days |-> 0, streak |-> 0, live |-> 0, acknowledged |-> FALSE,
               history |-> <<>>, parses |-> TRUE]

\* assert_live_allowed; it raises on a file that does not parse as well
\* (StreakUnread: the streak is not asked for.)
StreakUnread == file.parses /\ file.days >= MinDays /\ file.acknowledged
LiveAllowed  == /\ file.parses /\ file.days >= MinDays /\ file.streak >= MinStreak
                /\ file.acknowledged

\* build_runtime: the gate, then ramp_cap_for
Boot(m) ==
    /\ mode = "down" /\ (m = "live" => LiveAllowed)
    /\ mode' = m /\ ramped' = (m = "live" /\ file.live < RampDays)
    /\ booted' = Len(file.history)
    /\ UNCHANGED <<file, eod>>

\* The SEBI checks, the static address and human_ack
Acknowledge ==
    /\ file.parses /\ ~ file.acknowledged
    /\ file' = [file EXCEPT !.acknowledged = TRUE]
    /\ UNCHANGED <<mode, ramped, eod, booted>>

Reconcile(clean) ==
    /\ mode # "down" /\ eod.at = "idle" /\ Len(file.history) < MaxRuns
    /\ eod' = [at |-> "advance", clean |-> clean]
    /\ UNCHANGED <<mode, ramped, file, booted>>

\* advance_gate
\* (StreakKept: a dirty day only does not add to the streak.)
StreakKept == file.streak
StreakLost == 0

Advance ==
    /\ eod.at = "advance" /\ file.parses
    /\ file' = [file EXCEPT
                  !.days = IF eod.clean THEN @ + 1 ELSE @,
                  !.streak = IF eod.clean THEN @ + 1 ELSE StreakLost,
                  !.history = Append(@, [clean |-> eod.clean, live |-> mode = "live"])]
    /\ eod' = [eod EXCEPT !.at = IF mode = "live" THEN "live" ELSE "report"]
    /\ UNCHANGED <<mode, ramped, booted>>

\* the second write of a live day
LiveDays == IF eod.clean THEN file.live + 1 ELSE file.live

CountLiveDay ==
    /\ eod.at = "live" /\ file.parses
    /\ file' = [file EXCEPT !.live = LiveDays]
    /\ eod' = [eod EXCEPT !.at = "report"]
    /\ UNCHANGED <<mode, ramped, booted>>

\* the report and the alert
Report ==
    /\ eod.at = "report" /\ eod' = NoRun
    /\ UNCHANGED <<mode, ramped, file, booted>>

\* What is left of a run that is abandoned at this point
Left == {file} \cup IF eod.at \in {"advance", "live"} THEN {[file EXCEPT !.parses = FALSE]} ELSE {}

Abandon ==
    /\ eod.at # "idle" /\ eod' = NoRun
    /\ \E f \in Left : file' = f
    /\ UNCHANGED <<mode, ramped, booted>>

Die ==
    /\ mode # "down" /\ mode' = "down" /\ eod' = NoRun /\ ramped' = FALSE
    /\ \E f \in Left : file' = f
    /\ UNCHANGED booted

------------------------------------------------------------------------------
GateTypeOK ==
    /\ mode \in {"down", "paper", "live"} /\ ramped \in BOOLEAN /\ booted \in 0 .. MaxRuns
    /\ file.history \in Seq([clean : BOOLEAN, live : BOOLEAN])
    /\ {file.days, file.streak, file.live} \subseteq 0 .. MaxRuns
    /\ eod \in [at : {"idle", "advance", "live", "report"}, clean : BOOLEAN]

\* The counters of the gate say what the history under them says, wherever a
\* run was abandoned: the clean runs, the clean ones since the last dirty one,
\* and no more live days than clean live runs (paper_report.py:6, "evidence is
\* strict").
GateIsHistory ==
    LET h == file.history IN
    /\ file.days = Recorded(h, CleanRuns)
    /\ file.streak <= Len(h)
    /\ \A i \in 1 .. Len(h) : h[i].clean \/ i <= Len(h) - file.streak
    /\ file.streak < Len(h) => ~ h[Len(h) - file.streak].clean
    /\ file.live <= Recorded(h, CleanLiveRuns)

\* A process that trades live was booted on the evidence the gate asks for, and
\* one that trades at full size on a ramp of clean live runs (app.py:48, "Live is
\* a privilege earned by evidence"; runtime.py:9).
LiveEarned ==
    LET h == SubSeq(file.history, 1, booted) IN
    mode = "live" =>
        /\ Recorded(h, CleanRuns) >= MinDays
        /\ \A i \in 1 .. Len(h) : i > Len(h) - MinStreak => h[i].clean
        /\ ~ ramped => Recorded(h, CleanLiveRuns) >= RampDays
=============================================================================
