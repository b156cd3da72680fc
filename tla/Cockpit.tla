-------------------------------- MODULE Cockpit --------------------------------
(***************************************************************************)
(* The control side of the gateway, src/src/ops/cockpit_gateway.py, with   *)
(* the broker settings it saves (broker_settings.py) and the research lab. *)
(*                                                                         *)
(* A handler screens its request, has a provider do what is asked, appends *)
(* a row to the audit log, and answers. Each may wait for the provider,    *)
(* and the others go on. A 200 is not yet a deed done: a ticket is turned  *)
(* down with accepted False and a test fails with ok False, in the body    *)
(* and in the row. What the providers do to the book, the switch and the   *)
(* pause is the matter of Desk, KillSwitch and EntryPause; a kill is done  *)
(* when the flags are up, what its report says of orders and positions is  *)
(* KillAccounts of KillSwitch.                                             *)
(***************************************************************************)
EXTENDS ResearchLab, FiniteSets

CONSTANTS
    Handlers,  \* requests under way
    MaxDeeds,  \* bound of the model: those of them that are about anything but a run,
               \* each start that was made being counted against them
    Keys       \* settings of the brokers, allowlisted ones

ASSUME CockpitAssumption == "none" \notin Keys /\ MaxDeeds \in Nat

Controls == {"test", "save", "kill", "unlock", "pause", "resume", "approve",
             "close", "order", "enable", "disable", "run"}
Phrased  == {"kill", "close", "order", "enable"}     \* confirm is compared first
Wired    == {"kill", "unlock"}                       \* never 501
Toggles    == {"enable", "disable"}
Declinable == {"test", "order"}                      \* a normal return may say no

VARIABLES
    call,     \* of each handler: where it is; the kind of deed, and once there is one
              \* what the provider reports; the setting or run; ghost: deed done or not
    answer,   \* the answer of the last step: its sort, its body, the row, the deed
    overlay,  \* the settings in brokers_local.yaml, as _load_overlay reads them
    saved     \* ghost: those acknowledged since a write of the file was last torn

cockpitVars == <<call, answer, overlay, saved>>

Idle == [at |-> "idle", kind |-> "none", key |-> "none", did |-> FALSE]
NoAnswer == [sort |-> "none", body |-> "none", effect |-> FALSE, row |-> "none", key |-> "none"]

\* The handler is at its next place, or its end
GoesTo(h, c) == call' = [call EXCEPT ![h] = c] /\ answer' = NoAnswer
Answers(h, a) == call' = [call EXCEPT ![h] = Idle] /\ answer' = a

\* Deeds share nothing but the overlay, with runs not even that
MoreDeeds ==
    Cardinality({g \in Handlers : call[g].at \in {"effect", "audit", "refusing"}}) + starts < MaxDeeds

Spawning == {call[h].key : h \in {g \in Handlers : call[g].at = "spawning"}}

------------------------------------------------------------------------------
(* A request has a role, a provider that is wired or not, the right phrase  *)
(* or another, and content that is legal, illegal, or about the gate.       *)
Requests == [action : Controls, role : {"none", "viewer", "operator"}, wired : BOOLEAN,
             phrase : BOOLEAN, content : {"legal", "illegal", "gate"}]

\* authed, operator_only and the tests at the head of each handler: an answer,
\* or 0 to go on
Screen(r) ==
    IF r.role = "none" THEN 401
    ELSE IF r.role = "viewer" THEN 403
    ELSE IF ~ r.wired /\ r.action \notin Wired THEN 501
    ELSE IF r.action \in Phrased /\ ~ r.phrase THEN 400
    ELSE IF r.action \in {"order", "run"} /\ r.content # "legal" THEN 400
    ELSE IF r.action = "save" /\ r.content = "illegal" THEN 500
    ELSE 0

\* turned down, and the refusal is logged
Refuses(r) ==
    \/ r.action = "unlock" /\ ~ r.phrase
    \/ r.action = "save" /\ r.content = "gate"

\* What an answer is to the operator
Sort(code) == IF code = 200 THEN "done" ELSE IF code = 500 THEN "error" ELSE "refused"

\* What tells the deeds apart once the request is through
Kind(r) == IF r.action \in {"save", "run", "close"} THEN r.action
           ELSE IF r.action \in Toggles THEN "toggle"
           ELSE IF r.action \in Declinable THEN "declinable" ELSE "other"

Through  == {r \in Requests : Screen(r) = 0}
Refusals == {Sort(Screen(r)) : r \in Requests \ Through}
Accepted == {Kind(r) : r \in {x \in Through : ~ Refuses(x)}} \ {"run"}

Refuse(h) ==
    /\ \E sort \in Refusals : Answers(h, [NoAnswer EXCEPT !.sort = sort])
    /\ UNCHANGED labVars

LogRefusal(h) ==
    /\ \E r \in Through : Refuses(r)
    /\ GoesTo(h, [Idle EXCEPT !.at = "refusing"])
    /\ UNCHANGED labVars

Accept(h) ==
    /\ \E kind \in Accepted, key \in Keys :
         GoesTo(h, [Idle EXCEPT !.at = "effect", !.kind = kind,
                                !.key = IF kind = "save" THEN key ELSE "none"])
    /\ UNCHANGED labVars

\* research_run is in start until the process is there; a lab that is busy is a 400
StartRun(h) ==
    /\ Begin(Spawning)
    /\ GoesTo(h, [Idle EXCEPT !.at = "spawning", !.kind = "run", !.key = second])

Request(h) ==
    /\ call[h].at = "idle"
    /\ \/ MoreDeeds /\ (Refuse(h) \/ LogRefusal(h) \/ Accept(h))
       \/ StartRun(h)
    /\ UNCHANGED <<overlay, saved>>

------------------------------------------------------------------------------
\* What a provider that returns says, and what it has done. A close of an mt5
\* position says so of one the broker has declined too (Desk, ActiveExit).
Reports(kind) ==
    CASE kind = "declinable" -> {[says |-> "done", did |-> TRUE], [says |-> "declined", did |-> FALSE]}
      [] kind = "close"      -> [says : {"closed"}, did : BOOLEAN]
      [] OTHER               -> {[says |-> "done", did |-> TRUE]}

ToAudit(c, report) == [at |-> "audit", kind |-> report.says, key |-> c.key, did |-> report.did]

RunSpawned(h) ==
    /\ call[h].at = "spawning" /\ Spawned(call[h].key)
    /\ \E report \in Reports("run") : GoesTo(h, ToAudit(Idle, report))
    /\ UNCHANGED <<overlay, saved>>

RunSpawnFails(h) ==
    /\ call[h].at = "spawning" /\ SpawnFails(call[h].key)
    /\ Answers(h, [NoAnswer EXCEPT !.sort = Sort(500)])
    /\ UNCHANGED <<overlay, saved>>

\* save reads the whole overlay and writes it anew.
Saved(key) == overlay \cup {key}

\* The file is truncated before it is written: a write that fails or is cut off
\* leaves none of it or a part.
Torn(key) ==
    /\ overlay' \in SUBSET Saved(key)
    /\ saved' = {}

\* There is no await between a provider's return and the row of it, so nobody
\* else's deed falls between the two.
NobodyLogs == \A g \in Handlers : call[g].at # "audit"

\* The provider returns ...
Does(h) ==
    /\ call[h].at = "effect" /\ NobodyLogs
    /\ \E report \in Reports(call[h].kind) : GoesTo(h, ToAudit(call[h], report))
    /\ overlay' = IF call[h].kind = "save" THEN Saved(call[h].key) ELSE overlay
    /\ UNCHANGED saved /\ UNCHANGED labVars

\* ... or knows nothing of what is asked for, or raises, with the deed done or not
Unknown(h) ==
    /\ call[h].at = "effect" /\ call[h].kind \in {"close", "toggle"}
    /\ Answers(h, [NoAnswer EXCEPT !.sort = Sort(404)])
    /\ UNCHANGED <<overlay, saved>> /\ UNCHANGED labVars

Raises(h) ==
    /\ call[h].at = "effect" /\ NobodyLogs
    /\ \E did \in BOOLEAN : Answers(h, [NoAnswer EXCEPT !.sort = Sort(500), !.effect = did])
    /\ \/ UNCHANGED <<overlay, saved>>
       \/ call[h].kind = "save" /\ Torn(call[h].key)
    /\ UNCHANGED labVars

\* _audit, which may raise as well; the row says what the body says
\* (TakenForDone: a return is taken for a deed done.)
TakenForDone(c, logs) ==
    IF ~ logs THEN [NoAnswer EXCEPT !.sort = Sort(500), !.effect = c.did]
    ELSE IF c.at = "audit"
    THEN [sort |-> Sort(200), body |-> c.kind, effect |-> c.did, row |-> "done", key |-> c.key]
    ELSE [NoAnswer EXCEPT !.sort = Sort(403), !.row = "refused"]
AfterAudit(c, logs) ==
    IF ~ logs THEN [NoAnswer EXCEPT !.sort = Sort(500), !.effect = c.did]
    ELSE IF c.at = "audit"
    THEN [sort |-> Sort(200), body |-> c.kind, effect |-> c.did, row |-> c.kind, key |-> c.key]
    ELSE [NoAnswer EXCEPT !.sort = Sort(403), !.row = "refused"]

Audit(h, logs) ==
    /\ call[h].at \in {"audit", "refusing"}
    /\ Answers(h, AfterAudit(call[h], logs))
    /\ saved' = saved \cup ({AfterAudit(call[h], logs).key} \ {"none"})
    /\ UNCHANGED overlay /\ UNCHANGED labVars

\* The process may die in the middle of a save
Restart ==
    /\ LabRestart
    /\ call' = [h \in Handlers |-> Idle] /\ answer' = NoAnswer
    /\ \/ UNCHANGED <<overlay, saved>>
       \/ \E h \in Handlers : call[h].at = "effect" /\ call[h].kind = "save" /\ Torn(call[h].key)

CockpitInit ==
    /\ LabInit
    /\ call = [h \in Handlers |-> Idle] /\ answer = NoAnswer
    /\ overlay = {} /\ saved = {}

\* What a replay and its _reap do, while the handlers wait
Reaps(k) ==
    \/ ProcWrites(k) \/ (\E state \in {"ok", "failed"} : ProcEnds(k, state))
    \/ ReapBegins(k) \/ ReapEnds(k)
Aside == answer' = NoAnswer /\ UNCHANGED <<call, overlay, saved>>

CockpitNext ==
    \/ \E h \in Handlers : \/ Request(h) \/ Does(h) \/ Unknown(h) \/ Raises(h)
                           \/ RunSpawned(h) \/ RunSpawnFails(h)
                           \/ \E logs \in BOOLEAN : Audit(h, logs)
    \/ \E k \in DOMAIN procs : Reaps(k) /\ Aside
    \/ SecondPasses /\ Aside
    \/ Restart

\* The loop gives every task its turn, a creation that is under way comes to
\* something, and a replay ends: it goes once over a recording.
CockpitFairness ==
    /\ \A h \in Handlers : WF_<<labVars, cockpitVars>>(RunSpawned(h) \/ RunSpawnFails(h))
    /\ \A k \in 1 .. MaxStarts :
         WF_<<labVars, cockpitVars>>(k \in DOMAIN procs /\ Reaps(k) /\ Aside)

CockpitSpec ==
    CockpitInit /\ [][CockpitNext]_<<labVars, cockpitVars>> /\ CockpitFairness

------------------------------------------------------------------------------
\* The body, the row and the deed agree: done is said of a deed done only, and
\* declined of one that was not; a close says neither.
Agrees(a) ==
    /\ "done" \in {a.body, a.row} => a.effect
    /\ "declined" \in {a.body, a.row} => ~ a.effect
    /\ a.sort = "done" => a.row = a.body /\ a.body # "none"
    /\ a.sort = "refused" => ~ a.effect /\ a.row \in {"none", "refused"}

\* The operator and the log are told the same, and the truth, whatever else was
\* under way; nothing is done on a 4xx or a 501, and only a refusal is logged of
\* one (cockpit_gateway.py:6-7). And it stays true of a setting: one whose save was
\* acknowledged is on the disk, through the saves of others, saves that fail and
\* restarts, until a write of the file is cut off (broker_settings.py:142-146).
AnswersAreTrue == Agrees(answer) /\ saved \subseteq overlay
=============================================================================
