--------------------------- MODULE Operations_proofs ---------------------------
(***************************************************************************)
(* Proofs about the processes around the trading loop: the supervisor and  *)
(* the live gate (Operations), the feeds (LiveFeed), the cockpit and its   *)
(* research lab (Cockpit), the market clock.                               *)
(*                                                                         *)
(* Operations: for any workers, thresholds and number of runs of the day's *)
(* end. A counter that is written later than the history is never ahead of *)
(* it, since the run that owes it is remembered (LiveOwed); the history    *)
(* only grows, so that what a boot was granted on stays true of its        *)
(* beginning.                                                              *)
(***************************************************************************)
EXTENDS Operations, MCLiveFeed, Cockpit, FiniteSetTheorems, SequenceTheorems,
        WellFoundedInduction, TLAPS

RunType  == [clean : BOOLEAN, live : BOOLEAN]
FileType == [days : Nat, streak : Nat, live : Nat, acknowledged : BOOLEAN,
             history : Seq(RunType), parses : BOOLEAN]

GateShape ==
    /\ mode \in {"down", "paper", "live"} /\ ramped \in BOOLEAN
    /\ file \in FileType /\ Len(file.history) <= MaxRuns
    /\ booted \in 0 .. Len(file.history)
    /\ eod \in [at : {"idle", "advance", "live", "report"}, clean : BOOLEAN]
    /\ eod.at = "advance" => Len(file.history) < MaxRuns

\* A clean live day that is in the history and not yet in its counter
LiveOwed ==
    eod.at = "live" /\ eod.clean => file.live + 1 <= Recorded(file.history, CleanLiveRuns)

GateIInv == GateShape /\ LiveOwed /\ GateIsHistory /\ LiveEarned

------------------------------------------------------------------------------
(* What a history records, and its beginnings.                              *)

LEMMA RecordedIsNat ==
    ASSUME NEW h \in Seq(RunType), NEW W
    PROVE  Recorded(h, W) \in Nat /\ Recorded(h, W) <= Len(h)
<1> DEFINE S == {i \in DOMAIN h : h[i] \in W}
<1>1. IsFiniteSet(1 .. Len(h)) /\ Cardinality(1 .. Len(h)) = Len(h)
  <2>1. Len(h) \in Nat /\ 1 \in Int
    OBVIOUS
  <2>2. /\ IsFiniteSet(1 .. Len(h))
        /\ Cardinality(1 .. Len(h)) = IF 1 > Len(h) THEN 0 ELSE Len(h) - 1 + 1
    BY <2>1, FS_Interval
  <2> QED
    BY <2>1, <2>2
<1>2. S \subseteq 1 .. Len(h)
  OBVIOUS
<1> HIDE DEF S
<1>3. IsFiniteSet(S) /\ Cardinality(S) <= Cardinality(1 .. Len(h))
  BY <1>1, <1>2, FS_Subset
<1>4. Cardinality(S) \in Nat
  BY <1>3, FS_CardinalityType
<1> QED
  BY <1>1, <1>3, <1>4 DEF Recorded, S

LEMMA RecordedAppend ==
    ASSUME NEW h \in Seq(RunType), NEW r \in RunType, NEW W
    PROVE  Recorded(Append(h, r), W) = Recorded(h, W) + (IF r \in W THEN 1 ELSE 0)
<1> DEFINE S == {i \in DOMAIN h : h[i] \in W}
           g == Append(h, r)
           T == {i \in DOMAIN g : g[i] \in W}
           n == Len(h) + 1
<1>1. /\ DOMAIN h = 1 .. Len(h) /\ DOMAIN g = 1 .. n /\ g[n] = r
      /\ Len(h) \in Nat /\ \A i \in 1 .. Len(h) : g[i] = h[i]
  OBVIOUS
<1>2. n \notin S /\ T = IF r \in W THEN S \cup {n} ELSE S
  <2>1. \A i : i \in S <=> i \in 1 .. Len(h) /\ h[i] \in W
    BY <1>1
  <2>2. \A i : i \in T <=> i \in 1 .. n /\ g[i] \in W
    BY <1>1
  <2>3. \A i : i \in 1 .. n <=> i \in 1 .. Len(h) \/ i = n
    BY <1>1
  <2>4. n \notin 1 .. Len(h)
    BY <1>1
  <2>5. /\ g[n] = r /\ \A i \in 1 .. Len(h) : g[i] = h[i]
    BY <1>1
  <2> HIDE DEF S, T, n, g
  <2>6. n \notin S /\ (n \in T <=> r \in W)
    BY ONLY <2>1, <2>2, <2>3, <2>4, <2>5
  <2>7. \A i : i \in T <=> i \in S \/ (i = n /\ r \in W)
    BY ONLY <2>1, <2>2, <2>3, <2>4, <2>5
  <2> QED
    BY ONLY <2>6, <2>7
<1>3. IsFiniteSet(S)
  <2>1. S \subseteq 1 .. Len(h) /\ IsFiniteSet(1 .. Len(h))
    BY <1>1, FS_Interval
  <2> QED
    BY <2>1, FS_Subset
<1> HIDE DEF S, T, n
<1>4. Cardinality(S) \in Nat
  BY <1>3, FS_CardinalityType
<1>5. Cardinality(S \cup {n}) = Cardinality(S) + 1
  BY <1>2, <1>3, FS_AddElement
<1>6. Cardinality(T) = Cardinality(S) + (IF r \in W THEN 1 ELSE 0)
  BY <1>2, <1>4, <1>5
<1>7. Recorded(h, W) = Cardinality(S) /\ Recorded(g, W) = Cardinality(T)
  BY DEF Recorded, S, T
<1> QED
  BY <1>6, <1>7

LEMMA Beginning ==
    ASSUME NEW h \in Seq(RunType), NEW b \in 0 .. Len(h)
    PROVE  /\ SubSeq(h, 1, b) \in Seq(RunType) /\ Len(SubSeq(h, 1, b)) = b
           /\ \A i \in 1 .. b : SubSeq(h, 1, b)[i] = h[i]
<1>1. \A i \in 1 .. b : h[i] \in RunType
  OBVIOUS
<1>2. /\ SubSeq(h, 1, b) \in Seq(RunType)
      /\ Len(SubSeq(h, 1, b)) = IF 1 <= b THEN b - 1 + 1 ELSE 0
      /\ \A i \in 1 .. b - 1 + 1 : SubSeq(h, 1, b)[i] = h[1 + i - 1]
  BY <1>1, SubSeqProperties
<1> QED
  BY <1>2

LEMMA BeginningStays ==
    ASSUME NEW h \in Seq(RunType), NEW r \in RunType, NEW b \in 0 .. Len(h)
    PROVE  SubSeq(Append(h, r), 1, b) = SubSeq(h, 1, b)
<1> DEFINE g == Append(h, r)
<1>1. g \in Seq(RunType) /\ b \in 0 .. Len(g) /\ \A i \in 1 .. b : g[i] = h[i]
  OBVIOUS
<1> HIDE DEF g
<1>2. /\ SubSeq(g, 1, b) \in Seq(RunType) /\ Len(SubSeq(g, 1, b)) = b
      /\ \A i \in 1 .. b : SubSeq(g, 1, b)[i] = g[i]
  BY <1>1, Beginning
<1>3. /\ SubSeq(h, 1, b) \in Seq(RunType) /\ Len(SubSeq(h, 1, b)) = b
      /\ \A i \in 1 .. b : SubSeq(h, 1, b)[i] = h[i]
  BY Beginning
<1>4. SubSeq(g, 1, b) = SubSeq(h, 1, b)
  BY <1>1, <1>2, <1>3
<1> QED
  BY <1>4 DEF g

------------------------------------------------------------------------------
(* The steps of the gate, wherever the day's end is.                        *)

LEMMA GateFacts ==
    ASSUME GateIInv
    PROVE  /\ mode \in {"down", "paper", "live"} /\ ramped \in BOOLEAN
           /\ file \in FileType /\ Len(file.history) <= MaxRuns
           /\ file.history \in Seq(RunType) /\ Len(file.history) \in Nat
           /\ file.days \in Nat /\ file.streak \in Nat /\ file.live \in Nat
           /\ file = [days |-> file.days, streak |-> file.streak, live |-> file.live,
                      acknowledged |-> file.acknowledged, history |-> file.history,
                      parses |-> file.parses]
           /\ booted \in 0 .. Len(file.history)
           /\ eod \in [at : {"idle", "advance", "live", "report"}, clean : BOOLEAN]
           /\ eod.at = "advance" => Len(file.history) < MaxRuns
           /\ LiveOwed /\ GateIsHistory /\ LiveEarned
           /\ MinDays \in Nat /\ MinStreak \in Nat /\ RampDays \in Nat /\ MaxRuns \in Nat
<1>1. GateShape /\ LiveOwed /\ GateIsHistory /\ LiveEarned
  BY DEF GateIInv
<1>2. file \in FileType
  BY <1>1 DEF GateShape
<1>3. /\ file.history \in Seq(RunType) /\ Len(file.history) \in Nat
      /\ file.days \in Nat /\ file.streak \in Nat /\ file.live \in Nat
      /\ file = [days |-> file.days, streak |-> file.streak, live |-> file.live,
                 acknowledged |-> file.acknowledged, history |-> file.history,
                 parses |-> file.parses]
  BY <1>2 DEF FileType
<1> QED
  BY <1>1, <1>2, <1>3, GateAssumption DEF GateShape

\* A step after which the file says the same, whether it parses or not.
Says(f) == <<f.days, f.streak, f.live, f.history>>

LEMMA SameEvidence ==
    ASSUME GateIInv, file' \in FileType, Says(file') = Says(file), UNCHANGED booted,
           mode' = mode \/ mode' = "down", mode' = "live" => ramped' = ramped,
           ramped' \in BOOLEAN,
           eod' \in [at : {"idle", "advance", "live", "report"}, clean : BOOLEAN],
           eod'.at = "advance" => Len(file.history) < MaxRuns,
           eod'.at = "live" => eod' = eod
    PROVE  GateIInv'
<1>1. /\ file'.days = file.days /\ file'.streak = file.streak /\ file'.live = file.live
      /\ file'.history = file.history
  BY DEF Says
<1>2. GateShape'
  BY <1>1, GateFacts DEF GateShape
<1>3. LiveOwed'
  BY <1>1, GateFacts DEF LiveOwed
<1>4. GateIsHistory'
  BY <1>1, GateFacts DEF GateIsHistory
<1>5. LiveEarned'
  BY <1>1, GateFacts DEF LiveEarned
<1> QED
  BY <1>2, <1>3, <1>4, <1>5 DEF GateIInv

LEMMA AcknowledgeKeeps == GateIInv /\ Acknowledge => GateIInv'
<1> SUFFICES ASSUME GateIInv, Acknowledge
             PROVE  GateIInv'
  OBVIOUS
<1>1. /\ file' = [file EXCEPT !.acknowledged = TRUE]
      /\ UNCHANGED <<mode, ramped, eod, booted>>
  BY DEF Acknowledge
<1>2. file' \in FileType /\ Says(file') = Says(file)
  BY <1>1, GateFacts DEF FileType, Says
<1> QED
  BY <1>1, <1>2, GateFacts, SameEvidence

LEMMA ReconcileKeeps ==
    ASSUME GateIInv, NEW clean \in BOOLEAN, Reconcile(clean)
    PROVE  GateIInv'
<1>1. /\ Len(file.history) < MaxRuns /\ eod' = [at |-> "advance", clean |-> clean]
      /\ UNCHANGED <<mode, ramped, file, booted>>
  BY DEF Reconcile
<1>2. eod' \in [at : {"idle", "advance", "live", "report"}, clean : BOOLEAN] /\ eod'.at = "advance"
  BY <1>1
<1>3. file' \in FileType /\ Says(file') = Says(file)
  BY <1>1, GateFacts
<1> QED
  BY <1>1, <1>2, <1>3, GateFacts, SameEvidence

LEMMA IdleIsRun ==
    /\ NoRun \in [at : {"idle", "advance", "live", "report"}, clean : BOOLEAN]
    /\ NoRun.at = "idle"
BY DEF NoRun

LEMMA ReportKeeps == GateIInv /\ Report => GateIInv'
<1> SUFFICES ASSUME GateIInv, Report
             PROVE  GateIInv'
  OBVIOUS
<1>1. eod' = NoRun /\ UNCHANGED <<mode, ramped, file, booted>>
  BY DEF Report
<1>2. file' \in FileType /\ Says(file') = Says(file)
  BY <1>1, GateFacts
<1> QED
  BY <1>1, <1>2, IdleIsRun, GateFacts, SameEvidence

LEMMA LeftSaysTheSame ==
    ASSUME GateIInv, NEW f \in Left
    PROVE  f \in FileType /\ Says(f) = Says(file)
<1>1. f = file \/ f = [file EXCEPT !.parses = FALSE]
  BY DEF Left
<1> QED
  BY <1>1, GateFacts DEF FileType, Says

LEMMA AbandonKeeps == GateIInv /\ Abandon => GateIInv'
<1> SUFFICES ASSUME GateIInv, Abandon
             PROVE  GateIInv'
  OBVIOUS
<1>1. eod' = NoRun /\ file' \in Left /\ UNCHANGED <<mode, ramped, booted>>
  BY DEF Abandon
<1>2. file' \in FileType /\ Says(file') = Says(file)
  BY <1>1, LeftSaysTheSame
<1> QED
  BY <1>1, <1>2, IdleIsRun, GateFacts, SameEvidence

LEMMA DieKeeps == GateIInv /\ Die => GateIInv'
<1> SUFFICES ASSUME GateIInv, Die
             PROVE  GateIInv'
  OBVIOUS
<1>1. eod' = NoRun /\ file' \in Left /\ mode' = "down" /\ ramped' = FALSE /\ UNCHANGED booted
  BY DEF Die
<1>2. file' \in FileType /\ Says(file') = Says(file)
  BY <1>1, LeftSaysTheSame
<1> QED
  BY <1>1, <1>2, IdleIsRun, SameEvidence

\* A boot is granted on the whole of the history there is.
LEMMA BootKeeps ==
    ASSUME GateIInv, NEW m \in {"paper", "live"}, Boot(m)
    PROVE  GateIInv'
<1> DEFINE h == file.history
<1>1. /\ m = "live" => LiveAllowed
      /\ mode' = m /\ ramped' = (m = "live" /\ file.live < RampDays)
      /\ booted' = Len(h) /\ UNCHANGED <<file, eod>>
  BY DEF Boot
<1>2. GateShape'
  BY <1>1, GateFacts DEF GateShape
<1>3. LiveOwed' /\ GateIsHistory'
  BY <1>1, GateFacts DEF LiveOwed, GateIsHistory
<1>4. LiveEarned'
  <2> SUFFICES ASSUME m = "live"
               PROVE  LiveEarned'
    BY <1>1 DEF LiveEarned
  <2>1. SubSeq(h, 1, Len(h)) = h
    BY GateFacts, SubSeqFull
  <2>2. Recorded(h, CleanRuns) >= MinDays
    BY <1>1, GateFacts DEF LiveAllowed, GateIsHistory
  <2>3. \A i \in 1 .. Len(h) : i > Len(h) - MinStreak => h[i].clean
    <3>1. file.streak >= MinStreak
      BY <1>1 DEF LiveAllowed
    <3>2. \A i \in 1 .. Len(h) : h[i].clean \/ i <= Len(h) - file.streak
      BY GateFacts DEF GateIsHistory
    <3> QED
      BY <3>1, <3>2, GateFacts
  <2>4. ~ ramped' => Recorded(h, CleanLiveRuns) >= RampDays
    <3>1. Recorded(h, CleanLiveRuns) \in Nat
      BY GateFacts, RecordedIsNat
    <3>2. ~ ramped' => ~ (file.live < RampDays)
      BY <1>1
    <3>3. ~ (file.live < RampDays) => file.live >= RampDays
      BY GateFacts
    <3>4. file.live <= Recorded(h, CleanLiveRuns)
      BY GateFacts DEF GateIsHistory
    <3> QED
      BY <3>1, <3>2, <3>3, <3>4, GateFacts
  <2> HIDE DEF h
  <2>5. booted' = Len(h) /\ (file.history)' = h
    BY <1>1 DEF h
  <2> QED
    BY <2>1, <2>2, <2>3, <2>4, <2>5 DEF LiveEarned
<1> QED
  BY <1>2, <1>3, <1>4 DEF GateIInv

LEMMA CountLiveDayKeeps == GateIInv /\ CountLiveDay => GateIInv'
<1> SUFFICES ASSUME GateIInv, CountLiveDay
             PROVE  GateIInv'
  OBVIOUS
<1>1. /\ eod.at = "live" /\ file' = [file EXCEPT !.live = LiveDays]
      /\ eod' = [eod EXCEPT !.at = "report"]
      /\ UNCHANGED <<mode, ramped, booted>>
  BY DEF CountLiveDay
<1>2. LiveDays \in Nat /\ LiveDays <= Recorded(file.history, CleanLiveRuns)
  <2>1. Recorded(file.history, CleanLiveRuns) \in Nat
    BY GateFacts, RecordedIsNat
  <2> QED
    BY <1>1, <2>1, GateFacts DEF LiveDays, LiveOwed, GateIsHistory
<1>3. /\ file' \in FileType /\ file'.live = LiveDays /\ file'.history = file.history
      /\ file'.days = file.days /\ file'.streak = file.streak
  BY <1>1, <1>2, GateFacts DEF FileType
<1>4. /\ eod' \in [at : {"idle", "advance", "live", "report"}, clean : BOOLEAN]
      /\ eod'.at = "report"
  BY <1>1, GateFacts
<1>5. GateShape'
  BY <1>1, <1>3, <1>4, GateFacts DEF GateShape
<1>6. LiveOwed'
  BY <1>4 DEF LiveOwed
<1>7. GateIsHistory'
  BY <1>2, <1>3, GateFacts DEF GateIsHistory
<1>8. LiveEarned'
  BY <1>1, <1>3, GateFacts DEF LiveEarned
<1> QED
  BY <1>5, <1>6, <1>7, <1>8 DEF GateIInv

LEMMA AdvanceKeeps == GateIInv /\ Advance => GateIInv'
<1> SUFFICES ASSUME GateIInv, Advance
             PROVE  GateIInv'
  OBVIOUS
<1> DEFINE h == file.history
           r == [clean |-> eod.clean, live |-> mode = "live"]
           g == Append(h, r)
<1>1. /\ eod.at = "advance"
      /\ file' = [file EXCEPT !.days = IF eod.clean THEN file.days + 1 ELSE file.days,
                              !.streak = IF eod.clean THEN file.streak + 1 ELSE 0,
                              !.history = g]
      /\ eod' = [eod EXCEPT !.at = IF mode = "live" THEN "live" ELSE "report"]
      /\ UNCHANGED <<mode, ramped, booted>>
  BY DEF Advance, StreakLost
<1>2. r \in RunType /\ eod.clean \in BOOLEAN
  BY GateFacts DEF RunType
<1>3. /\ r.clean = eod.clean
      /\ r \in CleanRuns <=> eod.clean
      /\ r \in CleanLiveRuns <=> eod.clean /\ mode = "live"
  BY <1>2 DEF CleanRuns, CleanLiveRuns
<1>4. h \in Seq(RunType) /\ Len(h) \in Nat /\ Len(h) < MaxRuns
  BY <1>1, GateFacts
<1> HIDE DEF r, h
<1>5. /\ g \in Seq(RunType) /\ Len(g) = Len(h) + 1 /\ g[Len(h) + 1] = r
      /\ \A i \in 1 .. Len(h) : g[i] = h[i]
  BY <1>2, <1>4
<1>6. /\ Recorded(g, CleanRuns) = Recorded(h, CleanRuns) + (IF eod.clean THEN 1 ELSE 0)
      /\ Recorded(g, CleanLiveRuns) =
           Recorded(h, CleanLiveRuns) + (IF eod.clean /\ mode = "live" THEN 1 ELSE 0)
      /\ Recorded(h, CleanRuns) \in Nat /\ Recorded(h, CleanLiveRuns) \in Nat
  BY <1>2, <1>3, <1>4, RecordedAppend, RecordedIsNat
<1>7. SubSeq(g, 1, booted) = SubSeq(h, 1, booted)
  BY <1>2, <1>4, BeginningStays, GateFacts DEF h
<1> HIDE DEF g
<1>8. /\ file' \in FileType /\ file'.history = g /\ file'.live = file.live
      /\ file'.days = IF eod.clean THEN file.days + 1 ELSE file.days
      /\ file'.streak = IF eod.clean THEN file.streak + 1 ELSE 0
  <2> DEFINE days == IF eod.clean THEN file.days + 1 ELSE file.days
             streak == IF eod.clean THEN file.streak + 1 ELSE 0
  <2>1. days \in Nat /\ streak \in Nat
    BY <1>2, GateFacts
  <2>2. /\ file' = [file EXCEPT !.days = days, !.streak = streak, !.history = g]
        /\ file.acknowledged \in BOOLEAN /\ file.parses \in BOOLEAN
    BY <1>1, GateFacts DEF FileType
  <2> HIDE DEF days, streak
  <2>3. file' = [days |-> days, streak |-> streak, live |-> file.live,
                 acknowledged |-> file.acknowledged, history |-> g, parses |-> file.parses]
    BY <2>2, GateFacts
  <2>4. /\ file' \in FileType /\ file'.history = g /\ file'.live = file.live
        /\ file'.days = days /\ file'.streak = streak
    BY <1>5, <2>1, <2>2, <2>3, GateFacts DEF FileType
  <2> QED
    BY <2>4 DEF days, streak
<1>9. /\ eod' \in [at : {"idle", "advance", "live", "report"}, clean : BOOLEAN]
      /\ eod'.clean = eod.clean
      /\ eod'.at = IF mode = "live" THEN "live" ELSE "report"
  BY <1>1, GateFacts
<1>10. GateShape'
  <2>1. Len(g) <= MaxRuns /\ booted' \in 0 .. Len(g)
    BY <1>1, <1>4, <1>5, GateFacts DEF h
  <2> QED
    BY <1>1, <1>8, <1>9, <2>1, GateFacts DEF GateShape
<1>11. LiveOwed'
  BY <1>1, <1>6, <1>8, <1>9, GateFacts DEF LiveOwed, GateIsHistory, h
<1>12. GateIsHistory'
  <2>1. file'.days = Recorded(g, CleanRuns) /\ file'.live <= Recorded(g, CleanLiveRuns)
    BY <1>6, <1>8, GateFacts DEF GateIsHistory, h
  <2>2. /\ file.streak \in Nat /\ file.streak <= Len(h)
        /\ \A i \in 1 .. Len(h) : h[i].clean \/ i <= Len(h) - file.streak
        /\ file.streak < Len(h) => ~ h[Len(h) - file.streak].clean
    BY GateFacts DEF GateIsHistory, h
  <2>3. file'.streak <= Len(g)
    BY <1>4, <1>5, <1>8, <2>2
  <2>4. \A i \in 1 .. Len(g) : g[i].clean \/ i <= Len(g) - file'.streak
    BY <1>3, <1>4, <1>5, <1>8, <2>2
  <2>5. file'.streak < Len(g) => ~ g[Len(g) - file'.streak].clean
    <3>1. CASE eod.clean
      <4>1. file'.streak = file.streak + 1 /\ Len(g) - file'.streak = Len(h) - file.streak
        BY <1>4, <1>5, <1>8, <2>2, <3>1
      <4>2. file.streak < Len(h) => g[Len(h) - file.streak] = h[Len(h) - file.streak]
        BY <1>4, <1>5, <2>2
      <4> QED
        BY <1>4, <1>5, <2>2, <4>1, <4>2
    <3>2. CASE ~ eod.clean
      <4>1. Len(g) - file'.streak = Len(h) + 1
        BY <1>4, <1>5, <1>8, <3>2
      <4> QED
        BY <1>3, <1>5, <3>2, <4>1
    <3> QED
      BY <3>1, <3>2
  <2> QED
    BY <1>8, <2>1, <2>3, <2>4, <2>5 DEF GateIsHistory
<1>13. LiveEarned'
  BY <1>1, <1>7, <1>8, GateFacts DEF LiveEarned, h
<1> QED
  BY <1>10, <1>11, <1>12, <1>13 DEF GateIInv

------------------------------------------------------------------------------
(* The supervisor.                                                          *)

\* A worker that is not there any more while the monitor runs was started again
\* as often as it may be, stands in the events as given up and was, where an
\* alert_fn is wired, handed to it: only then is it forgotten.
NoneForgotten ==
    /\ monitor.at = "alert" => wired /\ restarts[Worker] = MaxRestarts
    /\ monitor.at # "down" =>
         \A w \in Names : task[w] = "none" => Noticed(w) /\ restarts[w] = MaxRestarts

SupervisorIInv == SupervisorTypeOK /\ NoneForgotten

Tasks   == [Names -> {"none", "running", "ended", "cancelling"}]
Notices == [Names -> {"none", "recorded", "alerted", "unheard"}]

LEMMA WorkerFacts ==
    /\ DOMAIN Workers = 1 .. Len(Workers) /\ Len(Workers) \in Nat /\ 1 \in DOMAIN Workers
    /\ \A i \in DOMAIN Workers : Workers[i] \in Names
    /\ MaxRestarts \in Nat
<1>1. Workers \in Seq(STRING) /\ Workers # <<>> /\ MaxRestarts \in Nat
  BY SupervisorAssumption
<1>2. DOMAIN Workers = 1 .. Len(Workers) /\ Len(Workers) \in Nat
  BY <1>1
<1>3. Len(Workers) # 0
  BY <1>1
<1> QED
  BY <1>1, <1>2, <1>3 DEF Names

MonitorType == [at : {"down", "sleep", "heartbeat", "alert"}, i : DOMAIN Workers]

LEMMA OnwardFacts ==
    ASSUME SupervisorIInv
    PROVE  /\ monitor \in MonitorType /\ Worker \in Names
           /\ Onward \in MonitorType /\ Onward.at # "alert"
<1>1. monitor \in MonitorType /\ stopping \in BOOLEAN
  BY DEF SupervisorIInv, SupervisorTypeOK, MonitorType
<1>2. monitor.i \in 1 .. Len(Workers) /\ Len(Workers) \in Nat
  BY <1>1, WorkerFacts DEF MonitorType
<1>3. CASE monitor.i < Len(Workers)
  <2>1. monitor.i + 1 \in DOMAIN Workers
    BY <1>2, <1>3, WorkerFacts
  <2>2. Onward = [at |-> "heartbeat", i |-> monitor.i + 1]
    BY <1>3 DEF Onward
  <2> QED
    BY <1>1, <1>2, <2>1, <2>2, WorkerFacts DEF MonitorType, Worker
<1>4. CASE ~ (monitor.i < Len(Workers))
  <2>1. Onward = [at |-> IF stopping THEN "down" ELSE "sleep", i |-> 1]
    BY <1>4 DEF Onward
  <2> QED
    BY <1>1, <1>2, <2>1, WorkerFacts DEF MonitorType, Worker
<1> QED
  BY <1>3, <1>4

LEMMA SupervisorFacts ==
    ASSUME SupervisorIInv
    PROVE  /\ wired \in BOOLEAN /\ task \in Tasks /\ notice \in Notices
           /\ restarts \in [Names -> 0 .. MaxRestarts] /\ stopping \in BOOLEAN
           /\ monitor \in MonitorType /\ awaited \subseteq Names
           /\ NoneForgotten
BY DEF SupervisorIInv, SupervisorTypeOK, MonitorType, Tasks, Notices

\* A step to a monitor that awaits no alert.
LEMMA MonitorMoves ==
    ASSUME SupervisorIInv, monitor' \in MonitorType, monitor'.at # "alert",
           wired' = wired, task' \in Tasks, notice' \in Notices,
           restarts' \in [Names -> 0 .. MaxRestarts], stopping' \in BOOLEAN,
           awaited' \subseteq Names,
           monitor'.at # "down" =>
             \A w \in Names : task'[w] = "none" => Noticed(w)' /\ restarts'[w] = MaxRestarts
    PROVE  SupervisorIInv'
BY SupervisorFacts DEF SupervisorIInv, SupervisorTypeOK, NoneForgotten, MonitorType, Tasks, Notices

\* A step of a task, which leaves the monitor where it is.
LEMMA TaskMoves ==
    ASSUME SupervisorIInv, UNCHANGED <<wired, monitor, restarts, notice>>,
           task' \in Tasks, stopping' \in BOOLEAN, awaited' \subseteq Names,
           \A w \in Names : task'[w] = "none" => task[w] = "none"
    PROVE  SupervisorIInv'
<1>1. SupervisorTypeOK'
  BY SupervisorFacts DEF SupervisorTypeOK, MonitorType, Tasks, Notices
<1>2. NoneForgotten'
  BY SupervisorFacts DEF NoneForgotten, Worker, Noticed
<1> QED
  BY <1>1, <1>2 DEF SupervisorIInv

LEMMA InspectKeeps ==
    ASSUME SupervisorIInv, Inspect
    PROVE  SupervisorIInv'
<1>1. monitor.at = "heartbeat" /\ UNCHANGED <<wired, stopping, awaited>>
  BY DEF Inspect
<1>2. \A w \in Names : task[w] = "none" => Noticed(w) /\ restarts[w] = MaxRestarts
  BY <1>1, SupervisorFacts DEF NoneForgotten
<1>3. CASE task[Worker] # "ended"
  <2>1. monitor' = Onward /\ UNCHANGED <<task, restarts, notice>>
    BY <1>3 DEF Inspect
  <2>2. \A w \in Names : task'[w] = "none" => Noticed(w)' /\ restarts'[w] = MaxRestarts
    BY <1>1, <1>2, <2>1 DEF Noticed
  <2> QED
    BY <1>1, <2>1, <2>2, OnwardFacts, SupervisorFacts, MonitorMoves
<1>4. CASE task[Worker] = "ended" /\ GivesUp(Worker)
  <2>1. /\ notice' = [notice EXCEPT ![Worker] = "recorded"] /\ UNCHANGED restarts
        /\ IF wired THEN monitor' = [monitor EXCEPT !.at = "alert"] /\ UNCHANGED task
           ELSE monitor' = Onward /\ task' = [task EXCEPT ![Worker] = "none"]
    BY <1>4 DEF Inspect, GiveUp
  <2>2. Worker \in Names /\ restarts[Worker] = MaxRestarts
    BY <1>4, OnwardFacts, SupervisorFacts, WorkerFacts DEF GivesUp
  <2>3. notice' \in Notices
    BY <2>1, SupervisorFacts DEF Notices
  <2>4. CASE wired
    <3>1. monitor' \in MonitorType /\ monitor'.i = monitor.i /\ monitor'.at = "alert"
      BY <2>1, <2>4, OnwardFacts DEF MonitorType
    <3>2. Worker' = Worker
      BY <3>1 DEF Worker
    <3>3. SupervisorTypeOK'
      BY <1>1, <2>1, <2>3, <2>4, <3>1, SupervisorFacts
         DEF SupervisorTypeOK, MonitorType, Tasks, Notices
    <3>4. \A w \in Names : task'[w] = "none" => Noticed(w)' /\ restarts'[w] = MaxRestarts
      <4> SUFFICES ASSUME NEW w \in Names, task'[w] = "none"
                   PROVE  Noticed(w)' /\ restarts'[w] = MaxRestarts
        OBVIOUS
      <4>1. w # Worker /\ task[w] = "none"
        BY <1>4, <2>1, <2>4
      <4>2. notice'[w] = notice[w]
        BY <2>1, <2>2, <4>1, SupervisorFacts DEF Notices
      <4> QED
        BY <1>1, <1>2, <2>1, <4>1, <4>2 DEF Noticed
    <3>5. NoneForgotten'
      BY <1>1, <2>1, <2>2, <2>4, <3>2, <3>4 DEF NoneForgotten
    <3> QED
      BY <3>3, <3>5 DEF SupervisorIInv
  <2>5. CASE ~ wired
    <3>1. monitor' = Onward /\ task' = [task EXCEPT ![Worker] = "none"] /\ task' \in Tasks
      BY <2>1, <2>5, SupervisorFacts DEF Tasks
    <3>2. \A w \in Names : task'[w] = "none" => Noticed(w)' /\ restarts'[w] = MaxRestarts
      <4> SUFFICES ASSUME NEW w \in Names, task'[w] = "none"
                   PROVE  Noticed(w)' /\ restarts'[w] = MaxRestarts
        OBVIOUS
      <4>1. CASE w = Worker
        <5>1. notice'[w] = "recorded"
          BY <2>1, <2>2, <4>1, SupervisorFacts DEF Notices
        <5> QED
          BY <1>1, <2>1, <2>2, <2>5, <4>1, <5>1 DEF Noticed
      <4>2. CASE w # Worker
        <5>1. notice'[w] = notice[w] /\ task[w] = "none"
          BY <2>1, <2>2, <3>1, <4>2, SupervisorFacts DEF Notices, Tasks
        <5> QED
          BY <1>1, <1>2, <2>1, <5>1 DEF Noticed
      <4> QED
        BY <4>1, <4>2
    <3> QED
      BY <1>1, <2>1, <2>3, <3>1, <3>2, OnwardFacts, SupervisorFacts, MonitorMoves
  <2> QED
    BY <2>4, <2>5
<1>5. CASE task[Worker] = "ended" /\ ~ GivesUp(Worker)
  <2>1. /\ task' = [task EXCEPT ![Worker] = "running"]
        /\ restarts' = [restarts EXCEPT ![Worker] = restarts[Worker] + 1]
        /\ monitor' = Onward /\ UNCHANGED notice
    BY <1>5 DEF Inspect, StartAgain
  <2>2. restarts[Worker] + 1 \in 0 .. MaxRestarts
    BY <1>5, OnwardFacts, SupervisorFacts, WorkerFacts DEF GivesUp
  <2>3. task' \in Tasks /\ restarts' \in [Names -> 0 .. MaxRestarts]
    BY <2>1, <2>2, OnwardFacts, SupervisorFacts DEF Tasks
  <2>4. \A w \in Names : task'[w] = "none" => Noticed(w)' /\ restarts'[w] = MaxRestarts
    <3> SUFFICES ASSUME NEW w \in Names, task'[w] = "none"
                 PROVE  Noticed(w)' /\ restarts'[w] = MaxRestarts
      OBVIOUS
    <3>1. w # Worker /\ task[w] = "none" /\ restarts'[w] = restarts[w]
      BY <2>1, OnwardFacts, SupervisorFacts DEF Tasks
    <3> QED
      BY <1>1, <1>2, <2>1, <3>1 DEF Noticed
  <2> QED
    BY <1>1, <2>1, <2>3, <2>4, OnwardFacts, SupervisorFacts, MonitorMoves
<1> QED
  BY <1>3, <1>4, <1>5

LEMMA AlertedKeeps ==
    ASSUME SupervisorIInv, Alerted
    PROVE  SupervisorIInv'
<1>1. PICK outcome \in {"alerted", "unheard"} : notice' = [notice EXCEPT ![Worker] = outcome]
  BY DEF Alerted
<1>2. /\ monitor.at = "alert" /\ task' = [task EXCEPT ![Worker] = "none"]
      /\ monitor' = Onward /\ UNCHANGED <<wired, restarts, stopping, awaited>>
  BY DEF Alerted
<1>3. /\ wired /\ restarts[Worker] = MaxRestarts
      /\ \A w \in Names : task[w] = "none" => Noticed(w) /\ restarts[w] = MaxRestarts
  BY <1>2, SupervisorFacts DEF NoneForgotten
<1>4. Worker \in Names /\ task' \in Tasks /\ notice' \in Notices
  BY <1>1, <1>2, OnwardFacts, SupervisorFacts DEF Tasks, Notices
<1>5. \A w \in Names : task'[w] = "none" => Noticed(w)' /\ restarts'[w] = MaxRestarts
  <2> SUFFICES ASSUME NEW w \in Names, task'[w] = "none"
               PROVE  Noticed(w)' /\ restarts'[w] = MaxRestarts
    OBVIOUS
  <2>1. CASE w = Worker
    <3>1. notice'[w] = outcome
      BY <1>1, <1>4, <2>1, SupervisorFacts DEF Notices
    <3> QED
      BY <1>1, <1>2, <1>3, <2>1, <3>1 DEF Noticed
  <2>2. CASE w # Worker
    <3>1. notice'[w] = notice[w] /\ task[w] = "none"
      BY <1>1, <1>2, <1>4, <2>2, SupervisorFacts DEF Notices, Tasks
    <3> QED
      BY <1>2, <1>3, <3>1 DEF Noticed
  <2> QED
    BY <2>1, <2>2
<1> QED
  BY <1>2, <1>4, <1>5, OnwardFacts, SupervisorFacts, MonitorMoves

LEMMA SuperviseKeeps ==
    ASSUME SupervisorIInv, Wake \/ Inspect \/ Alerted
    PROVE  SupervisorIInv'
<1>1. CASE Wake
  <2>1. /\ monitor' = [at |-> "heartbeat", i |-> 1] /\ monitor.at # "down"
        /\ UNCHANGED <<wired, task, restarts, stopping, awaited, notice>>
    BY <1>1 DEF Wake
  <2>2. monitor' \in MonitorType /\ monitor'.at # "alert"
    BY <2>1, WorkerFacts DEF MonitorType
  <2>3. \A w \in Names : task'[w] = "none" => Noticed(w)' /\ restarts'[w] = MaxRestarts
    BY <2>1, SupervisorFacts DEF NoneForgotten, Noticed
  <2> QED
    BY <2>1, <2>2, <2>3, SupervisorFacts, MonitorMoves
<1> QED
  BY <1>1, InspectKeeps, AlertedKeeps

LEMMA TasksKeep ==
    ASSUME SupervisorIInv, NEW w \in Names, WorkerEnds(w) \/ Cancelled(w)
    PROVE  SupervisorIInv'
<1>1. /\ task' = [task EXCEPT ![w] = "ended"]
      /\ awaited' = awaited \/ awaited' = awaited \ {w}
      /\ UNCHANGED <<wired, restarts, monitor, stopping, notice>>
  BY DEF WorkerEnds, Cancelled
<1>2. /\ task' \in Tasks /\ awaited' \subseteq Names
      /\ \A v \in Names : task'[v] = "none" => task[v] = "none"
  BY <1>1, SupervisorFacts DEF Tasks
<1> QED
  BY <1>1, <1>2, SupervisorFacts, TaskMoves

LEMMA ShutdownKeeps ==
    ASSUME SupervisorIInv, Shutdown
    PROVE  SupervisorIInv'
<1>1. /\ stopping' = TRUE
      /\ task' = [w \in Names |-> IF task[w] = "running" THEN "cancelling" ELSE task[w]]
      /\ awaited' = {w \in Names : task[w] = "running"}
      /\ UNCHANGED <<wired, restarts, monitor, notice>>
  BY DEF Shutdown
<1>2. /\ task' \in Tasks /\ awaited' \subseteq Names
      /\ \A w \in Names : task'[w] = "none" => task[w] = "none"
  BY <1>1, SupervisorFacts DEF Tasks
<1> QED
  BY <1>1, <1>2, SupervisorFacts, TaskMoves

LEMMA RunKeeps ==
    ASSUME SupervisorIInv, Run
    PROVE  SupervisorIInv'
<1>1. /\ task' = [w \in Names |-> "running"] /\ monitor' = [at |-> "sleep", i |-> 1]
      /\ UNCHANGED <<wired, restarts, stopping, awaited, notice>>
  BY DEF Run
<1>2. /\ monitor' \in MonitorType /\ monitor'.at # "alert" /\ task' \in Tasks
      /\ \A w \in Names : task'[w] # "none"
  BY <1>1, WorkerFacts DEF MonitorType, Tasks
<1> QED
  BY <1>1, <1>2, SupervisorFacts, MonitorMoves

LEMMA ProcessDiesKeeps ==
    ASSUME SupervisorIInv, ProcessDies
    PROVE  SupervisorIInv'
<1>1. /\ task' = [w \in Names |-> "none"] /\ restarts' = [w \in Names |-> 0]
      /\ monitor' = [at |-> "down", i |-> 1] /\ stopping' = FALSE /\ awaited' = {}
      /\ notice' = [w \in Names |-> "none"] /\ wired' = wired
  BY DEF ProcessDies
<1>2. /\ monitor' \in MonitorType /\ monitor'.at = "down"
      /\ task' \in Tasks /\ notice' \in Notices
      /\ restarts' \in [Names -> 0 .. MaxRestarts]
  BY <1>1, WorkerFacts DEF MonitorType, Tasks, Notices
<1> QED
  BY <1>1, <1>2, MonitorMoves

------------------------------------------------------------------------------
(* The process.                                                             *)

OpsIInv == SupervisorIInv /\ GateIInv

LEMMA OpsInitially == OpsInit => OpsIInv
<1> SUFFICES ASSUME OpsInit
             PROVE  OpsIInv
  OBVIOUS
<1>1. SupervisorIInv
  <2>1. monitor \in MonitorType /\ monitor.at = "down"
    BY WorkerFacts DEF OpsInit, SupervisorInit, MonitorType
  <2>2. /\ wired \in BOOLEAN /\ task \in Tasks /\ notice \in Notices
        /\ restarts \in [Names -> 0 .. MaxRestarts] /\ stopping \in BOOLEAN
        /\ awaited \subseteq Names
    <3>1. /\ task = [w \in Names |-> "none"] /\ restarts = [w \in Names |-> 0]
          /\ stopping = FALSE /\ awaited = {} /\ notice = [w \in Names |-> "none"]
          /\ wired \in BOOLEAN
      BY DEF OpsInit, SupervisorInit
    <3>2. 0 \in 0 .. MaxRestarts
      BY WorkerFacts
    <3> QED
      BY <3>1, <3>2 DEF Tasks, Notices
  <2> QED
    BY <2>1, <2>2
       DEF SupervisorIInv, SupervisorTypeOK, NoneForgotten, MonitorType, Tasks, Notices
<1>2. /\ mode = "down" /\ ramped = FALSE /\ booted = 0 /\ eod = NoRun
      /\ file = [days |-> 0, streak |-> 0, live |-> 0, acknowledged |-> FALSE,
                 history |-> <<>>, parses |-> TRUE]
  BY DEF OpsInit, GateInit
<1>3. /\ file.history = <<>> /\ file.days = 0 /\ file.streak = 0 /\ file.live = 0
      /\ <<>> \in Seq(RunType) /\ Len(<<>>) = 0
  BY <1>2
<1>4. GateShape
  <2>1. MaxRuns \in Nat
    BY GateAssumption
  <2>2. file \in FileType
    BY <1>2, <1>3 DEF FileType
  <2>3. Len(file.history) = 0
    BY <1>3
  <2>4. Len(file.history) <= MaxRuns /\ booted \in 0 .. Len(file.history)
    BY <1>2, <2>1, <2>3
  <2>5. /\ eod \in [at : {"idle", "advance", "live", "report"}, clean : BOOLEAN]
        /\ eod.at # "advance"
    BY <1>2, IdleIsRun
  <2> QED
    BY <1>2, <2>2, <2>4, <2>5 DEF GateShape
<1>5. \A W : Recorded(<<>>, W) = 0
  <2> SUFFICES ASSUME NEW W
               PROVE  Recorded(<<>>, W) = 0
    OBVIOUS
  <2>1. Recorded(<<>>, W) \in Nat /\ Recorded(<<>>, W) <= Len(<<>>)
    BY <1>3, RecordedIsNat
  <2> QED
    BY <1>3, <2>1
<1>6. LiveOwed /\ GateIsHistory /\ LiveEarned
  BY <1>2, <1>3, <1>5, IdleIsRun DEF LiveOwed, GateIsHistory, LiveEarned
<1> QED
  BY <1>1, <1>4, <1>6 DEF OpsIInv, GateIInv

LEMMA GateStays ==
    ASSUME GateIInv, UNCHANGED gateVars
    PROVE  GateIInv'
<1>1. UNCHANGED <<mode, ramped, file, eod, booted>>
  BY DEF gateVars
<1> QED
  BY <1>1, GateFacts, SameEvidence DEF Says

LEMMA SupervisorStays ==
    ASSUME SupervisorIInv, UNCHANGED supervisorVars
    PROVE  SupervisorIInv'
<1>1. UNCHANGED <<wired, task, restarts, monitor, stopping, awaited, notice>>
  BY DEF supervisorVars
<1> QED
  BY <1>1, SupervisorFacts, TaskMoves

LEMMA OpsSteps == OpsIInv /\ [OpsNext]_opsVars => OpsIInv'
<1> SUFFICES ASSUME SupervisorIInv, GateIInv, [OpsNext]_opsVars
             PROVE  SupervisorIInv' /\ GateIInv'
  BY DEF OpsIInv
<1>1. CASE EodStep
  BY <1>1, SupervisorStays, ReconcileKeeps, AdvanceKeeps, CountLiveDayKeeps, ReportKeeps
     DEF EodStep
<1>2. CASE Supervise
  BY <1>2, SuperviseKeeps, GateStays DEF Supervise
<1>3. CASE ProcessDies
  BY <1>3, ProcessDiesKeeps, DieKeeps DEF ProcessDies
<1>4. ASSUME NEW m \in {"paper", "live"}, BootUp(m)
      PROVE  SupervisorIInv' /\ GateIInv'
  BY <1>4, RunKeeps, BootKeeps DEF BootUp
<1>5. CASE Shutdown /\ UNCHANGED gateVars
  BY <1>5, ShutdownKeeps, GateStays
<1>6. ASSUME NEW w \in Names, Fails(w) \/ Stops(w)
      PROVE  SupervisorIInv' /\ GateIInv'
  BY <1>6, TasksKeep, AbandonKeeps, GateStays DEF Fails, Stops, Leaves
<1>7. CASE Acknowledge /\ UNCHANGED supervisorVars
  BY <1>7, AcknowledgeKeeps, SupervisorStays
<1>8. CASE UNCHANGED opsVars
  BY <1>8, GateStays, SupervisorStays DEF opsVars
<1> QED
  BY <1>1, <1>2, <1>3, <1>4, <1>5, <1>6, <1>7, <1>8 DEF OpsNext

\* The invariant the others rest on, over every point at which run_eod, its
\* worker or the process may be cut off (eod_worker.py, app.py).
THEOREM OpsInvariance == OpsSpec => []OpsIInv
<1> QED
  BY OpsInitially, OpsSteps, PTL DEF OpsSpec

\* The types of the gate file, the run of the day's end, the tasks, the
\* restart counts and the monitor.
THEOREM OpsTypeCorrect == OpsSpec => [](GateTypeOK /\ SupervisorTypeOK)
<1>1. OpsIInv => GateTypeOK /\ SupervisorTypeOK
  <2> SUFFICES ASSUME OpsIInv
               PROVE  GateTypeOK /\ SupervisorTypeOK
    OBVIOUS
  <2>1. GateIInv /\ SupervisorTypeOK
    BY DEF OpsIInv, SupervisorIInv
  <2> DEFINE h == file.history
  <2>2. /\ Recorded(h, CleanRuns) \in Nat /\ Recorded(h, CleanRuns) <= Len(h)
        /\ Recorded(h, CleanLiveRuns) \in Nat /\ Recorded(h, CleanLiveRuns) <= Len(h)
    BY <2>1, GateFacts, RecordedIsNat
  <2>3. /\ file.days = Recorded(h, CleanRuns) /\ file.streak <= Len(h)
        /\ file.live <= Recorded(h, CleanLiveRuns)
    BY <2>1, GateFacts DEF GateIsHistory
  <2>4. /\ file.days \in 0 .. MaxRuns /\ file.streak \in 0 .. MaxRuns
        /\ file.live \in 0 .. MaxRuns /\ booted \in 0 .. MaxRuns
    BY <2>1, <2>2, <2>3, GateFacts
  <2> QED
    BY <2>1, <2>4, GateFacts DEF GateTypeOK, RunType
<1> QED
  BY <1>1, OpsInvariance, PTL

\* The gate's counters say what its history says, for any number of runs, each
\* of them cut off anywhere (paper_report.py:6).
THEOREM EvidenceIsStrict == OpsSpec => []GateIsHistory
<1>1. OpsIInv => GateIsHistory
  BY DEF OpsIInv, GateIInv
<1> QED
  BY <1>1, OpsInvariance, PTL

\* Whatever the thresholds, a live process was booted on the evidence they ask
\* for, and beyond the ramp on as many clean live days (app.py:48, runtime.py:9).
THEOREM LiveIsEarned == OpsSpec => []LiveEarned
<1>1. OpsIInv => LiveEarned
  BY DEF OpsIInv, GateIInv
<1> QED
  BY <1>1, OpsInvariance, PTL

\* The safety half of DeathNoticed: the monitor forgets no worker before it has
\* been started again as often as it may be, stands in the events as given up and
\* was handed to the alert_fn, where one is wired, for any number of workers and
\* restarts (app.py:121-130).
THEOREM NoneDroppedUnrecorded == OpsSpec => []NoneForgotten
<1>1. OpsIInv => NoneForgotten
  BY DEF OpsIInv, SupervisorIInv
<1> QED
  BY <1>1, OpsInvariance, PTL

------------------------------------------------------------------------------
(* LiveFeed: for any symbols, calendar of open markets and provider. Who    *)
(* waits keeps its place before those that were asked since (LineUp), and   *)
(* the edges of a symbol are bounded by the date of its last bar (Bars).    *)

Phases ==
    /\ phase \in {"loading", "asking"} => ~ degraded
    /\ phase = "probing" => degraded
    /\ phase = "loading" => ~ loaded

\* The symbols in line are different, and whoever was asked while one waited is
\* behind it.
LineUp ==
    /\ \A i, j \in DOMAIN rr : rr[i] = rr[j] => i = j
    /\ ~ batched => \A i, j \in DOMAIN rr : rr[j] \in since[rr[i]] => i < j

\* A day has one bar, its edges are as many as the bars after the first.
Bars ==
    \A s \in Symbols :
        /\ daily[s] = <<>> => completed[s] = 0
        /\ daily[s] # <<>> => completed[s] <= Last(daily[s])
        /\ ~ loaded => daily[s] = <<>>

FeedIInv ==
    /\ FeedTypeOK /\ Phases /\ LineUp /\ Bars
    /\ TicksMeetTheirCandles /\ OneEdgePerDay

------------------------------------------------------------------------------
(* The constants, the days and the line of symbols.                         *)

N == Len(SymbolList)

LEMMA FeedConstants ==
    /\ SymbolList \in Seq(Symbols) /\ N \in Nat /\ N > 0 /\ DOMAIN SymbolList = 1 .. N
    /\ \A s \in Symbols : \E i \in 1 .. N : SymbolList[i] = s
    /\ PerDay \in Nat \ {0} /\ MaxTime \in Nat /\ MaxErrors \in Nat
    /\ \A b \in 0 .. MaxTime : OpenAt[b] \subseteq Symbols
BY FeedAssumption DEF N, Symbols, ToSet

LEMMA SymbolsDiffer == \A i, j \in 1 .. N : SymbolList[i] = SymbolList[j] => i = j
<1>1. SymbolList \in Surjection(1 .. N, Symbols)
  <2>1. SymbolList \in [1 .. N -> Symbols]
    BY FeedConstants DEF N
  <2> QED
    BY <2>1, FeedConstants DEF Surjection
<1>2. IsFiniteSet(1 .. N) /\ Cardinality(1 .. N) = N
  <2>1. IsFiniteSet(1 .. N) /\ Cardinality(1 .. N) = IF 1 > N THEN 0 ELSE N - 1 + 1
    BY FeedConstants, FS_Interval
  <2> QED
    BY <2>1, FeedConstants
<1>3. Cardinality(1 .. N) = Cardinality(Symbols)
  BY <1>2, FeedAssumption DEF N
<1>4. SymbolList \in Injection(1 .. N, Symbols)
  BY <1>1, <1>2, <1>3, FS_SurjSameCardinalityImpliesInj
<1> QED
  BY <1>4, FeedConstants DEF Injection, IsInjective

LEMMA SymbolsFinite == IsFiniteSet(Symbols)
<1>1. SymbolList \in Surjection(1 .. N, Symbols)
  <2>1. SymbolList \in [1 .. N -> Symbols]
    BY FeedConstants DEF N
  <2> QED
    BY <2>1, FeedConstants DEF Surjection
<1> QED
  BY <1>1, FeedConstants, FS_Interval, FS_Surjection

LEMMA DatesGrow ==
    ASSUME NEW a \in Nat, NEW b \in Nat, a <= b
    PROVE  Date(a) \in Nat /\ Date(b) \in Nat /\ Date(a) <= Date(b)
<1> DEFINE p == PerDay
<1>1. p \in Nat \ {0}
  BY FeedConstants
<1> DEFINE q == a \div p
           r == b \div p
<1>2. q \in Nat /\ r \in Nat
  BY <1>1
<1>3. p * q <= a /\ a < p * (q + 1)
  BY <1>1
<1>4. p * r <= b /\ b < p * (r + 1)
  BY <1>1
<1>5. q <= r
  <2> SUFFICES ASSUME q >= r + 1
               PROVE  FALSE
    BY <1>2
  <2> HIDE DEF p, q, r
  <2>1. p * q >= p * (r + 1)
    BY <1>1, <1>2
  <2>2. p * q \in Nat /\ p * (r + 1) \in Nat
    BY <1>1, <1>2
  <2> QED
    BY <1>3, <1>4, <2>1, <2>2
<1> QED
  BY <1>2, <1>5 DEF Date

FeedTypes ==
    /\ batched \in BOOLEAN /\ gapOver \in BOOLEAN
    /\ degraded \in BOOLEAN /\ loaded \in BOOLEAN
    /\ t \in 0 .. MaxTime /\ at \in 0 .. t /\ weather \in Weathers
    /\ phase \in {"idle", "loading", "asking", "probing"}
    /\ asked \subseteq Symbols /\ out \subseteq Symbols /\ errors \in Nat
    /\ candle \in [Symbols -> -1 .. MaxTime] /\ rcandle \in [Symbols -> -1 .. MaxTime]
    /\ DOMAIN daily = Symbols /\ \A s \in Symbols : daily[s] \in Seq(Nat)
    /\ completed \in [Symbols -> Nat] /\ since \in [Symbols -> SUBSET Symbols]

\* rr is the list of symbols in another order.
Line(list) ==
    /\ list \in Seq(Symbols) /\ Len(list) = N /\ DOMAIN list = 1 .. N
    /\ \A i \in 1 .. N : list[i] \in Symbols
    /\ \A s \in Symbols : \E i \in 1 .. N : list[i] = s
    /\ \A i, j \in 1 .. N : list[i] = list[j] => i = j

LEMMA FeedFacts ==
    ASSUME FeedIInv
    PROVE  /\ FeedTypes /\ Line(rr) /\ Phases /\ LineUp /\ Bars
           /\ TicksMeetTheirCandles /\ OneEdgePerDay
           /\ t \in Nat /\ at \in Nat /\ at <= t /\ t <= MaxTime /\ at \in 0 .. MaxTime
<1>1. FeedTypeOK /\ Phases /\ LineUp /\ Bars /\ TicksMeetTheirCandles /\ OneEdgePerDay
  BY DEF FeedIInv
<1>2. FeedTypes
  BY <1>1 DEF FeedTypeOK, FeedTypes
<1>3. rr \in Seq(Symbols) /\ ToSet(rr) = Symbols /\ Len(rr) = N
  BY <1>1 DEF FeedTypeOK, N
<1>4. Line(rr)
  BY <1>1, <1>3 DEF Line, LineUp, ToSet
<1>5. t \in Nat /\ at \in Nat /\ at <= t /\ t <= MaxTime /\ at \in 0 .. MaxTime
  BY <1>2, FeedConstants DEF FeedTypes
<1> QED
  BY <1>1, <1>2, <1>4, <1>5

LEMMA TypesFromParts == FeedTypes /\ Line(rr) => FeedTypeOK
<1> SUFFICES ASSUME FeedTypes, Line(rr)
             PROVE  FeedTypeOK
  OBVIOUS
<1>1. ToSet(rr) = Symbols
  <2>1. ToSet(rr) = {rr[i] : i \in 1 .. N}
    BY DEF Line, ToSet
  <2> QED
    BY <2>1 DEF Line
<1>2. rr \in Seq(Symbols) /\ Len(rr) = Len(SymbolList)
  BY DEF Line, N
<1> QED
  BY <1>1, <1>2 DEF FeedTypes, FeedTypeOK

\* A market that is open has a first one in line.
LEMMA FirstOpenFacts ==
    ASSUME FeedIInv, NEW b \in 0 .. MaxTime, OpenAt[b] # {}
    PROVE  /\ FirstOpen(b) \in 1 .. N /\ rr[FirstOpen(b)] \in OpenAt[b]
           /\ \A j \in 1 .. N : j < FirstOpen(b) => rr[j] \notin OpenAt[b]
<1> DEFINE R     == OpToRel(<, Nat)
           Spots == {i \in 1 .. N : rr[i] \in OpenAt[b]}
<1>1. Line(rr) /\ OpenAt[b] \subseteq Symbols /\ N \in Nat
  BY FeedFacts, FeedConstants
<1>2. Spots # {} /\ Spots \subseteq Nat
  BY <1>1 DEF Line
<1>3. IsWellFoundedOn(R, Nat)
  BY NatLessThanWellFounded
<1>4. R = {x \in Nat \X Nat : x[1] < x[2]}
  BY DEF OpToRel
<1> HIDE DEF Spots, R
<1>5. PICK i \in Spots : \A j \in Spots : ~ (<<j, i>> \in R)
  BY <1>2, <1>3, WFMin
<1>6. i \in 1 .. N /\ rr[i] \in OpenAt[b]
  BY <1>5 DEF Spots
<1>7. \A j \in 1 .. N : j < i => rr[j] \notin OpenAt[b]
  <2> SUFFICES ASSUME NEW j \in 1 .. N, j < i, rr[j] \in OpenAt[b]
               PROVE  FALSE
    OBVIOUS
  <2>1. j \in Spots
    BY DEF Spots
  <2>2. <<j, i>> \in R
    BY <1>2, <1>4, <1>5, <2>1
  <2> QED
    BY <1>5, <2>1, <2>2
<1>8. Len(rr) = N
  BY <1>1 DEF Line
<1>9. \E k \in 1 .. Len(rr) :
         rr[k] \in OpenAt[b] /\ \A j \in 1 .. (k - 1) : rr[j] \notin OpenAt[b]
  <2>1. \A j \in 1 .. (i - 1) : j \in 1 .. N /\ j < i
    BY <1>1, <1>6
  <2> QED
    BY <1>6, <1>7, <1>8, <2>1
<1>10. /\ FirstOpen(b) \in 1 .. Len(rr) /\ rr[FirstOpen(b)] \in OpenAt[b]
       /\ \A j \in 1 .. (FirstOpen(b) - 1) : rr[j] \notin OpenAt[b]
  BY <1>9 DEF FirstOpen
<1> HIDE DEF FirstOpen
<1>11. \A j \in 1 .. N : j < FirstOpen(b) => j \in 1 .. (FirstOpen(b) - 1)
  BY <1>1, <1>8, <1>10
<1> QED
  BY <1>8, <1>10, <1>11

\* Turning the line past its i-th symbol.
LEMMA TurnedFacts ==
    ASSUME NEW list, Line(list), NEW i \in 1 .. N
    PROVE  LET new == SubSeq(list, i + 1, N) \o SubSeq(list, 1, i)
           IN  /\ new \in Seq(Symbols) /\ Len(new) = N
               /\ \A k \in 1 .. N - i : new[k] = list[k + i]
               /\ \A k \in N - i + 1 .. N : new[k] = list[k - (N - i)]
<1> DEFINE a == SubSeq(list, i + 1, N)
           z == SubSeq(list, 1, i)
<1>1. N \in Nat /\ i \in Nat /\ 1 <= i /\ i <= N
  BY FeedConstants
<1>2. \A k \in 1 .. N : list[k] \in Symbols
  BY DEF Line
<1>3. /\ a \in Seq(Symbols) /\ Len(a) = N - i
      /\ \A k \in 1 .. N - i : a[k] = list[k + i]
  <2>1. \A k \in i + 1 .. N : list[k] \in Symbols
    BY <1>1, <1>2
  <2>2. /\ a \in Seq(Symbols) /\ Len(a) = IF i + 1 <= N THEN N - (i + 1) + 1 ELSE 0
        /\ \A k \in 1 .. N - (i + 1) + 1 : a[k] = list[(i + 1) + k - 1]
    BY <1>1, <2>1, SubSeqProperties
  <2> QED
    BY <1>1, <2>2
<1>4. /\ z \in Seq(Symbols) /\ Len(z) = i
      /\ \A k \in 1 .. i : z[k] = list[k]
  <2>1. \A k \in 1 .. i : list[k] \in Symbols
    BY <1>1, <1>2
  <2>2. /\ z \in Seq(Symbols) /\ Len(z) = IF 1 <= i THEN i - 1 + 1 ELSE 0
        /\ \A k \in 1 .. i - 1 + 1 : z[k] = list[1 + k - 1]
    BY <1>1, <2>1, SubSeqProperties
  <2> QED
    BY <1>1, <2>2
<1> HIDE DEF a, z
<1>5. /\ a \o z \in Seq(Symbols) /\ Len(a \o z) = Len(a) + Len(z)
      /\ \A k \in 1 .. Len(a) + Len(z) :
           (a \o z)[k] = IF k <= Len(a) THEN a[k] ELSE z[k - Len(a)]
  BY <1>3, <1>4, ConcatProperties
<1>6. \A k \in 1 .. N - i : (a \o z)[k] = list[k + i]
  BY <1>1, <1>3, <1>4, <1>5
<1>7. \A k \in N - i + 1 .. N : (a \o z)[k] = list[k - (N - i)]
  BY <1>1, <1>3, <1>4, <1>5
<1>8. a \o z \in Seq(Symbols) /\ Len(a \o z) = N
  BY <1>1, <1>3, <1>4, <1>5
<1> QED
  BY <1>6, <1>7, <1>8 DEF a, z

\* The place, in the line that was turned past its i-th symbol, of the k-th.
Place(k, i) == IF k > i THEN k - i ELSE k + (N - i)

LEMMA TurnedPlaces ==
    ASSUME NEW list, Line(list), NEW i \in 1 .. N
    PROVE  LET new == SubSeq(list, i + 1, N) \o SubSeq(list, 1, i)
           IN  /\ Line(new)
               /\ \A k \in 1 .. N : Place(k, i) \in 1 .. N /\ new[Place(k, i)] = list[k]
<1> DEFINE new == SubSeq(list, i + 1, N) \o SubSeq(list, 1, i)
<1>1. N \in Nat /\ i \in Nat /\ 1 <= i /\ i <= N
  BY FeedConstants
<1>2. /\ new \in Seq(Symbols) /\ Len(new) = N
      /\ \A k \in 1 .. N - i : new[k] = list[k + i]
      /\ \A k \in N - i + 1 .. N : new[k] = list[k - (N - i)]
  BY TurnedFacts
<1>3. /\ \A k \in 1 .. N : list[k] \in Symbols
      /\ \A s \in Symbols : \E k \in 1 .. N : list[k] = s
      /\ \A k, l \in 1 .. N : list[k] = list[l] => k = l
  BY DEF Line
<1> HIDE DEF new
<1>4. \A k \in 1 .. N : Place(k, i) \in 1 .. N /\ new[Place(k, i)] = list[k]
  <2> SUFFICES ASSUME NEW k \in 1 .. N
               PROVE  Place(k, i) \in 1 .. N /\ new[Place(k, i)] = list[k]
    OBVIOUS
  <2>1. CASE k > i
    <3>1. Place(k, i) = k - i /\ k - i \in 1 .. N - i /\ k - i \in 1 .. N /\ (k - i) + i = k
      BY <1>1, <2>1 DEF Place
    <3>2. new[k - i] = list[(k - i) + i]
      BY <1>2, <3>1
    <3> QED
      BY <3>1, <3>2
  <2>2. CASE ~ (k > i)
    <3>1. /\ Place(k, i) = k + (N - i) /\ k + (N - i) \in N - i + 1 .. N
          /\ k + (N - i) \in 1 .. N /\ k + (N - i) - (N - i) = k
      BY <1>1, <2>2 DEF Place
    <3>2. new[k + (N - i)] = list[k + (N - i) - (N - i)]
      BY <1>2, <3>1
    <3> QED
      BY <3>1, <3>2
  <2> QED
    BY <2>1, <2>2
<1>5. \A k \in 1 .. N : \E l \in 1 .. N : Place(l, i) = k
  <2> SUFFICES ASSUME NEW k \in 1 .. N
               PROVE  \E l \in 1 .. N : Place(l, i) = k
    OBVIOUS
  <2>1. CASE k <= N - i
    <3>1. k + i \in 1 .. N /\ Place(k + i, i) = k
      BY <1>1, <2>1 DEF Place
    <3> QED
      BY <3>1
  <2>2. CASE ~ (k <= N - i)
    <3>1. k - (N - i) \in 1 .. N /\ Place(k - (N - i), i) = k
      BY <1>1, <2>2 DEF Place
    <3> QED
      BY <3>1
  <2> QED
    BY <2>1, <2>2
<1>6. \A k \in 1 .. N : new[k] \in Symbols
  BY <1>3, <1>4, <1>5
<1>7. \A s \in Symbols : \E k \in 1 .. N : new[k] = s
  BY <1>3, <1>4
<1>8. \A k, l \in 1 .. N : new[k] = new[l] => k = l
  BY <1>3, <1>4, <1>5
<1>9. DOMAIN new = 1 .. N
  BY <1>2
<1>10. Line(new)
  BY <1>2, <1>6, <1>7, <1>8, <1>9 DEF Line
<1> QED
  BY <1>4, <1>10 DEF new

------------------------------------------------------------------------------
(* What a request and what a price do.                                      *)

LEMMA PartsMakeInv ==
    /\ FeedTypes' /\ Line(rr') /\ Phases' /\ LineUp' /\ Bars'
    /\ TicksMeetTheirCandles' /\ OneEdgePerDay'
    => FeedIInv'
<1>1. (FeedTypes /\ Line(rr) => FeedTypeOK)'
  BY TypesFromParts, PTL
<1> QED
  BY <1>1 DEF FeedIInv

\* The symbols that come after the one that is asked are those behind it.
LEMMA TurnFacts ==
    ASSUME FeedIInv, NEW b \in 0 .. MaxTime, OpenAt[b] # {}, ~ batched,
           asked' = {rr[FirstOpen(b)]}, rr' = Turned(b), batched' = batched,
           since' = [s \in Symbols |->
                       IF s \in asked' \/ s \notin OpenAt[b] THEN {} ELSE since[s] \cup asked']
    PROVE  /\ Line(rr') /\ LineUp'
           /\ asked' \subseteq Symbols /\ since' \in [Symbols -> SUBSET Symbols]
           /\ \A s \in OpenAt[b] \ asked' : asked' \cap since[s] = {}
<1> DEFINE i == FirstOpen(b)
<1>1. /\ FeedTypes /\ Line(rr) /\ LineUp
      /\ N \in Nat /\ OpenAt[b] \subseteq Symbols
  BY FeedFacts, FeedConstants
<1>2. /\ i \in 1 .. N /\ rr[i] \in OpenAt[b]
      /\ \A j \in 1 .. N : j < i => rr[j] \notin OpenAt[b]
  BY FirstOpenFacts
<1>3. Len(rr) = N /\ DOMAIN rr = 1 .. N /\ \A k \in 1 .. N : rr[k] \in Symbols
  BY <1>1 DEF Line
<1>4. /\ Line(rr')
      /\ \A k \in 1 .. N : Place(k, i) \in 1 .. N /\ rr'[Place(k, i)] = rr[k]
  <2>1. rr' = SubSeq(rr, i + 1, N) \o SubSeq(rr, 1, i)
    BY <1>3 DEF Turned
  <2>2. Line(rr) /\ i \in 1 .. N
    BY <1>1, <1>2
  <2> HIDE DEF i
  <2>3. LET new == SubSeq(rr, i + 1, N) \o SubSeq(rr, 1, i)
        IN  /\ Line(new)
            /\ \A k \in 1 .. N : Place(k, i) \in 1 .. N /\ new[Place(k, i)] = rr[k]
    BY ONLY <2>2, TurnedPlaces
  <2> QED
    BY <2>1, <2>3
<1>5. asked' = {rr[i]}
  OBVIOUS
<1> HIDE DEF i
<1>6. /\ \A k, l \in 1 .. N : rr[k] = rr[l] => k = l
      /\ \A k, l \in 1 .. N : rr[l] \in since[rr[k]] => k < l
  BY <1>1, <1>3 DEF LineUp
<1>7. \A k \in 1 .. N : rr[k] \in OpenAt[b] /\ rr[k] # rr[i] => k > i
  <2> SUFFICES ASSUME NEW k \in 1 .. N, rr[k] \in OpenAt[b], rr[k] # rr[i]
               PROVE  k > i
    OBVIOUS
  <2>1. ~ (k < i) /\ k # i
    BY <1>2
  <2> QED
    BY <1>1, <1>2, <2>1
<1>8. asked' \subseteq Symbols /\ since' \in [Symbols -> SUBSET Symbols]
  <2>1. asked' \subseteq Symbols
    BY <1>2, <1>3, <1>5
  <2>2. \A s \in Symbols : since[s] \in SUBSET Symbols
    BY <1>1 DEF FeedTypes
  <2> QED
    BY <2>1, <2>2
<1>9. \A s \in OpenAt[b] \ asked' : asked' \cap since[s] = {}
  <2> SUFFICES ASSUME NEW s \in OpenAt[b], s # rr[i], rr[i] \in since[s]
               PROVE  FALSE
    BY <1>5
  <2>1. PICK k \in 1 .. N : rr[k] = s
    BY <1>1 DEF Line
  <2>2. k > i /\ k < i
    BY <1>2, <1>6, <1>7, <2>1
  <2> QED
    BY <1>1, <1>2, <2>2
<1>10. \A k, l \in 1 .. N : rr[l] \in since'[rr[k]] => Place(k, i) < Place(l, i)
  <2> SUFFICES ASSUME NEW k \in 1 .. N, NEW l \in 1 .. N, rr[l] \in since'[rr[k]]
               PROVE  Place(k, i) < Place(l, i)
    OBVIOUS
  <2>1. /\ rr[k] \in OpenAt[b] /\ rr[k] # rr[i]
        /\ rr[l] \in since[rr[k]] \/ rr[l] = rr[i]
    BY <1>3, <1>5
  <2>2. k > i
    BY <1>7, <2>1
  <2>3. CASE rr[l] \in since[rr[k]]
    <3>1. k < l
      BY <1>6, <2>3
    <3> QED
      BY <1>1, <1>2, <2>2, <3>1 DEF Place
  <2>4. CASE rr[l] = rr[i]
    <3>1. l = i
      BY <1>2, <1>6, <2>4
    <3> QED
      BY <1>1, <1>2, <2>2, <3>1 DEF Place
  <2> QED
    BY <2>1, <2>3, <2>4
<1>11. \A m \in 1 .. N : \E k \in 1 .. N : Place(k, i) = m
  <2> SUFFICES ASSUME NEW m \in 1 .. N
               PROVE  \E k \in 1 .. N : Place(k, i) = m
    OBVIOUS
  <2>1. rr'[m] \in Symbols
    BY <1>4 DEF Line
  <2>2. PICK k \in 1 .. N : rr[k] = rr'[m]
    BY <1>1, <2>1 DEF Line
  <2>3. rr'[Place(k, i)] = rr'[m] /\ Place(k, i) \in 1 .. N
    BY <1>4, <2>2
  <2>4. \A x, y \in 1 .. N : rr'[x] = rr'[y] => x = y
    BY <1>4 DEF Line
  <2> QED
    BY <2>3, <2>4
<1>12. LineUp'
  <2>1. DOMAIN rr' = 1 .. N /\ \A x, y \in 1 .. N : rr'[x] = rr'[y] => x = y
    BY <1>4 DEF Line
  <2>2. \A x, y \in 1 .. N : rr'[y] \in since'[rr'[x]] => x < y
    <3> SUFFICES ASSUME NEW x \in 1 .. N, NEW y \in 1 .. N, rr'[y] \in since'[rr'[x]]
                 PROVE  x < y
      OBVIOUS
    <3>1. PICK k \in 1 .. N : Place(k, i) = x
      BY <1>11
    <3>2. PICK l \in 1 .. N : Place(l, i) = y
      BY <1>11
    <3>3. rr'[x] = rr[k] /\ rr'[y] = rr[l]
      BY <1>4, <3>1, <3>2
    <3> QED
      BY <1>10, <3>1, <3>2, <3>3
  <2> QED
    BY <2>1, <2>2 DEF LineUp
<1> QED
  BY <1>4, <1>8, <1>9, <1>12

LEMMA AskFacts ==
    ASSUME FeedIInv, NEW b \in 0 .. MaxTime, Ask(b), batched' = batched
    PROVE  /\ phase' \in {"idle", "asking"} /\ gapOver' \in BOOLEAN
           /\ asked' \subseteq Symbols /\ out' \subseteq Symbols
           /\ since' \in [Symbols -> SUBSET Symbols]
           /\ Line(rr') /\ LineUp'
           /\ phase' = "idle" => out' = {}
           /\ phase' = "asking" => \A s \in OpenAt[b] \ asked' : asked' \cap since[s] = {}
<1>1. FeedTypes /\ Line(rr) /\ LineUp /\ OpenAt[b] \subseteq Symbols
  BY FeedFacts, FeedConstants
<1>2. CASE gapOver /\ OpenAt[b] # {}
  <2>1. /\ asked' = IF batched THEN OpenAt[b] ELSE {rr[FirstOpen(b)]}
        /\ rr' = IF batched THEN rr ELSE Turned(b)
        /\ since' = [s \in Symbols |->
               IF s \in asked' \/ s \notin OpenAt[b] THEN {} ELSE since[s] \cup asked']
        /\ gapOver' = FALSE /\ phase' = "asking" /\ out' = out
    BY <1>2 DEF Ask
  <2>2. out' \subseteq Symbols
    BY <1>1, <2>1 DEF FeedTypes
  <2>3. CASE batched
    <3>1. asked' = OpenAt[b] /\ rr' = rr
      BY <2>1, <2>3
    <3>2. since' \in [Symbols -> SUBSET Symbols]
      <4>1. \A s \in Symbols : since[s] \cup asked' \in SUBSET Symbols
        BY <1>1, <3>1 DEF FeedTypes
      <4> QED
        BY <2>1, <4>1
    <3>3. Line(rr') /\ LineUp'
      BY <1>1, <2>3, <3>1 DEF LineUp
    <3> QED
      BY <1>1, <2>1, <2>2, <3>1, <3>2, <3>3
  <2>4. CASE ~ batched
    <3>1. asked' = {rr[FirstOpen(b)]} /\ rr' = Turned(b)
      BY <2>1, <2>4
    <3>2. /\ Line(rr') /\ LineUp'
          /\ asked' \subseteq Symbols /\ since' \in [Symbols -> SUBSET Symbols]
          /\ \A s \in OpenAt[b] \ asked' : asked' \cap since[s] = {}
      BY <1>2, <2>1, <2>4, <3>1, TurnFacts
    <3> QED
      BY <2>1, <2>2, <3>2
  <2> QED
    BY <2>3, <2>4
<1>3. CASE ~ (gapOver /\ OpenAt[b] # {})
  <2>1. /\ phase' = "idle" /\ out' = {} /\ asked' = {}
        /\ rr' = rr /\ since' = since /\ gapOver' = gapOver
    BY <1>3 DEF Ask
  <2>2. LineUp'
    BY <1>1, <2>1 DEF LineUp
  <2> QED
    BY <1>1, <2>1, <2>2 DEF FeedTypes
<1> QED
  BY <1>2, <1>3

LEMMA ProceedFacts ==
    ASSUME FeedIInv, NEW b \in 0 .. MaxTime, Proceed(b), batched' = batched
    PROVE  /\ phase' \in {"idle", "asking", "loading"} /\ gapOver' \in BOOLEAN
           /\ asked' \subseteq Symbols /\ out' \subseteq Symbols
           /\ since' \in [Symbols -> SUBSET Symbols]
           /\ Line(rr') /\ LineUp'
           /\ phase' = "idle" => out' = {}
           /\ phase' = "loading" => ~ loaded
           /\ phase' = "asking" => \A s \in OpenAt[b] \ asked' : asked' \cap since[s] = {}
<1>1. FeedTypes /\ Line(rr) /\ LineUp
  BY FeedFacts
<1>2. CASE loaded /\ Ask(b)
  BY <1>2, AskFacts
<1>3. CASE ~ loaded /\ phase' = "loading" /\ UNCHANGED <<asked, rr, since, gapOver, out>>
  <2>1. /\ asked' = asked /\ rr' = rr /\ since' = since /\ gapOver' = gapOver /\ out' = out
        /\ phase' = "loading"
    BY <1>3
  <2>2. LineUp'
    BY <1>1, <2>1 DEF LineUp
  <2> QED
    BY <1>1, <1>3, <2>1, <2>2 DEF FeedTypes
<1> QED
  BY <1>2, <1>3 DEF Proceed

\* The bars of the days stay as they are while time passes.
LEMMA BarsKept ==
    ASSUME FeedIInv, t' \in 0 .. MaxTime, t <= t',
           daily' = daily, completed' = completed, loaded => loaded'
    PROVE  Bars' /\ OneEdgePerDay'
<1>1. FeedTypes /\ Bars /\ OneEdgePerDay /\ t \in Nat
  BY FeedFacts
<1>2. t' \in Nat
  BY FeedConstants
<1>3. Date(t) \in Nat /\ Date(t') \in Nat /\ Date(t) <= Date(t')
  BY <1>1, <1>2, DatesGrow
<1>4. Date(t)' = Date(t')
  BY DEF Date
<1>5. Bars'
  BY <1>1 DEF Bars
<1>6. OneEdgePerDay'
  <2> SUFFICES ASSUME NEW s \in Symbols
               PROVE  /\ \A i, j \in 1 .. Len(daily[s]) : i < j => daily[s][i] < daily[s][j]
                      /\ completed[s] <= Date(t')
                      /\ daily[s] # <<>> => completed[s] = Len(daily[s]) - 1
    BY <1>4 DEF OneEdgePerDay
  <2>1. /\ \A i, j \in 1 .. Len(daily[s]) : i < j => daily[s][i] < daily[s][j]
        /\ completed[s] <= Date(t)
        /\ daily[s] # <<>> => completed[s] = Len(daily[s]) - 1
    BY <1>1 DEF OneEdgePerDay
  <2>2. completed[s] \in Nat
    BY <1>1 DEF FeedTypes
  <2>3. completed[s] <= Date(t')
    BY <1>3, <2>1, <2>2
  <2> QED
    BY <2>1, <2>3
<1> QED
  BY <1>5, <1>6

\* The days of one symbol, and the bar that a later date opens.
DaysOK(days, edges) ==
    /\ days \in Seq(Nat) /\ edges \in Nat
    /\ \A i, j \in 1 .. Len(days) : i < j => days[i] < days[j]
    /\ days = <<>> => edges = 0
    /\ days # <<>> => edges = Len(days) - 1 /\ edges <= days[Len(days)]

LEMMA DayOpens ==
    ASSUME NEW days, NEW edges, DaysOK(days, edges), days # <<>>,
           NEW d \in Nat, days[Len(days)] < d
    PROVE  DaysOK(Append(days, d), edges + 1) /\ edges + 1 <= d
<1> DEFINE n   == Len(days)
           new == Append(days, d)
<1>1. /\ days \in Seq(Nat) /\ edges \in Nat /\ n \in Nat /\ n > 0
      /\ edges = n - 1 /\ edges <= days[n]
      /\ \A i, j \in 1 .. n : i < j => days[i] < days[j]
      /\ \A i \in 1 .. n : days[i] \in Nat
  BY EmptySeq, LenProperties DEF DaysOK
<1>2. /\ new \in Seq(Nat) /\ Len(new) = n + 1 /\ new[n + 1] = d
      /\ \A i \in 1 .. n : new[i] = days[i]
  BY <1>1, AppendProperties
<1> HIDE DEF n, new
<1>3. days[n] < d
  BY DEF n
<1>4. edges + 1 <= d
  <2>1. days[n] \in Nat
    BY <1>1
  <2> QED
    BY <1>1, <1>3, <2>1
<1>5. \A i \in 1 .. n : days[i] < d
  <2> SUFFICES ASSUME NEW i \in 1 .. n
               PROVE  days[i] < d
    OBVIOUS
  <2>1. n \in 1 .. n /\ days[i] \in Nat /\ days[n] \in Nat
    BY <1>1
  <2>2. i < n => days[i] < days[n]
    BY <1>1, <2>1
  <2>3. i = n => days[i] = days[n]
    OBVIOUS
  <2>4. i < n \/ i = n
    BY <1>1
  <2> QED
    BY <1>3, <2>1, <2>2, <2>3, <2>4
<1>6. \A i, j \in 1 .. Len(new) : i < j => new[i] < new[j]
  <2> SUFFICES ASSUME NEW i \in 1 .. n + 1, NEW j \in 1 .. n + 1, i < j
               PROVE  new[i] < new[j]
    BY <1>2
  <2>1. i \in 1 .. n /\ new[i] = days[i]
    BY <1>1, <1>2
  <2>2. CASE j = n + 1
    BY <1>2, <1>5, <2>1, <2>2
  <2>3. CASE j # n + 1
    <3>1. j \in 1 .. n
      BY <1>1, <2>3
    <3> QED
      BY <1>1, <1>2, <2>1, <3>1
  <2> QED
    BY <2>2, <2>3
<1>7. new # <<>>
  BY <1>1, <1>2
<1>8. DaysOK(new, edges + 1)
  <2>1. edges + 1 = Len(new) - 1 /\ edges + 1 <= new[Len(new)] /\ edges + 1 \in Nat
    BY <1>1, <1>2, <1>4
  <2> QED
    BY <1>2, <1>6, <1>7, <2>1 DEF DaysOK
<1> QED
  BY <1>4, <1>8 DEF new

LEMMA DaysOfBars ==
    FeedIInv => \A s \in Symbols : DaysOK(daily[s], completed[s]) /\ completed[s] <= Date(t)
<1> SUFFICES ASSUME FeedIInv, NEW s \in Symbols
             PROVE  DaysOK(daily[s], completed[s]) /\ completed[s] <= Date(t)
  OBVIOUS
<1>1. FeedTypes /\ Bars /\ OneEdgePerDay
  BY FeedFacts
<1>2. daily[s] \in Seq(Nat) /\ completed[s] \in Nat
  BY <1>1 DEF FeedTypes
<1>3. /\ daily[s] = <<>> => completed[s] = 0
      /\ daily[s] # <<>> => completed[s] <= daily[s][Len(daily[s])]
  BY <1>1 DEF Bars, Last
<1>4. /\ \A i, j \in 1 .. Len(daily[s]) : i < j => daily[s][i] < daily[s][j]
      /\ completed[s] <= Date(t)
      /\ daily[s] # <<>> => completed[s] = Len(daily[s]) - 1
  BY <1>1 DEF OneEdgePerDay
<1> QED
  BY <1>2, <1>3, <1>4 DEF DaysOK

LEMMA BarsOfDays ==
    ASSUME \A s \in Symbols : DaysOK(daily'[s], completed'[s]) /\ completed'[s] <= Date(t'),
           \A s \in Symbols : ~ loaded' => daily'[s] = <<>>
    PROVE  Bars' /\ OneEdgePerDay'
<1>1. Date(t)' = Date(t')
  BY DEF Date
<1>2. Bars'
  BY DEF Bars, DaysOK, Last
<1>3. OneEdgePerDay'
  BY <1>1 DEF OneEdgePerDay, DaysOK
<1> QED
  BY <1>2, <1>3

\* Prices are booked in the candles and open the bar of their day.
LEMMA BookFacts ==
    ASSUME FeedIInv, NEW syms \in SUBSET Symbols, Book(syms, at), t' = t, loaded' = loaded
    PROVE  /\ candle' \in [Symbols -> -1 .. MaxTime] /\ \A s \in syms : candle'[s] = at
           /\ DOMAIN daily' = Symbols /\ \A s \in Symbols : daily'[s] \in Seq(Nat)
           /\ completed' \in [Symbols -> Nat]
           /\ Bars' /\ OneEdgePerDay'
<1>1. FeedTypes /\ Bars /\ t \in Nat /\ at \in Nat /\ at <= t /\ at \in 0 .. MaxTime
  BY FeedFacts
<1>2. \A s \in Symbols : DaysOK(daily[s], completed[s]) /\ completed[s] <= Date(t)
  BY DaysOfBars
<1>3. Date(at) \in Nat /\ Date(t) \in Nat /\ Date(at) <= Date(t)
  BY <1>1, DatesGrow
<1>4. candle' \in [Symbols -> -1 .. MaxTime] /\ \A s \in syms : candle'[s] = at
  <2>1. candle' = [s \in Symbols |-> IF s \in syms THEN at ELSE candle[s]]
    BY DEF Book
  <2>2. \A s \in Symbols : candle[s] \in -1 .. MaxTime
    BY <1>1 DEF FeedTypes
  <2>3. at \in -1 .. MaxTime
    BY <1>1, FeedConstants
  <2> QED
    BY <2>1, <2>2, <2>3
<1>5. \A s \in Symbols : DaysOK(daily'[s], completed'[s]) /\ completed'[s] <= Date(t)
  <2> SUFFICES ASSUME NEW s \in Symbols
               PROVE  DaysOK(daily'[s], completed'[s]) /\ completed'[s] <= Date(t)
    OBVIOUS
  <2>1. CASE s \in syms /\ Rolls(s, at)
    <3>1. daily'[s] = Append(daily[s], Date(at)) /\ completed'[s] = completed[s] + 1
      BY <2>1 DEF Book
    <3>2. daily[s] # <<>> /\ daily[s][Len(daily[s])] < Date(at)
      BY <2>1 DEF Rolls, Last
    <3>3. completed[s] \in Nat /\ DaysOK(daily[s], completed[s])
      BY <1>2 DEF DaysOK
    <3>4. /\ DaysOK(Append(daily[s], Date(at)), completed[s] + 1)
          /\ completed[s] + 1 <= Date(at)
      BY <1>3, <3>2, <3>3, DayOpens
    <3> QED
      BY <1>3, <3>1, <3>3, <3>4
  <2>2. CASE ~ (s \in syms /\ Rolls(s, at))
    <3>1. daily'[s] = daily[s] /\ completed'[s] = completed[s]
      BY <2>2 DEF Book
    <3> QED
      BY <1>2, <3>1
  <2> QED
    BY <2>1, <2>2
<1>6. \A s \in Symbols : ~ loaded' => daily'[s] = <<>>
  BY <1>1 DEF Book, Rolls, Bars
<1>7. DOMAIN daily' = Symbols /\ completed' = [s \in Symbols |->
                                   IF s \in syms /\ Rolls(s, at) THEN completed[s] + 1
                                   ELSE completed[s]]
  BY DEF Book
<1>8. \A s \in Symbols : daily'[s] \in Seq(Nat) /\ completed'[s] \in Nat
  BY <1>5 DEF DaysOK
<1>9. completed' \in [Symbols -> Nat]
  BY <1>7, <1>8
<1>10. Bars' /\ OneEdgePerDay'
  BY <1>5, <1>6, BarsOfDays
<1> QED
  BY <1>4, <1>7, <1>8, <1>9, <1>10

------------------------------------------------------------------------------
(* The steps.                                                               *)

\* The turn of a step: whoever is asked was not asked since the open ones were.
TakesTurns ==
    phase # "asking" /\ phase' = "asking"
      => \A s \in OpenAt[at'] \ asked' : asked' \cap since[s] = {}

LEMMA TickStep == FeedIInv /\ Tick => FeedIInv' /\ TakesTurns
<1> SUFFICES ASSUME FeedIInv, Tick
             PROVE  FeedIInv' /\ TakesTurns
  OBVIOUS
<1>1. FeedTypes /\ Phases /\ LineUp /\ t \in Nat /\ t <= MaxTime /\ t \in 0 .. MaxTime
  BY FeedFacts DEF FeedTypes
<1>2. /\ ~ degraded /\ at' = t /\ Proceed(t)
      /\ batched' = batched /\ t' = t /\ weather' = weather /\ errors' = errors
      /\ degraded' = degraded /\ loaded' = loaded /\ candle' = candle /\ daily' = daily
      /\ completed' = completed /\ rcandle' = rcandle
  BY DEF Tick
<1>3. /\ phase' \in {"idle", "asking", "loading"} /\ gapOver' \in BOOLEAN
      /\ asked' \subseteq Symbols /\ out' \subseteq Symbols
      /\ since' \in [Symbols -> SUBSET Symbols]
      /\ Line(rr') /\ LineUp'
      /\ phase' = "idle" => out' = {}
      /\ phase' = "loading" => ~ loaded
      /\ phase' = "asking" => \A s \in OpenAt[t] \ asked' : asked' \cap since[s] = {}
  BY <1>1, <1>2, ProceedFacts
<1>4. FeedTypes'
  <2>1. at' \in 0 .. t'
    BY <1>1, <1>2
  <2> QED
    BY <1>1, <1>2, <1>3, <2>1 DEF FeedTypes
<1>5. Phases'
  BY <1>2, <1>3 DEF Phases
<1>6. Bars' /\ OneEdgePerDay'
  BY <1>1, <1>2, BarsKept
<1>7. TicksMeetTheirCandles'
  BY <1>3 DEF TicksMeetTheirCandles
<1>8. TakesTurns
  BY <1>2, <1>3 DEF TakesTurns
<1> QED
  BY <1>3, <1>4, <1>5, <1>6, <1>7, <1>8, PartsMakeInv

\* The replay answers for every open market and moves their candles.
LEMMA ReplayFacts ==
    ASSUME FeedIInv, NEW b \in 0 .. MaxTime, ReplayTick(b), degraded', at' = b
    PROVE  /\ rcandle' \in [Symbols -> -1 .. MaxTime] /\ out' \subseteq Symbols
           /\ TicksMeetTheirCandles'
<1>1. FeedTypes /\ OpenAt[b] \subseteq Symbols
  BY FeedFacts, FeedConstants
<1>2. /\ rcandle' = [s \in Symbols |-> IF s \in OpenAt[b] THEN b ELSE rcandle[s]]
      /\ out' = OpenAt[b]
  BY DEF ReplayTick
<1>3. rcandle' \in [Symbols -> -1 .. MaxTime]
  <2>1. \A s \in Symbols : rcandle[s] \in -1 .. MaxTime
    BY <1>1 DEF FeedTypes
  <2>2. b \in -1 .. MaxTime
    BY FeedConstants
  <2> QED
    BY <1>2, <2>1, <2>2
<1>4. TicksMeetTheirCandles'
  BY <1>1, <1>2 DEF TicksMeetTheirCandles, CandleSeen
<1> QED
  BY <1>1, <1>2, <1>3, <1>4

LEMMA TickDegradedStep == FeedIInv /\ TickDegraded => FeedIInv' /\ TakesTurns
<1> SUFFICES ASSUME FeedIInv, TickDegraded
             PROVE  FeedIInv' /\ TakesTurns
  OBVIOUS
<1>1. FeedTypes /\ Line(rr) /\ Phases /\ LineUp /\ t \in Nat /\ t \in 0 .. MaxTime
  BY FeedFacts DEF FeedTypes
<1>2. /\ phase = "idle" /\ degraded /\ at' = t
      /\ batched' = batched /\ t' = t /\ weather' = weather /\ asked' = asked /\ rr' = rr
      /\ errors' = errors /\ degraded' = degraded /\ loaded' = loaded /\ candle' = candle
      /\ daily' = daily /\ completed' = completed /\ since' = since
  BY DEF TickDegraded
<1>3. at' \in 0 .. t'
  BY <1>1, <1>2
<1>4. Line(rr') /\ LineUp'
  BY <1>1, <1>2 DEF LineUp
<1>5. Bars' /\ OneEdgePerDay'
  BY <1>1, <1>2, BarsKept
<1>6. CASE gapOver /\ gapOver' = FALSE /\ phase' = "probing" /\ UNCHANGED <<rcandle, out>>
  <2>1. FeedTypes'
    BY <1>1, <1>2, <1>3, <1>6 DEF FeedTypes
  <2>2. Phases' /\ TicksMeetTheirCandles' /\ TakesTurns
    BY <1>2, <1>6 DEF Phases, TicksMeetTheirCandles, TakesTurns
  <2> QED
    BY <1>4, <1>5, <2>1, <2>2, PartsMakeInv
<1>7. CASE ~ gapOver /\ ReplayTick(t) /\ UNCHANGED <<gapOver, phase>>
  <2>1. /\ rcandle' \in [Symbols -> -1 .. MaxTime] /\ out' \subseteq Symbols
        /\ TicksMeetTheirCandles'
    BY <1>1, <1>2, <1>7, ReplayFacts
  <2>2. FeedTypes'
    BY <1>1, <1>2, <1>3, <1>7, <2>1 DEF FeedTypes
  <2>3. Phases' /\ TakesTurns
    BY <1>1, <1>2, <1>7 DEF Phases, TakesTurns
  <2> QED
    BY <1>4, <1>5, <2>1, <2>2, <2>3, PartsMakeInv
<1> QED
  BY <1>6, <1>7 DEF TickDegraded

LEMMA LoadedStep == FeedIInv /\ Loaded => FeedIInv' /\ TakesTurns
<1> SUFFICES ASSUME FeedIInv, Loaded
             PROVE  FeedIInv' /\ TakesTurns
  OBVIOUS
<1>1. FeedTypes /\ Phases /\ Bars /\ t \in Nat /\ at \in 0 .. MaxTime
  BY FeedFacts
<1>2. PICK ok \in SUBSET Symbols, lag \in -1 .. 1, failed \in SUBSET Symbols :
        /\ daily' = [s \in Symbols |->
              IF s \in ok /\ Date(t) + lag >= 0 THEN <<Date(t) + lag>> ELSE daily[s]]
        /\ errors' = errors + Cardinality(failed)
  BY DEF Loaded
<1>3. /\ phase = "loading" /\ loaded' = TRUE /\ Ask(at)
      /\ batched' = batched /\ t' = t /\ weather' = weather /\ at' = at
      /\ degraded' = degraded /\ candle' = candle /\ completed' = completed
      /\ rcandle' = rcandle
  BY DEF Loaded
<1>4. /\ phase' \in {"idle", "asking"} /\ gapOver' \in BOOLEAN
      /\ asked' \subseteq Symbols /\ out' \subseteq Symbols
      /\ since' \in [Symbols -> SUBSET Symbols]
      /\ Line(rr') /\ LineUp'
      /\ phase' = "idle" => out' = {}
      /\ phase' = "asking" => \A s \in OpenAt[at] \ asked' : asked' \cap since[s] = {}
  BY <1>1, <1>3, AskFacts
<1>5. Date(t) \in Nat
  BY <1>1, DatesGrow
<1>6. \A s \in Symbols : DaysOK(daily'[s], completed'[s]) /\ completed'[s] <= Date(t)
  <2> SUFFICES ASSUME NEW s \in Symbols
               PROVE  DaysOK(daily'[s], completed'[s]) /\ completed'[s] <= Date(t)
    OBVIOUS
  <2>1. daily[s] = <<>> /\ completed[s] = 0
    BY <1>1, <1>3 DEF Phases, Bars
  <2>2. DaysOK(daily[s], completed[s]) /\ completed'[s] = 0
    BY <1>3, <2>1, DaysOfBars
  <2>3. CASE s \in ok /\ Date(t) + lag >= 0
    <3> DEFINE d == Date(t) + lag
    <3>1. d \in Nat
      BY <1>5, <2>3
    <3>2. daily'[s] = <<d>>
      BY <1>2, <2>3
    <3> HIDE DEF d
    <3>3. /\ <<d>> \in Seq(Nat) /\ Len(<<d>>) = 1 /\ <<d>>[1] = d /\ <<d>> # <<>>
      BY <3>1
    <3>4. DaysOK(<<d>>, 0)
      BY <3>1, <3>3 DEF DaysOK
    <3> QED
      BY <1>5, <2>2, <3>2, <3>4
  <2>4. CASE ~ (s \in ok /\ Date(t) + lag >= 0)
    <3>1. daily'[s] = daily[s]
      BY <1>2, <2>4
    <3> QED
      BY <1>5, <2>1, <2>2, <3>1
  <2> QED
    BY <2>3, <2>4
<1>7. Bars' /\ OneEdgePerDay'
  BY <1>3, <1>6, BarsOfDays
<1>8. errors' \in Nat
  <2>1. IsFiniteSet(Symbols)
    BY SymbolsFinite
  <2>2. Cardinality(failed) \in Nat
    BY <2>1, FS_Subset, FS_CardinalityType
  <2> QED
    BY <1>1, <1>2, <2>2 DEF FeedTypes
<1>9. FeedTypes'
  <2>1. DOMAIN daily' = Symbols /\ \A s \in Symbols : daily'[s] \in Seq(Nat)
    BY <1>2, <1>6 DEF DaysOK
  <2> QED
    BY <1>1, <1>3, <1>4, <1>8, <2>1 DEF FeedTypes
<1>10. Phases' /\ TicksMeetTheirCandles' /\ TakesTurns
  BY <1>1, <1>3, <1>4 DEF Phases, TicksMeetTheirCandles, TakesTurns
<1> QED
  BY <1>4, <1>7, <1>9, <1>10, PartsMakeInv

\* A request that ends without a price.
LEMMA NothingCame ==
    ASSUME FeedIInv, phase' = "idle", asked' = {}, out' = {}, errors' \in Nat,
           degraded' \in BOOLEAN,
           UNCHANGED <<batched, t, weather, gapOver, at, rr, loaded, candle, daily, completed,
                       rcandle, since>>
    PROVE  FeedIInv' /\ TakesTurns
<1>1. FeedTypes /\ Line(rr) /\ LineUp /\ t \in Nat /\ t \in 0 .. MaxTime
  BY FeedFacts DEF FeedTypes
<1>2. Line(rr') /\ LineUp'
  BY <1>1 DEF LineUp
<1>3. FeedTypes'
  BY <1>1 DEF FeedTypes
<1>4. Bars' /\ OneEdgePerDay'
  BY <1>1, BarsKept
<1>5. Phases' /\ TicksMeetTheirCandles' /\ TakesTurns
  BY DEF Phases, TicksMeetTheirCandles, TakesTurns
<1> QED
  BY <1>2, <1>3, <1>4, <1>5, PartsMakeInv

LEMMA StrikeStep == FeedIInv /\ Strike => FeedIInv' /\ TakesTurns
<1> SUFFICES ASSUME FeedIInv, Strike
             PROVE  FeedIInv' /\ TakesTurns
  OBVIOUS
<1>1. errors \in Nat /\ MaxErrors \in Nat
  BY FeedFacts, FeedConstants DEF FeedTypes
<1>2. errors' = errors + 1 /\ degraded' = (errors' >= MaxErrors)
  BY DEF Strike, StrikesNow
<1>3. errors' \in Nat /\ degraded' \in BOOLEAN
  <2>1. errors' \in Nat
    BY <1>1, <1>2
  <2>2. (errors' >= MaxErrors) \in BOOLEAN
    BY <1>1, <2>1
  <2> QED
    BY <1>2, <2>1, <2>2, Zenon
<1> QED
  BY <1>3, NothingCame DEF Strike

LEMMA NoPriceStep == FeedIInv /\ NoPrice => FeedIInv' /\ TakesTurns
<1> SUFFICES ASSUME FeedIInv, NoPrice
             PROVE  FeedIInv' /\ TakesTurns
  OBVIOUS
<1>1. errors \in Nat /\ degraded \in BOOLEAN
  BY FeedFacts DEF FeedTypes
<1>2. errors' \in Nat /\ degraded' \in BOOLEAN
  BY <1>1 DEF NoPrice
<1> QED
  BY <1>2, NothingCame DEF NoPrice

LEMMA PriceStep == FeedIInv /\ Price => FeedIInv' /\ TakesTurns
<1> SUFFICES ASSUME FeedIInv, Price
             PROVE  FeedIInv' /\ TakesTurns
  OBVIOUS
<1>1. FeedTypes /\ Line(rr) /\ Phases /\ LineUp
  BY FeedFacts
<1>2. PICK got \in SUBSET asked \ {{}} : Book(got, at) /\ out' = got
  BY DEF Price
<1>3. /\ phase = "asking" /\ errors' = 0 /\ phase' = "idle" /\ asked' = {}
      /\ batched' = batched /\ t' = t /\ weather' = weather /\ gapOver' = gapOver
      /\ at' = at /\ rr' = rr /\ degraded' = degraded /\ loaded' = loaded
      /\ rcandle' = rcandle /\ since' = since
  BY DEF Price
<1>4. got \in SUBSET Symbols
  BY <1>1, <1>2 DEF FeedTypes
<1>5. /\ candle' \in [Symbols -> -1 .. MaxTime] /\ \A s \in got : candle'[s] = at
      /\ DOMAIN daily' = Symbols /\ \A s \in Symbols : daily'[s] \in Seq(Nat)
      /\ completed' \in [Symbols -> Nat]
      /\ Bars' /\ OneEdgePerDay'
  BY <1>2, <1>3, <1>4, BookFacts
<1>6. Line(rr') /\ LineUp'
  BY <1>1, <1>3 DEF LineUp
<1>7. FeedTypes'
  BY <1>1, <1>2, <1>3, <1>4, <1>5 DEF FeedTypes
<1>8. ~ degraded'
  BY <1>1, <1>3 DEF Phases
<1>9. Phases' /\ TicksMeetTheirCandles' /\ TakesTurns
  BY <1>2, <1>3, <1>5, <1>8
     DEF Phases, TicksMeetTheirCandles, TakesTurns, CandleSeen
<1> QED
  BY <1>5, <1>6, <1>7, <1>9, PartsMakeInv

LEMMA ProbeStep == FeedIInv /\ Probe => FeedIInv' /\ TakesTurns
<1> SUFFICES ASSUME FeedIInv, Probe
             PROVE  FeedIInv' /\ TakesTurns
  OBVIOUS
<1>1. FeedTypes /\ Line(rr) /\ Phases /\ LineUp /\ t \in Nat /\ t \in 0 .. MaxTime
      /\ at \in 0 .. MaxTime
  BY FeedFacts DEF FeedTypes
<1>2. /\ phase = "probing"
      /\ batched' = batched /\ t' = t /\ weather' = weather /\ at' = at
      /\ loaded' = loaded /\ candle' = candle /\ daily' = daily /\ completed' = completed
  BY DEF Probe
<1>3. Bars' /\ OneEdgePerDay'
  BY <1>1, <1>2, BarsKept
<1>4. CASE weather = "price" /\ Recover /\ Proceed(at) /\ UNCHANGED rcandle
  <2>1. errors' = 0 /\ degraded' = FALSE /\ rcandle' = rcandle
    BY <1>4 DEF Recover
  <2>2. /\ phase' \in {"idle", "asking", "loading"} /\ gapOver' \in BOOLEAN
        /\ asked' \subseteq Symbols /\ out' \subseteq Symbols
        /\ since' \in [Symbols -> SUBSET Symbols]
        /\ Line(rr') /\ LineUp'
        /\ phase' = "idle" => out' = {}
        /\ phase' = "loading" => ~ loaded
        /\ phase' = "asking" => \A s \in OpenAt[at] \ asked' : asked' \cap since[s] = {}
    BY <1>1, <1>2, <1>4, ProceedFacts
  <2>3. FeedTypes'
    BY <1>1, <1>2, <2>1, <2>2 DEF FeedTypes
  <2>4. Phases'
    BY <1>2, <2>1, <2>2 DEF Phases
  <2>5. TicksMeetTheirCandles' /\ TakesTurns
    BY <1>2, <2>2 DEF TicksMeetTheirCandles, TakesTurns
  <2> QED
    BY <1>3, <2>2, <2>3, <2>4, <2>5, PartsMakeInv
<1>5. CASE /\ weather # "price" /\ ReplayTick(at) /\ phase' = "idle"
           /\ UNCHANGED <<errors, degraded, asked, rr, since, gapOver>>
  <2>1. degraded'
    BY <1>1, <1>2, <1>5 DEF Phases
  <2>2. /\ rcandle' \in [Symbols -> -1 .. MaxTime] /\ out' \subseteq Symbols
        /\ TicksMeetTheirCandles'
    BY <1>1, <1>2, <1>5, <2>1, ReplayFacts
  <2>3. FeedTypes'
    BY <1>1, <1>2, <1>5, <2>2 DEF FeedTypes
  <2>4. Line(rr') /\ LineUp'
    BY <1>1, <1>2, <1>5 DEF LineUp
  <2>5. Phases' /\ TakesTurns
    BY <1>5 DEF Phases, TakesTurns
  <2> QED
    BY <1>3, <2>2, <2>3, <2>4, <2>5, PartsMakeInv
<1> QED
  BY <1>4, <1>5 DEF Probe

\* The steps of the world, and the stutter, leave the feed as it is.
LEMMA WorldStep ==
    ASSUME FeedIInv, t' \in 0 .. MaxTime, t <= t', weather' \in Weathers, gapOver' \in BOOLEAN,
           UNCHANGED <<batched, phase, at, asked, rr, errors, degraded, loaded, candle,
                       daily, completed, rcandle, out, since>>
    PROVE  FeedIInv' /\ TakesTurns
<1>1. FeedTypes /\ Line(rr) /\ Phases /\ LineUp /\ TicksMeetTheirCandles /\ t \in Nat
      /\ at \in Nat /\ at <= t
  BY FeedFacts
<1>2. Line(rr') /\ LineUp'
  BY <1>1 DEF LineUp
<1>3. at' \in 0 .. t'
  BY <1>1, FeedConstants
<1>4. FeedTypes'
  BY <1>1, <1>3 DEF FeedTypes
<1>5. Bars' /\ OneEdgePerDay'
  BY <1>1, BarsKept
<1>6. Phases' /\ TakesTurns
  BY <1>1 DEF Phases, TakesTurns
<1>7. TicksMeetTheirCandles'
  BY <1>1 DEF TicksMeetTheirCandles, CandleSeen
<1> QED
  BY <1>2, <1>4, <1>5, <1>6, <1>7, PartsMakeInv

LEMMA FeedStep == FeedIInv /\ [FeedNext]_feedVars => FeedIInv' /\ TakesTurns
<1> SUFFICES ASSUME FeedIInv, [FeedNext]_feedVars
             PROVE  FeedIInv' /\ TakesTurns
  OBVIOUS
<1>1. /\ FeedTypes /\ t \in Nat /\ t <= MaxTime /\ t \in 0 .. MaxTime /\ MaxTime \in Nat
  BY FeedFacts, FeedConstants DEF FeedTypes
<1>2. CASE Tick
  BY <1>2, TickStep
<1>3. CASE TickDegraded
  BY <1>3, TickDegradedStep
<1>4. CASE Strike
  BY <1>4, StrikeStep
<1>5. CASE NoPrice
  BY <1>5, NoPriceStep
<1>6. CASE Price
  BY <1>6, PriceStep
<1>7. CASE Probe
  BY <1>7, ProbeStep
<1>8. CASE Loaded
  BY <1>8, LoadedStep
<1>9. CASE Wait
  BY <1>1, <1>9, WorldStep DEF Wait, FeedTypes
<1>10. CASE Clock
  <2>1. t' \in 0 .. MaxTime /\ t <= t'
    BY <1>1, <1>10 DEF Clock
  <2> QED
    BY <1>1, <1>10, <2>1, WorldStep DEF Clock, FeedTypes
<1>11. CASE Provider
  BY <1>1, <1>11, WorldStep DEF Provider, FeedTypes
<1>12. CASE UNCHANGED feedVars
  BY <1>1, <1>12, WorldStep DEF feedVars, FeedTypes
<1> QED
  BY <1>2, <1>3, <1>4, <1>5, <1>6, <1>7, <1>8, <1>9, <1>10, <1>11, <1>12 DEF FeedNext, Answer

LEMMA FeedStart == FeedInit => FeedIInv
<1> SUFFICES ASSUME FeedInit
             PROVE  FeedIInv
  OBVIOUS
<1> USE DEF FeedInit
<1>1. Line(rr)
  <2>1. \A i \in 1 .. N : SymbolList[i] \in Symbols
    BY FeedConstants
  <2> QED
    BY <2>1, FeedConstants, SymbolsDiffer DEF Line, N
<1>2. FeedTypes
  <2>1. t \in 0 .. MaxTime /\ at \in 0 .. t /\ -1 \in -1 .. MaxTime
    BY FeedConstants
  <2>2. candle \in [Symbols -> -1 .. MaxTime] /\ rcandle \in [Symbols -> -1 .. MaxTime]
    BY <2>1
  <2>3. DOMAIN daily = Symbols /\ \A s \in Symbols : daily[s] \in Seq(Nat)
    OBVIOUS
  <2>4. completed \in [Symbols -> Nat] /\ since \in [Symbols -> SUBSET Symbols]
    OBVIOUS
  <2>5. errors \in Nat /\ asked \subseteq Symbols /\ out \subseteq Symbols
    OBVIOUS
  <2> QED
    BY <2>1, <2>2, <2>3, <2>4, <2>5 DEF FeedTypes
<1>3. FeedTypeOK
  BY <1>1, <1>2, TypesFromParts
<1>4. Phases /\ TicksMeetTheirCandles
  BY DEF Phases, TicksMeetTheirCandles
<1>5. LineUp
  <2>1. \A s \in Symbols : since[s] = {}
    OBVIOUS
  <2> QED
    BY <1>1, <2>1 DEF LineUp, Line
<1>6. Bars
  BY DEF Bars
<1>7. OneEdgePerDay
  <2>1. Date(t) \in Nat
    BY FeedConstants, DatesGrow
  <2>2. \A s \in Symbols : daily[s] = <<>> /\ Len(daily[s]) = 0 /\ completed[s] = 0
    OBVIOUS
  <2> QED
    BY <2>1, <2>2 DEF OneEdgePerDay
<1> QED
  BY <1>3, <1>4, <1>5, <1>6, <1>7 DEF FeedIInv

\* The feed keeps its inductive invariant: every step of tick_once, whichever
\* request it is suspended at, and every move of the clock and the provider
\* (live_feeds.py).
THEOREM FeedInvariance == FeedSpec => []FeedIInv
<1>1. FeedIInv /\ [FeedNext]_feedVars => FeedIInv'
  BY FeedStep
<1> QED
  BY <1>1, FeedStart, PTL DEF FeedSpec

\* The variables of a feed keep their types, and the round-robin list _rr holds
\* every symbol of the list it was built from.
THEOREM FeedTypeCorrect == FeedSpec => []FeedTypeOK
<1>1. FeedIInv => FeedTypeOK
  BY DEF FeedIInv
<1> QED
  BY <1>1, FeedInvariance, PTL

\* For every list of symbols, every calendar of open markets and every provider:
\* a symbol that tick_once returns has a candle of that tick in the series that
\* candles() serves, live or replayed.
THEOREM TicksAndCandlesAgree == FeedSpec => []TicksMeetTheirCandles
<1>1. FeedIInv => TicksMeetTheirCandles
  BY DEF FeedIInv
<1> QED
  BY <1>1, FeedInvariance, PTL

\* For every length of a day and every delay of the quotes: the daily bars are
\* of growing dates, and completed_count moves at most once a day (_roll_daily).
THEOREM EdgesAreDays == FeedSpec => []OneEdgePerDay
<1>1. FeedIInv => OneEdgePerDay
  BY DEF FeedIInv
<1> QED
  BY <1>1, FeedInvariance, PTL

\* For every list of symbols: the round robin of tick_once asks no symbol twice
\* while an open market waits for its turn, across markets that open and close,
\* failed requests and degradation.
THEOREM TurnsAreKept == FeedSpec => NobodyOvertakes
<1>1. FeedIInv /\ [FeedNext]_feedVars
        => [phase # "asking" /\ phase' = "asking"
              => \A s \in OpenAt[at'] \ asked' : asked' \cap since[s] = {}]_feedVars
  BY FeedStep DEF TakesTurns
<1> QED
  BY <1>1, FeedInvariance, PTL DEF FeedSpec, NobodyOvertakes

------------------------------------------------------------------------------
(* Cockpit: for any handlers, settings and starts of runs. What a handler   *)
(* takes to its row is what the provider did (DeedShape), and a run that    *)
(* did not overlap another one has a reaper that waits for its own process  *)
(* (Alone, Waiting).                                                        *)

ProcType == [run : Runs, state : {"running", "written", "ok", "failed"}, read : BOOLEAN,
             reap : {"new", "waiting", "lost", "over"}, of : Nat]

LabShape ==
    /\ second \in Runs /\ meta \in [Runs -> {"none", "running", "done", "failed"}]
    /\ procs \in Seq(ProcType) /\ proc = Len(procs)

\* A run being created has its name.
CallShape ==
    /\ DOMAIN call = Handlers
    /\ \A h \in Handlers : call[h].at = "spawning" => call[h].key \in Runs

\* A run that is not broken is created, and its reaper wakes, while no other is
\* created or waits for its reaper: _proc is its own process.
Alone ==
    /\ \A g, h \in Handlers :
         call[g].at = "spawning" /\ call[h].at = "spawning" /\ g # h => call[g].key \in broken
    /\ \A h \in Handlers, k \in DOMAIN procs :
         call[h].at = "spawning" /\ procs[k].reap = "new"
           => call[h].key \in broken /\ procs[k].run \in broken
    /\ \A k \in DOMAIN procs : procs[k].reap = "new" /\ procs[k].run \notin broken => k = proc

\* A reaper waits for a process there is, its own unless the run is broken.
Waiting ==
    \A k \in DOMAIN procs :
        procs[k].reap = "waiting"
          => procs[k].of \in DOMAIN procs /\ (procs[k].run \notin broken => procs[k].of = k)

EndsAreKept == \A k \in DOMAIN procs : procs[k].state = "ok" => procs[k].run \in ended

LabIInv == LabShape /\ CallShape /\ Alone /\ Waiting /\ EndsAreKept /\ DoneIsTrue

\* What waits for its row is what was done; a setting in it is on the disk.
IsDeed(c, disk) ==
    /\ c.at = "effect" /\ c.kind # "save" => c.key = "none"
    /\ c.at = "audit" =>
         /\ c.kind \in {"done", "declined", "closed"}
         /\ c.kind = "done" => c.did
         /\ c.kind = "declined" => ~ c.did
         /\ c.key \in disk \cup {"none"}
    /\ c.at = "refusing" => ~ c.did

DeedShape ==
    /\ DOMAIN call = Handlers
    /\ \A h \in Handlers : IsDeed(call[h], overlay)

AnswerStands == Agrees(answer)
SavesLast    == saved \subseteq overlay

DeedIInv == DeedShape /\ AnswerStands /\ SavesLast

CockpitIInv == LabIInv /\ DeedIInv

------------------------------------------------------------------------------
(* The lab.                                                                 *)

LEMMA ProcFacts ==
    ASSUME LabIInv
    PROVE  /\ proc \in Nat /\ proc = Len(procs) /\ DOMAIN procs = 1 .. proc
           /\ procs \in Seq(ProcType) /\ \A k \in 1 .. proc : procs[k] \in ProcType
BY DEF LabIInv, LabShape

\* A handler goes on while the lab stands still.
LEMMA CallMoves ==
    ASSUME LabIInv, NEW h \in Handlers, NEW c, UNCHANGED labVars,
           call' = [call EXCEPT ![h] = c], c.at # "spawning"
    PROVE  LabIInv'
<1>1. LabShape /\ CallShape /\ Alone /\ Waiting /\ EndsAreKept /\ DoneIsTrue
  BY DEF LabIInv
<1>2. /\ second' = second /\ meta' = meta /\ results' = results /\ procs' = procs
      /\ proc' = proc /\ starts' = starts /\ ended' = ended /\ broken' = broken
  BY DEF labVars
<1>3. /\ DOMAIN call' = Handlers /\ call'[h] = c
      /\ \A g \in Handlers : g # h => call'[g] = call[g]
  BY <1>1 DEF CallShape
<1>4. LabShape' /\ Waiting' /\ EndsAreKept' /\ DoneIsTrue'
  BY <1>1, <1>2 DEF LabShape, Waiting, EndsAreKept, DoneIsTrue
<1>5. CallShape'
  BY <1>1, <1>3 DEF CallShape
<1>6. Alone'
  BY <1>1, <1>2, <1>3 DEF Alone
<1> QED
  BY <1>4, <1>5, <1>6 DEF LabIInv

LEMMA StartRunStep ==
    ASSUME LabIInv, NEW h \in Handlers, call[h].at = "idle", StartRun(h)
    PROVE  LabIInv'
<1>1. LabShape /\ CallShape /\ Alone /\ Waiting /\ EndsAreKept /\ DoneIsTrue
  BY DEF LabIInv
<1>2. /\ ~ Unreaped
      /\ meta' = [meta EXCEPT ![second] = "running"]
      /\ broken' = IF Spawning = {} THEN broken ELSE broken \cup Spawning \cup {second}
      /\ second' = second /\ procs' = procs /\ proc' = proc /\ ended' = ended
  BY DEF StartRun, Begin
<1>3. \A k \in DOMAIN procs : procs[k].reap # "new"
  BY <1>2 DEF Unreaped
<1>4. /\ DOMAIN call' = Handlers
      /\ call'[h].at = "spawning" /\ call'[h].key = second
      /\ \A g \in Handlers : g # h => call'[g] = call[g]
  BY <1>1 DEF CallShape, StartRun, GoesTo, Idle
<1>5. broken \subseteq broken'
  BY <1>2
<1>6. \A g \in Handlers : g # h /\ call'[g].at = "spawning"
                            => call'[g].key \in broken' /\ second \in broken'
  <2> SUFFICES ASSUME NEW g \in Handlers, g # h, call'[g].at = "spawning"
               PROVE  call'[g].key \in broken' /\ second \in broken'
    OBVIOUS
  <2>1. call[g].key \in Spawning /\ call'[g] = call[g]
    BY <1>4 DEF Spawning
  <2> QED
    BY <1>2, <2>1
<1>7. LabShape'
  BY <1>1, <1>2 DEF LabShape
<1>8. CallShape'
  BY <1>1, <1>4 DEF CallShape, LabShape
<1>9. Alone'
  BY <1>1, <1>2, <1>3, <1>4, <1>6 DEF Alone
<1>10. Waiting' /\ EndsAreKept'
  BY <1>1, <1>2, <1>5 DEF Waiting, EndsAreKept
<1>11. DoneIsTrue'
  BY <1>1, <1>2, <1>5 DEF DoneIsTrue, LabShape
<1> QED
  BY <1>7, <1>8, <1>9, <1>10, <1>11 DEF LabIInv

LEMMA RunSpawnedStep ==
    ASSUME LabIInv, NEW h \in Handlers, RunSpawned(h)
    PROVE  LabIInv'
<1>1. LabShape /\ CallShape /\ Alone /\ Waiting /\ EndsAreKept /\ DoneIsTrue
  BY DEF LabIInv
<1> DEFINE new == [run |-> call[h].key, state |-> "running", read |-> FALSE,
                   reap |-> "new", of |-> 0]
<1>2. /\ call[h].at = "spawning"
      /\ procs' = Append(procs, new) /\ proc' = Len(procs')
      /\ second' = second /\ meta' = meta /\ ended' = ended /\ broken' = broken
  BY DEF RunSpawned, Spawned
<1>3. /\ DOMAIN call' = Handlers
      /\ call'[h].at = "audit"
      /\ \A g \in Handlers : g # h => call'[g] = call[g]
  BY <1>1 DEF CallShape, RunSpawned, GoesTo, ToAudit
<1>4. /\ proc \in Nat /\ proc = Len(procs) /\ DOMAIN procs = 1 .. proc
      /\ procs \in Seq(ProcType)
  BY ProcFacts
<1>5. new \in ProcType
  BY <1>1, <1>2 DEF CallShape, ProcType
<1> HIDE DEF new
<1>6. /\ procs' \in Seq(ProcType) /\ Len(procs') = proc + 1 /\ DOMAIN procs' = 1 .. proc + 1
      /\ procs'[proc + 1] = new
      /\ \A k \in 1 .. proc : procs'[k] = procs[k]
  BY <1>2, <1>4, <1>5
<1>7. new.run = call[h].key /\ new.state = "running" /\ new.reap = "new"
  BY DEF new
<1>8. LabShape'
  BY <1>1, <1>2, <1>6 DEF LabShape
<1>9. CallShape'
  BY <1>1, <1>2, <1>3 DEF CallShape
<1>10. \A k \in DOMAIN procs' : k \in DOMAIN procs \/ k = proc + 1
  BY <1>4, <1>6
<1>11. Alone'
  <2>1. \A f, g \in Handlers : call'[f].at = "spawning" /\ call'[g].at = "spawning" /\ f # g
                                 => call'[f].key \in broken'
    BY <1>1, <1>2, <1>3 DEF Alone
  <2>2. \A g \in Handlers : call'[g].at = "spawning"
                              => call'[g].key \in broken' /\ new.run \in broken'
    BY <1>1, <1>2, <1>3, <1>7 DEF Alone
  <2>3. \A g \in Handlers, k \in DOMAIN procs' :
          call'[g].at = "spawning" /\ procs'[k].reap = "new"
            => call'[g].key \in broken' /\ procs'[k].run \in broken'
    BY <1>1, <1>2, <1>3, <1>4, <1>6, <1>10, <2>2 DEF Alone
  <2>4. \A k \in DOMAIN procs' :
          procs'[k].reap = "new" /\ procs'[k].run \notin broken' => k = proc'
    BY <1>1, <1>2, <1>4, <1>6, <1>10 DEF Alone
  <2> QED
    BY <2>1, <2>3, <2>4 DEF Alone
<1>12. Waiting' /\ EndsAreKept'
  BY <1>1, <1>2, <1>4, <1>6, <1>7, <1>10 DEF Waiting, EndsAreKept
<1>13. DoneIsTrue'
  BY <1>1, <1>2 DEF DoneIsTrue
<1> QED
  BY <1>8, <1>9, <1>11, <1>12, <1>13 DEF LabIInv

LEMMA RunSpawnFailsStep ==
    ASSUME LabIInv, NEW h \in Handlers, RunSpawnFails(h)
    PROVE  LabIInv'
<1>1. LabShape /\ CallShape /\ Alone /\ Waiting /\ EndsAreKept /\ DoneIsTrue
  BY DEF LabIInv
<1>2. /\ broken \subseteq broken'
      /\ procs' = procs /\ proc' = proc
      /\ second' = second /\ meta' = meta /\ ended' = ended
  BY DEF RunSpawnFails, SpawnFails
<1>3. /\ DOMAIN call' = Handlers /\ call'[h] = Idle
      /\ \A g \in Handlers : g # h => call'[g] = call[g]
  BY <1>1 DEF CallShape, RunSpawnFails, Answers
<1>4. Idle.at = "idle"
  BY DEF Idle
<1>5. LabShape' /\ Waiting' /\ EndsAreKept' /\ DoneIsTrue'
  BY <1>1, <1>2 DEF LabShape, Waiting, EndsAreKept, DoneIsTrue
<1>6. CallShape'
  BY <1>1, <1>2, <1>3, <1>4 DEF CallShape
<1>7. Alone'
  BY <1>1, <1>2, <1>3, <1>4 DEF Alone
<1> QED
  BY <1>5, <1>6, <1>7 DEF LabIInv

\* A process goes on, or its reaper, and names of runs and what has ended stay.
LEMMA ProcMoves ==
    ASSUME LabIInv, NEW k \in DOMAIN procs, UNCHANGED <<second, proc, broken, call>>,
           procs' \in Seq(ProcType), Len(procs') = Len(procs), ended \subseteq ended',
           meta' \in [Runs -> {"none", "running", "done", "failed"}],
           \A j \in DOMAIN procs : procs'[j].run = procs[j].run,
           \A j \in DOMAIN procs \ {k} : procs'[j].state = procs[j].state
                                         /\ procs'[j].reap = procs[j].reap
                                         /\ procs'[j].of = procs[j].of,
           procs'[k].state = "ok" => procs[k].run \in ended',
           procs'[k].reap # "new" \/ procs[k].reap = "new",
           procs'[k].reap = "waiting"
             => procs'[k].of \in DOMAIN procs /\ (procs[k].run \notin broken => procs'[k].of = k),
           \A r \in Runs \ broken : meta'[r] = "done" => r \in ended' \/ meta[r] = "done"
    PROVE  LabIInv'
<1>1. LabShape /\ CallShape /\ Alone /\ Waiting /\ EndsAreKept /\ DoneIsTrue
  BY DEF LabIInv
<1>2. DOMAIN procs' = DOMAIN procs
  BY <1>1 DEF LabShape
<1>3. second' = second /\ proc' = proc /\ broken' = broken /\ call' = call
  OBVIOUS
<1>4. LabShape'
  BY <1>1, <1>3 DEF LabShape
<1>5. CallShape'
  BY <1>1, <1>3 DEF CallShape
<1>6. Alone'
  <2>1. \A j \in DOMAIN procs : procs'[j].reap = "new" => procs[j].reap = "new"
    OBVIOUS
  <2> QED
    BY <1>1, <1>2, <1>3, <2>1 DEF Alone
<1>7. Waiting'
  BY <1>1, <1>2, <1>3 DEF Waiting
<1>8. EndsAreKept'
  BY <1>1, <1>2, <1>3 DEF EndsAreKept
<1>9. DoneIsTrue'
  BY <1>1, <1>3 DEF DoneIsTrue
<1> QED
  BY <1>4, <1>5, <1>6, <1>7, <1>8, <1>9 DEF LabIInv

LEMMA ProcWritesStep ==
    ASSUME LabIInv, NEW k \in DOMAIN procs, ProcWrites(k), UNCHANGED call
    PROVE  LabIInv'
<1>1. LabShape /\ Waiting /\ procs \in Seq(ProcType)
  BY DEF LabIInv, LabShape
<1>2. procs[k] \in ProcType
  BY <1>1
<1>3. [procs[k] EXCEPT !.state = "written"] \in ProcType
  BY <1>2 DEF ProcType
<1>4. procs' = [procs EXCEPT ![k] = [procs[k] EXCEPT !.state = "written"]]
  BY DEF ProcWrites
<1>5. procs' \in Seq(ProcType) /\ Len(procs') = Len(procs)
  BY <1>1, <1>3, <1>4
<1>6. /\ procs'[k] = [procs[k] EXCEPT !.state = "written"]
      /\ \A j \in DOMAIN procs \ {k} : procs'[j] = procs[j]
  BY <1>1, <1>4
<1>7. /\ procs'[k].run = procs[k].run /\ procs'[k].state = "written"
      /\ procs'[k].reap = procs[k].reap /\ procs'[k].of = procs[k].of
  BY <1>2, <1>6 DEF ProcType
<1>8. /\ UNCHANGED <<second, proc, broken, call>>
      /\ meta' = meta /\ ended' = ended
  BY DEF ProcWrites
<1>9. \A j \in DOMAIN procs : procs'[j].run = procs[j].run
  BY <1>6, <1>7
<1>10. procs'[k].reap = "waiting"
         => procs'[k].of \in DOMAIN procs /\ (procs[k].run \notin broken => procs'[k].of = k)
  BY <1>1, <1>7 DEF Waiting
<1> QED
  BY <1>1, <1>5, <1>6, <1>7, <1>8, <1>9, <1>10, ProcMoves DEF LabShape

LEMMA ProcEndsStep ==
    ASSUME LabIInv, NEW k \in DOMAIN procs, NEW state \in {"ok", "failed"},
           ProcEnds(k, state), UNCHANGED call
    PROVE  LabIInv'
<1>1. LabShape /\ Waiting /\ procs \in Seq(ProcType)
  BY DEF LabIInv, LabShape
<1>2. procs[k] \in ProcType
  BY <1>1
<1>3. [procs[k] EXCEPT !.state = state] \in ProcType
  BY <1>2 DEF ProcType
<1>4. procs' = [procs EXCEPT ![k] = [procs[k] EXCEPT !.state = state]]
  BY DEF ProcEnds
<1>5. procs' \in Seq(ProcType) /\ Len(procs') = Len(procs)
  BY <1>1, <1>3, <1>4
<1>6. /\ procs'[k] = [procs[k] EXCEPT !.state = state]
      /\ \A j \in DOMAIN procs \ {k} : procs'[j] = procs[j]
  BY <1>1, <1>4
<1>7. /\ procs'[k].run = procs[k].run /\ procs'[k].state = state
      /\ procs'[k].reap = procs[k].reap /\ procs'[k].of = procs[k].of
  BY <1>2, <1>6 DEF ProcType
<1>8. /\ UNCHANGED <<second, proc, broken, call>> /\ meta' = meta
      /\ ended' = IF state = "ok" THEN ended \cup {procs[k].run} ELSE ended
  BY DEF ProcEnds
<1>9. \A j \in DOMAIN procs : procs'[j].run = procs[j].run
  BY <1>6, <1>7
<1>10. procs'[k].reap = "waiting"
         => procs'[k].of \in DOMAIN procs /\ (procs[k].run \notin broken => procs'[k].of = k)
  BY <1>1, <1>7 DEF Waiting
<1>11. ended \subseteq ended' /\ (procs'[k].state = "ok" => procs[k].run \in ended')
  BY <1>7, <1>8
<1> QED
  BY <1>1, <1>5, <1>6, <1>7, <1>8, <1>9, <1>10, <1>11, ProcMoves DEF LabShape

\* The reaper of a run that is not broken takes its own process.
LEMMA ReapBeginsStep ==
    ASSUME LabIInv, NEW k \in DOMAIN procs, ReapBegins(k), UNCHANGED call
    PROVE  LabIInv'
<1>1. LabShape /\ Alone /\ EndsAreKept /\ procs \in Seq(ProcType)
  BY DEF LabIInv, LabShape
<1>2. /\ proc \in Nat /\ proc = Len(procs) /\ DOMAIN procs = 1 .. proc
      /\ \A j \in 1 .. proc : procs[j] \in ProcType
  BY ProcFacts
<1>3. proc \in DOMAIN procs /\ procs[k] \in ProcType /\ procs[proc] \in ProcType
  BY <1>2
<1>4. /\ UNCHANGED <<second, proc, broken, call>>
      /\ meta' = meta /\ ended' = ended
  BY DEF ReapBegins
<1>5. procs[k].reap = "new"
  BY DEF ReapBegins
<1>6. CASE procs[proc].read
  <2>1. procs' = [procs EXCEPT ![k] = [procs[k] EXCEPT !.reap = "lost"]]
    BY <1>6 DEF ReapBegins
  <2>2. [procs[k] EXCEPT !.reap = "lost"] \in ProcType
    BY <1>3 DEF ProcType
  <2>3. procs' \in Seq(ProcType) /\ Len(procs') = Len(procs)
    BY <1>1, <2>1, <2>2
  <2>4. /\ procs'[k] = [procs[k] EXCEPT !.reap = "lost"]
        /\ \A j \in DOMAIN procs \ {k} : procs'[j] = procs[j]
    BY <1>1, <2>1
  <2>5. /\ procs'[k].run = procs[k].run /\ procs'[k].state = procs[k].state
        /\ procs'[k].reap = "lost"
    BY <1>3, <2>4 DEF ProcType
  <2>6. \A j \in DOMAIN procs : procs'[j].run = procs[j].run
    BY <2>4, <2>5
  <2>7. procs'[k].state = "ok" => procs[k].run \in ended'
    BY <1>1, <1>4, <2>5 DEF EndsAreKept
  <2> QED
    BY <1>1, <1>4, <1>5, <2>3, <2>4, <2>5, <2>6, <2>7, ProcMoves DEF LabShape
<1>7. CASE ~ procs[proc].read
  <2> DEFINE mine == [procs[k] EXCEPT !.reap = "waiting", !.of = proc]
             mid  == [procs EXCEPT ![k] = mine]
             read == [mid[proc] EXCEPT !.read = TRUE]
  <2>1. procs' = [mid EXCEPT ![proc] = read]
    BY <1>7 DEF ReapBegins
  <2>2. mine \in ProcType
    BY <1>2, <1>3 DEF ProcType
  <2>3. mine.run = procs[k].run /\ mine.state = procs[k].state /\ mine.reap = "waiting"
        /\ mine.of = proc
    BY <1>3 DEF ProcType
  <2> HIDE DEF mine
  <2>4. /\ mid \in Seq(ProcType) /\ Len(mid) = Len(procs) /\ DOMAIN mid = DOMAIN procs
        /\ mid[k] = mine /\ \A j \in DOMAIN procs \ {k} : mid[j] = procs[j]
    BY <1>1, <2>2
  <2> HIDE DEF mid
  <2>5. mid[proc] \in ProcType
    BY <1>3, <2>4
  <2>6. /\ read \in ProcType
        /\ read.run = mid[proc].run /\ read.state = mid[proc].state
        /\ read.reap = mid[proc].reap /\ read.of = mid[proc].of
    BY <2>5 DEF ProcType
  <2> HIDE DEF read
  <2>7. /\ procs' \in Seq(ProcType) /\ Len(procs') = Len(procs)
        /\ procs'[proc] = read /\ \A j \in DOMAIN procs \ {proc} : procs'[j] = mid[j]
    BY <1>3, <2>1, <2>4, <2>6
  <2>8. \A j \in DOMAIN procs : /\ procs'[j].run = mid[j].run /\ procs'[j].state = mid[j].state
                                /\ procs'[j].reap = mid[j].reap /\ procs'[j].of = mid[j].of
    BY <2>6, <2>7
  <2>9. \A j \in DOMAIN procs : procs'[j].run = procs[j].run
    BY <2>3, <2>4, <2>8
  <2>10. \A j \in DOMAIN procs \ {k} : /\ procs'[j].state = procs[j].state
                                       /\ procs'[j].reap = procs[j].reap
                                       /\ procs'[j].of = procs[j].of
    BY <2>4, <2>8
  <2>11. procs'[k].state = procs[k].state /\ procs'[k].reap = "waiting" /\ procs'[k].of = proc
    BY <2>3, <2>4, <2>8
  <2>12. procs'[k].state = "ok" => procs[k].run \in ended'
    BY <1>1, <1>4, <2>11 DEF EndsAreKept
  <2>13. procs'[k].of \in DOMAIN procs /\ (procs[k].run \notin broken => procs'[k].of = k)
    BY <1>1, <1>3, <1>5, <2>11 DEF Alone
  <2> QED
    BY <1>1, <1>4, <1>5, <2>7, <2>9, <2>10, <2>12, <2>13, ProcMoves DEF LabShape
<1> QED
  BY <1>6, <1>7

LEMMA ReapEndsStep ==
    ASSUME LabIInv, NEW k \in DOMAIN procs, ReapEnds(k), UNCHANGED call
    PROVE  LabIInv'
<1>1. LabShape /\ Waiting /\ EndsAreKept /\ DoneIsTrue /\ procs \in Seq(ProcType)
  BY DEF LabIInv, LabShape
<1>2. /\ proc \in Nat /\ proc = Len(procs) /\ DOMAIN procs = 1 .. proc
      /\ \A j \in 1 .. proc : procs[j] \in ProcType
  BY ProcFacts
<1> DEFINE o == procs[k].of
<1>3. procs[k].reap = "waiting" /\ o \in DOMAIN procs /\ (procs[k].run \notin broken => o = k)
  BY <1>1 DEF ReapEnds, Waiting
<1>4. procs[k] \in ProcType /\ procs[o] \in ProcType
  BY <1>2, <1>3
<1>5. /\ UNCHANGED <<second, proc, broken, call>> /\ ended' = ended
      /\ meta' = [meta EXCEPT ![procs[k].run] = Outcome(k)]
  BY DEF ReapEnds
<1> DEFINE mine == [procs[k] EXCEPT !.reap = "over", !.of = 0]
           mid  == [procs EXCEPT ![k] = mine]
           read == [mid[o] EXCEPT !.read = FALSE]
<1>6. procs' = [mid EXCEPT ![o] = read]
  BY DEF ReapEnds
<1> HIDE DEF o
<1>7. mine \in ProcType /\ mine.run = procs[k].run /\ mine.state = procs[k].state
      /\ mine.reap = "over"
  BY <1>4 DEF ProcType
<1> HIDE DEF mine
<1>8. /\ mid \in Seq(ProcType) /\ Len(mid) = Len(procs) /\ DOMAIN mid = DOMAIN procs
      /\ mid[k] = mine /\ \A j \in DOMAIN procs \ {k} : mid[j] = procs[j]
  BY <1>1, <1>7
<1> HIDE DEF mid
<1>9. mid[o] \in ProcType
  BY <1>3, <1>4, <1>7, <1>8
<1>10. /\ read \in ProcType
       /\ read.run = mid[o].run /\ read.state = mid[o].state
       /\ read.reap = mid[o].reap /\ read.of = mid[o].of
  BY <1>9 DEF ProcType
<1> HIDE DEF read
<1>11. /\ procs' \in Seq(ProcType) /\ Len(procs') = Len(procs)
       /\ procs'[o] = read /\ \A j \in DOMAIN procs \ {o} : procs'[j] = mid[j]
  BY <1>3, <1>6, <1>8, <1>10
<1>12. \A j \in DOMAIN procs : /\ procs'[j].run = mid[j].run /\ procs'[j].state = mid[j].state
                               /\ procs'[j].reap = mid[j].reap /\ procs'[j].of = mid[j].of
  BY <1>10, <1>11
<1>13. \A j \in DOMAIN procs : procs'[j].run = procs[j].run
  BY <1>7, <1>8, <1>12
<1>14. \A j \in DOMAIN procs \ {k} : /\ procs'[j].state = procs[j].state
                                     /\ procs'[j].reap = procs[j].reap
                                     /\ procs'[j].of = procs[j].of
  BY <1>8, <1>12
<1>15. procs'[k].state = procs[k].state /\ procs'[k].reap = "over"
  BY <1>7, <1>8, <1>12
<1>16. procs'[k].state = "ok" => procs[k].run \in ended'
  BY <1>1, <1>5, <1>15 DEF EndsAreKept
<1>17. meta' \in [Runs -> {"none", "running", "done", "failed"}]
  BY <1>1, <1>5 DEF Outcome, LabShape
<1>18. \A r \in Runs \ broken : meta'[r] = "done" => r \in ended' \/ meta[r] = "done"
  <2> SUFFICES ASSUME NEW r \in Runs \ broken, meta'[r] = "done", meta[r] # "done"
               PROVE  r \in ended'
    OBVIOUS
  <2>1. r = procs[k].run /\ Outcome(k) = "done"
    BY <1>1, <1>5 DEF LabShape
  <2>2. o = k /\ procs[o].state = "ok"
    BY <1>3, <2>1 DEF Outcome, o
  <2> QED
    BY <1>1, <1>5, <2>1, <2>2 DEF EndsAreKept
<1> QED
  BY <1>5, <1>11, <1>13, <1>14, <1>15, <1>16, <1>17, <1>18, ProcMoves

LEMMA SecondStep ==
    ASSUME LabIInv, SecondPasses, UNCHANGED call
    PROVE  LabIInv'
<1>1. LabShape /\ CallShape /\ Alone /\ Waiting /\ EndsAreKept /\ DoneIsTrue
  BY DEF LabIInv
<1>2. /\ meta' = meta /\ procs' = procs /\ proc' = proc /\ ended' = ended
      /\ broken' = broken /\ call' = call
      /\ second' = second + 1 /\ second < Seconds
  BY DEF SecondPasses
<1>3. second' \in Runs
  BY <1>1, <1>2, LabAssumption DEF LabShape, Runs
<1>4. LabShape' /\ CallShape' /\ Alone'
  BY <1>1, <1>2, <1>3 DEF LabShape, CallShape, Alone
<1>5. Waiting' /\ EndsAreKept' /\ DoneIsTrue'
  BY <1>1, <1>2 DEF Waiting, EndsAreKept, DoneIsTrue
<1> QED
  BY <1>4, <1>5 DEF LabIInv

LEMMA RestartStep ==
    ASSUME LabIInv, Restart
    PROVE  LabIInv'
<1>1. LabShape /\ DoneIsTrue
  BY DEF LabIInv
<1>2. /\ procs' = <<>> /\ proc' = 0 /\ broken \subseteq broken'
      /\ second' = second /\ meta' = meta /\ ended' = ended
      /\ call' = [h \in Handlers |-> Idle]
  BY DEF Restart, LabRestart
<1>3. /\ DOMAIN call' = Handlers /\ \A h \in Handlers : call'[h].at = "idle"
      /\ DOMAIN procs' = {} /\ Len(procs') = 0 /\ procs' \in Seq(ProcType)
  BY <1>2 DEF Idle
<1>4. LabShape'
  BY <1>1, <1>2, <1>3 DEF LabShape
<1>5. CallShape' /\ Alone'
  BY <1>3 DEF CallShape, Alone
<1>6. Waiting' /\ EndsAreKept' /\ DoneIsTrue'
  BY <1>1, <1>2, <1>3 DEF Waiting, EndsAreKept, DoneIsTrue
<1> QED
  BY <1>4, <1>5, <1>6 DEF LabIInv

------------------------------------------------------------------------------
(* The handlers.                                                            *)

\* Nobody is refused with a 200.
LEMMA RefusalsRefuse == \A sort \in Refusals : sort \in {"refused", "error"}
<1> SUFFICES ASSUME NEW r \in Requests
             PROVE  Sort(Screen(r)) \in {"refused", "error"}
  BY DEF Refusals
<1>1. Screen(r) # 200
  BY DEF Screen
<1> QED
  BY <1>1 DEF Sort

\* The lab stands still while a handler is refused, or does its deed.
LEMMA HandlerStep ==
    ASSUME LabIInv, NEW h \in Handlers,
           \/ Refuse(h) \/ LogRefusal(h) \/ Accept(h)
           \/ Does(h) \/ Unknown(h) \/ Raises(h)
           \/ \E logs \in BOOLEAN : Audit(h, logs)
    PROVE  LabIInv'
<1>1. Idle.at = "idle"
  BY DEF Idle
<1>2. CASE Refuse(h) \/ Unknown(h) \/ Raises(h) \/ \E logs \in BOOLEAN : Audit(h, logs)
  <2>1. call' = [call EXCEPT ![h] = Idle] /\ UNCHANGED labVars
    BY <1>2 DEF Refuse, Unknown, Raises, Audit, Answers
  <2> QED
    BY <1>1, <2>1, CallMoves
<1>3. CASE LogRefusal(h)
  <2> DEFINE c == [Idle EXCEPT !.at = "refusing"]
  <2>1. call' = [call EXCEPT ![h] = c] /\ UNCHANGED labVars
    BY <1>3 DEF LogRefusal, GoesTo
  <2>2. c.at = "refusing"
    BY DEF Idle
  <2> HIDE DEF c
  <2> QED
    BY <2>1, <2>2, CallMoves
<1>4. CASE Accept(h)
  <2>1. PICK kind \in Accepted, key \in Keys :
          GoesTo(h, [Idle EXCEPT !.at = "effect", !.kind = kind,
                                 !.key = IF kind = "save" THEN key ELSE "none"])
    BY <1>4 DEF Accept
  <2> DEFINE c == [Idle EXCEPT !.at = "effect", !.kind = kind,
                               !.key = IF kind = "save" THEN key ELSE "none"]
  <2>2. c.at = "effect" /\ call' = [call EXCEPT ![h] = c] /\ UNCHANGED labVars
    BY <1>4, <2>1 DEF Accept, GoesTo, Idle
  <2> HIDE DEF c
  <2> QED
    BY <2>2, CallMoves
<1>5. CASE Does(h)
  <2>1. PICK report \in Reports(call[h].kind) : GoesTo(h, ToAudit(call[h], report))
    BY <1>5 DEF Does
  <2> DEFINE c == ToAudit(call[h], report)
  <2>2. c.at = "audit" /\ call' = [call EXCEPT ![h] = c] /\ UNCHANGED labVars
    BY <1>5, <2>1 DEF Does, GoesTo, ToAudit
  <2> HIDE DEF c
  <2> QED
    BY <2>2, CallMoves
<1> QED
  BY <1>2, <1>3, <1>4, <1>5

\* A handler goes on, or ends, and no setting that waits for its row is lost.
LEMMA DeedMoves ==
    ASSUME DeedShape, NEW h \in Handlers, NEW c, call' = [call EXCEPT ![h] = c],
           IsDeed(c, overlay'), overlay \subseteq overlay' \/ NobodyLogs
    PROVE  DeedShape'
<1>1. DOMAIN call' = Handlers /\ call'[h] = c /\ \A g \in Handlers : g # h => call'[g] = call[g]
  BY DEF DeedShape
<1>2. ASSUME NEW g \in Handlers
      PROVE  IsDeed(call'[g], overlay')
  <2>1. CASE g = h
    BY <1>1, <2>1
  <2>2. CASE g # h
    BY <1>1, <2>2 DEF DeedShape, IsDeed, NobodyLogs
  <2> QED
    BY <2>1, <2>2
<1> QED
  BY <1>1, <1>2 DEF DeedShape

LEMMA IdleIsNoDeed == \A disk : IsDeed(Idle, disk)
BY DEF IsDeed, Idle

LEMMA TornIsHalf == \A key : Torn(key) => SavesLast'
BY DEF Torn, SavesLast

\* A 200 says what the row says, and that is what was done; a row that could not be
\* written is an error.
LEMMA AuditSays ==
    ASSUME NEW c, NEW disk, IsDeed(c, disk), c.at \in {"audit", "refusing"}, NEW logs \in BOOLEAN,
           answer' = AfterAudit(c, logs)
    PROVE  AnswerStands' /\ AfterAudit(c, logs).key \in disk \cup {"none"}
<1>1. CASE ~ logs
  BY <1>1 DEF AfterAudit, NoAnswer, Agrees, AnswerStands, Sort
<1>2. CASE logs /\ c.at = "audit"
  <2>1. AfterAudit(c, logs)
          = [sort |-> "done", body |-> c.kind, effect |-> c.did, row |-> c.kind, key |-> c.key]
    BY <1>2 DEF AfterAudit, Sort
  <2>2. c.key \in disk \cup {"none"}
    BY <1>2 DEF IsDeed
  <2>3. /\ c.kind \in {"done", "declined", "closed"}
        /\ c.kind = "done" => c.did
        /\ c.kind = "declined" => ~ c.did
    BY <1>2 DEF IsDeed
  <2> QED
    BY <2>1, <2>2, <2>3 DEF Agrees, AnswerStands
<1>3. CASE logs /\ c.at = "refusing"
  BY <1>3 DEF AfterAudit, NoAnswer, Agrees, AnswerStands, Sort
<1> QED
  BY <1>1, <1>2, <1>3

\* The provider has returned: what it did is known, and a saved setting on the disk.
LEMMA DoesStep ==
    ASSUME DeedIInv, NEW h \in Handlers, Does(h)
    PROVE  DeedIInv'
<1>1. DeedShape /\ SavesLast /\ call[h].at = "effect" /\ IsDeed(call[h], overlay)
  BY DEF DeedIInv, DeedShape, Does
<1>2. PICK report \in Reports(call[h].kind) : GoesTo(h, ToAudit(call[h], report))
  BY DEF Does
<1> DEFINE c == ToAudit(call[h], report)
<1>3. /\ report.says \in {"done", "declined", "closed"}
      /\ report.says = "done" => report.did
      /\ report.says = "declined" => ~ report.did
  BY <1>2 DEF Reports
<1>4. /\ overlay' = IF call[h].kind = "save" THEN overlay \cup {call[h].key} ELSE overlay
      /\ saved' = saved /\ answer' = NoAnswer /\ call' = [call EXCEPT ![h] = c]
  BY <1>2 DEF Does, GoesTo, Saved
<1>5. c.at = "audit" /\ c.kind = report.says /\ c.did = report.did /\ c.key = call[h].key
  BY DEF ToAudit
<1> HIDE DEF c
<1>6. overlay \subseteq overlay' /\ c.key \in overlay' \cup {"none"}
  BY <1>1, <1>4, <1>5 DEF IsDeed
<1>7. IsDeed(c, overlay')
  BY <1>3, <1>5, <1>6 DEF IsDeed
<1>8. DeedShape'
  BY <1>1, <1>4, <1>6, <1>7, DeedMoves
<1>9. AnswerStands' /\ SavesLast'
  BY <1>1, <1>4, <1>6 DEF Agrees, AnswerStands, NoAnswer, SavesLast
<1> QED
  BY <1>8, <1>9 DEF DeedIInv

LEMMA RequestStep ==
    ASSUME DeedIInv, NEW h \in Handlers, Request(h)
    PROVE  DeedIInv'
<1>1. DeedShape /\ SavesLast /\ overlay' = overlay /\ saved' = saved
  BY DEF DeedIInv, Request
<1>2. SavesLast' /\ overlay \subseteq overlay'
  BY <1>1 DEF SavesLast
<1>3. CASE Refuse(h)
  <2>1. PICK sort \in Refusals : Answers(h, [NoAnswer EXCEPT !.sort = sort])
    BY <1>3 DEF Refuse
  <2>2. AnswerStands'
    BY <2>1, RefusalsRefuse DEF Agrees, AnswerStands, Answers, NoAnswer
  <2>3. DeedShape'
    BY <1>1, <1>2, <2>1, IdleIsNoDeed, DeedMoves DEF Answers
  <2> QED
    BY <1>2, <2>2, <2>3 DEF DeedIInv
<1>4. CASE LogRefusal(h)
  <2> DEFINE c == [Idle EXCEPT !.at = "refusing"]
  <2>1. call' = [call EXCEPT ![h] = c] /\ answer' = NoAnswer
    BY <1>4 DEF LogRefusal, GoesTo
  <2>2. IsDeed(c, overlay')
    BY DEF IsDeed, Idle
  <2> HIDE DEF c
  <2> QED
    BY <1>1, <1>2, <2>1, <2>2, DeedMoves DEF DeedIInv, Agrees, AnswerStands, NoAnswer
<1>5. CASE Accept(h)
  <2>1. PICK kind \in Accepted, key \in Keys :
          GoesTo(h, [Idle EXCEPT !.at = "effect", !.kind = kind,
                                 !.key = IF kind = "save" THEN key ELSE "none"])
    BY <1>5 DEF Accept
  <2> DEFINE c == [Idle EXCEPT !.at = "effect", !.kind = kind,
                               !.key = IF kind = "save" THEN key ELSE "none"]
  <2>2. call' = [call EXCEPT ![h] = c] /\ answer' = NoAnswer
    BY <2>1 DEF GoesTo
  <2>3. IsDeed(c, overlay')
    BY DEF IsDeed, Idle
  <2> HIDE DEF c
  <2> QED
    BY <1>1, <1>2, <2>2, <2>3, DeedMoves DEF DeedIInv, Agrees, AnswerStands, NoAnswer
<1>6. CASE StartRun(h)
  <2> DEFINE c == [Idle EXCEPT !.at = "spawning", !.kind = "run", !.key = second]
  <2>1. call' = [call EXCEPT ![h] = c] /\ answer' = NoAnswer
    BY <1>6 DEF StartRun, GoesTo
  <2>2. IsDeed(c, overlay')
    BY DEF IsDeed, Idle
  <2> HIDE DEF c
  <2> QED
    BY <1>1, <1>2, <2>1, <2>2, DeedMoves DEF DeedIInv, Agrees, AnswerStands, NoAnswer
<1> QED
  BY <1>3, <1>4, <1>5, <1>6 DEF Request

\* A provider that raises may leave the file of the settings torn; nobody waits for
\* a row then.
LEMMA EndStep ==
    ASSUME DeedIInv, NEW h \in Handlers,
           \/ Unknown(h) \/ Raises(h) \/ RunSpawnFails(h)
           \/ \E logs \in BOOLEAN : Audit(h, logs)
    PROVE  DeedIInv'
<1>1. DeedShape /\ SavesLast
  BY DEF DeedIInv
<1>2. CASE Unknown(h) \/ RunSpawnFails(h)
  <2>1. /\ call' = [call EXCEPT ![h] = Idle] /\ UNCHANGED <<overlay, saved>>
        /\ ~ answer'.effect /\ answer'.row = "none" /\ answer'.body = "none"
        /\ answer'.sort # "done"
    BY <1>2 DEF Unknown, RunSpawnFails, Answers, NoAnswer, Sort
  <2> QED
    BY <1>1, <2>1, IdleIsNoDeed, DeedMoves DEF DeedIInv, Agrees, AnswerStands, SavesLast
<1>3. CASE Raises(h)
  <2>1. PICK did \in BOOLEAN :
          /\ call' = [call EXCEPT ![h] = Idle] /\ NobodyLogs
          /\ answer' = [NoAnswer EXCEPT !.sort = Sort(500), !.effect = did]
    BY <1>3 DEF Raises, Answers
  <2>2. UNCHANGED <<overlay, saved>> \/ Torn(call[h].key)
    BY <1>3 DEF Raises
  <2>3. SavesLast'
    BY <1>1, <2>2, TornIsHalf DEF SavesLast
  <2>4. AnswerStands'
    BY <2>1 DEF Agrees, AnswerStands, NoAnswer, Sort
  <2>5. DeedShape'
    BY <1>1, <2>1, IdleIsNoDeed, DeedMoves
  <2> QED
    BY <1>1, <2>3, <2>4, <2>5 DEF DeedIInv
<1>4. ASSUME NEW logs \in BOOLEAN, Audit(h, logs)
      PROVE  DeedIInv'
  <2>1. /\ call[h].at \in {"audit", "refusing"} /\ call' = [call EXCEPT ![h] = Idle]
        /\ answer' = AfterAudit(call[h], logs) /\ overlay' = overlay
        /\ saved' = saved \cup ({AfterAudit(call[h], logs).key} \ {"none"})
    BY <1>4 DEF Audit, Answers
  <2>2. AnswerStands' /\ AfterAudit(call[h], logs).key \in overlay \cup {"none"}
    BY <1>1, <2>1, AuditSays DEF DeedShape
  <2>3. SavesLast'
    BY <1>1, <2>1, <2>2 DEF SavesLast
  <2>4. DeedShape'
    BY <1>1, <2>1, IdleIsNoDeed, DeedMoves
  <2> QED
    BY <2>2, <2>3, <2>4 DEF DeedIInv
<1> QED
  BY <1>2, <1>3, <1>4

LEMMA SpawnedIsADeed ==
    ASSUME DeedIInv, NEW h \in Handlers, RunSpawned(h)
    PROVE  DeedIInv'
<1>1. DeedShape /\ SavesLast
  BY DEF DeedIInv
<1>2. PICK report \in Reports("run") : GoesTo(h, ToAudit(Idle, report))
  BY DEF RunSpawned
<1>3. report = [says |-> "done", did |-> TRUE]
  BY <1>2 DEF Reports
<1> DEFINE c == ToAudit(Idle, report)
<1>4. call' = [call EXCEPT ![h] = c] /\ answer' = NoAnswer /\ UNCHANGED <<overlay, saved>>
  BY <1>2 DEF RunSpawned, GoesTo
<1>5. IsDeed(c, overlay')
  BY <1>3 DEF IsDeed, ToAudit, Idle
<1> HIDE DEF c
<1> QED
  BY <1>1, <1>4, <1>5, DeedMoves DEF DeedIInv, Agrees, AnswerStands, NoAnswer, SavesLast

\* Nothing that waits for its row is left after a restart.
LEMMA RestartKeepsSaves ==
    ASSUME DeedIInv, Restart
    PROVE  DeedIInv'
<1>1. SavesLast /\ call' = [h \in Handlers |-> Idle] /\ answer' = NoAnswer
  BY DEF DeedIInv, Restart
<1>2. DeedShape'
  BY <1>1, IdleIsNoDeed DEF DeedShape
<1>3. SavesLast'
  BY <1>1, TornIsHalf DEF Restart, SavesLast
<1> QED
  BY <1>1, <1>2, <1>3 DEF DeedIInv, Agrees, AnswerStands, NoAnswer

LEMMA CockpitStep ==
    CockpitIInv /\ [CockpitNext]_<<labVars, cockpitVars>> => CockpitIInv'
<1> SUFFICES ASSUME CockpitIInv, [CockpitNext]_<<labVars, cockpitVars>>
             PROVE  CockpitIInv'
  OBVIOUS
<1>1. LabIInv /\ DeedIInv
  BY DEF CockpitIInv
<1>2. CASE \E h \in Handlers : Request(h)
  <2>1. PICK h \in Handlers : Request(h)
    BY <1>2
  <2>2. LabIInv'
    BY <1>1, <2>1, HandlerStep, StartRunStep DEF Request
  <2>3. DeedIInv'
    BY <1>1, <2>1, RequestStep
  <2> QED
    BY <2>2, <2>3 DEF CockpitIInv
<1>3. CASE \E h \in Handlers : Does(h) \/ Unknown(h) \/ Raises(h)
                               \/ \E logs \in BOOLEAN : Audit(h, logs)
  <2>1. PICK h \in Handlers : Does(h) \/ Unknown(h) \/ Raises(h)
                              \/ \E logs \in BOOLEAN : Audit(h, logs)
    BY <1>3
  <2>2. LabIInv'
    BY <1>1, <2>1, HandlerStep
  <2>3. DeedIInv'
    BY <1>1, <2>1, DoesStep, EndStep
  <2> QED
    BY <2>2, <2>3 DEF CockpitIInv
<1>4. CASE \E h \in Handlers : RunSpawned(h) \/ RunSpawnFails(h)
  <2>1. PICK h \in Handlers : RunSpawned(h) \/ RunSpawnFails(h)
    BY <1>4
  <2>2. LabIInv'
    BY <1>1, <2>1, RunSpawnedStep, RunSpawnFailsStep
  <2>3. DeedIInv'
    BY <1>1, <2>1, SpawnedIsADeed, EndStep
  <2> QED
    BY <2>2, <2>3 DEF CockpitIInv
<1>5. ASSUME Aside
      PROVE  call' = call /\ DeedIInv'
  <2>1. answer' = NoAnswer /\ call' = call /\ overlay' = overlay /\ saved' = saved
    BY <1>5 DEF Aside
  <2>2. DeedShape' /\ SavesLast'
    BY <1>1, <2>1 DEF DeedIInv, DeedShape, SavesLast
  <2> QED
    BY <2>1, <2>2 DEF DeedIInv, Agrees, AnswerStands, NoAnswer
<1>6. CASE \E k \in DOMAIN procs : Reaps(k) /\ Aside
  <2>1. PICK k \in DOMAIN procs : Reaps(k) /\ Aside
    BY <1>6
  <2>2. call' = call /\ DeedIInv'
    BY <1>5, <2>1
  <2>3. LabIInv'
    BY <1>1, <2>1, <2>2, ProcWritesStep, ProcEndsStep, ReapBeginsStep, ReapEndsStep DEF Reaps
  <2> QED
    BY <2>2, <2>3 DEF CockpitIInv
<1>7. CASE SecondPasses /\ Aside
  BY <1>1, <1>5, <1>7, SecondStep DEF CockpitIInv
<1>8. CASE Restart
  BY <1>1, <1>8, RestartStep, RestartKeepsSaves DEF CockpitIInv
<1>9. CASE UNCHANGED <<labVars, cockpitVars>>
  <2>1. /\ second' = second /\ meta' = meta /\ results' = results /\ procs' = procs
        /\ proc' = proc /\ starts' = starts /\ ended' = ended /\ broken' = broken
        /\ call' = call /\ answer' = answer /\ overlay' = overlay /\ saved' = saved
    BY <1>9 DEF labVars, cockpitVars
  <2>2. LabShape' /\ CallShape' /\ Alone'
    BY <1>1, <2>1 DEF LabIInv, LabShape, CallShape, Alone
  <2>3. Waiting' /\ EndsAreKept' /\ DoneIsTrue'
    BY <1>1, <2>1 DEF LabIInv, Waiting, EndsAreKept, DoneIsTrue
  <2>4. DeedShape' /\ AnswerStands' /\ SavesLast'
    BY <1>1, <2>1 DEF DeedIInv, DeedShape, Agrees, AnswerStands, SavesLast
  <2> QED
    BY <2>2, <2>3, <2>4 DEF LabIInv, DeedIInv, CockpitIInv
<1> QED
  BY <1>2, <1>3, <1>4, <1>6, <1>7, <1>8, <1>9 DEF CockpitNext

LEMMA CockpitStart == CockpitInit => CockpitIInv
<1> SUFFICES ASSUME CockpitInit
             PROVE  CockpitIInv
  OBVIOUS
<1>1. /\ second = 1 /\ meta = [r \in Runs |-> "none"] /\ procs = <<>> /\ proc = 0
      /\ call = [h \in Handlers |-> Idle] /\ answer = NoAnswer /\ overlay = {} /\ saved = {}
  BY DEF CockpitInit, LabInit
<1>2. /\ DOMAIN call = Handlers /\ \A h \in Handlers : call[h].at = "idle"
      /\ DOMAIN procs = {} /\ Len(procs) = 0 /\ procs \in Seq(ProcType)
  BY <1>1 DEF Idle
<1>3. LabShape
  BY <1>1, <1>2, LabAssumption DEF LabShape, Runs
<1>4. CallShape /\ Alone
  BY <1>2 DEF CallShape, Alone
<1>5. Waiting /\ EndsAreKept /\ DoneIsTrue
  BY <1>1, <1>2 DEF Waiting, EndsAreKept, DoneIsTrue
<1>6. DeedIInv
  BY <1>1, IdleIsNoDeed DEF DeedIInv, DeedShape, Agrees, AnswerStands, NoAnswer, SavesLast
<1> QED
  BY <1>3, <1>4, <1>5, <1>6 DEF LabIInv, CockpitIInv

\* The gateway and the lab keep their inductive invariant: every handler, at each
\* place it may wait, every process and reaper, and a restart
\* (cockpit_gateway.py, research_lab.py).
THEOREM CockpitInvariance == CockpitSpec => []CockpitIInv
<1> QED
  BY CockpitStart, CockpitStep, PTL DEF CockpitSpec

\* For any number of handlers and settings: an answer and its row say the same, of
\* a deed done, or declined, nothing is done of a request that is refused, and a
\* setting whose save was acknowledged is on the disk through the saves of others,
\* failed saves and restarts, until a write of the file is torn (cockpit_gateway.py,
\* broker_settings.py).
THEOREM AnswersKeepTheirWord == CockpitSpec => []AnswersAreTrue
<1>1. CockpitIInv => AnswersAreTrue
  BY DEF CockpitIInv, DeedIInv, AnswerStands, SavesLast, AnswersAreTrue
<1> QED
  BY <1>1, CockpitInvariance, PTL

\* For any number of starts, overlapping or not: a run that is shown as done, was
\* started on its own and not cut short, had a replay that ended well, although
\* every reaper waits for the process that _proc names when it wakes.
THEOREM DoneRunsEndedWell == CockpitSpec => []DoneIsTrue
<1>1. CockpitIInv => DoneIsTrue
  BY DEF CockpitIInv, LabIInv
<1> QED
  BY <1>1, CockpitInvariance, PTL

------------------------------------------------------------------------------
(* MarketClock: slots, days and weeks.                                      *)

\* A session of India begins within the days next_open looks at: where none
\* does, it raises.
OpensAgain(now) ==
    LET ist == now + IST
    IN  \E d \in Ahead(ist) : IndiaDayOk(d) /\ d * SlotsPerDay + IndiaOpen > ist

LEMMA SlotFacts ==
    ASSUME NEW x \in Nat
    PROVE  /\ Day(x) \in Nat /\ Time(x) \in Nat /\ Time(x) < SlotsPerDay
           /\ x = Day(x) * SlotsPerDay + Time(x)
<1>1. SlotsPerDay \in Nat \ {0}
  BY ClockAssumption
<1> QED
  BY <1>1 DEF Day, Time

\* A later day begins after the end of an earlier one.
LEMMA DaysFollow ==
    ASSUME NEW d \in Nat, NEW e \in Nat, d < e
    PROVE  (d + 1) * SlotsPerDay <= e * SlotsPerDay
<1>1. SlotsPerDay \in Nat \ {0}
  BY ClockAssumption
<1>2. e - (d + 1) \in Nat
  OBVIOUS
<1>3. (e - (d + 1)) * SlotsPerDay \in Nat
  BY <1>1, <1>2
<1> QED
  BY <1>1, <1>3

\* The slots of a day are those from its first up to the first of the next.
LEMMA SlotOf ==
    ASSUME NEW x \in Nat, NEW d \in Nat, d * SlotsPerDay <= x, x < (d + 1) * SlotsPerDay
    PROVE  Day(x) = d /\ Time(x) = x - d * SlotsPerDay
<1>1. SlotsPerDay \in Nat \ {0}
  BY ClockAssumption
<1>2. /\ Day(x) \in Nat /\ Time(x) \in Nat /\ Time(x) < SlotsPerDay
      /\ x = Day(x) * SlotsPerDay + Time(x)
  BY SlotFacts
<1> DEFINE e == Day(x)
           slot == Time(x)
<1> HIDE DEF e, slot
<1>3. e \in Nat /\ slot \in Nat /\ slot < SlotsPerDay /\ x = e * SlotsPerDay + slot
  BY <1>2 DEF e, slot
<1>4. (d + 1) * SlotsPerDay = d * SlotsPerDay + SlotsPerDay
      /\ (e + 1) * SlotsPerDay = e * SlotsPerDay + SlotsPerDay
      /\ d * SlotsPerDay \in Nat /\ e * SlotsPerDay \in Nat
  BY <1>1, <1>3
<1>5. ~ (d < e) /\ ~ (e < d)
  BY <1>1, <1>3, <1>4, DaysFollow
<1>6. d = e
  BY <1>3, <1>5
<1> QED
  BY <1>3, <1>4, <1>6 DEF e, slot

LEMMA SlotAt ==
    ASSUME NEW d \in Nat, NEW slot \in Nat, slot < SlotsPerDay
    PROVE  /\ d * SlotsPerDay + slot \in Nat
           /\ Day(d * SlotsPerDay + slot) = d /\ Time(d * SlotsPerDay + slot) = slot
<1>1. SlotsPerDay \in Nat \ {0}
  BY ClockAssumption
<1> DEFINE p == d * SlotsPerDay
<1>2. p \in Nat /\ (d + 1) * SlotsPerDay = p + SlotsPerDay
  BY <1>1
<1>3. p + slot \in Nat /\ p <= p + slot /\ p + slot < (d + 1) * SlotsPerDay
  BY <1>1, <1>2
<1>4. Day(p + slot) = d /\ Time(p + slot) = (p + slot) - p
  BY <1>3, SlotOf
<1> QED
  BY <1>2, <1>3, <1>4

LEMMA LaterDays ==
    ASSUME NEW x \in Nat, NEW y \in Nat, x <= y
    PROVE  Day(x) <= Day(y)
<1>1. SlotsPerDay \in Nat \ {0}
  BY ClockAssumption
<1> DEFINE d == Day(x)
           e == Day(y)
<1>2. /\ d \in Nat /\ e \in Nat /\ d * SlotsPerDay <= x /\ y < (e + 1) * SlotsPerDay
  <2>1. /\ d \in Nat /\ Time(x) \in Nat /\ x = d * SlotsPerDay + Time(x)
        /\ e \in Nat /\ Time(y) < SlotsPerDay /\ Time(y) \in Nat /\ y = e * SlotsPerDay + Time(y)
    BY SlotFacts
  <2> HIDE DEF d, e
  <2>2. d * SlotsPerDay \in Nat /\ e * SlotsPerDay \in Nat
        /\ (e + 1) * SlotsPerDay = e * SlotsPerDay + SlotsPerDay
    BY <1>1, <2>1
  <2> QED
    BY <1>1, <2>1, <2>2
<1> HIDE DEF d, e
<1>3. ~ (e < d)
  BY <1>1, <1>2, DaysFollow
<1> QED
  BY <1>2, <1>3 DEF d, e

\* The earliest of a set of slots
LEMMA EarliestFacts ==
    ASSUME NEW S, S \subseteq Nat, S # {}
    PROVE  Earliest(S) \in S /\ \A s \in S : Earliest(S) <= s
<1> DEFINE R == OpToRel(<, Nat)
<1>1. IsWellFoundedOn(R, Nat) /\ R = {p \in Nat \X Nat : p[1] < p[2]}
  BY NatLessThanWellFounded DEF OpToRel
<1> HIDE DEF R
<1>2. PICK s \in S : \A q \in S : ~ (<<q, s>> \in R)
  BY <1>1, WFMin
<1>3. ASSUME NEW q \in S, ~ (s <= q)
      PROVE  FALSE
  <2>1. q \in Nat /\ s \in Nat /\ q < s
    BY <1>3
  <2>2. <<q, s>> \in R
    BY <1>1, <2>1
  <2> QED
    BY <1>2, <2>2
<1> QED
  BY <1>3 DEF Earliest, Min

------------------------------------------------------------------------------
(* India.                                                                   *)

Start(d) == d * SlotsPerDay + IndiaOpen

\* Open, in Indian time, is within a session.
LEMMA InSession ==
    ASSUME NEW now \in Nat, NEW d \in Nat, Day(now + IST) = d
    PROVE  /\ now + IST \in Nat
           /\ IndiaOpenAt(now) <=> /\ IndiaDayOk(d) /\ Start(d) <= now + IST
                                   /\ now + IST < d * SlotsPerDay + IndiaClose
           /\ d * SlotsPerDay \in Nat
<1>1. SlotsPerDay \in Nat \ {0} /\ IST \in Nat /\ IndiaOpen \in Nat /\ IndiaClose \in Nat
  BY ClockAssumption
<1>2. now + IST \in Nat
  BY <1>1
<1>3. Time(now + IST) \in Nat /\ now + IST = d * SlotsPerDay + Time(now + IST)
  BY <1>2, SlotFacts
<1>4. d * SlotsPerDay \in Nat
  BY <1>1
<1> QED
  BY <1>1, <1>2, <1>3, <1>4 DEF IndiaOpenAt, Start

LEMMA IndiaReopens ==
    ASSUME NEW now \in Nat, ~ IndiaOpenAt(now), OpensAgain(now)
    PROVE  /\ IndiaNextOpen(now) > now /\ IndiaOpenAt(IndiaNextOpen(now))
           /\ \A x \in now .. IndiaNextOpen(now) - 1 : ~ IndiaOpenAt(x)
<1> DEFINE ist    == now + IST
           days   == {d \in Ahead(ist) : IndiaDayOk(d)}
           opens == {day * SlotsPerDay + IndiaOpen : day \in days}
           later  == {s \in opens : s > ist}
           first  == Earliest(later)
<1>1. /\ SlotsPerDay \in Nat \ {0} /\ IST \in Nat
      /\ IndiaOpen \in Nat /\ IndiaClose \in Nat /\ IndiaOpen < IndiaClose
      /\ IndiaOpen < SlotsPerDay /\ IndiaClose < SlotsPerDay
  BY ClockAssumption
<1>2. ist \in Nat /\ Day(ist) \in Nat
  BY <1>1, SlotFacts
<1>3. later \subseteq Nat /\ later # {}
  <2>1. \A d \in days : d \in Nat /\ d * SlotsPerDay + IndiaOpen \in Nat
    <3>1. \A d \in days : d \in Nat
      BY <1>2 DEF Ahead
    <3>2. \A d \in Nat : d * SlotsPerDay + IndiaOpen \in Nat
      BY <1>1
    <3> QED
      BY <3>1, <3>2
  <2> QED
    BY <2>1 DEF OpensAgain
<1>4. first \in later /\ \A s \in later : first <= s
  BY <1>3, EarliestFacts
<1>5. IndiaNextOpen(now) = first - IST
  <2>1. first # Never
    BY <1>3, <1>4 DEF Never
  <2> QED
    BY <2>1 DEF IndiaNextOpen
<1>6. PICK d \in Ahead(ist) : IndiaDayOk(d) /\ first = Start(d)
  BY <1>4 DEF Start
<1>7. d \in Nat /\ first \in Nat /\ first > ist /\ Day(ist) <= d /\ d <= Day(ist) + 369
  BY <1>2, <1>3, <1>4 DEF Ahead
<1> DEFINE next == first - IST
<1>8. next \in Nat /\ next > now /\ next + IST = first
  BY <1>1, <1>7
<1>9. \A e \in Nat : Day(ist) <= e /\ e <= d /\ IndiaDayOk(e) /\ Start(e) > ist => first <= Start(e)
  <2>1. ASSUME NEW e \in Nat, Day(ist) <= e, e <= d, IndiaDayOk(e), Start(e) > ist
        PROVE  Start(e) \in later
    <3>1. e \in Ahead(ist)
      BY <1>2, <1>7, <2>1 DEF Ahead
    <3> QED
      BY <2>1, <3>1 DEF Start
  <2> QED
    BY <1>4, <2>1
<1> HIDE DEF first, later, opens, days
<1>10. IndiaOpenAt(next)
  <2>1. Day(first) = d
    BY <1>1, <1>6, <1>7, SlotAt DEF Start
  <2>2. first < d * SlotsPerDay + IndiaClose
    <3>1. d * SlotsPerDay \in Nat
      BY <1>1, <1>7
    <3> QED
      BY <1>1, <1>6, <3>1 DEF Start
  <2> QED
    BY <1>6, <1>7, <1>8, <2>1, <2>2, InSession
<1>11. ASSUME NEW x \in now .. next - 1, IndiaOpenAt(x)
       PROVE  FALSE
  <2> DEFINE e == Day(x + IST)
  <2>1. x \in Nat /\ x >= now /\ x + IST \in Nat /\ ist <= x + IST /\ x + IST < first
    BY <1>1, <1>2, <1>7, <1>8, <1>11
  <2>2. e \in Nat /\ Day(ist) <= e /\ Day(first) = d /\ e <= d
    <3>1. Day(first) = d
      BY <1>1, <1>6, <1>7, SlotAt DEF Start
    <3> QED
      BY <1>2, <1>7, <2>1, <3>1, SlotFacts, LaterDays
  <2> HIDE DEF e
  <2>3. /\ IndiaDayOk(e) /\ Start(e) <= x + IST /\ x + IST < e * SlotsPerDay + IndiaClose
        /\ e * SlotsPerDay \in Nat
    BY <1>11, <2>1, <2>2, InSession DEF e
  <2>4. Start(e) \in Nat
    BY <1>1, <2>3 DEF Start
  <2>5. Start(e) <= ist
    BY <1>2, <1>7, <1>9, <2>1, <2>2, <2>3, <2>4
  <2>6. Day(ist) = e
    <3>1. e * SlotsPerDay <= ist /\ ist < (e + 1) * SlotsPerDay
      BY <1>1, <1>2, <2>1, <2>2, <2>3, <2>5 DEF Start
    <3> QED
      BY <1>2, <2>2, <3>1, SlotOf
  <2>7. ist < e * SlotsPerDay + IndiaClose
    BY <1>1, <1>2, <2>1, <2>3
  <2>8. IndiaOpenAt(now)
    BY <2>2, <2>3, <2>5, <2>6, <2>7, InSession
  <2> QED
    BY <2>8
<1> QED
  BY <1>5, <1>8, <1>10, <1>11

LEMMA IndiaCloses ==
    ASSUME NEW now \in Nat, IndiaOpenAt(now)
    PROVE  /\ IndiaNextClose(now) > now /\ ~ IndiaOpenAt(IndiaNextClose(now))
           /\ \A x \in now .. IndiaNextClose(now) - 1 : IndiaOpenAt(x)
<1> DEFINE d     == Day(now + IST)
           close == d * SlotsPerDay + IndiaClose
           next  == close - IST
<1>1. /\ SlotsPerDay \in Nat \ {0} /\ IST \in Nat
      /\ IndiaOpen \in Nat /\ IndiaClose \in Nat /\ IndiaOpen < IndiaClose
      /\ IndiaClose < SlotsPerDay
  BY ClockAssumption
<1>2. d \in Nat
  BY <1>1, SlotFacts
<1>3. IndiaNextClose(now) = next
  <2>1. IndiaNextClose(now) = Day(now + IST) * SlotsPerDay + IndiaClose - IST
    BY Zenon DEF IndiaNextClose
  <2> QED
    BY <1>1, <1>2, <2>1
<1>4. /\ IndiaDayOk(d) /\ Start(d) <= now + IST /\ now + IST < close
      /\ d * SlotsPerDay \in Nat /\ Day(now + IST) = d
  BY <1>2, InSession
<1> HIDE DEF d
<1>5. close \in Nat /\ next \in Nat /\ next > now /\ next + IST = close
  BY <1>1, <1>4
<1>6. Day(close) = d
  BY <1>1, <1>2, SlotAt
<1>7. ~ IndiaOpenAt(next)
  BY <1>2, <1>5, <1>6, InSession
<1>8. ASSUME NEW x \in now .. next - 1
      PROVE  IndiaOpenAt(x)
  <2>1. x \in Nat /\ x + IST \in Nat /\ now + IST <= x + IST /\ x + IST < close
    BY <1>1, <1>5
  <2>2. Start(d) <= x + IST /\ d * SlotsPerDay <= x + IST
    BY <1>1, <1>4, <2>1 DEF Start
  <2>3. (d + 1) * SlotsPerDay = d * SlotsPerDay + SlotsPerDay
    BY <1>1, <1>2
  <2>4. x + IST < (d + 1) * SlotsPerDay
    BY <1>1, <1>4, <2>1, <2>3
  <2>5. Day(x + IST) = d
    BY <1>2, <2>1, <2>2, <2>4, SlotOf
  <2> QED
    BY <1>2, <1>4, <2>1, <2>2, <2>5, InSession
<1> QED
  BY <1>3, <1>5, <1>7, <1>8

------------------------------------------------------------------------------
(* Forex: weeks, and slots of the week.                                     *)

LEMMA DaysOfTheWeek ==
    ASSUME NEW d \in Nat, NEW j \in 0 .. 7
    PROVE  /\ d % 7 \in 0 .. 6
           /\ (d + j) % 7 = IF (d % 7) + j < 7 THEN (d % 7) + j ELSE (d % 7) + j - 7
OBVIOUS

LEMMA FxOpenFacts ==
    ASSUME NEW x \in Nat
    PROVE  FxOpenAt(x) <=> /\ FxOpenDow <= Day(x) % 7 /\ Day(x) % 7 <= FxCloseDow
                           /\ Day(x) % 7 = FxOpenDow => Time(x) >= FxOpen
                           /\ Day(x) % 7 = FxCloseDow => Time(x) < FxClose
<1>1. {FxOpen, FxClose, FxOpenDow, FxCloseDow} \subseteq Int
  BY ClockAssumption
<1>2. Day(x) % 7 \in Int /\ Time(x) \in Int
  BY SlotFacts
<1> QED
  BY <1>1, <1>2 DEF FxOpenAt, Dow

LEMMA FxReopens ==
    ASSUME NEW now \in Nat, ~ FxOpenAt(now)
    PROVE  /\ FxNextOpen(now) > now /\ FxOpenAt(FxNextOpen(now))
           /\ \A x \in now .. FxNextOpen(now) - 1 : ~ FxOpenAt(x)
<1> DEFINE today == Day(now)
           slot      == Time(now)
           FxStart(d) == d * SlotsPerDay + FxOpen
           days   == {d \in today .. today + 7 : d % 7 = FxOpenDow}
           opens == {d * SlotsPerDay + FxOpen : d \in days}
           later  == {s \in opens : s > now}
           first  == Earliest(later)
           dow    == today % 7
\* The day the market opens on: today, or the first one of this week or the next
\* on which it does.
           ahead == IF dow = FxOpenDow /\ slot < FxOpen THEN 0
                    ELSE IF dow < FxOpenDow THEN FxOpenDow - dow ELSE FxOpenDow - dow + 7
           day   == today + ahead
<1>1. /\ SlotsPerDay \in Nat \ {0} /\ FxOpen \in Nat /\ FxOpen < SlotsPerDay
      /\ FxOpenDow \in 0 .. 6 /\ FxCloseDow \in 0 .. 6 /\ FxOpenDow < FxCloseDow
      /\ FxClose \in Nat
  BY ClockAssumption
<1>2. /\ today \in Nat /\ slot \in Nat /\ slot < SlotsPerDay
      /\ now = today * SlotsPerDay + slot /\ today * SlotsPerDay \in Nat
  <2>1. /\ today \in Nat /\ slot \in Nat /\ slot < SlotsPerDay
        /\ now = today * SlotsPerDay + slot
    BY SlotFacts
  <2> QED
    BY <1>1, <2>1
<1>3. dow \in 0 .. 6 /\ FxNextOpen(now) = first
  BY <1>2 DEF FxNextOpen
<1>4. ~ /\ FxOpenDow <= dow /\ dow <= FxCloseDow
        /\ dow = FxOpenDow => slot >= FxOpen
        /\ dow = FxCloseDow => slot < FxClose
  BY FxOpenFacts
<1> HIDE DEF today, slot, first, opens, later
<1>5. /\ ahead \in 0 .. 7 /\ day \in Nat /\ day % 7 = FxOpenDow
      /\ ahead = 0 => slot < FxOpen
  BY <1>1, <1>2, <1>3
\* Up to that day, the market stays closed.
<1>6. ASSUME NEW e \in Nat, today < e, e < day
      PROVE  e % 7 < FxOpenDow \/ e % 7 > FxCloseDow
  <2> DEFINE j == e - today
  <2>1. j \in 1 .. 6 /\ j < ahead /\ e = today + j
    BY <1>2, <1>5, <1>6
  <2>2. e % 7 = IF dow + j < 7 THEN dow + j ELSE dow + j - 7
    BY <1>2, <2>1, DaysOfTheWeek
  <2> HIDE DEF j, dow
  <2> QED
    BY <1>1, <1>2, <1>3, <1>4, <2>1, <2>2
<1>7. today < day => dow < FxOpenDow \/ dow > FxCloseDow \/ (dow = FxCloseDow /\ slot >= FxClose)
  <2> HIDE DEF dow
  <2>1. today < day => ~ (dow = FxOpenDow /\ slot < FxOpen)
    BY <1>2
  <2> HIDE DEF day
  <2> QED
    BY <1>1, <1>2, <1>3, <1>4, <2>1
<1>8. today < day /\ dow = FxOpenDow => slot >= FxOpen
  BY <1>1, <1>2, <1>3
<1> HIDE DEF dow, ahead
<1>9. \A e \in Nat : e * SlotsPerDay \in Nat /\ FxStart(e) \in Nat
  <2>1. \A e \in Nat : e * SlotsPerDay \in Nat
    BY <1>1
  <2> QED
    BY <1>1, <2>1
<1>10. FxStart(day) > now
  <2>1. CASE day = today
    BY <1>1, <1>2, <1>5, <2>1 DEF ahead
  <2>2. CASE today < day
    <3>1. (today + 1) * SlotsPerDay <= day * SlotsPerDay
      BY <1>2, <1>5, <2>2, DaysFollow
    <3>2. (today + 1) * SlotsPerDay = today * SlotsPerDay + SlotsPerDay
      BY <1>1, <1>2
    <3> HIDE DEF day
    <3> QED
      BY <1>1, <1>2, <1>5, <1>9, <3>1, <3>2
  <2> QED
    BY <1>2, <1>5, <2>1, <2>2
<1>11. day \in days /\ FxStart(day) \in later
  <2>1. day \in days
    BY <1>2, <1>5
  <2> QED
    BY <1>10, <2>1 DEF later, opens
<1>12. later \subseteq Nat
  BY <1>2, <1>9 DEF later, opens
<1>13. first \in later /\ first <= FxStart(day)
  BY <1>11, <1>12, EarliestFacts DEF first
<1>14. PICK e \in days : first = FxStart(e) /\ FxStart(e) > now
  BY <1>13 DEF later, opens
<1> HIDE DEF day
<1>15. e \in Nat /\ today <= e /\ e % 7 = FxOpenDow
  BY <1>2, <1>14
<1>16. e = day
  <2>1. ~ (day < e)
    <3>1. ASSUME day < e
          PROVE  FALSE
      <4>1. (day + 1) * SlotsPerDay <= e * SlotsPerDay
        BY <1>5, <1>15, <3>1, DaysFollow
      <4>2. (day + 1) * SlotsPerDay = day * SlotsPerDay + SlotsPerDay
        BY <1>1, <1>5
      <4> QED
        BY <1>1, <1>5, <1>9, <1>13, <1>14, <1>15, <4>1, <4>2
    <3> QED
      BY <3>1
  <2>2. ~ (today < e /\ e < day)
    BY <1>1, <1>6, <1>15
  <2>3. ~ (e = today /\ today < day)
    <3>1. ASSUME e = today, today < day
          PROVE  FALSE
      <4>1. slot >= FxOpen
        BY <1>8, <1>15, <3>1 DEF dow
      <4> QED
        BY <1>1, <1>2, <1>14, <3>1, <4>1
    <3> QED
      BY <3>1
  <2> QED
    BY <1>2, <1>5, <1>15, <2>1, <2>2, <2>3
<1>17. first = FxStart(day) /\ first \in Nat /\ first > now
  BY <1>5, <1>9, <1>14, <1>16
<1>18. Day(first) = day /\ Time(first) = FxOpen
  BY <1>1, <1>5, <1>17, SlotAt
<1>19. FxOpenAt(first)
  BY <1>1, <1>5, <1>17, <1>18, FxOpenFacts
<1>20. ASSUME NEW x \in now .. first - 1, FxOpenAt(x)
       PROVE  FALSE
  <2> DEFINE f == Day(x)
             u == Time(x)
  <2>1. x \in Nat /\ now <= x /\ x < first
    BY <1>17, <1>20
  <2>2. f \in Nat /\ u \in Nat /\ x = f * SlotsPerDay + u /\ today <= f /\ f <= day
    BY <1>17, <1>18, <2>1, SlotFacts, LaterDays DEF today
  <2>3. /\ FxOpenDow <= f % 7 /\ f % 7 <= FxCloseDow
        /\ f % 7 = FxOpenDow => u >= FxOpen
        /\ f % 7 = FxCloseDow => u < FxClose
    BY <1>20, <2>1, FxOpenFacts
  <2> HIDE DEF f, u
  <2>4. f * SlotsPerDay \in Nat
    BY <1>9, <2>2
  <2>5. CASE f = day
    <3>1. u < FxOpen
      BY <1>1, <1>17, <2>1, <2>2, <2>4, <2>5
    <3> QED
      BY <1>1, <1>5, <2>2, <2>3, <2>5, <3>1
  <2>6. CASE today < f /\ f < day
    BY <1>1, <1>6, <2>2, <2>3, <2>6
  <2>7. CASE f = today /\ today < day
    <3>1. u >= slot /\ dow = f % 7
      BY <1>2, <2>1, <2>2, <2>7 DEF dow
    <3> QED
      BY <1>1, <1>2, <1>3, <1>7, <2>2, <2>3, <2>7, <3>1
  <2> QED
    BY <1>2, <1>5, <2>2, <2>5, <2>6, <2>7
<1> QED
  BY <1>3, <1>17, <1>19, <1>20

------------------------------------------------------------------------------
\* What the cockpit is told of a leg is what the router's session check will
\* do, in any slot, for any hours, weeks and holidays: of India too, wherever a
\* session begins in the year its search looks at (market_clock.py:80-142).
THEOREM ClockAlwaysAgrees ==
    ASSUME NEW leg \in Legs, NEW now \in Nat,
           leg = "india" /\ ~ IndiaOpenAt(now) => OpensAgain(now)
    PROVE  ClockAgrees(leg, now)
<1>1. CASE leg = "india"
  <2>1. \A x : IsOpen(leg, x) <=> IndiaOpenAt(x)
    BY <1>1, Zenon DEF IsOpen
  <2>2. CASE IndiaOpenAt(now)
    <3>1. Status(leg, now).open /\ Status(leg, now).close = IndiaNextClose(now)
      BY <1>1, <2>1, <2>2 DEF Status
    <3>2. /\ IndiaNextClose(now) > now /\ ~ IndiaOpenAt(IndiaNextClose(now))
          /\ \A x \in now .. IndiaNextClose(now) - 1 : IndiaOpenAt(x)
      BY <2>2, IndiaCloses
    <3> QED
      BY <2>1, <3>1, <3>2, Zenon DEF ClockAgrees
  <2>3. CASE ~ IndiaOpenAt(now)
    <3>1. /\ Status(leg, now).open = IsOpen(leg, now)
          /\ Status(leg, now).next = IF IsOpen(leg, now) THEN Never ELSE IndiaNextOpen(now)
          /\ Status(leg, now).close = IndiaNextClose(now)
      BY <1>1 DEF Status
    <3>2. Status(leg, now).next = IndiaNextOpen(now) /\ Status(leg, now).close = Never
      BY <2>1, <2>3, <3>1, Zenon DEF IndiaNextClose
    <3>3. /\ IndiaNextOpen(now) > now /\ IndiaOpenAt(IndiaNextOpen(now))
          /\ \A x \in now .. IndiaNextOpen(now) - 1 : ~ IndiaOpenAt(x)
      BY <1>1, <2>3, IndiaReopens
    <3> QED
      BY <2>1, <3>1, <3>2, <3>3, Zenon DEF ClockAgrees
  <2> QED
    BY <2>2, <2>3
<1>2. CASE leg = "mt5_forex"
  <2>1. leg # "india"
    BY <1>2
  <2>2. \A x : IsOpen(leg, x) <=> FxOpenAt(x)
    BY <1>2, <2>1, Zenon DEF IsOpen
  <2>3. /\ Status(leg, now).open = IsOpen(leg, now)
        /\ Status(leg, now).next = IF IsOpen(leg, now) THEN Never ELSE FxNextOpen(now)
        /\ Status(leg, now).close = Never
    BY <1>2 DEF Status
  <2>4. CASE FxOpenAt(now)
    BY <2>2, <2>3, <2>4, Zenon DEF ClockAgrees
  <2>5. CASE ~ FxOpenAt(now)
    <3>1. Status(leg, now).next = FxNextOpen(now)
      BY <2>2, <2>3, <2>5, Zenon
    <3>2. /\ FxNextOpen(now) > now /\ FxOpenAt(FxNextOpen(now))
          /\ \A x \in now .. FxNextOpen(now) - 1 : ~ FxOpenAt(x)
      BY <2>5, FxReopens
    <3> QED
      BY <2>2, <2>3, <3>1, <3>2, Zenon DEF ClockAgrees
  <2> QED
    BY <2>4, <2>5
<1>3. CASE leg = "mt5_crypto"
  <2>1. Status(leg, now).open = TRUE /\ Status(leg, now).close = Never
    BY <1>3 DEF Status, IsOpen
  <2> QED
    BY <2>1, Zenon DEF ClockAgrees
<1> QED
  BY <1>1, <1>2, <1>3 DEF Legs

\* What the run looks at in its two weeks is an instance, and asks for sessions
\* of India in the year after them.
THEOREM TwoWeeksAgree ==
    ASSUME \A now \in 0 .. 14 * SlotsPerDay : IndiaOpenAt(now) \/ OpensAgain(now)
    PROVE  ClockKeepsItsWord
<1>1. 0 .. 14 * SlotsPerDay \subseteq Nat
  BY ClockAssumption
<1>2. ASSUME NEW leg \in Legs, NEW now \in 0 .. 14 * SlotsPerDay
      PROVE  ClockAgrees(leg, now)
  BY <1>1, ClockAlwaysAgrees
<1> QED
  BY <1>2 DEF ClockKeepsItsWord
==============================================================================
