-------------------------- MODULE EntryPause_proofs --------------------------
(***************************************************************************)
(* Proofs about EntryPause: for every number of symbols and calls, every   *)
(* cool-off and every time the clock may reach, a shock that reached Redis *)
(* and a live boot keep entries out.                                       *)
(***************************************************************************)
EXTENDS EntryPause, TLAPS

\* The key outlives what it is there for: a cool-off that is not over, and the
\* time up to the first resume.
KeyCovers ==
    /\ shockUntil <= now \/ shockUntil <= pausedUntil
    /\ freshBoot => pausedUntil = Forever

PauseIInv == PauseTypeOK /\ KeyCovers /\ ShockHolds /\ SafeStartHolds

\* The clock ends before a pause with no TTL would.
LEMMA ForeverIsLate ==
    /\ Cooloff \in Nat /\ Cooloff > 0 /\ MaxTime \in Nat
    /\ Forever \in Nat /\ Forever > MaxTime + Cooloff
BY PauseAssumption DEF Forever

\* A boot sets what the ghosts say of it.
LEMMA BootSets ==
    /\ mode = "live" => BootPause = Forever
    /\ mode # "live" => BootPause = 0
    /\ (mode = "live") \in BOOLEAN
BY DEF BootPause

LEMMA InitPauseIInv == PauseInit => PauseIInv
<1> SUFFICES ASSUME PauseInit
             PROVE  PauseIInv
  OBVIOUS
<1>1. PauseTypeOK
  <2>1. operator \in BOOLEAN /\ freshBoot \in BOOLEAN
    BY DEF PauseInit
  <2>2. pausedUntil \in 0 .. Forever /\ now \in 0 .. MaxTime
    BY ForeverIsLate, BootSets DEF PauseInit
  <2>3. /\ mode \in {"paper", "live"}
        /\ redisUp \in BOOLEAN /\ cockpitKey \in BOOLEAN
        /\ lastShock \in [Symbols -> {Never} \union 0 .. MaxTime]
        /\ acting \in Symbols \union {NoOne}
        /\ routePc \in [Routes -> {"idle", "checks", "dispatched", "refused", "died"}]
        /\ stood \in [Routes -> SUBSET {"operator", "shock", "boot"}]
    BY DEF PauseInit
  <2>4. shockUntil \in 0 .. MaxTime + Cooloff
    BY ForeverIsLate DEF PauseInit
  <2> QED
    BY <2>1, <2>2, <2>3, <2>4 DEF PauseTypeOK
<1>2. KeyCovers
  <2>1. freshBoot => mode = "live"
    BY DEF PauseInit
  <2> QED
    BY <2>1, ForeverIsLate, BootSets DEF PauseInit, KeyCovers
<1>3. ShockHolds /\ SafeStartHolds
  BY DEF PauseInit, ShockHolds, SafeStartHolds, RefusedFor
<1> QED
  BY <1>1, <1>2, <1>3 DEF PauseIInv

LEMMA StepPauseTypeOK ==
    ASSUME PauseTypeOK, PauseNext
    PROVE  PauseTypeOK'
<1> USE ForeverIsLate DEF PauseTypeOK, sharedVars, guardVars, pauseGhosts
<1>1. CASE Restart
  <2>1. operator' \in BOOLEAN /\ freshBoot' \in BOOLEAN
    BY <1>1 DEF Restart
  <2>2. pausedUntil' \in 0 .. Forever
    BY <1>1, BootSets DEF Restart
  <2>3. routePc' \in [Routes -> {"idle", "checks", "dispatched", "refused", "died"}]
    BY <1>1 DEF Restart
  <2>4. UNCHANGED <<mode, now, redisUp, stood>> /\ cockpitKey' \in BOOLEAN
        /\ acting' \in Symbols \union {NoOne}
        /\ lastShock' \in [Symbols -> {Never} \union 0 .. MaxTime]
    BY <1>1 DEF Restart
  <2>5. shockUntil' \in 0 .. MaxTime + Cooloff
    BY <1>1 DEF Restart
  <2> QED
    BY <2>1, <2>2, <2>3, <2>4, <2>5
<1>2. CASE TimePasses
  BY <1>2 DEF TimePasses
<1>3. CASE RedisSwitches
  BY <1>3 DEF RedisSwitches
<1>4. ASSUME NEW s \in Symbols, ShockDetected(s)
      PROVE  PauseTypeOK'
  BY <1>4 DEF ShockDetected
<1>5. CASE ShockActs
  <2>1. pausedUntil' \in 0 .. Forever /\ shockUntil' \in 0 .. MaxTime + Cooloff
    BY <1>5 DEF ShockActs, Expiry
  <2>2. freshBoot' \in BOOLEAN
    BY <1>5 DEF ShockActs
  <2> QED
    BY <1>5, <2>1, <2>2 DEF ShockActs
<1>6. ASSUME NEW r \in Routes, AskPause(r)
      PROVE  PauseTypeOK'
  BY <1>6 DEF AskPause
<1>7. ASSUME NEW r \in Routes, Dispatched(r)
      PROVE  PauseTypeOK'
  BY <1>7 DEF Dispatched
<1>8. CASE OperatorPause
  BY <1>8 DEF OperatorPause
<1>9. CASE OperatorResume
  <2>1. pausedUntil' \in 0 .. Forever /\ shockUntil' \in 0 .. MaxTime + Cooloff
    BY <1>9 DEF OperatorResume
  <2>2. cockpitKey' \in BOOLEAN /\ operator' \in BOOLEAN /\ freshBoot' \in BOOLEAN
    BY <1>9 DEF OperatorResume
  <2> QED
    BY <1>9, <2>1, <2>2 DEF OperatorResume
<1> QED
  BY <1>1, <1>2, <1>3, <1>4, <1>5, <1>6, <1>7, <1>8, <1>9 DEF PauseNext

\* A shock sets the key to the end of its own cool-off, later than every earlier
\* one; what shortens the key, a resume or a new process, ends the claim as well.
LEMMA StepKeyCovers ==
    ASSUME PauseTypeOK, KeyCovers, PauseNext
    PROVE  KeyCovers'
<1> USE ForeverIsLate DEF PauseTypeOK, KeyCovers, sharedVars, guardVars, pauseGhosts
<1>1. Forever' = Forever
  BY DEF Forever
<1>2. CASE Restart
  <2>1. freshBoot' => mode = "live"
    BY <1>2 DEF Restart
  <2> QED
    BY <1>1, <1>2, <2>1, BootSets DEF Restart
<1>3. CASE TimePasses
  BY <1>1, <1>3 DEF TimePasses
<1>4. CASE ShockActs
  BY <1>1, <1>4 DEF ShockActs, Expiry
<1>5. CASE OperatorResume
  BY <1>1, <1>5 DEF OperatorResume
<1>6. ASSUME \/ RedisSwitches \/ OperatorPause
             \/ \E s \in Symbols : ShockDetected(s)
             \/ \E r \in Routes : AskPause(r) \/ Dispatched(r)
      PROVE  UNCHANGED <<now, shockUntil, pausedUntil, freshBoot>>
  BY <1>6 DEF RedisSwitches, OperatorPause, ShockDetected, AskPause, Dispatched
<1> QED
  BY <1>1, <1>2, <1>3, <1>4, <1>5, <1>6 DEF PauseNext

\* Whoever asks while a reason stands is refused, and stays so.
LEMMA StepRefused ==
    ASSUME PauseTypeOK, KeyCovers, PauseNext,
           NEW why \in {"shock", "boot"}, RefusedFor(why)
    PROVE  RefusedFor(why)'
<1> USE DEF PauseTypeOK, RefusedFor
<1>1. ASSUME NEW r \in Routes, AskPause(r), why \in stood'[r]
      PROVE  routePc'[r] = "refused"
  <2>1. why = "shock" => now < pausedUntil
    BY <1>1 DEF AskPause, KeyCovers
  <2>2. why = "boot" => now < pausedUntil
    BY <1>1, ForeverIsLate DEF AskPause, KeyCovers
  <2> QED
    BY <1>1, <2>1, <2>2 DEF AskPause, Paused
<1>2. ASSUME NEW r \in Routes, AskPause(r)
      PROVE  RefusedFor(why)'
  BY <1>1, <1>2 DEF AskPause
<1>3. ASSUME NEW r \in Routes, Dispatched(r)
      PROVE  RefusedFor(why)'
  BY <1>3 DEF Dispatched
<1>4. CASE Restart
  BY <1>4 DEF Restart
<1>5. ASSUME \/ TimePasses \/ RedisSwitches \/ ShockActs \/ OperatorPause \/ OperatorResume
             \/ \E s \in Symbols : ShockDetected(s)
      PROVE  UNCHANGED <<stood, routePc>>
  BY <1>5 DEF TimePasses, RedisSwitches, ShockActs, OperatorPause, OperatorResume, ShockDetected
<1> QED
  BY <1>2, <1>3, <1>4, <1>5 DEF PauseNext

LEMMA StepPauseIInv == PauseIInv /\ [PauseNext]_pauseVars => PauseIInv'
<1>1. ASSUME PauseIInv, PauseNext
      PROVE  PauseIInv'
  BY <1>1, StepPauseTypeOK, StepKeyCovers, StepRefused
     DEF PauseIInv, ShockHolds, SafeStartHolds
<1>2. ASSUME PauseIInv, UNCHANGED pauseVars
      PROVE  PauseIInv'
  BY <1>2 DEF PauseIInv, pauseVars, sharedVars, guardVars, pauseGhosts, PauseTypeOK,
              KeyCovers, ShockHolds, SafeStartHolds, RefusedFor, Forever
<1> QED
  BY <1>1, <1>2

------------------------------------------------------------------------------
\* The pause key covers every reason there is to refuse entries.
THEOREM PauseInvariance == PauseSpec => []PauseIInv
BY InitPauseIInv, StepPauseIInv, PTL DEF PauseSpec

\* The clock, the key and the calls keep their types.
THEOREM PauseTypeCorrect == PauseSpec => []PauseTypeOK
<1>1. PauseIInv => PauseTypeOK
  BY DEF PauseIInv
<1> QED
  BY <1>1, PauseInvariance, PTL

\* A shock that reached Redis refuses every entry that asks during its cool-off.
THEOREM ShockAlwaysHolds == PauseSpec => []ShockHolds
<1>1. PauseIInv => ShockHolds
  BY DEF PauseIInv
<1> QED
  BY <1>1, PauseInvariance, PTL

\* A live boot refuses every entry up to the first resume or shock.
THEOREM SafeStartAlwaysHolds == PauseSpec => []SafeStartHolds
<1>1. PauseIInv => SafeStartHolds
  BY DEF PauseIInv
<1> QED
  BY <1>1, PauseInvariance, PTL
=============================================================================
