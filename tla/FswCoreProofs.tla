--------------------------- MODULE FswCoreProofs ---------------------------
(***************************************************************************)
(* Safety of the flight software core, for every restart limit, timer,     *)
(* threshold, sensor reading and pause between ticks.  All of it follows   *)
(* from one inductive invariant, IndInv of FswCore.                        *)
(***************************************************************************)
EXTENDS FswCore, TLAPS

USE DEF TransitionTo, EmitTelemetry, SelfTests

(* A snapshot that lets SAFE recover holds no fault: the tick after T5     *)
(* cannot take T3 on the same reading (_evaluate_recovery against          *)
(* _evaluate_faults).                                                      *)
LEMMA ClearIsFaultFree ==
  ASSUME NEW r \in Readings, ConditionsClear(r)
  PROVE  ~ActiveFault(r)
  BY LimitsAssumption, InputsAssumption DEF ConditionsClear, ActiveFault

(* The two evaluations of a sample stay within the range of the timers.    *)
LEMMA SampleTypes ==
  ASSUME ValuesTypeOK, NEW r
  PROVE  /\ StabilityAfter(r) \in (0 .. StabilityTimer) \cup {None}
         /\ CalmAfter(r) \in 0 .. StabilityTimer
  BY LimitsAssumption DEF ValuesTypeOK, StabilityAfter, CalmAfter, None

(* Letting time pass keeps a capped age in its range.                      *)
LEMMA LaterType ==
  ASSUME NEW cap \in Nat, NEW x \in (0 .. cap) \cup {None}, NEW d \in Nat
  PROVE  /\ Later(x, d, cap) \in (0 .. cap) \cup {None}
         /\ x # None => Later(x, d, cap) \in 0 .. cap
  BY DEF Later, CapTo, None

(* Letting time pass keeps two ages with one cap in their order.           *)
LEMMA LaterMonotone ==
  ASSUME NEW cap \in Nat, NEW d \in Nat,
         NEW x \in (0 .. cap) \cup {None}, NEW y \in 0 .. cap, x <= y
  PROVE  Later(x, d, cap) <= Later(y, d, cap)
  BY DEF Later, CapTo, None

(* Init satisfies the inductive invariant: a flight that has not been      *)
(* started, with no boot counter file.                                     *)
LEMMA InitIndInv == Init => IndInv
<1> SUFFICES ASSUME Init PROVE IndInv
  OBVIOUS
<1>1. TypeOK
  <2>1. FlagsTypeOK
    BY DEF Init, FlagsTypeOK
  <2>2. ValuesTypeOK
    BY LimitsAssumption
    DEF Init, ValuesTypeOK, States, Tasks, Alive, None, Unreadable
  <2> QED
    BY <2>1, <2>2 DEF TypeOK
<1>2. TickingUnderLimit /\ NoPrematureEscalation /\ EscalationHonoured
  BY LimitsAssumption
  DEF Init, TickingUnderLimit, NoPrematureEscalation, EscalationHonoured
<1>3. SaveOfState /\ FreshCount
  BY DEF Init, SaveOfState, FreshCount, Saving
<1>4. CounterUpperBound /\ CounterLowerBound
  BY DEF Init, CounterUpperBound, CounterLowerBound, LoadBootCounter, Saving
<1>5. TimerSound
  BY DEF Init, TimerSound, None
<1> QED
  BY <1>1, <1>2, <1>3, <1>4, <1>5 DEF IndInv

(* The flags stay Boolean.                                                 *)
LEMMA NextFlagsTypeOK == FlagsTypeOK /\ [Next]_vars => FlagsTypeOK'
<1> SUFFICES ASSUME FlagsTypeOK, [Next]_vars PROVE FlagsTypeOK'
  OBVIOUS
<1> USE DEF FlagsTypeOK, history, process
<1>1. CASE OpenForSave \/ WriteCounter
  BY <1>1 DEF OpenForSave, WriteCounter
<1>2. CASE FinishRecovery \/ FinishBoot \/ FinishClear
  BY <1>2 DEF FinishRecovery, FinishBoot, FinishClear
<1>3. CASE TickBoot \/ TickSafeSkip \/ ExitLoop \/ Stop \/ Crash
  BY <1>3 DEF TickBoot, EnterNominal, TickSafeSkip, ExitLoop, Stop, Crash
<1>4. ASSUME NEW r \in Readings, TickNominal(r) \/ TickSafe(r)
      PROVE  FlagsTypeOK'
  BY <1>4 DEF TickNominal, TickSafe, EnterNominal
<1>5. ASSUME NEW d \in Pauses, Sleep(d)
      PROVE  FlagsTypeOK'
  BY <1>5 DEF Sleep
<1>6. ASSUME NEW recovery \in RecoveryModes, Launch(recovery)
      PROVE  FlagsTypeOK'
  BY <1>6 DEF Launch
<1>7. CASE UNCHANGED vars
  BY <1>7 DEF vars
<1> QED
  BY <1>1, <1>2, <1>3, <1>4, <1>5, <1>6, <1>7 DEF Next, Step

(* Every other variable keeps its type.                                    *)
LEMMA NextValuesTypeOK == ValuesTypeOK /\ [Next]_vars => ValuesTypeOK'
<1> SUFFICES ASSUME ValuesTypeOK, [Next]_vars PROVE ValuesTypeOK'
  OBVIOUS
<1> USE LimitsAssumption, InputsAssumption
    DEF ValuesTypeOK, States, Tasks, Alive, timers, history, process,
        None, Unreadable
<1>1. CASE OpenForSave
  BY <1>1 DEF OpenForSave
<1>2. CASE WriteCounter
  BY <1>2 DEF WriteCounter, SavedCount
<1>3. CASE FinishRecovery \/ FinishBoot \/ FinishClear
  BY <1>3 DEF FinishRecovery, FinishBoot, FinishClear
<1>4. CASE TickBoot
  BY <1>4 DEF TickBoot, EnterNominal
<1>5. CASE TickSafeSkip \/ ExitLoop \/ Stop \/ Crash
  BY <1>5 DEF TickSafeSkip, ExitLoop, Stop, Crash
<1>6. ASSUME NEW r \in Readings, TickNominal(r)
      PROVE  ValuesTypeOK'
  BY <1>6, SampleTypes DEF TickNominal
<1>7. ASSUME NEW r \in Readings, TickSafe(r)
      PROVE  ValuesTypeOK'
  BY <1>7, SampleTypes DEF TickSafe, EnterNominal
<1>8. ASSUME NEW d \in Pauses, Sleep(d)
      PROVE  ValuesTypeOK'
  BY <1>8, LaterType DEF Sleep
<1>9. ASSUME NEW recovery \in RecoveryModes, Launch(recovery)
      PROVE  ValuesTypeOK'
  BY <1>9 DEF Launch, LoadBootCounter
<1>10. CASE UNCHANGED vars
  BY <1>10 DEF vars
<1> QED
  BY <1>1, <1>2, <1>3, <1>4, <1>5, <1>6, <1>7, <1>8, <1>9, <1>10
  DEF Next, Step

(* What the counter file says is a count.                                  *)
LEMMA LoadType == ValuesTypeOK => LoadBootCounter \in Nat
  BY DEF ValuesTypeOK, LoadBootCounter, Unreadable

(* Which state a save happens in, and what the counter may be then, are    *)
(* kept by every step.                                                     *)
LEMMA NextCounters ==
  ASSUME IndInv, ValuesTypeOK', [Next]_vars
  PROVE  /\ SaveOfState' /\ FreshCount'
         /\ CounterUpperBound' /\ CounterLowerBound'
<1> DEFINE Inv == SaveOfState /\ FreshCount /\ CounterUpperBound
                    /\ CounterLowerBound
<1> SUFFICES Inv'
  OBVIOUS
<1>0. /\ Inv /\ ValuesTypeOK
      /\ LoadBootCounter \in Nat /\ LoadBootCounter' \in Nat
      /\ bootCounter' = bootCounter => LoadBootCounter' = LoadBootCounter
      /\ bootCounter' = Unreadable => LoadBootCounter' = 0
      /\ bootCounter' \in Nat => LoadBootCounter' = bootCounter'
  BY LoadType
  DEF IndInv, TypeOK, LoadBootCounter, Unreadable, ValuesTypeOK
<1> USE <1>0, LimitsAssumption
    DEF ValuesTypeOK, SaveOfState, FreshCount, CounterUpperBound,
        CounterLowerBound, Saving, Tasks, Unreadable, timers, history,
        process
<1>1. CASE OpenForSave
  <2>1. CASE pc' = "write"
    BY <1>1, <2>1 DEF OpenForSave
  <2>2. CASE pc' = "finish"
    <3>1. CASE task = "recovery"
      BY <1>1, <2>2, <3>1 DEF OpenForSave
    <3>2. CASE task # "recovery"
      BY <1>1, <2>2, <3>2 DEF OpenForSave
    <3> QED
      BY <3>1, <3>2
  <2> QED
    BY <1>1, <2>1, <2>2 DEF OpenForSave
<1>2. CASE WriteCounter
  <2>1. CASE bootCounter' = SavedCount /\ UNCHANGED uncounted
    BY <1>2, <2>1 DEF WriteCounter, SavedCount
  <2>2. CASE UNCHANGED bootCounter
    <3>1. CASE task = "recovery" /\ uncounted' = restarts
      BY <1>2, <2>2, <3>1 DEF WriteCounter
    <3>2. CASE task # "recovery" /\ UNCHANGED uncounted
      BY <1>2, <2>2, <3>2 DEF WriteCounter
    <3> QED
      BY <1>2, <2>1, <2>2, <3>1, <3>2 DEF WriteCounter
  <2> QED
    BY <1>2, <2>1, <2>2 DEF WriteCounter
<1>3. CASE FinishRecovery \/ FinishBoot \/ FinishClear
  BY <1>3 DEF FinishRecovery, FinishBoot, FinishClear
<1>4. CASE AtTick("BOOT") /\ EnterNominal
  BY <1>4 DEF AtTick, EnterNominal
<1>5. CASE AtTick("SAFE") /\ EnterNominal
  BY <1>5 DEF AtTick, EnterNominal
<1>6. CASE TickBoot
  BY <1>4, <1>6 DEF TickBoot, AtTick
<1>7. CASE TickSafeSkip \/ ExitLoop \/ Stop
  BY <1>7 DEF TickSafeSkip, ExitLoop, Stop, AtTick, Alive
<1>8. CASE Crash
  <2>1. CASE task = "recovery" /\ pc = "open"
    BY <1>8, <2>1 DEF Crash
  <2>2. CASE task = "recovery" /\ pc = "write"
    BY <1>8, <2>2 DEF Crash
  <2>3. CASE task # "recovery" \/ pc \notin {"open", "write"}
    BY <1>8, <2>3 DEF Crash
  <2> QED
    BY <2>1, <2>2, <2>3
<1>9. ASSUME NEW r \in Readings, TickNominal(r)
      PROVE  Inv'
  BY <1>9 DEF TickNominal, AtTick
<1>10. ASSUME NEW r \in Readings, TickSafe(r)
       PROVE  Inv'
  <2>1. CASE EnterNominal
    BY <1>5, <1>10, <2>1 DEF TickSafe
  <2>2. CASE ~EnterNominal
    BY <1>10, <2>2 DEF TickSafe, AtTick
  <2> QED
    BY <2>1, <2>2
<1>11. ASSUME NEW d \in Pauses, Sleep(d)
       PROVE  Inv'
  BY <1>11 DEF Sleep
<1>12. ASSUME NEW recovery \in RecoveryModes, Launch(recovery)
       PROVE  Inv'
  BY <1>12 DEF Launch
<1>13. CASE UNCHANGED vars
  BY <1>13 DEF vars
<1> QED
  BY <1>1, <1>2, <1>3, <1>6, <1>7, <1>8, <1>9, <1>10, <1>11, <1>12, <1>13
  DEF Next, Step

(* A sampled tick in SAFE recovers or stays: its T6 branch is not taken.   *)
LEMMA SafeRecoversOrStays ==
  ASSUME IndInv, NEW r \in Readings, TickSafe(r)
  PROVE  /\ pc = "tick" /\ state = "SAFE" /\ telemAge >= SafeRate
         /\ calmFor' = CalmAfter(r)
         /\ IF RecoveryOk(r)
              THEN stableFor' = None /\ EnterNominal
              ELSE /\ stableFor' = StabilityAfter(r)
                   /\ telemAge' = 0
                   /\ pc' = "sleep"
                   /\ UNCHANGED <<task, state, running, wdRestarts,
                                  bootCounter, history>>
<1>1. pc = "tick" /\ state = "SAFE"
  BY DEF TickSafe, AtTick
<1>2. wdRestarts <= MaxWdRestarts /\ wdRestarts \in Nat
  BY <1>1 DEF IndInv, TickingUnderLimit, TypeOK, ValuesTypeOK
<1>3. ~(wdRestarts > MaxWdRestarts)
  BY <1>2, LimitsAssumption
<1> QED
  BY <1>1, <1>3 DEF TickSafe

(* Escalation happens in start() and nowhere else, when the count says so. *)
LEMMA NextEscalation ==
  ASSUME IndInv, ValuesTypeOK', [Next]_vars
  PROVE  TickingUnderLimit' /\ NoPrematureEscalation' /\ EscalationHonoured'
<1> DEFINE Inv == TickingUnderLimit /\ NoPrematureEscalation
                    /\ EscalationHonoured
<1> SUFFICES Inv'
  OBVIOUS
<1>0. Inv /\ ValuesTypeOK /\ SaveOfState /\ FreshCount
  BY DEF IndInv, TypeOK
<1> USE <1>0, LimitsAssumption
    DEF ValuesTypeOK, TickingUnderLimit, NoPrematureEscalation,
        EscalationHonoured, timers, history, process
<1>1. CASE OpenForSave \/ WriteCounter
  BY <1>1 DEF OpenForSave, WriteCounter, Saving, SaveOfState
<1>2. CASE FinishRecovery
  BY <1>2
  DEF IndInv, FinishRecovery, Saving, CounterUpperBound, CounterLowerBound
<1>3. CASE FinishBoot
  BY <1>3 DEF FinishBoot
<1>4. CASE FinishClear
  BY <1>4 DEF FinishClear, Saving, SaveOfState
<1>5. CASE pc = "tick" /\ EnterNominal
  BY <1>5 DEF EnterNominal
<1>6. CASE TickSafeSkip \/ ExitLoop \/ Stop
  BY <1>6 DEF TickSafeSkip, ExitLoop, Stop, AtTick, Alive
<1>7. CASE Crash
  <2>1. state # "CRITICAL"
    BY <1>7 DEF Crash, Alive
  <2>2. state = "SAFE" => uncounted' = uncounted
    BY <1>7 DEF Crash, Saving, SaveOfState
  <2> QED
    BY <1>7, <2>1, <2>2 DEF Crash
<1>8. ASSUME NEW r \in Readings, TickNominal(r)
      PROVE  Inv'
  BY <1>8 DEF TickNominal, AtTick, FreshCount
<1>9. CASE TickBoot
  <2>1. CASE state' = "SAFE"
    <3>1. /\ pc = "tick" /\ state = "BOOT"
          /\ pc' = "sleep" /\ restarts = 0
          /\ UNCHANGED <<wdRestarts, restarts, uncounted>>
      BY <1>9, <2>1 DEF TickBoot, AtTick, EnterNominal, FreshCount
    <3> QED
      BY <2>1, <3>1
  <2> QED
    BY <1>5, <1>9, <2>1 DEF TickBoot, AtTick
<1>13. ASSUME NEW r \in Readings, TickSafe(r)
       PROVE  Inv'
  <2>1. CASE EnterNominal
    BY <1>5, <1>13, <2>1 DEF TickSafe, AtTick
  <2>2. CASE ~EnterNominal
    <3>1. /\ pc = "tick" /\ state = "SAFE"
          /\ pc' = "sleep" /\ state' = "SAFE"
          /\ UNCHANGED <<wdRestarts, restarts, uncounted>>
      BY <1>13, <2>2, SafeRecoversOrStays
    <3> QED
      BY <3>1
  <2> QED
    BY <2>1, <2>2
<1>10. ASSUME NEW d \in Pauses, Sleep(d)
       PROVE  Inv'
  BY <1>10 DEF Sleep
<1>11. ASSUME NEW recovery \in RecoveryModes, Launch(recovery)
       PROVE  Inv'
  BY <1>11 DEF Launch
<1>12. CASE UNCHANGED vars
  BY <1>12 DEF vars
<1> QED
  BY <1>1, <1>2, <1>3, <1>4, <1>6, <1>7, <1>8, <1>9, <1>10, <1>11, <1>12,
     <1>13
  DEF Next, Step

(* The stability timer never runs ahead of the calm it stands for.         *)
LEMMA NextTimerSound ==
  ASSUME IndInv, ValuesTypeOK', [Next]_vars
  PROVE  TimerSound'
<1> USE LimitsAssumption, InputsAssumption
    DEF IndInv, TypeOK, ValuesTypeOK, TimerSound, None, timers, history,
        process
<1>1. CASE OpenForSave \/ WriteCounter \/ FinishClear
  BY <1>1 DEF OpenForSave, WriteCounter, FinishClear
<1>2. CASE FinishRecovery \/ FinishBoot
  BY <1>2 DEF FinishRecovery, FinishBoot, Saving, SaveOfState
<1>3. CASE TickBoot
  BY <1>3 DEF TickBoot, AtTick, EnterNominal
<1>4. CASE TickSafeSkip \/ ExitLoop \/ Stop \/ Crash
  BY <1>4 DEF TickSafeSkip, ExitLoop, Stop, Crash
<1>5. ASSUME NEW r \in Readings, TickNominal(r)
      PROVE  TimerSound'
  BY <1>5 DEF TickNominal, AtTick, CalmAfter
<1>6. ASSUME NEW r \in Readings, TickSafe(r)
      PROVE  TimerSound'
  <2>1. CASE EnterNominal
    <3>1. stableFor' = None /\ calmFor' \in 0 .. StabilityTimer
      BY <1>6, <2>1, SafeRecoversOrStays DEF EnterNominal
    <3> QED
      BY <3>1
  <2>2. CASE ~EnterNominal
    <3>1. /\ state' = "SAFE"
          /\ stableFor' = StabilityAfter(r) /\ calmFor' = CalmAfter(r)
      BY <1>6, <2>2, SafeRecoversOrStays
    <3>2. StabilityAfter(r) <= CalmAfter(r)
      BY DEF StabilityAfter, CalmAfter
    <3> QED
      BY <3>1, <3>2
  <2> QED
    BY <2>1, <2>2
<1>7. ASSUME NEW d \in Pauses, Sleep(d)
      PROVE  TimerSound'
  <2>1. Later(stableFor, d, StabilityTimer)
          <= Later(calmFor, d, StabilityTimer)
    BY LaterMonotone
  <2>2. stableFor = None => Later(stableFor, d, StabilityTimer) = None
    BY DEF Later
  <2> QED
    BY <1>7, <2>1, <2>2 DEF Sleep
<1>8. ASSUME NEW recovery \in RecoveryModes, Launch(recovery)
      PROVE  TimerSound'
  BY <1>8 DEF Launch
<1>9. CASE UNCHANGED vars
  BY <1>9 DEF vars
<1> QED
  BY <1>1, <1>2, <1>3, <1>4, <1>5, <1>6, <1>7, <1>8, <1>9 DEF Next, Step

(* IndInv holds in every reachable state.                                  *)
THEOREM Invariance == Spec => []IndInv
<1>1. IndInv /\ [Next]_vars => IndInv'
  BY NextFlagsTypeOK, NextValuesTypeOK, NextCounters, NextEscalation,
     NextTimerSound
  DEF IndInv, TypeOK
<1> QED
  BY InitIndInv, <1>1, PTL DEF Spec

(* Type correctness of the flight software core.                           *)
THEOREM TypeCorrect == Spec => []TypeOK
<1>1. IndInv => TypeOK
  BY DEF IndInv
<1> QED
  BY Invariance, <1>1, PTL

(* No tick is ever run in CRITICAL or past the restart limit: T6 in        *)
(* _do_safe and the body of _do_critical are dead code.                    *)
THEOREM NoTickPastLimit == Spec => []TickingUnderLimit
<1>1. IndInv => TickingUnderLimit
  BY DEF IndInv
<1> QED
  BY Invariance, <1>1, PTL

(* CRITICAL takes more than MaxWdRestarts recovery starts on one counter.  *)
THEOREM EscalationNotPremature == Spec => []NoPrematureEscalation
<1>1. IndInv => NoPrematureEscalation
  BY DEF IndInv
<1> QED
  BY Invariance, <1>1, PTL

(* More than MaxWdRestarts counted restarts never end in SAFE.             *)
THEOREM EscalationNotMissed == Spec => []EscalationHonoured
<1>1. IndInv => EscalationHonoured
  BY DEF IndInv
<1> QED
  BY Invariance, <1>1, PTL

(* T5 needs a stability period without an unclear sample.                  *)
THEOREM NoOscillation == Spec => StableBeforeNominal
<1> DEFINE Stable == state = "SAFE" /\ state' = "NOMINAL"
                       => calmFor >= StabilityTimer
<1>1. ASSUME IndInv, [Next]_vars PROVE [Stable]_vars
  <2> SUFFICES ASSUME state = "SAFE", state' = "NOMINAL"
               PROVE  calmFor >= StabilityTimer
    OBVIOUS
  <2>1. PICK r \in Readings : TickSafe(r)
    BY <1>1
    DEF Next, Step, vars, process, OpenForSave, WriteCounter,
        FinishRecovery, FinishBoot, FinishClear, TickBoot, TickSafeSkip,
        ExitLoop, TickNominal, Sleep, Stop, Crash, Launch, AtTick
  <2>2. RecoveryOk(r)
    BY <2>1 DEF TickSafe
  <2> QED
    BY <1>1, <2>2, LimitsAssumption
    DEF RecoveryOk, IndInv, TimerSound, TypeOK, ValuesTypeOK, None
<1> QED
  BY Invariance, <1>1, PTL DEF Spec, StableBeforeNominal

=============================================================================
