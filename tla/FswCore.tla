------------------------------ MODULE FswCore ------------------------------
(***************************************************************************)
(* The flight software core: flight/fsw_core.py run as a supervised        *)
(* process.  One behaviour spans many incarnations of the process, and     *)
(* the boot counter file is all that one incarnation leaves to the next.   *)
(*                                                                         *)
(* Each step is what the process does between two points at which a kill   *)
(* makes a difference: the truncation and the write of the boot counter    *)
(* are separate steps (open(path, "w") and the flush at close).            *)
(***************************************************************************)
EXTENDS Integers

CONSTANTS
  MaxWdRestarts,     \* MAX_WD_RESTARTS
  SafeRate,          \* TELEMETRY_RATE_SAFE_SEC
  StabilityTimer,    \* STABILITY_TIMER_SEC
  TempWarn,          \* THRESHOLD_TEMP_WARN_C
  HysteresisTemp,    \* HYSTERESIS_TEMP_C
  VoltageMin,        \* VOLTAGE_MIN_V, in hundredths of a volt
  SocMin,            \* BATTERY_SOC_MIN, in hundredths
  ErrorRateMax,      \* COMMS_ERROR_RATE_MAX, in thousandths
  Readings,          \* the sensor snapshots read_all() may return
  RecoveryModes,     \* whether a launch finds RECOVERY_MODE=SAFE
  Pauses,            \* the seconds that may pass between two ticks
  MaxUncleared       \* bound: recovery starts without a cleared counter

ASSUME LimitsAssumption ==
  /\ MaxWdRestarts \in Nat
  /\ SafeRate \in Nat
  /\ StabilityTimer \in Nat
  /\ TempWarn \in Int /\ VoltageMin \in Int /\ SocMin \in Int
  /\ ErrorRateMax \in Int
  /\ HysteresisTemp \in Nat
  /\ MaxUncleared \in Nat

ASSUME InputsAssumption ==
  /\ Readings \subseteq [temp : Int, volt : Int, soc : Int, err : Int]
  /\ RecoveryModes \subseteq BOOLEAN
  /\ Pauses \subseteq Nat \ {0}

None == -1           \* Python's None for _stability_start
Unreadable == -1     \* a boot counter file that is missing or empty

VARIABLES
  pc,             \* where the process is; "down" killed, "halted" exited
  task,           \* whose save of the boot counter is in progress
  state,          \* _state
  running,        \* _running
  wdRestarts,     \* _consecutive_wd_restarts
  bootCounter,    \* the content of /tmp/asterion_boot_counter
  telemAge,       \* now - _last_telem_time, up to SafeRate
  stableFor,      \* now - _stability_start, up to StabilityTimer, or None
  \* History, read by no action:
  calmFor,        \* seconds since a sample that was not clear (same cap)
  restarts,       \* restarts after a kill since NOMINAL or a normal boot
  uncounted,      \* how many of them the boot counter has lost
  uncleared       \* recovery starts since the boot counter was cleared

process == <<pc, task, state, running, wdRestarts>>
timers  == <<telemAge, stableFor, calmFor>>
history == <<restarts, uncounted, uncleared>>
vars    == <<process, bootCounter, timers, history>>

States == {"BOOT", "NOMINAL", "SAFE", "CRITICAL"}
Alive  == {"open", "write", "finish", "tick", "sleep"}
Tasks  == {"recovery", "boot", "clear"}

CapTo(n, cap) == IF n > cap THEN cap ELSE n

-----------------------------------------------------------------------------
(* Fault and recovery evaluation *)

ActiveFault(r) ==
  \/ r.temp > TempWarn
  \/ r.volt < VoltageMin
  \/ r.soc < SocMin
  \/ r.err > ErrorRateMax

ConditionsClear(r) ==
  /\ r.temp < TempWarn - HysteresisTemp
  /\ r.volt > VoltageMin + 10
  /\ r.soc > SocMin + 5
  /\ r.err < ErrorRateMax - 20

RecoveryOk(r) ==
  /\ ConditionsClear(r)
  /\ stableFor # None
  /\ stableFor >= StabilityTimer

\* Mutant: every clear sample starts the timer again.
StabilityRestarted(r) == IF ConditionsClear(r) THEN 0 ELSE None

StabilityAfter(r) ==
  IF ~ConditionsClear(r) THEN None
  ELSE IF stableFor = None THEN 0 ELSE stableFor

CalmAfter(r) == IF ConditionsClear(r) THEN calmFor ELSE 0

-----------------------------------------------------------------------------
(* Transitions and telemetry *)

\* _transition_to: the new state first, then the audit log, which may raise
\* (see Crash), and the callback.
TransitionTo(s) == state' = s

\* _emit_telemetry: the age of the last frame starts again.
EmitTelemetry == telemAge' = 0

\* What _run_self_test may answer: it fails when the sensors, the audit log
\* or the disk queue do.
SelfTests == BOOLEAN

-----------------------------------------------------------------------------
(* Launch and start() *)

LoadBootCounter == IF bootCounter = Unreadable THEN 0 ELSE bootCounter

\* A process starts: the constructor, then start() up to its save.  The
\* supervisor restarts a killed process; an operator starts an exited one.
Launch(recovery) ==
  /\ pc \in {"down", "halted"}
  /\ recovery => uncleared < MaxUncleared
  /\ pc' = "open"
  /\ task' = IF recovery THEN "recovery" ELSE "boot"
  /\ state' = "BOOT"
  /\ running' = FALSE
  /\ wdRestarts' = IF recovery THEN LoadBootCounter + 1 ELSE 0
  /\ telemAge' \in 0 .. SafeRate
  /\ stableFor' = None
  /\ calmFor' = 0
  /\ restarts' = IF ~recovery THEN 0
                 ELSE IF pc = "down" THEN restarts + 1 ELSE restarts
  /\ uncounted' = IF recovery THEN uncounted ELSE 0
  /\ uncleared' = IF recovery THEN uncleared + 1 ELSE uncleared
  /\ UNCHANGED bootCounter

\* Mutants: the count saved before it is incremented, and T1 and T5 saving
\* the count they have yet to reset.
SavedBeforeIncrement == IF task = "recovery" THEN wdRestarts - 1 ELSE 0
SavedBeforeReset == IF task = "boot" THEN 0 ELSE wdRestarts

SavedCount == IF task = "recovery" THEN wdRestarts ELSE 0

\* open(path, "w") empties the file; an OSError leaves it as it was.
OpenForSave ==
  /\ pc = "open"
  /\ \/ /\ pc' = "write"
        /\ bootCounter' = Unreadable
        /\ uncleared' = IF task = "recovery" THEN uncleared ELSE 0
        /\ UNCHANGED uncounted
     \/ /\ pc' = "finish"
        /\ uncounted' = IF task = "recovery" THEN uncounted + 1 ELSE uncounted
        /\ UNCHANGED <<bootCounter, uncleared>>
  /\ UNCHANGED <<task, state, running, wdRestarts, timers, restarts>>

\* The count reaches the file at close; an OSError leaves it empty.
WriteCounter ==
  /\ pc = "write"
  /\ pc' = "finish"
  /\ \/ /\ bootCounter' = SavedCount
        /\ UNCHANGED uncounted
     \/ /\ uncounted' = IF task = "recovery" THEN restarts ELSE uncounted
        /\ UNCHANGED bootCounter
  /\ UNCHANGED <<task, state, running, wdRestarts, timers, restarts,
                 uncleared>>

\* Mutant: the limit compared as if one more restart were allowed.
FinishRecoveryLate ==
  /\ pc = "finish" /\ task = "recovery"
  /\ state' = IF wdRestarts > MaxWdRestarts + 1 THEN "CRITICAL" ELSE "SAFE"
  /\ running' = (state' = "SAFE")
  /\ pc' = IF state' = "SAFE" THEN "tick" ELSE "halted"
  /\ UNCHANGED <<task, wdRestarts, bootCounter, timers, history>>

FinishRecovery ==
  /\ pc = "finish" /\ task = "recovery"
  /\ IF wdRestarts > MaxWdRestarts
       THEN /\ TransitionTo("CRITICAL")
            /\ running' = FALSE
            /\ pc' = "halted"
       ELSE /\ TransitionTo("SAFE")
            /\ running' = TRUE
            /\ pc' = "tick"
  /\ UNCHANGED <<task, wdRestarts, bootCounter, timers, history>>

FinishBoot ==
  /\ pc = "finish" /\ task = "boot"
  /\ pc' = "tick"
  /\ TransitionTo("BOOT")
  /\ running' = TRUE
  /\ wdRestarts' = 0
  /\ UNCHANGED <<task, bootCounter, timers, history>>

\* The rest of a tick that went to NOMINAL, after its save.
FinishClear ==
  /\ pc = "finish" /\ task = "clear"
  /\ pc' = "sleep"
  /\ wdRestarts' = 0
  /\ UNCHANGED <<task, state, running, bootCounter, timers, history>>

-----------------------------------------------------------------------------
(* The main loop *)

AtTick(s) == pc = "tick" /\ running /\ state = s

\* T1 and T5 go to NOMINAL, then clear the boot counter.
EnterNominal ==
  /\ TransitionTo("NOMINAL")
  /\ task' = "clear"
  /\ pc' = "open"
  /\ restarts' = 0
  /\ uncounted' = 0
  /\ UNCHANGED <<running, wdRestarts, bootCounter, telemAge, uncleared>>

\* _do_boot: T1 when the self-test passes, T2 when it fails.
TickBoot ==
  /\ AtTick("BOOT")
  /\ \E passed \in SelfTests :
       IF passed
         THEN EnterNominal /\ UNCHANGED <<stableFor, calmFor>>
         ELSE /\ TransitionTo("SAFE")
              /\ pc' = "sleep"
              /\ UNCHANGED <<task, running, wdRestarts, bootCounter, timers,
                             history>>

\* _do_nominal: T3 on any fault, otherwise telemetry.
TickNominal(r) ==
  /\ AtTick("NOMINAL")
  /\ pc' = "sleep"
  /\ IF ActiveFault(r)
       THEN TransitionTo("SAFE") /\ UNCHANGED telemAge
       ELSE EmitTelemetry /\ UNCHANGED state
  /\ calmFor' = CalmAfter(r)
  /\ UNCHANGED <<task, running, wdRestarts, bootCounter, stableFor,
                 history>>

\* _do_safe within TELEMETRY_RATE_SAFE_SEC of the last frame: no sample.
TickSafeSkip ==
  /\ AtTick("SAFE")
  /\ telemAge < SafeRate
  /\ pc' = "sleep"
  /\ UNCHANGED <<task, state, running, wdRestarts, bootCounter, timers,
                 history>>

\* Mutant: T5 without the reset of the stability timer.
TickSafeKeepsTimer(r) ==
  /\ AtTick("SAFE")
  /\ telemAge >= SafeRate
  /\ calmFor' = CalmAfter(r)
  /\ IF RecoveryOk(r)
       THEN UNCHANGED stableFor /\ EnterNominal
       ELSE /\ stableFor' = StabilityAfter(r)
            /\ EmitTelemetry
            /\ pc' = "sleep"
            /\ UNCHANGED <<task, state, running, wdRestarts, bootCounter,
                           history>>

\* _do_safe otherwise.  Its escalation T6, and the _do_critical it leads
\* to, keep their place in the code's order; TickingUnderLimit below says
\* that no execution reaches them.
TickSafe(r) ==
  /\ AtTick("SAFE")
  /\ telemAge >= SafeRate
  /\ calmFor' = CalmAfter(r)
  /\ IF wdRestarts > MaxWdRestarts
       THEN /\ TransitionTo("CRITICAL")
            /\ pc' = "sleep"
            /\ UNCHANGED <<task, running, wdRestarts, bootCounter, telemAge,
                           stableFor, history>>
       ELSE IF RecoveryOk(r)
       THEN stableFor' = None /\ EnterNominal
       ELSE /\ stableFor' = StabilityAfter(r)
            /\ EmitTelemetry
            /\ pc' = "sleep"
            /\ UNCHANGED <<task, state, running, wdRestarts, bootCounter,
                           history>>

Later(x, d, cap) == IF x = None THEN None ELSE CapTo(x + d, cap)

\* time.sleep, and whatever else delays the next tick.
Sleep(d) ==
  /\ pc = "sleep"
  /\ pc' = "tick"
  /\ telemAge' = Later(telemAge, d, SafeRate)
  /\ stableFor' = Later(stableFor, d, StabilityTimer)
  /\ calmFor' = Later(calmFor, d, StabilityTimer)
  /\ UNCHANGED <<task, state, running, wdRestarts, bootCounter, history>>

\* The loop condition fails: the process exits with status 0.
ExitLoop ==
  /\ pc = "tick" /\ ~running
  /\ pc' = "halted"
  /\ UNCHANGED <<task, state, running, wdRestarts, bootCounter, timers,
                 history>>

\* stop(), from a signal handler, at any point of the main thread.
Stop ==
  /\ pc \in Alive
  /\ running' = FALSE
  /\ UNCHANGED <<pc, task, state, wdRestarts, bootCounter, timers, history>>

\* The process dies: SIGKILL from the watchdog, or an uncaught exception.
Crash ==
  /\ pc \in Alive
  /\ pc' = "down"
  /\ uncounted' = IF task # "recovery" \/ pc \notin {"open", "write"}
                  THEN uncounted
                  ELSE IF pc = "open" THEN uncounted + 1 ELSE restarts
  /\ UNCHANGED <<task, state, running, wdRestarts, bootCounter, timers,
                 restarts, uncleared>>

-----------------------------------------------------------------------------

Init ==
  /\ pc = "halted" /\ task = "boot" /\ state = "BOOT" /\ running = FALSE
  /\ wdRestarts = 0
  /\ bootCounter = Unreadable
  /\ telemAge = 0 /\ stableFor = None /\ calmFor = 0
  /\ restarts = 0 /\ uncounted = 0 /\ uncleared = 0

Step ==
  \/ OpenForSave \/ WriteCounter
  \/ FinishRecovery \/ FinishBoot \/ FinishClear
  \/ TickBoot \/ TickSafeSkip \/ ExitLoop
  \/ \E r \in Readings : TickNominal(r) \/ TickSafe(r)
  \/ \E d \in Pauses : Sleep(d)

Next ==
  \/ Step \/ Stop \/ Crash
  \/ \E recovery \in RecoveryModes : Launch(recovery)

\* A process that is neither killed nor blocked goes on: nothing is assumed
\* of kills, signals, launches or sensor readings.
Spec == Init /\ [][Next]_vars /\ WF_vars(Step)

-----------------------------------------------------------------------------
(* Properties *)

FlagsTypeOK == running \in BOOLEAN

ValuesTypeOK ==
  /\ pc \in Alive \cup {"down", "halted"}
  /\ task \in Tasks
  /\ state \in States
  /\ wdRestarts \in Nat
  /\ bootCounter \in Nat \cup {Unreadable}
  /\ telemAge \in 0 .. SafeRate
  /\ stableFor \in (0 .. StabilityTimer) \cup {None}
  /\ calmFor \in 0 .. StabilityTimer
  /\ restarts \in Nat
  /\ uncounted \in Nat
  /\ uncleared \in Nat

\* Every variable keeps its type.  telemAge, stableFor and calmFor never
\* pass the value at which the code stops telling ages apart.
TypeOK == FlagsTypeOK /\ ValuesTypeOK

\* The main loop never runs a tick in CRITICAL or over the restart limit:
\* start() has already sent such a process away, so that the T6 branch of
\* _do_safe and the whole of _do_critical are never executed.
TickingUnderLimit ==
  pc \in {"tick", "sleep"} => state # "CRITICAL" /\ wdRestarts <= MaxWdRestarts

\* CRITICAL is final for the process that enters it, and it takes more than
\* MaxWdRestarts recovery starts that no clearing of the boot counter
\* separates, whatever kills and failed saves happened in between.
NoPrematureEscalation ==
  state = "CRITICAL" => pc = "halted" /\ ~running /\ uncleared > MaxWdRestarts

\* The converse: a process that comes back more than MaxWdRestarts times
\* without reaching NOMINAL never serves in SAFE again, as far as kills and
\* I/O errors inside the save of start() have not lost the count.
EscalationHonoured ==
  state = "SAFE" => restarts - uncounted <= MaxWdRestarts

\* Anti-oscillation: no process leaves SAFE for NOMINAL within
\* StabilityTimer seconds of a sample that was not clear, or of the fault
\* that sent it to SAFE, over any sequence of recoveries and relapses.
StableBeforeNominal ==
  [][state = "SAFE" /\ state' = "NOMINAL" => calmFor >= StabilityTimer]_vars

\* A process that from some time on is neither killed nor stopped, and from
\* some time on samples only clear readings, is in NOMINAL for good.
RecoversWhenCalm ==
  <>[](pc \in Alive /\ calmFor = StabilityTimer) => <>[](state = "NOMINAL")

-----------------------------------------------------------------------------
(* The inductive invariant *)

Saving == pc \in {"open", "write", "finish"}

\* Which state a save is made in.
SaveOfState ==
  Saving => /\ task \in {"recovery", "boot"} => state = "BOOT"
            /\ task = "clear" => state = "NOMINAL"

\* The counter never exceeds the recovery starts since it was cleared, and
\* neither does the count that is about to replace it.
CounterUpperBound ==
  /\ LoadBootCounter <= uncleared
  /\ Saving /\ task = "recovery" => wdRestarts <= uncleared

\* The counter, or the count about to be saved, covers every restart since
\* NOMINAL but those that saves of start() have lost.
CounterLowerBound ==
  /\ ~(pc \in {"open", "write"} /\ task = "recovery") =>
       restarts - uncounted <= LoadBootCounter
  /\ pc \in {"open", "write"} /\ task = "recovery" =>
       restarts - uncounted <= wdRestarts
  /\ pc = "open" /\ task = "recovery" =>
       wdRestarts = LoadBootCounter + 1
  /\ pc = "finish" /\ task = "recovery" =>
       restarts - uncounted <= wdRestarts

\* NOMINAL and a normal boot start the count of restarts again.
FreshCount ==
  /\ state = "NOMINAL" => restarts = 0
  /\ pc \in {"tick", "sleep"} /\ state = "BOOT" => restarts = 0
  /\ Saving /\ task = "boot" => restarts = 0

\* The stability timer runs in SAFE only, and never ahead of the calm.
TimerSound ==
  /\ stableFor <= calmFor
  /\ state # "SAFE" => stableFor = None

\* The invariants above with what makes them inductive.
IndInv ==
  /\ TypeOK
  /\ TickingUnderLimit
  /\ NoPrematureEscalation
  /\ EscalationHonoured
  /\ SaveOfState
  /\ CounterUpperBound
  /\ CounterLowerBound
  /\ FreshCount
  /\ TimerSound

-----------------------------------------------------------------------------
(* Claims of the repository that the code does not keep *)

\* What the transition's own text claims ("N consecutive restarts"): only
\* restarts of a killed process, since it was last NOMINAL, lead to CRITICAL.
ConsecutiveRestartsOnly ==
  state = "CRITICAL" => restarts > MaxWdRestarts

\* What the guide promises of T6, with no exception for torn saves.
EscalationAlwaysHonoured ==
  state = "SAFE" => restarts <= MaxWdRestarts
=============================================================================
