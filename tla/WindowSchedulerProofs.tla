------------------------ MODULE WindowSchedulerProofs ------------------------
(***************************************************************************)
(* What the window scheduler keeps, for any callers, durations and forces: *)
(* its windows are counted right, the lock is held over a step only by the *)
(* caller that waits for it itself, and the listener errs only with cause. *)
(***************************************************************************)
EXTENDS WindowScheduler, TLAPS

(* The thread of the loop is no caller, and Nobody is no thread.           *)
LEMMA ThreadFacts ==
  /\ Ticker \in Threads /\ Ticker \notin Callers
  /\ Callers \subseteq Threads /\ Nobody \notin Callers
  BY SchedulerAssumption DEF Threads

LEMMA DurationFacts ==
  Longest \in Nat \ {0} /\ OpenDuration <= Longest /\ ClosedDuration <= Longest
  BY SchedulerAssumption DEF Longest

(* What holds of every thread's place after a step of one of them.         *)
LEMMA GoType ==
  ASSUME pc \in [Threads -> Places], NEW t \in Threads, NEW p \in Places,
         Go(t, p)
  PROVE  /\ pc' \in [Threads -> Places] /\ pc'[t] = p
         /\ \A u \in Threads \ {t} : pc'[u] = pc[u]
  BY DEF Go

(* Numbers keep their type.                                                *)
LEMMA NumbersOK ==
  ASSUME TypeOK, [Next]_vars
  PROVE  /\ elapsed' \in 0 .. Longest /\ windowId' \in 0 .. MaxWindows
         /\ completed' \in Nat /\ forceLeft' \in Nat \cup {Forever}
<1> USE DEF TypeOK, Forever
<1>1. CASE UNCHANGED vars
  BY <1>1 DEF vars, window, force
<1>2. CASE Tick
  BY <1>2, SchedulerAssumption, DurationFacts
  DEF Tick, CheckExpiry, CloseWindow, OpenWindow, NoTurn, OpensNow, window
<1>3. CASE Pass
  BY <1>3, DurationFacts DEF Pass
<1>4. CASE StartLoop \/ LoopAgain \/ Stop
  BY <1>4 DEF StartLoop, LoopAgain, Stop, window, force
<1>5. ASSUME NEW c \in Callers, ForceClosed(c)
      PROVE  /\ elapsed' = elapsed /\ windowId' = windowId
             /\ completed' = completed /\ forceLeft' \in Nat \cup {Forever}
  BY <1>5, SchedulerAssumption DEF ForceClosed, window, Blame, Go
<1>6. ASSUME NEW c \in Callers,
             \/ Call(c) \/ Query(c) \/ InfoWhenOpen(c) \/ InfoWhenClosed(c)
             \/ TellForced(c) \/ ClearForce(c) \/ ReadAfterClear(c)
             \/ TellCleared(c)
      PROVE  /\ elapsed' = elapsed /\ windowId' = windowId
             /\ completed' = completed /\ forceLeft' \in Nat \cup {Forever}
  BY <1>6
  DEF Call, Query, InfoWhenOpen, InfoWhenClosed, TellForced, ClearForce,
      ReadAfterClear, TellCleared, CheckExpiry, window, force, Blame, Go
<1> QED
  BY <1>1, <1>2, <1>3, <1>4, <1>5, <1>6 DEF Next, InCall

(* Flags and places keep their type.                                       *)
LEMMA FlagsOK ==
  ASSUME TypeOK, [Next]_vars
  PROVE  /\ isOpen' \in BOOLEAN /\ forced' \in BOOLEAN /\ running' \in BOOLEAN
         /\ told' \in BOOLEAN /\ startOpen' \in BOOLEAN
         /\ closedInfo' \in BOOLEAN /\ gap' \in Gaps
         /\ lock' \in Callers \cup {Nobody}
         /\ pc' \in [Threads -> Places]
<1> USE DEF TypeOK, Gaps, Places, Calls
<1>0. StillForced \in BOOLEAN /\ EffectiveOpen \in BOOLEAN
  BY DEF StillForced, EffectiveOpen
<1>1. CASE UNCHANGED vars
  BY <1>1 DEF vars, window, force, history
<1>2. CASE Tick
  BY <1>0, <1>2, ThreadFacts
  DEF Tick, CheckExpiry, CloseWindow, OpenWindow, NoTurn, Go, window
<1>3. CASE Pass
  BY <1>3 DEF Pass, Blame
<1>4. CASE StartLoop \/ LoopAgain \/ Stop
  BY <1>4, ThreadFacts DEF StartLoop, LoopAgain, Stop, window, force, history, Go
<1>5. ASSUME NEW c \in Callers, Call(c) \/ InCall(c)
      PROVE  /\ isOpen' \in BOOLEAN /\ forced' \in BOOLEAN /\ running' \in BOOLEAN
             /\ told' \in BOOLEAN /\ startOpen' \in BOOLEAN
             /\ closedInfo' \in BOOLEAN /\ gap' \in Gaps
             /\ lock' \in Callers \cup {Nobody}
             /\ pc' \in [Threads -> Places]
  <2>1. \E p \in Places : pc' = [pc EXCEPT ![c] = p]
    BY <1>5
    DEF Call, InCall, Query, InfoWhenOpen, InfoWhenClosed, ForceClosed, TellForced,
        ClearForce, ReadAfterClear, TellCleared, Go
  <2>2. pc' \in [Threads -> Places]
    BY <2>1, ThreadFacts
  <2>3. CASE \/ Call(c) \/ Query(c) \/ InfoWhenOpen(c) \/ InfoWhenClosed(c)
    BY <1>0, <2>2, <2>3
    DEF Call, Query, InfoWhenOpen, InfoWhenClosed, CheckExpiry, window, force,
        history
  <2>4. CASE ForceClosed(c) \/ TellForced(c)
    BY <1>0, <2>2, <2>4 DEF ForceClosed, TellForced, Blame, window, force
  <2>5. CASE ClearForce(c) \/ ReadAfterClear(c) \/ TellCleared(c)
    BY <1>0, <2>2, <2>5
    DEF ClearForce, ReadAfterClear, TellCleared, Blame, window, force, history
  <2> QED
    BY <1>5, <2>3, <2>4, <2>5 DEF InCall
<1> QED
  BY <1>1, <1>2, <1>3, <1>4, <1>5 DEF Next

(* Type correctness is inductive.                                          *)
LEMMA NextTypeOK ==
  ASSUME TypeOK, [Next]_vars
  PROVE  TypeOK'
  BY NumbersOK, FlagsOK DEF TypeOK

(* Every turn keeps the count of the windows.                              *)
LEMMA NextCounted ==
  ASSUME TypeOK, WindowsCounted, [Next]_vars
  PROVE  WindowsCounted'
<1>1. CASE Tick
  <2>1. CASE CloseWindow
    BY <1>1, <2>1 DEF TypeOK, WindowsCounted, Tick, CloseWindow, ClosesNow
  <2>2. CASE OpenWindow
    BY <1>1, <2>2 DEF TypeOK, WindowsCounted, Tick, OpenWindow, OpensNow
  <2>3. CASE NoTurn
    BY <1>1, <2>3 DEF WindowsCounted, Tick, NoTurn, window
  <2> QED
    BY <1>1, <2>1, <2>2, <2>3 DEF Tick
<1>2. CASE \/ Pass \/ StartLoop \/ LoopAgain \/ Stop \/ UNCHANGED vars
             \/ \E c \in Callers : Call(c) \/ InCall(c)
  <2>1. /\ completed' = completed /\ windowId' = windowId
        /\ startOpen' = startOpen /\ isOpen' = isOpen
    BY <1>2
    DEF Pass, StartLoop, LoopAgain, Stop, Call, InCall, Query,
        InfoWhenOpen, InfoWhenClosed, ForceClosed, TellForced, ClearForce,
        ReadAfterClear, TellCleared, window, history, vars, Blame, Go, force,
        CheckExpiry
  <2> QED
    BY <2>1 DEF WindowsCounted
<1> QED
  BY <1>1, <1>2 DEF Next

(* Whoever holds the lock stays where it is, and takes it in the info of a *)
(* closed window only.                                                     *)
LEMMA NextHeld ==
  ASSUME TypeOK, HeldOnlyByInfo, [Next]_vars
  PROVE  HeldOnlyByInfo'
<1> USE DEF HeldOnlyByInfo
<1>0. /\ pc \in [Threads -> Places]
      /\ lock # Nobody => lock \in Callers
  BY DEF TypeOK
<1>1. ASSUME NEW c \in Callers, InfoWhenClosed(c)
      PROVE  HeldOnlyByInfo'
  BY <1>0, <1>1, ThreadFacts DEF InfoWhenClosed, Go
<1>2. ASSUME NEW c \in Callers,
             \/ Call(c) \/ Query(c) \/ InfoWhenOpen(c) \/ ForceClosed(c)
             \/ TellForced(c) \/ ClearForce(c) \/ ReadAfterClear(c)
             \/ TellCleared(c)
      PROVE  HeldOnlyByInfo'
  <2>1. lock' = lock /\ closedInfo' = closedInfo
    BY <1>2
    DEF Call, Query, InfoWhenOpen, ForceClosed, TellForced, ClearForce,
        ReadAfterClear, TellCleared, history, Blame, Go
  <2>2. pc[c] # "again" /\ \A u \in Threads \ {c} : pc'[u] = pc[u]
    BY <1>0, <1>2, ThreadFacts
    DEF Call, Query, InfoWhenOpen, ForceClosed, TellForced, ClearForce,
        ReadAfterClear, TellCleared, Go
  <2> QED
    BY <1>0, <2>1, <2>2, ThreadFacts
<1>3. CASE Tick \/ StartLoop \/ LoopAgain \/ Stop \/ Pass \/ UNCHANGED vars
  <2>1. lock' = lock /\ closedInfo' = closedInfo
    BY <1>3 DEF Tick, StartLoop, LoopAgain, Stop, Pass, vars, history
  <2>2. \A u \in Callers : pc'[u] = pc[u]
    BY <1>0, <1>3, ThreadFacts
    DEF Tick, StartLoop, LoopAgain, Stop, Pass, vars, Go
  <2> QED
    BY <1>0, <2>1, <2>2
<1> QED
  BY <1>1, <1>2, <1>3 DEF Next, InCall

Excuses == WrongOpen /\ WrongForced /\ WrongClosed

(* The listener's errors keep their cause: every callback that tells what  *)
(* is no longer so leaves a gap, and every change that needs one has it on *)
(* its way.                                                                *)
LEMMA NextExcuses ==
  ASSUME TypeOK, Excuses, [Next]_vars
  PROVE  Excuses'
<1> USE DEF Excuses, WrongOpen, WrongForced, WrongClosed
<1>0. /\ pc \in [Threads -> Places] /\ isOpen \in BOOLEAN /\ told \in BOOLEAN
      /\ forced \in BOOLEAN
      /\ EffectiveOpen = (isOpen /\ ~StillForced)
      /\ EffectiveOpen' = (isOpen' /\ ~StillForced')
  BY DEF TypeOK, EffectiveOpen
<1>e. CheckExpiry => StillForced' = StillForced
  BY <1>0 DEF CheckExpiry, StillForced, Forever
<1> DEFINE Deaf == \E c \in Callers : pc[c] = "deaf"
           Hail == \E c \in Callers : pc[c] \in {"cleared", "hail"}
<1>m. ASSUME NEW t \in Threads, NEW p \in Places, Go(t, p)
      PROVE  /\ pc[t] # "deaf" => (Deaf => Deaf')
             /\ pc[t] \notin {"cleared", "hail"} => (Hail => Hail')
  <2>1. pc[t] # "deaf" /\ Deaf => Deaf'
    BY <1>0, <1>m, GoType, ThreadFacts
  <2>2. pc[t] \notin {"cleared", "hail"} /\ Hail => Hail'
    BY <1>0, <1>m, GoType, ThreadFacts
  <2> QED
    BY <2>1, <2>2
<1>f. UNCHANGED force => StillForced' = StillForced
  BY DEF force, StillForced
<1>1. ASSUME NEW c \in Callers,
             \/ Call(c) \/ Query(c) \/ InfoWhenOpen(c) \/ InfoWhenClosed(c)
      PROVE  Excuses'
  <2>1. /\ isOpen' = isOpen /\ told' = told /\ gap' = gap
        /\ StillForced' = StillForced
    BY <1>1, <1>e, <1>f
    DEF Call, Query, InfoWhenOpen, InfoWhenClosed, window, history
  <2>2. pc[c] \notin {"deaf", "cleared", "hail"}
    BY <1>1 DEF Call, Query, InfoWhenOpen, InfoWhenClosed
  <2>3. \E p \in Places : Go(c, p)
    BY <1>1 DEF Call, Query, InfoWhenOpen, InfoWhenClosed, Places
  <2>4. (Deaf => Deaf') /\ (Hail => Hail')
    BY <1>m, <2>2, <2>3, ThreadFacts
  <2> QED
    BY <1>0, <2>1, <2>4
<1>2. ASSUME NEW c \in Callers, ForceClosed(c)
      PROVE  Excuses'
  <2>1. /\ isOpen' = isOpen /\ told' = told /\ pc'[c] = "deaf"
        /\ (Hail => Hail')
    <3>1. Go(c, "deaf") /\ pc[c] = "force" /\ "deaf" \in Places
      BY <1>2 DEF ForceClosed, Places
    <3>2. Hail => Hail'
      BY <1>m, <3>1, ThreadFacts
    <3>3. pc'[c] = "deaf"
      BY <1>0, <3>1, ThreadFacts DEF Go
    <3> QED
      BY <1>2, <3>2, <3>3 DEF ForceClosed, window
  <2>2. /\ gap # "none" => gap' # "none"
        /\ isOpen /\ ~StillForced' => gap' # "none"
    BY <1>2 DEF ForceClosed, StillForced, Blame
  <2> QED
    BY <1>0, <2>1, <2>2
<1>3. ASSUME NEW c \in Callers, TellForced(c)
      PROVE  Excuses'
  <2>1. /\ isOpen' = isOpen /\ told' = FALSE
        /\ StillForced' = StillForced
        /\ isOpen /\ ~StillForced => gap' # "none"
    BY <1>0, <1>3, <1>f DEF TellForced, window, Blame
  <2> QED
    BY <1>0, <2>1
<1>4. ASSUME NEW c \in Callers, ClearForce(c)
      PROVE  Excuses'
  <2>1. /\ isOpen' = isOpen /\ told' = told /\ gap' = gap
        /\ StillForced' = FALSE
    BY <1>4 DEF ClearForce, window, history, StillForced
  <2>2. pc'[c] = "cleared"
    BY <1>0, <1>4, ThreadFacts DEF ClearForce, Go
  <2> QED
    BY <1>0, <2>1, <2>2
<1>5. ASSUME NEW c \in Callers, ReadAfterClear(c)
      PROVE  Excuses'
  <2>1. /\ isOpen' = isOpen /\ told' = told /\ gap' = gap
        /\ StillForced' = StillForced
        /\ pc[c] = "cleared"
    BY <1>5, <1>f DEF ReadAfterClear, window, history
  <2>2. Deaf => Deaf'
    <3>1. \E p \in Places : Go(c, p)
      BY <1>5 DEF ReadAfterClear, Places
    <3> QED
      BY <1>m, <2>1, <3>1, ThreadFacts
  <2>3. isOpen => pc'[c] = "hail"
    BY <1>0, <1>5, ThreadFacts DEF ReadAfterClear, Go
  <2> QED
    BY <1>0, <2>1, <2>2, <2>3
<1>6. ASSUME NEW c \in Callers, TellCleared(c)
      PROVE  Excuses'
  <2>1. /\ isOpen' = isOpen /\ told' = TRUE
        /\ StillForced' = StillForced
        /\ ~(isOpen /\ ~StillForced) => gap' # "none"
    BY <1>0, <1>6, <1>f DEF TellCleared, window, Blame
  <2> QED
    BY <1>0, <2>1
<1>7. CASE Tick
  <2>1. StillForced' = StillForced
    BY <1>7, <1>e DEF Tick
  <2>2. CASE CloseWindow
    BY <1>0, <2>2 DEF CloseWindow
  <2>3. CASE OpenWindow
    BY <1>0, <2>1, <2>3 DEF OpenWindow
  <2>4. CASE NoTurn
    <3>1. isOpen' = isOpen /\ told' = told /\ gap' = gap
      BY <2>4 DEF NoTurn, window
    <3>2. pc[Ticker] = "tick" /\ Go(Ticker, "idle")
      BY <1>7 DEF Tick
    <3>3. (Deaf => Deaf') /\ (Hail => Hail')
      BY <1>m, <3>2, ThreadFacts DEF Places
    <3> QED
      BY <1>0, <2>1, <3>1, <3>3
  <2> QED
    BY <1>7, <2>2, <2>3, <2>4 DEF Tick
<1>8. CASE Pass
  <2>1. isOpen' = isOpen /\ told' = told /\ pc' = pc
    BY <1>8 DEF Pass
  <2>2. StillForced' => StillForced
    BY <1>8 DEF Pass, StillForced, TypeOK, Forever
  <2>3. /\ gap # "none" => gap' # "none"
        /\ isOpen /\ StillForced /\ ~StillForced' => gap' # "none"
    BY <1>8 DEF Pass, StillForced, TypeOK, Forever, Blame
  <2> QED
    BY <1>0, <2>1, <2>2, <2>3
<1>9. CASE StartLoop \/ LoopAgain \/ Stop \/ UNCHANGED vars
  <2>1. /\ isOpen' = isOpen /\ told' = told /\ gap' = gap
        /\ StillForced' = StillForced
    BY <1>9, <1>f DEF StartLoop, LoopAgain, Stop, vars, window, history
  <2>2. \A c \in Callers : pc'[c] = pc[c]
    BY <1>0, <1>9, ThreadFacts DEF StartLoop, LoopAgain, Stop, vars, Go
  <2> QED
    BY <1>0, <2>1, <2>2
<1> QED
  BY <1>1, <1>2, <1>3, <1>4, <1>5, <1>6, <1>7, <1>8, <1>9 DEF Next, InCall

(* The inductive invariant holds from the start and over every step.       *)
THEOREM SchedulerInvariance == Spec => []IndInv
<1>1. Init => IndInv
  <2> SUFFICES ASSUME Init PROVE IndInv
    OBVIOUS
  <2>1. TypeOK
    <3>1. /\ elapsed \in 0 .. Longest /\ windowId \in 0 .. MaxWindows
          /\ completed \in Nat /\ forceLeft \in Nat \cup {Forever}
      BY SchedulerAssumption, DurationFacts DEF Init
    <3>2. pc \in [Threads -> Places] /\ gap \in Gaps
      BY DEF Init, Gaps, Places
    <3> QED
      BY <3>1, <3>2 DEF Init, TypeOK
  <2>2. WindowsCounted
    BY DEF Init, WindowsCounted
  <2>3. HeldOnlyByInfo /\ WrongOpen /\ WrongForced /\ WrongClosed
    BY DEF Init, HeldOnlyByInfo, WrongOpen, WrongForced, WrongClosed,
           StillForced, EffectiveOpen
  <2> QED
    BY <2>1, <2>2, <2>3 DEF IndInv
<1>2. IndInv /\ [Next]_vars => IndInv'
  BY NextTypeOK, NextCounted, NextHeld, NextExcuses DEF IndInv, Excuses
<1> QED
  BY <1>1, <1>2, PTL DEF Spec

(* The listener, when no callback is on its way, errs only after a force   *)
(* that ran out, a window opened under a force, or an overtaken callback.  *)
THEOREM ListenerErrs == Spec => []ListenerErrsWithCause
<1>1. IndInv => ListenerErrsWithCause
  BY DEF IndInv, TypeOK, ListenerErrsWithCause, WrongOpen, WrongForced,
         WrongClosed, EffectiveOpen, StillForced, Telling
<1> QED
  BY <1>1, SchedulerInvariance, PTL
=============================================================================
