--------------------------- MODULE WindowScheduler ---------------------------
(***************************************************************************)
(* The contact window scheduler of the flight segment                      *)
(* (flight/window_scheduler.py): open and closed windows that take turns,  *)
(* an override that forces the window closed, and the callback that tells  *)
(* a listener of changes, called by several threads under one lock.        *)
(*                                                                         *)
(* The lock is not reentrant.  What a call does under it is one step, for  *)
(* nothing in it waits, with one exception: current_window_info of a       *)
(* closed window calls time_until_next_open, which takes the lock again.   *)
(* What a call does after the lock is released is a step of its own.       *)
(***************************************************************************)
EXTENDS Integers

CONSTANTS
  Callers,          \* threads that query and force the window
  OpenDuration,     \* _open_duration, in seconds
  ClosedDuration,   \* _closed_duration
  ForceDurations,   \* durations that callers force the window closed for
  MaxWindows        \* bound: windows that are opened

Forever == -1       \* _force_until = None: no force, or one without an end
Ticker  == "ticker" \* the thread of start_loop
Nobody  == "nobody"
Threads == Callers \cup {Ticker}

ASSUME SchedulerAssumption ==
  /\ OpenDuration \in Nat \ {0} /\ ClosedDuration \in Nat \ {0}
  /\ ForceDurations \subseteq Nat
  /\ MaxWindows \in Nat
  /\ Ticker \notin Callers /\ Nobody \notin Threads

VARIABLES
  isOpen,      \* _is_open
  elapsed,     \* time since _state_start, capped at the longer duration
  windowId,    \* _window_id
  completed,   \* _total_completed
  forced,      \* _forced_closed
  forceLeft,   \* time left to _force_until, or Forever
  running,     \* _running
  lock,        \* the thread that holds _lock between two steps, or Nobody
  pc,          \* per thread: what it is about to do
  told,        \* what the listener heard last
  \* History, read by no action:
  startOpen,   \* start_open
  closedInfo,  \* current_window_info was asked of a closed window
  gap          \* why the listener may have heard wrong since the last turn

window  == <<isOpen, elapsed, windowId, completed>>
force   == <<forced, forceLeft>>
history == <<startOpen, closedInfo, gap>>
vars    == <<window, force, running, lock, pc, told, history>>

\* The calls a thread may make, and where a thread is:
\*   "again"   waits in current_window_info for the lock it holds,
\*   "deaf"    calls the listener with False, after force_closed,
\*   "cleared" reads _is_open, after clear_force,
\*   "hail"    calls the listener with True, having read it.
Calls  == {"query", "info", "force", "clear"}
Places == Calls \cup {"idle", "off", "tick", "again", "deaf", "cleared", "hail"}
Gaps   == {"none", "expired", "opened", "overtaken"}

Longest == IF OpenDuration > ClosedDuration THEN OpenDuration ELSE ClosedDuration

-----------------------------------------------------------------------------
(* Helpers *)

\* _forced_closed after _check_force_expiry.
StillForced   == forced /\ forceLeft # 0
EffectiveOpen == isOpen /\ ~StillForced

CheckExpiry ==
  /\ forced' = StillForced
  /\ forceLeft' = IF StillForced THEN forceLeft ELSE Forever

Free         == lock = Nobody
Go(t, place) == pc' = [pc EXCEPT ![t] = place]
Blame(b, g)  == gap' = IF b THEN g ELSE gap

-----------------------------------------------------------------------------
(* The calls of the threads *)

Call(c) ==
  /\ pc[c] = "idle"
  /\ \E call \in Calls : Go(c, call)
  /\ UNCHANGED <<window, force, running, lock, told, history>>

\* Mutant: a query of a closed window asks another query under the lock.
QueryAsking(c) ==
  /\ pc[c] = "query" /\ Free
  /\ CheckExpiry
  /\ Go(c, IF EffectiveOpen THEN "idle" ELSE "again")
  /\ lock' = IF EffectiveOpen THEN Nobody ELSE c
  /\ UNCHANGED <<window, running, told, history>>

\* is_open, time_until_next_open, time_until_close.
Query(c) ==
  /\ pc[c] = "query" /\ Free
  /\ CheckExpiry
  /\ Go(c, "idle")
  /\ UNCHANGED <<window, running, lock, told, history>>

\* current_window_info of an open window ...
InfoWhenOpen(c) ==
  /\ pc[c] = "info" /\ Free /\ EffectiveOpen
  /\ CheckExpiry
  /\ Go(c, "idle")
  /\ UNCHANGED <<window, running, lock, told, history>>

\* ... and of a closed one: time_until_next_open waits for the lock.
InfoWhenClosed(c) ==
  /\ pc[c] = "info" /\ Free /\ ~EffectiveOpen
  /\ CheckExpiry
  /\ lock' = c
  /\ closedInfo' = TRUE
  /\ Go(c, "again")
  /\ UNCHANGED <<window, running, told, startOpen, gap>>

\* force_closed, for d seconds or for ever.
ForceClosed(c) ==
  /\ pc[c] = "force" /\ Free
  /\ \E d \in ForceDurations \cup {Forever} :
       forceLeft' = d /\ Blame(isOpen /\ d = 0, "expired")
  /\ forced' = TRUE
  /\ Go(c, "deaf")
  /\ UNCHANGED <<window, running, lock, told, startOpen, closedInfo>>

TellForced(c) ==
  /\ pc[c] = "deaf"
  /\ told' = FALSE
  /\ Blame(EffectiveOpen, "overtaken")
  /\ Go(c, "idle")
  /\ UNCHANGED <<window, force, running, lock, startOpen, closedInfo>>

\* Mutant: nobody is told that a force was cleared.
ClearForceSilent(c) ==
  /\ pc[c] = "clear" /\ Free
  /\ forced' = FALSE /\ forceLeft' = Forever
  /\ Go(c, "idle")
  /\ UNCHANGED <<window, running, lock, told, history>>

\* clear_force.
ClearForce(c) ==
  /\ pc[c] = "clear" /\ Free
  /\ forced' = FALSE /\ forceLeft' = Forever
  /\ Go(c, "cleared")
  /\ UNCHANGED <<window, running, lock, told, history>>

\* clear_force reads _is_open after the lock is released ...
ReadAfterClear(c) ==
  /\ pc[c] = "cleared"
  /\ Go(c, IF isOpen THEN "hail" ELSE "idle")
  /\ UNCHANGED <<window, force, running, lock, told, history>>

\* ... and tells the listener if it was open.
TellCleared(c) ==
  /\ pc[c] = "hail"
  /\ told' = TRUE
  /\ Blame(~EffectiveOpen, "overtaken")
  /\ Go(c, "idle")
  /\ UNCHANGED <<window, force, running, lock, startOpen, closedInfo>>

-----------------------------------------------------------------------------
(* The loop, and time *)

StartLoop ==
  /\ pc[Ticker] = "off"
  /\ running' = TRUE
  /\ Go(Ticker, "idle")
  /\ UNCHANGED <<window, force, lock, told, history>>

LoopAgain ==
  /\ pc[Ticker] = "idle"
  /\ Go(Ticker, IF running THEN "tick" ELSE "off")
  /\ UNCHANGED <<window, force, running, lock, told, history>>

Stop ==
  /\ running
  /\ running' = FALSE
  /\ UNCHANGED <<window, force, lock, pc, told, history>>

\* Mutant: a window is not closed while it is forced closed.
ClosesUnforced == isOpen /\ ~StillForced /\ elapsed >= OpenDuration

ClosesNow == isOpen /\ elapsed >= OpenDuration
OpensNow  == ~isOpen /\ elapsed >= ClosedDuration /\ windowId < MaxWindows

CloseWindow ==
  /\ ClosesNow
  /\ isOpen' = FALSE /\ elapsed' = 0 /\ completed' = completed + 1
  /\ told' = FALSE /\ gap' = "none"
  /\ UNCHANGED windowId

\* Mutant: a window is counted when it opens, too.
OpenCounting ==
  /\ OpensNow
  /\ isOpen' = TRUE /\ elapsed' = 0 /\ windowId' = windowId + 1
  /\ told' = TRUE /\ gap' = IF StillForced THEN "opened" ELSE "none"
  /\ completed' = completed + 1

OpenWindow ==
  /\ OpensNow
  /\ isOpen' = TRUE /\ elapsed' = 0 /\ windowId' = windowId + 1
  /\ told' = TRUE /\ gap' = IF StillForced THEN "opened" ELSE "none"
  /\ UNCHANGED completed

NoTurn == ~ClosesNow /\ ~OpensNow /\ UNCHANGED <<window, told, gap>>

\* tick, which calls the listener under the lock.
Tick ==
  /\ pc[Ticker] = "tick" /\ Free
  /\ CheckExpiry
  /\ CloseWindow \/ OpenWindow \/ NoTurn
  /\ Go(Ticker, "idle")
  /\ UNCHANGED <<running, lock, startOpen, closedInfo>>

Pass ==
  /\ elapsed < Longest \/ forceLeft > 0
  /\ elapsed' = IF elapsed < Longest THEN elapsed + 1 ELSE elapsed
  /\ forceLeft' = IF forceLeft > 0 THEN forceLeft - 1 ELSE forceLeft
  /\ Blame(isOpen /\ forced /\ forceLeft = 1, "expired")
  /\ UNCHANGED <<isOpen, windowId, completed, forced, running, lock, pc, told,
                 startOpen, closedInfo>>

-----------------------------------------------------------------------------

Init ==
  /\ isOpen \in BOOLEAN
  /\ startOpen = isOpen /\ told = isOpen
  /\ elapsed = 0 /\ windowId = 0 /\ completed = 0
  /\ forced = FALSE /\ forceLeft = Forever
  /\ running = FALSE /\ lock = Nobody
  /\ pc = [t \in Threads |-> IF t = Ticker THEN "off" ELSE "idle"]
  /\ closedInfo = FALSE /\ gap = "none"

\* A caller in a call: it has the lock to itself or waits for it.
InCall(c) ==
  \/ Query(c) \/ InfoWhenOpen(c) \/ InfoWhenClosed(c)
  \/ ForceClosed(c) \/ TellForced(c)
  \/ ClearForce(c) \/ ReadAfterClear(c) \/ TellCleared(c)

Next ==
  \/ \E c \in Callers : Call(c) \/ InCall(c)
  \/ StartLoop \/ LoopAgain \/ Tick
  \/ Stop \/ Pass

\* Threads that can take a step do, time goes on, and the lock passes to
\* every thread that waits for it; nobody has to call or to stop.
Fairness ==
  /\ \A c \in Callers : WF_vars(InCall(c))
  /\ WF_vars(StartLoop) /\ WF_vars(LoopAgain) /\ WF_vars(Tick)
  /\ WF_vars(Pass)

Spec == Init /\ [][Next]_vars /\ Fairness

-----------------------------------------------------------------------------
(* Properties *)

\* Every variable keeps its type: only a caller holds the lock over a step,
\* and the time in a state stays within its cap.
TypeOK ==
  /\ isOpen \in BOOLEAN /\ elapsed \in 0 .. Longest
  /\ windowId \in 0 .. MaxWindows /\ completed \in Nat
  /\ forced \in BOOLEAN /\ forceLeft \in Nat \cup {Forever}
  /\ running \in BOOLEAN
  /\ lock \in Callers \cup {Nobody}
  /\ pc \in [Threads -> Places]
  /\ told \in BOOLEAN
  /\ startOpen \in BOOLEAN /\ closedInfo \in BOOLEAN /\ gap \in Gaps

\* The number of windows that were completed and the number of the window
\* agree with the state, however forces and ticks interleave: the first
\* window counts if the scheduler started in it.
WindowsCounted ==
  completed = windowId + (IF startOpen THEN 1 ELSE 0) - (IF isOpen THEN 1 ELSE 0)

Telling == \E c \in Callers : pc[c] \in {"deaf", "cleared", "hail"}

\* When no callback is on its way the listener knows whether the window is
\* open, unless since the last turn of the window a force ran out, which
\* nobody is told of, the window was opened under a force, which is told as
\* open, or a callback after the lock was overtaken by another change.
ListenerErrsWithCause == told = EffectiveOpen \/ gap # "none" \/ Telling

\* The lock is held over a step only by a thread that asked for the info of
\* a closed window; until then no call can wait for ever.
HeldOnlyByInfo ==
  lock # Nobody => pc[lock] = "again" /\ closedInfo

\* What the two of them rest on: an error in either direction has its cause.
WrongOpen   == told /\ ~isOpen => gap # "none"
WrongForced == told /\ isOpen /\ StillForced =>
                 gap # "none" \/ \E c \in Callers : pc[c] = "deaf"
WrongClosed == ~told /\ EffectiveOpen =>
                 gap # "none" \/ \E c \in Callers : pc[c] \in {"cleared", "hail"}

\* The inductive invariant.
IndInv ==
  /\ TypeOK
  /\ WindowsCounted /\ HeldOnlyByInfo
  /\ WrongOpen /\ WrongForced /\ WrongClosed

\* Open and closed windows take turns for ever, whatever is forced, while
\* the loop runs and nobody asks for the info of a closed window.
Halted      == closedInfo \/ pc[Ticker] = "off" \/ ~running
WindowsTurn ==
  /\ isOpen ~> ~isOpen \/ Halted
  /\ ~isOpen ~> isOpen \/ Halted \/ windowId = MaxWindows

\* Every call returns, until somebody asks for the info of a closed window.
CallsReturn ==
  \A c \in Callers : pc[c] # "idle" ~> pc[c] = "idle" \/ closedInfo

-----------------------------------------------------------------------------
(* Claims of the repository that the code does not keep *)

\* The scheduler is thread-safe: every call returns.
EveryCallReturns == \A c \in Callers : pc[c] # "idle" ~> pc[c] = "idle"
=============================================================================
