--------------------------- MODULE ContactWindows ---------------------------
(***************************************************************************)
(* The contact windows of the ground segment (routes/contactWindows.js and *)
(* db/manager.js) on top of its audit chain: a window is created after a   *)
(* query that found no overlap, its status is changed after a query that   *)
(* found the change allowed, and a created window is logged.  Each await is*)
(* a point where other requests go on; no transaction holds two queries    *)
(* together.                                                               *)
(***************************************************************************)
EXTENDS GroundAudit

CONSTANTS
  Spans,        \* the <<aos_time, los_time>> that operators ask for
  MaxRequests   \* bound: requests

ASSUME WindowsAssumption ==
  /\ Spans \subseteq {s \in Nat \X Nat : s[1] < s[2]}
  /\ MaxRequests \in Nat

VARIABLES
  windows,    \* contact_windows, by id
  job,        \* per handler: the request it serves
  requests,   \* count for the bound
  \* History, read by no action:
  raced,      \* a window was written on a reading that no longer held
  unlogged    \* windows whose request ended before they were logged

windowVars == <<windows, job, requests, raced, unlogged>>
vars       == <<auditVars, windowVars>>

Statuses == {"SCHEDULED", "ACTIVE", "COMPLETED", "CANCELLED"}
Live     == {"SCHEDULED", "ACTIVE"}
\* Where a request is: before findOverlapping, the insert, logEvent; before
\* the two queries of updateStatus.
Points   == {"idle", "check", "insert", "log", "read", "write"}
NoSpan   == <<0, 0>>
NoJob    == [at |-> "idle", span |-> NoSpan, id |-> 0, want |-> "SCHEDULED",
             stale |-> FALSE]

-----------------------------------------------------------------------------
(* Operations on the windows *)

Overlap(s, t) == s[1] < t[2] /\ s[2] > t[1]

\* Mutant: a window that is active is not looked at.
FindOverlappingScheduled(s) ==
  {w \in DOMAIN windows :
     windows[w].status = "SCHEDULED" /\ Overlap(windows[w].span, s)}

FindOverlapping(s) ==
  {w \in DOMAIN windows :
     windows[w].status \in Live /\ Overlap(windows[w].span, s)}

\* Mutant: a cancelled window may be scheduled for activation again.
AllowedAgain(from, to) ==
  \/ from \in {"SCHEDULED", "CANCELLED"} /\ to \in {"ACTIVE", "CANCELLED"}
  \/ from = "ACTIVE" /\ to = "COMPLETED"

\* VALID_TRANSITIONS of updateStatus.
Allowed(from, to) ==
  \/ from = "SCHEDULED" /\ to \in {"ACTIVE", "CANCELLED"}
  \/ from = "ACTIVE" /\ to = "COMPLETED"

Finish(h) == job' = [job EXCEPT ![h] = NoJob]

\* A write by h makes the readings of those in S out of date.
Outdate(h, S, new) ==
  job' = [g \in Handlers |->
            IF g = h THEN new
            ELSE IF g \in S THEN [job[g] EXCEPT !.stale = TRUE] ELSE job[g]]

-----------------------------------------------------------------------------
(* POST / *)

Receive(h, new) ==
  /\ job[h] = NoJob /\ log[h] = NoCall /\ requests < MaxRequests
  /\ requests' = requests + 1
  /\ job' = [job EXCEPT ![h] = new]
  /\ UNCHANGED <<auditVars, windows, raced, unlogged>>

PostWindow(h) ==
  \E s \in Spans : Receive(h, [NoJob EXCEPT !.at = "check", !.span = s])

CheckOverlap(h) ==
  /\ job[h].at = "check"
  /\ job' = [job EXCEPT ![h] = IF FindOverlapping(job[h].span) = {}
                                 THEN [job[h] EXCEPT !.at = "insert"]
                                 ELSE NoJob]
  /\ UNCHANGED <<auditVars, windows, requests, raced, unlogged>>

\* create, and the call of logEvent.
CreateWindow(h) ==
  /\ job[h].at = "insert"
  /\ windows' = Append(windows, [span |-> job[h].span, status |-> "SCHEDULED"])
  /\ raced' = (raced \/ job[h].stale)
  /\ Outdate(h, {g \in Handlers : /\ job[g].at = "insert"
                                 /\ Overlap(job[g].span, job[h].span)},
             [NoJob EXCEPT !.at = "log", !.id = Len(windows) + 1])
  /\ BeginLog(h, Len(windows) + 1)
  /\ UNCHANGED <<rows, now, failures, forked, requests, unlogged>>

LogReturns(h) ==
  /\ InsertRow(h)
  /\ Finish(h)
  /\ UNCHANGED <<windows, requests, raced, unlogged>>

-----------------------------------------------------------------------------
(* PATCH /:id *)

PatchWindow(h) ==
  \E w \in DOMAIN windows, to \in Statuses :
    Receive(h, [NoJob EXCEPT !.at = "read", !.id = w, !.want = to])

ReadStatus(h) ==
  /\ job[h].at = "read"
  /\ job' = [job EXCEPT ![h] = IF Allowed(windows[job[h].id].status, job[h].want)
                                 THEN [job[h] EXCEPT !.at = "write"]
                                 ELSE NoJob]
  /\ UNCHANGED <<auditVars, windows, requests, raced, unlogged>>

WriteStatus(h) ==
  /\ job[h].at = "write"
  /\ windows' = [windows EXCEPT ![job[h].id].status = job[h].want]
  /\ raced' = (raced \/ job[h].stale)
  /\ Outdate(h, {g \in Handlers : job[g].at = "write" /\ job[g].id = job[h].id},
             NoJob)
  /\ UNCHANGED <<auditVars, requests, unlogged>>

-----------------------------------------------------------------------------
(* Other requests that log, and failures *)

OtherEvent(h) ==
  /\ job[h] = NoJob /\ requests < MaxRequests
  /\ requests' = requests + 1
  /\ BeginLog(h, 0)
  /\ UNCHANGED <<rows, now, failures, forked, windows, job, raced, unlogged>>

LogGoesOn(h) == (ReadLast(h) \/ TakeStamp(h)) /\ UNCHANGED windowVars

Unlogging(S) == {job[h].id : h \in {g \in S : job[g].at = "log"}}

QueryFails(h) ==
  /\ \/ FailLog(h)
     \/ job[h].at \notin {"idle", "log"} /\ FailElsewhere
  /\ unlogged' = unlogged \cup Unlogging({h})
  /\ Finish(h)
  /\ UNCHANGED <<windows, requests, raced>>

Restart ==
  /\ RestartLog
  /\ unlogged' = unlogged \cup Unlogging(Handlers)
  /\ job' = [h \in Handlers |-> NoJob]
  /\ UNCHANGED <<windows, requests, raced>>

Elsewhere == (FlightEvent \/ Tick) /\ UNCHANGED windowVars

-----------------------------------------------------------------------------

Init ==
  /\ AuditInit
  /\ windows = <<>> /\ requests = 0 /\ raced = FALSE /\ unlogged = {}
  /\ job = [h \in Handlers |-> NoJob]

Next ==
  \/ \E h \in Handlers :
       \/ PostWindow(h) \/ CheckOverlap(h) \/ CreateWindow(h)
       \/ PatchWindow(h) \/ ReadStatus(h) \/ WriteStatus(h)
       \/ OtherEvent(h) \/ LogGoesOn(h) \/ LogReturns(h) \/ QueryFails(h)
  \/ Restart \/ Elsewhere

Spec == Init /\ [][Next]_vars

-----------------------------------------------------------------------------
(* Properties *)

Windows == [span : Spans, status : Statuses]
Jobs    == [at : Points, span : Spans \cup {NoSpan}, id : Nat,
            want : Statuses, stale : BOOLEAN]

\* Every variable keeps its type, and a handler is in logEvent for a window
\* exactly while its request is.
TypeOK ==
  /\ AuditTypeOK
  /\ windows \in Seq(Windows)
  /\ job \in [Handlers -> Jobs]
  /\ requests \in Nat /\ raced \in BOOLEAN
  /\ unlogged \subseteq DOMAIN windows
  /\ \A h \in Handlers :
       /\ job[h].at = "insert" \/ job[h].at = "check" => job[h].span \in Spans
       /\ job[h].at \in {"log", "read", "write"} => job[h].id \in DOMAIN windows
       /\ job[h].at # "idle" =>
            /\ job[h].at = "log" <=> log[h] # NoCall
            /\ job[h].at = "log" => log[h].about = job[h].id
       /\ job[h].at = "idle" => log[h].about = 0

\* Live windows do not overlap unless one was created, or had its status
\* written, on a reading that no longer held; the latter because such a
\* write can make a cancelled window active again, over its successor.
LiveDisjoint ==
  ~raced =>
    \A v, w \in DOMAIN windows :
      v # w /\ windows[v].status \in Live /\ windows[w].status \in Live =>
        ~Overlap(windows[v].span, windows[w].span)

\* A completed or cancelled window stays so, unless its status is written on
\* a reading that no longer held.
ClosedStays ==
  [][\A w \in DOMAIN windows :
       windows[w].status \notin Live => windows'[w] = windows[w] \/ raced']_vars

\* Every window has one audit row, or a request that is about to write it,
\* or its request failed and no later request ever logs it.
LogsOf(w)      == {i \in DOMAIN rows : rows[i].about = w}
BeingLogged(w) == {h \in Handlers : job[h].at = "log" /\ job[h].id = w}
CreatedIsLogged ==
  \A w \in DOMAIN windows :
    Cardinality(LogsOf(w)) + Cardinality(BeingLogged(w))
      + (IF w \in unlogged THEN 1 ELSE 0) = 1
=============================================================================
