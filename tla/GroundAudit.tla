----------------------------- MODULE GroundAudit -----------------------------
(***************************************************************************)
(* The audit chain of the ground segment (services/audit.js): handlers of  *)
(* one Node.js process append to a table, each with the hash of the last   *)
(* row as it read it, while entries of the flight segment are inserted     *)
(* with the hashes of flight's own chain.                                  *)
(*                                                                         *)
(* A hash stands for all that is hashed and is the number of its row, so   *)
(* that 0 is 'GENESIS' and the last hash is the number of rows.            *)
(***************************************************************************)
EXTENDS Integers, Sequences, FiniteSets

CONSTANTS
  Handlers,     \* requests that can be under way at once
  MaxRows,      \* bound: rows of the table
  MaxTime,      \* bound: milliseconds of the clock
  MaxFailures   \* bound: queries that fail, restarts included

ASSUME GroundAuditAssumption ==
  /\ IsFiniteSet(Handlers)
  /\ MaxRows \in Nat /\ MaxTime \in Nat /\ MaxFailures \in Nat

VARIABLES
  rows,       \* audit_events, in the order of ctid
  log,        \* per handler: the call of logEvent it is in
  now,        \* the clock, in milliseconds
  failures,   \* count for the bound
  \* History, read by no action:
  forked      \* a row was inserted after another than the one it had read

auditVars == <<rows, log, now, failures, forked>>

Genesis == 0
Foreign == -1    \* a hash of flight's chain

\* about is what the event describes, 0 being anything but a window.
Rows  == [prev : Nat \cup {Foreign}, stamp : Nat, about : Nat, own : BOOLEAN]
Calls == [at : {"idle", "read", "stamp", "insert"}, about : Nat,
          prev : Nat, stamp : Nat]
NoCall == [at |-> "idle", about |-> 0, prev |-> 0, stamp |-> 0]

-----------------------------------------------------------------------------
(* Verification *)

\* AuditService.verifyChain: by ctid.  The hash of a row of flight is built
\* in another way and never equals the one computed again.
ChainValid ==
  \A i \in DOMAIN rows : rows[i].own /\ rows[i].prev = i - 1

\* GET /verify: by timestamp.  Rows of one millisecond come in any order, so
\* that no chain that holds two of them is sure to be accepted.
Before(i, j) == rows[i].stamp < rows[j].stamp
JustBefore(i, j) ==
  Before(i, j) /\ ~\E k \in DOMAIN rows : Before(i, k) /\ Before(k, j)
Tied == \E i, j \in DOMAIN rows : i # j /\ rows[i].stamp = rows[j].stamp

TimeChainValid ==
  /\ ~Tied
  /\ \A j \in DOMAIN rows :
       /\ rows[j].own
       /\ IF \E i \in DOMAIN rows : Before(i, j)
            THEN \E i \in DOMAIN rows : JustBefore(i, j) /\ rows[j].prev = i
            ELSE rows[j].prev = Genesis

-----------------------------------------------------------------------------
(* logEvent *)

BeginLog(h, about) ==
  /\ log[h] = NoCall
  /\ log' = [log EXCEPT ![h] = [NoCall EXCEPT !.at = "read", !.about = about]]

\* Mutant: rows are counted from one.
LastHashNext == Len(rows) + 1

LastHash == Len(rows)

ReadLast(h) ==
  /\ log[h].at = "read"
  /\ log' = [log EXCEPT ![h].at = "stamp", ![h].prev = LastHash]
  /\ UNCHANGED <<rows, now, failures, forked>>

\* The code between the two queries, which is run when the first answers.
TakeStamp(h) ==
  /\ log[h].at = "stamp"
  /\ log' = [log EXCEPT ![h].at = "insert", ![h].stamp = now]
  /\ UNCHANGED <<rows, now, failures, forked>>

NewRow(h) ==
  [prev |-> log[h].prev, stamp |-> log[h].stamp, about |-> log[h].about,
   own |-> TRUE]

\* Mutant: an insert whose answer is late is made again.
InsertRowAgain(h) ==
  /\ log[h].at = "insert" /\ Len(rows) < MaxRows
  /\ rows' = Append(rows, NewRow(h))
  /\ forked' = (forked \/ log[h].prev # Len(rows))
  /\ log' \in {log, [log EXCEPT ![h] = NoCall]}
  /\ UNCHANGED <<now, failures>>

InsertRow(h) ==
  /\ log[h].at = "insert" /\ Len(rows) < MaxRows
  /\ rows' = Append(rows, NewRow(h))
  /\ forked' = (forked \/ log[h].prev # Len(rows))
  /\ log' = [log EXCEPT ![h] = NoCall]
  /\ UNCHANGED <<now, failures>>

\* A query of logEvent fails, which ends the request.
FailLog(h) ==
  /\ log[h].at \in {"read", "insert"} /\ failures < MaxFailures
  /\ failures' = failures + 1
  /\ log' = [log EXCEPT ![h] = NoCall]
  /\ UNCHANGED <<rows, now, forked>>

\* A query of another part of a request fails.
FailElsewhere ==
  /\ failures < MaxFailures
  /\ failures' = failures + 1
  /\ UNCHANGED <<rows, log, now, forked>>

\* The process is started again: the calls under way are gone.
RestartLog ==
  /\ failures < MaxFailures
  /\ failures' = failures + 1
  /\ log' = [h \in Handlers |-> NoCall]
  /\ UNCHANGED <<rows, now, forked>>

\* Mutant: events of flight are put into the chain as they come in.
FlightEventChained ==
  /\ Len(rows) < MaxRows
  /\ \E s \in 0 .. now :
       rows' = Append(rows, [prev |-> LastHash, stamp |-> s, about |-> 0,
                             own |-> TRUE])
  /\ UNCHANGED <<log, now, failures, forked>>

\* An AUDIT_EVENT of flight, stamped by flight some time ago.
FlightEvent ==
  /\ Len(rows) < MaxRows
  /\ \E s \in 0 .. now :
       rows' = Append(rows, [prev |-> Foreign, stamp |-> s, about |-> 0,
                             own |-> FALSE])
  /\ UNCHANGED <<log, now, failures, forked>>

Tick ==
  /\ now < MaxTime
  /\ now' = now + 1
  /\ UNCHANGED <<rows, log, failures, forked>>

-----------------------------------------------------------------------------

AuditInit ==
  /\ rows = <<>> /\ now = 0 /\ failures = 0 /\ forked = FALSE
  /\ log = [h \in Handlers |-> NoCall]

\* What the rest of the ground segment may do to the chain.
AuditNext ==
  \/ \E h \in Handlers :
       \/ /\ \E about \in Nat : BeginLog(h, about)
          /\ UNCHANGED <<rows, now, failures, forked>>
       \/ ReadLast(h) \/ TakeStamp(h) \/ InsertRow(h) \/ FailLog(h)
  \/ FailElsewhere \/ RestartLog \/ FlightEvent \/ Tick

AuditSpec == AuditInit /\ [][AuditNext]_auditVars

-----------------------------------------------------------------------------
(* Properties *)

\* Every variable keeps its type; a row refers to an older one, and a
\* handler to one that is there.
AuditTypeOK ==
  /\ rows \in Seq(Rows)
  /\ \A i \in DOMAIN rows : rows[i].prev < i /\ rows[i].stamp <= now
  /\ log \in [Handlers -> Calls]
  /\ \A h \in Handlers : log[h].prev <= Len(rows) /\ log[h].stamp <= now
  /\ now \in Nat /\ failures \in Nat /\ forked \in BOOLEAN

\* The rows that refer to row p, and the calls that will.
Heirs(p)   == {i \in DOMAIN rows : rows[i].prev = p}
Waiting(p) ==
  {h \in Handlers : log[h].at \in {"stamp", "insert"} /\ log[h].prev = p}

\* The chain forks no further than handlers run at once: no row has more
\* than Cardinality(Handlers) rows that refer to it, over any interleaving,
\* failed query or restart, and whatever flight sends.
ForkBound ==
  \A p \in 0 .. Len(rows) : Cardinality(Heirs(p)) <= Cardinality(Handlers)

\* As long as no call of logEvent was overtaken and flight sent nothing,
\* verifyChain accepts the chain; GET /verify, which sorts by timestamp, also
\* does unless two rows share a millisecond.
VerifiersAccept ==
  ~forked /\ (\A i \in DOMAIN rows : rows[i].own) =>
    ChainValid /\ (TimeChainValid \/ Tied)
=============================================================================
