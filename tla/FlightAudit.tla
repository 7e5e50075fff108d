---------------------------- MODULE FlightAudit ----------------------------
(***************************************************************************)
(* The audit log of the flight segment (flight/audit_logger.py): a file of *)
(* JSON lines in which every entry carries the hash of the one before, over*)
(* restarts of the process, kills inside an append, and appends that fail. *)
(*                                                                         *)
(* log() holds a lock from the hash to the end of the append, so that one  *)
(* entry is under way at a time.  A hash stands for all that is hashed: it *)
(* is the number of its entry.                                             *)
(***************************************************************************)
EXTENDS Integers, Sequences, FiniteSets

CONSTANTS
  MaxEntries,   \* bound: entries that log() begins
  MaxFailures   \* bound: appends that are cut or fail

ASSUME AuditAssumption == MaxEntries \in Nat /\ MaxFailures \in Nat

VARIABLES
  up,          \* the process runs
  lines,       \* the lines of the file, each an entry or Junk
  ended,       \* the last line has its newline
  prevHash,    \* _prev_hash of the process
  pending,     \* the entry that log() has written but not yet returned
  made,        \* how many entries were begun
  failures,    \* count for the bound
  \* History, read by no action:
  logged,      \* the entries that log() has returned
  cuts,        \* how often the file was left without its last newline
  astray       \* an append failed after it had reached the file

file    == <<lines, ended>>
history == <<logged, cuts, astray>>
vars    == <<up, file, prevHash, pending, made, failures, history>>

Genesis == 0
Junk    == [hash |-> -1, prev |-> -1]    \* a line that does not parse
None    == [hash |-> -2, prev |-> -2]

Entries == [hash : Nat \ {0}, prev : Nat]

-----------------------------------------------------------------------------
(* Reading *)

IsEntry(i) == lines[i] # Junk

\* Entry j is the last one before position i, the lines that do not parse
\* being skipped (_read_all_entries).
LastBefore(i, j) ==
  j \in 1 .. i - 1 /\ IsEntry(j) /\ \A k \in j + 1 .. i - 1 : ~IsEntry(k)

\* _load_last_hash.
IsLast(j) == LastBefore(Len(lines) + 1, j)
LastHash  ==
  IF \E j \in DOMAIN lines : IsLast(j)
    THEN lines[CHOOSE j \in DOMAIN lines : IsLast(j)].hash
    ELSE Genesis

\* verify_chain: every entry refers to the entry read before it.
Linked(i) ==
  \/ lines[i].prev = Genesis /\ \A k \in 1 .. i - 1 : ~IsEntry(k)
  \/ \E j \in 1 .. i - 1 : LastBefore(i, j) /\ lines[i].prev = lines[j].hash

ChainValid == \A i \in DOMAIN lines : IsEntry(i) => Linked(i)

Readable(e) == \E i \in DOMAIN lines : lines[i] = e

-----------------------------------------------------------------------------
(* Writing *)

\* AuditLogger.__init__.
Start ==
  /\ ~up
  /\ up' = TRUE
  /\ prevHash' = LastHash
  /\ UNCHANGED <<file, pending, made, failures, history>>

NextEntry == [hash |-> made + 1, prev |-> prevHash]

\* Mutant: the file is opened for writing and not for appending.
ExtendAnew(text) == lines' = <<text>>

\* Text that begins a new line, or goes on after one that has no newline,
\* and then makes it unreadable.
Extend(text) ==
  lines' = IF ended THEN Append(lines, text)
                    ELSE [lines EXCEPT ![Len(lines)] = Junk]

CanLog == up /\ pending = None /\ made < MaxEntries

\* log() up to the flush of the line ...
AppendEntry ==
  /\ CanLog
  /\ Extend(NextEntry)
  /\ ended' = TRUE
  /\ pending' = NextEntry
  /\ made' = made + 1
  /\ UNCHANGED <<up, prevHash, failures, history>>

\* Mutant: the chain pointer is not moved.
FinishLogInPlace ==
  /\ pending # None
  /\ logged' = logged \cup {pending}
  /\ pending' = None
  /\ UNCHANGED <<up, file, prevHash, made, failures, cuts, astray>>

\* ... and from the fsync to its return.
FinishLog ==
  /\ pending # None
  /\ prevHash' = pending.hash
  /\ logged' = logged \cup {pending}
  /\ pending' = None
  /\ UNCHANGED <<up, file, made, failures, cuts, astray>>

\* Only a part of the line reaches the file, or all of it but the newline,
\* and either the process is killed or the write raises.
CutEntry ==
  /\ CanLog
  /\ failures < MaxFailures
  /\ \E text \in {Junk, NextEntry} : Extend(text)
  /\ ended' = FALSE
  /\ up' \in BOOLEAN
  /\ made' = made + 1
  /\ failures' = failures + 1
  /\ cuts' = cuts + 1
  /\ UNCHANGED <<prevHash, pending, logged, astray>>

\* fsync raises: the line is in the file and log() does not return.
FailSync ==
  /\ pending # None
  /\ failures < MaxFailures
  /\ pending' = None
  /\ failures' = failures + 1
  /\ astray' = TRUE
  /\ UNCHANGED <<up, file, prevHash, made, logged, cuts>>

\* A kill, anywhere but inside the write.
Kill ==
  /\ up
  /\ up' = FALSE
  /\ pending' = None
  /\ UNCHANGED <<file, prevHash, made, failures, history>>

-----------------------------------------------------------------------------

Init ==
  /\ up = FALSE
  /\ lines = <<>> /\ ended = TRUE
  /\ prevHash = Genesis /\ pending = None /\ made = 0
  /\ failures = 0
  /\ logged = {} /\ cuts = 0 /\ astray = FALSE

Next ==
  \/ Start \/ AppendEntry \/ FinishLog \/ CutEntry \/ FailSync \/ Kill

Spec == Init /\ [][Next]_vars

-----------------------------------------------------------------------------
(* Properties *)

\* Every variable keeps its type, and only entries that log() has begun are
\* in the file.
TypeOK ==
  /\ up \in BOOLEAN /\ ended \in BOOLEAN /\ astray \in BOOLEAN
  /\ made \in Nat /\ failures \in Nat /\ cuts \in Nat
  /\ lines \in Seq(Entries \cup {Junk})
  /\ \A i \in DOMAIN lines : lines[i].hash <= made
  /\ prevHash \in 0 .. made
  /\ pending \in Entries \cup {None}
  /\ logged \subseteq Entries

\* Kills and restarts alone never break the chain or lose an entry: as long
\* as no line was cut and no sync failed, verify_chain accepts the file, and
\* it holds every entry that log() returned.
ChainSurvivesKills ==
  cuts = 0 /\ ~astray => ChainValid /\ \A e \in logged : Readable(e)

\* The log is append-only: whatever is cut or fails, an entry that log() has
\* returned and that can be read can be read ever after.
LoggedStays ==
  [][\A e \in logged : Readable(e) => Readable(e)']_vars

\* Each cut costs at most one entry that log() has returned.
LossBounded == Cardinality({e \in logged : ~Readable(e)}) <= cuts

\* How far the file and the process agree while nothing was cut and no sync
\* has failed: one chain without a gap, whose last hash is the pointer.
Unbroken ==
  /\ ended
  /\ \A i \in DOMAIN lines :
       /\ IsEntry(i)
       /\ lines[i].prev = IF i = 1 THEN Genesis ELSE lines[i - 1].hash
  /\ pending # None => lines # <<>> /\ lines[Len(lines)] = pending
  /\ up /\ pending = None =>
       prevHash = IF lines = <<>> THEN Genesis ELSE lines[Len(lines)].hash
  /\ \A e \in logged : Readable(e)

\* An entry is returned once its line has ended; the newline it lacks, or
\* the entry that was swallowed for it, is paid for by a cut.
Missing == {e \in logged : ~Readable(e)}
Owed    == (IF ended THEN 0 ELSE 1)
             + (IF pending # None /\ ~Readable(pending) THEN 1 ELSE 0)

PendingSound ==
  pending # None => ended /\ pending \notin logged /\ pending.hash <= made
TailSound    == ~ended => lines # <<>> /\ lines[Len(lines)] \notin logged
LoggedSound  == IsFiniteSet(logged) /\ \A e \in logged : e.hash <= made
Paid         == Cardinality(Missing) + Owed <= cuts

\* The inductive invariant: the chain while nothing was cut, what an entry
\* under way and an unended line are, and what the cuts have paid for.
IndInv ==
  /\ TypeOK
  /\ cuts = 0 /\ ~astray => Unbroken
  /\ PendingSound /\ TailSound /\ LoggedSound /\ Paid

-----------------------------------------------------------------------------
(* Claims of the repository that the code does not keep *)

\* The chain is tamper-evident: a chain that verifies lacks no entry.
VerifiedIsComplete == ChainValid => \A e \in logged : Readable(e)
=============================================================================
