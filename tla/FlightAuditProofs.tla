-------------------------- MODULE FlightAuditProofs --------------------------
(***************************************************************************)
(* What the flight's audit log keeps, for any number of entries, kills and *)
(* failed appends: an unbroken chain while no line was cut, entries that   *)
(* are never lost again once they can be read, and one lost entry at most  *)
(* for each cut.                                                           *)
(***************************************************************************)
EXTENDS FlightAudit, FiniteSetTheorems, TLAPS

(* The marks for a junk line and for no entry are no entries.              *)
LEMMA MarksAreNoEntries ==
  /\ Junk \notin Entries /\ None \notin Entries
  BY DEF Junk, None, Entries

(* An entry that log() begins is one, with a number of its own.            *)
LEMMA NextEntryType ==
  ASSUME TypeOK
  PROVE  /\ NextEntry \in Entries
         /\ NextEntry.hash = made + 1 /\ NextEntry.prev = prevHash
         /\ NextEntry # None /\ NextEntry # Junk
         /\ ~Readable(NextEntry)
  BY DEF TypeOK, NextEntry, Entries, None, Junk, Readable

(* A write puts its text on a line of its own, or spoils the last line     *)
(* when that has no newline, and leaves the other lines alone.             *)
LEMMA ExtendLines ==
  ASSUME TypeOK, ~ended => lines # <<>>,
         NEW text \in Entries \cup {Junk}, Extend(text)
  PROVE  /\ lines' \in Seq(Entries \cup {Junk})
         /\ ended => /\ Len(lines') = Len(lines) + 1
                     /\ \A i \in 1 .. Len(lines) : lines'[i] = lines[i]
                     /\ lines'[Len(lines) + 1] = text
         /\ ~ended => /\ Len(lines') = Len(lines)
                      /\ Len(lines) \in 1 .. Len(lines)
                      /\ \A i \in 1 .. Len(lines) - 1 : lines'[i] = lines[i]
                      /\ lines'[Len(lines)] = Junk
<1>0. lines \in Seq(Entries \cup {Junk})
  BY DEF TypeOK
<1>1. CASE ended
  BY <1>0, <1>1 DEF Extend
<1>2. CASE ~ended
  <2>1. /\ lines # <<>> /\ lines' = [lines EXCEPT ![Len(lines)] = Junk]
    BY <1>2 DEF Extend
  <2> QED
    BY <1>0, <1>2, <2>1
<1> QED
  BY <1>1, <1>2

(* What a write makes of what can be read: its own text, if it begins a    *)
(* line, and every entry but the one on an unended last line.              *)
LEMMA ExtendReadable ==
  ASSUME TypeOK, ~ended => lines # <<>>,
         NEW text \in Entries \cup {Junk}, Extend(text), NEW e \in Entries
  PROVE  /\ Readable(e)' => Readable(e) \/ (ended /\ e = text)
         /\ Readable(e) /\ (~ended => e # lines[Len(lines)]) => Readable(e)'
         /\ ended /\ e = text => Readable(e)'
<1>0. /\ lines \in Seq(Entries \cup {Junk}) /\ e # Junk
      /\ Len(lines) \in Nat /\ DOMAIN lines = 1 .. Len(lines)
      /\ DOMAIN lines' = 1 .. Len(lines')
  BY ExtendLines, MarksAreNoEntries DEF TypeOK
<1>1. CASE ended
  <2>1. /\ Len(lines') = Len(lines) + 1
        /\ \A i \in 1 .. Len(lines) : lines'[i] = lines[i]
        /\ lines'[Len(lines) + 1] = text
    BY <1>1, ExtendLines
  <2>2. \A i \in 1 .. Len(lines') : i \in 1 .. Len(lines) \/ i = Len(lines) + 1
    BY <1>0, <2>1
  <2>3. /\ 1 .. Len(lines) \subseteq 1 .. Len(lines')
        /\ Len(lines) + 1 \in 1 .. Len(lines')
    BY <1>0, <2>1
  <2> QED
    BY <1>0, <1>1, <2>1, <2>2, <2>3 DEF Readable
<1>2. CASE ~ended
  <2>1. /\ Len(lines') = Len(lines)
        /\ \A i \in 1 .. Len(lines) - 1 : lines'[i] = lines[i]
        /\ lines'[Len(lines)] = Junk
    BY <1>2, ExtendLines
  <2>2. \A i \in 1 .. Len(lines) :
          i \in 1 .. Len(lines) - 1 \/ i = Len(lines)
    <3>1. Len(lines) \in Nat
      BY <1>0
    <3> QED
      BY <3>1
  <2> QED
    BY <1>0, <1>2, <2>1, <2>2 DEF Readable
<1> QED
  BY <1>1, <1>2

(* The pointer that a started process loads is the hash of an entry in the *)
(* file, or Genesis.                                                       *)
LEMMA LastHashType ==
  ASSUME TypeOK
  PROVE  LastHash \in 0 .. made
<1>0. /\ lines \in Seq(Entries \cup {Junk}) /\ made \in Nat
      /\ DOMAIN lines = 1 .. Len(lines)
  BY DEF TypeOK
<1>1. CASE ~\E j \in DOMAIN lines : IsLast(j)
  BY <1>0, <1>1 DEF LastHash, Genesis
<1>2. CASE \E j \in DOMAIN lines : IsLast(j)
  <2>1. PICK j \in DOMAIN lines : IsLast(j) /\ LastHash = lines[j].hash
    BY <1>2 DEF LastHash
  <2>2. lines[j] \in Entries
    BY <1>0, <2>1 DEF IsLast, LastBefore, IsEntry
  <2>3. lines[j].hash <= made /\ lines[j].hash \in Nat
    BY <2>1, <2>2 DEF TypeOK, Entries
  <2> QED
    BY <1>0, <2>1, <2>3
<1> QED
  BY <1>1, <1>2

(* Type correctness is inductive.                                          *)
LEMMA NextTypeOK ==
  ASSUME IndInv, [Next]_vars
  PROVE  TypeOK'
<1>0. TypeOK /\ (~ended => lines # <<>>)
  BY DEF IndInv, TailSound
<1>1. ASSUME NEW text \in {Junk, NextEntry}, Extend(text), made' = made + 1
      PROVE  /\ lines' \in Seq(Entries \cup {Junk})
             /\ \A i \in DOMAIN lines' : lines'[i].hash <= made'
  <2>0. /\ text \in Entries \cup {Junk} /\ made \in Nat
        /\ text.hash <= made' /\ Junk.hash <= made'
    BY <1>0, <1>1, NextEntryType DEF TypeOK, Junk
  <2>1. lines' \in Seq(Entries \cup {Junk})
    BY <1>0, <1>1, <2>0, ExtendLines
  <2>2. ASSUME NEW i \in DOMAIN lines'
        PROVE  lines'[i] \in {text, Junk}
                 \/ (i \in DOMAIN lines /\ lines'[i] = lines[i])
    <3>0. /\ DOMAIN lines = 1 .. Len(lines) /\ Len(lines) \in Nat
          /\ i \in 1 .. Len(lines')
      BY <1>0, <2>1, <2>2 DEF TypeOK
    <3>1. CASE ended
      <4>1. /\ Len(lines') = Len(lines) + 1
            /\ \A k \in 1 .. Len(lines) : lines'[k] = lines[k]
            /\ lines'[Len(lines) + 1] = text
        BY <1>0, <1>1, <2>0, <3>1, ExtendLines
      <4>2. i \in 1 .. Len(lines) \/ i = Len(lines) + 1
        BY <3>0, <4>1
      <4> QED
        BY <3>0, <4>1, <4>2
    <3>2. CASE ~ended
      <4>1. /\ Len(lines') = Len(lines)
            /\ \A k \in 1 .. Len(lines) - 1 : lines'[k] = lines[k]
            /\ lines'[Len(lines)] = Junk
        BY <1>0, <1>1, <2>0, <3>2, ExtendLines
      <4>2. i \in 1 .. Len(lines) - 1 \/ i = Len(lines)
        BY <3>0, <4>1
      <4>3. i \in 1 .. Len(lines)
        BY <3>0, <4>1
      <4> QED
        BY <3>0, <4>1, <4>2, <4>3
    <3> QED
      BY <3>1, <3>2
  <2>3. \A i \in DOMAIN lines : lines[i].hash \in Int /\ lines[i].hash <= made
    <3>1. \A i \in DOMAIN lines : lines[i] \in Entries \cup {Junk}
      BY <1>0 DEF TypeOK
    <3> QED
      BY <1>0, <3>1 DEF TypeOK, Entries, Junk
  <2> QED
    BY <1>1, <2>0, <2>1, <2>2, <2>3
<1>2. CASE Start
  <2>1. prevHash' \in 0 .. made'
    BY <1>0, <1>2, LastHashType DEF Start
  <2> QED
    BY <1>0, <1>2, <2>1 DEF Start, TypeOK, file, history
<1>3. CASE AppendEntry
  <2>1. NextEntry \in Entries
    BY <1>0, NextEntryType
  <2>2. /\ lines' \in Seq(Entries \cup {Junk})
        /\ \A i \in DOMAIN lines' : lines'[i].hash <= made'
    BY <1>1, <1>3 DEF AppendEntry
  <2> QED
    BY <1>0, <1>3, <2>1, <2>2 DEF AppendEntry, TypeOK, history
<1>4. CASE FinishLog
  <2>1. pending \in Entries /\ pending.hash <= made
    BY <1>4 DEF FinishLog, IndInv, TypeOK, PendingSound
  <2> QED
    BY <1>0, <1>4, <2>1 DEF FinishLog, TypeOK, Entries, file
<1>5. CASE CutEntry
  <2>1. PICK text \in {Junk, NextEntry} : Extend(text)
    BY <1>5 DEF CutEntry
  <2>2. /\ lines' \in Seq(Entries \cup {Junk})
        /\ \A i \in DOMAIN lines' : lines'[i].hash <= made'
    BY <1>1, <1>5, <2>1 DEF CutEntry
  <2>3. /\ made' \in Nat /\ failures' \in Nat /\ cuts' \in Nat
        /\ prevHash' \in 0 .. made'
    BY <1>0, <1>5 DEF CutEntry, TypeOK
  <2>4. up' \in BOOLEAN /\ ended' \in BOOLEAN /\ astray' \in BOOLEAN
    BY <1>0, <1>5, Zenon DEF CutEntry, TypeOK
  <2>5. pending' \in Entries \cup {None} /\ logged' \subseteq Entries
    BY <1>0, <1>5 DEF CutEntry, TypeOK
  <2> QED
    BY <2>2, <2>3, <2>4, <2>5, Zenon DEF TypeOK
<1>6. CASE FailSync
  BY <1>0, <1>6 DEF FailSync, TypeOK, file
<1>7. CASE Kill
  BY <1>0, <1>7 DEF Kill, TypeOK, file, history
<1>8. CASE UNCHANGED vars
  BY <1>0, <1>8 DEF vars, TypeOK, file, history
<1> QED
  BY <1>2, <1>3, <1>4, <1>5, <1>6, <1>7, <1>8 DEF Next

(* The text of a write under way is no entry that log() has returned.      *)
LEMMA NextEntryNew ==
  ASSUME IndInv
  PROVE  NextEntry \notin logged /\ Junk \notin logged
<1>1. \A e \in logged : e \in Entries /\ e.hash <= made
  BY DEF IndInv, TypeOK, LoggedSound
<1>2. NextEntry.hash = made + 1 /\ made \in Nat
  BY NextEntryType DEF IndInv, TypeOK
<1> QED
  BY <1>1, <1>2, MarksAreNoEntries DEF Entries

(* No step makes an entry that log() has returned unreadable.              *)
LEMMA NextLoggedStays ==
  ASSUME IndInv, [Next]_vars
  PROVE  \A e \in logged : Readable(e) => Readable(e)'
<1> SUFFICES ASSUME NEW e \in logged, Readable(e) PROVE Readable(e)'
  OBVIOUS
<1>0. /\ TypeOK /\ e \in Entries
      /\ ~ended => lines # <<>> /\ e # lines[Len(lines)]
  BY DEF IndInv, TypeOK, TailSound
<1>1. ASSUME NEW text \in {Junk, NextEntry}, Extend(text)
      PROVE  Readable(e)'
  BY <1>0, <1>1, ExtendReadable, NextEntryType
<1>2. CASE lines' = lines
  BY <1>2 DEF Readable
<1>3. CASE AppendEntry \/ CutEntry
  BY <1>1, <1>3 DEF AppendEntry, CutEntry
<1> QED
  BY <1>2, <1>3
  DEF Next, Start, FinishLog, FailSync, Kill, vars, file

(* In an unbroken file the last entry is the last line.                    *)
LEMMA LastHashUnbroken ==
  ASSUME TypeOK, Unbroken
  PROVE  LastHash = IF lines = <<>> THEN Genesis ELSE lines[Len(lines)].hash
<1>0. /\ lines \in Seq(Entries \cup {Junk})
      /\ DOMAIN lines = 1 .. Len(lines) /\ Len(lines) \in Nat
      /\ \A i \in DOMAIN lines : IsEntry(i)
  BY DEF TypeOK, Unbroken
<1>1. CASE lines = <<>>
  BY <1>0, <1>1 DEF LastHash
<1>2. CASE lines # <<>>
  <2>1. Len(lines) \in DOMAIN lines
    BY <1>0, <1>2
  <2>2. IsLast(Len(lines))
    BY <1>0, <2>1 DEF IsLast, LastBefore
  <2>3. \A j \in DOMAIN lines : IsLast(j) => j = Len(lines)
    BY <1>0, <2>1 DEF IsLast, LastBefore
  <2>4. (CHOOSE j \in DOMAIN lines : IsLast(j)) = Len(lines)
    BY <2>1, <2>2, <2>3
  <2> QED
    BY <1>2, <2>1, <2>2, <2>4 DEF LastHash
<1> QED
  BY <1>1, <1>2

(* While nothing was cut and no sync has failed, the file is one chain     *)
(* that ends at the pointer, and holds all that was returned.              *)
LEMMA NextUnbroken ==
  ASSUME IndInv, [Next]_vars, cuts' = 0, ~astray'
  PROVE  Unbroken'
<1>0. /\ TypeOK /\ lines \in Seq(Entries \cup {Junk})
      /\ DOMAIN lines = 1 .. Len(lines) /\ Len(lines) \in Nat
      /\ cuts \in Nat
      /\ \A e \in logged : Readable(e) => Readable(e)'
  BY NextLoggedStays DEF IndInv, TypeOK
<1>1. Unbroken /\ ended /\ ~CutEntry /\ ~FailSync
  <2>1. cuts = 0 /\ ~astray /\ ~CutEntry /\ ~FailSync
    BY <1>0
    DEF Next, Start, AppendEntry, FinishLog, CutEntry, FailSync, Kill, vars,
        history
  <2> QED
    BY <2>1 DEF IndInv, Unbroken
<1> DEFINE TailHash == IF lines = <<>> THEN Genesis ELSE lines[Len(lines)].hash
<1>2. CASE Start
  <2>1. prevHash' = TailHash
    BY <1>0, <1>1, <1>2, LastHashUnbroken DEF Start
  <2> QED
    BY <1>1, <1>2, <2>1
    DEF Start, Unbroken, IsEntry, Readable, file, history
<1>3. CASE AppendEntry
  <2>1. /\ Len(lines') = Len(lines) + 1
        /\ \A i \in 1 .. Len(lines) : lines'[i] = lines[i]
        /\ lines'[Len(lines) + 1] = NextEntry
        /\ lines' \in Seq(Entries \cup {Junk})
    BY <1>0, <1>1, <1>3, NextEntryType, ExtendLines DEF AppendEntry
  <2>2. /\ NextEntry # Junk /\ NextEntry.prev = TailHash
    BY <1>0, <1>1, <1>3, NextEntryType DEF AppendEntry, CanLog, Unbroken
  <2>3. ASSUME NEW i \in DOMAIN lines'
        PROVE  /\ lines'[i] # Junk
               /\ lines'[i].prev =
                    IF i = 1 THEN Genesis ELSE lines'[i - 1].hash
    <3>0. i \in 1 .. Len(lines) \/ i = Len(lines) + 1
      BY <1>0, <2>1, <2>3
    <3>1. CASE i \in 1 .. Len(lines)
      <4>1. i = 1 \/ (i - 1 \in 1 .. Len(lines))
        BY <1>0, <3>1
      <4> QED
        BY <1>0, <1>1, <2>1, <3>1, <4>1 DEF Unbroken, IsEntry
    <3>2. CASE i = Len(lines) + 1
      <4>1. CASE lines = <<>>
        BY <2>1, <2>2, <3>2, <4>1
      <4>2. CASE lines # <<>>
        <5>1. /\ Len(lines) \in 1 .. Len(lines) /\ i # 1
              /\ i - 1 = Len(lines)
          BY <1>0, <3>2, <4>2
        <5> QED
          BY <2>1, <2>2, <3>2, <4>2, <5>1
      <4> QED
        BY <4>1, <4>2
    <3> QED
      BY <3>0, <3>1, <3>2
  <2>4. lines' # <<>> /\ lines'[Len(lines')] = NextEntry
    BY <1>0, <2>1
  <2>5. /\ ended' = TRUE /\ pending' = NextEntry /\ logged' = logged
        /\ NextEntry # None
    BY <1>0, <1>3, NextEntryType DEF AppendEntry, history
  <2>6. \A e \in logged' : Readable(e)'
    BY <1>0, <1>1, <2>5 DEF Unbroken
  <2> QED
    BY <2>3, <2>4, <2>5, <2>6 DEF Unbroken, IsEntry
<1>4. CASE FinishLog
  <2>1. /\ lines # <<>> /\ lines[Len(lines)] = pending
        /\ Len(lines) \in DOMAIN lines
    BY <1>0, <1>1, <1>4 DEF FinishLog, Unbroken
  <2>2. Readable(pending)
    BY <2>1 DEF Readable
  <2> QED
    BY <1>1, <1>4, <2>1, <2>2
    DEF FinishLog, Unbroken, IsEntry, Readable, file
<1>5. CASE Kill
  BY <1>1, <1>5 DEF Kill, Unbroken, IsEntry, Readable, file, history
<1>6. CASE UNCHANGED vars
  BY <1>1, <1>6 DEF vars, Unbroken, IsEntry, Readable, file, history
<1> QED
  BY <1>1, <1>2, <1>3, <1>4, <1>5, <1>6 DEF Next

(* An unbroken file is a chain that verify_chain accepts.                  *)
LEMMA UnbrokenVerifies ==
  ASSUME TypeOK, Unbroken
  PROVE  ChainValid /\ \A e \in logged : Readable(e)
<1> SUFFICES ASSUME NEW i \in DOMAIN lines PROVE Linked(i)
  BY DEF ChainValid, Unbroken
<1>0. /\ DOMAIN lines = 1 .. Len(lines) /\ Len(lines) \in Nat
      /\ i \in 1 .. Len(lines)
      /\ lines[i].prev = IF i = 1 THEN Genesis ELSE lines[i - 1].hash
      /\ \A k \in 1 .. Len(lines) : IsEntry(k)
  BY DEF TypeOK, Unbroken
<1>1. CASE i = 1
  BY <1>0, <1>1 DEF Linked
<1>2. CASE i # 1
  <2>1. i - 1 \in 1 .. i - 1 /\ i - 1 \in 1 .. Len(lines)
    BY <1>0, <1>2
  <2>2. LastBefore(i, i - 1)
    BY <1>0, <2>1 DEF LastBefore
  <2> QED
    BY <1>0, <1>2, <2>1, <2>2 DEF Linked
<1> QED
  BY <1>1, <1>2

(* What an entry under way, an unended line and the returned entries are   *)
(* stays true.                                                             *)
LEMMA NextSound ==
  ASSUME IndInv, [Next]_vars
  PROVE  PendingSound' /\ TailSound' /\ LoggedSound'
<1>0. /\ TypeOK /\ PendingSound /\ TailSound /\ LoggedSound
      /\ made \in Nat /\ (\A e \in logged : e \in Entries)
  BY DEF IndInv, TypeOK
<1>1. CASE Start \/ FailSync \/ Kill \/ UNCHANGED vars
  BY <1>0, <1>1
  DEF Start, FailSync, Kill, vars, file, history, PendingSound, TailSound,
      LoggedSound
<1>2. CASE AppendEntry
  <2>1. /\ ended' = TRUE /\ pending' = NextEntry /\ made' = made + 1
        /\ logged' = logged
    BY <1>2 DEF AppendEntry, history
  <2>2. NextEntry \notin logged /\ NextEntry.hash = made + 1
    BY <1>0, NextEntryNew, NextEntryType
  <2>3. LoggedSound'
    BY <1>0, <2>1 DEF LoggedSound, Entries
  <2> QED
    BY <1>0, <2>1, <2>2, <2>3 DEF PendingSound, TailSound
<1>3. CASE FinishLog
  <2>1. /\ ended /\ pending.hash <= made /\ logged' = logged \cup {pending}
        /\ pending' = None /\ UNCHANGED <<lines, ended, made>>
    BY <1>0, <1>3 DEF FinishLog, PendingSound, file
  <2>2. IsFiniteSet(logged')
    BY <1>0, <2>1, FS_AddElement DEF LoggedSound
  <2>3. \A e \in logged' : e.hash <= made'
    BY <1>0, <2>1 DEF LoggedSound
  <2> QED
    BY <2>1, <2>2, <2>3 DEF PendingSound, TailSound, LoggedSound
<1>4. CASE CutEntry
  <2>1. PICK text \in {Junk, NextEntry} : Extend(text)
    BY <1>4 DEF CutEntry
  <2>2. /\ ended' = FALSE /\ pending' = None /\ made' = made + 1
        /\ logged' = logged
    BY <1>4 DEF CutEntry, CanLog
  <2>3. text \in Entries \cup {Junk} /\ text \notin logged /\ Junk \notin logged
    BY <1>0, <2>1, NextEntryNew, NextEntryType
  <2>4. lines' # <<>> /\ lines'[Len(lines')] \in {text, Junk}
    <3>0. lines \in Seq(Entries \cup {Junk}) /\ Len(lines) \in Nat
      BY <1>0 DEF TypeOK
    <3>1. CASE ended
      <4>1. /\ Len(lines') = Len(lines) + 1
            /\ lines'[Len(lines) + 1] = text
        BY <1>0, <2>1, <2>3, <3>1, ExtendLines
      <4> QED
        BY <3>0, <4>1
    <3>2. CASE ~ended
      <4>1. /\ Len(lines') = Len(lines) /\ Len(lines) \in 1 .. Len(lines)
            /\ lines'[Len(lines)] = Junk
        BY <1>0, <2>1, <2>3, <3>2, ExtendLines DEF TailSound
      <4> QED
        BY <3>0, <4>1
    <3> QED
      BY <3>1, <3>2
  <2>5. LoggedSound'
    BY <1>0, <2>2 DEF LoggedSound, Entries
  <2> QED
    BY <2>2, <2>3, <2>4, <2>5 DEF PendingSound, TailSound
<1> QED
  BY <1>1, <1>2, <1>3, <1>4 DEF Next

(* The missing entries and the debt are numbers.                           *)
LEMMA MissingTypes ==
  ASSUME LoggedSound
  PROVE  /\ IsFiniteSet(Missing) /\ Cardinality(Missing) \in Nat
         /\ Owed \in 0 .. 2
<1>1. Missing \in SUBSET logged
  BY DEF Missing
<1>2. IsFiniteSet(Missing)
  BY <1>1, FS_Subset DEF LoggedSound
<1>3. Cardinality(Missing) \in Nat
  BY <1>2, FS_CardinalityType
<1> QED
  BY <1>2, <1>3 DEF Owed

(* Entries that log() does not return in a step do not go missing in it.   *)
LEMMA MissingKept ==
  ASSUME IndInv, [Next]_vars, logged' = logged
  PROVE  Cardinality(Missing') <= Cardinality(Missing)
<1>1. \A e \in logged : Readable(e) => Readable(e)'
  BY NextLoggedStays
<1>2. Missing' \in SUBSET Missing
  BY <1>1 DEF Missing
<1>3. IsFiniteSet(Missing)
  BY MissingTypes DEF IndInv
<1> QED
  BY <1>2, <1>3, FS_Subset

(* Every entry that goes missing, and every line left unended, is paid for *)
(* by a cut.                                                               *)
LEMMA NextPaid ==
  ASSUME IndInv, [Next]_vars
  PROVE  Paid'
<1>0. /\ TypeOK /\ PendingSound /\ TailSound /\ LoggedSound /\ Paid
      /\ cuts \in Nat
  BY DEF IndInv, TypeOK
<1>a. /\ IsFiniteSet(Missing) /\ Cardinality(Missing) \in Nat
      /\ Owed \in 0 .. 2 /\ cuts \in Nat
      /\ Cardinality(Missing) + Owed <= cuts
  BY <1>0, MissingTypes DEF Paid
<1>b. Cardinality(Missing') \in Nat
  <2>1. Missing' \in SUBSET logged' /\ IsFiniteSet(logged')
    BY NextSound DEF Missing, LoggedSound
  <2> QED
    BY <2>1, FS_Subset, FS_CardinalityType
<1>c. Owed' \in 0 .. 2
  BY DEF Owed
<1> SUFFICES Cardinality(Missing') + Owed' <= cuts'
  BY DEF Paid
<1>1. CASE AppendEntry
  <2>0. /\ logged' = logged /\ ended' = TRUE /\ pending' = NextEntry
        /\ pending = None /\ cuts' = cuts /\ Extend(NextEntry)
        /\ NextEntry \in Entries /\ ~Readable(NextEntry)
    BY <1>0, <1>1, NextEntryType DEF AppendEntry, CanLog, history
  <2>1. Cardinality(Missing') <= Cardinality(Missing)
    BY <2>0, MissingKept
  <2>2. Owed' <= Owed
    <3>1. CASE ended
      <4>1. /\ lines' \in Seq(Entries \cup {Junk})
            /\ Len(lines') = Len(lines) + 1
            /\ lines'[Len(lines) + 1] = NextEntry
        BY <1>0, <2>0, <3>1, ExtendLines
      <4>2. Len(lines) + 1 \in DOMAIN lines'
        BY <1>0, <4>1 DEF TypeOK
      <4>3. Readable(pending)'
        BY <2>0, <4>1, <4>2 DEF Readable
      <4> QED
        BY <2>0, <3>1, <4>3 DEF Owed
    <3>2. CASE ~ended
      BY <2>0, <3>2 DEF Owed
    <3> QED
      BY <3>1, <3>2
  <2> QED
    BY <1>a, <1>b, <1>c, <2>0, <2>1, <2>2
<1>2. CASE FinishLog
  <2>0. /\ logged' = logged \cup {pending} /\ pending # None /\ ended
        /\ pending' = None /\ UNCHANGED <<lines, ended, cuts>>
    BY <1>0, <1>2 DEF FinishLog, PendingSound, file
  <2>1. \A e : Readable(e)' <=> Readable(e)
    BY <2>0 DEF Readable
  <2>2. Owed' = 0
    BY <2>0 DEF Owed
  <2>3. CASE Readable(pending)
    <3>1. Missing' = Missing
      BY <2>0, <2>1, <2>3 DEF Missing
    <3> QED
      BY <1>a, <2>0, <2>2, <3>1
  <2>4. CASE ~Readable(pending)
    <3>1. Missing' = Missing \cup {pending}
      BY <2>0, <2>1, <2>4 DEF Missing
    <3>2. Cardinality(Missing \cup {pending})
            \in {Cardinality(Missing), Cardinality(Missing) + 1}
      <4>1. IsFiniteSet(Missing)
        BY <1>a
      <4> QED
        BY <4>1, FS_AddElement, Zenon
    <3>3. Owed = 1
      BY <2>0, <2>4 DEF Owed
    <3> QED
      BY <1>a, <1>b, <2>0, <2>2, <3>1, <3>2, <3>3
  <2> QED
    BY <2>3, <2>4
<1>3. CASE CutEntry
  <2>0. /\ logged' = logged /\ ended' = FALSE /\ pending = None
        /\ pending' = None /\ cuts' = cuts + 1
    BY <1>3 DEF CutEntry, CanLog
  <2>1. Cardinality(Missing') <= Cardinality(Missing)
    BY <2>0, MissingKept
  <2>2. Owed' = 1
    BY <2>0 DEF Owed
  <2> QED
    BY <1>a, <1>b, <2>0, <2>1, <2>2
<1>4. CASE Start \/ FailSync \/ Kill \/ UNCHANGED vars
  <2>0. /\ logged' = logged /\ UNCHANGED <<lines, ended, cuts>>
        /\ pending' = None \/ pending' = pending
    BY <1>4 DEF Start, FailSync, Kill, vars, file, history
  <2>1. Cardinality(Missing') <= Cardinality(Missing)
    BY <2>0, MissingKept
  <2>2. Owed' <= Owed
    BY <2>0 DEF Owed, Readable
  <2> QED
    BY <1>a, <1>b, <1>c, <2>0, <2>1, <2>2
<1> QED
  BY <1>1, <1>2, <1>3, <1>4 DEF Next

(* The invariant holds at first and is kept by every step.                 *)
LEMMA InitIndInv == Init => IndInv
<1> SUFFICES ASSUME Init PROVE IndInv
  OBVIOUS
<1>1. TypeOK
  <2>1. lines \in Seq(Entries \cup {Junk}) /\ DOMAIN lines = {}
    BY DEF Init
  <2>2. up \in BOOLEAN /\ ended \in BOOLEAN /\ astray \in BOOLEAN
    BY Zenon DEF Init
  <2>3. /\ made \in Nat /\ failures \in Nat /\ cuts \in Nat
        /\ prevHash \in 0 .. made
    BY DEF Init, Genesis
  <2>4. pending \in Entries \cup {None} /\ logged \subseteq Entries
    BY DEF Init
  <2> QED
    BY <2>1, <2>2, <2>3, <2>4, Zenon DEF TypeOK
<1>2. Unbroken
  BY DEF Init, Unbroken, Genesis
<1>3. PendingSound /\ TailSound
  BY DEF Init, PendingSound, TailSound
<1>4. LoggedSound
  BY FS_EmptySet DEF Init, LoggedSound
<1>5. Paid
  <2>1. Missing = {} /\ Owed = 0 /\ cuts = 0
    BY DEF Init, Missing, Owed
  <2> QED
    BY <2>1, FS_EmptySet DEF Paid
<1> QED
  BY <1>1, <1>2, <1>3, <1>4, <1>5 DEF IndInv

LEMMA NextIndInv == IndInv /\ [Next]_vars => IndInv'
  BY NextTypeOK, NextUnbroken, NextSound, NextPaid DEF IndInv

(* The inductive invariant of the log.                                     *)
THEOREM AuditInvariance == Spec => []IndInv
  BY InitIndInv, NextIndInv, PTL DEF Spec

(* Every variable keeps its type, and the file holds no entry that log()   *)
(* has not begun.                                                          *)
THEOREM AuditTypeCorrect == Spec => []TypeOK
<1>1. IndInv => TypeOK
  BY DEF IndInv
<1> QED
  BY AuditInvariance, <1>1, PTL

(* While no line was cut and no sync failed, whatever the kills and        *)
(* restarts, verify_chain accepts the file and the file holds every entry  *)
(* that log() returned.                                                    *)
THEOREM ChainSurvives == Spec => []ChainSurvivesKills
<1>1. IndInv => ChainSurvivesKills
  BY UnbrokenVerifies DEF IndInv, ChainSurvivesKills
<1> QED
  BY AuditInvariance, <1>1, PTL

(* Each cut costs at most one entry that log() has returned.               *)
THEOREM LossesBounded == Spec => []LossBounded
<1>1. ASSUME IndInv PROVE LossBounded
  <2>1. /\ Cardinality(Missing) \in Nat /\ Owed \in 0 .. 2 /\ cuts \in Nat
        /\ Cardinality(Missing) + Owed <= cuts
    BY <1>1, MissingTypes DEF IndInv, TypeOK, Paid
  <2>2. Cardinality(Missing) <= cuts
    BY <2>1
  <2> QED
    BY <2>2 DEF LossBounded, Missing
<1> QED
  BY AuditInvariance, <1>1, PTL

(* The log is append-only: an entry that log() has returned and that can   *)
(* be read can be read ever after.                                         *)
THEOREM LoggedNeverLost == Spec => LoggedStays
<1>1. IndInv /\ [Next]_vars
        => [\A e \in logged : Readable(e) => Readable(e)']_vars
  BY NextLoggedStays
<1> QED
  BY AuditInvariance, <1>1, PTL DEF Spec, LoggedStays
=============================================================================
