------------------------ MODULE ContactWindowsProofs ------------------------
(***************************************************************************)
(* What the ground's records keep for any number of handlers, requests,    *)
(* failures and restarts.  The audit chain first: it forks no further than *)
(* handlers run at once, and verifyChain accepts it as long as no call was *)
(* overtaken.  Then the contact windows on top of it: the requests use the *)
(* chain as GroundAudit describes it, live windows do not overlap and      *)
(* closed ones stay closed unless a write rests on a reading that no       *)
(* longer holds, and every window is accounted for in the chain.           *)
(***************************************************************************)
EXTENDS ContactWindows, FiniteSetTheorems, TLAPS

-----------------------------------------------------------------------------
(* The audit chain *)

(* Type correctness is inductive.                                          *)
LEMMA NextAuditType ==
  ASSUME AuditTypeOK, [AuditNext]_auditVars
  PROVE  AuditTypeOK'
<1> USE DEF AuditTypeOK
<1>0. /\ rows \in Seq(Rows) /\ Len(rows) \in Nat
      /\ DOMAIN rows = 1 .. Len(rows)
      /\ \A i \in DOMAIN rows : rows[i] \in Rows
      /\ \A h \in Handlers : log[h] \in Calls
      /\ NoCall \in Calls
  BY DEF Calls, NoCall
<1>a. ASSUME NEW row \in Rows, rows' = Append(rows, row),
             row.prev <= Len(rows), row.stamp <= now, now' = now
      PROVE  /\ rows' \in Seq(Rows) /\ Len(rows') = Len(rows) + 1
             /\ \A i \in DOMAIN rows' : rows'[i].prev < i /\ rows'[i].stamp <= now'
  <2>1. /\ rows' \in Seq(Rows) /\ Len(rows') = Len(rows) + 1
        /\ \A i \in 1 .. Len(rows) : rows'[i] = rows[i]
        /\ rows'[Len(rows) + 1] = row
    BY <1>0, <1>a
  <2>2. DOMAIN rows' = 1 .. Len(rows) + 1
    BY <2>1
  <2>3. row.prev < Len(rows) + 1
    BY <1>0, <1>a DEF Rows, Foreign
  <2>4. ASSUME NEW i \in DOMAIN rows'
        PROVE  rows'[i].prev < i /\ rows'[i].stamp <= now'
    <3>1. i \in 1 .. Len(rows) \/ i = Len(rows) + 1
      BY <1>0, <2>2
    <3> QED
      BY <1>0, <1>a, <2>1, <2>3, <3>1
  <2> QED
    BY <2>1, <2>4
<1>1. CASE UNCHANGED auditVars
  BY <1>1 DEF auditVars
<1>2. ASSUME NEW h \in Handlers, NEW about \in Nat, BeginLog(h, about),
             UNCHANGED <<rows, now, failures, forked>>
      PROVE  AuditTypeOK'
  <2>1. log' = [log EXCEPT ![h] = [NoCall EXCEPT !.at = "read", !.about = about]]
    BY <1>2 DEF BeginLog
  <2>2. /\ [NoCall EXCEPT !.at = "read", !.about = about] \in Calls
        /\ [NoCall EXCEPT !.at = "read", !.about = about].prev = 0
        /\ [NoCall EXCEPT !.at = "read", !.about = about].stamp = 0
    BY DEF NoCall, Calls
  <2> QED
    BY <1>0, <1>2, <2>1, <2>2
<1>3. ASSUME NEW h \in Handlers, ReadLast(h)
      PROVE  AuditTypeOK'
  <2> DEFINE call == [log[h] EXCEPT !.at = "stamp", !.prev = Len(rows)]
  <2>1. call \in Calls /\ call.prev = Len(rows) /\ call.stamp = log[h].stamp
    BY <1>0 DEF Calls
  <2>2. log' = [log EXCEPT ![h] = call]
    BY <1>0, <1>3 DEF ReadLast, LastHash, Calls
  <2>3. rows' = rows /\ UNCHANGED <<now, failures, forked>>
    BY <1>3 DEF ReadLast
  <2>4. log' \in [Handlers -> Calls]
    BY <1>0, <2>1, <2>2
  <2>5. ASSUME NEW g \in Handlers
        PROVE  log'[g].prev <= Len(rows') /\ log'[g].stamp <= now'
    <3>1. log'[g] = IF g = h THEN call ELSE log[g]
      BY <1>0, <2>2
    <3> HIDE DEF call
    <3> QED
      BY <1>0, <2>1, <2>3, <3>1
  <2> QED
    BY <2>3, <2>4, <2>5
<1>4. ASSUME NEW h \in Handlers, TakeStamp(h)
      PROVE  AuditTypeOK'
  <2> DEFINE call == [log[h] EXCEPT !.at = "insert", !.stamp = now]
  <2>1. call \in Calls /\ call.stamp = now /\ call.prev = log[h].prev
    BY <1>0 DEF Calls
  <2>2. log' = [log EXCEPT ![h] = call]
    BY <1>0, <1>4 DEF TakeStamp, Calls
  <2> QED
    BY <1>0, <1>4, <2>1, <2>2 DEF TakeStamp
<1>5. ASSUME NEW h \in Handlers, InsertRow(h)
      PROVE  AuditTypeOK'
  <2>1. /\ NewRow(h) \in Rows /\ NewRow(h).prev <= Len(rows)
        /\ NewRow(h).stamp <= now
    BY <1>0 DEF NewRow, Rows, Calls
  <2>2. /\ rows' \in Seq(Rows) /\ Len(rows') = Len(rows) + 1
        /\ \A i \in DOMAIN rows' : rows'[i].prev < i /\ rows'[i].stamp <= now'
    BY <1>5, <1>a, <2>1 DEF InsertRow
  <2>3. /\ log' = [log EXCEPT ![h] = NoCall] /\ now' = now
        /\ failures' = failures /\ forked' \in BOOLEAN
    BY <1>5 DEF InsertRow
  <2>4. ASSUME NEW g \in Handlers
        PROVE  log'[g].prev <= Len(rows') /\ log'[g].stamp <= now'
    BY <1>0, <2>2, <2>3 DEF NoCall, Calls
  <2> QED
    BY <1>0, <2>2, <2>3, <2>4
<1>6. ASSUME NEW h \in Handlers, FailLog(h)
      PROVE  AuditTypeOK'
  BY <1>0, <1>6 DEF FailLog, NoCall
<1>7. CASE RestartLog
  BY <1>0, <1>7 DEF RestartLog, NoCall
<1>8. CASE FlightEvent
  <2>1. PICK s \in 0 .. now :
          rows' = Append(rows, [prev |-> Foreign, stamp |-> s, about |-> 0,
                                own |-> FALSE])
    BY <1>8 DEF FlightEvent
  <2>2. /\ rows' \in Seq(Rows) /\ Len(rows') = Len(rows) + 1
        /\ \A i \in DOMAIN rows' : rows'[i].prev < i /\ rows'[i].stamp <= now'
    BY <1>0, <1>8, <1>a, <2>1 DEF FlightEvent, Rows, Foreign
  <2> QED
    BY <1>0, <1>8, <2>2 DEF FlightEvent, Calls
<1>10. CASE FailElsewhere
  BY <1>0, <1>10 DEF FailElsewhere
<1>9. CASE Tick
  <2>1. \A i \in DOMAIN rows : rows[i].stamp \in Nat
    BY <1>0 DEF Rows
  <2>2. \A h \in Handlers : log[h].stamp \in Nat
    BY <1>0 DEF Calls
  <2> QED
    BY <1>0, <1>9, <2>1, <2>2 DEF Tick
<1> QED
  BY <1>1, <1>2, <1>3, <1>4, <1>5, <1>6, <1>7, <1>8, <1>9, <1>10 DEF AuditNext

(* A row that can still be chosen as a parent has all its heirs, present   *)
(* and to come, among as many as there are handlers.                       *)
Bounded(p)  == Cardinality(Heirs(p)) + Cardinality(Waiting(p)) <= Cardinality(Handlers)
AllBounded  == \A p \in 0 .. Len(rows) : Bounded(p)

LEMMA Finite ==
  ASSUME AuditTypeOK, NEW p
  PROVE  /\ IsFiniteSet(Heirs(p)) /\ Cardinality(Heirs(p)) \in Nat
         /\ IsFiniteSet(Waiting(p)) /\ Cardinality(Waiting(p)) \in Nat
         /\ Cardinality(Waiting(p)) <= Cardinality(Handlers)
         /\ Cardinality(Handlers) \in Nat
         /\ p = Len(rows) => Heirs(p) = {}
<1>1. Len(rows) \in Nat /\ DOMAIN rows = 1 .. Len(rows)
  BY DEF AuditTypeOK
<1>2. Heirs(p) \subseteq 1 .. Len(rows) /\ Waiting(p) \subseteq Handlers
  BY <1>1 DEF Heirs, Waiting
<1>3. IsFiniteSet(1 .. Len(rows))
  BY <1>1, FS_Interval
<1>4. p = Len(rows) => Heirs(p) = {}
  <2>1. \A i \in DOMAIN rows : rows[i].prev < i /\ rows[i] \in Rows
    BY <1>1 DEF AuditTypeOK
  <2>2. \A i \in DOMAIN rows : rows[i].prev # Len(rows)
    BY <1>1, <2>1 DEF Rows, Foreign
  <2> QED
    BY <2>2 DEF Heirs
<1> QED
  BY <1>2, <1>3, <1>4, FS_Subset, FS_CardinalityType, GroundAuditAssumption

(* A step that adds no heir and no call waiting keeps the bound.           *)
LEMMA KeepsBound ==
  ASSUME AuditTypeOK, AuditTypeOK', NEW p, Bounded(p),
         Heirs(p)' = Heirs(p), Waiting(p)' \subseteq Waiting(p)
  PROVE  Bounded(p)'
<1>1. Cardinality(Waiting(p)') <= Cardinality(Waiting(p))
  BY Finite, FS_Subset
<1>2. Cardinality(Waiting(p)') \in Nat
  BY Finite, FS_Subset, FS_CardinalityType
<1> QED
  BY <1>1, <1>2, Finite DEF Bounded

(* The chain forks no further, whatever a step does.                       *)
LEMMA NextBounded ==
  ASSUME AuditTypeOK, AuditTypeOK', AllBounded, [AuditNext]_auditVars
  PROVE  AllBounded'
<1>0. /\ Len(rows) \in Nat /\ DOMAIN rows = 1 .. Len(rows)
      /\ rows \in Seq(Rows) /\ log \in [Handlers -> Calls]
  BY DEF AuditTypeOK
<1>a. ASSUME rows' = rows,
             \A g \in Handlers : log'[g] = log[g] \/ log'[g].at \in {"idle", "read"}
               \/ (log'[g].prev = log[g].prev /\ log[g].at = "stamp")
      PROVE  AllBounded'
  <2> SUFFICES ASSUME NEW p \in 0 .. Len(rows)
               PROVE  Bounded(p)'
    BY <1>a DEF AllBounded
  <2>1. Heirs(p)' = Heirs(p)
    BY <1>a DEF Heirs
  <2>2. Waiting(p)' \subseteq Waiting(p)
    BY <1>a DEF Waiting
  <2>3. Bounded(p)
    BY DEF AllBounded
  <2> QED
    BY <2>1, <2>2, <2>3, KeepsBound
<1>b. ASSUME NEW row \in Rows, rows' = Append(rows, row)
      PROVE  /\ Len(rows') = Len(rows) + 1
             /\ \A p : Heirs(p)' = IF row.prev = p THEN Heirs(p) \cup {Len(rows) + 1}
                                                   ELSE Heirs(p)
  <2>1. /\ Len(rows') = Len(rows) + 1 /\ DOMAIN rows' = 1 .. Len(rows) + 1
        /\ \A i \in 1 .. Len(rows) : rows'[i] = rows[i]
        /\ rows'[Len(rows) + 1] = row
    BY <1>0, <1>b
  <2>2. DOMAIN rows' = DOMAIN rows \cup {Len(rows) + 1}
    BY <1>0, <2>1
  <2> QED
    BY <1>0, <2>1, <2>2 DEF Heirs
<1>c. ASSUME NEW row \in Rows, rows' = Append(rows, row), row.prev <= Len(rows),
             NEW p, p = Len(rows) + 1
      PROVE  Bounded(p)'
  <2>1. /\ Len(rows') = Len(rows) + 1 /\ DOMAIN rows' = 1 .. Len(rows) + 1
        /\ \A i \in DOMAIN rows' : rows'[i] \in Rows /\ rows'[i].prev < i
    BY <1>0, <1>c DEF AuditTypeOK
  <2>2. \A i \in DOMAIN rows' : rows'[i].prev # p
    BY <1>0, <1>c, <2>1 DEF Rows, Foreign
  <2>3. Heirs(p)' = {}
    BY <2>2 DEF Heirs
  <2>4. Waiting(p)' \subseteq Handlers
    BY DEF Waiting
  <2>5. Cardinality(Waiting(p)') <= Cardinality(Handlers)
        /\ Cardinality(Waiting(p)') \in Nat
    BY <2>4, FS_Subset, FS_CardinalityType, GroundAuditAssumption
  <2> QED
    BY <2>3, <2>5, FS_EmptySet DEF Bounded
<1>1. CASE UNCHANGED auditVars
  BY <1>1, <1>a DEF auditVars
<1>2. ASSUME NEW h \in Handlers, NEW about \in Nat, BeginLog(h, about),
             UNCHANGED <<rows, now, failures, forked>>
      PROVE  AllBounded'
  BY <1>0, <1>2, <1>a DEF BeginLog, NoCall
<1>3. ASSUME NEW h \in Handlers, ReadLast(h)
      PROVE  AllBounded'
  <2> SUFFICES ASSUME NEW p \in 0 .. Len(rows)
               PROVE  Bounded(p)'
    BY <1>3 DEF AllBounded, ReadLast
  <2>0. Heirs(p)' = Heirs(p)
    BY <1>3 DEF Heirs, ReadLast
  <2>1. CASE p = Len(rows)
    <3>1. Waiting(p)' \subseteq Handlers
      BY DEF Waiting
    <3>2. Cardinality(Waiting(p)') <= Cardinality(Handlers)
          /\ Cardinality(Waiting(p)') \in Nat
      BY <3>1, FS_Subset, FS_CardinalityType, GroundAuditAssumption
    <3>3. Heirs(p)' = {}
      BY <2>0, <2>1, Finite
    <3> QED
      BY <3>2, <3>3, FS_EmptySet DEF Bounded
  <2>2. CASE p # Len(rows)
    <3>1. \A g \in Handlers :
            log'[g] = log[g] \/ (g = h /\ log'[g].prev = Len(rows))
      BY <1>0, <1>3 DEF ReadLast, LastHash, Calls
    <3>2. Waiting(p)' \subseteq Waiting(p)
      BY <2>2, <3>1 DEF Waiting
    <3>3. Bounded(p)
      BY DEF AllBounded
    <3> QED
      BY <2>0, <3>2, <3>3, KeepsBound
  <2> QED
    BY <2>1, <2>2
<1>4. ASSUME NEW h \in Handlers, TakeStamp(h)
      PROVE  AllBounded'
  <2>1. \A g \in Handlers : log'[g] = log[g]
          \/ (log'[g].prev = log[g].prev /\ log[g].at = "stamp")
    BY <1>0, <1>4 DEF TakeStamp, Calls
  <2> QED
    BY <1>4, <1>a, <2>1 DEF TakeStamp
<1>5. ASSUME NEW h \in Handlers, InsertRow(h)
      PROVE  AllBounded'
  <2>1. /\ NewRow(h) \in Rows /\ NewRow(h).prev = log[h].prev
        /\ log[h].prev <= Len(rows)
    BY <1>0 DEF NewRow, Rows, Calls, AuditTypeOK
  <2>2. /\ rows' = Append(rows, NewRow(h)) /\ log[h].at = "insert"
        /\ log' = [log EXCEPT ![h] = NoCall]
    BY <1>5 DEF InsertRow
  <2>3. /\ Len(rows') = Len(rows) + 1
        /\ \A p : p = Len(rows) + 1 => Bounded(p)'
    BY <1>b, <1>c, <2>1, <2>2
  <2>4. ASSUME NEW p \in 0 .. Len(rows)
        PROVE  Bounded(p)'
    <3>1. Bounded(p)
      BY DEF AllBounded
    <3>2. CASE p # log[h].prev
      <4>1. Heirs(p)' = Heirs(p)
        BY <1>b, <2>1, <2>2, <3>2
      <4>2. Waiting(p)' \subseteq Waiting(p)
        BY <1>0, <2>2 DEF Waiting, NoCall
      <4> QED
        BY <3>1, <4>1, <4>2, KeepsBound
    <3>3. CASE p = log[h].prev
      <4>1. Heirs(p)' = Heirs(p) \cup {Len(rows) + 1}
        BY <1>b, <2>1, <2>2, <3>3
      <4>2. Len(rows) + 1 \notin Heirs(p)
        BY <1>0 DEF Heirs
      <4>3. Cardinality(Heirs(p)') = Cardinality(Heirs(p)) + 1
        <5>1. IsFiniteSet(Heirs(p))
          BY Finite
        <5> QED
          BY <4>1, <4>2, <5>1, FS_AddElement
      <4>4. Waiting(p)' = Waiting(p) \ {h} /\ h \in Waiting(p)
        BY <1>0, <2>2, <3>3 DEF Waiting, NoCall
      <4>5. Cardinality(Waiting(p)') = Cardinality(Waiting(p)) - 1
        BY <4>4, Finite, FS_RemoveElement
      <4> QED
        BY <3>1, <4>3, <4>5, Finite DEF Bounded
    <3> QED
      BY <3>2, <3>3
  <2>5. ASSUME NEW p \in 0 .. Len(rows) + 1
        PROVE  p \in 0 .. Len(rows) \/ p = Len(rows) + 1
    BY <1>0
  <2> QED
    BY <2>3, <2>4, <2>5 DEF AllBounded
<1>6. ASSUME NEW h \in Handlers, FailLog(h)
      PROVE  AllBounded'
  <2>1. \A g \in Handlers : log'[g] = log[g] \/ log'[g].at = "idle"
    BY <1>0, <1>6 DEF FailLog, NoCall
  <2> QED
    BY <1>6, <1>a, <2>1 DEF FailLog
<1>7. CASE RestartLog
  BY <1>7, <1>a DEF RestartLog, NoCall
<1>8. CASE FlightEvent
  <2>1. PICK row \in Rows :
          row.prev = Foreign /\ rows' = Append(rows, row)
    <3>1. PICK s \in 0 .. now :
            rows' = Append(rows, [prev |-> Foreign, stamp |-> s, about |-> 0,
                                  own |-> FALSE])
      BY <1>8 DEF FlightEvent
    <3>2. [prev |-> Foreign, stamp |-> s, about |-> 0, own |-> FALSE] \in Rows
      BY <3>1 DEF Rows, AuditTypeOK
    <3> QED
      BY <3>1, <3>2
  <2>2. /\ Len(rows') = Len(rows) + 1
        /\ \A p : p = Len(rows) + 1 => Bounded(p)'
    BY <1>0, <1>b, <1>c, <2>1 DEF Foreign
  <2>3. ASSUME NEW p \in 0 .. Len(rows)
        PROVE  Bounded(p)'
    <3>1. Heirs(p)' = Heirs(p)
      BY <1>b, <2>1 DEF Foreign
    <3>2. Waiting(p)' \subseteq Waiting(p)
      BY <1>8 DEF FlightEvent, Waiting
    <3>3. Bounded(p)
      BY DEF AllBounded
    <3> QED
      BY <3>1, <3>2, <3>3, KeepsBound
  <2>4. ASSUME NEW p \in 0 .. Len(rows) + 1
        PROVE  p \in 0 .. Len(rows) \/ p = Len(rows) + 1
    BY <1>0
  <2> QED
    BY <2>2, <2>3, <2>4 DEF AllBounded
<1>9. CASE Tick \/ FailElsewhere
  BY <1>9, <1>a DEF Tick, FailElsewhere
<1> QED
  BY <1>1, <1>2, <1>3, <1>4, <1>5, <1>6, <1>7, <1>8, <1>9 DEF AuditNext

(* While no call was overtaken and flight sent nothing, rows follow each   *)
(* other in time as in the chain, and a call that has read the last row    *)
(* has a later timestamp than all of them.                                 *)
AllOwn  == \A i \in DOMAIN rows : rows[i].own
Linear  == \A i \in DOMAIN rows : rows[i].prev = i - 1
InTime  == \A i, j \in DOMAIN rows : i <= j => rows[i].stamp <= rows[j].stamp
Later   == \A h \in Handlers :
             log[h].at = "insert" /\ log[h].prev = Len(rows) =>
               \A i \in DOMAIN rows : rows[i].stamp <= log[h].stamp
Orderly == ~forked /\ AllOwn => Linear /\ InTime /\ Later

LEMMA NextOrderly ==
  ASSUME AuditTypeOK, Orderly, [AuditNext]_auditVars
  PROVE  Orderly'
<1>0. /\ Len(rows) \in Nat /\ DOMAIN rows = 1 .. Len(rows)
      /\ rows \in Seq(Rows) /\ log \in [Handlers -> Calls]
      /\ \A i \in DOMAIN rows : rows[i].stamp <= now /\ rows[i].stamp \in Nat
      /\ forked \in BOOLEAN /\ now \in Nat
  <2>1. \A i \in DOMAIN rows : rows[i] \in Rows
    BY DEF AuditTypeOK
  <2> QED
    BY <2>1 DEF AuditTypeOK, Rows
<1>a. ASSUME rows' = rows, forked' = forked,
             \A g \in Handlers : log'[g].at = "insert" =>
               log'[g] = log[g] \/ log'[g].stamp = now
      PROVE  Orderly'
  <2> SUFFICES ASSUME ~forked, AllOwn
               PROVE  Linear' /\ InTime' /\ Later'
    BY <1>a DEF Orderly, AllOwn
  <2>1. Linear /\ InTime /\ Later
    BY DEF Orderly
  <2>2. Linear' /\ InTime'
    BY <1>a, <2>1 DEF Linear, InTime
  <2>3. Later'
    BY <1>0, <1>a, <2>1 DEF Later
  <2> QED
    BY <2>2, <2>3
<1>1. CASE UNCHANGED auditVars
  BY <1>1, <1>a DEF auditVars
<1>2. ASSUME NEW h \in Handlers, NEW about \in Nat, BeginLog(h, about),
             UNCHANGED <<rows, now, failures, forked>>
      PROVE  Orderly'
  <2>1. \A g \in Handlers : log'[g].at = "insert" => log'[g] = log[g]
    BY <1>0, <1>2 DEF BeginLog, NoCall
  <2> QED
    BY <1>2, <1>a, <2>1
<1>3. ASSUME NEW h \in Handlers, ReadLast(h)
      PROVE  Orderly'
  <2>1. \A g \in Handlers : log'[g].at = "insert" => log'[g] = log[g]
    BY <1>0, <1>3 DEF ReadLast, Calls
  <2> QED
    BY <1>3, <1>a, <2>1 DEF ReadLast
<1>4. ASSUME NEW h \in Handlers, TakeStamp(h)
      PROVE  Orderly'
  <2>1. \A g \in Handlers : log'[g] = log[g] \/ log'[g].stamp = now
    BY <1>0, <1>4 DEF TakeStamp, Calls
  <2> QED
    BY <1>4, <1>a, <2>1 DEF TakeStamp
<1>5. ASSUME NEW h \in Handlers, InsertRow(h)
      PROVE  Orderly'
  <2> DEFINE n == Len(rows)
  <2>1. /\ rows' = Append(rows, NewRow(h)) /\ log[h].at = "insert"
        /\ log' = [log EXCEPT ![h] = NoCall]
        /\ forked' = (forked \/ log[h].prev # n)
    BY <1>5 DEF InsertRow
  <2>2. /\ NewRow(h) \in Rows
        /\ NewRow(h).prev = log[h].prev /\ NewRow(h).stamp = log[h].stamp
    BY <1>0 DEF NewRow, Rows, Calls
  <2>3. /\ Len(rows') = n + 1 /\ DOMAIN rows' = 1 .. n + 1
        /\ \A i \in 1 .. n : rows'[i] = rows[i]
        /\ rows'[n + 1] = NewRow(h)
    BY <1>0, <2>1, <2>2
  <2> SUFFICES ASSUME ~forked', AllOwn'
               PROVE  Linear' /\ InTime' /\ Later'
    BY DEF Orderly
  <2>4. ~forked /\ log[h].prev = n
    BY <2>1
  <2>5. AllOwn
    BY <1>0, <2>3 DEF AllOwn
  <2>6. Linear /\ InTime /\ \A i \in DOMAIN rows : rows[i].stamp <= log[h].stamp
    BY <2>1, <2>4, <2>5 DEF Orderly, Later
  <2>7. \A i \in 1 .. n + 1 : i \in 1 .. n \/ i = n + 1
    BY <1>0
  <2>8. Linear'
    BY <1>0, <2>2, <2>3, <2>4, <2>6, <2>7 DEF Linear
  <2>9. InTime'
    <3> SUFFICES ASSUME NEW i \in 1 .. n + 1, NEW j \in 1 .. n + 1, i <= j
                 PROVE  rows'[i].stamp <= rows'[j].stamp
      BY <2>3 DEF InTime
    <3>1. log[h].stamp \in Nat
      BY <1>0 DEF Calls
    <3>2. CASE j \in 1 .. n
      <4>1. i \in 1 .. n
        BY <1>0, <3>2
      <4>2. rows'[i] = rows[i] /\ rows'[j] = rows[j]
        BY <2>3, <3>2, <4>1
      <4>3. rows[i].stamp <= rows[j].stamp
        BY <1>0, <2>6, <3>2, <4>1 DEF InTime
      <4> QED
        BY <4>2, <4>3
    <3>3. CASE j = n + 1 /\ i \in 1 .. n
      BY <1>0, <2>2, <2>3, <2>6, <3>3
    <3>4. CASE j = n + 1 /\ i = n + 1
      BY <2>2, <2>3, <3>1, <3>4
    <3> QED
      BY <2>7, <3>2, <3>3, <3>4
  <2>10. Later'
    <3>1. ASSUME NEW g \in Handlers
          PROVE  ~(log'[g].at = "insert" /\ log'[g].prev = n + 1)
      <4>1. log[g].prev <= n /\ log[g].prev \in Nat
        BY <1>0 DEF AuditTypeOK, Calls
      <4> QED
        BY <1>0, <2>1, <4>1 DEF NoCall
    <3> QED
      BY <2>3, <3>1 DEF Later
  <2> QED
    BY <2>8, <2>9, <2>10
<1>6. ASSUME NEW h \in Handlers, FailLog(h)
      PROVE  Orderly'
  <2>1. \A g \in Handlers : log'[g].at = "insert" => log'[g] = log[g]
    BY <1>0, <1>6 DEF FailLog, NoCall
  <2> QED
    BY <1>6, <1>a, <2>1 DEF FailLog
<1>7. CASE RestartLog
  BY <1>7, <1>a DEF RestartLog, NoCall
<1>8. CASE FlightEvent
  <2>1. PICK row \in Rows : row.own = FALSE /\ rows' = Append(rows, row)
    <3>1. PICK s \in 0 .. now :
            rows' = Append(rows, [prev |-> Foreign, stamp |-> s, about |-> 0,
                                  own |-> FALSE])
      BY <1>8 DEF FlightEvent
    <3>2. [prev |-> Foreign, stamp |-> s, about |-> 0, own |-> FALSE] \in Rows
      BY <1>0, <3>1 DEF Rows
    <3> QED
      BY <3>1, <3>2
  <2>2. Len(rows) + 1 \in DOMAIN rows' /\ rows'[Len(rows) + 1] = row
    BY <1>0, <2>1
  <2> QED
    BY <2>1, <2>2 DEF Orderly, AllOwn
<1>9. CASE Tick \/ FailElsewhere
  BY <1>9, <1>a DEF Tick, FailElsewhere
<1> QED
  BY <1>1, <1>2, <1>3, <1>4, <1>5, <1>6, <1>7, <1>8, <1>9 DEF AuditNext

LEMMA OrderlyAccepted ==
  ASSUME AuditTypeOK, Orderly
  PROVE  VerifiersAccept
<1> SUFFICES ASSUME ~forked, AllOwn, ~Tied
             PROVE  TimeChainValid
  BY DEF Orderly, AllOwn, Linear, ChainValid, VerifiersAccept
<1>0. /\ Len(rows) \in Nat /\ DOMAIN rows = 1 .. Len(rows)
      /\ \A i \in DOMAIN rows : rows[i].stamp \in Nat
  <2>1. \A i \in DOMAIN rows : rows[i] \in Rows
    BY DEF AuditTypeOK
  <2> QED
    BY <2>1 DEF AuditTypeOK, Rows
<1>1. Linear /\ InTime
  BY DEF Orderly
<1>2. \A i, j \in DOMAIN rows : Before(i, j) <=> i < j
  BY <1>0, <1>1 DEF InTime, Tied, Before
<1>3. ASSUME NEW j \in DOMAIN rows, NEW i \in DOMAIN rows, Before(i, j)
      PROVE  JustBefore(j - 1, j) /\ j - 1 \in DOMAIN rows
  BY <1>0, <1>2, <1>3 DEF JustBefore
<1>4. ASSUME NEW j \in DOMAIN rows, ~\E i \in DOMAIN rows : Before(i, j)
      PROVE  j = 1
  BY <1>0, <1>2, <1>4
<1> QED
  BY <1>1, <1>3, <1>4 DEF TimeChainValid, Linear, AllOwn, Genesis

AuditInv == AuditTypeOK /\ AllBounded /\ Orderly

LEMMA AuditInitInv ==
  ASSUME AuditInit
  PROVE  AuditInv
<1>1. AuditTypeOK
  <2>1. rows \in Seq(Rows) /\ DOMAIN rows = {} /\ Len(rows) = 0
    BY DEF AuditInit
  <2>2. log \in [Handlers -> Calls]
    BY DEF AuditInit, NoCall, Calls
  <2>3. \A h \in Handlers : log[h].prev = 0 /\ log[h].stamp = 0
    BY DEF AuditInit, NoCall
  <2>4. now = 0 /\ failures = 0 /\ forked = FALSE
    BY DEF AuditInit
  <2>5. \A i \in DOMAIN rows : rows[i].prev < i /\ rows[i].stamp <= now
    BY <2>1
  <2>6. \A h \in Handlers : log[h].prev <= Len(rows) /\ log[h].stamp <= now
    BY <2>1, <2>3, <2>4
  <2>7. now \in Nat /\ failures \in Nat /\ forked \in BOOLEAN
    BY <2>4
  <2> QED
    BY <2>1, <2>2, <2>5, <2>6, <2>7 DEF AuditTypeOK
<1>2. Waiting(0) = {} /\ Heirs(0) = {} /\ Len(rows) = 0
  BY DEF AuditInit, Waiting, Heirs, NoCall
<1>3. AllBounded
  <2>1. Cardinality(Handlers) \in Nat
    BY FS_CardinalityType, GroundAuditAssumption
  <2>2. Bounded(0)
    BY <1>2, <2>1, FS_EmptySet DEF Bounded
  <2> QED
    BY <1>2, <2>2 DEF AllBounded
<1>4. Orderly
  BY DEF AuditInit, Orderly, Linear, InTime, Later, NoCall
<1> QED
  BY <1>1, <1>3, <1>4 DEF AuditInv

(* The inductive invariant of the chain.                                   *)
THEOREM AuditInvariance == AuditSpec => []AuditInv
<1>1. AuditInv /\ [AuditNext]_auditVars => AuditInv'
  BY NextAuditType, NextBounded, NextOrderly DEF AuditInv
<1> QED
  BY <1>1, AuditInitInv, PTL DEF AuditSpec

LEMMA AuditInvSuffices ==
  ASSUME AuditInv
  PROVE  ForkBound /\ VerifiersAccept
<1>1. VerifiersAccept
  BY OrderlyAccepted DEF AuditInv
<1>2. ASSUME NEW p \in 0 .. Len(rows)
      PROVE  Cardinality(Heirs(p)) <= Cardinality(Handlers)
  BY Finite DEF AuditInv, AllBounded, Bounded
<1> QED
  BY <1>1, <1>2 DEF ForkBound

(* The chain forks no further than handlers run at once, whatever fails,   *)
(* restarts, or comes from flight.                                         *)
THEOREM ForksBounded == AuditSpec => []ForkBound
  BY AuditInvariance, AuditInvSuffices, PTL

(* verifyChain accepts a chain without overtaken calls and flight rows.    *)
THEOREM ChainAccepted == AuditSpec => []VerifiersAccept
  BY AuditInvariance, AuditInvSuffices, PTL

-----------------------------------------------------------------------------
(* Windows and requests *)

WindowTypes ==
  /\ windows \in Seq(Windows)
  /\ job \in [Handlers -> Jobs]
  /\ raced \in BOOLEAN
  /\ \A h \in Handlers :
       /\ job[h].at \in {"check", "insert"} => job[h].span \in Spans
       /\ job[h].at \in {"log", "read", "write"} => job[h].id \in DOMAIN windows

\* A request that is about to write has a reading that holds, or is stale.
CheckSound ==
  \A h \in Handlers :
    job[h].at = "insert" /\ ~job[h].stale => FindOverlapping(job[h].span) = {}
WriteSound ==
  \A h \in Handlers :
    job[h].at = "write" /\ ~job[h].stale =>
      Allowed(windows[job[h].id].status, job[h].want)
WindowInv == WindowTypes /\ WriteSound /\ (~raced => CheckSound /\ LiveDisjoint)

LEMMA NoJobType ==
  /\ NoJob \in Jobs /\ NoJob.at = "idle"
  BY DEF NoJob, Jobs, Points, Statuses

(* A request that takes another's place, or marks others stale, keeps the  *)
(* types.                                                                  *)
LEMMA JobsType ==
  ASSUME WindowTypes, NEW h \in Handlers, NEW new \in Jobs, NEW S,
         \/ job' = [job EXCEPT ![h] = new]
         \/ Outdate(h, S, new)
  PROVE  /\ job' \in [Handlers -> Jobs]
         /\ job'[h] = new
         /\ \A g \in Handlers \ {h} :
              /\ job'[g].at = job[g].at /\ job'[g].id = job[g].id
              /\ job'[g].span = job[g].span /\ job'[g].want = job[g].want
              /\ job'[g].stale = job[g].stale
                   \/ (g \in S /\ job'[g].stale = TRUE)
<1>0. \A g \in Handlers : job[g] \in Jobs
  BY DEF WindowTypes
<1>1. CASE job' = [job EXCEPT ![h] = new]
  BY <1>1 DEF WindowTypes
<1>2. CASE Outdate(h, S, new)
  <2>1. \A g \in Handlers : [job[g] EXCEPT !.stale = TRUE] \in Jobs
    BY <1>0 DEF Jobs
  <2>2. job' = [g \in Handlers |-> IF g = h THEN new
                 ELSE IF g \in S THEN [job[g] EXCEPT !.stale = TRUE] ELSE job[g]]
    BY <1>2 DEF Outdate
  <2>3. ASSUME NEW g \in Handlers \ {h}
        PROVE  \/ job'[g] = job[g]
               \/ g \in S /\ job'[g] = [job[g] EXCEPT !.stale = TRUE]
    BY <2>2
  <2>4. ASSUME NEW g \in Handlers
        PROVE  LET s == [job[g] EXCEPT !.stale = TRUE] IN
               /\ s.at = job[g].at /\ s.id = job[g].id /\ s.span = job[g].span
               /\ s.want = job[g].want /\ s.stale = TRUE
    BY <1>0 DEF Jobs
  <2> QED
    BY <2>1, <2>2, <2>3, <2>4, <1>0
<1> QED
  BY <1>1, <1>2

(* The windows after their two kinds of write.                             *)
LEMMA Created ==
  ASSUME WindowTypes, NEW h \in Handlers, CreateWindow(h)
  PROVE  /\ windows' \in Seq(Windows) /\ Len(windows') = Len(windows) + 1
         /\ DOMAIN windows' = DOMAIN windows \cup {Len(windows) + 1}
         /\ \A w \in DOMAIN windows : windows'[w] = windows[w]
         /\ windows'[Len(windows) + 1] = [span |-> job[h].span, status |-> "SCHEDULED"]
<1>1. [span |-> job[h].span, status |-> "SCHEDULED"] \in Windows
  BY DEF CreateWindow, WindowTypes, Windows, Statuses
<1> QED
  BY <1>1 DEF CreateWindow, WindowTypes

LEMMA Written ==
  ASSUME WindowTypes, NEW h \in Handlers, WriteStatus(h)
  PROVE  /\ windows' \in Seq(Windows) /\ DOMAIN windows' = DOMAIN windows
         /\ job[h].id \in DOMAIN windows
         /\ windows'[job[h].id].status = job[h].want
         /\ windows'[job[h].id].span = windows[job[h].id].span
         /\ \A w \in DOMAIN windows \ {job[h].id} : windows'[w] = windows[w]
<1>0. /\ windows \in Seq(Windows) /\ job[h].id \in DOMAIN windows
      /\ job[h] \in Jobs /\ DOMAIN windows = 1 .. Len(windows)
  BY DEF WriteStatus, WindowTypes
<1> DEFINE new == [windows[job[h].id] EXCEPT !.status = job[h].want]
<1>1. /\ new \in Windows /\ new.status = job[h].want
      /\ new.span = windows[job[h].id].span
  <2>1. windows[job[h].id] \in Windows
    BY <1>0
  <2> QED
    BY <1>0, <2>1 DEF Windows, Jobs
<1>2. windows' = [windows EXCEPT ![job[h].id] = new]
  BY <1>0 DEF WriteStatus, Windows
<1> HIDE DEF new
<1> QED
  BY <1>0, <1>1, <1>2

(* The composition takes steps of the audit chain only.                    *)
LEMMA NextIsAuditNext ==
  ASSUME WindowTypes, [Next]_vars
  PROVE  [AuditNext]_auditVars
<1>1. ASSUME NEW h \in Handlers, CreateWindow(h)
      PROVE  AuditNext
  <2>1. Len(windows) + 1 \in Nat
    BY DEF WindowTypes
  <2> QED
    BY <1>1, <2>1 DEF CreateWindow, AuditNext
<1>2. ASSUME NEW h \in Handlers, OtherEvent(h)
      PROVE  AuditNext
  BY <1>2 DEF OtherEvent, AuditNext
<1>3. ASSUME NEW h \in Handlers,
             LogGoesOn(h) \/ LogReturns(h) \/ QueryFails(h)
      PROVE  AuditNext
  BY <1>3 DEF LogGoesOn, LogReturns, QueryFails, AuditNext
<1>4. CASE Restart \/ Elsewhere
  BY <1>4 DEF Restart, Elsewhere, AuditNext
<1>5. ASSUME NEW h \in Handlers,
             \/ PostWindow(h) \/ CheckOverlap(h) \/ PatchWindow(h)
             \/ ReadStatus(h) \/ WriteStatus(h)
      PROVE  UNCHANGED auditVars
  BY <1>5 DEF PostWindow, CheckOverlap, PatchWindow, ReadStatus, WriteStatus, Receive
<1> QED
  BY <1>1, <1>2, <1>3, <1>4, <1>5 DEF Next, vars

(* A request that arrives, goes on without a write, or ends.               *)
LEMMA QuietStep ==
  ASSUME WindowInv, windows' = windows, raced' = raced,
         NEW h \in Handlers, NEW new \in Jobs, job' = [job EXCEPT ![h] = new],
         new.at \in {"check", "insert"} => new.span \in Spans,
         new.at \in {"log", "read", "write"} => new.id \in DOMAIN windows,
         new.at = "insert" => FindOverlapping(new.span) = {},
         new.at = "write" => Allowed(windows[new.id].status, new.want)
  PROVE  WindowInv'
<1>0. WindowTypes
  BY DEF WindowInv
<1>1. /\ job' \in [Handlers -> Jobs] /\ job'[h] = new
      /\ \A g \in Handlers \ {h} : job'[g] = job[g]
  BY <1>0 DEF WindowTypes
<1>2. WindowTypes'
  BY <1>0, <1>1 DEF WindowTypes
<1>3. \A s : FindOverlapping(s)' = FindOverlapping(s)
  BY DEF FindOverlapping
<1>4. WriteSound'
  BY <1>1 DEF WindowInv, WriteSound
<1>5. ~raced => CheckSound'
  BY <1>1, <1>3 DEF WindowInv, CheckSound
<1>6. ~raced => LiveDisjoint'
  BY DEF WindowInv, LiveDisjoint
<1> QED
  BY <1>2, <1>4, <1>5, <1>6 DEF WindowInv

LEMMA NextWindowInv ==
  ASSUME WindowInv, [Next]_vars
  PROVE  WindowInv'
<1>0. /\ WindowTypes /\ NoJob \in Jobs /\ NoJob.at = "idle"
      /\ windows \in Seq(Windows) /\ DOMAIN windows = 1 .. Len(windows)
      /\ Len(windows) \in Nat
      /\ \A w \in DOMAIN windows : windows[w] \in Windows
      /\ \A h \in Handlers : job[h] \in Jobs
  BY NoJobType DEF WindowInv, WindowTypes
<1>q. ASSUME UNCHANGED <<windows, job, raced>>
      PROVE  WindowInv'
  <2>1. WindowTypes' /\ WriteSound'
    BY <1>0, <1>q DEF WindowInv, WindowTypes, WriteSound
  <2>2. ~raced' => CheckSound' /\ LiveDisjoint'
    BY <1>q DEF WindowInv, CheckSound, LiveDisjoint, FindOverlapping
  <2> QED
    BY <2>1, <2>2 DEF WindowInv
<1>1. ASSUME NEW h \in Handlers, PostWindow(h)
      PROVE  WindowInv'
  <2>1. PICK s \in Spans : Receive(h, [NoJob EXCEPT !.at = "check", !.span = s])
    BY <1>1 DEF PostWindow
  <2> DEFINE new == [NoJob EXCEPT !.at = "check", !.span = s]
  <2>2. new \in Jobs /\ new.at = "check" /\ new.span = s
    BY DEF NoJob, Jobs, Points, Statuses
  <2>3. job' = [job EXCEPT ![h] = new] /\ windows' = windows /\ raced' = raced
    BY <2>1 DEF Receive
  <2> HIDE DEF new
  <2> QED
    BY <2>2, <2>3, QuietStep
<1>2. ASSUME NEW h \in Handlers, CheckOverlap(h)
      PROVE  WindowInv'
  <2> DEFINE new == [job[h] EXCEPT !.at = "insert"]
  <2>1. new \in Jobs /\ new.at = "insert" /\ new.span = job[h].span
    BY <1>0 DEF Jobs, Points
  <2>2. job[h].at = "check" /\ windows' = windows /\ raced' = raced
    BY <1>2 DEF CheckOverlap
  <2>3. job[h].span \in Spans
    BY <1>0, <2>2 DEF WindowTypes
  <2>4. \/ job' = [job EXCEPT ![h] = new] /\ FindOverlapping(job[h].span) = {}
        \/ job' = [job EXCEPT ![h] = NoJob]
    BY <1>2 DEF CheckOverlap
  <2> HIDE DEF new
  <2> QED
    BY <1>0, <2>1, <2>2, <2>3, <2>4, QuietStep
<1>3. ASSUME NEW h \in Handlers, CreateWindow(h)
      PROVE  WindowInv'
  <2> DEFINE new == [NoJob EXCEPT !.at = "log", !.id = Len(windows) + 1]
             n   == Len(windows) + 1
             S   == {g \in Handlers : /\ job[g].at = "insert"
                                      /\ Overlap(job[g].span, job[h].span)}
  <2>1. new \in Jobs /\ new.at = "log" /\ new.id = n
    <3>1. n \in Nat
      BY <1>0
    <3> HIDE DEF n
    <3>2. [NoJob EXCEPT !.at = "log", !.id = n] \in Jobs
      BY <3>1 DEF NoJob, Jobs, Points, Statuses
    <3>3. /\ [NoJob EXCEPT !.at = "log", !.id = n].at = "log"
          /\ [NoJob EXCEPT !.at = "log", !.id = n].id = n
      BY DEF NoJob
    <3>4. new = [NoJob EXCEPT !.at = "log", !.id = n]
      BY DEF n
    <3> HIDE DEF new
    <3> QED
      BY <3>2, <3>3, <3>4
  <2>2. /\ Outdate(h, S, new) /\ job[h].at = "insert"
        /\ raced' = (raced \/ job[h].stale)
    BY <1>3 DEF CreateWindow
  <2> HIDE DEF new, S
  <2>3. /\ job' \in [Handlers -> Jobs] /\ job'[h] = new
        /\ \A g \in Handlers \ {h} :
             /\ job'[g].at = job[g].at /\ job'[g].id = job[g].id
             /\ job'[g].span = job[g].span /\ job'[g].want = job[g].want
             /\ job'[g].stale = job[g].stale
                  \/ (g \in S /\ job'[g].stale = TRUE)
    BY <1>0, <2>1, <2>2, JobsType
  <2>4. /\ windows' \in Seq(Windows)
        /\ DOMAIN windows' = DOMAIN windows \cup {n}
        /\ \A w \in DOMAIN windows : windows'[w] = windows[w]
        /\ windows'[n] = [span |-> job[h].span, status |-> "SCHEDULED"]
    BY <1>0, <1>3, Created
  <2>5. WindowTypes'
    <3>1. raced' \in BOOLEAN
      BY <1>0, <2>2 DEF WindowTypes, Jobs
    <3> QED
      BY <1>0, <2>1, <2>3, <2>4, <3>1 DEF WindowTypes
  <2>6. WriteSound'
    <3>1. ASSUME NEW g \in Handlers, job'[g].at = "write", ~job'[g].stale
          PROVE  Allowed(windows'[job'[g].id].status, job'[g].want)
      <4>1. g # h /\ ~job[g].stale /\ job[g].at = "write"
        BY <2>1, <2>3, <3>1 DEF S
      <4>2. job[g].id \in DOMAIN windows
        BY <1>0, <4>1 DEF WindowTypes
      <4> QED
        BY <2>3, <2>4, <4>1, <4>2 DEF WindowInv, WriteSound
    <3> QED
      BY <3>1 DEF WriteSound
  <2>7. ASSUME ~raced'
        PROVE  CheckSound' /\ LiveDisjoint'
    <3>1. ~raced /\ ~job[h].stale /\ FindOverlapping(job[h].span) = {}
      BY <2>2, <2>7 DEF WindowInv, CheckSound
    <3>2. CheckSound'
      <4>1. ASSUME NEW g \in Handlers, job'[g].at = "insert", ~job'[g].stale,
                   NEW w \in DOMAIN windows', windows'[w].status \in Live,
                   Overlap(windows'[w].span, job'[g].span)
            PROVE  FALSE
        <5>1. g # h /\ job[g].at = "insert" /\ job'[g].span = job[g].span
          BY <2>1, <2>3, <4>1
        <5>2. job' = [f \in Handlers |-> IF f = h THEN new
                 ELSE IF f \in S THEN [job[f] EXCEPT !.stale = TRUE] ELSE job[f]]
          BY <2>2 DEF Outdate
        <5>3. g \in S => job'[g].stale = TRUE
          BY <1>0, <5>1, <5>2 DEF Jobs
        <5>4. g \notin S => job'[g] = job[g]
          BY <5>1, <5>2
        <5>5. ~job[g].stale /\ ~Overlap(job[g].span, job[h].span)
          BY <4>1, <5>1, <5>3, <5>4 DEF S
        <5>6. FindOverlapping(job[g].span) = {}
          BY <3>1, <5>1, <5>5, Zenon DEF WindowInv, CheckSound
        <5>7. CASE w = n
          <6>1. windows'[w].span = job[h].span
            BY <2>4, <5>7
          <6>2. job[h].span \in Nat \X Nat /\ job[g].span \in Nat \X Nat
            BY <1>0, <2>2, <5>1, WindowsAssumption DEF WindowTypes
          <6> QED
            BY <4>1, <5>1, <5>5, <6>1, <6>2 DEF Overlap
        <5>8. CASE w # n
          <6>1. w \in DOMAIN windows /\ windows'[w] = windows[w]
            BY <2>4, <5>8
          <6> QED
            BY <4>1, <5>1, <5>6, <6>1 DEF FindOverlapping
        <5> QED
          BY <5>7, <5>8
      <4> HIDE DEF n
      <4> QED
        BY <4>1 DEF CheckSound, FindOverlapping
    <3>3. LiveDisjoint'
      <4>1. LiveDisjoint
        BY <3>1 DEF WindowInv
      <4>2. \A w \in DOMAIN windows : windows[w].status \in Live =>
              ~Overlap(windows[w].span, job[h].span)
        BY <3>1 DEF FindOverlapping
      <4>3. job[h].span \in Nat \X Nat
            /\ \A w \in DOMAIN windows : windows[w].span \in Nat \X Nat
        BY <1>0, <2>2, WindowsAssumption DEF WindowTypes, Windows
      <4>4. \A w \in DOMAIN windows : windows[w].status \in Live =>
              ~Overlap(job[h].span, windows[w].span)
        BY <4>2, <4>3 DEF Overlap
      <4>5. /\ windows'[n].span = job[h].span /\ n \notin DOMAIN windows
            /\ DOMAIN windows' = DOMAIN windows \cup {n}
        BY <1>0, <2>4
      <4> HIDE DEF n
      <4> QED
        BY <2>4, <3>1, <4>1, <4>2, <4>4, <4>5 DEF LiveDisjoint
    <3> QED
      BY <3>2, <3>3
  <2> QED
    BY <2>5, <2>6, <2>7 DEF WindowInv
<1>4. ASSUME NEW h \in Handlers, PatchWindow(h)
      PROVE  WindowInv'
  <2>1. PICK w \in DOMAIN windows, to \in Statuses :
          Receive(h, [NoJob EXCEPT !.at = "read", !.id = w, !.want = to])
    BY <1>4 DEF PatchWindow
  <2> DEFINE new == [NoJob EXCEPT !.at = "read", !.id = w, !.want = to]
  <2>2. new \in Jobs /\ new.at = "read" /\ new.id = w
    <3>1. w \in Nat
      BY <1>0
    <3>2. to \in Statuses
      OBVIOUS
    <3> QED
      BY <3>1, <3>2 DEF NoJob, Jobs, Points
  <2>3. job' = [job EXCEPT ![h] = new] /\ windows' = windows /\ raced' = raced
    BY <2>1 DEF Receive
  <2> HIDE DEF new
  <2> QED
    BY <2>2, <2>3, QuietStep
<1>5. ASSUME NEW h \in Handlers, ReadStatus(h)
      PROVE  WindowInv'
  <2> DEFINE new == [job[h] EXCEPT !.at = "write"]
  <2>1. /\ new \in Jobs /\ new.at = "write" /\ new.id = job[h].id
        /\ new.want = job[h].want
    BY <1>0 DEF Jobs, Points
  <2>2. job[h].at = "read" /\ windows' = windows /\ raced' = raced
    BY <1>5 DEF ReadStatus
  <2>3. job[h].id \in DOMAIN windows
    BY <1>0, <2>2 DEF WindowTypes
  <2>4. \/ /\ job' = [job EXCEPT ![h] = new]
           /\ Allowed(windows[job[h].id].status, job[h].want)
        \/ job' = [job EXCEPT ![h] = NoJob]
    BY <1>5 DEF ReadStatus
  <2> HIDE DEF new
  <2> QED
    BY <1>0, <2>1, <2>2, <2>3, <2>4, QuietStep
<1>6. ASSUME NEW h \in Handlers, WriteStatus(h)
      PROVE  WindowInv'
  <2> DEFINE S == {g \in Handlers : job[g].at = "write" /\ job[g].id = job[h].id}
             d == job[h].id
  <2>1. /\ Outdate(h, S, NoJob) /\ job[h].at = "write"
        /\ raced' = (raced \/ job[h].stale)
    BY <1>6 DEF WriteStatus
  <2> HIDE DEF S
  <2>2. /\ job' \in [Handlers -> Jobs] /\ job'[h] = NoJob
        /\ \A g \in Handlers \ {h} :
             /\ job'[g].at = job[g].at /\ job'[g].id = job[g].id
             /\ job'[g].span = job[g].span /\ job'[g].want = job[g].want
             /\ job'[g].stale = job[g].stale
                  \/ (g \in S /\ job'[g].stale = TRUE)
    BY <1>0, <2>1, JobsType
  <2>3. /\ windows' \in Seq(Windows) /\ DOMAIN windows' = DOMAIN windows
        /\ d \in DOMAIN windows
        /\ windows'[d].status = job[h].want
        /\ windows'[d].span = windows[d].span
        /\ \A w \in DOMAIN windows \ {d} : windows'[w] = windows[w]
    BY <1>0, <1>6, Written
  <2> HIDE DEF d
  <2>4. WindowTypes'
    <3>1. raced' \in BOOLEAN
      BY <1>0, <2>1 DEF WindowTypes, Jobs
    <3> QED
      BY <1>0, <2>2, <2>3, <3>1 DEF WindowTypes
  <2>5. WriteSound'
    <3>1. ASSUME NEW g \in Handlers, job'[g].at = "write", ~job'[g].stale
          PROVE  Allowed(windows'[job'[g].id].status, job'[g].want)
      <4>1. g # h /\ job[g].at = "write" /\ ~job[g].stale
        BY <1>0, <2>2, <3>1
      <4>2. job[g].id # d
        <5>1. job' = [f \in Handlers |-> IF f = h THEN NoJob
                 ELSE IF f \in S THEN [job[f] EXCEPT !.stale = TRUE] ELSE job[f]]
          BY <2>1 DEF Outdate
        <5>2. g \notin S
          BY <1>0, <3>1, <4>1, <5>1 DEF Jobs
        <5> QED
          BY <4>1, <5>2 DEF S, d
      <4>3. job[g].id \in DOMAIN windows
        BY <1>0, <4>1 DEF WindowTypes
      <4> QED
        BY <2>2, <2>3, <4>1, <4>2, <4>3 DEF WindowInv, WriteSound
    <3> QED
      BY <3>1 DEF WriteSound
  <2>6. ASSUME ~raced'
        PROVE  CheckSound' /\ LiveDisjoint'
    <3>1. ~raced /\ Allowed(windows[d].status, job[h].want)
      BY <2>1, <2>6 DEF WindowInv, WriteSound, d
    <3>2. \A w \in DOMAIN windows :
            /\ windows'[w].status \in Live => windows[w].status \in Live
            /\ windows'[w].span = windows[w].span
      BY <2>3, <3>1 DEF Allowed, Live
    <3>3. LiveDisjoint'
      BY <2>3, <3>1, <3>2 DEF WindowInv, LiveDisjoint
    <3>4. CheckSound'
      <4>1. ASSUME NEW g \in Handlers, job'[g].at = "insert", ~job'[g].stale,
                   NEW w \in DOMAIN windows', windows'[w].status \in Live,
                   Overlap(windows'[w].span, job'[g].span)
            PROVE  FALSE
        <5>1. g # h /\ job[g].at = "insert" /\ ~job[g].stale
              /\ job'[g].span = job[g].span
          BY <1>0, <2>2, <4>1
        <5>2. FindOverlapping(job[g].span) = {}
          BY <3>1, <5>1, <2>6 DEF WindowInv, CheckSound
        <5>3. /\ w \in DOMAIN windows /\ windows[w].status \in Live
              /\ Overlap(windows[w].span, job[g].span)
          BY <2>3, <3>2, <4>1, <5>1
        <5> QED
          BY <5>2, <5>3 DEF FindOverlapping
      <4> QED
        BY <4>1 DEF CheckSound, FindOverlapping
    <3> QED
      BY <3>3, <3>4
  <2> QED
    BY <2>4, <2>5, <2>6 DEF WindowInv
<1>7. ASSUME NEW h \in Handlers, OtherEvent(h) \/ LogGoesOn(h)
      PROVE  WindowInv'
  BY <1>7, <1>q DEF OtherEvent, LogGoesOn, windowVars
<1>8. ASSUME NEW h \in Handlers, LogReturns(h) \/ QueryFails(h)
      PROVE  WindowInv'
  <2>1. job' = [job EXCEPT ![h] = NoJob] /\ windows' = windows /\ raced' = raced
    BY <1>8 DEF LogReturns, QueryFails, Finish
  <2> QED
    BY <1>0, <2>1, QuietStep
<1>9. CASE Restart
  <2>1. /\ job' = [h \in Handlers |-> NoJob] /\ windows' = windows
        /\ raced' = raced
    BY <1>9 DEF Restart
  <2>2. \A h \in Handlers : job'[h].at = "idle"
    BY <1>0, <2>1
  <2>3. WindowTypes'
    BY <1>0, <2>1, <2>2 DEF WindowTypes
  <2>4. WriteSound' /\ CheckSound'
    BY <2>2 DEF WriteSound, CheckSound
  <2>5. ~raced' => LiveDisjoint'
    BY <2>1 DEF WindowInv, LiveDisjoint
  <2> QED
    BY <2>3, <2>4, <2>5 DEF WindowInv
<1>10. CASE Elsewhere \/ UNCHANGED vars
  BY <1>10, <1>q DEF Elsewhere, vars, windowVars
<1> QED
  BY <1>1, <1>2, <1>3, <1>4, <1>5, <1>6, <1>7, <1>8, <1>9, <1>10 DEF Next

LEMMA InitWindowInv == Init => WindowInv
<1> SUFFICES ASSUME Init
             PROVE  WindowInv
  OBVIOUS
<1>1. \A h \in Handlers : job[h] = NoJob
  BY DEF Init
<1>2. WindowTypes
  <2>1. windows \in Seq(Windows)
    BY DEF Init
  <2>3. raced \in BOOLEAN
    BY DEF Init
  <2>2. job \in [Handlers -> Jobs]
    BY NoJobType DEF Init
  <2> QED
    BY <1>1, <2>1, <2>2, <2>3, NoJobType DEF WindowTypes
<1>3. WriteSound /\ CheckSound
  BY <1>1, NoJobType DEF WriteSound, CheckSound
<1>4. LiveDisjoint
  BY DEF Init, LiveDisjoint
<1> QED
  BY <1>2, <1>3, <1>4 DEF WindowInv

THEOREM WindowInvariance == Spec => []WindowInv
<1>1. WindowInv /\ [Next]_vars => WindowInv'
  BY NextWindowInv
<1> QED
  BY InitWindowInv, <1>1, PTL DEF Spec

(* Over every interleaving of requests that create windows and change      *)
(* their status, live windows overlap only once a write was made on a      *)
(* reading that no longer held: the checks are right, what they lack is a  *)
(* transaction.                                                            *)
THEOREM WindowsDisjoint == Spec => []LiveDisjoint
<1>1. WindowInv => LiveDisjoint
  BY DEF WindowInv, LiveDisjoint
<1> QED
  BY WindowInvariance, <1>1, PTL

LEMMA ClosedStep ==
  ASSUME WindowInv, [Next]_vars, NEW w \in DOMAIN windows,
         windows[w].status \notin Live, ~raced'
  PROVE  windows'[w] = windows[w]
<1>0. WindowTypes
  BY DEF WindowInv
<1>1. CASE \E h \in Handlers : CreateWindow(h)
  BY <1>0, <1>1, Created
<1>2. CASE \E h \in Handlers : WriteStatus(h)
  <2>1. PICK h \in Handlers : WriteStatus(h)
    BY <1>2
  <2>2. ~job[h].stale /\ job[h].at = "write"
    BY <2>1 DEF WriteStatus
  <2>3. Allowed(windows[job[h].id].status, job[h].want)
    BY <2>2 DEF WindowInv, WriteSound
  <2>4. job[h].id # w
    BY <2>3 DEF Allowed, Live
  <2> QED
    BY <1>0, <2>1, <2>4, Written
<1>3. ASSUME NEW h \in Handlers,
             \/ PostWindow(h) \/ CheckOverlap(h) \/ PatchWindow(h)
             \/ ReadStatus(h) \/ OtherEvent(h) \/ LogGoesOn(h)
             \/ LogReturns(h) \/ QueryFails(h)
      PROVE  windows' = windows
  BY <1>3 DEF PostWindow, CheckOverlap, PatchWindow, ReadStatus, Receive,
              OtherEvent, LogGoesOn, LogReturns, QueryFails, windowVars
<1>4. CASE Restart \/ Elsewhere \/ UNCHANGED vars
  BY <1>4 DEF Restart, Elsewhere, vars, windowVars
<1> QED
  BY <1>1, <1>2, <1>3, <1>4 DEF Next

(* VALID_TRANSITIONS lets no window out of COMPLETED or CANCELLED; only a  *)
(* second write to the window between updateStatus's query and its write   *)
(* does.                                                                   *)
THEOREM ClosedWindowsStay == Spec => ClosedStays
<1>1. WindowInv /\ [Next]_vars =>
        [\A w \in DOMAIN windows :
           windows[w].status \notin Live => windows'[w] = windows[w] \/ raced']_vars
  <2>1. WindowInv /\ [Next]_vars =>
          \A w \in DOMAIN windows :
            windows[w].status \notin Live => windows'[w] = windows[w] \/ raced'
    BY ClosedStep
  <2> QED
    BY <2>1
<1> QED
  BY WindowInvariance, <1>1, PTL DEF Spec, ClosedStays

(* The requests of the REST API are users of the audit chain as            *)
(* GroundAudit describes them, so that what holds of the chain there holds *)
(* here.                                                                   *)
THEOREM UsesAuditChain == Spec => AuditSpec
<1>1. Init => AuditInit
  BY DEF Init
<1>2. WindowInv /\ [Next]_vars => [AuditNext]_auditVars
  BY NextIsAuditNext DEF WindowInv
<1> QED
  BY WindowInvariance, <1>1, <1>2, PTL DEF Spec, AuditSpec

THEOREM RequestsForkBounded == Spec => []ForkBound
  BY UsesAuditChain, ForksBounded

THEOREM RequestsChainAccepted == Spec => []VerifiersAccept
  BY UsesAuditChain, ChainAccepted

-----------------------------------------------------------------------------
(* Requests and their calls of logEvent *)

\* A handler is in logEvent for a window exactly while its request is.
CallMatches(h) ==
  /\ job[h].at # "idle" =>
       /\ job[h].at = "log" <=> log[h] # NoCall
       /\ job[h].at = "log" => log[h].about = job[h].id
  /\ job[h].at = "idle" => log[h].about = 0

\* Rows, calls and given-up windows are about windows that were created.
AboutCreated ==
  /\ unlogged \subseteq DOMAIN windows
  /\ \A i \in DOMAIN rows : rows[i].about \in DOMAIN windows \cup {0}

RequestInv ==
  /\ requests \in Nat
  /\ \A h \in Handlers : CallMatches(h)
  /\ AboutCreated

(* Windows are only ever added.                                            *)
LEMMA WindowsGrow ==
  ASSUME WindowTypes, [Next]_vars
  PROVE  /\ DOMAIN windows = 1 .. Len(windows) /\ Len(windows) \in Nat
         /\ \/ DOMAIN windows' = DOMAIN windows
            \/ DOMAIN windows' = DOMAIN windows \cup {Len(windows) + 1}
<1>0. DOMAIN windows = 1 .. Len(windows) /\ Len(windows) \in Nat
  BY DEF WindowTypes
<1>1. CASE \E h \in Handlers : CreateWindow(h)
  BY <1>0, <1>1, Created
<1>2. CASE \E h \in Handlers : WriteStatus(h)
  BY <1>0, <1>2, Written
<1>3. ASSUME NEW h \in Handlers,
             \/ PostWindow(h) \/ CheckOverlap(h) \/ PatchWindow(h)
             \/ ReadStatus(h) \/ OtherEvent(h) \/ LogGoesOn(h)
             \/ LogReturns(h) \/ QueryFails(h)
      PROVE  windows' = windows
  BY <1>3 DEF PostWindow, CheckOverlap, PatchWindow, ReadStatus, Receive,
              OtherEvent, LogGoesOn, LogReturns, QueryFails, windowVars
<1>4. CASE Restart \/ Elsewhere \/ UNCHANGED vars
  BY <1>4 DEF Restart, Elsewhere, vars, windowVars
<1> QED
  BY <1>0, <1>1, <1>2, <1>3, <1>4 DEF Next

(* How a request begins, and how it goes on without being in logEvent.     *)
LEMMA RequestArrives ==
  ASSUME NEW h, PostWindow(h) \/ PatchWindow(h)
  PROVE  \E new : Receive(h, new) /\ new.at \in {"check", "read"}
<1>1. CASE PostWindow(h)
  <2>1. PICK s \in Spans : Receive(h, [NoJob EXCEPT !.at = "check", !.span = s])
    BY <1>1 DEF PostWindow
  <2>2. [NoJob EXCEPT !.at = "check", !.span = s].at = "check"
    BY DEF NoJob
  <2> QED
    BY <2>1, <2>2
<1>2. CASE PatchWindow(h)
  <2>1. PICK w \in DOMAIN windows, to \in Statuses :
          Receive(h, [NoJob EXCEPT !.at = "read", !.id = w, !.want = to])
    BY <1>2 DEF PatchWindow
  <2>2. [NoJob EXCEPT !.at = "read", !.id = w, !.want = to].at = "read"
    BY DEF NoJob
  <2> QED
    BY <2>1, <2>2
<1> QED
  BY <1>1, <1>2

LEMMA RequestGoesOn ==
  ASSUME WindowTypes, NEW h \in Handlers,
         CheckOverlap(h) \/ ReadStatus(h) \/ WriteStatus(h)
  PROVE  /\ job'[h].at \in {"idle", "insert", "write"}
         /\ \A g \in Handlers \ {h} :
              job'[g].at = job[g].at /\ job'[g].id = job[g].id
<1>0. /\ job \in [Handlers -> Jobs] /\ \A g \in Handlers : job[g] \in Jobs
      /\ NoJob.at = "idle"
  BY NoJobType DEF WindowTypes
<1>1. CASE CheckOverlap(h)
  BY <1>0, <1>1 DEF CheckOverlap, Jobs
<1>2. CASE ReadStatus(h)
  BY <1>0, <1>2 DEF ReadStatus, Jobs
<1>3. CASE WriteStatus(h)
  <2>1. PICK S : Outdate(h, S, NoJob)
    BY <1>3 DEF WriteStatus
  <2>2. job' = [f \in Handlers |-> IF f = h THEN NoJob
            ELSE IF f \in S THEN [job[f] EXCEPT !.stale = TRUE] ELSE job[f]]
    BY <2>1 DEF Outdate
  <2> QED
    BY <1>0, <2>2 DEF Jobs
<1> QED
  BY <1>1, <1>2, <1>3

(* A step changes the call and the request of one handler at most, or      *)
(* marks requests of others as stale.                                      *)
LEMMA NextCallMatches ==
  ASSUME WindowTypes, AuditTypeOK, \A h \in Handlers : CallMatches(h),
         [Next]_vars, NEW g \in Handlers
  PROVE  CallMatches(g)'
<1>0. /\ job \in [Handlers -> Jobs] /\ log \in [Handlers -> Calls]
      /\ \A h \in Handlers : job[h] \in Jobs /\ log[h] \in Calls
      /\ NoJob \in Jobs /\ NoJob.at = "idle"
      /\ NoCall.about = 0 /\ NoCall.at = "idle"
      /\ CallMatches(g)
  BY NoJobType DEF WindowTypes, AuditTypeOK, NoCall
<1>a. ASSUME job'[g] = NoJob, log'[g] = NoCall
      PROVE  CallMatches(g)'
  BY <1>0, <1>a DEF CallMatches
<1>b. ASSUME job'[g].at = job[g].at, job'[g].id = job[g].id, log'[g] = log[g]
      PROVE  CallMatches(g)'
  BY <1>0, <1>b DEF CallMatches
<1>c. ASSUME log[g] = NoCall, log'[g] = log[g],
             job'[g].at \in {"idle", "check", "insert", "read", "write"}
      PROVE  CallMatches(g)'
  BY <1>0, <1>c DEF CallMatches
<1>1. ASSUME NEW h \in Handlers, PostWindow(h) \/ PatchWindow(h)
      PROVE  CallMatches(g)'
  <2>1. PICK new : Receive(h, new) /\ new.at \in {"check", "read"}
    BY <1>1, RequestArrives
  <2>2. /\ log' = log /\ log[h] = NoCall /\ job' = [job EXCEPT ![h] = new]
    BY <2>1 DEF Receive, auditVars
  <2> QED
    BY <1>0, <1>b, <1>c, <2>1, <2>2
<1>2. ASSUME NEW h \in Handlers, CheckOverlap(h) \/ ReadStatus(h) \/ WriteStatus(h)
      PROVE  CallMatches(g)'
  <2>1. log' = log /\ job[h].at \in {"check", "read", "write"}
    BY <1>2 DEF CheckOverlap, ReadStatus, WriteStatus, auditVars
  <2>2. log[h] = NoCall
    BY <2>1 DEF CallMatches
  <2>3. /\ job'[h].at \in {"idle", "insert", "write"}
        /\ \A f \in Handlers \ {h} :
             job'[f].at = job[f].at /\ job'[f].id = job[f].id
    BY <1>2, RequestGoesOn
  <2> QED
    BY <1>b, <1>c, <2>1, <2>2, <2>3
<1>3. ASSUME NEW h \in Handlers, CreateWindow(h)
      PROVE  CallMatches(g)'
  <2> DEFINE n   == Len(windows) + 1
             new == [NoJob EXCEPT !.at = "log", !.id = n]
             c   == [NoCall EXCEPT !.at = "read", !.about = n]
  <2>1. /\ new.at = "log" /\ new.id = n /\ c.about = n /\ c # NoCall
    BY DEF NoJob, NoCall
  <2>2. \E S : Outdate(h, S, new)
    BY <1>3 DEF CreateWindow
  <2>3. log' = [log EXCEPT ![h] = c]
    BY <1>3 DEF CreateWindow, BeginLog
  <2> HIDE DEF c, new, n
  <2>4. PICK S : job' = [f \in Handlers |-> IF f = h THEN new
                 ELSE IF f \in S THEN [job[f] EXCEPT !.stale = TRUE] ELSE job[f]]
    BY <2>2 DEF Outdate
  <2>5. CASE g = h
    BY <1>0, <2>1, <2>3, <2>4, <2>5 DEF CallMatches
  <2>6. CASE g # h
    <3>1. job'[g].at = job[g].at /\ job'[g].id = job[g].id
      BY <1>0, <2>4, <2>6 DEF Jobs
    <3> QED
      BY <1>0, <1>b, <2>3, <2>6, <3>1
  <2> QED
    BY <2>5, <2>6
<1>4. ASSUME NEW h \in Handlers, OtherEvent(h)
      PROVE  CallMatches(g)'
  <2> DEFINE c == [NoCall EXCEPT !.at = "read", !.about = 0]
  <2>1. c.about = 0
    BY DEF NoCall
  <2>2. job[h] = NoJob /\ job' = job /\ log' = [log EXCEPT ![h] = c]
    BY <1>4 DEF OtherEvent, BeginLog
  <2> HIDE DEF c
  <2> QED
    BY <1>0, <1>b, <2>1, <2>2 DEF CallMatches
<1>5. ASSUME NEW h \in Handlers, LogGoesOn(h)
      PROVE  CallMatches(g)'
  <2>1. job' = job /\ log[h].at \in {"read", "stamp"}
    BY <1>5 DEF LogGoesOn, windowVars, ReadLast, TakeStamp
  <2>2. /\ \A f \in Handlers \ {h} : log'[f] = log[f]
        /\ log'[h].about = log[h].about /\ log'[h].at \in {"stamp", "insert"}
    BY <1>0, <1>5 DEF LogGoesOn, ReadLast, TakeStamp, Calls
  <2>3. log[h] # NoCall /\ log'[h] # NoCall
    BY <1>0, <2>1, <2>2
  <2> QED
    BY <1>0, <1>b, <2>1, <2>2, <2>3 DEF CallMatches
<1>6. ASSUME NEW h \in Handlers, LogReturns(h) \/ QueryFails(h)
      PROVE  CallMatches(g)'
  <2>1. job' = [job EXCEPT ![h] = NoJob]
    BY <1>6 DEF LogReturns, QueryFails, Finish
  <2>2. \/ log' = [log EXCEPT ![h] = NoCall]
        \/ log' = log /\ job[h].at \notin {"idle", "log"}
    BY <1>6 DEF LogReturns, InsertRow, QueryFails, FailLog, FailElsewhere
  <2>3. job[h].at \notin {"idle", "log"} => log[h] = NoCall
    BY DEF CallMatches
  <2> QED
    BY <1>0, <1>a, <1>b, <2>1, <2>2, <2>3
<1>7. CASE Restart
  BY <1>a, <1>7 DEF Restart, RestartLog
<1>8. CASE Elsewhere \/ UNCHANGED vars
  BY <1>b, <1>8 DEF Elsewhere, FlightEvent, Tick, vars, auditVars, windowVars
<1> QED
  BY <1>1, <1>2, <1>3, <1>4, <1>5, <1>6, <1>7, <1>8 DEF Next

(* A step adds a row at most, about what a call of logEvent was about, or  *)
(* a row of flight; it gives up windows whose request was in logEvent.     *)
LEMMA NextRows ==
  ASSUME AuditTypeOK, [Next]_vars
  PROVE  \/ rows' = rows
         \/ \E h \in Handlers : LogReturns(h) /\ rows' = Append(rows, NewRow(h))
         \/ /\ Elsewhere
            /\ \E row \in Rows : row.about = 0 /\ rows' = Append(rows, row)
<1>1. ASSUME NEW h \in Handlers, LogReturns(h)
      PROVE  rows' = Append(rows, NewRow(h))
  BY <1>1 DEF LogReturns, InsertRow
<1>2. ASSUME NEW h \in Handlers,
             \/ PostWindow(h) \/ CheckOverlap(h) \/ CreateWindow(h)
             \/ PatchWindow(h) \/ ReadStatus(h) \/ WriteStatus(h)
             \/ OtherEvent(h) \/ LogGoesOn(h) \/ QueryFails(h)
      PROVE  rows' = rows
  BY <1>2 DEF PostWindow, CheckOverlap, PatchWindow, ReadStatus, WriteStatus,
              Receive, CreateWindow, OtherEvent, LogGoesOn, ReadLast, TakeStamp,
              QueryFails, FailLog, FailElsewhere, auditVars
<1>3. CASE Restart \/ UNCHANGED vars
  BY <1>3 DEF Restart, RestartLog, vars, auditVars
<1>4. CASE Elsewhere
  <2>1. CASE Tick
    BY <2>1 DEF Tick
  <2>2. CASE FlightEvent
    <3>1. PICK s \in 0 .. now :
            rows' = Append(rows, [prev |-> Foreign, stamp |-> s, about |-> 0,
                                  own |-> FALSE])
      BY <2>2 DEF FlightEvent
    <3>2. [prev |-> Foreign, stamp |-> s, about |-> 0, own |-> FALSE] \in Rows
      BY <3>1 DEF Rows, AuditTypeOK
    <3> QED
      BY <1>4, <3>1, <3>2
  <2> QED
    BY <1>4, <2>1, <2>2 DEF Elsewhere
<1> QED
  BY <1>1, <1>2, <1>3, <1>4 DEF Next

LEMMA NewRowFacts ==
  ASSUME AuditTypeOK, NEW h \in Handlers
  PROVE  NewRow(h) \in Rows /\ NewRow(h).about = log[h].about
<1>1. log[h] \in Calls
  BY DEF AuditTypeOK
<1> QED
  BY <1>1 DEF NewRow, Rows, Calls

LEMMA CallsAboutCreated ==
  ASSUME WindowTypes, AuditTypeOK, NEW h \in Handlers, CallMatches(h)
  PROVE  log[h].about \in DOMAIN windows \cup {0}
<1>1. CASE log[h] = NoCall
  BY <1>1 DEF NoCall
<1>2. CASE job[h].at = "log"
  BY <1>2 DEF CallMatches, WindowTypes
<1>3. CASE job[h].at = "idle"
  BY <1>3 DEF CallMatches
<1> QED
  BY <1>1, <1>2, <1>3 DEF CallMatches

LEMMA NextRequestInv ==
  ASSUME WindowTypes, AuditTypeOK, RequestInv, [Next]_vars
  PROVE  RequestInv'
<1>1. \A h \in Handlers : CallMatches(h)'
  BY NextCallMatches DEF RequestInv
<1>2. requests' \in Nat
  <2>1. requests' = requests \/ requests' = requests + 1
    BY DEF Next, PostWindow, CheckOverlap, CreateWindow, PatchWindow, ReadStatus,
           WriteStatus, Receive, OtherEvent, LogGoesOn, LogReturns, QueryFails,
           Restart, Elsewhere, vars, windowVars
  <2> QED
    BY <2>1 DEF RequestInv
<1>3. DOMAIN windows \subseteq DOMAIN windows'
  BY WindowsGrow
<1>4. unlogged' \subseteq DOMAIN windows'
  <2>1. \/ unlogged' = unlogged
        \/ \E S \in SUBSET Handlers : unlogged' = unlogged \cup Unlogging(S)
    BY DEF Next, PostWindow, CheckOverlap, CreateWindow, PatchWindow, ReadStatus,
           WriteStatus, Receive, OtherEvent, LogGoesOn, LogReturns, QueryFails,
           Restart, Elsewhere, vars, windowVars
  <2>2. \A S \in SUBSET Handlers : Unlogging(S) \subseteq DOMAIN windows
    BY DEF Unlogging, WindowTypes
  <2> QED
    BY <1>3, <2>1, <2>2 DEF RequestInv, AboutCreated
<1>5. ASSUME NEW i \in DOMAIN rows'
      PROVE  rows'[i].about \in DOMAIN windows' \cup {0}
  <2>0. /\ rows \in Seq(Rows)
        /\ \A j \in DOMAIN rows : rows[j].about \in DOMAIN windows \cup {0}
    BY DEF AuditTypeOK, RequestInv, AboutCreated
  <2>1. ASSUME NEW row \in Rows, rows' = Append(rows, row),
               row.about \in DOMAIN windows \cup {0}
        PROVE  rows'[i].about \in DOMAIN windows' \cup {0}
    <3>1. \/ i \in DOMAIN rows /\ rows'[i] = rows[i]
          \/ rows'[i] = row
      BY <2>0, <2>1
    <3> QED
      BY <1>3, <2>0, <2>1, <3>1
  <2>2. CASE rows' = rows
    BY <1>3, <2>0, <2>2
  <2>3. ASSUME NEW h \in Handlers, rows' = Append(rows, NewRow(h))
        PROVE  rows'[i].about \in DOMAIN windows' \cup {0}
    BY <2>1, <2>3, NewRowFacts, CallsAboutCreated DEF RequestInv
  <2> QED
    BY <2>1, <2>2, <2>3, NextRows
<1> QED
  BY <1>1, <1>2, <1>4, <1>5 DEF RequestInv, AboutCreated

LEMMA InitRequestInv ==
  ASSUME Init
  PROVE  RequestInv
<1>1. \A h \in Handlers : job[h] = NoJob /\ log[h] = NoCall
  BY DEF Init, AuditInit
<1>2. \A h \in Handlers : CallMatches(h)
  BY <1>1 DEF CallMatches, NoJob, NoCall
<1>3. requests \in Nat
  BY DEF Init
<1>4. AboutCreated
  BY DEF Init, AuditInit, AboutCreated
<1> QED
  BY <1>2, <1>3, <1>4 DEF RequestInv

(* Requests, their calls of logEvent and the rows refer to windows that    *)
(* were created, and to each other, at every await.                        *)
THEOREM RequestInvariance == Spec => []RequestInv
<1>1. WindowTypes /\ AuditTypeOK /\ RequestInv /\ [Next]_vars => RequestInv'
  BY NextRequestInv
<1>2. WindowInv => WindowTypes
  BY DEF WindowInv
<1>3. AuditInv => AuditTypeOK
  BY DEF AuditInv
<1>4. Spec => []AuditInv
  BY UsesAuditChain, AuditInvariance, PTL
<1> QED
  BY InitRequestInv, WindowInvariance, <1>1, <1>2, <1>3, <1>4, PTL DEF Spec

(* Type correctness of windows, requests and the audit chain together.     *)
THEOREM WindowsTypeCorrect == Spec => []TypeOK
<1>1. WindowInv /\ AuditInv /\ RequestInv => TypeOK
  BY DEF WindowInv, WindowTypes, AuditInv, RequestInv, CallMatches, AboutCreated,
         TypeOK
<1>2. Spec => []AuditInv
  BY UsesAuditChain, AuditInvariance, PTL
<1> QED
  BY WindowInvariance, RequestInvariance, <1>1, <1>2, PTL

-----------------------------------------------------------------------------
(* Every window is accounted for once *)

Count(w) == Cardinality(LogsOf(w)) + Cardinality(BeingLogged(w))
              + (IF w \in unlogged THEN 1 ELSE 0)

LEMMA CountFinite ==
  ASSUME AuditTypeOK, NEW w
  PROVE  /\ IsFiniteSet(LogsOf(w)) /\ Cardinality(LogsOf(w)) \in Nat
         /\ IsFiniteSet(BeingLogged(w)) /\ Cardinality(BeingLogged(w)) \in Nat
         /\ Cardinality(LogsOf(w)) = 0 <=> LogsOf(w) = {}
         /\ Cardinality(BeingLogged(w)) = 0 <=> BeingLogged(w) = {}
<1>1. Len(rows) \in Nat /\ DOMAIN rows = 1 .. Len(rows)
  BY DEF AuditTypeOK
<1>2. LogsOf(w) \subseteq 1 .. Len(rows) /\ BeingLogged(w) \subseteq Handlers
  BY <1>1 DEF LogsOf, BeingLogged
<1>3. IsFiniteSet(1 .. Len(rows)) /\ IsFiniteSet(Handlers)
  BY <1>1, FS_Interval, GroundAuditAssumption
<1>4. IsFiniteSet(LogsOf(w)) /\ IsFiniteSet(BeingLogged(w))
  BY <1>2, <1>3, FS_Subset
<1> QED
  BY <1>4, FS_CardinalityType, FS_EmptySet

(* A step that changes none of the three keeps the count.                  *)
LEMMA CountKept ==
  ASSUME NEW w, Count(w) = 1, LogsOf(w)' = LogsOf(w),
         BeingLogged(w)' = BeingLogged(w), w \in unlogged' <=> w \in unlogged
  PROVE  Count(w)' = 1
  BY DEF Count

(* A request in logEvent is all there is of its window.                    *)
LEMMA CountWhileLogged ==
  ASSUME AuditTypeOK, NEW w, Count(w) = 1, BeingLogged(w) # {}
  PROVE  /\ LogsOf(w) = {} /\ w \notin unlogged
         /\ \A h \in BeingLogged(w) : BeingLogged(w) = {h}
<1>1. Cardinality(LogsOf(w)) = 0 /\ Cardinality(BeingLogged(w)) = 1 /\ w \notin unlogged
  BY CountFinite DEF Count
<1>2. PICK x : BeingLogged(w) = {x}
  BY <1>1, CountFinite, FS_Singleton
<1> QED
  BY <1>1, <1>2, CountFinite

(* A row adds to the rows of one window at most.                           *)
LEMMA RowsAboutOthers ==
  ASSUME AuditTypeOK, NEW w, NEW row \in Rows, rows' = Append(rows, row)
  PROVE  LogsOf(w)' = IF row.about = w THEN LogsOf(w) \cup {Len(rows) + 1}
                                       ELSE LogsOf(w)
<1>1. /\ rows \in Seq(Rows) /\ DOMAIN rows = 1 .. Len(rows) /\ Len(rows) \in Nat
  BY DEF AuditTypeOK
<1>2. /\ DOMAIN rows' = DOMAIN rows \cup {Len(rows) + 1}
      /\ \A i \in DOMAIN rows : rows'[i] = rows[i]
      /\ rows'[Len(rows) + 1] = row
  BY <1>1
<1> QED
  BY <1>1, <1>2 DEF LogsOf

(* From the insert of a window on, one row, one request in logEvent or one *)
(* request that ended before it accounts for it.                           *)
LEMMA NextCount ==
  ASSUME WindowTypes, AuditTypeOK, RequestInv, CreatedIsLogged,
         [Next]_vars, NEW w \in DOMAIN windows'
  PROVE  Count(w)' = 1
<1>0. /\ job \in [Handlers -> Jobs] /\ \A h \in Handlers : job[h] \in Jobs
      /\ NoJob \in Jobs /\ NoJob.at = "idle"
      /\ DOMAIN windows = 1 .. Len(windows) /\ Len(windows) \in Nat
  BY NoJobType, WindowsGrow DEF WindowTypes
<1>a. \A v \in DOMAIN windows : Count(v) = 1 /\ v # 0
  BY <1>0 DEF CreatedIsLogged, Count
<1>b. ASSUME w \in DOMAIN windows, rows' = rows, unlogged' = unlogged,
             \A g \in Handlers : job'[g].at = "log" \/ job[g].at = "log" =>
               job'[g].at = job[g].at /\ job'[g].id = job[g].id
      PROVE  Count(w)' = 1
  <2>1. LogsOf(w)' = LogsOf(w)
    BY <1>b DEF LogsOf
  <2>2. BeingLogged(w)' = BeingLogged(w)
    BY <1>b DEF BeingLogged
  <2> QED
    BY <1>a, <1>b, <2>1, <2>2, CountKept
<1>1. ASSUME NEW h \in Handlers, CreateWindow(h)
      PROVE  Count(w)' = 1
  <2> DEFINE n   == Len(windows) + 1
             new == [NoJob EXCEPT !.at = "log", !.id = n]
  <2>1. new.at = "log" /\ new.id = n
    BY DEF NoJob
  <2>2. /\ job[h].at = "insert" /\ \E S : Outdate(h, S, new)
        /\ rows' = rows /\ unlogged' = unlogged
    BY <1>1 DEF CreateWindow
  <2> HIDE DEF new
  <2>3. PICK S : job' = [f \in Handlers |-> IF f = h THEN new
                 ELSE IF f \in S THEN [job[f] EXCEPT !.stale = TRUE] ELSE job[f]]
    BY <2>2 DEF Outdate
  <2>4. /\ job'[h] = new
        /\ \A g \in Handlers \ {h} : job'[g].at = job[g].at /\ job'[g].id = job[g].id
    BY <1>0, <2>3 DEF Jobs
  <2>a. DOMAIN windows' = DOMAIN windows \cup {Len(windows) + 1}
    BY <1>1, Created
  <2>b. Len(windows) + 1 \notin 1 .. Len(windows) /\ Len(windows) + 1 # 0
    BY <1>0
  <2>5. DOMAIN windows' = DOMAIN windows \cup {n} /\ n \notin DOMAIN windows /\ n # 0
    BY <1>0, <2>a, <2>b
  <2>6. CASE w = n
    <3>1. LogsOf(w)' = {}
      BY <2>2, <2>5, <2>6 DEF LogsOf, RequestInv, AboutCreated
    <3>2. BeingLogged(w)' = {h}
      <4>1. \A g \in Handlers \ {h} : ~(job'[g].at = "log" /\ job'[g].id = n)
        BY <2>4, <2>5 DEF WindowTypes
      <4> HIDE DEF n
      <4> QED
        BY <2>1, <2>4, <2>6, <4>1 DEF BeingLogged
    <3>3. w \notin unlogged'
      BY <2>2, <2>5, <2>6 DEF RequestInv, AboutCreated
    <3>4. Cardinality(LogsOf(w)') = 0 /\ Cardinality(BeingLogged(w)') = 1
      BY <3>1, <3>2, FS_EmptySet, FS_Singleton
    <3> QED
      BY <3>3, <3>4 DEF Count
  <2>7. CASE w # n
    <3>1. w \in DOMAIN windows
      BY <2>5, <2>7
    <3>2. LogsOf(w)' = LogsOf(w)
      BY <2>2 DEF LogsOf
    <3> HIDE DEF n
    <3>3. BeingLogged(w)' = BeingLogged(w)
      BY <2>1, <2>2, <2>4, <2>7 DEF BeingLogged
    <3> QED
      BY <1>a, <2>2, <3>1, <3>2, <3>3, CountKept
  <2> QED
    BY <2>6, <2>7
<1>2. ASSUME NEW h \in Handlers, LogReturns(h)
      PROVE  Count(w)' = 1
  <2>0. w \in DOMAIN windows /\ unlogged' = unlogged
    BY <1>2 DEF LogReturns
  <2>1. /\ rows' = Append(rows, NewRow(h)) /\ job' = [job EXCEPT ![h] = NoJob]
        /\ log[h].at = "insert"
    BY <1>2 DEF LogReturns, InsertRow, Finish
  <2>2. /\ LogsOf(w)' = IF log[h].about = w THEN LogsOf(w) \cup {Len(rows) + 1}
                                            ELSE LogsOf(w)
    BY <2>1, NewRowFacts, RowsAboutOthers
  <2>3. BeingLogged(w)' = BeingLogged(w) \ {h}
    BY <1>0, <2>1 DEF BeingLogged
  <2>4. /\ job[h].at \in {"idle", "log"}
        /\ job[h].at = "log" => log[h].about = job[h].id
        /\ job[h].at = "idle" => log[h].about = 0
    BY <2>1 DEF RequestInv, CallMatches, NoCall
  <2>5. CASE job[h].at = "log" /\ job[h].id = w
    <3>1. BeingLogged(w) = {h} /\ LogsOf(w) = {} /\ w \notin unlogged
      <4>1. h \in BeingLogged(w)
        BY <2>5 DEF BeingLogged
      <4> QED
        BY <1>a, <2>0, <4>1, CountWhileLogged
    <3>2. LogsOf(w)' = {Len(rows) + 1} /\ BeingLogged(w)' = {}
      BY <2>2, <2>3, <2>4, <2>5, <3>1
    <3>3. Cardinality(LogsOf(w)') = 1 /\ Cardinality(BeingLogged(w)') = 0
      BY <3>2, FS_EmptySet, FS_Singleton
    <3> QED
      BY <2>0, <3>1, <3>3 DEF Count
  <2>6. CASE ~(job[h].at = "log" /\ job[h].id = w)
    <3>1. log[h].about # w
      BY <1>a, <2>0, <2>4, <2>6
    <3>2. h \notin BeingLogged(w)
      BY <2>6 DEF BeingLogged
    <3> QED
      BY <1>a, <2>0, <2>2, <2>3, <3>1, <3>2, CountKept
  <2> QED
    BY <2>5, <2>6
<1>c. ASSUME w \in DOMAIN windows, rows' = rows, NEW S \in SUBSET Handlers,
             unlogged' = unlogged \cup Unlogging(S),
             job' = [g \in Handlers |-> IF g \in S THEN NoJob ELSE job[g]]
      PROVE  Count(w)' = 1
  <2>1. LogsOf(w)' = LogsOf(w)
    BY <1>c DEF LogsOf
  <2>2. BeingLogged(w)' = BeingLogged(w) \ S
    BY <1>0, <1>c DEF BeingLogged
  <2>3. w \in Unlogging(S) <=> BeingLogged(w) \cap S # {}
    BY DEF Unlogging, BeingLogged
  <2>4. CASE BeingLogged(w) \cap S = {}
    BY <1>a, <1>c, <2>1, <2>2, <2>3, <2>4, CountKept
  <2>5. CASE BeingLogged(w) \cap S # {}
    <3>1. BeingLogged(w)' = {} /\ LogsOf(w) = {}
      BY <1>a, <1>c, <2>2, <2>5, CountWhileLogged
    <3>2. w \in unlogged'
      BY <1>c, <2>3, <2>5
    <3> QED
      BY <2>1, <3>1, <3>2, FS_EmptySet DEF Count
  <2> QED
    BY <2>4, <2>5
<1>3. ASSUME NEW h \in Handlers, QueryFails(h)
      PROVE  Count(w)' = 1
  <2>1. /\ w \in DOMAIN windows /\ rows' = rows
        /\ unlogged' = unlogged \cup Unlogging({h})
        /\ job' = [job EXCEPT ![h] = NoJob]
    BY <1>3 DEF QueryFails, FailLog, FailElsewhere, Finish
  <2>2. job' = [g \in Handlers |-> IF g \in {h} THEN NoJob ELSE job[g]]
    BY <1>0, <2>1
  <2> QED
    BY <1>c, <2>1, <2>2
<1>4. CASE Restart
  <2>1. /\ w \in DOMAIN windows /\ rows' = rows
        /\ unlogged' = unlogged \cup Unlogging(Handlers)
        /\ job' = [h \in Handlers |-> NoJob]
    BY <1>4 DEF Restart, RestartLog
  <2>2. job' = [g \in Handlers |-> IF g \in Handlers THEN NoJob ELSE job[g]]
    BY <2>1
  <2> QED
    BY <1>c, <2>1, <2>2
<1>5. CASE Elsewhere
  <2>1. /\ w \in DOMAIN windows /\ job' = job /\ unlogged' = unlogged
    BY <1>5 DEF Elsewhere, windowVars
  <2>2. CASE rows' = rows
    BY <1>b, <2>1, <2>2
  <2>3. ASSUME NEW row \in Rows, row.about = 0, rows' = Append(rows, row)
        PROVE  Count(w)' = 1
    <3>1. LogsOf(w)' = LogsOf(w)
      BY <1>a, <2>1, <2>3, RowsAboutOthers
    <3>2. BeingLogged(w)' = BeingLogged(w)
      BY <2>1 DEF BeingLogged
    <3> QED
      BY <1>a, <2>1, <3>1, <3>2, CountKept
  <2> QED
    BY <1>2, <2>2, <2>3, NextRows
<1>6. ASSUME NEW h \in Handlers, PostWindow(h) \/ PatchWindow(h)
      PROVE  Count(w)' = 1
  <2>1. PICK new : /\ Receive(h, new) /\ new.at \in {"check", "read"}
    BY <1>6, RequestArrives
  <2>2. /\ job[h] = NoJob /\ job' = [job EXCEPT ![h] = new]
        /\ rows' = rows /\ windows' = windows /\ unlogged' = unlogged
    BY <2>1 DEF Receive, auditVars
  <2> QED
    BY <1>0, <1>b, <2>1, <2>2
<1>7. ASSUME NEW h \in Handlers, CheckOverlap(h) \/ ReadStatus(h) \/ WriteStatus(h)
      PROVE  Count(w)' = 1
  <2>1. /\ rows' = rows /\ unlogged' = unlogged
        /\ job[h].at \in {"check", "read", "write"}
    BY <1>7 DEF CheckOverlap, ReadStatus, WriteStatus, auditVars
  <2>2. w \in DOMAIN windows
    BY <1>7, Written DEF CheckOverlap, ReadStatus
  <2>3. \A g \in Handlers : job'[g].at = "log" \/ job[g].at = "log" =>
          job'[g].at = job[g].at /\ job'[g].id = job[g].id
    BY <1>7, <2>1, RequestGoesOn
  <2> QED
    BY <1>b, <2>1, <2>2, <2>3
<1>8. ASSUME NEW h \in Handlers, OtherEvent(h) \/ LogGoesOn(h)
      PROVE  Count(w)' = 1
  <2>1. UNCHANGED <<windows, rows, job, unlogged>>
    BY <1>8 DEF OtherEvent, LogGoesOn, ReadLast, TakeStamp, windowVars
  <2> QED
    BY <1>b, <2>1
<1>9. CASE UNCHANGED vars
  BY <1>b, <1>9 DEF vars, auditVars, windowVars
<1> QED
  BY <1>1, <1>2, <1>3, <1>4, <1>5, <1>6, <1>7, <1>8, <1>9 DEF Next

(* A window that was created and is in no audit row is one that a request  *)
(* is about to log, or whose request failed or was cut off between its two *)
(* queries; and no window is logged twice.                                 *)
THEOREM WindowsAccountedFor == Spec => []CreatedIsLogged
<1>1. Init => CreatedIsLogged
  BY DEF Init, CreatedIsLogged
<1>2. WindowTypes /\ AuditTypeOK /\ RequestInv /\ CreatedIsLogged /\ [Next]_vars
        => CreatedIsLogged'
  BY NextCount DEF CreatedIsLogged, Count
<1>3. WindowInv /\ AuditInv => WindowTypes /\ AuditTypeOK
  BY DEF WindowInv, AuditInv
<1>4. Spec => []AuditInv
  BY UsesAuditChain, AuditInvariance, PTL
<1> QED
  BY WindowInvariance, RequestInvariance, <1>1, <1>2, <1>3, <1>4, PTL DEF Spec
=============================================================================
