--------------------------- MODULE DiskQueueProofs ---------------------------
(***************************************************************************)
(* The disk queue keeps its types and its capacity over all lives of the   *)
(* flight process.  It loses a frame only to a number that another process *)
(* gave as well, or, one at most for each kill, to an enqueue that was cut *)
(* off; and only a wider name or such a number makes a frame overtake an   *)
(* earlier one.                                                            *)
(***************************************************************************)
EXTENDS DiskQueue, FiniteSetTheorems, TLAPS

-----------------------------------------------------------------------------
(* The inductive invariant *)

\* Where an enqueue is, and what it has prepared: it runs without a link, for
\* the last number that this process gave, and has made room for one file.
EnqueueInv ==
  /\ enqueuing # "no" => ~link /\ next >= 2
  /\ enqueuing = "rename" => Cardinality(Names) < MaxDepth

\* What a process is given: numbers from one without a gap, none before it
\* starts; the files are those of processes that have started.
NumberInv ==
  /\ next = reached[life] + 1
  /\ \A l \in Lives : l > life => reached[l] = 0
  /\ \A n \in Names : dir[n] <= life

\* What the ground and its acks can know of.
AckInv ==
  /\ ~link => replaying = {} /\ ack = 0
  /\ ack # 0 => acksHighest
  /\ highestAck <= highest
  /\ \E l \in Lives : highest <= reached[l]

\* Another process than l gave the number n.
GivenTwice(l, n) == \E k \in Lives \ {l} : reached[k] >= n

\* A frame that the ground lacks and that this process takes for acked has
\* the number of another process; and on a link whose replay is over the
\* ground lacks no other file.
SkippedInv ==
  /\ enqueuing # "no" /\ next - 1 <= highestAck => GivenTwice(life, next - 1)
  /\ \A n \in Names :
       Frame(n) \in owed =>
         /\ n <= highestAck => GivenTwice(dir[n], n)
         /\ link /\ n \notin replaying => n <= highestAck

\* Only an enqueue under way has dropped a frame, and one at most.
DropInv ==
  \/ dropped = {}
  \/ enqueuing = "rename" /\ \E f : dropped = {f}

\* What the ground has heard of a process was numbered, and in which order.
OrderInv ==
  /\ \A l \in Lives : heard[l] <= reached[l]
  /\ OnlyWiderOvertakes

QueueInv ==
  /\ TypeOK /\ IsFiniteSet(Names)
  /\ EnqueueInv /\ NumberInv /\ AckInv /\ SkippedInv
  /\ DropInv /\ OrderInv
  /\ OnlyRenumberingLoses

-----------------------------------------------------------------------------
(* Numbers, and the sizes of directories *)

LEMMA NumberGiven ==
  ASSUME TypeOK, NumberInv, GiveNumber
  PROVE  /\ reached' \in [Lives -> 0 .. MaxFrames]
         /\ \A l \in Lives : reached[l] <= reached'[l]
         /\ \A l \in Lives \ {life} : reached'[l] = reached[l]
         /\ reached'[life] = next /\ next' = next + 1
         /\ next \in 1 .. MaxFrames
  BY DiskQueueAssumption DEF TypeOK, NumberInv, GiveNumber, Lives

(* A number that was given twice stays so.                                 *)
LEMMA GivenTwiceStays ==
  ASSUME reached \in [Lives -> 0 .. MaxFrames],
         reached' \in [Lives -> 0 .. MaxFrames],
         \A l \in Lives : reached[l] <= reached'[l],
         NEW l, NEW n \in Nat, GivenTwice(l, n)
  PROVE  \E k \in Lives \ {l} : reached'[k] >= n
  BY DiskQueueAssumption DEF GivenTwice

LEMMA SmallerDirectory ==
  ASSUME IsFiniteSet(Names), Cardinality(Names) <= MaxDepth, NEW S \in SUBSET Names
  PROVE  /\ IsFiniteSet(S) /\ Cardinality(S) <= MaxDepth
         /\ DOMAIN Restricted(S) = S
         /\ \A n \in S : Restricted(S)[n] = dir[n]
<1>1. IsFiniteSet(S) /\ Cardinality(S) <= Cardinality(Names)
  BY FS_Subset
<1>2. Cardinality(S) \in Nat /\ Cardinality(Names) \in Nat
  BY <1>1, FS_CardinalityType
<1> QED
  BY <1>1, <1>2, DiskQueueAssumption DEF Restricted

-----------------------------------------------------------------------------
(* Losses and order *)

LEMMA LostFinite ==
  ASSUME TypeOK
  PROVE  IsFiniteSet(Lost) /\ Cardinality(Lost) \in Nat
<1>1. IsFiniteSet(Lives) /\ IsFiniteSet(1 .. MaxFrames)
  BY FS_Interval, DiskQueueAssumption DEF Lives
<1>2. IsFiniteSet(Lives \X (1 .. MaxFrames))
  BY <1>1, FS_Product
<1>3. Lost \subseteq Lives \X (1 .. MaxFrames)
  BY DEF Lost, TypeOK
<1> QED
  BY <1>2, <1>3, FS_Subset, FS_CardinalityType

(* A step of one process that loses no frame but to a number that was given*)
(* twice keeps the bound on losses.                                        *)
LEMMA LossKept ==
  ASSUME QueueInv, life' = life, acksHighest' = acksHighest,
         reached' \in [Lives -> 0 .. MaxFrames],
         \A l \in Lives : reached[l] <= reached'[l],
         \A f \in owed' \ (OnDisk' \cup dropped') :
           \/ f \in owed \ (OnDisk \cup dropped)
           \/ \E l \in Lives \ {f[1]} :
                reached'[l] >= f[2] /\ (l > f[1] \/ acksHighest)
  PROVE  OnlyRenumberingLoses'
<1>0. /\ TypeOK /\ life \in Int /\ Cardinality(Lost) <= life - 1
      /\ owed \subseteq Lives \X (1 .. MaxFrames)
      /\ reached \in [Lives -> 0 .. MaxFrames]
  BY DEF QueueInv, TypeOK, OnlyRenumberingLoses, Lives
<1>1. ASSUME NEW f \in owed, Renumbered(f)
      PROVE  \E l \in Lives \ {f[1]} :
               reached'[l] >= f[2] /\ (l > f[1] \/ acksHighest)
  <2>1. PICK l \in Lives \ {f[1]} : reached[l] >= f[2] /\ (l > f[1] \/ acksHighest)
    BY <1>1 DEF Renumbered
  <2>2. /\ reached[l] \in Int /\ reached'[l] \in Int /\ f[2] \in Int
        /\ reached[l] <= reached'[l]
    BY <1>0, <1>1, DiskQueueAssumption
  <2> QED
    BY <2>1, <2>2
<1>2. Lost' \subseteq Lost
  BY <1>1 DEF Lost, Renumbered
<1>3. IsFiniteSet(Lost) /\ Cardinality(Lost) \in Nat
  BY <1>0, LostFinite
<1>4. IsFiniteSet(Lost') /\ Cardinality(Lost') <= Cardinality(Lost)
  BY <1>2, <1>3, FS_Subset
<1>5. Cardinality(Lost') \in Nat
  BY <1>4, FS_CardinalityType
<1> QED
  BY <1>0, <1>3, <1>4, <1>5 DEF OnlyRenumberingLoses

(* A step that delivers nothing, and puts in no frame but the newest of its*)
(* process, lets none be overtaken.                                        *)
LEMMA OrderKept ==
  ASSUME QueueInv, heard' = heard,
         reached' \in [Lives -> 0 .. MaxFrames],
         \A l \in Lives : reached[l] <= reached'[l],
         \A f \in owed' \cap OnDisk' :
           f \in owed \cap OnDisk \/ ~(f[2] < heard[f[1]])
  PROVE  OrderInv'
<1>0. /\ TypeOK /\ OrderInv
      /\ owed \subseteq Lives \X (1 .. MaxFrames)
      /\ reached \in [Lives -> 0 .. MaxFrames]
      /\ heard \in [Lives -> 0 .. MaxFrames]
  BY DEF QueueInv, TypeOK
<1>1. \A l \in Lives : heard'[l] <= reached'[l]
  BY <1>0, DiskQueueAssumption DEF OrderInv
<1>2. ASSUME NEW f \in owed' \cap OnDisk', f[2] < heard'[f[1]]
      PROVE  \/ \E n \in f[2] + 1 .. heard'[f[1]] : NameBefore(n, f[2])
             \/ \E l \in Lives \ {f[1]} : reached'[l] >= f[2]
  <2>1. f \in owed \cap OnDisk /\ f[2] \in Nat
    BY <1>0, <1>2
  <2>2. \/ \E n \in f[2] + 1 .. heard[f[1]] : NameBefore(n, f[2])
        \/ GivenTwice(f[1], f[2])
    BY <1>0, <1>2, <2>1 DEF OrderInv, OnlyWiderOvertakes, GivenTwice
  <2> QED
    BY <1>0, <2>1, <2>2, GivenTwiceStays
<1> QED
  BY <1>1, <1>2 DEF OrderInv, OnlyWiderOvertakes

-----------------------------------------------------------------------------
(* Each step keeps the invariant *)

LEMMA BeginEnqueueStep == ASSUME QueueInv, BeginEnqueue PROVE QueueInv'
<1> USE DEF QueueInv
<1>0. /\ UNCHANGED <<life, highestAck, dir, link, replaying, acksHighest, highest,
                     ack, owed, dropped, heard>>
      /\ enqueuing' = "drop" /\ ~link
  BY DEF BeginEnqueue, ground
<1>1. /\ reached' \in [Lives -> 0 .. MaxFrames]
      /\ \A l \in Lives : reached[l] <= reached'[l]
      /\ \A l \in Lives \ {life} : reached'[l] = reached[l]
      /\ reached'[life] = next /\ next' = next + 1 /\ next \in 1 .. MaxFrames
  BY NumberGiven DEF BeginEnqueue
<1>2. Names' = Names /\ \A n \in Names : n \in Nat /\ dir[n] \in Lives
  <2>1. Names' = Names
    BY <1>0 DEF Names
  <2> QED
    BY <2>1, DiskQueueAssumption DEF TypeOK
<1>3. TypeOK' /\ IsFiniteSet(Names')
  BY <1>0, <1>1, <1>2, DiskQueueAssumption DEF TypeOK
<1>4. EnqueueInv' /\ NumberInv'
  <2>1. EnqueueInv'
    BY <1>0, <1>1 DEF EnqueueInv
  <2>2. \A l \in Lives : l > life => l # life /\ l \in Int
    BY DEF TypeOK, Lives
  <2>3. \A n \in Names' : dir'[n] <= life'
    BY <1>0, <1>2 DEF NumberInv
  <2> QED
    BY <1>0, <1>1, <2>1, <2>2, <2>3 DEF NumberInv
<1>5. AckInv'
  BY <1>0, <1>1, DiskQueueAssumption DEF AckInv, TypeOK
<1>6. SkippedInv'
  <2>1. next <= highestAck => \E l \in Lives \ {life} : reached'[l] >= next
    <3>1. PICK l \in Lives : highest <= reached[l]
      BY DEF AckInv
    <3>2. /\ highestAck <= highest /\ highestAck \in Nat /\ highest \in Nat
          /\ reached[l] \in Nat /\ next = reached[life] + 1 /\ life \in Lives
      BY DiskQueueAssumption DEF AckInv, NumberInv, TypeOK
    <3>3. ASSUME next <= highestAck
          PROVE  l # life /\ reached'[l] >= next
      BY <1>1, <3>1, <3>2, <3>3
    <3> QED
      BY <3>3
  <2>2. next' - 1 = next
    BY <1>1
  <2>3. \A l, n : GivenTwice(l, n)' <=> \E k \in Lives \ {l} : reached'[k] >= n
    BY DEF GivenTwice
  <2>4. enqueuing' # "no" /\ next' - 1 <= highestAck' => GivenTwice(life, next - 1)'
    BY <1>0, <2>1, <2>2, <2>3
  <2>5. ASSUME NEW n \in Names, GivenTwice(dir[n], n)
        PROVE  GivenTwice(dir[n], n)'
    <3>1. \E k \in Lives \ {dir[n]} : reached'[k] >= n
      BY <1>1, <1>2, <2>5, GivenTwiceStays DEF TypeOK, GivenTwice
    <3> QED
      BY <1>0, <3>1 DEF GivenTwice
  <2>6. \A n \in Names' : Frame(n)' = Frame(n)
    BY <1>0 DEF Frame
  <2> QED
    BY <1>0, <1>2, <2>4, <2>5, <2>6 DEF SkippedInv
<1>7. OnlyRenumberingLoses' /\ OrderInv'
  <2>1. OnDisk' = OnDisk
    BY <1>0, <1>2 DEF OnDisk, Frame
  <2> QED
    BY <1>0, <1>1, <2>1, LossKept, OrderKept
<1>8. DropInv'
  BY <1>0 DEF DropInv, BeginEnqueue
<1> QED
  BY <1>3, <1>4, <1>5, <1>6, <1>7, <1>8

LEMMA MakeRoomStep == ASSUME QueueInv, MakeRoom PROVE QueueInv'
<1> USE DEF QueueInv
<1>0. /\ UNCHANGED <<life, next, highestAck, link, replaying, acksHighest, highest,
                     ack, owed, heard, reached>>
      /\ enqueuing = "drop" /\ enqueuing' = "rename"
  BY DEF MakeRoom, ground
<1>1. ~link /\ replaying = {}
  BY <1>0 DEF EnqueueInv, AckInv
<1>2. Cardinality(Names) \in Nat
  BY FS_CardinalityType
<1>3. /\ Names' \subseteq Names /\ IsFiniteSet(Names') /\ Cardinality(Names') < MaxDepth
      /\ \A n \in Names' : dir'[n] = dir[n]
      /\ dropped = {} /\ dropped' = {Frame(n) : n \in Names \ Names'}
      /\ dropped' = {} \/ \E f : dropped' = {f}
      /\ dropped' \subseteq Lives \X (1 .. MaxFrames)
  <2>0. dropped = {}
    BY <1>0 DEF DropInv
  <2>1. CASE Full
    <3>1. PICK n \in Names : /\ dir' = Restricted(Names \ {n})
                            /\ dropped' = {Frame(n)}
      BY <1>0, <2>1 DEF MakeRoom
    <3>2. Names' = Names \ {n} /\ \A k \in Names' : dir'[k] = dir[k]
      BY <3>1 DEF Restricted, Names
    <3>3. IsFiniteSet(Names \ {n}) /\ Cardinality(Names \ {n}) = Cardinality(Names) - 1
      BY FS_RemoveElement
    <3>4. Cardinality(Names') < MaxDepth
      BY <1>2, <3>2, <3>3, DiskQueueAssumption DEF TypeOK
    <3>5. Names \ Names' = {n}
      BY <3>2
    <3>6. dir[n] \in Lives /\ n \in 1 .. MaxFrames
      BY DiskQueueAssumption DEF TypeOK
    <3>7. dropped' = {Frame(k) : k \in Names \ Names'}
      BY <3>1, <3>5
    <3>8. dropped' \subseteq Lives \X (1 .. MaxFrames)
      BY <3>1, <3>6 DEF Frame
    <3> QED
      BY <2>0, <3>1, <3>2, <3>3, <3>4, <3>7, <3>8
  <2>2. CASE ~Full
    BY <1>0, <1>2, <2>0, <2>2, DiskQueueAssumption DEF Full, MakeRoom, Names
  <2> QED
    BY <2>1, <2>2
<1>4. Cardinality(Names') \in Nat
  BY <1>3, FS_CardinalityType
<1>5. TypeOK'
  BY <1>0, <1>1, <1>3, <1>4, DiskQueueAssumption DEF TypeOK
<1>6. EnqueueInv' /\ NumberInv' /\ AckInv'
  BY <1>0, <1>1, <1>3 DEF EnqueueInv, NumberInv, AckInv
<1>7. \A n \in Names' : Frame(n)' = Frame(n)
  BY <1>3 DEF Frame
<1>8. SkippedInv'
  BY <1>0, <1>1, <1>3, <1>7 DEF SkippedInv, GivenTwice
<1>9. OnlyRenumberingLoses' /\ OrderInv'
  <2>1. OnDisk' \subseteq OnDisk /\ OnDisk \subseteq OnDisk' \cup dropped'
    BY <1>3, <1>7 DEF OnDisk, Frame
  <2>2. \A f \in owed' \ (OnDisk' \cup dropped') : f \in owed \ (OnDisk \cup dropped)
    BY <1>0, <1>3, <2>1
  <2>3. reached' \in [Lives -> 0 .. MaxFrames] /\ \A l \in Lives : reached[l] <= reached'[l]
    BY <1>0, DiskQueueAssumption DEF TypeOK
  <2>4. OnlyRenumberingLoses'
    BY <1>0, <2>2, <2>3, LossKept
  <2> QED
    BY <1>0, <2>1, <2>3, <2>4, OrderKept
<1>10. DropInv'
  BY <1>0, <1>3 DEF DropInv
<1> QED
  BY <1>3, <1>5, <1>6, <1>8, <1>9, <1>10

LEMMA RenameStep == ASSUME QueueInv, Rename PROVE QueueInv'
<1> USE DEF QueueInv
<1> DEFINE n == next - 1
<1>0. /\ UNCHANGED <<life, next, highestAck, link, replaying, acksHighest, highest,
                     ack, heard, reached>>
      /\ enqueuing = "rename" /\ enqueuing' = "no"
  BY DEF Rename, ground
<1>1. /\ ~link /\ replaying = {} /\ life \in Lives
      /\ n = reached[life] /\ n \in 1 .. MaxFrames
  BY <1>0, DiskQueueAssumption DEF EnqueueInv, AckInv, NumberInv, TypeOK
<1>2. /\ Names' = Names \cup {n} /\ dir'[n] = life
      /\ \A k \in Names \ {n} : dir'[k] = dir[k]
      /\ owed' = (owed \ dropped) \cup {<<life, n>>} /\ dropped' = {}
  BY DEF Rename, Names
<1> HIDE DEF n
<1>3. IsFiniteSet(Names') /\ Cardinality(Names') <= MaxDepth
  <2>1. Cardinality(Names) \in Nat /\ Cardinality(Names) < MaxDepth
    BY <1>0, FS_CardinalityType DEF EnqueueInv
  <2>2. /\ IsFiniteSet(Names \cup {n})
        /\ \/ Cardinality(Names \cup {n}) = Cardinality(Names)
           \/ Cardinality(Names \cup {n}) = Cardinality(Names) + 1
    BY FS_AddElement
  <2> QED
    BY <1>2, <2>1, <2>2, DiskQueueAssumption
<1>4. TypeOK'
  BY <1>0, <1>1, <1>2, <1>3, DiskQueueAssumption DEF TypeOK
<1>5. EnqueueInv' /\ NumberInv' /\ AckInv'
  BY <1>0, <1>1, <1>2 DEF EnqueueInv, NumberInv, AckInv, TypeOK, Lives
<1>6. SkippedInv'
  <2>1. n <= highestAck => GivenTwice(life, n)
    BY <1>0 DEF SkippedInv, n
  <2>2. ASSUME NEW k \in Names', Frame(k)' \in owed', k <= highestAck
        PROVE  GivenTwice(dir'[k], k)
    <3>1. CASE k = n
      BY <1>2, <2>1, <2>2, <3>1
    <3>2. CASE k # n
      BY <1>2, <2>2, <3>2 DEF SkippedInv, Frame
    <3> QED
      BY <3>1, <3>2
  <2> QED
    BY <1>0, <1>1, <2>2 DEF SkippedInv, GivenTwice
<1>7. OnlyRenumberingLoses'
  <2>1. ASSUME NEW f \in owed' \ (OnDisk' \cup dropped'),
               f \notin owed \ (OnDisk \cup dropped)
        PROVE  \E l \in Lives \ {f[1]} :
                 reached[l] >= f[2] /\ (l > f[1] \/ acksHighest)
    <3>1. f \in owed /\ f # <<life, n>> /\ f \in OnDisk
      BY <1>2, <2>1 DEF OnDisk, Frame
    <3>2. PICK k \in Names : f = <<dir[k], k>>
      BY <3>1 DEF OnDisk, Frame
    <3>3. k = n
      BY <1>2, <2>1, <3>2 DEF OnDisk, Frame
    <3>4. dir[n] # life /\ dir[n] <= life /\ dir[n] \in Lives
      BY <3>1, <3>2, <3>3 DEF NumberInv, TypeOK
    <3> QED
      BY <1>1, <3>2, <3>3, <3>4 DEF Lives
  <2>2. reached' \in [Lives -> 0 .. MaxFrames] /\ \A l \in Lives : reached[l] <= reached'[l]
    BY <1>0, DiskQueueAssumption DEF TypeOK
  <2> QED
    BY <1>0, <2>1, <2>2, LossKept
<1>8. OrderInv'
  <2>1. ASSUME NEW f \in owed' \cap OnDisk', f \notin owed \cap OnDisk
        PROVE  ~(f[2] < heard[f[1]])
    <3>1. PICK k \in Names' : f = <<dir'[k], k>>
      BY <2>1 DEF OnDisk, Frame
    <3>2. f = <<life, n>>
      BY <1>2, <2>1, <3>1 DEF OnDisk, Frame
    <3>3. heard[life] <= reached[life] /\ heard[life] \in Nat /\ n \in Nat
      BY <1>1, DiskQueueAssumption DEF OrderInv, TypeOK
    <3> QED
      BY <1>1, <3>2, <3>3
  <2>2. reached' \in [Lives -> 0 .. MaxFrames] /\ \A l \in Lives : reached[l] <= reached'[l]
    BY <1>0, DiskQueueAssumption DEF TypeOK
  <2> QED
    BY <1>0, <2>1, <2>2, OrderKept
<1>9. DropInv'
  BY <1>2 DEF DropInv
<1> QED
  BY <1>3, <1>4, <1>5, <1>6, <1>7, <1>8, <1>9

LEMMA SendLiveStep == ASSUME QueueInv, SendLive PROVE QueueInv'
<1> USE DEF QueueInv
<1>0. /\ UNCHANGED <<life, highestAck, enqueuing, replaying, dir, link, acksHighest,
                     dropped>>
      /\ enqueuing = "no" /\ replaying = {} /\ link
      /\ owed' \subseteq owed
      /\ heard' = [heard EXCEPT ![life] = Newer(next, @)]
      /\ highest' = Newer(next, highest) /\ ack' = AckRead(highest')
  BY DEF SendLive, Deliver, Idle
<1>1. /\ reached' \in [Lives -> 0 .. MaxFrames]
      /\ \A l \in Lives : reached[l] <= reached'[l]
      /\ \A l \in Lives \ {life} : reached'[l] = reached[l]
      /\ reached'[life] = next /\ next' = next + 1 /\ next \in 1 .. MaxFrames
  BY NumberGiven DEF SendLive
<1>2. Names' = Names
  BY <1>0 DEF Names
<1>3. highest' \in Nat /\ highest <= highest' /\ ack' \in 0 .. highest'
  BY <1>0, <1>1, DiskQueueAssumption DEF Newer, AckRead, TypeOK
<1>h. /\ heard' \in [Lives -> 0 .. MaxFrames] /\ heard'[life] = next
      /\ \A l \in Lives : heard'[l] <= reached'[l]
  <2>1. life \in Lives /\ next \in 1 .. MaxFrames /\ heard[life] \in 0 .. next
    BY <1>1, DiskQueueAssumption DEF TypeOK, OrderInv, NumberInv
  <2>2. Newer(next, heard[life]) = next
    BY <2>1 DEF Newer
  <2>3. heard' = [heard EXCEPT ![life] = next]
    BY <1>0, <2>2
  <2>4. heard' \in [Lives -> 0 .. MaxFrames] /\ heard'[life] = next
    BY <2>1, <2>3, DiskQueueAssumption DEF TypeOK
  <2>5. \A l \in Lives \ {life} : heard'[l] = heard[l]
    BY <2>3 DEF TypeOK
  <2> QED
    BY <1>1, <2>1, <2>4, <2>5, DiskQueueAssumption DEF OrderInv
<1>4. TypeOK' /\ IsFiniteSet(Names')
  BY <1>0, <1>1, <1>2, <1>3, <1>h, DiskQueueAssumption DEF TypeOK
<1>5. EnqueueInv' /\ NumberInv'
  <2>1. \A l \in Lives : l > life => l # life
    BY DEF TypeOK, Lives
  <2> QED
    BY <1>0, <1>1, <1>2, <2>1 DEF EnqueueInv, NumberInv
<1>6. AckInv'
  <2>1. \E l \in Lives : highest' <= reached'[l]
    <3>1. PICK l \in Lives : highest <= reached[l]
      BY DEF AckInv
    <3>2. highest <= reached'[l] /\ next <= reached'[life]
      BY <1>1, <3>1, DiskQueueAssumption DEF TypeOK
    <3> QED
      BY <1>0, <3>2 DEF Newer, TypeOK
  <2>2. highestAck <= highest'
    BY <1>3 DEF AckInv, TypeOK
  <2> QED
    BY <1>0, <2>1, <2>2 DEF AckInv, AckRead
<1>7. SkippedInv'
  <2>1. ASSUME NEW n \in Names, GivenTwice(dir[n], n)
        PROVE  GivenTwice(dir[n], n)'
    <3>1. n \in Nat /\ reached \in [Lives -> 0 .. MaxFrames]
      BY DiskQueueAssumption DEF TypeOK
    <3>2. \E k \in Lives \ {dir[n]} : reached'[k] >= n
      BY <1>1, <2>1, <3>1, GivenTwiceStays
    <3> QED
      BY <1>0, <3>2 DEF GivenTwice
  <2>2. \A n \in Names' : Frame(n)' = Frame(n)
    BY <1>0 DEF Frame
  <2> QED
    BY <1>0, <1>2, <2>1, <2>2 DEF SkippedInv
<1>8. OnlyRenumberingLoses'
  <2>1. OnDisk' = OnDisk
    BY <1>0, <1>2 DEF OnDisk, Frame
  <2> QED
    BY <1>0, <1>1, <2>1, LossKept
<1>9. OrderInv'
  <2>1. ASSUME NEW f \in owed' \cap OnDisk'
        PROVE  \E l \in Lives \ {f[1]} : reached'[l] >= f[2]
    <3>1. PICK k \in Names : f = <<dir[k], k>>
      BY <1>0, <1>2, <2>1 DEF OnDisk, Frame
    <3>2. GivenTwice(dir[k], k)
      BY <1>0, <2>1, <3>1 DEF SkippedInv, Frame
    <3>3. k \in Nat /\ reached \in [Lives -> 0 .. MaxFrames]
      BY DiskQueueAssumption DEF TypeOK
    <3> QED
      BY <1>1, <3>1, <3>2, <3>3, GivenTwiceStays
  <2> QED
    BY <1>h, <2>1 DEF OrderInv, OnlyWiderOvertakes
<1>10. DropInv'
  BY <1>0 DEF DropInv
<1> QED
  BY <1>4, <1>5, <1>6, <1>7, <1>8, <1>9, <1>10

LEMMA ConnectStep == ASSUME QueueInv, Connect PROVE QueueInv'
<1> USE DEF QueueInv
<1>0. /\ UNCHANGED <<life, next, highestAck, enqueuing, dir, acksHighest, highest,
                     ack, owed, dropped, heard, reached>>
      /\ enqueuing = "no" /\ link' = TRUE /\ replaying' = ToReplay
  BY DEF Connect, Idle, client, ground
<1>1. Names' = Names /\ replaying' \subseteq Names
  BY <1>0 DEF Names, ToReplay
<1>2. TypeOK'
  BY <1>0, <1>1 DEF TypeOK
<1>3. EnqueueInv' /\ NumberInv' /\ AckInv'
  BY <1>0, <1>1 DEF EnqueueInv, NumberInv, AckInv
<1>4. SkippedInv'
  <2>1. \A n \in Names : n \notin ToReplay => n <= highestAck
    BY DiskQueueAssumption DEF ToReplay, TypeOK
  <2> QED
    BY <1>0, <1>1, <2>1 DEF SkippedInv, GivenTwice, Frame
<1>5. OnlyRenumberingLoses' /\ OrderInv' /\ DropInv'
  <2>1. OnDisk' = OnDisk
    BY <1>0, <1>1 DEF OnDisk, Frame
  <2>2. reached' \in [Lives -> 0 .. MaxFrames] /\ \A l \in Lives : reached[l] <= reached'[l]
    BY <1>0, DiskQueueAssumption DEF TypeOK
  <2>3. OnlyRenumberingLoses'
    BY <1>0, <2>1, <2>2, LossKept
  <2>4. OrderInv'
    BY <1>0, <2>1, <2>2, OrderKept
  <2> QED
    BY <1>0, <2>3, <2>4 DEF DropInv
<1> QED
  BY <1>1, <1>2, <1>3, <1>4, <1>5

LEMMA ReplayStep == ASSUME QueueInv, Replay PROVE QueueInv'
<1> USE DEF QueueInv
<1>0. PICK n \in replaying : /\ replaying' = replaying \ {n}
                             /\ IsFirst(n, replaying)
                             /\ Deliver(Frame(n))
  BY DEF Replay
<1>1. /\ UNCHANGED <<life, next, highestAck, enqueuing, dir, link, acksHighest,
                     dropped, reached>>
      /\ link
  BY <1>0 DEF Replay, Deliver, client
<1>2. /\ owed' = owed \ {<<dir[n], n>>}
      /\ heard' = [heard EXCEPT ![dir[n]] = Newer(n, @)]
      /\ highest' = Newer(n, highest) /\ ack' = AckRead(highest')
  BY <1>0 DEF Deliver, Frame
<1>3. Names' = Names
  BY <1>1 DEF Names
<1>4. /\ n \in Names /\ n \in Nat /\ dir[n] \in Lives /\ n <= reached[dir[n]]
      /\ reached[dir[n]] \in Nat
  BY DiskQueueAssumption DEF TypeOK
<1>5. highest' \in Nat /\ highest <= highest' /\ ack' \in 0 .. highest'
  BY <1>2, <1>4 DEF Newer, AckRead, TypeOK
<1>h. /\ heard' \in [Lives -> 0 .. MaxFrames]
      /\ heard'[dir[n]] = Newer(n, heard[dir[n]])
      /\ \A l \in Lives \ {dir[n]} : heard'[l] = heard[l]
      /\ \A l \in Lives : heard'[l] <= reached[l]
  <2>1. n \in 0 .. MaxFrames /\ heard[dir[n]] \in 0 .. MaxFrames
    BY <1>4, DiskQueueAssumption DEF TypeOK
  <2>2. Newer(n, heard[dir[n]]) \in {n, heard[dir[n]]}
    BY DEF Newer
  <2>3. /\ heard' \in [Lives -> 0 .. MaxFrames]
        /\ heard'[dir[n]] = Newer(n, heard[dir[n]])
        /\ \A l \in Lives \ {dir[n]} : heard'[l] = heard[l]
    BY <1>2, <1>4, <2>1, <2>2 DEF TypeOK
  <2> QED
    BY <1>4, <2>2, <2>3 DEF OrderInv
<1>6. TypeOK'
  BY <1>0, <1>1, <1>2, <1>3, <1>5, <1>h DEF TypeOK
<1>7. EnqueueInv' /\ NumberInv'
  BY <1>1, <1>3 DEF EnqueueInv, NumberInv
<1>8. AckInv'
  <2>1. \E l \in Lives : highest' <= reached[l]
    BY <1>2, <1>4 DEF AckInv, Newer
  <2>2. highestAck <= highest'
    BY <1>5 DEF AckInv, TypeOK
  <2> QED
    BY <1>1, <1>2, <2>1, <2>2 DEF AckInv, AckRead
<1>9. SkippedInv'
  <2>1. ASSUME NEW k \in Names, <<dir[k], k>> \in owed', k \notin replaying'
        PROVE  k <= highestAck
    BY <1>0, <1>1, <1>2, <2>1 DEF SkippedInv, Frame
  <2>2. \A k \in Names : Frame(k)' = <<dir[k], k>>
    BY <1>1 DEF Frame
  <2> QED
    BY <1>1, <1>2, <1>3, <2>1, <2>2 DEF SkippedInv, GivenTwice, Frame
<1>10. OnlyRenumberingLoses' /\ DropInv'
  <2>1. OnDisk' = OnDisk
    BY <1>1, <1>3 DEF OnDisk, Frame
  <2>2. reached' \in [Lives -> 0 .. MaxFrames] /\ \A l \in Lives : reached[l] <= reached'[l]
    BY <1>1, DiskQueueAssumption DEF TypeOK
  <2>3. OnlyRenumberingLoses'
    BY <1>1, <1>2, <2>1, <2>2, LossKept
  <2> QED
    BY <1>1, <2>3 DEF DropInv
<1>11. OrderInv'
  <2> SUFFICES ASSUME NEW f \in owed' \cap OnDisk', f[2] < heard'[f[1]]
               PROVE  \/ \E m \in f[2] + 1 .. heard'[f[1]] : NameBefore(m, f[2])
                      \/ \E l \in Lives \ {f[1]} : reached[l] >= f[2]
    BY <1>1, <1>h DEF OrderInv, OnlyWiderOvertakes
  <2>1. PICK k \in Names : f = <<dir[k], k>>
    BY <1>1, <1>3 DEF OnDisk, Frame
  <2>2. /\ f \in owed /\ f \in OnDisk /\ k # n
        /\ k \in Nat /\ dir[k] \in Lives /\ f[1] = dir[k] /\ f[2] = k
    BY <1>2, <2>1, DiskQueueAssumption DEF OnDisk, Frame, TypeOK
  <2>3. CASE k \notin replaying
    <3>1. GivenTwice(dir[k], k)
      BY <1>1, <2>1, <2>2, <2>3 DEF SkippedInv, Frame
    <3> QED
      BY <2>2, <3>1 DEF GivenTwice
  <2>4. CASE k < heard[f[1]]
    <3>1. \/ \E m \in k + 1 .. heard[f[1]] : NameBefore(m, k)
          \/ \E l \in Lives \ {f[1]} : reached[l] >= k
      BY <2>2, <2>4 DEF OrderInv, OnlyWiderOvertakes
    <3>2. heard[f[1]] \in Int /\ heard'[f[1]] \in Int /\ heard[f[1]] <= heard'[f[1]]
      BY <1>4, <1>h, <2>2, DiskQueueAssumption DEF TypeOK, Newer
    <3> QED
      BY <2>2, <3>1, <3>2
  <2>5. CASE k \in replaying /\ ~(k < heard[f[1]])
    <3>1. NameBefore(n, k)
      BY <1>0, <2>2, <2>5 DEF IsFirst
    <3>2. f[1] = dir[n] /\ heard'[f[1]] = n
      BY <1>4, <1>h, <2>2, <2>5 DEF Newer
    <3>3. n \in k + 1 .. n
      BY <1>4, <2>2, <3>2
    <3> QED
      BY <2>2, <3>1, <3>2, <3>3
  <2> QED
    BY <2>3, <2>4, <2>5
<1> QED
  BY <1>3, <1>6, <1>7, <1>8, <1>9, <1>10, <1>11

LEMMA ReceiveAckStep == ASSUME QueueInv, ReceiveAck PROVE QueueInv'
<1> USE DEF QueueInv
<1>0. /\ UNCHANGED <<life, next, enqueuing, link, replaying, acksHighest, highest,
                     owed, dropped, heard, reached>>
      /\ enqueuing = "no" /\ replaying = {} /\ link /\ ack # 0 /\ ack' = 0
      /\ highestAck' = Newer(ack, highestAck)
      /\ acksHighest
  BY DEF ReceiveAck, Idle, AckInv
<1>1. /\ Names' \subseteq Names /\ IsFiniteSet(Names') /\ Cardinality(Names') <= MaxDepth
      /\ \A n \in Names' : dir'[n] = dir[n]
      /\ highestAck' # highestAck => \A n \in Names' : n > highestAck'
  <2>1. CASE ack > highestAck
    <3>1. dir' = Restricted({n \in Names : n > ack}) /\ highestAck' = ack
      BY <1>0, <2>1 DEF ReceiveAck, Newer
    <3>2. Names' = {n \in Names : n > ack} /\ \A n \in Names' : dir'[n] = dir[n]
      BY <3>1 DEF Restricted, Names
    <3>3. IsFiniteSet(Names) /\ Cardinality(Names) <= MaxDepth
      BY DEF TypeOK
    <3>4. IsFiniteSet(Names') /\ Cardinality(Names') <= MaxDepth
      BY <3>2, <3>3, SmallerDirectory
    <3> QED
      BY <3>1, <3>2, <3>4
  <2>2. CASE ~(ack > highestAck)
    <3>1. dir' = dir /\ highestAck' = highestAck
      BY <1>0, <2>2 DEF ReceiveAck, Newer
    <3> QED
      BY <3>1 DEF Names, TypeOK
  <2> QED
    BY <2>1, <2>2
<1>2. highestAck' \in Nat /\ highestAck <= highestAck' /\ highestAck' <= highest
  BY <1>0 DEF Newer, AckInv, TypeOK
<1>3. TypeOK'
  BY <1>0, <1>1, <1>2 DEF TypeOK
<1>4. EnqueueInv' /\ NumberInv' /\ AckInv'
  BY <1>0, <1>1, <1>2 DEF EnqueueInv, NumberInv, AckInv
<1>5. \A n \in Names' : Frame(n)' = Frame(n)
  BY <1>1 DEF Frame
<1>6. SkippedInv'
  <2>1. ASSUME NEW n \in Names', Frame(n) \in owed
        PROVE  n <= highestAck /\ GivenTwice(dir[n], n)
    BY <1>0, <1>1, <2>1 DEF SkippedInv
  <2>2. highestAck' = highestAck \/ \A n \in Names' : Frame(n) \notin owed
    BY <1>1, <1>2, <2>1 DEF TypeOK
  <2> QED
    BY <1>0, <1>1, <1>5, <2>1, <2>2 DEF GivenTwice, SkippedInv
<1>7. OnlyRenumberingLoses' /\ OrderInv' /\ DropInv'
  <2>1. ASSUME NEW f \in owed \ (OnDisk' \cup dropped),
               f \notin owed \ (OnDisk \cup dropped)
        PROVE  \E l \in Lives \ {f[1]} :
                 reached[l] >= f[2] /\ (l > f[1] \/ acksHighest)
    <3>1. PICK n \in Names : f = <<dir[n], n>>
      BY <2>1 DEF OnDisk, Frame
    <3>2. Frame(n) \in owed /\ n <= highestAck
      BY <1>0, <2>1, <3>1 DEF SkippedInv, Frame
    <3>3. GivenTwice(dir[n], n)
      BY <3>2 DEF SkippedInv
    <3> QED
      BY <1>0, <3>1, <3>3 DEF GivenTwice
  <2>2. reached' \in [Lives -> 0 .. MaxFrames] /\ \A l \in Lives : reached[l] <= reached'[l]
    BY <1>0, DiskQueueAssumption DEF TypeOK
  <2>3. OnlyRenumberingLoses'
    BY <1>0, <2>1, <2>2, LossKept
  <2>4. OnDisk' \subseteq OnDisk
    BY <1>1, <1>5 DEF OnDisk
  <2>5. OrderInv'
    BY <1>0, <2>2, <2>4, OrderKept
  <2> QED
    BY <1>0, <2>3, <2>5 DEF DropInv
<1> QED
  BY <1>1, <1>3, <1>4, <1>6, <1>7

LEMMA DisconnectStep == ASSUME QueueInv, Disconnect PROVE QueueInv'
<1> USE DEF QueueInv
<1>0. /\ UNCHANGED <<life, next, highestAck, enqueuing, dir, acksHighest, highest,
                     owed, dropped, heard, reached>>
      /\ link' = FALSE /\ replaying' = {} /\ ack' = 0
  BY DEF Disconnect, client
<1>1. Names' = Names /\ \A n \in Names : Frame(n)' = Frame(n)
  BY <1>0 DEF Names, Frame
<1>2. TypeOK'
  <2>1. ack' \in 0 .. highest'
    BY <1>0 DEF TypeOK
  <2>2. replaying' \subseteq Names' /\ link' \in BOOLEAN /\ acksHighest' \in BOOLEAN
    BY <1>0 DEF TypeOK
  <2> QED
    BY <1>0, <1>1, <2>1, <2>2 DEF TypeOK
<1>3. EnqueueInv' /\ NumberInv' /\ AckInv'
  BY <1>0, <1>1 DEF EnqueueInv, NumberInv, AckInv
<1>4. SkippedInv'
  BY <1>0, <1>1 DEF SkippedInv, GivenTwice
<1>5. OnlyRenumberingLoses' /\ OrderInv' /\ DropInv'
  <2>1. OnDisk' = OnDisk
    BY <1>1 DEF OnDisk, Frame
  <2>2. reached' \in [Lives -> 0 .. MaxFrames] /\ \A l \in Lives : reached[l] <= reached'[l]
    BY <1>0, DiskQueueAssumption DEF TypeOK
  <2>3. OnlyRenumberingLoses'
    BY <1>0, <2>1, <2>2, LossKept
  <2>4. OrderInv'
    BY <1>0, <2>1, <2>2, OrderKept
  <2> QED
    BY <1>0, <2>3, <2>4 DEF DropInv
<1> QED
  BY <1>1, <1>2, <1>3, <1>4, <1>5

LEMMA KillStep == ASSUME QueueInv, Kill PROVE QueueInv'
<1> USE DEF QueueInv
<1>0. /\ UNCHANGED <<dir, acksHighest, highest, owed, heard, reached>>
      /\ life + 1 \in Lives /\ life' = life + 1 /\ life \in Lives
      /\ next' = 1 /\ highestAck' = 0 /\ enqueuing' = "no"
      /\ link' = FALSE /\ replaying' = {} /\ ack' = 0 /\ dropped' = {}
  BY DEF Kill, TypeOK
<1>1. Names' = Names /\ \A n \in Names : Frame(n)' = Frame(n) /\ n > 0
  BY <1>0, DiskQueueAssumption DEF Names, Frame, TypeOK
<1>2. TypeOK'
  <2>1. ack' \in 0 .. highest'
    BY <1>0 DEF TypeOK
  <2>2. replaying' \subseteq Names' /\ link' \in BOOLEAN /\ acksHighest' \in BOOLEAN
    BY <1>0 DEF TypeOK
  <2> QED
    BY <1>0, <1>1, <2>1, <2>2 DEF TypeOK
<1>3. EnqueueInv' /\ AckInv'
  BY <1>0, <1>1 DEF EnqueueInv, AckInv, TypeOK
<1>4. NumberInv'
  BY <1>0, <1>1 DEF NumberInv, TypeOK, Lives
<1>5. SkippedInv'
  BY <1>0, <1>1, DiskQueueAssumption DEF SkippedInv, TypeOK
<1>6. OnDisk' = OnDisk
  BY <1>1 DEF OnDisk
<1>7. OnlyRenumberingLoses'
  <2>1. Lost' \subseteq Lost \cup dropped
    BY <1>0, <1>6 DEF Lost, Renumbered
  <2>2. /\ IsFiniteSet(Lost) /\ Cardinality(Lost) \in Nat
        /\ Cardinality(Lost) <= life - 1 /\ life \in Int
    BY <1>0, LostFinite DEF OnlyRenumberingLoses, Lives
  <2>3. PICK S \in {Lost} \cup {Lost \cup {f} : f \in dropped} :
          IsFiniteSet(S) /\ Lost' \subseteq S /\ Cardinality(S) <= Cardinality(Lost) + 1
    <3>1. CASE dropped = {}
      BY <2>1, <2>2, <3>1
    <3>2. ASSUME NEW f, dropped = {f}
          PROVE  /\ IsFiniteSet(Lost \cup {f}) /\ Lost' \subseteq Lost \cup {f}
                 /\ Cardinality(Lost \cup {f}) <= Cardinality(Lost) + 1
      BY <2>1, <2>2, <3>2, FS_AddElement
    <3> QED
      BY <3>1, <3>2 DEF DropInv
  <2>4. Cardinality(S) \in Nat /\ IsFiniteSet(Lost') /\ Cardinality(Lost') <= Cardinality(S)
    BY <2>3, FS_Subset, FS_CardinalityType
  <2>5. Cardinality(Lost') \in Nat
    BY <2>4, FS_CardinalityType
  <2> QED
    BY <1>0, <2>2, <2>3, <2>4, <2>5 DEF OnlyRenumberingLoses
<1>8. OrderInv' /\ DropInv'
  <2>1. reached' \in [Lives -> 0 .. MaxFrames] /\ \A l \in Lives : reached[l] <= reached'[l]
    BY <1>0, DiskQueueAssumption DEF TypeOK
  <2>2. OrderInv'
    BY <1>0, <1>6, <2>1, OrderKept
  <2> QED
    BY <1>0, <2>2 DEF DropInv
<1> QED
  BY <1>1, <1>2, <1>3, <1>4, <1>5, <1>7, <1>8

LEMMA InitQueueInv == ASSUME Init PROVE QueueInv
<1>1. Names = {} /\ 1 \in Lives
  BY DiskQueueAssumption DEF Init, Names, Lives
<1>2. IsFiniteSet(Names) /\ Cardinality(Names) = 0
  BY <1>1, FS_EmptySet
<1>3. TypeOK
  <2>1. /\ reached \in [Lives -> 0 .. MaxFrames]
        /\ heard \in [Lives -> 0 .. MaxFrames] /\ ack \in 0 .. highest
    BY DiskQueueAssumption DEF Init
  <2>2. Cardinality(Names) <= MaxDepth
    BY <1>2, DiskQueueAssumption
  <2>3. link \in BOOLEAN /\ acksHighest \in BOOLEAN
    BY DEF Init
  <2>4. owed = {} /\ dropped = {} /\ replaying = {} /\ life \in Lives /\ next = 1
        /\ highestAck = 0 /\ highest = 0 /\ enqueuing = "no"
    BY <1>1 DEF Init
  <2> QED
    BY <1>1, <2>1, <2>2, <2>3, <2>4 DEF TypeOK
<1>4. EnqueueInv /\ NumberInv /\ AckInv
  BY <1>1 DEF Init, EnqueueInv, NumberInv, AckInv
<1>5. SkippedInv /\ DropInv
  BY <1>1 DEF Init, SkippedInv, DropInv
<1>6. OrderInv
  BY <1>1, DiskQueueAssumption DEF Init, OrderInv, OnlyWiderOvertakes
<1>7. OnlyRenumberingLoses
  <2>1. Lost = {}
    BY DEF Init, Lost
  <2> QED
    BY <2>1, FS_EmptySet DEF Init, OnlyRenumberingLoses
<1> QED
  BY <1>2, <1>3, <1>4, <1>5, <1>6, <1>7 DEF QueueInv

LEMMA NextQueueInv == ASSUME QueueInv, [Next]_vars PROVE QueueInv'
<1>1. CASE Next
  BY <1>1, BeginEnqueueStep, MakeRoomStep, RenameStep, SendLiveStep, ConnectStep,
     ReplayStep, ReceiveAckStep, DisconnectStep, KillStep DEF Next
<1>2. CASE UNCHANGED vars
  BY <1>2 DEF vars, client, ground, QueueInv, TypeOK, EnqueueInv, NumberInv, AckInv,
              SkippedInv, GivenTwice, DropInv, OrderInv, OnlyWiderOvertakes,
              OnlyRenumberingLoses, Lost, Renumbered, OnDisk, Frame, Names
<1> QED
  BY <1>1, <1>2

-----------------------------------------------------------------------------
(* The theorems *)

(* What holds of the client, its directory and its ground at every await   *)
(* and after every kill.                                                   *)
THEOREM QueueInvariance == Spec => []QueueInv
  BY InitQueueInv, NextQueueInv, PTL DEF Spec

(* Type correctness, with the capacity: no interleaving of enqueues, acks  *)
(* and kills leaves more than QUEUE_MAX_DEPTH files.                       *)
THEOREM QueueTypeCorrect == Spec => []TypeOK
<1>1. QueueInv => TypeOK
  BY DEF QueueInv
<1> QED
  BY QueueInvariance, <1>1, PTL

(* A frame whose enqueue has returned and that the ground lacks is on disk,*)
(* unless a newer one took its place at capacity or another process gave   *)
(* its number: a later one, or any if the ground's acks are read.  Kills   *)
(* add one lost frame each at most (enqueue drops before it renames).      *)
THEOREM RenumberingAloneLoses == Spec => []OnlyRenumberingLoses
<1>1. QueueInv => OnlyRenumberingLoses
  BY DEF QueueInv
<1> QED
  BY QueueInvariance, <1>1, PTL

(* A frame on disk is overtaken by a later one of its process only through *)
(* a wider name (get_from sorts names as text) or a number that another    *)
(* process gave too, however replays are cut short and processes killed.   *)
THEOREM OvertakingHasCause == Spec => []OnlyWiderOvertakes
<1>1. QueueInv => OnlyWiderOvertakes
  BY DEF QueueInv, OrderInv
<1> QED
  BY QueueInvariance, <1>1, PTL

-----------------------------------------------------------------------------
(* The first process *)

\* Only frames that were numbered are owed.
OwedNumbered == \A f \in owed : f[2] <= reached[f[1]]

LEMMA NextOwedNumbered ==
  ASSUME QueueInv, OwedNumbered, [Next]_vars
  PROVE  OwedNumbered'
<1>0. TypeOK /\ NumberInv /\ EnqueueInv
  BY DEF QueueInv
<1>a. \A f \in owed : /\ f[1] \in Lives /\ f[2] \in Nat /\ reached[f[1]] \in Nat
                     /\ f[2] <= reached[f[1]]
  BY <1>0, DiskQueueAssumption DEF TypeOK, OwedNumbered
<1>1. CASE Rename
  <2>1. /\ owed' \subseteq owed \cup {<<life, next - 1>>} /\ reached' = reached
        /\ next - 1 = reached[life] /\ reached[life] \in Nat
    BY <1>0, <1>1, DiskQueueAssumption DEF Rename, NumberInv, TypeOK
  <2> QED
    BY <1>a, <2>1 DEF OwedNumbered
<1>2. CASE BeginEnqueue \/ SendLive
  <2>1. owed' \subseteq owed /\ GiveNumber
    BY <1>2 DEF BeginEnqueue, SendLive, Deliver
  <2>2. reached' \in [Lives -> 0 .. MaxFrames]
        /\ \A l \in Lives : reached[l] <= reached'[l]
    BY <1>0, <2>1, NumberGiven
  <2> QED
    BY <1>a, <2>1, <2>2, DiskQueueAssumption DEF OwedNumbered
<1>3. CASE MakeRoom \/ Connect \/ Replay \/ ReceiveAck \/ Disconnect \/ Kill
             \/ UNCHANGED vars
  <2>1. owed' \subseteq owed /\ reached' = reached
    BY <1>3 DEF MakeRoom, Connect, Replay, Deliver, ReceiveAck, Disconnect, Kill, vars
  <2> QED
    BY <1>a, <2>1 DEF OwedNumbered
<1> QED
  BY <1>1, <1>2, <1>3 DEF Next

(* What SurvivesRestarts claims of every process holds of the first one:   *)
(* before any restart, each frame that was enqueued and not dropped at     *)
(* capacity is on disk until the ground has it.                            *)
THEOREM FirstProcessLosesNothing == Spec => [](life = 1 => SurvivesRestarts)
<1>1. Init => OwedNumbered
  BY DEF Init, OwedNumbered
<1>2. QueueInv /\ OwedNumbered /\ [Next]_vars => OwedNumbered'
  BY NextOwedNumbered
<1>3. QueueInv /\ OwedNumbered => (life = 1 => SurvivesRestarts)
  <2> SUFFICES ASSUME QueueInv, OwedNumbered, life = 1, NEW f \in owed,
                      f \notin OnDisk \cup dropped
               PROVE  FALSE
    BY DEF SurvivesRestarts
  <2>1. /\ f[1] \in Lives /\ f[2] \in 1 .. MaxFrames /\ f[2] <= reached[f[1]]
        /\ \A l \in Lives : reached[l] \in Nat
        /\ \A l \in Lives : l > 1 => reached[l] = 0
    BY DiskQueueAssumption DEF QueueInv, TypeOK, NumberInv, OwedNumbered
  <2>2. PICK l \in Lives \ {f[1]} : reached[l] >= f[2]
    <3>1. /\ IsFiniteSet(Lost) /\ Cardinality(Lost) \in Nat
          /\ Cardinality(Lost) <= 0
      BY LostFinite DEF QueueInv, OnlyRenumberingLoses
    <3>2. Lost = {}
      BY <3>1, FS_EmptySet
    <3> QED
      BY <3>2 DEF Lost, Renumbered
  <2>3. l = 1 /\ f[1] = 1
    BY <2>1, <2>2 DEF Lives
  <2> QED
    BY <2>2, <2>3
<1> QED
  BY QueueInvariance, <1>1, <1>2, <1>3, PTL DEF Spec
=============================================================================
