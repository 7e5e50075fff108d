------------------------- MODULE StoreForwardProofs -------------------------
(***************************************************************************)
(* Safety of the store-and-forward link for every queue depth, number of   *)
(* frames and number of drops, on a link that loses or keeps what is in    *)
(* flight, with either kind of acknowledgement.                            *)
(***************************************************************************)
EXTENDS StoreForward, TLAPS

USE DEF KeptOnClose, DownWith

-----------------------------------------------------------------------------
(* The operators *)

(* enqueue stores the new frame and drops at most the oldest file, and     *)
(* that only at capacity.                                                  *)
LEMMA EnqueuedFacts ==
  ASSUME NEW f
  PROVE  /\ Enqueued(f) \subseteq disk \cup {f}
         /\ f \in Enqueued(f)
         /\ \A g \in disk \ Enqueued(f) :
              Cardinality(disk) >= MaxDepth /\ IsOldest(g, disk)
  BY DEF Enqueued

(* What the client reads in an ack is a number the ground has reached.     *)
LEMMA AckReadFacts ==
  ASSUME NEW h
  PROVE  AckRead(h) \in {h, 0}
  BY DEF AckRead

(* The wire after one more message has been sent.                          *)
LEMMA WireAfterSend ==
  ASSUME NEW S, up \in Seq(S), NEW f \in S, up' = Append(up, f)
  PROVE  /\ up' \in Seq(S)
         /\ Len(up) \in Nat
         /\ DOMAIN up = 1 .. Len(up) /\ DOMAIN up' = 1 .. (Len(up) + 1)
         /\ \A i \in 1 .. Len(up) : up'[i] = up[i]
         /\ up'[Len(up) + 1] = f
         /\ OnWire' = OnWire \cup {f}
<1>1. /\ up' \in Seq(S)
      /\ Len(up) \in Nat
      /\ DOMAIN up = 1 .. Len(up) /\ DOMAIN up' = 1 .. (Len(up) + 1)
      /\ \A i \in 1 .. Len(up) : up'[i] = up[i]
      /\ up'[Len(up) + 1] = f
  OBVIOUS
<1>2. OnWire' = OnWire \cup {f}
  BY <1>1 DEF OnWire
<1> QED
  BY <1>1, <1>2

(* The wire after the ground has taken its first message.                  *)
LEMMA WireAfterDelivery ==
  ASSUME NEW S, up \in Seq(S), up # <<>>, up' = Tail(up)
  PROVE  /\ up' \in Seq(S)
         /\ Head(up) = up[1] /\ Head(up) \in S
         /\ Len(up) \in Nat \ {0}
         /\ DOMAIN up = 1 .. Len(up) /\ DOMAIN up' = 1 .. (Len(up) - 1)
         /\ \A i \in 1 .. (Len(up) - 1) : up'[i] = up[i + 1]
         /\ OnWire = OnWire' \cup {Head(up)}
<1>1. /\ up' \in Seq(S)
      /\ Head(up) = up[1] /\ Head(up) \in S
      /\ Len(up) \in Nat \ {0}
      /\ DOMAIN up = 1 .. Len(up) /\ DOMAIN up' = 1 .. (Len(up) - 1)
      /\ \A i \in 1 .. (Len(up) - 1) : up'[i] = up[i + 1]
  OBVIOUS
<1>2. ASSUME NEW g \in OnWire PROVE g = Head(up) \/ g \in OnWire'
  <2>1. PICK i \in 1 .. Len(up) : up[i] = g
    BY <1>1, <1>2 DEF OnWire
  <2>2. CASE i = 1
    BY <1>1, <2>1, <2>2
  <2>3. CASE i # 1
    <3>1. i - 1 \in 1 .. (Len(up) - 1) /\ up'[i - 1] = g
      BY <1>1, <2>1, <2>3
    <3> QED
      BY <1>1, <3>1 DEF OnWire
  <2> QED
    BY <2>2, <2>3
<1>3. ASSUME NEW g \in OnWire' PROVE g \in OnWire
  <2>1. PICK i \in 1 .. (Len(up) - 1) : up'[i] = g
    BY <1>1, <1>3 DEF OnWire
  <2>2. i + 1 \in 1 .. Len(up) /\ up[i + 1] = g
    BY <1>1, <2>1
  <2> QED
    BY <1>1, <2>2 DEF OnWire
<1>4. Head(up) \in OnWire
  BY <1>1 DEF OnWire
<1> QED
  BY <1>1, <1>2, <1>3, <1>4

(* Nothing is on an empty wire.                                            *)
LEMMA EmptyWire == up = <<>> => OnWire = {} /\ DOMAIN up = {}
  BY DEF OnWire

-----------------------------------------------------------------------------
(* The inductive invariant *)

(* The client starts with nothing generated, sent or stored.               *)
LEMMA InitIndInv == Init => IndInv
<1> SUFFICES ASSUME Init PROVE IndInv
  OBVIOUS
<1> USE DEF Init
<1>1. OnWire = {} /\ DOMAIN up = {}
  BY EmptyWire
<1>2. TypeOK
  BY DEF TypeOK, Generated
<1>3. WireInOrder /\ ReplayComplete /\ NoneOvertaken
  BY <1>1 DEF WireInOrder, ReplayComplete, NoneOvertaken
<1>4. AcksSound /\ LinkSound
  BY DEF AcksSound, LinkSound, Idle
<1> QED
  BY <1>2, <1>3, <1>4 DEF IndInv

(* Every step keeps the type invariant.                                    *)
LEMMA NextTypeOK == TypeOK /\ [Next]_vars => TypeOK'
<1> SUFFICES ASSUME TypeOK, [Next]_vars PROVE TypeOK'
  OBVIOUS
<1> USE DEF TypeOK, Generated, flight, ground
<1>1. CASE Send
  <2>1. /\ next' = next + 1 /\ replaying = {} /\ next \in Nat \ {0}
        /\ UNCHANGED <<highestAck, replaying, received, groundHighest, drops>>
    BY <1>1 DEF Send, Idle
  <2>2. up' \in Seq(Generated') /\ down' \in Seq(0 .. (next' - 1))
    <3>1. up \in Seq(Generated') /\ down \in Seq(0 .. (next' - 1))
      BY <2>1
    <3>2. <<>> \in Seq(0 .. (next' - 1))
      OBVIOUS
    <3>3. next \in Generated'
      BY <2>1
    <3>4. up' \in {up, Append(up, next)} /\ down' \in {down, <<>>}
      BY <1>1
      DEF Send, SendLive, SendIntoDeadLink, SendToDisk, NoticeDeadLink
    <3>5. Append(up, next) \in Seq(Generated')
      BY <3>1, <3>3
    <3> QED
      BY <3>1, <3>2, <3>4, <3>5
  <2>3. disk' \subseteq Generated' /\ link' \in {"down", "up", "dead"}
    <3>1. disk \cup {next} \subseteq Generated'
      BY <2>1
    <3> QED
      BY <1>1, <3>1, EnqueuedFacts
      DEF Send, SendLive, SendIntoDeadLink, SendToDisk, NoticeDeadLink
  <2> QED
    BY <2>1, <2>2, <2>3
<1>2. CASE Connect
  BY <1>2 DEF Connect, GetFrom
<1>3. ASSUME NEW f \in replaying, Replay(f)
      PROVE  TypeOK'
  <2>1. up' \in {up, Append(up, f)} /\ down' \in {down, <<>>}
    BY <1>3 DEF Replay, NoticeDeadLink
  <2>2. Append(up, f) \in Seq(Generated) /\ <<>> \in Seq(0 .. (next - 1))
    OBVIOUS
  <2>3. up' \in Seq(Generated) /\ down' \in Seq(0 .. (next - 1))
    BY <2>1, <2>2
  <2> QED
    BY <1>3, <2>3 DEF Replay, NoticeDeadLink
<1>4. CASE ReceiveAck
  <2>1. /\ Head(down) \in 0 .. (next - 1)
        /\ Tail(down) \in Seq(0 .. (next - 1))
    BY <1>4 DEF ReceiveAck
  <2>2. replaying = {} /\ RemovedUpTo(Head(down)) \subseteq disk
    BY <1>4 DEF ReceiveAck, RemovedUpTo, Idle
  <2> QED
    BY <1>4, <2>1, <2>2 DEF ReceiveAck
<1>5. CASE Disconnect
  <2>1. down' \in {down, <<>>}
    BY <1>5 DEF Disconnect
  <2>2. down' \in Seq(0 .. (next - 1))
    <3>1. <<>> \in Seq(0 .. (next - 1))
      OBVIOUS
    <3> QED
      BY <2>1, <3>1
  <2> QED
    BY <1>5, <2>2 DEF Disconnect
<1>6. CASE LinkDrop
  <2>1. PICK n \in 0 .. Len(down) : down' = SubSeq(down, 1, n)
    BY <1>6 DEF LinkDrop
  <2>2. down' \in Seq(0 .. (next - 1))
    BY <2>1
  <2>3. up' \in Seq(Generated)
    BY <1>6 DEF LinkDrop
  <2> QED
    BY <1>6, <2>2, <2>3 DEF LinkDrop
<1>7. CASE Deliver
  <2>1. Head(up) \in Generated /\ up' \in Seq(Generated)
    BY <1>7, WireAfterDelivery DEF Deliver
  <2>2. groundHighest' \in 0 .. (next - 1)
    BY <1>7, <2>1 DEF Deliver, Newer
  <2>3. AckRead(groundHighest') \in 0 .. (next - 1)
    <3>1. 0 \in 0 .. (next - 1)
      OBVIOUS
    <3>2. AckRead(groundHighest') \in {groundHighest', 0}
      BY AckReadFacts
    <3> QED
      BY <2>2, <3>1, <3>2
  <2>4. down' \in Seq(0 .. (next - 1))
    <3>1. down' = down \/ down' = Append(down, AckRead(groundHighest'))
      BY <1>7 DEF Deliver
    <3>2. Append(down, AckRead(groundHighest')) \in Seq(0 .. (next - 1))
      BY <2>3
    <3>3. down \in Seq(0 .. (next - 1))
      OBVIOUS
    <3> QED
      BY <3>1, <3>2, <3>3
  <2> QED
    BY <1>7, <2>1, <2>2, <2>4 DEF Deliver
<1>8. CASE UNCHANGED vars
  BY <1>8 DEF vars
<1> QED
  BY <1>1, <1>2, <1>3, <1>4, <1>5, <1>6, <1>7, <1>8 DEF Next

(* Sending a new frame: it is younger than all others, and on a link that  *)
(* is up everything older is already on the wire.                          *)
LEMMA SendKeepsOrder ==
  ASSUME IndInv, TypeOK', Send
  PROVE  WireInOrder' /\ ReplayComplete' /\ NoneOvertaken'
<1>1. /\ next \in Nat \ {0} /\ up \in Seq(Generated) /\ replaying = {}
      /\ disk \subseteq Generated /\ OnWire \subseteq Generated
      /\ received \subseteq Generated
      /\ UNCHANGED <<received, replaying>>
  BY DEF IndInv, TypeOK, Send, Idle, OnWire, ground
<1>2. CASE SendLive
  <2> DEFINE S == 1 .. next
  <2>1. up \in Seq(S) /\ next \in S /\ up' = Append(up, next)
    BY <1>1, <1>2 DEF SendLive, Generated
  <2>2. /\ Len(up) \in Nat
        /\ DOMAIN up = 1 .. Len(up) /\ DOMAIN up' = 1 .. (Len(up) + 1)
        /\ \A i \in 1 .. Len(up) : up'[i] = up[i] /\ up[i] < next
        /\ up'[Len(up) + 1] = next
        /\ OnWire' = OnWire \cup {next}
        /\ disk' = disk /\ link = "up" /\ link' = "up"
    BY <1>1, <1>2, <2>1, WireAfterSend DEF SendLive, Generated
  <2>3. WireInOrder'
    <3> SUFFICES ASSUME NEW i \in 1 .. (Len(up) + 1),
                        NEW g \in disk \cup OnWire \cup {next},
                        g < up'[i], g \notin received
                 PROVE  \E j \in 1 .. (i - 1) : up'[j] = g
      BY <1>1, <2>2 DEF WireInOrder
    <3>1. g \in disk \cup OnWire
      <4>1. up'[i] \in S
        BY <2>1, <2>2, WireAfterSend
      <4>2. ~(next < up'[i])
        BY <1>1, <4>1
      <4> QED
        BY <4>2
    <3>2. CASE i \in 1 .. Len(up)
      <4>1. PICK j \in 1 .. (i - 1) : up[j] = g
        BY <2>2, <3>1, <3>2 DEF IndInv, WireInOrder
      <4> QED
        BY <2>2, <3>2, <4>1
    <3>3. CASE i = Len(up) + 1
      <4>1. g \in OnWire
        BY <1>1, <2>2, <3>1 DEF IndInv, ReplayComplete
      <4>2. PICK j \in 1 .. Len(up) : up[j] = g
        BY <2>2, <4>1 DEF OnWire
      <4> QED
        BY <2>2, <3>3, <4>2
    <3> QED
      BY <2>2, <3>2, <3>3
  <2>4. ReplayComplete'
    BY <1>1, <2>2 DEF IndInv, ReplayComplete
  <2>5. NoneOvertaken'
    BY <1>1, <2>2 DEF IndInv, NoneOvertaken, Generated
  <2> QED
    BY <2>3, <2>4, <2>5
<1>3. CASE SendIntoDeadLink
  <2>1. UNCHANGED <<link, disk, up, OnWire>>
    BY <1>3 DEF SendIntoDeadLink, OnWire
  <2> QED
    BY <1>1, <2>1 DEF IndInv, WireInOrder, ReplayComplete, NoneOvertaken
<1>4. CASE SendToDisk
  <2>1. /\ up' = up /\ OnWire' = OnWire /\ link' = "down"
        /\ disk' \subseteq disk \cup {next}
    BY <1>4, EnqueuedFacts DEF SendToDisk, NoticeDeadLink, OnWire
  <2>2. \A i \in DOMAIN up : up[i] < next
    BY <1>1 DEF Generated
  <2>3. WireInOrder'
    BY <1>1, <2>1, <2>2 DEF IndInv, WireInOrder, Generated
  <2>4. NoneOvertaken'
    BY <1>1, <2>1 DEF IndInv, NoneOvertaken, Generated
  <2> QED
    BY <2>1, <2>3, <2>4 DEF ReplayComplete
<1> QED
  BY <1>2, <1>3, <1>4 DEF Send

(* Replaying the oldest file left: every older file was sent before it.    *)
LEMMA ReplayKeepsOrder ==
  ASSUME IndInv, TypeOK', NEW f \in replaying, Replay(f)
  PROVE  WireInOrder' /\ ReplayComplete' /\ NoneOvertaken'
<1>1. /\ f \in disk /\ f \in Generated /\ up \in Seq(Generated)
      /\ Generated \subseteq Nat
      /\ disk \subseteq Generated /\ OnWire \subseteq Generated
      /\ replaying \subseteq disk
      /\ \A g \in replaying : f <= g
      /\ UNCHANGED <<disk, received>>
  BY DEF IndInv, TypeOK, Replay, IsOldest, OnWire, ground, Generated
<1>2. CASE link = "up"
  <2>1. /\ up' = Append(up, f) /\ link' = "up"
        /\ replaying' = replaying \ {f}
    BY <1>2 DEF Replay, NoticeDeadLink
  <2>2. /\ Len(up) \in Nat
        /\ DOMAIN up = 1 .. Len(up) /\ DOMAIN up' = 1 .. (Len(up) + 1)
        /\ \A i \in 1 .. Len(up) : up'[i] = up[i]
        /\ up'[Len(up) + 1] = f
        /\ OnWire' = OnWire \cup {f}
    BY <1>1, <2>1, WireAfterSend
  <2>3. WireInOrder'
    <3> SUFFICES ASSUME NEW i \in 1 .. (Len(up) + 1),
                        NEW g \in disk \cup OnWire,
                        g < up'[i], g \notin received
                 PROVE  \E j \in 1 .. (i - 1) : up'[j] = g
      BY <1>1, <2>2 DEF WireInOrder
    <3>1. CASE i \in 1 .. Len(up)
      <4>1. PICK j \in 1 .. (i - 1) : up[j] = g
        BY <2>2, <3>1 DEF IndInv, WireInOrder
      <4> QED
        BY <2>2, <3>1, <4>1
    <3>2. CASE i = Len(up) + 1
      <4>1. g \in Nat /\ f \in Nat /\ g < f
        BY <1>1, <2>2, <3>2
      <4>2. g \notin replaying
        BY <1>1, <4>1
      <4>3. g \in OnWire
        BY <1>2, <4>2 DEF IndInv, ReplayComplete
      <4>4. PICK j \in 1 .. Len(up) : up[j] = g
        BY <2>2, <4>3 DEF OnWire
      <4> QED
        BY <2>2, <3>2, <4>4
    <3> QED
      BY <2>2, <3>1, <3>2
  <2>4. ReplayComplete'
    BY <1>1, <1>2, <2>1, <2>2 DEF IndInv, ReplayComplete
  <2>5. NoneOvertaken'
    BY <1>1, <2>2 DEF IndInv, NoneOvertaken
  <2> QED
    BY <2>3, <2>4, <2>5
<1>3. CASE link # "up"
  <2>1. up' = up /\ OnWire' = OnWire /\ link' # "up"
    BY <1>3 DEF Replay, NoticeDeadLink, OnWire
  <2> QED
    BY <1>1, <2>1 DEF IndInv, WireInOrder, ReplayComplete, NoneOvertaken
<1> QED
  BY <1>2, <1>3

(* The ground takes the first message: nothing it lacks is older.          *)
LEMMA DeliverKeepsOrder ==
  ASSUME IndInv, TypeOK', Deliver
  PROVE  WireInOrder' /\ ReplayComplete' /\ NoneOvertaken'
<1> DEFINE f == Head(up)
<1>1. /\ f = up[1] /\ f \in Generated
      /\ Len(up) \in Nat \ {0}
      /\ DOMAIN up = 1 .. Len(up) /\ DOMAIN up' = 1 .. (Len(up) - 1)
      /\ \A i \in 1 .. (Len(up) - 1) : up'[i] = up[i + 1]
      /\ OnWire = OnWire' \cup {f}
  BY WireAfterDelivery DEF IndInv, TypeOK, Deliver
<1>2. received' = received \cup {f} /\ UNCHANGED <<disk, replaying, link>>
  BY DEF Deliver, flight
<1> HIDE DEF f
<1>3. WireInOrder'
  <2> SUFFICES ASSUME NEW i \in 1 .. (Len(up) - 1),
                      NEW g \in disk \cup OnWire,
                      g < up[i + 1], g \notin received, g # f
               PROVE  \E j \in 1 .. (i - 1) : up'[j] = g
    BY <1>1, <1>2 DEF WireInOrder
  <2>1. i + 1 \in DOMAIN up
    BY <1>1
  <2>2. PICK j \in 1 .. i : up[j] = g
    BY <2>1 DEF IndInv, WireInOrder
  <2>3. j # 1
    BY <1>1, <2>2
  <2>4. j - 1 \in 1 .. (i - 1) /\ up'[j - 1] = g
    BY <1>1, <2>2, <2>3
  <2> QED
    BY <2>4
<1>4. ReplayComplete'
  BY <1>1, <1>2 DEF IndInv, ReplayComplete
<1>5. \A g \in disk \cup OnWire : g < f => g \in received
  BY <1>1 DEF IndInv, WireInOrder
<1>6. NoneOvertaken'
  BY <1>1, <1>2, <1>5 DEF IndInv, NoneOvertaken
<1> QED
  BY <1>3, <1>4, <1>6

(* The steps that send nothing and deliver nothing keep the order too:     *)
(* frames only leave the disk or the wire.                                 *)
LEMMA OthersKeepOrder ==
  ASSUME IndInv, TypeOK', Connect \/ ReceiveAck \/ Disconnect \/ LinkDrop
  PROVE  WireInOrder' /\ ReplayComplete' /\ NoneOvertaken'
<1>1. received' = received /\ disk' \subseteq disk
  BY DEF Connect, ReceiveAck, Disconnect, LinkDrop, flight, ground,
         RemovedUpTo
<1>2. (up' = up /\ OnWire' = OnWire) \/ (up' = <<>> /\ OnWire' = {})
  <2>1. up' = up \/ up' = <<>>
    BY DEF Connect, ReceiveAck, Disconnect, LinkDrop
  <2>2. up' = up => OnWire' = OnWire
    BY DEF OnWire
  <2>3. up' = <<>> => OnWire' = {}
    BY DEF OnWire
  <2> QED
    BY <2>1, <2>2, <2>3
<1>3. WireInOrder' /\ NoneOvertaken'
  BY <1>1, <1>2 DEF IndInv, WireInOrder, NoneOvertaken
<1>4. ReplayComplete'
  <2>1. CASE Connect
    BY <2>1
    DEF Connect, ReplayComplete, GetFrom, IndInv, AcksSound, TypeOK,
        Generated
  <2>2. CASE ReceiveAck
    BY <1>1, <2>2
    DEF ReceiveAck, IndInv, ReplayComplete, Idle, OnWire
  <2>3. CASE Disconnect \/ LinkDrop
    BY <2>3 DEF Disconnect, LinkDrop, ReplayComplete
  <2> QED
    BY <2>1, <2>2, <2>3
<1> QED
  BY <1>3, <1>4

(* Acknowledgements stay truthful, and the disk free of acked frames.      *)
LEMMA NextAcksSound ==
  ASSUME IndInv, TypeOK', [Next]_vars
  PROVE  AcksSound'
<1> USE DEF IndInv, TypeOK, AcksSound, Generated, flight, ground
<1>1. CASE Send
  <2>1. /\ UNCHANGED <<received, groundHighest, highestAck>>
        /\ disk' \subseteq disk \cup {next}
        /\ down' \in {down, <<>>}
    BY <1>1, EnqueuedFacts
    DEF Send, SendLive, SendIntoDeadLink, SendToDisk, NoticeDeadLink
  <2>2. \A i \in DOMAIN down' : down'[i] \in received \cup {0}
    BY <2>1
  <2> QED
    BY <2>1, <2>2
<1>2. CASE Connect
  BY <1>2 DEF Connect
<1>3. ASSUME NEW f \in replaying, Replay(f)
      PROVE  AcksSound'
  <2>1. /\ UNCHANGED <<received, groundHighest, highestAck, disk>>
        /\ down' \in {down, <<>>}
    BY <1>3 DEF Replay, NoticeDeadLink
  <2> QED
    BY <2>1
<1>4. CASE ReceiveAck
  <2>1. /\ Len(down) \in Nat \ {0} /\ DOMAIN down = 1 .. Len(down)
        /\ Head(down) = down[1]
        /\ DOMAIN down' = 1 .. (Len(down) - 1)
        /\ \A i \in 1 .. (Len(down) - 1) : down'[i] = down[i + 1]
    BY <1>4 DEF ReceiveAck
  <2>2. \A i \in DOMAIN down' : down'[i] \in received \cup {0}
    <3> SUFFICES ASSUME NEW i \in 1 .. (Len(down) - 1)
                 PROVE  down[i + 1] \in received \cup {0}
      BY <2>1
    <3>1. i + 1 \in DOMAIN down
      BY <2>1
    <3> QED
      BY <3>1
  <2>3. Head(down) \in received \cup {0}
    <3>1. 1 \in DOMAIN down
      BY <2>1
    <3> QED
      BY <2>1, <3>1
  <2>4. UNCHANGED <<received, groundHighest>>
    BY <1>4 DEF ReceiveAck
  <2>5. CASE Head(down) > highestAck
    BY <1>4, <2>2, <2>3, <2>4, <2>5 DEF ReceiveAck, RemovedUpTo
  <2>6. CASE ~(Head(down) > highestAck)
    BY <1>4, <2>2, <2>4, <2>6 DEF ReceiveAck
  <2> QED
    BY <2>5, <2>6
<1>5. CASE Disconnect
  <2>1. /\ UNCHANGED <<received, groundHighest, highestAck, disk>>
        /\ down' \in {down, <<>>}
    BY <1>5 DEF Disconnect
  <2> QED
    BY <2>1
<1>6. CASE LinkDrop
  <2>1. PICK n \in 0 .. Len(down) : down' = SubSeq(down, 1, n)
    BY <1>6 DEF LinkDrop
  <2>2. /\ DOMAIN down' = 1 .. n /\ DOMAIN down = 1 .. Len(down)
        /\ n <= Len(down) /\ n \in Nat /\ Len(down) \in Nat
        /\ \A i \in 1 .. n : down'[i] = down[i]
    BY <2>1
  <2>3. \A i \in DOMAIN down' : down'[i] \in received \cup {0}
    BY <2>2
  <2> QED
    BY <1>6, <2>3 DEF LinkDrop
<1>7. CASE Deliver
  <2> DEFINE f == Head(up)
  <2>1. f \in Generated
    BY <1>7, WireAfterDelivery DEF Deliver
  <2>2. /\ received' = received \cup {f}
        /\ groundHighest' = Newer(f, groundHighest)
        /\ UNCHANGED <<highestAck, disk>>
    BY <1>7 DEF Deliver
  <2>3. /\ groundHighest' \in received' \cup {0}
        /\ \A r \in received' : r <= groundHighest'
    BY <2>1, <2>2 DEF Newer
  <2>4. AckRead(groundHighest') \in received' \cup {0}
    BY <2>3, AckReadFacts
  <2>5. \A i \in DOMAIN down' : down'[i] \in received' \cup {0}
    <3> DEFINE a == AckRead(groundHighest')
    <3>1. down' = down \/ down' = Append(down, a)
      BY <1>7 DEF Deliver
    <3> HIDE DEF a
    <3>2. CASE down' = down
      BY <2>2, <3>2
    <3>3. CASE down' = Append(down, a)
      <4>1. /\ DOMAIN down' = 1 .. (Len(down) + 1)
            /\ DOMAIN down = 1 .. Len(down) /\ Len(down) \in Nat
            /\ \A i \in 1 .. Len(down) : down'[i] = down[i]
            /\ down'[Len(down) + 1] = a
        BY <3>3
      <4>2. a \in received' \cup {0}
        BY <2>4 DEF a
      <4>3. \A i \in 1 .. Len(down) : down'[i] \in received' \cup {0}
        <5> TAKE i \in 1 .. Len(down)
        <5>1. i \in DOMAIN down
          BY <4>1
        <5>2. down[i] \in received \cup {0}
          BY <5>1
        <5> QED
          BY <2>2, <4>1, <5>2
      <4>4. \A i \in 1 .. (Len(down) + 1) :
              i \in 1 .. Len(down) \/ i = Len(down) + 1
        BY <4>1
      <4> QED
        BY <4>1, <4>2, <4>3, <4>4
    <3> QED
      BY <3>1, <3>2, <3>3
  <2> QED
    BY <2>2, <2>3, <2>5
<1>8. CASE UNCHANGED vars
  BY <1>8 DEF vars
<1> QED
  BY <1>1, <1>2, <1>3, <1>4, <1>5, <1>6, <1>7, <1>8 DEF Next

(* A link that goes dead has an empty wire, and none is a replay's.        *)
LEMMA NextLinkSound ==
  ASSUME IndInv, TypeOK', [Next]_vars
  PROVE  LinkSound'
<1> USE DEF IndInv, LinkSound, Idle, flight, ground
<1>1. CASE Send
  BY <1>1
  DEF Send, SendLive, SendIntoDeadLink, SendToDisk, NoticeDeadLink
<1>2. CASE Connect \/ ReceiveAck \/ Disconnect \/ LinkDrop
  BY <1>2 DEF Connect, ReceiveAck, Disconnect, LinkDrop
<1>3. ASSUME NEW f \in replaying, Replay(f)
      PROVE  LinkSound'
  BY <1>3 DEF Replay, NoticeDeadLink
<1>4. CASE Deliver
  BY <1>4 DEF Deliver
<1>5. CASE UNCHANGED vars
  BY <1>5 DEF vars
<1> QED
  BY <1>1, <1>2, <1>3, <1>4, <1>5 DEF Next

(* IndInv holds in every reachable state of the link.                      *)
THEOREM LinkInvariance == Spec => []IndInv
<1>1. IndInv /\ [Next]_vars => IndInv'
  <2> SUFFICES ASSUME IndInv, [Next]_vars PROVE IndInv'
    OBVIOUS
  <2>1. TypeOK'
    BY NextTypeOK DEF IndInv
  <2>2. AcksSound' /\ LinkSound'
    BY <2>1, NextAcksSound, NextLinkSound
  <2>3. ASSUME UNCHANGED vars
        PROVE  WireInOrder' /\ ReplayComplete' /\ NoneOvertaken'
    <3>1. UNCHANGED <<disk, replaying, link, up, received, OnWire>>
      BY <2>3 DEF vars, flight, ground, OnWire
    <3> QED
      BY <3>1 DEF IndInv, WireInOrder, ReplayComplete, NoneOvertaken
  <2>4. WireInOrder' /\ ReplayComplete' /\ NoneOvertaken'
    BY <2>1, <2>3, SendKeepsOrder, ReplayKeepsOrder, DeliverKeepsOrder,
       OthersKeepOrder
    DEF Next, IndInv
  <2> QED
    BY <2>1, <2>2, <2>4 DEF IndInv
<1> QED
  BY InitIndInv, <1>1, PTL DEF Spec

(* Type correctness of the link: no ack runs ahead of the frames.          *)
THEOREM LinkTypeCorrect == Spec => []TypeOK
<1>1. IndInv => TypeOK
  BY DEF IndInv
<1> QED
  BY LinkInvariance, <1>1, PTL

(* An ack vouches for all frames up to its own that are not gone.          *)
THEOREM AcksCoverPrefix == Spec => []AckCoversPrefix
<1>1. IndInv => AckCoversPrefix
  <2> SUFFICES ASSUME IndInv, NEW f \in 1 .. highestAck, f \notin received
               PROVE  f \in Gone
    BY DEF AckCoversPrefix
  <2>1. highestAck \in received /\ f <= highestAck /\ f \in Generated
    BY DEF IndInv, AcksSound, TypeOK, Generated
  <2>2. f # highestAck
    BY <2>1
  <2>3. f \notin disk \cup OnWire
    BY <2>1, <2>2 DEF IndInv, NoneOvertaken, TypeOK, Generated
  <2> QED
    BY <2>1, <2>3 DEF Gone
<1> QED
  BY LinkInvariance, <1>1, PTL

-----------------------------------------------------------------------------
(* What a step loses *)

(* A frame that the client's disk loses is at the ground or was dropped by *)
(* a full queue.                                                           *)
LEMMA RemovalHasReason ==
  ASSUME IndInv, Next, NEW f \in disk \ disk'
  PROVE  \/ f \in received
         \/ Cardinality(disk) >= MaxDepth /\ IsOldest(f, disk)
<1>1. CASE Send
  BY <1>1, EnqueuedFacts
  DEF Send, SendLive, SendIntoDeadLink, SendToDisk
<1>2. CASE ReceiveAck
  <2>1. Head(down) > highestAck /\ disk' = RemovedUpTo(Head(down))
    BY <1>2 DEF ReceiveAck
  <2>2. f \in Nat \ {0} /\ Head(down) \in Nat /\ f <= Head(down)
    <3>1. Head(down) \in 0 .. (next - 1)
      BY <1>2 DEF ReceiveAck, IndInv, TypeOK
    <3> QED
      BY <2>1, <3>1 DEF RemovedUpTo, IndInv, TypeOK, Generated
  <2>3. Head(down) \in received \cup {0}
    <3>1. Head(down) = down[1] /\ 1 \in DOMAIN down
      BY <1>2 DEF ReceiveAck, IndInv, TypeOK
    <3> QED
      BY <3>1 DEF IndInv, AcksSound
  <2> QED
    BY <2>2, <2>3 DEF IndInv, NoneOvertaken
<1>3. CASE Connect \/ Disconnect \/ LinkDrop \/ Deliver
  BY <1>3 DEF Connect, Disconnect, LinkDrop, Deliver, flight
<1>4. ASSUME NEW g \in replaying, Replay(g)
      PROVE  FALSE
  BY <1>4 DEF Replay
<1> QED
  BY <1>1, <1>2, <1>3, <1>4 DEF Next

(* What a step that is neither a Send nor a Deliver can change: copies     *)
(* only disappear, but for the one that a replay makes.                    *)
LEMMA QuietStep ==
  ASSUME IndInv,
         \/ Connect \/ ReceiveAck \/ Disconnect \/ LinkDrop
         \/ \E f \in replaying : Replay(f)
         \/ UNCHANGED vars
  PROVE  /\ UNCHANGED <<next, received>>
         /\ disk' \subseteq disk
         /\ OnWire' \subseteq OnWire \cup disk
         /\ LinkDrop \/ OnWire \subseteq OnWire'
<1>1. CASE Connect \/ ReceiveAck \/ Disconnect \/ UNCHANGED vars
  BY <1>1
  DEF Connect, ReceiveAck, Disconnect, vars, flight, ground, OnWire,
      RemovedUpTo
<1>2. CASE LinkDrop
  <2>1. OnWire' = {}
    BY <1>2 DEF LinkDrop, OnWire
  <2> QED
    BY <1>2, <2>1 DEF LinkDrop, flight, ground
<1>3. ASSUME NEW f \in replaying, Replay(f)
      PROVE  /\ UNCHANGED <<next, received, disk>>
             /\ OnWire' = OnWire \/ OnWire' = OnWire \cup {f}
             /\ f \in disk
  <2>1. f \in disk /\ f \in Generated /\ up \in Seq(Generated)
    BY DEF IndInv, TypeOK
  <2>2. up' = up \/ up' = Append(up, f)
    BY <1>3 DEF Replay, NoticeDeadLink
  <2>3. OnWire' = OnWire \/ OnWire' = OnWire \cup {f}
    <3>1. CASE up' = up
      BY <3>1 DEF OnWire
    <3>2. CASE up' = Append(up, f)
      BY <2>1, <3>2, WireAfterSend
    <3> QED
      BY <2>2, <3>1, <3>2
  <2> QED
    BY <1>3, <2>1, <2>3 DEF Replay, ground
<1> QED
  BY <1>1, <1>2, <1>3

(* A send adds its own frame to the wire or to the disk, or loses it.      *)
LEMMA SendStep ==
  ASSUME IndInv, Send
  PROVE  /\ next \in Nat \ {0} /\ next' = next + 1 /\ received' = received
         /\ disk' \subseteq disk \cup {next}
         /\ OnWire \subseteq OnWire' /\ OnWire' \subseteq OnWire \cup {next}
         /\ next \in OnWire' \cup disk' \/ (link = "dead" /\ link' = "dead")
<1>1. /\ next \in Nat \ {0} /\ next' = next + 1 /\ received' = received
      /\ up \in Seq(1 .. next) /\ next \in 1 .. next
  BY DEF IndInv, TypeOK, Send, ground, Generated
<1>2. CASE SendLive
  BY <1>1, <1>2, WireAfterSend DEF SendLive
<1>3. CASE SendIntoDeadLink
  BY <1>1, <1>3 DEF SendIntoDeadLink, OnWire
<1>4. CASE SendToDisk
  BY <1>1, <1>4, EnqueuedFacts DEF SendToDisk, NoticeDeadLink, OnWire
<1> QED
  BY <1>2, <1>3, <1>4 DEF Send

(* A delivery takes one copy off the wire and gives it to the ground.      *)
LEMMA DeliverStep ==
  ASSUME IndInv, Deliver
  PROVE  /\ UNCHANGED <<next, disk>>
         /\ 1 \in DOMAIN up /\ up[1] \in Generated
         /\ received' = received \cup {up[1]}
         /\ OnWire = OnWire' \cup {up[1]}
  BY WireAfterDelivery DEF IndInv, TypeOK, Deliver, flight

(* The last copy of a frame is lost in three ways only.                    *)
LEMMA LossHasReason ==
  ASSUME IndInv, Next, NEW f \in Gone' \ Gone
  PROVE  \/ f \in OnWire /\ link = "up" /\ link' = "dead"
         \/ f = next /\ link = "dead" /\ link' = "dead"
         \/ Cardinality(disk) >= MaxDepth /\ IsOldest(f, disk)
<1>1. f \notin received' /\ f \notin OnWire' /\ f \notin disk'
  BY DEF Gone
<1>2. CASE Send
  <2>1. f \in Generated => f \in disk
    BY <1>1, <1>2, SendStep DEF Gone
  <2>2. f \in Generated \/ f = next
    BY <1>2, SendStep DEF Gone, Generated
  <2>3. f \notin received
    BY <1>1, <1>2, SendStep
  <2>4. CASE f = next
    BY <1>1, <1>2, <2>4, SendStep
  <2>5. CASE f \in Generated
    BY <1>1, <2>1, <2>3, <2>5, RemovalHasReason
  <2> QED
    BY <2>2, <2>4, <2>5
<1>3. CASE Deliver
  BY <1>1, <1>3, DeliverStep DEF Gone, Generated
<1>4. CASE ~Send /\ ~Deliver
  <2>1. /\ UNCHANGED <<next, received>>
        /\ LinkDrop \/ OnWire \subseteq OnWire'
    BY <1>4, QuietStep DEF Next
  <2>2. f \in OnWire \/ f \in disk
    BY <1>1, <2>1 DEF Gone, Generated
  <2>3. CASE f \in disk
    BY <1>1, <2>1, <2>3, RemovalHasReason
  <2>4. CASE f \in OnWire
    BY <1>1, <2>1, <2>4 DEF LinkDrop
  <2> QED
    BY <2>2, <2>3, <2>4
<1> QED
  BY <1>2, <1>3, <1>4

(* The disk queue is a safe copy: a file is removed only for a frame that  *)
(* the ground holds, or as the oldest of a queue at capacity.              *)
THEOREM SafeRemoval == Spec => RemovedOnlyIfReceived
<1> DEFINE Safe == \A f \in disk \ disk' :
                     \/ f \in received
                     \/ Cardinality(disk) >= MaxDepth /\ IsOldest(f, disk)
<1>1. IndInv /\ [Next]_vars => [Safe]_vars
  BY RemovalHasReason
<1> QED
  BY LinkInvariance, <1>1, PTL DEF Spec, RemovedOnlyIfReceived

(* No frame is lost but with the link, in a dead link, or from a full      *)
(* queue.                                                                  *)
THEOREM LossesExplained == Spec => LossHasCause
<1> DEFINE Explained ==
      \A f \in Gone' \ Gone :
        \/ f \in OnWire /\ link = "up" /\ link' = "dead"
        \/ f = next /\ link = "dead" /\ link' = "dead"
        \/ Cardinality(disk) >= MaxDepth /\ IsOldest(f, disk)
<1>1. IndInv /\ [Next]_vars => [Explained]_vars
  BY LossHasReason
<1> QED
  BY LinkInvariance, <1>1, PTL DEF Spec, LossHasCause

-----------------------------------------------------------------------------
(* The link implements the ordered channel *)

(* A send produces a frame, and may lose others.                           *)
LEMMA SendProduces ==
  ASSUME IndInv, Send
  PROVE  Channel!Produce
<1>1. next' - 1 = (next - 1) + 1
  BY SendStep
<1>2. Gone \subseteq Gone'
  BY SendStep DEF Gone, Generated
<1>3. Gone' \subseteq (1 .. (next' - 1)) \ received'
  BY DEF Gone, Generated
<1> QED
  BY <1>1, <1>2, <1>3, SendStep DEF Channel!Produce, Channel!LoseSome

(* A delivery is that of the oldest pending frame, or of a second copy.    *)
LEMMA DeliverDelivers ==
  ASSUME IndInv, Deliver
  PROVE  Channel!Deliver \/ UNCHANGED Channel!vars
<1> DEFINE f == up[1]
<1>1. UNCHANGED <<next, Gone>>
  BY DeliverStep DEF Gone, Generated
<1>2. CASE f \in received
  BY <1>1, <1>2, DeliverStep DEF Channel!vars
<1>3. CASE f \notin received
  <2>1. f \in Channel!Pending
    BY <1>3, DeliverStep DEF Channel!Pending, Gone, Generated
  <2>2. ASSUME NEW g \in Channel!Pending
        PROVE  f <= g
    <3>1. g \in Generated /\ g \notin received /\ g \in disk \cup OnWire
      BY DEF Channel!Pending, Gone, Generated
    <3>2. ~(g < f)
      BY <3>1, DeliverStep DEF IndInv, WireInOrder
    <3> QED
      BY <3>1, <3>2, DeliverStep DEF Generated, IndInv, TypeOK
  <2> QED
    BY <1>1, <2>1, <2>2, DeliverStep DEF Channel!Deliver
<1> QED
  BY <1>2, <1>3

(* The rest can only lose frames.                                          *)
LEMMA QuietLoses ==
  ASSUME IndInv,
         \/ Connect \/ ReceiveAck \/ Disconnect \/ LinkDrop
         \/ \E f \in replaying : Replay(f)
         \/ UNCHANGED vars
  PROVE  Channel!Lose
<1>1. Gone \subseteq Gone'
  BY QuietStep DEF Gone, Generated
<1>2. Gone' \subseteq (1 .. (next' - 1)) \ received'
  BY DEF Gone, Generated
<1> QED
  BY <1>1, <1>2, QuietStep DEF Channel!Lose, Channel!LoseSome

(* The client, its disk queue, the link and the ground together implement  *)
(* an ordered channel: no frame is delivered before an older one that can  *)
(* still arrive, and none twice as new.                                    *)
THEOREM ImplementsChannel == Spec => OrderedChannel
<1>1. Init => Channel!Init
  BY DEF Init, Channel!Init, Gone, Generated
<1>2. IndInv /\ [Next]_vars => [Channel!Next]_(Channel!vars)
  BY SendProduces, DeliverDelivers, QuietLoses DEF Next, Channel!Next
<1> QED
  BY LinkInvariance, <1>1, <1>2, PTL DEF Spec, OrderedChannel, Channel!Spec
=============================================================================
