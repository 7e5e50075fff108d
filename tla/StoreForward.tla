---------------------------- MODULE StoreForward ----------------------------
(***************************************************************************)
(* The store-and-forward telemetry link: CommsClient of                    *)
(* flight/comms_client.py on its disk queue (flight/disk_queue.py), a      *)
(* transport, and the ground end that acknowledges.                        *)
(*                                                                         *)
(* The flight side is one thread, so that send(), connect() and the drain  *)
(* of received messages never overlap; the link and the ground run beside  *)
(* it, also between two messages of a replay.  A frame is its seq_id.      *)
(***************************************************************************)
EXTENDS Integers, Sequences, FiniteSets

CONSTANTS
  MaxDepth,             \* QUEUE_MAX_DEPTH
  LinkLoses,            \* whether a link that goes down takes what is in
                        \*   flight with it: {TRUE} for WebSocketTransport,
                        \*   {FALSE} for InProcessTransport
  GroundAcksHighest,    \* TRUE: the ground acks highest_ack_seq_id, as
                        \*   MockGateway does; FALSE: acked_seq_id, as
                        \*   ground/src/ws/gateway.js does
  MaxFrames,            \* bound: frames generated
  MaxDrops              \* bound: times the link goes down

ASSUME DepthAssumption == MaxDepth \in Nat \ {0}

ASSUME LinkAssumption ==
  /\ LinkLoses \subseteq BOOLEAN
  /\ GroundAcksHighest \in BOOLEAN
  /\ MaxFrames \in Nat
  /\ MaxDrops \in Nat

VARIABLES
  next,           \* _next_seq_id
  highestAck,     \* _highest_ack_seq_id
  disk,           \* the seq_ids in the queue directory
  replaying,      \* what _replay_queued has yet to send
  link,           \* "down"; "up"; or "dead": down, and the client has not
                  \*   noticed (is_connected() is still true)
  up,             \* frames in flight to the ground
  down,           \* acks in flight to the client, as the client reads them
  received,       \* the frames the ground has received
  groundHighest,  \* highest_ack of the ground
  drops           \* how many times the link went down

flight == <<next, highestAck, disk, replaying>>
ground == <<received, groundHighest>>
vars   == <<flight, link, up, down, ground, drops>>

Generated == 1 .. (next - 1)
OnWire == {up[i] : i \in DOMAIN up}

IsOldest(f, S) == f \in S /\ \A g \in S : f <= g

-----------------------------------------------------------------------------
(* The disk queue *)

\* Mutant: the newest file dropped.
EnqueuedDroppingNewest(f) ==
  IF Cardinality(disk) >= MaxDepth
    THEN {g \in disk : \E h \in disk : g < h} \cup {f}
    ELSE disk \cup {f}

\* enqueue: at capacity the oldest file goes first.
Enqueued(f) ==
  IF Cardinality(disk) >= MaxDepth
    THEN {g \in disk : ~IsOldest(g, disk)} \cup {f}
    ELSE disk \cup {f}

\* Mutant: a read that starts one frame late.
GetFromNext(n) == {f \in disk : f > n}

GetFrom(n) == {f \in disk : f >= n}

RemovedUpTo(n) == {f \in disk : f > n}

-----------------------------------------------------------------------------
(* The client *)

Idle == replaying = {}

\* send(): the frame goes out on a link that is up, and is lost in one that
\* is dead but not noticed, or goes to disk when the link is known to be
\* down or the send fails, which is how a dead link is noticed.
SendLive ==
  /\ link = "up"
  /\ up' = Append(up, next)
  /\ UNCHANGED <<link, disk, down>>

SendIntoDeadLink ==
  /\ link = "dead"
  /\ UNCHANGED <<link, disk, up, down>>

\* The socket is given up, and what it had received with it.
NoticeDeadLink ==
  /\ link = "dead" /\ link' = "down"
  /\ down' = <<>>
  /\ UNCHANGED up

SendToDisk ==
  /\ NoticeDeadLink \/ (link = "down" /\ UNCHANGED <<link, up, down>>)
  /\ disk' = Enqueued(next)

\* Mutant: frames sent before the replay has ended.
SendDuringReplay ==
  /\ next <= MaxFrames
  /\ next' = next + 1
  /\ SendLive \/ SendIntoDeadLink \/ SendToDisk
  /\ replaying' = IF link' = "down" THEN {} ELSE replaying
  /\ UNCHANGED <<highestAck, ground, drops>>

Send ==
  /\ Idle /\ next <= MaxFrames
  /\ next' = next + 1
  /\ SendLive \/ SendIntoDeadLink \/ SendToDisk
  /\ UNCHANGED <<highestAck, replaying, ground, drops>>

\* connect() on a reachable ground, up to the reading of the queue.
Connect ==
  /\ link = "down" /\ Idle
  /\ link' = "up"
  /\ replaying' = GetFrom(highestAck + 1)
  /\ UNCHANGED <<next, highestAck, disk, up, down, ground, drops>>

\* _replay_queued: one message, in the order of the file names; a failed
\* send ends the replay.
Replay(f) ==
  /\ IsOldest(f, replaying)
  /\ \/ /\ link = "up"
        /\ up' = Append(up, f)
        /\ replaying' = replaying \ {f}
        /\ UNCHANGED <<link, down>>
     \/ /\ link = "dead"
        /\ replaying' = replaying \ {f}
        /\ UNCHANGED <<link, up, down>>
     \/ /\ NoticeDeadLink
        /\ replaying' = {}
  /\ UNCHANGED <<next, highestAck, disk, ground, drops>>

\* Mutant: the files removed before the ack is compared.
ReceiveAckRemovingNext ==
  /\ Idle /\ link # "down" /\ down # <<>>
  /\ down' = Tail(down)
  /\ IF Head(down) > highestAck
       THEN highestAck' = Head(down) /\ disk' = RemovedUpTo(Head(down) + 1)
       ELSE UNCHANGED <<highestAck, disk>>
  /\ UNCHANGED <<next, replaying, link, up, ground, drops>>

\* receive_one: _handle_telemetry_ack.
ReceiveAck ==
  /\ Idle /\ link # "down" /\ down # <<>>
  /\ down' = Tail(down)
  /\ IF Head(down) > highestAck
       THEN highestAck' = Head(down) /\ disk' = RemovedUpTo(Head(down))
       ELSE UNCHANGED <<highestAck, disk>>
  /\ UNCHANGED <<next, replaying, link, up, ground, drops>>

\* What a link that is closed leaves of the acks: nothing in a socket, all
\* of them in the queue of InProcessTransport.
KeptOnClose(loses) == IF loses THEN <<>> ELSE down

\* disconnect(): the window closes.  What was sent still arrives; what was
\* not read is discarded with a socket, and kept by the in-process queue.
Disconnect ==
  /\ Idle /\ link # "down" /\ drops < MaxDrops
  /\ link' = "down"
  /\ \E loses \in LinkLoses : down' = KeptOnClose(loses)
  /\ drops' = drops + 1
  /\ UNCHANGED <<flight, up, ground>>

-----------------------------------------------------------------------------
(* The link and the ground *)

\* The connection breaks, and the client does not know yet: it may still
\* read the acks that had reached it.
LinkDrop ==
  /\ TRUE \in LinkLoses
  /\ link = "up" /\ drops < MaxDrops
  /\ link' = "dead"
  /\ up' = <<>>
  /\ \E n \in 0 .. Len(down) : down' = SubSeq(down, 1, n)
  /\ drops' = drops + 1
  /\ UNCHANGED <<flight, ground>>

Newer(m, n) == IF m > n THEN m ELSE n

\* What payload.get("highest_ack_seq_id", 0) gives the client.
AckRead(highest) == IF GroundAcksHighest THEN highest ELSE 0

\* The ack on its way: a closed socket drops it, the queue of
\* InProcessTransport keeps it for the next connection.
DownWith(a, loses) ==
  IF loses /\ link = "down" THEN down ELSE Append(down, a)

\* One TELEMETRY message at the ground, and its ack.
Deliver ==
  /\ up # <<>>
  /\ up' = Tail(up)
  /\ received' = received \cup {Head(up)}
  /\ groundHighest' = Newer(Head(up), groundHighest)
  /\ \E loses \in LinkLoses : down' = DownWith(AckRead(groundHighest'), loses)
  /\ UNCHANGED <<flight, link, drops>>

\* What verify_zero_loss answers, asked about every frame so far.
ZeroLoss == highestAck >= next - 1 /\ disk = {}

-----------------------------------------------------------------------------

Init ==
  /\ next = 1 /\ highestAck = 0
  /\ disk = {} /\ replaying = {}
  /\ link = "down" /\ up = <<>> /\ down = <<>>
  /\ received = {} /\ groundHighest = 0
  /\ drops = 0

Next ==
  \/ Send \/ Connect \/ ReceiveAck \/ Disconnect
  \/ \E f \in replaying : Replay(f)
  \/ LinkDrop \/ Deliver

\* The main loop goes on retrying, replaying and draining, the ground goes
\* on receiving.  Nothing is assumed of the frames or of the link's drops.
Fairness ==
  /\ WF_vars(Connect)
  /\ WF_vars(\E f \in replaying : Replay(f))
  /\ WF_vars(ReceiveAck)
  /\ WF_vars(Deliver)

Spec == Init /\ [][Next]_vars /\ Fairness

-----------------------------------------------------------------------------
(* Properties *)

\* Every variable keeps its type; only numbers that were given are stored,
\* sent, received or acknowledged.
TypeOK ==
  /\ next \in Nat \ {0}
  /\ highestAck \in 0 .. (next - 1)
  /\ disk \subseteq Generated
  /\ replaying \subseteq disk
  /\ link \in {"down", "up", "dead"}
  /\ up \in Seq(Generated)
  /\ down \in Seq(0 .. (next - 1))
  /\ received \subseteq Generated
  /\ groundHighest \in 0 .. (next - 1)
  /\ drops \in Nat

\* The frames of which neither the ground, nor the wire, nor the disk has a
\* copy.
Gone == Generated \ (received \cup OnWire \cup disk)

\* The client and the ground together are an ordered channel that delivers
\* no frame twice and skips only frames that are lost for good.
Channel == INSTANCE OrderedDelivery
  WITH produced <- next - 1, delivered <- received, gone <- Gone

OrderedChannel == Channel!Spec

\* An acknowledgement vouches for every frame up to its number that was not
\* lost for good: no such frame is still on disk, on the wire, or to come.
AckCoversPrefix ==
  \A f \in 1 .. highestAck : f \in received \/ f \in Gone

\* A frame leaves the disk only when the ground has it, or when the queue
\* is at capacity and the frame is its oldest.
RemovedOnlyIfReceived ==
  [][\A f \in disk \ disk' :
       \/ f \in received
       \/ Cardinality(disk) >= MaxDepth /\ IsOldest(f, disk)]_vars

\* The last copy of a frame is lost with the connection it was travelling
\* on, in a send into a dead link, or as the oldest file of a full queue,
\* and in no other way.
LossHasCause ==
  [][\A f \in Gone' \ Gone :
       \/ f \in OnWire /\ link = "up" /\ link' = "dead"
       \/ f = next /\ link = "dead" /\ link' = "dead"
       \/ Cardinality(disk) >= MaxDepth /\ IsOldest(f, disk)]_vars

\* Once the client no longer sits on a dead link, every frame that is not
\* lost gets to the ground and the disk queue drains.
QueueDrains ==
  <>[](link # "dead") => <>[](disk = {} /\ Generated = received \cup Gone)

-----------------------------------------------------------------------------
(* The inductive invariant *)

\* On the wire, a frame the ground lacks follows every older one that is
\* still on the wire or on disk.
WireInOrder ==
  \A i \in DOMAIN up : \A g \in disk \cup OnWire :
    g < up[i] /\ g \notin received => \E j \in 1 .. (i - 1) : up[j] = g

\* On a link that is up, what is on disk has been sent or is about to be.
ReplayComplete ==
  link = "up" => \A g \in disk \ replaying : g \in received \cup OnWire

\* Older frames than a received one are received or gone.
NoneOvertaken ==
  \A r \in received : \A g \in disk \cup OnWire : g < r => g \in received

\* Acks name received frames, and the files they cover are removed.
AcksSound ==
  /\ groundHighest \in received \cup {0}
  /\ \A r \in received : r <= groundHighest
  /\ \A i \in DOMAIN down : down[i] \in received \cup {0}
  /\ highestAck \in received \cup {0}
  /\ \A f \in disk : f > highestAck

\* Nothing travels on a dead link, and nothing is replayed on no link.
LinkSound ==
  /\ link = "dead" => up = <<>>
  /\ link = "down" => Idle

\* What makes the properties above inductive.
IndInv ==
  /\ TypeOK
  /\ WireInOrder
  /\ ReplayComplete
  /\ NoneOvertaken
  /\ AcksSound
  /\ LinkSound

-----------------------------------------------------------------------------
(* Claims of the repository that the code does not keep *)

\* verify_zero_loss of the client, asked about every frame it generated,
\* answers zero_loss only when the ground has them all.
ZeroLossReport == ZeroLoss => Generated \subseteq received
=============================================================================
