------------------------------ MODULE DiskQueue ------------------------------
(***************************************************************************)
(* The queue directory (flight/disk_queue.py) over the lives of several    *)
(* flight processes: files that outlive the process that wrote them, names *)
(* that are sorted as text, an enqueue that can be killed half way, and    *)
(* the numbers of CommsClient, which start again at 1 in every process.    *)
(*                                                                         *)
(* The link loses nothing here but what a disconnect cuts off (see         *)
(* StoreForward for one that does).  A frame is the process that made it   *)
(* and its number; a file is named by the number of its frame.             *)
(***************************************************************************)
EXTENDS Integers, FiniteSets

CONSTANTS
  MaxDepth,     \* QUEUE_MAX_DEPTH
  Radix,        \* 10: the base in which names are written
  Limit,        \* 1000000: the first number that %06d gives a wider name
  MaxFrames,    \* bound: frames of one process
  MaxLives      \* bound: flight processes

ASSUME DiskQueueAssumption ==
  /\ MaxDepth \in Nat \ {0} /\ Radix \in Nat \ {0, 1} /\ Limit \in Nat \ {0}
  /\ MaxFrames \in Nat /\ MaxFrames < Limit * Radix
  /\ MaxLives \in Nat \ {0}

VARIABLES
  life,         \* the number of the flight process
  next,         \* _next_seq_id
  highestAck,   \* _highest_ack_seq_id
  enqueuing,    \* where enqueue is, for frame next - 1
  dir,          \* the files by number: the life whose frame is in it
  link,         \* is_connected()
  replaying,    \* numbers that _replay_queued has yet to send
  acksHighest,  \* whether the ground acks highest_ack_seq_id (MockGateway)
                \*   or a field that the client does not read (gateway.js)
  highest,      \* the highest number that the ground has seen
  ack,          \* the last ack on its way to the client, 0 if none
  \* History, read by no action:
  owed,         \* frames whose enqueue has returned, that the ground lacks
                \*   and for which no newer one was put in at capacity
  dropped,      \* the frame that the enqueue under way has dropped
  heard,        \* per life: the highest of its numbers that the ground has got
  reached       \* per life: the numbers it has given

client == <<life, next, highestAck, enqueuing>>
ground == <<acksHighest, highest, ack>>
vars   == <<client, dir, link, replaying, ground, owed, dropped, heard, reached>>

Lives == 1 .. MaxLives

Names    == DOMAIN dir
Frame(n) == <<dir[n], n>>
OnDisk   == {Frame(n) : n \in Names}

-----------------------------------------------------------------------------
(* The directory *)

\* The order of the names of m and n, the wider of which is one digit wider:
\* the digits of the other are compared with its first ones, and '.' comes
\* before every digit.
NameBefore(m, n) ==
  IF (m < Limit) = (n < Limit) THEN m < n
  ELSE IF m < Limit THEN m <= n \div Radix ELSE ~(n <= m \div Radix)

IsFirst(n, S) == n \in S /\ \A k \in S : k = n \/ NameBefore(n, k)

Restricted(S) == [n \in S |-> dir[n]]

\* Mutant: one file too many.
FullLate == Cardinality(Names) > MaxDepth

Full == Cardinality(Names) >= MaxDepth

GiveNumber ==
  /\ next <= MaxFrames
  /\ next' = next + 1
  /\ reached' = [reached EXCEPT ![life] = next]

\* send() without a link, up to enqueue.
BeginEnqueue ==
  /\ enqueuing = "no" /\ ~link
  /\ enqueuing' = "drop" /\ GiveNumber
  /\ UNCHANGED <<life, highestAck, dir, link, replaying, ground, owed, dropped,
                 heard>>

\* _drop_oldest_locked, at capacity; then the temporary file, which no
\* reader of the directory sees.
MakeRoom ==
  /\ enqueuing = "drop" /\ enqueuing' = "rename"
  /\ IF Full
       THEN \E n \in Names :
              /\ IsFirst(n, Names)
              /\ dir' = Restricted(Names \ {n})
              /\ dropped' = {Frame(n)}
       ELSE UNCHANGED <<dir, dropped>>
  /\ UNCHANGED <<life, next, highestAck, link, replaying, ground, owed, heard,
                 reached>>

\* os.rename, over a file of the same number if there is one.
Rename ==
  /\ enqueuing = "rename" /\ enqueuing' = "no"
  /\ dir' = [n \in Names \cup {next - 1} |-> IF n = next - 1 THEN life ELSE dir[n]]
  /\ owed' = (owed \ dropped) \cup {<<life, next - 1>>}
  /\ dropped' = {}
  /\ UNCHANGED <<life, next, highestAck, link, replaying, ground, heard, reached>>

-----------------------------------------------------------------------------
(* The link *)

Newer(m, n) == IF m > n THEN m ELSE n

Idle == enqueuing = "no" /\ replaying = {}

\* What payload.get("highest_ack_seq_id", 0) gives the client.
AckRead(n) == IF acksHighest THEN n ELSE 0

\* A frame at the ground, and the ack that the client reads.  Acks that wait
\* are one here, the last: highest never falls, so it outdoes the others.
Deliver(frame) ==
  /\ owed' = owed \ {frame}
  /\ heard' = [heard EXCEPT ![frame[1]] = Newer(frame[2], @)]
  /\ highest' = Newer(frame[2], highest)
  /\ ack' = AckRead(highest')
  /\ UNCHANGED <<dir, link, acksHighest, dropped>>

SendLive ==
  /\ Idle /\ link
  /\ GiveNumber
  /\ Deliver(<<life, next>>)
  /\ UNCHANGED <<life, highestAck, enqueuing, replaying>>

\* Mutant: a replay that starts one frame late.
ToReplayLate == {n \in Names : n > highestAck + 1}

\* get_from(_highest_ack_seq_id + 1).
ToReplay == {n \in Names : n > highestAck}

Connect ==
  /\ Idle /\ ~link
  /\ link' = TRUE
  /\ replaying' = ToReplay
  /\ UNCHANGED <<client, dir, ground, owed, dropped, heard, reached>>

Replay ==
  /\ link
  /\ \E n \in replaying :
       /\ IsFirst(n, replaying)
       /\ replaying' = replaying \ {n}
       /\ Deliver(Frame(n))
  /\ UNCHANGED <<client, reached>>

\* _handle_telemetry_ack, with remove_up_to.
ReceiveAck ==
  /\ Idle /\ link /\ ack # 0
  /\ ack' = 0
  /\ highestAck' = Newer(ack, highestAck)
  /\ dir' = IF ack > highestAck THEN Restricted({n \in Names : n > ack}) ELSE dir
  /\ UNCHANGED <<life, next, enqueuing, link, replaying, acksHighest, highest,
                 owed, dropped, heard, reached>>

Disconnect ==
  /\ link /\ link' = FALSE
  /\ replaying' = {} /\ ack' = 0
  /\ UNCHANGED <<client, dir, acksHighest, highest, owed, dropped, heard,
                 reached>>

\* The process is killed, at any of these points, and started again; what it
\* had dropped for a frame that it did not put in stays owed.
Kill ==
  /\ life + 1 \in Lives
  /\ life' = life + 1
  /\ next' = 1 /\ highestAck' = 0 /\ enqueuing' = "no"
  /\ link' = FALSE /\ replaying' = {} /\ ack' = 0 /\ dropped' = {}
  /\ UNCHANGED <<dir, acksHighest, highest, owed, heard, reached>>

-----------------------------------------------------------------------------

Init ==
  /\ life = 1 /\ next = 1 /\ highestAck = 0 /\ enqueuing = "no"
  /\ dir = [n \in {} |-> 0]
  /\ link = FALSE /\ replaying = {}
  /\ acksHighest \in BOOLEAN /\ highest = 0 /\ ack = 0
  /\ owed = {} /\ dropped = {}
  /\ heard = [l \in Lives |-> 0] /\ reached = [l \in Lives |-> 0]

Next ==
  \/ BeginEnqueue \/ MakeRoom \/ Rename
  \/ SendLive \/ Connect \/ Replay \/ ReceiveAck \/ Disconnect
  \/ Kill

Spec == Init /\ [][Next]_vars

-----------------------------------------------------------------------------
(* Properties *)

\* Every variable keeps its type; over all kills, the directory holds at
\* most MaxDepth files, and only of frames that were numbered.
TypeOK ==
  /\ life \in Lives /\ next \in Nat /\ highestAck \in Nat /\ highest \in Nat
  /\ enqueuing \in {"no", "drop", "rename"}
  /\ Cardinality(Names) <= MaxDepth
  /\ \A n \in Names : dir[n] \in Lives /\ n \in 1 .. reached[dir[n]]
  /\ replaying \subseteq Names
  /\ link \in BOOLEAN /\ acksHighest \in BOOLEAN /\ ack \in 0 .. highest
  /\ owed \subseteq Lives \X (1 .. MaxFrames)
  /\ dropped \subseteq Lives \X (1 .. MaxFrames)
  /\ heard \in [Lives -> 0 .. MaxFrames]
  /\ reached \in [Lives -> 0 .. MaxFrames]

\* Another process gave the number of f: a later one, or any if acks are read.
Renumbered(f) ==
  \E l \in Lives \ {f[1]} : reached[l] >= f[2] /\ (l > f[1] \/ acksHighest)

Lost == {f \in owed \ (OnDisk \cup dropped) : ~Renumbered(f)}

\* A frame that was enqueued stays on disk until the ground has it or a newer
\* one takes its place at capacity, unless another process gave its number
\* again.  Beyond that, a kill costs one frame at most: the one dropped for a
\* frame that was never put in.
OnlyRenumberingLoses == Cardinality(Lost) <= life - 1

\* However replays are cut short and processes killed, a frame on disk is
\* overtaken by a later one of its process only if that one has a wider name,
\* which sorts first, or if another process gave its number too, so that it
\* was taken for acked.
OnlyWiderOvertakes ==
  \A f \in owed \cap OnDisk :
    f[2] < heard[f[1]] =>
      \/ \E n \in f[2] + 1 .. heard[f[1]] : NameBefore(n, f[2])
      \/ \E l \in Lives \ {f[1]} : reached[l] >= f[2]

-----------------------------------------------------------------------------
(* Claims of the repository that the code does not keep *)

\* "Survives process restarts ... and guarantees ordered delivery": no frame
\* that was enqueued disappears ...
SurvivesRestarts == owed \subseteq OnDisk \cup dropped

\* ... and none is overtaken by a later one of its process.
DeliversInOrder == \A f \in owed \cap OnDisk : f[2] >= heard[f[1]]
=============================================================================
