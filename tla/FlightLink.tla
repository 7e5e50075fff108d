----------------------------- MODULE FlightLink -----------------------------
(***************************************************************************)
(* The connection between the two segments: the main loop of               *)
(* flight/__main__.py on a WebSocketTransport, the gateway that keeps one  *)
(* flight client (ground/src/ws/gateway.js), and the sockets between them, *)
(* whose two ends learn of a failure each in its own time.                 *)
(*                                                                         *)
(* Connections are numbered as the gateway accepts them.  What is sent to  *)
(* flight is a plan, by its number, or 0: anything whose handler does not  *)
(* raise.                                                                  *)
(***************************************************************************)
EXTENDS Integers, Sequences

CONSTANTS
  MaxReceives,  \* max_count of drain_receives
  MaxDepth,     \* QUEUE_MAX_DEPTH
  MaxPlans,     \* bound: plans sent
  MaxDown,      \* bound: messages on their way to flight
  MaxFailures   \* bound: broken paths, handshakes and restarts

ASSUME FlightLinkAssumption ==
  /\ MaxReceives \in Nat \ {0} /\ MaxDepth \in Nat \ {0}
  /\ MaxPlans \in Nat /\ MaxDown \in Nat /\ MaxFailures \in Nat

VARIABLES
  loop,          \* where the flight process is
  running,       \* _running of __main__
  fswRunning,    \* _running of FswCore
  ws,            \* _ws of the transport, 0 being None
  queued,        \* files in the queue directory
  left,          \* messages the replay, or the drain, may still take
  clientEnd,     \* per connection: the end of flight
  serverEnd,     \* per connection: the end of the gateway
  cut,           \* the connections whose path is broken
  down,          \* per connection: sent to flight and not yet read
  flightClient,  \* _flightClient, 0 being null
  failures,      \* count for the bound
  \* History, read by no action:
  erased,        \* a late close event has cleared a newer client
  sent,          \* plans sent
  handled,       \* plans whose handler was called, in order
  lost           \* plans that went with their connection

process == <<loop, running, fswRunning, ws, queued, left>>
sockets == <<clientEnd, serverEnd, cut, down>>
history == <<erased, sent, handled, lost>>
vars    == <<process, sockets, flightClient, failures, history>>

\* A connection takes a failure, but for the first.
Conns == 1 .. (MaxFailures + 1)
Plans == 1 .. MaxPlans

ClientEnds == {"none", "open", "dead"}
ServerEnds == {"none", "open", "closing", "closed"}
Accepted   == {c \in Conns : serverEnd[c] # "none"}
PlansOf(s) == {s[i] : i \in DOMAIN s} \ {0}

Fail == failures < MaxFailures /\ failures' = failures + 1

\* What was on its way on c, from message n + 1 on, is lost.
Drop(c, n) ==
  /\ down' = [down EXCEPT ![c] = SubSeq(@, 1, n)]
  /\ lost' = lost \cup PlansOf(SubSeq(down[c], n + 1, Len(down[c])))

-----------------------------------------------------------------------------
(* The gateway *)

\* Mutant: the older client is left as it is.
AcceptKeeping(c) ==
  /\ c \in Conns /\ Accepted = 1 .. (c - 1)
  /\ serverEnd' = [serverEnd EXCEPT ![c] = "open"]
  /\ flightClient' = c

\* _handleFlightConnection for connection c.
Accept(c) ==
  /\ c \in Conns /\ Accepted = 1 .. (c - 1)
  /\ serverEnd' = [d \in Conns |->
       IF d = c THEN "open"
       ELSE IF d = flightClient /\ serverEnd[d] = "open" THEN "closing"
       ELSE serverEnd[d]]
  /\ flightClient' = c

\* The 'close' event of c: the other end is gone, or the closing handshake
\* has ended or was given up.
CloseEvent(c) ==
  /\ \/ serverEnd[c] = "closing"
     \/ serverEnd[c] = "open" /\ (c \in cut \/ clientEnd[c] = "dead")
  /\ serverEnd' = [serverEnd EXCEPT ![c] = "closed"]
  /\ flightClient' = 0
  /\ erased' = (erased \/ flightClient \notin {0, c})
  /\ UNCHANGED <<process, clientEnd, cut, down, failures, sent, handled, lost>>

IsFlightConnected == flightClient # 0 /\ serverEnd[flightClient] = "open"

\* _sendToFlightRaw.
GatewaySends(m) ==
  /\ IsFlightConnected /\ Len(down[flightClient]) < MaxDown
  /\ IF flightClient \in cut \/ clientEnd[flightClient] = "dead"
       THEN down' = down /\ lost' = lost \cup ({m} \ {0})
       ELSE lost' = lost
            /\ down' = [down EXCEPT ![flightClient] = Append(@, m)]
  /\ UNCHANGED <<process, clientEnd, serverEnd, cut, flightClient, failures,
                 erased, handled>>

SendPlan == sent < MaxPlans /\ sent' = sent + 1 /\ GatewaySends(sent + 1)
SendAck  == sent' = sent /\ GatewaySends(0)

GatewayRestarts ==
  /\ Fail
  /\ serverEnd' = [c \in Conns |->
       IF serverEnd[c] = "none" THEN "none" ELSE "closed"]
  /\ flightClient' = 0 /\ erased' = FALSE
  /\ UNCHANGED <<process, clientEnd, cut, down, sent, handled, lost>>

-----------------------------------------------------------------------------
(* The sockets *)

\* The path of c breaks.
Cut(c) ==
  /\ clientEnd[c] = "open" /\ serverEnd[c] = "open" /\ c \notin cut
  /\ Fail
  /\ cut' = cut \cup {c}
  /\ \E n \in 0 .. Len(down[c]) : Drop(c, n)
  /\ UNCHANGED <<process, clientEnd, serverEnd, flightClient, erased, sent,
                 handled>>

\* The library of flight learns that the other end is gone; what it had
\* received can be read to some point.
ClientEndDies(c) ==
  /\ clientEnd[c] = "open"
  /\ c \in cut \/ serverEnd[c] \in {"closing", "closed"}
  /\ clientEnd' = [clientEnd EXCEPT ![c] = "dead"]
  /\ \E n \in 0 .. Len(down[c]) : Drop(c, n)
  /\ UNCHANGED <<process, serverEnd, cut, flightClient, failures, erased, sent,
                 handled>>

-----------------------------------------------------------------------------
(* The main loop *)

\* _ws = None, or the process is gone: the end of flight is closed with it.
GiveUpSocket ==
  /\ ws' = 0
  /\ IF ws = 0
       THEN UNCHANGED <<clientEnd, down, lost>>
       ELSE clientEnd' = [clientEnd EXCEPT ![ws] = "dead"] /\ Drop(ws, 0)

KeepSocket == UNCHANGED <<ws, clientEnd, down, lost>>

\* Mutant: nothing is dropped at capacity.
EnqueueUncapped == queued' = IF queued <= MaxDepth THEN queued + 1 ELSE queued

Enqueue == queued' = IF queued < MaxDepth THEN queued + 1 ELSE queued

\* fsw.start(), which sets _running unless it escalates.
Start ==
  /\ loop = "start" /\ loop' = "head"
  /\ fswRunning' \in BOOLEAN
  /\ UNCHANGED <<running, ws, queued, left, sockets, flightClient, failures,
                 history>>

\* Mutant: the loop asks FswCore alone.
KeepGoingByCore == fswRunning

\* The condition of the loop.
KeepGoing == running /\ fswRunning

LoopEnds ==
  /\ loop = "head" /\ ~KeepGoing
  /\ GiveUpSocket
  /\ loop' = "done"
  /\ UNCHANGED <<running, fswRunning, queued, left, serverEnd, cut,
                 flightClient, failures, erased, sent, handled>>

GoesOn == loop = "head" /\ KeepGoing

\* Connected; too early for an attempt; or an attempt that was refused.
NoConnect ==
  /\ GoesOn /\ loop' = "tick"
  /\ UNCHANGED <<running, fswRunning, ws, queued, left, sockets, flightClient,
                 failures, history>>

\* comms.connect(), up to its replay.
Connect ==
  /\ GoesOn /\ ws = 0
  /\ \E c \in Conns :
       /\ Accept(c)
       /\ ws' = c /\ clientEnd' = [clientEnd EXCEPT ![c] = "open"]
  /\ loop' = "replay" /\ left' = queued
  /\ UNCHANGED <<running, fswRunning, queued, cut, down, failures, history>>

\* The gateway accepts, and its answer does not come within open_timeout.
ConnectTimesOut ==
  /\ GoesOn /\ ws = 0 /\ Fail
  /\ \E c \in Conns :
       Accept(c) /\ clientEnd' = [clientEnd EXCEPT ![c] = "dead"]
  /\ loop' = "tick"
  /\ UNCHANGED <<running, fswRunning, ws, queued, left, cut, down, history>>

\* _replay_queued, a message at a time.
Replay ==
  /\ loop = "replay"
  /\ IF left > 0 /\ clientEnd[ws] = "dead"
       THEN GiveUpSocket /\ loop' = "tick" /\ left' = 0
       ELSE /\ KeepSocket
            /\ IF left > 0 THEN left' = left - 1 /\ loop' = loop
                           ELSE left' = left /\ loop' = "tick"
  /\ UNCHANGED <<running, fswRunning, queued, serverEnd, cut, flightClient,
                 failures, erased, sent, handled>>

\* What follows the tick: drain_receives on a link, and the sleep.
AfterTick ==
  /\ loop' = IF ws' = 0 THEN "head" ELSE "drain"
  /\ left' = IF ws' = 0 THEN 0 ELSE MaxReceives

\* Mutant: a socket that raises is tried again.
TickSendsKeeping ==
  /\ loop = "tick"
  /\ KeepSocket
  /\ IF ws # 0 /\ clientEnd[ws] = "open" THEN queued' = queued ELSE Enqueue
  /\ AfterTick
  /\ UNCHANGED <<running, fswRunning, serverEnd, cut, flightClient, failures,
                 erased, sent, handled>>

\* fsw.tick(), which emits a frame: a send that raises gives the socket up.
TickSends ==
  /\ loop = "tick"
  /\ IF ws # 0 /\ clientEnd[ws] = "open"
       THEN KeepSocket /\ queued' = queued
       ELSE GiveUpSocket /\ Enqueue
  /\ AfterTick
  /\ UNCHANGED <<running, fswRunning, serverEnd, cut, flightClient, failures,
                 erased, sent, handled>>

\* fsw.tick() in a state that emits nothing, or that halts.
TickQuiet ==
  /\ loop = "tick"
  /\ fswRunning' \in {fswRunning, FALSE}
  /\ UNCHANGED <<running, ws, queued, sockets, flightClient, failures, history>>
  /\ AfterTick

LeaveDrain(ends) ==
  IF ends THEN loop' = "head" /\ left' = 0 ELSE loop' = loop /\ left' = left - 1

\* Mutant: a message is taken off once its handler has returned.
ReceiveAfterwards ==
  /\ loop = "drain" /\ down[ws] # <<>>
  /\ \E raises \in BOOLEAN :
       /\ raises => Head(down[ws]) # 0
       /\ down' = IF raises THEN down ELSE [down EXCEPT ![ws] = Tail(@)]
       /\ LeaveDrain(raises \/ left = 1)
  /\ handled' = IF Head(down[ws]) = 0 \/ Len(handled) > MaxPlans THEN handled
                ELSE Append(handled, Head(down[ws]))
  /\ UNCHANGED <<running, fswRunning, ws, queued, clientEnd, serverEnd, cut,
                 flightClient, failures, erased, sent, lost>>

\* Mutant: a drain that ends early discards what is left.
ReceiveDiscarding ==
  /\ loop = "drain" /\ down[ws] # <<>>
  /\ handled' = IF Head(down[ws]) = 0 THEN handled
                ELSE Append(handled, Head(down[ws]))
  /\ \E raises \in BOOLEAN :
       /\ raises => Head(down[ws]) # 0
       /\ down' = [down EXCEPT ![ws] = IF raises THEN <<>> ELSE Tail(@)]
       /\ LeaveDrain(raises \/ left = 1)
  /\ UNCHANGED <<running, fswRunning, ws, queued, clientEnd, serverEnd, cut,
                 flightClient, failures, erased, sent, lost>>

\* receive_one: a handler that raises ends the drain.
Receive ==
  /\ loop = "drain" /\ down[ws] # <<>>
  /\ down' = [down EXCEPT ![ws] = Tail(@)]
  /\ handled' = IF Head(down[ws]) = 0 THEN handled
                ELSE Append(handled, Head(down[ws]))
  /\ \E raises \in BOOLEAN :
       /\ raises => Head(down[ws]) # 0
       /\ LeaveDrain(raises \/ left = 1)
  /\ UNCHANGED <<running, fswRunning, ws, queued, clientEnd, serverEnd, cut,
                 flightClient, failures, erased, sent, lost>>

\* recv returns None: nothing has come yet, or the socket is closed, which
\* is not noticed here.
ReceiveNone ==
  /\ loop = "drain" /\ LeaveDrain(TRUE)
  /\ UNCHANGED <<running, fswRunning, ws, queued, sockets, flightClient,
                 failures, history>>

\* SIGINT or SIGTERM, wherever the process is.
Signal ==
  /\ loop # "done" /\ running
  /\ running' = FALSE /\ fswRunning' = FALSE
  /\ UNCHANGED <<loop, ws, queued, left, sockets, flightClient, failures,
                 history>>

\* The process, killed or ended, is started again.
FlightRestarts ==
  /\ Fail
  /\ GiveUpSocket
  /\ loop' = "start" /\ running' = TRUE /\ fswRunning' = FALSE /\ left' = 0
  /\ UNCHANGED <<queued, serverEnd, cut, flightClient, erased, sent,
                 handled>>

-----------------------------------------------------------------------------

Init ==
  /\ loop = "start" /\ running = TRUE /\ fswRunning = FALSE
  /\ ws = 0 /\ queued = 0 /\ left = 0
  /\ clientEnd = [c \in Conns |-> "none"] /\ serverEnd = clientEnd
  /\ cut = {} /\ down = [c \in Conns |-> <<>>]
  /\ flightClient = 0 /\ failures = 0
  /\ erased = FALSE /\ sent = 0 /\ handled = <<>> /\ lost = {}

LoopStep ==
  \/ Start \/ LoopEnds \/ NoConnect \/ Connect \/ ConnectTimesOut
  \/ Replay \/ TickSends \/ TickQuiet \/ Receive \/ ReceiveNone

Next ==
  \/ LoopStep \/ Signal \/ FlightRestarts
  \/ \E c \in Conns : CloseEvent(c) \/ Cut(c) \/ ClientEndDies(c)
  \/ SendPlan \/ SendAck \/ GatewayRestarts

\* The loop goes on; the gateway answers an attempt again and again, in no
\* state is the core quiet for ever, and a message that stays in a socket is
\* read; TCP gives a broken connection up in the end.
Fairness ==
  /\ WF_vars(LoopStep)
  /\ SF_vars(Connect) /\ SF_vars(TickSends) /\ SF_vars(Receive)
  /\ \A c \in Conns : WF_vars(ClientEndDies(c))

Spec == Init /\ [][Next]_vars /\ Fairness

-----------------------------------------------------------------------------
(* Properties *)

TypeOK ==
  /\ loop \in {"start", "head", "replay", "tick", "drain", "done"}
  /\ running \in BOOLEAN /\ fswRunning \in BOOLEAN
  /\ ws \in {0} \cup Accepted
  /\ queued \in 0 .. MaxDepth /\ left \in Nat
  /\ clientEnd \in [Conns -> ClientEnds] /\ serverEnd \in [Conns -> ServerEnds]
  /\ cut \subseteq Accepted
  /\ down \in [Conns -> Seq(Plans \cup {0})]
  /\ flightClient \in {0} \cup Accepted
  /\ failures \in 0 .. MaxFailures
  /\ erased \in BOOLEAN /\ sent \in 0 .. MaxPlans
  /\ handled \in Seq(Plans) /\ lost \subseteq Plans

\* The gateway answers on the newest connection or on none, and as long as
\* no close event came after the client it belongs to had been replaced,
\* that connection is the only one open.
ClientIsNewest ==
  /\ flightClient # 0 => \A c \in Accepted : c <= flightClient
  /\ ~erased => \A c \in Conns : serverEnd[c] = "open" => c = flightClient

\* Whatever connections the plans come on, flight takes them in the order
\* they were sent and none twice.
HandledInOrder ==
  \A i, j \in DOMAIN handled : i < j => handled[i] < handled[j]

\* A plan that the gateway sent is handled, or lost with its connection:
\* handlers that raise, drains cut short and full queues delay it only.
PlansArrive ==
  \A p \in Plans : sent = p ~> p \in lost \/ \E i \in DOMAIN handled : handled[i] = p

\* A signal ends the loop, also one that comes while start() is about to set
\* _running again, or while the link is dead; and nothing stays open.
StopHonoured == ~running ~> (running \/ (loop = "done" /\ ws = 0))

\* Once failures stop, the loop ends up on a connection that is whole, or
\* has ended: a dead socket is found out although recv hides it.
Linked ==
  /\ ws # 0 /\ clientEnd[ws] = "open" /\ serverEnd[ws] = "open" /\ ws \notin cut
LinkSettles == <>[](Linked \/ loop = "done")

-----------------------------------------------------------------------------
(* The inductive invariant *)

\* Flight holds the newest connection or none, no other has an open end
\* there, and nothing to read is left on others.
OneSocket ==
  /\ ws # 0 => \A c \in Accepted : c <= ws
  /\ \A c \in Conns \ {ws} : clientEnd[c] # "open" /\ down[c] = <<>>
  /\ \A c \in Accepted : clientEnd[c] # "none"
  /\ loop \in {"replay", "drain"} => ws # 0
  /\ loop = "drain" => left > 0

\* What waits on the connection has been sent, follows what was handled,
\* and is in order.
DownInOrder ==
  /\ \A i \in DOMAIN handled : handled[i] <= sent
  /\ \A c \in Conns : \A i \in DOMAIN down[c] :
       /\ down[c][i] <= sent
       /\ down[c][i] # 0 =>
            /\ \A k \in DOMAIN handled : handled[k] < down[c][i]
            /\ \A j \in DOMAIN down[c] : i < j /\ down[c][j] # 0 =>
                 down[c][i] < down[c][j]

IndInv ==
  /\ TypeOK /\ OneSocket
  /\ ClientIsNewest /\ HandledInOrder /\ DownInOrder

-----------------------------------------------------------------------------
(* Claims of the repository that the code does not keep *)

\* "Only allow one Flight client at a time".
OneFlightClient ==
  \A c, d \in Conns : serverEnd[c] = "open" /\ serverEnd[d] = "open" => c = d
=============================================================================
