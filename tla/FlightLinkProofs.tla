-------------------------- MODULE FlightLinkProofs --------------------------
(***************************************************************************)
(* What the link keeps for any number of failures, plans and messages: the *)
(* gateway answers on the newest connection only, which is the only open   *)
(* one unless a late close event cleared it, and flight handles plans in   *)
(* the order they were sent, none twice.                                   *)
(***************************************************************************)
EXTENDS FlightLink, TLAPS

LEMMA ConnsType == Conns \subseteq Nat \ {0} /\ 0 \notin Conns
  BY FlightLinkAssumption DEF Conns

(* Losing messages of a connection from some point on.                     *)
LEMMA DropKeeps ==
  ASSUME TypeOK, NEW c \in Conns, NEW n \in 0 .. Len(down[c]), Drop(c, n)
  PROVE  /\ down' \in [Conns -> Seq(Plans \cup {0})]
         /\ lost' \subseteq Plans
         /\ \A d \in Conns \ {c} : down'[d] = down[d]
         /\ down'[c] = SubSeq(down[c], 1, n)
         /\ DOMAIN down'[c] = 1 .. n
         /\ n = 0 => down'[c] = <<>>
         /\ \A i \in 1 .. n : i \in DOMAIN down[c] /\ down'[c][i] = down[c][i]
<1> DEFINE kept == SubSeq(down[c], 1, n)
           rest == SubSeq(down[c], n + 1, Len(down[c]))
<1>1. down[c] \in Seq(Plans \cup {0}) /\ n \in Nat
  BY DEF TypeOK
<1>2. /\ kept \in Seq(Plans \cup {0}) /\ Len(kept) = n /\ DOMAIN kept = 1 .. n
      /\ \A i \in 1 .. n : i \in DOMAIN down[c] /\ kept[i] = down[c][i]
  BY <1>1
<1>3. rest \in Seq(Plans \cup {0})
  BY <1>1
<1>4. \A i \in DOMAIN rest : rest[i] \in Plans \cup {0}
  BY <1>3
<1>5. down' = [down EXCEPT ![c] = kept] /\ lost' = lost \cup PlansOf(rest)
  BY DEF Drop
<1> HIDE DEF kept, rest
<1>6. lost' \subseteq Plans
  BY <1>4, <1>5 DEF TypeOK, PlansOf
<1>7. /\ down' \in [Conns -> Seq(Plans \cup {0})] /\ down'[c] = kept
      /\ \A d \in Conns \ {c} : down'[d] = down[d]
  BY <1>2, <1>5 DEF TypeOK
<1>8. n = 0 => kept = <<>>
  BY <1>1, <1>2
<1> QED
  BY <1>2, <1>6, <1>7, <1>8 DEF kept

(* After flight has given its socket up, nothing is open on its side.      *)
LEMMA GiveUpKeeps ==
  ASSUME TypeOK, OneSocket, GiveUpSocket
  PROVE  /\ ws' = 0
         /\ clientEnd' \in [Conns -> ClientEnds]
         /\ \A c \in Conns : clientEnd'[c] # "open" /\ down'[c] = <<>>
         /\ \A c \in Accepted : clientEnd'[c] # "none"
         /\ down' \in [Conns -> Seq(Plans \cup {0})]
         /\ lost' \subseteq Plans
<1>1. CASE ws = 0
  BY <1>1, ConnsType DEF GiveUpSocket, TypeOK, OneSocket
<1>2. CASE ws # 0
  <2>1. ws \in Conns /\ Drop(ws, 0) /\ clientEnd' = [clientEnd EXCEPT ![ws] = "dead"]
    BY <1>2 DEF GiveUpSocket, TypeOK, Accepted
  <2>2. 0 \in 0 .. Len(down[ws])
    BY <2>1 DEF TypeOK
  <2>3. /\ down' \in [Conns -> Seq(Plans \cup {0})] /\ lost' \subseteq Plans
        /\ \A d \in Conns \ {ws} : down'[d] = down[d]
        /\ down'[ws] = <<>>
    BY <2>1, <2>2, DropKeeps
  <2>4. clientEnd' \in [Conns -> ClientEnds]
    BY <2>1 DEF TypeOK, ClientEnds
  <2>5. \A c \in Conns : clientEnd'[c] # "open" /\ down'[c] = <<>>
    BY <2>1, <2>3 DEF TypeOK, OneSocket
  <2>6. \A c \in Accepted : clientEnd'[c] # "none"
    BY <2>1 DEF TypeOK, OneSocket, Accepted
  <2> QED
    BY <2>3, <2>4, <2>5, <2>6 DEF GiveUpSocket
<1> QED
  BY <1>1, <1>2

(* Nothing is sent or handled, and what waits is the same or less.         *)
LEMMA Shrinks ==
  ASSUME DownInOrder, handled' = handled, sent' = sent,
         \A c \in Conns : \A i \in DOMAIN down'[c] :
           i \in DOMAIN down[c] /\ down'[c][i] = down[c][i]
  PROVE  DownInOrder'
  BY DEF DownInOrder

LEMMA InitIndInv == Init => IndInv
<1> SUFFICES ASSUME Init
             PROVE  IndInv
  OBVIOUS
<1>1. \A c \in Conns : clientEnd[c] = "none" /\ serverEnd[c] = "none" /\ down[c] = <<>>
  BY DEF Init
<1>2. TypeOK
  <2>1. down \in [Conns -> Seq(Plans \cup {0})] /\ handled \in Seq(Plans)
    BY DEF Init
  <2>2. loop = "start" /\ ws = 0 /\ queued = 0 /\ left = 0 /\ failures = 0
        /\ sent = 0 /\ flightClient = 0 /\ cut = {} /\ lost = {}
    BY DEF Init
  <2>3. running \in BOOLEAN /\ fswRunning \in BOOLEAN /\ erased \in BOOLEAN
    BY DEF Init
  <2>4. clientEnd \in [Conns -> ClientEnds] /\ serverEnd \in [Conns -> ServerEnds]
    BY DEF Init, ClientEnds, ServerEnds
  <2> QED
    BY <2>1, <2>2, <2>3, <2>4, FlightLinkAssumption DEF TypeOK
<1>3. OneSocket
  <2>1. Accepted = {}
    BY <1>1 DEF Accepted
  <2>2. ws = 0 /\ loop = "start" /\ queued = 0 /\ flightClient = 0
    BY DEF Init
  <2> QED
    BY <1>1, <2>1, <2>2 DEF OneSocket
<1>4. ClientIsNewest
  BY <1>1 DEF ClientIsNewest, Init
<1>5. HandledInOrder /\ DownInOrder
  BY <1>1 DEF HandledInOrder, DownInOrder, Init
<1> QED
  BY <1>2, <1>3, <1>4, <1>5 DEF IndInv

(* The sockets, the gateway and the history stay as they are.              *)
LEMMA LoopOnly ==
  ASSUME IndInv,
         UNCHANGED <<sockets, flightClient, failures, history>>,
         \/ Start \/ NoConnect \/ TickQuiet \/ ReceiveNone \/ Signal
         \/ UNCHANGED vars
  PROVE  IndInv'
<1>0. TypeOK /\ OneSocket
  BY DEF IndInv
<1>1. ws' = ws /\ queued' = queued
  BY DEF Start, NoConnect, TickQuiet, ReceiveNone, Signal, vars, process
<1>2. /\ loop' \in {"start", "head", "replay", "tick", "drain", "done"}
      /\ left' \in Nat
      /\ loop' \in {"replay", "drain"} => ws' # 0
      /\ loop' = "drain" => left' > 0
  <2>1. CASE Start
    BY <1>0, <2>1 DEF Start, TypeOK
  <2>2. CASE NoConnect
    BY <1>0, <2>2 DEF NoConnect, TypeOK
  <2>3. CASE TickQuiet
    <3>1. MaxReceives > 0 /\ MaxReceives \in Nat
      BY FlightLinkAssumption
    <3> QED
      BY <3>1, <2>3 DEF TickQuiet, AfterTick
  <2>4. CASE ReceiveNone
    BY <2>4 DEF ReceiveNone, LeaveDrain
  <2>5. CASE Signal \/ UNCHANGED vars
    BY <1>0, <2>5 DEF Signal, vars, process, TypeOK, OneSocket
  <2> QED
    BY <2>1, <2>2, <2>3, <2>4, <2>5
<1>3. running' \in BOOLEAN /\ fswRunning' \in BOOLEAN
  <2>1. CASE Start
    BY <1>0, <2>1 DEF Start, TypeOK
  <2>2. CASE NoConnect \/ ReceiveNone \/ UNCHANGED vars
    BY <1>0, <2>2 DEF NoConnect, ReceiveNone, vars, process, TypeOK
  <2>3. CASE TickQuiet
    BY <1>0, <2>3 DEF TickQuiet, TypeOK
  <2>4. CASE Signal
    BY <2>4 DEF Signal
  <2> QED
    BY <2>1, <2>2, <2>3, <2>4 DEF TickQuiet, Signal
<1>4. /\ clientEnd' = clientEnd /\ serverEnd' = serverEnd /\ cut' = cut
      /\ down' = down /\ flightClient' = flightClient /\ failures' = failures
      /\ erased' = erased /\ sent' = sent /\ handled' = handled /\ lost' = lost
  BY DEF sockets, history
<1>5. TypeOK'
  BY <1>0, <1>1, <1>2, <1>3, <1>4 DEF TypeOK, Accepted
<1>6. OneSocket'
  BY <1>0, <1>1, <1>2, <1>4 DEF OneSocket, Accepted
<1>7. ClientIsNewest' /\ HandledInOrder' /\ DownInOrder'
  BY <1>4 DEF IndInv, ClientIsNewest, HandledInOrder, DownInOrder, Accepted
<1> QED
  BY <1>5, <1>6, <1>7 DEF IndInv

(* Flight may give its socket up; the gateway notices nothing of it.       *)
LEMMA SocketSteps ==
  ASSUME IndInv, LoopEnds \/ Replay \/ TickSends \/ FlightRestarts
  PROVE  IndInv'
<1>0. TypeOK /\ OneSocket /\ DownInOrder
  BY DEF IndInv
<1>1. /\ GiveUpSocket \/ KeepSocket
      /\ serverEnd' = serverEnd /\ cut' = cut /\ flightClient' = flightClient
      /\ erased' = erased /\ sent' = sent /\ handled' = handled
  BY DEF LoopEnds, Replay, TickSends, FlightRestarts
<1>2. /\ ws' \in {0, ws}
      /\ clientEnd' \in [Conns -> ClientEnds] /\ lost' \subseteq Plans
      /\ down' \in [Conns -> Seq(Plans \cup {0})]
      /\ \A c \in Conns \ {ws'} : clientEnd'[c] # "open" /\ down'[c] = <<>>
      /\ \A c \in Conns : down'[c] \in {<<>>, down[c]}
      /\ \A c \in Accepted : clientEnd'[c] # "none"
  <2>1. CASE GiveUpSocket
    BY <1>0, <2>1, GiveUpKeeps
  <2>2. CASE KeepSocket
    BY <1>0, <2>2 DEF KeepSocket, TypeOK, OneSocket
  <2> QED
    BY <1>1, <2>1, <2>2
<1>3. /\ loop' \in {"start", "head", "replay", "tick", "drain", "done"}
      /\ left' \in Nat
      /\ loop' \in {"replay", "drain"} => ws' # 0
      /\ loop' = "drain" => left' > 0
  <2>1. CASE LoopEnds
    BY <1>0, <2>1 DEF LoopEnds, TypeOK
  <2>2. CASE Replay
    BY <1>0, <2>2 DEF Replay, TypeOK, OneSocket, KeepSocket
  <2>3. CASE TickSends
    BY <1>0, <2>3, FlightLinkAssumption DEF TickSends, AfterTick, TypeOK
  <2>4. CASE FlightRestarts
    BY <2>4 DEF FlightRestarts
  <2> QED
    BY <2>1, <2>2, <2>3, <2>4
<1>4. queued' \in 0 .. MaxDepth
  BY <1>0, FlightLinkAssumption
     DEF LoopEnds, Replay, TickSends, FlightRestarts, Enqueue, TypeOK
<1>5. failures' \in 0 .. MaxFailures
  BY <1>0, FlightLinkAssumption
     DEF LoopEnds, Replay, TickSends, FlightRestarts, Fail, TypeOK
<1>6. running' \in BOOLEAN /\ fswRunning' \in BOOLEAN
  <2>1. CASE FlightRestarts
    BY <2>1 DEF FlightRestarts
  <2>2. CASE LoopEnds \/ Replay \/ TickSends
    BY <1>0, <2>2 DEF LoopEnds, Replay, TickSends, TypeOK
  <2> QED
    BY <2>1, <2>2
<1>7. TypeOK'
  BY <1>0, <1>1, <1>2, <1>3, <1>4, <1>5, <1>6 DEF TypeOK, Accepted
<1>8. OneSocket'
  BY <1>0, <1>1, <1>2, <1>3 DEF OneSocket, Accepted
<1>9. \A c \in Conns : \A i \in DOMAIN down'[c] :
        i \in DOMAIN down[c] /\ down'[c][i] = down[c][i]
  <2>1. ASSUME NEW c \in Conns, NEW i \in DOMAIN down'[c]
        PROVE  i \in DOMAIN down[c] /\ down'[c][i] = down[c][i]
    <3>1. down'[c] # <<>>
      BY <1>2, <2>1
    <3> QED
      BY <1>2, <2>1, <3>1
  <2> QED
    BY <2>1
<1>10. DownInOrder'
  BY <1>0, <1>1, <1>9, Shrinks
<1>11. ClientIsNewest' /\ HandledInOrder'
  BY <1>1 DEF IndInv, ClientIsNewest, HandledInOrder, Accepted
<1> QED
  BY <1>7, <1>8, <1>10, <1>11 DEF IndInv

(* A path breaks, or flight's library learns of it.                        *)
LEMMA SocketFails ==
  ASSUME IndInv, NEW c \in Conns, Cut(c) \/ ClientEndDies(c)
  PROVE  IndInv'
<1>0. TypeOK /\ OneSocket /\ DownInOrder
  BY DEF IndInv
<1>1. /\ serverEnd' = serverEnd /\ flightClient' = flightClient /\ erased' = erased
      /\ sent' = sent /\ handled' = handled
      /\ UNCHANGED process
      /\ clientEnd[c] = "open"
  BY DEF Cut, ClientEndDies
<1>2. PICK n \in 0 .. Len(down[c]) : Drop(c, n)
  BY DEF Cut, ClientEndDies
<1>3. /\ down' \in [Conns -> Seq(Plans \cup {0})] /\ lost' \subseteq Plans
      /\ \A d \in Conns \ {c} : down'[d] = down[d]
      /\ DOMAIN down'[c] = 1 .. n
      /\ \A i \in 1 .. n : i \in DOMAIN down[c] /\ down'[c][i] = down[c][i]
  BY <1>0, <1>2, DropKeeps
<1>4. c = ws
  BY <1>0, <1>1 DEF OneSocket
<1>5. /\ clientEnd' \in [Conns -> ClientEnds]
      /\ \A d \in Conns \ {c} : clientEnd'[d] = clientEnd[d]
      /\ clientEnd'[c] # "none"
  BY <1>0 DEF Cut, ClientEndDies, TypeOK, ClientEnds
<1>6. cut' \subseteq Accepted /\ failures' \in 0 .. MaxFailures
  <2>1. CASE Cut(c)
    BY <1>0, <2>1, FlightLinkAssumption DEF Cut, Fail, TypeOK, Accepted
  <2>2. CASE ClientEndDies(c)
    BY <1>0, <2>2 DEF ClientEndDies, TypeOK
  <2> QED
    BY <2>1, <2>2
<1>7. TypeOK'
  BY <1>0, <1>1, <1>3, <1>5, <1>6 DEF TypeOK, process, Accepted
<1>8. OneSocket'
  BY <1>0, <1>1, <1>3, <1>4, <1>5 DEF OneSocket, process, Accepted
<1>9. DownInOrder'
  BY <1>0, <1>1, <1>3, Shrinks
<1>10. ClientIsNewest' /\ HandledInOrder'
  BY <1>1 DEF IndInv, ClientIsNewest, HandledInOrder, Accepted
<1> QED
  BY <1>7, <1>8, <1>9, <1>10 DEF IndInv

(* The gateway closes a connection, or is started again.                   *)
LEMMA GatewayCloses ==
  ASSUME IndInv, GatewayRestarts \/ \E c \in Conns : CloseEvent(c)
  PROVE  IndInv'
<1>0. TypeOK /\ OneSocket /\ ClientIsNewest
  BY DEF IndInv
<1>1. /\ UNCHANGED <<process, clientEnd, cut, down, sent, handled, lost>>
      /\ flightClient' = 0
  BY DEF GatewayRestarts, CloseEvent
<1>2. /\ serverEnd' \in [Conns -> ServerEnds] /\ failures' \in 0 .. MaxFailures
      /\ erased' \in BOOLEAN /\ Accepted' = Accepted
      /\ ~erased' => \A d \in Conns : serverEnd'[d] # "open"
  <2>1. CASE GatewayRestarts
    <3>1. serverEnd' = [c \in Conns |->
                          IF serverEnd[c] = "none" THEN "none" ELSE "closed"]
      BY <2>1 DEF GatewayRestarts
    <3>2. failures' \in 0 .. MaxFailures
      BY <1>0, <2>1, FlightLinkAssumption DEF GatewayRestarts, Fail, TypeOK
    <3>3. erased' = FALSE
      BY <2>1 DEF GatewayRestarts
    <3> QED
      BY <3>1, <3>2, <3>3 DEF ServerEnds, Accepted
  <2>2. ASSUME NEW c \in Conns, CloseEvent(c)
        PROVE  /\ serverEnd' \in [Conns -> ServerEnds]
               /\ failures' \in 0 .. MaxFailures
               /\ erased' \in BOOLEAN /\ Accepted' = Accepted
               /\ ~erased' => \A d \in Conns : serverEnd'[d] # "open"
    <3>1. /\ serverEnd' = [serverEnd EXCEPT ![c] = "closed"] /\ failures' = failures
          /\ serverEnd[c] \in {"closing", "open"}
      BY <2>2 DEF CloseEvent
    <3>2. erased' = (erased \/ flightClient \notin {0, c})
      BY <2>2 DEF CloseEvent
    <3>3. erased' \in BOOLEAN
      BY <1>0, <3>2 DEF TypeOK
    <3>4. serverEnd' \in [Conns -> ServerEnds] /\ Accepted' = Accepted
      BY <1>0, <3>1 DEF TypeOK, ServerEnds, Accepted
    <3>5. ~erased' => \A d \in Conns : serverEnd'[d] # "open"
      BY <1>0, <3>1, <3>2, ConnsType DEF TypeOK, ClientIsNewest
    <3> QED
      BY <1>0, <3>1, <3>3, <3>4, <3>5 DEF TypeOK
  <2> QED
    BY <2>1, <2>2
<1>3. TypeOK'
  BY <1>0, <1>1, <1>2 DEF TypeOK, process
<1>4. OneSocket'
  BY <1>0, <1>1, <1>2 DEF OneSocket, process
<1>5. ClientIsNewest'
  BY <1>1, <1>2 DEF ClientIsNewest
<1>6. HandledInOrder' /\ DownInOrder'
  BY <1>1 DEF IndInv, HandledInOrder, DownInOrder
<1> QED
  BY <1>3, <1>4, <1>5, <1>6 DEF IndInv

(* A new connection, of which flight may know or not.                      *)
LEMMA Connects ==
  ASSUME IndInv, Connect \/ ConnectTimesOut
  PROVE  IndInv'
<1>0. TypeOK /\ OneSocket /\ ClientIsNewest
  BY DEF IndInv
<1>1. PICK c \in Conns : /\ Accept(c)
                         /\ \/ ws' = c /\ clientEnd' = [clientEnd EXCEPT ![c] = "open"]
                            \/ ws' = 0 /\ clientEnd' = [clientEnd EXCEPT ![c] = "dead"]
  BY DEF Connect, ConnectTimesOut
<1>2. /\ UNCHANGED <<running, fswRunning, queued, cut, down, history>>
      /\ ws = 0
  BY DEF Connect, ConnectTimesOut
<1>3. /\ loop' \in {"replay", "tick"} /\ left' \in Nat
      /\ loop' = "replay" => ws' # 0
      /\ failures' \in 0 .. MaxFailures
  <2>1. CASE Connect
    BY <1>0, <2>1, ConnsType DEF Connect, TypeOK
  <2>2. CASE ConnectTimesOut
    BY <1>0, <2>2, FlightLinkAssumption DEF ConnectTimesOut, Fail, TypeOK
  <2> QED
    BY <2>1, <2>2
<1>4. /\ Accepted = 1 .. (c - 1) /\ flightClient' = c
      /\ serverEnd' = [d \in Conns |->
           IF d = c THEN "open"
           ELSE IF d = flightClient /\ serverEnd[d] = "open" THEN "closing"
           ELSE serverEnd[d]]
  BY <1>1 DEF Accept
<1>5. /\ serverEnd' \in [Conns -> ServerEnds] /\ Accepted' = Accepted \cup {c}
      /\ c \in Nat \ {0}
  BY <1>0, <1>4, ConnsType DEF TypeOK, ServerEnds, Accepted
<1>6. \A d \in Accepted' : d <= c
  BY <1>4, <1>5
<1>7. /\ clientEnd' \in [Conns -> ClientEnds]
      /\ \A d \in Conns \ {c} : clientEnd'[d] = clientEnd[d]
      /\ ws' = 0 => clientEnd'[c] = "dead"
      /\ clientEnd'[c] # "none"
  BY <1>0, <1>1, <1>5 DEF TypeOK, ClientEnds
<1>8. TypeOK'
  <2>1. ws' \in {0} \cup Accepted'
    BY <1>1, <1>5
  <2>2. cut' \subseteq Accepted' /\ flightClient' \in {0} \cup Accepted'
    BY <1>0, <1>2, <1>4, <1>5 DEF TypeOK
  <2> QED
    BY <1>0, <1>2, <1>3, <1>5, <1>7, <2>1, <2>2 DEF TypeOK, history
<1>9. OneSocket'
  <2>1. ws' # 0 => \A d \in Accepted' : d <= ws'
    BY <1>1, <1>6
  <2>2. \A d \in Conns \ {ws'} : clientEnd'[d] # "open" /\ down'[d] = <<>>
    BY <1>0, <1>1, <1>2, <1>7, ConnsType DEF OneSocket
  <2>3. \A d \in Accepted' : clientEnd'[d] # "none"
    BY <1>0, <1>5, <1>7 DEF OneSocket, Accepted
  <2> QED
    BY <1>3, <2>1, <2>2, <2>3 DEF OneSocket
<1>10. ClientIsNewest'
  BY <1>0, <1>2, <1>4, <1>6 DEF ClientIsNewest, history
<1>11. HandledInOrder' /\ DownInOrder'
  BY <1>2 DEF IndInv, HandledInOrder, DownInOrder, history
<1> QED
  BY <1>8, <1>9, <1>10, <1>11 DEF IndInv

(* A message goes to the connection that flight holds, or nowhere.         *)
LEMMA Sends ==
  ASSUME IndInv, SendPlan \/ SendAck
  PROVE  IndInv'
<1>0. TypeOK /\ OneSocket /\ DownInOrder
  BY DEF IndInv
<1>1. PICK m \in Plans \cup {0} :
        /\ GatewaySends(m)
        /\ sent' = IF m = 0 THEN sent ELSE m
        /\ m # 0 => m = sent + 1
  <2>1. CASE SendPlan
    BY <1>0, <2>1, FlightLinkAssumption DEF SendPlan, Plans, TypeOK
  <2>2. CASE SendAck
    BY <2>2 DEF SendAck
  <2> QED
    BY <2>1, <2>2
<1> DEFINE c == flightClient
<1>2. /\ UNCHANGED <<process, clientEnd, serverEnd, cut, flightClient, failures,
                      erased, handled>>
      /\ c \in Conns
      /\ \/ down' = down /\ lost' = lost \cup ({m} \ {0})
         \/ /\ clientEnd[c] # "dead" /\ c \notin cut /\ lost' = lost
            /\ down' = [down EXCEPT ![c] = Append(@, m)]
  BY <1>0, <1>1 DEF GatewaySends, IsFlightConnected, TypeOK, Accepted
<1>3. sent' \in 0 .. MaxPlans /\ sent <= sent' /\ m <= sent' /\ sent \in Nat
  BY <1>0, <1>1, FlightLinkAssumption DEF TypeOK, Plans
<1>4. lost' \subseteq Plans
  BY <1>0, <1>1, <1>2 DEF TypeOK
<1>5. CASE down' = down
  <2>1. TypeOK'
    BY <1>0, <1>2, <1>3, <1>4, <1>5 DEF TypeOK, process, Accepted
  <2>2. OneSocket'
    BY <1>0, <1>2, <1>5 DEF OneSocket, process, Accepted
  <2>3. \A i \in DOMAIN handled : handled[i] \in Nat
    <3>1. handled \in Seq(Plans)
      BY <1>0 DEF TypeOK
    <3>2. \A i \in DOMAIN handled : handled[i] \in Plans
      BY <3>1
    <3> QED
      BY <3>2 DEF Plans
  <2>4. \A d \in Conns : \A i \in DOMAIN down[d] : down[d][i] \in Nat
    BY <1>0 DEF TypeOK, Plans
  <2>5. DownInOrder'
    BY <1>0, <1>2, <1>3, <1>5, <2>3, <2>4 DEF DownInOrder
  <2>6. ClientIsNewest' /\ HandledInOrder'
    BY <1>2 DEF IndInv, ClientIsNewest, HandledInOrder, Accepted
  <2> QED
    BY <2>1, <2>2, <2>5, <2>6 DEF IndInv
<1>6. CASE /\ clientEnd[c] # "dead" /\ down' = [down EXCEPT ![c] = Append(@, m)]
  <2>1. down[c] \in Seq(Plans \cup {0}) /\ Len(down[c]) \in Nat
    BY <1>0, <1>2 DEF TypeOK
  <2>2. /\ down' \in [Conns -> Seq(Plans \cup {0})]
        /\ \A d \in Conns \ {c} : down'[d] = down[d]
        /\ DOMAIN down'[c] = DOMAIN down[c] \cup {Len(down[c]) + 1}
        /\ DOMAIN down[c] = 1 .. Len(down[c])
        /\ \A i \in DOMAIN down[c] : down'[c][i] = down[c][i]
        /\ down'[c][Len(down[c]) + 1] = m
    BY <1>0, <1>1, <1>2, <1>6, <2>1 DEF TypeOK
  <2>3. TypeOK'
    BY <1>0, <1>2, <1>3, <1>4, <2>2 DEF TypeOK, process, Accepted
  <2>4. c = ws
    BY <1>0, <1>1, <1>2, <1>6 DEF OneSocket, GatewaySends, IsFlightConnected,
                                  TypeOK, Accepted, ClientEnds
  <2>5. OneSocket'
    BY <1>0, <1>2, <2>2, <2>4 DEF OneSocket, process, Accepted
  <2>6. /\ \A i \in DOMAIN handled : handled[i] \in Nat
        /\ \A d \in Conns : \A i \in DOMAIN down[d] : down[d][i] \in Nat
    <3>1. handled \in Seq(Plans)
      BY <1>0 DEF TypeOK
    <3>2. \A i \in DOMAIN handled : handled[i] \in Plans
      BY <3>1
    <3>3. \A d \in Conns : down[d] \in Seq(Plans \cup {0})
      BY <1>0 DEF TypeOK
    <3>4. \A d \in Conns : \A i \in DOMAIN down[d] : down[d][i] \in Plans \cup {0}
      BY <3>3
    <3> QED
      BY <3>2, <3>4 DEF Plans
  <2>7. DownInOrder'
    <3>1. \A i \in DOMAIN handled' : handled'[i] <= sent'
      BY <1>0, <1>2, <1>3, <2>6 DEF DownInOrder
    <3>2. \A d \in Conns : \A i \in DOMAIN down[d] : down[d][i] <= sent
      BY <1>0 DEF DownInOrder
    <3>3. ASSUME NEW d \in Conns, NEW i \in DOMAIN down'[d]
          PROVE  /\ down'[d][i] <= sent'
                 /\ down'[d][i] # 0 =>
                      /\ \A k \in DOMAIN handled : handled[k] < down'[d][i]
                      /\ \A j \in DOMAIN down'[d] : i < j /\ down'[d][j] # 0 =>
                           down'[d][i] < down'[d][j]
      <4>1. CASE d # c
        BY <1>0, <1>3, <2>2, <2>6, <3>2, <3>3, <4>1 DEF DownInOrder
      <4>2. CASE d = c /\ i \in DOMAIN down[c]
        <5>1. down'[c][i] = down[c][i] /\ down[c][i] <= sent /\ down[c][i] \in Nat
          BY <1>2, <2>2, <2>6, <3>2, <4>2
        <5>2. \A j \in DOMAIN down'[c] : i < j /\ down'[c][j] # 0 /\ down[c][i] # 0 =>
                down[c][i] < down'[c][j]
          <6>1. ASSUME NEW j \in DOMAIN down'[c], i < j, down'[c][j] # 0, down[c][i] # 0
                PROVE  down[c][i] < down'[c][j]
            <7>1. CASE j \in DOMAIN down[c]
              BY <1>0, <1>2, <2>2, <4>2, <6>1, <7>1 DEF DownInOrder
            <7>2. CASE j = Len(down[c]) + 1
              BY <1>1, <1>3, <2>2, <5>1, <6>1, <7>2
            <7> QED
              BY <2>2, <6>1, <7>1, <7>2
          <6> QED
            BY <6>1
        <5>3. down[c][i] # 0 => \A k \in DOMAIN handled : handled[k] < down[c][i]
          BY <1>0, <1>2, <4>2 DEF DownInOrder
        <5> QED
          BY <1>3, <4>2, <5>1, <5>2, <5>3
      <4>3. CASE d = c /\ i = Len(down[c]) + 1
        <5>1. down'[d][i] = m
          BY <2>2, <4>3
        <5>2. \A j \in DOMAIN down'[d] : ~(i < j)
          BY <2>1, <2>2, <4>3
        <5>3. m # 0 => \A k \in DOMAIN handled : handled[k] < m
          BY <1>0, <1>1, <1>3, <2>6 DEF DownInOrder
        <5> QED
          BY <1>3, <5>1, <5>2, <5>3
      <4> QED
        BY <2>2, <3>3, <4>1, <4>2, <4>3
    <3> QED
      BY <1>2, <3>1, <3>3 DEF DownInOrder
  <2>8. ClientIsNewest' /\ HandledInOrder'
    BY <1>2 DEF IndInv, ClientIsNewest, HandledInOrder, Accepted
  <2> QED
    BY <2>3, <2>5, <2>7, <2>8 DEF IndInv
<1> QED
  BY <1>2, <1>5, <1>6

(* A message is read, and its handler called if it is a plan.              *)
LEMMA Receives ==
  ASSUME IndInv, Receive
  PROVE  IndInv'
<1>0. TypeOK /\ OneSocket /\ DownInOrder /\ HandledInOrder
  BY DEF IndInv
<1> DEFINE m == Head(down[ws])
<1>1. /\ UNCHANGED <<running, fswRunning, ws, queued, clientEnd, serverEnd, cut,
                     flightClient, failures, erased, sent, lost>>
      /\ down' = [down EXCEPT ![ws] = Tail(@)]
      /\ handled' = IF m = 0 THEN handled ELSE Append(handled, m)
      /\ loop = "drain" /\ down[ws] # <<>>
  BY DEF Receive
<1>2. ws \in Conns /\ left \in Nat \ {0}
  BY <1>0, <1>1 DEF TypeOK, OneSocket, Accepted
<1>3. /\ loop' \in {"head", "drain"} /\ left' \in Nat
      /\ loop' = "drain" => left' > 0
  BY <1>1, <1>2 DEF Receive, LeaveDrain
<1>4. down[ws] \in Seq(Plans \cup {0})
  BY <1>0, <1>2 DEF TypeOK
<1>5. /\ Len(down[ws]) \in Nat \ {0} /\ DOMAIN down[ws] = 1 .. Len(down[ws])
      /\ m = down[ws][1] /\ m \in Plans \cup {0} /\ 1 \in DOMAIN down[ws]
      /\ Tail(down[ws]) \in Seq(Plans \cup {0})
      /\ DOMAIN Tail(down[ws]) = 1 .. (Len(down[ws]) - 1)
      /\ \A i \in DOMAIN Tail(down[ws]) :
           i + 1 \in DOMAIN down[ws] /\ Tail(down[ws])[i] = down[ws][i + 1]
  BY <1>1, <1>4
<1> HIDE DEF m
<1>6. /\ down' \in [Conns -> Seq(Plans \cup {0})]
      /\ \A d \in Conns \ {ws} : down'[d] = down[d]
      /\ DOMAIN down'[ws] = 1 .. (Len(down[ws]) - 1)
      /\ \A i \in DOMAIN down'[ws] : /\ i + 1 \in DOMAIN down[ws] /\ i \in Nat
                                      /\ down'[ws][i] = down[ws][i + 1]
  BY <1>0, <1>1, <1>2, <1>5 DEF TypeOK
<1>7. \A d \in Conns : \A i \in DOMAIN down[d] : down[d][i] \in Nat
  <2>1. \A d \in Conns : down[d] \in Seq(Plans \cup {0})
    BY <1>0 DEF TypeOK
  <2>2. \A d \in Conns : \A i \in DOMAIN down[d] : down[d][i] \in Plans \cup {0}
    BY <2>1
  <2> QED
    BY <2>2 DEF Plans
<1>8. handled \in Seq(Plans) /\ Len(handled) \in Nat
      /\ DOMAIN handled = 1 .. Len(handled)
      /\ \A k \in DOMAIN handled : handled[k] \in Nat
  <2>1. handled \in Seq(Plans)
    BY <1>0 DEF TypeOK
  <2>2. \A k \in DOMAIN handled : handled[k] \in Plans
    BY <2>1
  <2> QED
    BY <2>1, <2>2 DEF Plans
<1>9. /\ handled' \in Seq(Plans)
      /\ \A k \in DOMAIN handled' :
           \/ k \in DOMAIN handled /\ handled'[k] = handled[k]
           \/ k = Len(handled) + 1 /\ m # 0 /\ handled'[k] = m
  <2>1. CASE m = 0
    BY <1>1, <1>8, <2>1
  <2>2. CASE m # 0
    BY <1>1, <1>5, <1>8, <2>2
  <2> QED
    BY <2>1, <2>2
<1>10. TypeOK'
  BY <1>0, <1>1, <1>3, <1>6, <1>9 DEF TypeOK, Accepted
<1>11. OneSocket'
  <2>1. \A c \in Conns \ {ws} : down'[c] = <<>>
    BY <1>0, <1>6 DEF OneSocket
  <2> QED
    BY <1>0, <1>1, <1>3, <2>1, ConnsType, <1>2 DEF OneSocket, Accepted
<1>12. ClientIsNewest'
  BY <1>1 DEF IndInv, ClientIsNewest, Accepted
<1>13. m # 0 => m <= sent /\ \A k \in DOMAIN handled : handled[k] < m
  BY <1>0, <1>2, <1>5 DEF DownInOrder
<1>14. HandledInOrder'
  <2>1. ASSUME NEW i \in DOMAIN handled', NEW j \in DOMAIN handled', i < j
        PROVE  handled'[i] < handled'[j]
    <3>1. i \in DOMAIN handled /\ handled'[i] = handled[i]
      <4>1. j <= Len(handled) + 1 /\ j \in Nat
        BY <1>8, <1>9, <2>1
      <4>2. i \in Nat
        BY <1>8, <1>9, <2>1
      <4> QED
        BY <1>8, <1>9, <2>1, <4>1, <4>2
    <3> QED
      BY <1>0, <1>9, <1>13, <2>1, <3>1 DEF HandledInOrder
  <2> QED
    BY <2>1 DEF HandledInOrder
<1>15. DownInOrder'
  <2>1. \A k \in DOMAIN handled' : handled'[k] <= sent'
    BY <1>0, <1>1, <1>9, <1>13 DEF DownInOrder
  <2>2. ASSUME NEW d \in Conns, NEW i \in DOMAIN down'[d]
        PROVE  /\ down'[d][i] <= sent'
               /\ down'[d][i] # 0 =>
                    /\ \A k \in DOMAIN handled' : handled'[k] < down'[d][i]
                    /\ \A j \in DOMAIN down'[d] : i < j /\ down'[d][j] # 0 =>
                         down'[d][i] < down'[d][j]
    <3>1. CASE d # ws
      <4>1. down'[d] = <<>>
        BY <1>0, <1>6, <3>1 DEF OneSocket
      <4> QED
        BY <2>2, <4>1
    <3>2. CASE d = ws
      <4>1. i + 1 \in DOMAIN down[ws] /\ i \in Nat /\ down'[ws][i] = down[ws][i + 1]
            /\ 1 < i + 1
        BY <1>6, <2>2, <3>2
      <4>2. down[ws][i + 1] <= sent
        BY <1>0, <1>2, <4>1 DEF DownInOrder
      <4>3. down[ws][i + 1] # 0 /\ m # 0 => m < down[ws][i + 1]
        BY <1>0, <1>2, <1>5, <4>1 DEF DownInOrder
      <4>4. down[ws][i + 1] # 0 => \A k \in DOMAIN handled : handled[k] < down[ws][i + 1]
        BY <1>0, <1>2, <4>1 DEF DownInOrder
      <4>5. ASSUME NEW j \in DOMAIN down'[ws], i < j, down'[ws][j] # 0, down'[ws][i] # 0
            PROVE  down'[ws][i] < down'[ws][j]
        <5>1. j + 1 \in DOMAIN down[ws] /\ down'[ws][j] = down[ws][j + 1] /\ i + 1 < j + 1
          BY <1>6, <4>1, <4>5
        <5> QED
          BY <1>0, <1>2, <4>1, <4>5, <5>1 DEF DownInOrder
      <4>6. down'[ws][i] # 0 => \A k \in DOMAIN handled' : handled'[k] < down'[ws][i]
        BY <1>9, <4>1, <4>3, <4>4
      <4> QED
        BY <1>1, <3>2, <4>1, <4>2, <4>5, <4>6
    <3> QED
      BY <3>1, <3>2
  <2> QED
    BY <2>1, <2>2 DEF DownInOrder
<1> QED
  BY <1>10, <1>11, <1>12, <1>14, <1>15 DEF IndInv

LEMMA NextIndInv ==
  ASSUME IndInv, [Next]_vars
  PROVE  IndInv'
<1>1. CASE \/ Start \/ NoConnect \/ TickQuiet \/ ReceiveNone \/ Signal
           \/ UNCHANGED vars
  <2>1. UNCHANGED <<sockets, flightClient, failures, history>>
    BY <1>1 DEF Start, NoConnect, TickQuiet, ReceiveNone, Signal, vars
  <2> QED
    BY <1>1, <2>1, LoopOnly
<1>2. CASE LoopEnds \/ Replay \/ TickSends \/ FlightRestarts
  BY <1>2, SocketSteps
<1>3. CASE Connect \/ ConnectTimesOut
  BY <1>3, Connects
<1>4. CASE Receive
  BY <1>4, Receives
<1>5. CASE \E c \in Conns : Cut(c) \/ ClientEndDies(c)
  BY <1>5, SocketFails
<1>6. CASE GatewayRestarts \/ \E c \in Conns : CloseEvent(c)
  BY <1>6, GatewayCloses
<1>7. CASE SendPlan \/ SendAck
  BY <1>7, Sends
<1> QED
  BY <1>1, <1>2, <1>3, <1>4, <1>5, <1>6, <1>7 DEF Next, LoopStep

THEOREM LinkInvariance == Spec => []IndInv
<1>1. IndInv /\ [Next]_vars => IndInv'
  BY NextIndInv
<1> QED
  BY InitIndInv, <1>1, PTL DEF Spec

(* Both ends agree on the types of what they share, over any failures.     *)
THEOREM LinkTypeCorrect == Spec => []TypeOK
<1>1. IndInv => TypeOK
  BY DEF IndInv
<1> QED
  BY LinkInvariance, <1>1, PTL

(* _handleFlightConnection keeps one client, the newest, and only a close  *)
(* event that comes after a newer client was accepted undoes it.           *)
THEOREM NewestClientOnly == Spec => []ClientIsNewest
<1>1. IndInv => ClientIsNewest
  BY DEF IndInv
<1> QED
  BY LinkInvariance, <1>1, PTL

(* However connections break and are replaced, drain_receives calls the    *)
(* plan handler in the order of the uploads, once for each at most.        *)
THEOREM PlansInOrder == Spec => []HandledInOrder
<1>1. IndInv => HandledInOrder
  BY DEF IndInv
<1> QED
  BY LinkInvariance, <1>1, PTL
=============================================================================
