------------------------- MODULE CommandPlansProofs -------------------------
(***************************************************************************)
(* The rows of the ground never claim what did not happen, for every size  *)
(* of plan and every number of requests, replays, failures and handlers    *)
(* that interleave.  IndInv of CommandPlans carries it: it relates what a  *)
(* handler is about to write to what it has seen.                          *)
(***************************************************************************)
EXTENDS CommandPlans, TLAPS

(* What is true for a handler stays true for it while the history grows:   *)
(* the signature stays, uploads are counted up, and neither an execution   *)
(* nor a refusal is taken back.                                            *)
LEMMA HandlerKept ==
  ASSUME NEW h, HandlerTruthful(h),
         signature => signature',
         uploads \in Nat, uploads' \in Nat, uploads <= uploads',
         executed \subseteq executed', executed' \subseteq Commands,
         refused => refused'
  PROVE  HandlerTruthful(h)'
<1>1. h.kind = "upload" => (uploads > 0 => uploads' > 0)
  OBVIOUS
<1>2. executed = Commands => executed' = Commands
  OBVIOUS
<1> QED
  BY <1>1, <1>2 DEF HandlerTruthful

(* What an upload adds to the executed commands: those it reports, and at  *)
(* most one whose handler ran before the audit log raised.                 *)
LEMMA ExecutedByUpload ==
  ASSUME NEW k \in 0 .. N, FlightExecutes(k)
  PROVE  \E ran \in SUBSET Commands : executed' = executed \cup 1 .. k \cup ran
<1>1. PICK ran \in (IF k < N /\ Head(uplink) = "given"
                    THEN RanThoughFailed(k + 1) ELSE {{}}) :
        executed' = executed \cup 1 .. k \cup ran
  BY DEF FlightExecutes
<1>2. k < N => k + 1 \in Commands
  BY CommandPlansAssumption DEF Commands
<1>3. ran \subseteq Commands
  BY <1>1, <1>2 DEF RanThoughFailed
<1> QED
  BY <1>1, <1>3

(* The reports on their way stay true in the same way.                     *)
LEMMA ReportKept ==
  ASSUME NEW m, ReportTruthful(m),
         executed \subseteq executed', refused => refused'
  PROVE  ReportTruthful(m)'
  BY DEF ReportTruthful

(* A handler that moves on is still a handler.                             *)
LEMMA MovedTypes ==
  ASSUME NEW h \in HandlerRecords
  PROVE  /\ \A p \in Points : [h EXCEPT !.at = p] \in HandlerRecords
         /\ \A c \in Commands : [h EXCEPT !.cmd = c] \in HandlerRecords
         /\ \A s \in Statuses :
              [h EXCEPT !.at = "decide", !.want = s] \in HandlerRecords
  BY DEF HandlerRecords, Points

(* A handler that starts is one.                                           *)
LEMMA BegunTypes ==
  ASSUME NEW i \in Numbers, NEW k \in Kinds, NEW p \in Points,
         NEW s \in Statuses, NEW c \in Commands, NEW r \in Results
  PROVE  Handler(i, k, p, s, c, r) \in HandlerRecords
  BY DEF Handler, HandlerRecords

(* A handler that moves on, or ends, leaves only handlers.                 *)
LEMMA MovesType ==
  ASSUME handlers \subseteq HandlerRecords, NEW h \in handlers
  PROVE  /\ \A p \in Points :
              Goto(h, p) => (handlers \subseteq HandlerRecords)'
         /\ \A s \in Statuses :
              Decide(h, s) => (handlers \subseteq HandlerRecords)'
         /\ \A c \in Commands :
              Become(h, [h EXCEPT !.cmd = c])
                => (handlers \subseteq HandlerRecords)'
         /\ End(h) => (handlers \subseteq HandlerRecords)'
<1>1. ASSUME NEW p \in Points, Goto(h, p)
      PROVE  (handlers \subseteq HandlerRecords)'
  BY <1>1, MovedTypes DEF Goto, Become
<1>2. ASSUME NEW s \in Statuses, Decide(h, s)
      PROVE  (handlers \subseteq HandlerRecords)'
  BY <1>2, MovedTypes DEF Decide, Become
<1>3. ASSUME NEW c \in Commands, Become(h, [h EXCEPT !.cmd = c])
      PROVE  (handlers \subseteq HandlerRecords)'
  BY <1>3, MovedTypes DEF Become
<1>4. ASSUME End(h)
      PROVE  (handlers \subseteq HandlerRecords)'
  BY <1>4 DEF End
<1> QED
  BY <1>1, <1>2, <1>3, <1>4

(* However updateStatus ends, its caller goes on as a handler or ends.     *)
LEMMA ProceedType ==
  ASSUME handlers \subseteq HandlerRecords, NEW h \in handlers, NEW written,
         Proceed(h, written)
  PROVE  (handlers \subseteq HandlerRecords)'
  BY MovesType DEF Proceed, Points, Statuses

(* Every step of a handler keeps the type of the handlers.                 *)
LEMMA StepHandlersType ==
  ASSUME TypeOK, NEW h \in handlers, Step(h) \/ QueryFails(h)
  PROVE  (handlers \subseteq HandlerRecords)'
<1> USE MovesType DEF TypeOK
<1>1. CASE DecideStatus(h) \/ CommitStatus(h)
  BY <1>1, ProceedType DEF DecideStatus, CommitStatus, Points
<1>2. CASE ReadForSign(h) \/ WriteSignature(h)
  BY <1>2 DEF ReadForSign, WriteSignature, Points
<1>3. CASE ReadForUpload(h) \/ SendPlan(h)
  BY <1>3 DEF ReadForUpload, SendPlan, Points
<1>4. CASE MarkSent(h)
  <2>1. h.cmd \in Commands /\ (h.cmd < N => h.cmd + 1 \in Commands)
    BY CommandPlansAssumption DEF HandlerRecords, Commands
  <2> QED
    BY <1>4, <2>1 DEF MarkSent
<1>5. CASE UpdateCommand(h) \/ CheckCommands(h)
  BY <1>5 DEF UpdateCommand, CheckCommands, Points, Statuses
<1>6. CASE LookForNack(h) \/ FailCommands(h)
  BY <1>6 DEF LookForNack, FailCommands, Statuses
<1>7. CASE ListPending(h) \/ Resend(h)
  BY <1>7 DEF ListPending, Resend, Points
<1>8. CASE QueryFails(h)
  BY <1>8, ProceedType DEF QueryFails, Statuses
<1> QED
  BY <1>1, <1>2, <1>3, <1>4, <1>5, <1>6, <1>7, <1>8 DEF Step

(* The handlers keep their type in every step.                             *)
LEMMA NextHandlersType ==
  ASSUME TypeOK, [Next]_vars
  PROVE  (handlers \subseteq HandlerRecords)'
<1>0. 1 \in Commands
  BY CommandPlansAssumption DEF Commands
<1>1. ASSUME NEW k \in {"sign", "upload"}, NEW s \in Statuses, Request(k, s)
      PROVE  (handlers \subseteq HandlerRecords)'
  <2>1. PICK i \in Numbers :
          handlers' = handlers \cup {Handler(i, k, "read", s, 1, "EXECUTED")}
    BY <1>1 DEF Request, Begin
  <2>2. Handler(i, k, "read", s, 1, "EXECUTED") \in HandlerRecords
    BY <1>0, BegunTypes DEF Kinds, Points, Results
  <2> QED
    BY <2>1, <2>2 DEF TypeOK
<1>2. CASE ReceiveReport
  <2> DEFINE m == Head(downlink)
  <2>1. m \in Reports
    BY <1>2 DEF ReceiveReport, TypeOK, WiresTypeOK
  <2>2. PICK i \in Numbers :
          handlers' = handlers \cup
            {Handler(i, m.kind, FirstPoint[m.kind], "EXECUTING", m.cmd, m.result)}
    BY <1>2 DEF ReceiveReport, Begin
  <2>3. /\ m.kind \in Kinds /\ m.cmd \in Commands /\ m.result \in Results
        /\ FirstPoint[m.kind] \in Points
    BY <2>1 DEF Reports, Kinds, Points, FirstPoint
  <2>4. "EXECUTING" \in Statuses
    BY DEF Statuses
  <2> HIDE DEF m
  <2>5. Handler(i, m.kind, FirstPoint[m.kind], "EXECUTING", m.cmd, m.result)
          \in HandlerRecords
    BY <2>3, <2>4, BegunTypes
  <2> QED
    BY <2>2, <2>5 DEF TypeOK, m
<1>3. ASSUME NEW h \in handlers, Step(h) \/ QueryFails(h)
      PROVE  (handlers \subseteq HandlerRecords)'
  BY <1>3, StepHandlersType
<1>4. CASE RequestReplay \/ Restart \/ UNCHANGED vars
  BY <1>4 DEF RequestReplay, Restart, vars, TypeOK
<1>5. ASSUME NEW k \in 0 .. N, FlightExecutes(k)
      PROVE  (handlers \subseteq HandlerRecords)'
  BY <1>5 DEF FlightExecutes, TypeOK
<1>6. CASE StartSign \/ StartUpload
  BY <1>6, <1>1 DEF StartSign, StartUpload, Statuses
<1> QED
  BY <1>2, <1>3, <1>4, <1>5, <1>6 DEF Next

(* The rows keep their type in every step.                                 *)
LEMMA NextRowsType ==
  ASSUME TypeOK, [Next]_vars
  PROVE  RowsTypeOK'
<1>0. RowsTypeOK /\ \A h \in handlers : h \in HandlerRecords
  BY DEF TypeOK
<1>1. CASE UNCHANGED rows
  BY <1>0, <1>1 DEF RowsTypeOK, rows
<1>2. ASSUME NEW h \in handlers, Step(h)
      PROVE  RowsTypeOK'
  <2>1. /\ h.want \in Statuses /\ h.cmd \in Commands
        /\ h.result \in CommandStatuses
    BY <1>0 DEF HandlerRecords, Results, CommandStatuses
  <2>2. CASE CommitStatus(h)
    BY <1>0, <2>1, <2>2 DEF CommitStatus, RowsTypeOK
  <2>3. CASE WriteSignature(h)
    BY <1>0, <2>3 DEF WriteSignature, RowsTypeOK, Statuses
  <2>4. CASE MarkSent(h)
    BY <1>0, <2>1, <2>4 DEF MarkSent, RowsTypeOK, CommandStatuses
  <2>5. CASE UpdateCommand(h)
    BY <1>0, <2>1, <2>5 DEF UpdateCommand, RowsTypeOK, CommandStatuses
  <2>6. CASE FailCommands(h)
    BY <1>0, <2>6 DEF FailCommands, RowsTypeOK, CommandStatuses
  <2>7. CASE DecideStatus(h) \/ ReadForSign(h) \/ ReadForUpload(h)
               \/ SendPlan(h) \/ CheckCommands(h)
    BY <1>1, <2>7
    DEF DecideStatus, ReadForSign, ReadForUpload, SendPlan, CheckCommands
  <2>8. CASE LookForNack(h) \/ ListPending(h) \/ Resend(h)
    BY <1>1, <2>8 DEF LookForNack, ListPending, Resend
  <2> QED
    BY <1>2, <2>2, <2>3, <2>4, <2>5, <2>6, <2>7, <2>8 DEF Step
<1>3. ASSUME NEW h \in handlers, QueryFails(h)
      PROVE  RowsTypeOK'
  BY <1>1, <1>3 DEF QueryFails
<1>4. CASE StartSign \/ StartUpload \/ RequestReplay \/ ReceiveReport
             \/ Restart \/ UNCHANGED vars
  BY <1>1, <1>4
  DEF StartSign, StartUpload, Request, RequestReplay, ReceiveReport, Restart,
      vars
<1>5. ASSUME NEW k \in 0 .. N, FlightExecutes(k)
      PROVE  RowsTypeOK'
  BY <1>1, <1>5 DEF FlightExecutes
<1> QED
  BY <1>2, <1>3, <1>4, <1>5 DEF Next

LEMMA Concatenation ==
  ASSUME NEW s \in Seq(Reports), NEW t \in Seq(Reports)
  PROVE  /\ s \o t \in Seq(Reports)
         /\ Len(s \o t) = Len(s) + Len(t)
         /\ \A i \in 1 .. Len(s \o t) :
              (s \o t)[i] = IF i <= Len(s) THEN s[i] ELSE t[i - Len(s)]
  OBVIOUS

(* What flight reports of a plan are reports: an ACK of each of the         *)
(* commands it has executed, and the result of the failed one and a NACK   *)
(* only when it has stopped.                                               *)
LEMMA ExecutionReports ==
  ASSUME downlink \in Seq(Reports), NEW k \in 0 .. N, NEW more, NEW key,
         NEW last \in Endings(k, more, key), NEW reports,
         reports = downlink \o [c \in 1 .. k |-> Ack(c, "EXECUTED")] \o last
  PROVE  /\ reports \in Seq(Reports)
         /\ \A i \in DOMAIN reports :
              \/ i \in DOMAIN downlink /\ reports[i] = downlink[i]
              \/ \E c \in 1 .. k : reports[i] = Ack(c, "EXECUTED")
              \/ k < N /\ reports[i] \in {Nack, Ack(k + 1, "FAILED")}
<1> DEFINE acks == [c \in 1 .. k |-> Ack(c, "EXECUTED")]
           front == downlink \o acks
           new == front \o last
           Stopped(m) == k < N /\ m \in {Nack, Ack(k + 1, "FAILED")}
<1>0. /\ 1 \in Commands /\ k \in Nat /\ 1 .. k \subseteq Commands
      /\ N \in Nat /\ k <= N
  BY CommandPlansAssumption DEF Commands
<1>1. /\ acks \in Seq(Reports) /\ Len(acks) = k
      /\ \A i \in 1 .. k : acks[i] = Ack(i, "EXECUTED")
  BY <1>0 DEF Ack, Reports, Results
<1>2. last \in Seq(Reports) /\ \A i \in 1 .. Len(last) : Stopped(last[i])
  <2>1. Nack \in Reports
    BY <1>0 DEF Nack, Reports, Results
  <2>2. CASE last = <<>>
    BY <2>2
  <2>3. CASE last = <<Nack>>
    <3>1. <<Nack>> # <<>>
      OBVIOUS
    <3>2. k = 0
      BY <2>3, <3>1 DEF Endings
    <3>3. 0 < N
      BY CommandPlansAssumption
    <3> QED
      BY <2>1, <2>3, <3>2, <3>3
  <2>4. CASE last = <<Ack(k + 1, "FAILED"), Nack>>
    <3>1. /\ <<Ack(k + 1, "FAILED"), Nack>> # <<>>
          /\ <<Ack(k + 1, "FAILED"), Nack>> # <<Nack>>
      OBVIOUS
    <3>2. k < N
      BY <2>4, <3>1 DEF Endings
    <3>3. k + 1 \in Commands
      BY <1>0, <3>2 DEF Commands
    <3>4. Ack(k + 1, "FAILED") \in Reports
      BY <3>3 DEF Ack, Reports, Results
    <3> HIDE DEF Stopped
    <3>5. Stopped(Nack) /\ Stopped(Ack(k + 1, "FAILED"))
      BY <3>2 DEF Stopped
    <3> QED
      BY <2>1, <2>4, <3>4, <3>5
  <2> QED
    BY <2>2, <2>3, <2>4 DEF Endings
<1> HIDE DEF acks, Stopped
<1>3. /\ front \in Seq(Reports)
      /\ Len(front) = Len(downlink) + k
      /\ \A i \in 1 .. Len(front) :
            front[i] = IF i <= Len(downlink) THEN downlink[i]
                                            ELSE acks[i - Len(downlink)]
  BY <1>1, Concatenation
<1>4. \A i \in 1 .. Len(front) :
        \/ i \in DOMAIN downlink /\ front[i] = downlink[i]
        \/ \E c \in 1 .. k : front[i] = Ack(c, "EXECUTED")
  <2> SUFFICES ASSUME NEW i \in 1 .. Len(front), i \notin DOMAIN downlink
               PROVE  \E c \in 1 .. k : front[i] = Ack(c, "EXECUTED")
    BY <1>3
  <2>1. i - Len(downlink) \in 1 .. k
    BY <1>0, <1>3
  <2>2. front[i] = Ack(i - Len(downlink), "EXECUTED")
    BY <1>1, <1>3, <2>1
  <2> QED
    BY <2>1, <2>2
<1> HIDE DEF front
<1>5. /\ new \in Seq(Reports)
      /\ Len(new) = Len(front) + Len(last)
      /\ \A i \in 1 .. Len(new) :
            new[i] = IF i <= Len(front) THEN front[i]
                                       ELSE last[i - Len(front)]
  <2>1. front \in Seq(Reports) /\ last \in Seq(Reports)
    BY <1>2, <1>3
  <2> QED
    BY <2>1, Concatenation
<1>6. ASSUME NEW i \in DOMAIN new
      PROVE  \/ i \in DOMAIN downlink /\ new[i] = downlink[i]
             \/ \E c \in 1 .. k : new[i] = Ack(c, "EXECUTED")
             \/ Stopped(new[i])
  <2>0. i \in 1 .. Len(new) /\ Len(front) \in Nat /\ Len(last) \in Nat
    BY <1>2, <1>3, <1>5
  <2>1. CASE i <= Len(front)
    <3>1. i \in 1 .. Len(front) /\ new[i] = front[i]
      BY <1>5, <2>0, <2>1
    <3> QED
      BY <1>4, <3>1
  <2>2. CASE ~(i <= Len(front))
    <3>1. i - Len(front) \in 1 .. Len(last) /\ new[i] = last[i - Len(front)]
      BY <1>5, <2>0, <2>2
    <3> QED
      BY <1>2, <3>1
  <2> QED
    BY <2>1, <2>2
<1>7. /\ new \in Seq(Reports)
      /\ \A i \in DOMAIN new :
           \/ i \in DOMAIN downlink /\ new[i] = downlink[i]
           \/ \E c \in 1 .. k : new[i] = Ack(c, "EXECUTED")
           \/ Stopped(new[i])
  BY <1>5, <1>6
<1> QED
  BY <1>7 DEF new, front, acks, Stopped

(* What is on the wires keeps its type in every step.                      *)
LEMMA NextWiresType ==
  ASSUME TypeOK, [Next]_vars
  PROVE  WiresTypeOK'
<1>0. WiresTypeOK /\ 1 \in Commands
  BY CommandPlansAssumption DEF TypeOK, Commands
<1>1. CASE UNCHANGED wires
  BY <1>0, <1>1 DEF WiresTypeOK, wires
<1>2. ASSUME NEW h \in handlers, Step(h)
      PROVE  WiresTypeOK'
  <2>1. CASE SendPlan(h)
    <3>1. /\ uplink' = uplink \/
             \E key \in {"given", "null"} : uplink' = Append(uplink, key)
          /\ downlink' = downlink
      BY <2>1 DEF SendPlan
    <3>2. ASSUME NEW key \in {"given", "null"}
          PROVE  Append(uplink, key) \in Seq({"given", "null", "missing"})
      BY <1>0 DEF WiresTypeOK
    <3> QED
      BY <1>0, <3>1, <3>2, Zenon DEF WiresTypeOK
  <2>2. CASE Resend(h)
    BY <1>0, <2>2 DEF Resend, WiresTypeOK
  <2>3. CASE DecideStatus(h) \/ CommitStatus(h) \/ ReadForSign(h)
               \/ WriteSignature(h) \/ ReadForUpload(h) \/ MarkSent(h)
    BY <1>1, <2>3
    DEF DecideStatus, CommitStatus, ReadForSign, WriteSignature,
        ReadForUpload, MarkSent
  <2>4. CASE UpdateCommand(h) \/ CheckCommands(h) \/ LookForNack(h)
               \/ FailCommands(h) \/ ListPending(h)
    BY <1>1, <2>4
    DEF UpdateCommand, CheckCommands, LookForNack, FailCommands, ListPending
  <2> QED
    BY <1>2, <2>1, <2>2, <2>3, <2>4 DEF Step
<1>3. ASSUME NEW h \in handlers, QueryFails(h)
      PROVE  WiresTypeOK'
  BY <1>1, <1>3 DEF QueryFails
<1>4. CASE StartSign \/ StartUpload \/ UNCHANGED vars
  BY <1>1, <1>4 DEF StartSign, StartUpload, Request, vars
<1>5. CASE RequestReplay
  <2>1. Replay \in Reports
    BY <1>0 DEF Replay, Reports, Results
  <2> QED
    BY <1>0, <1>5, <2>1 DEF RequestReplay, WiresTypeOK
<1>6. CASE ReceiveReport
  BY <1>0, <1>6 DEF ReceiveReport, WiresTypeOK
<1>7. CASE Restart
  <2>1. uplink' = <<>> /\ downlink' = <<>>
    BY <1>7 DEF Restart
  <2> QED
    BY <2>1 DEF WiresTypeOK
<1>8. ASSUME NEW k \in 0 .. N, FlightExecutes(k)
      PROVE  WiresTypeOK'
  <2>1. uplink' \in Seq({"given", "null", "missing"})
    BY <1>0, <1>8 DEF FlightExecutes, WiresTypeOK
  <2>2. downlink \in Seq(Reports)
    BY <1>0 DEF WiresTypeOK
  <2>3. \/ downlink' = downlink
        \/ \E more, key : \E last \in Endings(k, more, key) :
             downlink' = downlink \o [c \in 1 .. k |-> Ack(c, "EXECUTED")]
                           \o last
    BY <1>8 DEF FlightExecutes, Report, ReportNothing
  <2> QED
    BY <2>1, <2>2, <2>3, ExecutionReports DEF WiresTypeOK
<1> QED
  BY <1>2, <1>3, <1>4, <1>5, <1>6, <1>7, <1>8 DEF Next

(* The counts stay numbers, the flags truth values, and the history only   *)
(* grows: no step takes back a signature, an upload, an execution or a     *)
(* refusal.                                                                *)
LEMMA NextHistory ==
  ASSUME TypeOK, [Next]_vars
  PROVE  /\ CountsTypeOK' /\ FlagsTypeOK'
         /\ signature => signature'
         /\ uploads <= uploads'
         /\ executed \subseteq executed'
         /\ refused => refused'
<1>0. CountsTypeOK /\ FlagsTypeOK
  BY DEF TypeOK
<1> DEFINE Grows == /\ CountsTypeOK' /\ uploads <= uploads'
                    /\ executed \subseteq executed'
           Stays == /\ FlagsTypeOK'
                    /\ signature => signature'
                    /\ refused => refused'
<1>1. ASSUME UNCHANGED counts, UNCHANGED history,
             signature => signature'
      PROVE  Grows /\ Stays
  <2>1. Grows
    BY <1>0, <1>1 DEF CountsTypeOK, counts, history
  <2>2. /\ refused' = refused /\ silent' = silent
        /\ overlapped' = overlapped /\ raced' = raced
    BY <1>1 DEF history
  <2>3. Stays
    BY <1>0, <1>1, <2>2, Zenon DEF FlagsTypeOK
  <2> QED
    BY <2>1, <2>3
<1>2. ASSUME NEW h \in handlers, Step(h)
      PROVE  Grows /\ Stays
  <2>1. CASE SendPlan(h)
    <3>1. Grows
      BY <1>0, <2>1 DEF SendPlan, CountsTypeOK, counts
    <3>2. Stays
      BY <1>0, <2>1, Zenon DEF SendPlan, FlagsTypeOK, rows
    <3> QED
      BY <3>1, <3>2
  <2>2. CASE DecideStatus(h) \/ CommitStatus(h) \/ ReadForSign(h)
               \/ WriteSignature(h) \/ ReadForUpload(h) \/ MarkSent(h)
    BY <1>1, <2>2
    DEF DecideStatus, CommitStatus, ReadForSign, WriteSignature,
        ReadForUpload, MarkSent, rows
  <2>3. CASE UpdateCommand(h) \/ CheckCommands(h) \/ LookForNack(h)
               \/ FailCommands(h) \/ ListPending(h) \/ Resend(h)
    BY <1>1, <2>3
    DEF UpdateCommand, CheckCommands, LookForNack, FailCommands, ListPending,
        Resend, rows
  <2> QED
    BY <1>2, <2>1, <2>2, <2>3 DEF Step
<1>3. ASSUME NEW h \in handlers, QueryFails(h)
      PROVE  Grows /\ Stays
  <2>1. Grows
    BY <1>0, <1>3 DEF QueryFails, CountsTypeOK, history
  <2>2. Stays
    BY <1>0, <1>3, Zenon DEF QueryFails, FlagsTypeOK, history, rows
  <2> QED
    BY <2>1, <2>2
<1>4. CASE StartSign \/ StartUpload
  <2>1. PICK k \in Kinds, s \in Statuses : Request(k, s)
    BY <1>4 DEF StartSign, StartUpload, Kinds, Statuses
  <2>2. Grows
    BY <1>0, <2>1 DEF Request, CountsTypeOK
  <2>3. Stays
    BY <1>0, <2>1, Zenon DEF Request, FlagsTypeOK, rows
  <2> QED
    BY <2>2, <2>3
<1>5. CASE RequestReplay \/ Restart
  <2>1. Grows
    BY <1>0, <1>5 DEF RequestReplay, Restart, CountsTypeOK, history
  <2>2. /\ refused' = refused /\ signature' = signature
        /\ silent' = silent /\ overlapped' = overlapped /\ raced' = raced
    BY <1>5 DEF RequestReplay, Restart, history, rows
  <2>3. Stays
    BY <1>0, <2>2, Zenon DEF FlagsTypeOK
  <2> QED
    BY <2>1, <2>3
<1>6. CASE ReceiveReport
  <2>1. Grows
    BY <1>0, <1>6 DEF ReceiveReport, CountsTypeOK, counts
  <2>2. Stays
    BY <1>0, <1>6, Zenon DEF ReceiveReport, FlagsTypeOK, rows
  <2> QED
    BY <2>1, <2>2
<1>7. ASSUME NEW k \in 0 .. N, FlightExecutes(k)
      PROVE  Grows /\ Stays
  <2>1. Grows
    <3>1. PICK ran \in SUBSET Commands : executed' = executed \cup 1 .. k \cup ran
      BY <1>7, ExecutedByUpload
    <3>3. 1 .. k \subseteq Commands
      BY CommandPlansAssumption DEF Commands
    <3>2. UNCHANGED counts /\ uploads' = uploads
      BY <1>7 DEF FlightExecutes
    <3> QED
      BY <1>0, <3>1, <3>2, <3>3 DEF CountsTypeOK, counts
  <2>2. Stays
    <3>1. /\ refused' = refused \/ refused' = (refused \/ k < N)
          /\ silent' = silent \/ \E ran : silent' = (silent \/ ran # {})
      BY <1>7, Zenon DEF FlightExecutes, Report, ReportNothing
    <3>2. UNCHANGED rows /\ overlapped' = overlapped /\ raced' = raced
      BY <1>7 DEF FlightExecutes
    <3>3. refused' \in BOOLEAN /\ silent' \in BOOLEAN
      BY <1>0, <3>1 DEF FlagsTypeOK
    <3>4. refused => refused'
      BY <3>1
    <3> QED
      BY <1>0, <3>2, <3>3, <3>4, Zenon DEF FlagsTypeOK, rows
  <2> QED
    BY <2>1, <2>2
<1>8. CASE UNCHANGED vars
  BY <1>1, <1>8 DEF vars, rows
<1> QED
  BY <1>2, <1>3, <1>4, <1>5, <1>6, <1>7, <1>8 DEF Next

(* Type correctness is inductive.                                          *)
LEMMA NextTypeOK ==
  ASSUME TypeOK, [Next]_vars
  PROVE  TypeOK'
  BY NextHandlersType, NextRowsType, NextWiresType, NextHistory DEF TypeOK

(* In a step that leaves the rows alone, they stay truthful.               *)
LEMMA RowsKept ==
  ASSUME TypeOK, StatusTruthful, [Next]_vars, UNCHANGED rows
  PROVE  StatusTruthful'
<1>1. /\ CountsTypeOK /\ CountsTypeOK'
      /\ uploads <= uploads' /\ executed \subseteq executed'
      /\ refused => refused'
  BY NextHistory DEF TypeOK
<1>2. uploads > 0 => uploads' > 0
  BY <1>1 DEF CountsTypeOK
<1>3. executed = Commands => executed' = Commands
  BY <1>1 DEF CountsTypeOK
<1>4. plan' = plan /\ signature' = signature /\ cmd' = cmd
  BY DEF rows
<1> QED
  BY <1>1, <1>2, <1>3, <1>4 DEF StatusTruthful

(* A status is allowed only from a plan that was uploaded, or for the      *)
(* upload itself, from a signed one.                                       *)
LEMMA AllowedFrom ==
  ASSUME TypeOK, StatusTruthful, NEW want, Allowed(want)
  PROVE  /\ want # "SIGNED" => signature
         /\ want \notin {"SIGNED", "UPLOADED"} => uploads > 0
  BY DEF Allowed, Transitions, StatusTruthful

(* The rows stay truthful: only five steps write them, and each writes     *)
(* what its handler knows to be true.                                      *)
LEMMA NextStatusTruthful ==
  ASSUME IndInv, [Next]_vars
  PROVE  StatusTruthful'
<1>0. TypeOK /\ StatusTruthful /\ \A h \in handlers : HandlerTruthful(h)
  BY DEF IndInv
<1>1. CASE UNCHANGED rows
  BY <1>0, <1>1, RowsKept
<1>2. ASSUME NEW h \in handlers, Step(h)
      PROVE  StatusTruthful'
  <2>0. /\ HandlerTruthful(h) /\ h \in HandlerRecords
        /\ h.cmd \in Commands /\ h.kind \in Kinds
        /\ cmd \in [Commands -> CommandStatuses]
    BY <1>0 DEF TypeOK, RowsTypeOK, HandlerRecords
  <2>1. CASE CommitStatus(h)
    <3>1. /\ plan' = h.want /\ h.at = "commit"
          /\ signature' = signature /\ cmd' = cmd
          /\ uploads' = uploads /\ executed' = executed /\ refused' = refused
      BY <2>1 DEF CommitStatus, history
    <3>2. h.kind \in {"upload", "ack", "nack"}
      BY <2>0, <3>1 DEF HandlerTruthful, Kinds
    <3>3. /\ signature /\ uploads > 0
          /\ h.kind = "upload" => h.want = "UPLOADED"
          /\ h.kind = "ack" => /\ h.want \in {"EXECUTING", "COMPLETED"}
                               /\ executed = Commands
          /\ h.kind = "nack" => /\ h.want \in {"EXECUTING", "REJECTED"}
                                /\ refused
      BY <2>0, <3>1 DEF HandlerTruthful
    <3>4. \A c \in Commands : /\ cmd'[c] = "EXECUTED" => c \in executed'
                              /\ cmd'[c] = "FAILED" => refused'
      BY <1>0, <3>1 DEF StatusTruthful
    <3> QED
      BY <3>1, <3>2, <3>3, <3>4 DEF StatusTruthful
  <2>2. CASE WriteSignature(h)
    <3>1. /\ plan' = "SIGNED" /\ signature' = TRUE /\ cmd' = cmd
          /\ executed' = executed /\ refused' = refused
      BY <2>2 DEF WriteSignature, history
    <3> QED
      BY <1>0, <3>1 DEF StatusTruthful
  <2>3. CASE MarkSent(h)
    <3>1. /\ plan' = plan /\ signature' = signature
          /\ cmd' = [cmd EXCEPT ![h.cmd] = "SENT"]
          /\ uploads' = uploads /\ executed' = executed /\ refused' = refused
      BY <2>3 DEF MarkSent, history
    <3>2. \A c \in Commands : cmd'[c] = cmd[c] \/ cmd'[c] = "SENT"
      BY <2>0, <3>1
    <3> QED
      BY <1>0, <3>1, <3>2 DEF StatusTruthful
  <2>4. CASE UpdateCommand(h)
    <3>1. /\ plan' = plan /\ signature' = signature
          /\ cmd' = [cmd EXCEPT ![h.cmd] = h.result]
          /\ uploads' = uploads /\ executed' = executed /\ refused' = refused
          /\ h.kind = "ack"
      BY <2>4 DEF UpdateCommand, history
    <3>2. /\ h.result = "EXECUTED" => h.cmd \in executed
          /\ h.result = "FAILED" => refused
      BY <2>0, <3>1 DEF HandlerTruthful
    <3>3. \A c \in Commands : cmd'[c] = cmd[c] \/ c = h.cmd
      BY <2>0, <3>1
    <3>4. cmd'[h.cmd] = h.result
      BY <2>0, <3>1
    <3> QED
      BY <1>0, <3>1, <3>2, <3>3, <3>4 DEF StatusTruthful
  <2>5. CASE FailCommands(h)
    <3>1. /\ plan' = plan /\ signature' = signature
          /\ cmd' = [c \in Commands |-> "FAILED"]
          /\ uploads' = uploads /\ executed' = executed /\ refused' = refused
          /\ h.kind = "nack"
      BY <2>5 DEF FailCommands, history
    <3>2. refused
      BY <2>0, <3>1 DEF HandlerTruthful
    <3> QED
      BY <1>0, <3>1, <3>2 DEF StatusTruthful
  <2>6. CASE DecideStatus(h) \/ ReadForSign(h) \/ ReadForUpload(h)
               \/ SendPlan(h) \/ CheckCommands(h)
    BY <1>1, <2>6
    DEF DecideStatus, ReadForSign, ReadForUpload, SendPlan, CheckCommands
  <2>7. CASE LookForNack(h) \/ ListPending(h) \/ Resend(h)
    BY <1>1, <2>7 DEF LookForNack, ListPending, Resend
  <2> QED
    BY <1>2, <2>1, <2>2, <2>3, <2>4, <2>5, <2>6, <2>7 DEF Step
<1>3. ASSUME NEW h \in handlers, QueryFails(h)
      PROVE  StatusTruthful'
  BY <1>1, <1>3 DEF QueryFails
<1>4. CASE StartSign \/ StartUpload \/ RequestReplay \/ ReceiveReport
             \/ Restart \/ UNCHANGED vars
  BY <1>1, <1>4
  DEF StartSign, StartUpload, Request, RequestReplay, ReceiveReport, Restart,
      vars
<1>5. ASSUME NEW k \in 0 .. N, FlightExecutes(k)
      PROVE  StatusTruthful'
  BY <1>1, <1>5 DEF FlightExecutes
<1> QED
  BY <1>2, <1>3, <1>4, <1>5 DEF Next

(* What updateStatus and its callers make of a truthful handler is         *)
(* truthful, in a step that leaves the rows but for the plan's status, and *)
(* the history, alone.                                                     *)
LEMMA ProceedTruthful ==
  ASSUME TypeOK, NEW h \in handlers, HandlerTruthful(h),
         h.at \in {"decide", "commit"},
         Proceed(h, TRUE) \/ Proceed(h, FALSE),
         signature' = signature, UNCHANGED history,
         NEW g \in handlers', g \notin handlers
  PROVE  HandlerTruthful(g)'
<1>0. /\ h \in HandlerRecords
      /\ signature' = signature /\ uploads' = uploads
      /\ executed' = executed /\ refused' = refused
  BY DEF TypeOK, history
<1>1. CASE h.kind = "upload"
  <2>1. g = [h EXCEPT !.at = "mark"]
    BY <1>1 DEF Proceed, Goto, Become, End
  <2> QED
    BY <1>0, <1>1, <2>1 DEF HandlerTruthful, HandlerRecords
<1>2. CASE h.kind = "ack"
  <2>1. g = [h EXCEPT !.at = "decide", !.want = "COMPLETED"]
    BY <1>2 DEF Proceed, Decide, Become, End
  <2> QED
    BY <1>0, <1>2, <2>1 DEF HandlerTruthful, HandlerRecords
<1>3. CASE h.kind = "nack"
  <2>1. \/ g = [h EXCEPT !.at = "decide", !.want = "REJECTED"]
        \/ g = [h EXCEPT !.at = "fail"]
    BY <1>3 DEF Proceed, Decide, Goto, Become
  <2> QED
    BY <1>0, <1>3, <2>1 DEF HandlerTruthful, HandlerRecords
<1> QED
  BY <1>1, <1>2, <1>3 DEF Proceed

(* Every step of a handler leaves it truthful.                             *)
LEMMA StepTruthful ==
  ASSUME IndInv, NEW h \in handlers, Step(h) \/ QueryFails(h),
         NEW g \in handlers', g \notin handlers
  PROVE  HandlerTruthful(g)'
<1>0. /\ TypeOK /\ StatusTruthful /\ HandlerTruthful(h)
      /\ h \in HandlerRecords
  BY DEF IndInv, TypeOK
<1>1. CASE DecideStatus(h)
  <2>1. CASE Allowed(h.want)
    <3>1. /\ g = [h EXCEPT !.at = "commit"] /\ h.at = "decide"
          /\ signature' = signature /\ uploads' = uploads
          /\ executed' = executed /\ refused' = refused
      BY <1>1, <2>1 DEF DecideStatus, Goto, Become, rows, history
    <3>2. h.kind \in {"upload", "ack", "nack"} /\ h.want # "SIGNED"
      BY <1>0, <3>1 DEF HandlerTruthful, HandlerRecords, Kinds
    <3>3. signature /\ uploads > 0
      BY <1>0, <2>1, <3>1, <3>2, AllowedFrom DEF HandlerTruthful
    <3>4. /\ g.kind = h.kind /\ g.want = h.want /\ g.cmd = h.cmd
          /\ g.at = "commit"
      BY <1>0, <3>1 DEF HandlerRecords
    <3> QED
      BY <1>0, <3>1, <3>2, <3>3, <3>4 DEF HandlerTruthful
  <2>2. CASE ~Allowed(h.want)
    <3>1. /\ h.at = "decide" /\ Proceed(h, FALSE)
          /\ signature' = signature /\ UNCHANGED history
      BY <1>1, <2>2 DEF DecideStatus, rows
    <3> QED
      BY <1>0, <3>1, ProceedTruthful
  <2> QED
    BY <2>1, <2>2
<1>2. CASE CommitStatus(h)
  <2>1. /\ h.at = "commit" /\ Proceed(h, TRUE)
        /\ signature' = signature /\ UNCHANGED history
    BY <1>2 DEF CommitStatus
  <2> QED
    BY <1>0, <2>1, ProceedTruthful
<1>3. CASE ReadForSign(h) \/ WriteSignature(h)
  <2>1. g = [h EXCEPT !.at = "write"] /\ h.kind = "sign"
    BY <1>3 DEF ReadForSign, WriteSignature, Goto, Become, End
  <2> QED
    BY <1>0, <2>1 DEF HandlerTruthful, HandlerRecords
<1>4. CASE ReadForUpload(h)
  <2>1. g = [h EXCEPT !.at = "send"] /\ h.kind = "upload"
    BY <1>4 DEF ReadForUpload, Goto, Become, End
  <2> QED
    BY <1>0, <2>1 DEF HandlerTruthful, HandlerRecords
<1>5. CASE SendPlan(h)
  <2>1. /\ g = [h EXCEPT !.at = "decide"] /\ h.kind = "upload"
        /\ uploads' = uploads + 1
    BY <1>5 DEF SendPlan, Goto, Become, End
  <2>2. uploads' > 0
    BY <1>0, <2>1 DEF TypeOK, CountsTypeOK
  <2> QED
    BY <1>0, <2>1, <2>2 DEF HandlerTruthful, HandlerRecords
<1>6. CASE MarkSent(h)
  <2>1. /\ g = [h EXCEPT !.cmd = h.cmd + 1] /\ h.kind = "upload"
        /\ h.at = "mark" /\ uploads' = uploads
    BY <1>6 DEF MarkSent, Become, End, history
  <2> QED
    BY <1>0, <2>1 DEF HandlerTruthful, HandlerRecords
<1>7. CASE UpdateCommand(h)
  <2>1. /\ g = [h EXCEPT !.at = "check"] /\ h.kind = "ack"
        /\ executed' = executed /\ refused' = refused
    BY <1>7 DEF UpdateCommand, Goto, Become, history
  <2> QED
    BY <1>0, <2>1 DEF HandlerTruthful, HandlerRecords
<1>8. CASE CheckCommands(h)
  <2>1. /\ g = [h EXCEPT !.at = "decide", !.want = "EXECUTING"]
        /\ h.kind = "ack" /\ AllExecuted
        /\ executed' = executed /\ refused' = refused
    BY <1>8 DEF CheckCommands, Decide, Become, End, history
  <2>2. executed = Commands
    BY <1>0, <2>1
    DEF AllExecuted, StatusTruthful, TypeOK, CountsTypeOK
  <2> QED
    BY <1>0, <2>1, <2>2 DEF HandlerTruthful, HandlerRecords
<1>9. CASE LookForNack(h) \/ FailCommands(h)
  <2>1. /\ \/ g = [h EXCEPT !.at = "decide", !.want = "EXECUTING"]
           \/ g = [h EXCEPT !.at = "decide", !.want = "REJECTED"]
        /\ h.kind = "nack" /\ refused' = refused
    BY <1>9 DEF LookForNack, FailCommands, Decide, Become, End, history
  <2> QED
    BY <1>0, <2>1 DEF HandlerTruthful, HandlerRecords
<1>10. CASE ListPending(h) \/ Resend(h)
  <2>1. /\ g = [h EXCEPT !.at = "look"] \/ g = [h EXCEPT !.at = "sent"]
        /\ h.kind = "replay"
    BY <1>10 DEF ListPending, Resend, Goto, Become, End
  <2> QED
    BY <1>0, <2>1 DEF HandlerTruthful, HandlerRecords
<1>11. CASE QueryFails(h)
  <2>1. CASE h.at \in {"decide", "commit"}
    <3>1. /\ Proceed(h, FALSE)
          /\ signature' = signature /\ UNCHANGED history
      BY <1>11, <2>1 DEF QueryFails, rows
    <3> QED
      BY <1>0, <2>1, <3>1, ProceedTruthful
  <2>2. CASE h.at \notin {"decide", "commit"}
    <3>1. /\ g = [h EXCEPT !.at = "decide", !.want = "REJECTED"]
          /\ h.kind = "nack" /\ refused' = refused
      BY <1>11, <2>2 DEF QueryFails, Decide, Become, End, history
    <3> QED
      BY <1>0, <3>1 DEF HandlerTruthful, HandlerRecords
  <2> QED
    BY <2>1, <2>2
<1> QED
  BY <1>1, <1>2, <1>3, <1>4, <1>5, <1>6, <1>7, <1>8, <1>9, <1>10, <1>11
  DEF Step

(* A handler that starts is truthful, because the report it serves is.     *)
LEMMA BegunTruthful ==
  ASSUME IndInv, ReceiveReport, NEW g \in handlers', g \notin handlers
  PROVE  HandlerTruthful(g)'
<1> DEFINE m == Head(downlink)
<1>1. /\ m \in Reports /\ ReportTruthful(m)
      /\ executed' = executed /\ refused' = refused
  <2>1. 1 \in DOMAIN downlink /\ m = downlink[1] /\ m \in Reports
    BY DEF ReceiveReport, IndInv, TypeOK, WiresTypeOK
  <2> QED
    BY <2>1 DEF ReceiveReport, IndInv, ToSet
<1>2. /\ g.kind = m.kind /\ g.cmd = m.cmd /\ g.result = m.result
      /\ g.at = FirstPoint[m.kind] /\ g.want = "EXECUTING"
  BY DEF ReceiveReport, Begin, Handler
<1>3. m.kind \in {"ack", "nack", "replay"}
  BY <1>1 DEF Reports
<1> HIDE DEF m
<1> QED
  BY <1>1, <1>2, <1>3 DEF ReportTruthful, HandlerTruthful, FirstPoint

(* The handlers are truthful in every step.                                *)
LEMMA NextHandlersTruthful ==
  ASSUME IndInv, [Next]_vars, NEW g \in handlers'
  PROVE  HandlerTruthful(g)'
<1>0. TypeOK /\ CountsTypeOK /\ CountsTypeOK'
  BY NextHistory DEF IndInv, TypeOK
<1>1. ASSUME g \in handlers
      PROVE  HandlerTruthful(g)'
  <2>1. /\ uploads \in Nat /\ uploads' \in Nat
        /\ executed' \subseteq Commands
    BY <1>0 DEF CountsTypeOK
  <2>2. HandlerTruthful(g)
    BY <1>1 DEF IndInv
  <2> QED
    BY <1>0, <2>1, <2>2, HandlerKept, NextHistory
<1>2. CASE g \notin handlers
  <2>1. ASSUME NEW h \in handlers, Step(h) \/ QueryFails(h)
        PROVE  HandlerTruthful(g)'
    BY <1>2, <2>1, StepTruthful
  <2>2. CASE StartSign \/ StartUpload
    <3>1. \/ g.kind = "sign" /\ g.at = "read"
          \/ g.kind = "upload" /\ g.at = "read" /\ g.want = "UPLOADED"
      BY <1>2, <2>2 DEF StartSign, StartUpload, Request, Begin, Handler
    <3> QED
      BY <3>1 DEF HandlerTruthful
  <2>3. CASE ReceiveReport
    BY <1>2, <2>3, BegunTruthful
  <2>4. CASE RequestReplay \/ Restart \/ UNCHANGED vars
    BY <1>2, <2>4 DEF RequestReplay, Restart, vars
  <2>5. ASSUME NEW k \in 0 .. N, FlightExecutes(k)
        PROVE  HandlerTruthful(g)'
    BY <1>2, <2>5 DEF FlightExecutes
  <2> QED
    BY <2>1, <2>2, <2>3, <2>4, <2>5 DEF Next
<1> QED
  BY <1>1, <1>2

(* The reports on their way are true in every step.                        *)
LEMMA NextReportsTruthful ==
  ASSUME IndInv, [Next]_vars, NEW m \in ToSet(downlink')
  PROVE  ReportTruthful(m)'
<1>0. /\ TypeOK /\ downlink \in Seq(Reports)
      /\ executed \subseteq executed' /\ (refused => refused')
  BY NextHistory DEF IndInv, TypeOK, WiresTypeOK
<1>1. ASSUME m \in ToSet(downlink)
      PROVE  ReportTruthful(m)'
  BY <1>0, <1>1, ReportKept DEF IndInv
<1>2. CASE downlink' = downlink
  BY <1>1, <1>2
<1>3. ASSUME NEW h \in handlers, Step(h)
      PROVE  downlink' = downlink
  <2>1. CASE DecideStatus(h) \/ CommitStatus(h) \/ ReadForSign(h)
               \/ WriteSignature(h) \/ ReadForUpload(h) \/ SendPlan(h)
               \/ MarkSent(h)
    BY <2>1
    DEF DecideStatus, CommitStatus, ReadForSign, WriteSignature,
        ReadForUpload, SendPlan, MarkSent, wires
  <2>2. CASE UpdateCommand(h) \/ CheckCommands(h) \/ LookForNack(h)
               \/ FailCommands(h) \/ ListPending(h) \/ Resend(h)
    BY <2>2
    DEF UpdateCommand, CheckCommands, LookForNack, FailCommands, ListPending,
        Resend, wires
  <2> QED
    BY <1>3, <2>1, <2>2 DEF Step
<1>4. ASSUME NEW h \in handlers, QueryFails(h)
      PROVE  downlink' = downlink
  BY <1>4 DEF QueryFails, wires
<1>5. CASE StartSign \/ StartUpload \/ UNCHANGED vars
  BY <1>2, <1>5 DEF StartSign, StartUpload, Request, vars, wires
<1>6. CASE RequestReplay
  <2>1. downlink' = Append(downlink, Replay)
    BY <1>6 DEF RequestReplay
  <2>2. m \in ToSet(downlink) \/ m = Replay
    BY <1>0, <2>1 DEF ToSet
  <2>3. ReportTruthful(Replay)'
    BY DEF ReportTruthful, Replay
  <2> QED
    BY <1>1, <2>2, <2>3
<1>7. CASE ReceiveReport
  <2>1. downlink # <<>> /\ downlink' = Tail(downlink)
    BY <1>7 DEF ReceiveReport
  <2>2. m \in ToSet(downlink)
    BY <1>0, <2>1 DEF ToSet
  <2> QED
    BY <1>1, <2>2
<1>8. CASE Restart
  BY <1>8 DEF Restart, ToSet
<1>9. ASSUME NEW k \in 0 .. N, FlightExecutes(k)
      PROVE  ReportTruthful(m)'
  <2>1. CASE downlink' = downlink
    BY <1>2, <2>1
  <2>2. CASE downlink' # downlink
    <3>1. \E more : /\ executed' = executed \cup 1 .. k \cup more
                    /\ Report(k, more, Head(uplink))
      BY <1>9, <2>2 DEF FlightExecutes, ReportNothing
    <3>2. PICK more : \E last \in Endings(k, more, Head(uplink)) :
            downlink' = downlink \o [c \in 1 .. k |-> Ack(c, "EXECUTED")]
                          \o last
      BY <3>1 DEF Report
    <3>3. 1 .. k \subseteq executed' /\ (k < N => refused')
      BY <3>1 DEF Report
    <3>4. \/ m \in ToSet(downlink)
          \/ \E c \in 1 .. k : m = Ack(c, "EXECUTED")
          \/ k < N /\ m \in {Nack, Ack(k + 1, "FAILED")}
      <4>1. PICK last \in Endings(k, more, Head(uplink)) :
              downlink' = downlink \o [c \in 1 .. k |-> Ack(c, "EXECUTED")]
                            \o last
        BY <3>2
      <4>2. /\ downlink' \in Seq(Reports)
            /\ \A i \in DOMAIN downlink' :
                 \/ i \in DOMAIN downlink /\ downlink'[i] = downlink[i]
                 \/ \E c \in 1 .. k : downlink'[i] = Ack(c, "EXECUTED")
                 \/ k < N /\ downlink'[i] \in {Nack, Ack(k + 1, "FAILED")}
        BY <1>0, <4>1, ExecutionReports, Zenon
      <4>3. PICK i \in DOMAIN downlink' : m = downlink'[i]
        BY <4>2 DEF ToSet
      <4>4. i \in DOMAIN downlink => downlink[i] \in ToSet(downlink)
        BY DEF ToSet
      <4> QED
        BY <4>2, <4>3, <4>4
    <3>5. ASSUME NEW c \in 1 .. k, m = Ack(c, "EXECUTED")
          PROVE  ReportTruthful(m)'
      BY <3>3, <3>5 DEF ReportTruthful, Ack
    <3>6. CASE k < N /\ m \in {Nack, Ack(k + 1, "FAILED")}
      BY <3>3, <3>6 DEF ReportTruthful, Ack, Nack
    <3> QED
      BY <1>1, <3>4, <3>5, <3>6
  <2> QED
    BY <2>1, <2>2
<1> QED
  BY <1>2, <1>3, <1>4, <1>5, <1>6, <1>7, <1>8, <1>9 DEF Next

(* A new plan is a draft with nothing under way.                           *)
LEMMA InitIndInv == Init => IndInv
<1> SUFFICES ASSUME Init PROVE IndInv
  OBVIOUS
<1>1. RowsTypeOK
  BY DEF Init, RowsTypeOK, Statuses, CommandStatuses
<1>2. WiresTypeOK
  <2>1. uplink = <<>> /\ downlink = <<>>
    BY DEF Init
  <2> QED
    BY <2>1 DEF WiresTypeOK
<1>3. CountsTypeOK
  BY DEF Init, CountsTypeOK
<1>4. FlagsTypeOK
  BY DEF Init, FlagsTypeOK
<1>5. handlers = {} /\ ToSet(downlink) = {}
  BY DEF Init, ToSet
<1>6. StatusTruthful
  BY DEF Init, StatusTruthful
<1> QED
  BY <1>1, <1>2, <1>3, <1>4, <1>5, <1>6 DEF IndInv, TypeOK

(* Every step keeps the inductive invariant.                               *)
LEMMA NextIndInv == IndInv /\ [Next]_vars => IndInv'
<1> SUFFICES ASSUME IndInv, [Next]_vars PROVE IndInv'
  OBVIOUS
<1>1. TypeOK'
  BY NextTypeOK DEF IndInv
<1>2. StatusTruthful'
  BY NextStatusTruthful
<1>3. \A g \in handlers' : HandlerTruthful(g)'
  BY NextHandlersTruthful
<1>4. \A m \in ToSet(downlink') : ReportTruthful(m)'
  BY NextReportsTruthful
<1> QED
  BY <1>1, <1>2, <1>3, <1>4 DEF IndInv

(* The inductive invariant holds throughout, however the handlers of the   *)
(* API and of the gateway interleave, fail or are cut off.                 *)
THEOREM PlanInvariance == Spec => []IndInv
  BY InitIndInv, NextIndInv, PTL DEF Spec

(* Type correctness: in particular the marking of an uploaded plan's       *)
(* commands stays within the plan.                                         *)
THEOREM PlanTypeCorrect == Spec => []TypeOK
<1>1. IndInv => TypeOK
  BY DEF IndInv
<1> QED
  BY <1>1, PlanInvariance, PTL

(* The rows of a plan and of its commands never claim an upload, an        *)
(* execution or a refusal that did not happen (updateStatus and the        *)
(* handlers of COMMAND_ACK and COMMAND_NACK).                              *)
THEOREM RowsTruthful == Spec => []StatusTruthful
<1>1. IndInv => StatusTruthful
  BY DEF IndInv
<1> QED
  BY <1>1, PlanInvariance, PTL

-----------------------------------------------------------------------------
(* One upload at a time *)

\* Operators wait for each answer, no query has failed and the ground has
\* stayed up.
Undisturbed == ~overlapped /\ failures = 0

Sending(h) == h.kind = "upload" /\ h.at \in {"decide", "commit"}

\* What a handler at an await has read of the plan still holds.
UpToDate(h) ==
  /\ h.kind = "sign" /\ h.at = "write" => plan = "DRAFT"
  /\ h.kind = "upload" /\ h.at = "send" => plan = "SIGNED" /\ uploads = 0
  /\ Sending(h) => plan = "SIGNED"
  /\ h.kind \in {"ack", "nack"} /\ h.at = "commit" => plan \notin {"DRAFT", "SIGNED"}

\* An undisturbed request is alone, and its plan leaves SIGNED with the one
\* upload that was sent; the reports that are handled beside it write only to
\* a plan past it.
SerialInv ==
  Undisturbed =>
    /\ \A g, h \in handlers : IsRequest(g) /\ IsRequest(h) => g = h
    /\ \A h \in handlers : UpToDate(h)
    /\ uploads <= 1
    /\ plan \in {"DRAFT", "SIGNED"} => uploads = 0 \/ \E h \in handlers : Sending(h)

(* A step of a handler leaves it as one of its kind, or ends it.           *)
LEMMA StepMoves ==
  ASSUME TypeOK, NEW h \in handlers, Step(h) \/ QueryFails(h)
  PROVE  \/ handlers' = handlers \ {h}
         \/ \E g \in HandlerRecords : /\ g.kind = h.kind
                                     /\ handlers' = (handlers \ {h}) \cup {g}
<1>0. h \in HandlerRecords
  BY DEF TypeOK
<1> DEFINE Moved == \/ handlers' = handlers \ {h}
                    \/ \E g \in HandlerRecords :
                         g.kind = h.kind /\ handlers' = (handlers \ {h}) \cup {g}
<1>1. /\ \A p \in Points : Goto(h, p) => Moved
      /\ \A s \in Statuses : Decide(h, s) => Moved
      /\ \A c \in Commands : Become(h, [h EXCEPT !.cmd = c]) => Moved
      /\ End(h) => Moved
  <2>1. ASSUME NEW p \in Points, Goto(h, p) PROVE Moved
    <3>1. [h EXCEPT !.at = p] \in HandlerRecords /\ [h EXCEPT !.at = p].kind = h.kind
      BY <1>0, MovedTypes DEF HandlerRecords
    <3> QED
      BY <2>1, <3>1 DEF Goto, Become
  <2>2. ASSUME NEW s \in Statuses, Decide(h, s) PROVE Moved
    <3>1. /\ [h EXCEPT !.at = "decide", !.want = s] \in HandlerRecords
          /\ [h EXCEPT !.at = "decide", !.want = s].kind = h.kind
      BY <1>0, MovedTypes DEF HandlerRecords
    <3> QED
      BY <2>2, <3>1 DEF Decide, Become
  <2>3. ASSUME NEW c \in Commands, Become(h, [h EXCEPT !.cmd = c]) PROVE Moved
    <3>1. [h EXCEPT !.cmd = c] \in HandlerRecords /\ [h EXCEPT !.cmd = c].kind = h.kind
      BY <1>0, MovedTypes DEF HandlerRecords
    <3> QED
      BY <2>3, <3>1 DEF Become
  <2> QED
    BY <2>1, <2>2, <2>3 DEF End
<1> HIDE DEF Moved
<1>2. ASSUME Proceed(h, TRUE) \/ Proceed(h, FALSE) PROVE Moved
  BY <1>1, <1>2 DEF Proceed, Points, Statuses
<1>3. CASE DecideStatus(h) \/ CommitStatus(h)
  BY <1>1, <1>2, <1>3 DEF DecideStatus, CommitStatus, Points, Moved
<1>4. CASE ReadForSign(h) \/ WriteSignature(h) \/ ReadForUpload(h) \/ SendPlan(h)
  BY <1>1, <1>4 DEF ReadForSign, WriteSignature, ReadForUpload, SendPlan, Points, Moved
<1>5. CASE MarkSent(h)
  <2>1. h.cmd \in Commands /\ (h.cmd < N => h.cmd + 1 \in Commands)
    BY <1>0, CommandPlansAssumption DEF HandlerRecords, Commands
  <2> QED
    BY <1>1, <1>5, <2>1 DEF MarkSent, Moved
<1>6. CASE UpdateCommand(h) \/ CheckCommands(h) \/ LookForNack(h) \/ FailCommands(h)
  BY <1>1, <1>6 DEF UpdateCommand, CheckCommands, LookForNack, FailCommands, Points,
                    Statuses, Moved
<1>7. CASE ListPending(h) \/ Resend(h)
  BY <1>1, <1>7 DEF ListPending, Resend, Points, Moved
<1>8. CASE QueryFails(h)
  BY <1>1, <1>2, <1>8 DEF QueryFails, Statuses, Moved
<1> QED
  BY <1>3, <1>4, <1>5, <1>6, <1>7, <1>8 DEF Step, Moved

(* What was up to date stays so while the plan and the uploads stay.       *)
LEMMA UpToDateKept ==
  ASSUME NEW h, UpToDate(h), plan' = plan, uploads' = uploads
  PROVE  UpToDate(h)'
  BY DEF UpToDate, Sending

(* Requests stay alone in the steps of handlers.                           *)
LEMMA RequestsStayAlone ==
  ASSUME TypeOK, NEW h \in handlers, Step(h) \/ QueryFails(h),
         \A f, g \in handlers : IsRequest(f) /\ IsRequest(g) => f = g
  PROVE  \A f, g \in handlers' : IsRequest(f) /\ IsRequest(g) => f = g
<1>1. CASE handlers' = handlers \ {h}
  BY <1>1
<1>2. ASSUME NEW n \in HandlerRecords, n.kind = h.kind,
             handlers' = (handlers \ {h}) \cup {n}
      PROVE  \A f, g \in handlers' : IsRequest(f) /\ IsRequest(g) => f = g
  BY <1>2 DEF IsRequest
<1> QED
  BY <1>1, <1>2, StepMoves

(* What a handler of the gateway reads of a plan that it then writes.      *)
LEMMA CommitsArePastUpload ==
  ASSUME IndInv, NEW h \in handlers, h.kind \in {"ack", "nack"}
  PROVE  /\ h.want \in {"EXECUTING", "COMPLETED", "REJECTED"}
         /\ Allowed(h.want) => plan \notin {"DRAFT", "SIGNED"}
<1>1. h.want \in {"EXECUTING", "COMPLETED", "REJECTED"}
  BY DEF IndInv, HandlerTruthful
<1> QED
  BY <1>1 DEF Allowed, Transitions

(* In a step of one handler of an undisturbed ground, all handlers stay up *)
(* to date: only the upload's own commit, and those past it, write.        *)
LEMMA StepUpToDate ==
  ASSUME IndInv, SerialInv, Undisturbed, NEW h \in handlers, Step(h),
         NEW g \in handlers'
  PROVE  UpToDate(g)'
<1>0. /\ TypeOK /\ h \in HandlerRecords /\ HandlerTruthful(h)
      /\ \A f \in handlers : UpToDate(f)
      /\ \A f \in handlers : IsRequest(f) /\ IsRequest(h) => f = h
      /\ plan \in {"DRAFT", "SIGNED"} => uploads = 0 \/ \E f \in handlers : Sending(f)
  BY DEF IndInv, TypeOK, SerialInv
<1>1. /\ g \in handlers \ {h} \/ (g \in HandlerRecords /\ g.kind = h.kind)
      /\ ~IsRequest(h) \/ g.kind = h.kind \/ ~IsRequest(g)
  BY <1>0, StepMoves DEF IsRequest
<1>2. CASE DecideStatus(h)
  <2>1. plan' = plan /\ uploads' = uploads /\ h.at = "decide"
    BY <1>2 DEF DecideStatus, rows, history
  <2>2. CASE g \in handlers
    BY <1>0, <2>1, <2>2, UpToDateKept
  <2>3. CASE g \notin handlers
    <3>1. CASE Allowed(h.want)
      <4>1. g = [h EXCEPT !.at = "commit"]
        BY <1>2, <2>3, <3>1 DEF DecideStatus, Goto, Become
      <4>2. g.kind = h.kind /\ g.at = "commit" /\ UpToDate(h)
        BY <1>0, <4>1 DEF HandlerRecords
      <4> QED
        BY <2>1, <3>1, <4>2, CommitsArePastUpload DEF UpToDate, Sending
    <3>2. CASE ~Allowed(h.want)
      <4>1. Proceed(h, FALSE)
        BY <1>2, <3>2 DEF DecideStatus
      <4>2. h.kind \in {"ack", "nack"} /\ g.kind = h.kind /\ g.at \in {"decide", "fail"}
        BY <1>0, <2>3, <4>1 DEF Proceed, Goto, Decide, Become, End, HandlerRecords
      <4> QED
        BY <4>2 DEF UpToDate, Sending
    <3> QED
      BY <3>1, <3>2
  <2> QED
    BY <2>2, <2>3
<1>3. CASE CommitStatus(h)
  <2>1. /\ plan' = h.want /\ h.at = "commit" /\ Proceed(h, TRUE) /\ uploads' = uploads
    BY <1>3 DEF CommitStatus, history
  <2>2. /\ h.kind \in {"upload", "ack", "nack"}
        /\ h.kind = "upload" => h.want = "UPLOADED"
    BY <1>0, <2>1 DEF HandlerTruthful, HandlerRecords, Kinds
  <2>3. plan' \notin {"DRAFT", "SIGNED"}
    BY <2>1, <2>2, CommitsArePastUpload
  <2>4. ASSUME g \in handlers \ {h}
        PROVE  UpToDate(g)'
    <3>1. UpToDate(g) /\ UpToDate(h)
      BY <1>0, <2>4
    <3>2. CASE h.kind = "upload"
      <4>1. ~IsRequest(g)
        BY <1>0, <2>4, <3>2 DEF IsRequest
      <4> QED
        BY <2>3, <4>1 DEF UpToDate, Sending, IsRequest
    <3>3. CASE h.kind \in {"ack", "nack"}
      BY <2>1, <2>3, <3>1, <3>3 DEF UpToDate, Sending
    <3> QED
      BY <2>2, <3>2, <3>3
  <2>5. ASSUME g \notin handlers \ {h}
        PROVE  UpToDate(g)'
    <3>1. \/ h.kind = "upload" /\ g = [h EXCEPT !.at = "mark"]
          \/ h.kind \in {"ack", "nack"} /\ g.kind = h.kind
      BY <1>0, <1>1, <2>2, <2>1, <2>5 DEF Proceed, Goto, Become, End
    <3>2. h.kind = "upload" => g.kind = "upload" /\ g.at = "mark"
      BY <1>0, <3>1 DEF HandlerRecords
    <3> QED
      BY <2>3, <3>1, <3>2 DEF UpToDate, Sending
  <2> QED
    BY <2>4, <2>5
<1>4. CASE ReadForSign(h) \/ ReadForUpload(h)
  <2>1. plan' = plan /\ uploads' = uploads /\ h.at = "read" /\ IsRequest(h)
    BY <1>4 DEF ReadForSign, ReadForUpload, rows, history, IsRequest
  <2>2. CASE g \in handlers
    BY <1>0, <2>1, <2>2, UpToDateKept
  <2>3. CASE g \notin handlers
    <3>1. \/ h.kind = "sign" /\ plan = "DRAFT" /\ g = [h EXCEPT !.at = "write"]
          \/ h.kind = "upload" /\ plan = "SIGNED" /\ g = [h EXCEPT !.at = "send"]
      BY <1>4, <2>3 DEF ReadForSign, ReadForUpload, Goto, Become, End
    <3>2. g.kind = h.kind /\ g.at = (IF h.kind = "sign" THEN "write" ELSE "send")
      BY <1>0, <3>1 DEF HandlerRecords
    <3>3. plan = "SIGNED" => uploads = 0
      BY <1>0, <2>1 DEF Sending, IsRequest
    <3> QED
      BY <2>1, <3>1, <3>2, <3>3 DEF UpToDate, Sending
  <2> QED
    BY <2>2, <2>3
<1>5. CASE WriteSignature(h)
  <2>1. /\ handlers' = handlers \ {h} /\ IsRequest(h) /\ plan' = "SIGNED"
        /\ h.kind = "sign" /\ h.at = "write"
    BY <1>5 DEF WriteSignature, End, IsRequest
  <2>2. ~IsRequest(g) /\ UpToDate(g) /\ plan = "DRAFT"
    BY <1>0, <2>1 DEF UpToDate
  <2> QED
    BY <2>2 DEF UpToDate, Sending, IsRequest
<1>6. CASE SendPlan(h)
  <2>1. /\ plan' = plan /\ IsRequest(h) /\ h.kind = "upload" /\ h.at = "send"
    BY <1>6 DEF SendPlan, rows, IsRequest
  <2>2. CASE g \in handlers \ {h}
    <3>1. ~IsRequest(g) /\ UpToDate(g)
      BY <1>0, <2>1, <2>2
    <3> QED
      BY <2>1, <3>1 DEF UpToDate, Sending, IsRequest
  <2>3. CASE g \notin handlers \ {h}
    <3>1. g = [h EXCEPT !.at = "decide"]
      BY <1>6, <2>3 DEF SendPlan, Goto, Become, End
    <3>2. g.kind = "upload" /\ g.at = "decide" /\ plan = "SIGNED"
      BY <1>0, <2>1, <3>1 DEF HandlerRecords, UpToDate
    <3> QED
      BY <2>1, <3>2 DEF UpToDate, Sending
  <2> QED
    BY <2>2, <2>3
<1>7. ASSUME \/ MarkSent(h) \/ UpdateCommand(h) \/ CheckCommands(h)
             \/ LookForNack(h) \/ FailCommands(h) \/ ListPending(h) \/ Resend(h)
      PROVE  UpToDate(g)'
  <2>1. plan' = plan /\ uploads' = uploads
    BY <1>7 DEF MarkSent, UpdateCommand, CheckCommands, LookForNack, FailCommands,
                ListPending, Resend, rows, history
  <2>2. CASE g \in handlers
    BY <1>0, <2>1, <2>2, UpToDateKept
  <2>3. CASE g \notin handlers
    <3>1. \/ g = [h EXCEPT !.cmd = h.cmd + 1] /\ h.kind = "upload" /\ h.at = "mark"
          \/ \E s \in Statuses :
                g = [h EXCEPT !.at = "decide", !.want = s] /\ h.kind \in {"ack", "nack"}
          \/ g = [h EXCEPT !.at = "check"] /\ h.kind = "ack"
          \/ g = [h EXCEPT !.at = "look"] /\ h.kind = "replay"
          \/ g = [h EXCEPT !.at = "sent"] /\ h.kind = "replay"
      BY <1>7, <2>3 DEF MarkSent, UpdateCommand, CheckCommands, LookForNack,
           FailCommands, ListPending, Resend, Goto, Decide, Become, End, Statuses
    <3>2. /\ g.kind = h.kind /\ g.at # "commit" /\ h.kind # "sign"
          /\ h.kind = "upload" => g.at = "mark"
      BY <1>0, <3>1 DEF HandlerRecords
    <3> QED
      BY <3>2 DEF UpToDate, Sending
  <2> QED
    BY <2>2, <2>3
<1> QED
  BY <1>2, <1>3, <1>4, <1>5, <1>6, <1>7 DEF Step

(* In such a step the plan is uploaded once at most, and is SIGNED after   *)
(* that only until the upload has written its status.                      *)
LEMMA StepUploads ==
  ASSUME IndInv, SerialInv, Undisturbed, NEW h \in handlers, Step(h)
  PROVE  /\ uploads' <= 1
         /\ plan' \in {"DRAFT", "SIGNED"} =>
              uploads' = 0 \/ \E f \in handlers' : Sending(f)
<1>0. /\ TypeOK /\ h \in HandlerRecords /\ HandlerTruthful(h) /\ UpToDate(h)
      /\ \A f \in handlers : IsRequest(f) /\ IsRequest(h) => f = h
      /\ uploads <= 1
      /\ plan \in {"DRAFT", "SIGNED"} => uploads = 0 \/ \E f \in handlers : Sending(f)
      /\ \A f \in handlers \ {h} : f \in handlers'
  BY StepMoves DEF IndInv, TypeOK, SerialInv
<1>1. CASE DecideStatus(h)
  <2>1. plan' = plan /\ uploads' = uploads /\ h.at = "decide"
    BY <1>1 DEF DecideStatus, rows, history
  <2>2. ASSUME Sending(h)
        PROVE  \E f \in handlers' : Sending(f)
    <3>1. Allowed(h.want)
      BY <1>0, <2>2 DEF UpToDate, Sending, HandlerTruthful, Allowed, Transitions
    <3>2. [h EXCEPT !.at = "commit"] \in handlers'
      BY <1>1, <3>1 DEF DecideStatus, Goto, Become
    <3>3. Sending([h EXCEPT !.at = "commit"])
      BY <1>0, <2>2 DEF Sending, HandlerRecords
    <3> QED
      BY <3>2, <3>3
  <2> QED
    BY <1>0, <2>1, <2>2
<1>2. CASE CommitStatus(h)
  <2>1. plan' = h.want /\ h.at = "commit" /\ uploads' = uploads
    BY <1>2 DEF CommitStatus, history
  <2>2. /\ h.kind \in {"upload", "ack", "nack"}
        /\ h.kind = "upload" => h.want = "UPLOADED"
    BY <1>0, <2>1 DEF HandlerTruthful, HandlerRecords, Kinds
  <2> QED
    BY <1>0, <2>1, <2>2, CommitsArePastUpload
<1>3. CASE SendPlan(h)
  <2>1. plan' = plan /\ h.kind = "upload" /\ h.at = "send" /\ uploads = 0
    BY <1>0, <1>3 DEF SendPlan, rows, UpToDate
  <2>2. CASE uploads' = uploads
    BY <2>1, <2>2
  <2>3. CASE uploads' = uploads + 1 /\ Goto(h, "decide")
    <3>1. [h EXCEPT !.at = "decide"] \in handlers'
      BY <2>3 DEF Goto, Become
    <3>2. Sending([h EXCEPT !.at = "decide"])
      BY <1>0, <2>1 DEF Sending, HandlerRecords
    <3> QED
      BY <2>1, <2>3, <3>1, <3>2
  <2> QED
    BY <1>3, <2>2, <2>3 DEF SendPlan
<1>4. CASE WriteSignature(h)
  <2>1. plan = "DRAFT" /\ uploads' = uploads /\ IsRequest(h) /\ ~Sending(h)
    BY <1>0, <1>4 DEF WriteSignature, UpToDate, IsRequest, Sending, history
  <2>2. uploads = 0
    BY <1>0, <2>1 DEF IsRequest, Sending
  <2> QED
    BY <2>1, <2>2
<1>5. ASSUME \/ ReadForSign(h) \/ ReadForUpload(h)
             \/ MarkSent(h) \/ UpdateCommand(h) \/ CheckCommands(h)
             \/ LookForNack(h) \/ FailCommands(h) \/ ListPending(h) \/ Resend(h)
      PROVE  /\ uploads' <= 1
             /\ plan' \in {"DRAFT", "SIGNED"} =>
                  uploads' = 0 \/ \E f \in handlers' : Sending(f)
  <2>1. plan' = plan /\ uploads' = uploads
    BY <1>5 DEF ReadForSign, ReadForUpload, MarkSent, UpdateCommand, CheckCommands,
                LookForNack, FailCommands, ListPending, Resend, rows, history
  <2>2. ~Sending(h)
    BY <1>5 DEF ReadForSign, ReadForUpload, MarkSent, UpdateCommand, CheckCommands,
                LookForNack, FailCommands, ListPending, Resend, Sending
  <2> QED
    BY <1>0, <2>1, <2>2
<1> QED
  BY <1>1, <1>2, <1>3, <1>4, <1>5 DEF Step

(* The other steps leave the plan and its uploads alone, and a request     *)
(* that begins beside another disturbs.                                    *)
LEMMA NextSerialInv ==
  ASSUME IndInv, SerialInv, [Next]_vars
  PROVE  SerialInv'
<1> SUFFICES ASSUME Undisturbed' PROVE SerialInv'
  BY DEF SerialInv
<1>0. TypeOK /\ overlapped \in BOOLEAN /\ failures \in Nat
  BY DEF IndInv, TypeOK, FlagsTypeOK, CountsTypeOK
<1>a. ASSUME Undisturbed, plan' = plan, uploads' = uploads,
             NEW k \in Kinds, NEW p \in {"read", "update", "look", "queued"},
             NEW i, NEW want, NEW c, NEW r,
             handlers' = handlers \cup {Handler(i, k, p, want, c, r)},
             k \in {"sign", "upload"} => \A g \in handlers : ~IsRequest(g)
      PROVE  SerialInv'
  <2> DEFINE n == Handler(i, k, p, want, c, r)
  <2>1. n.kind = k /\ n.at = p
    BY DEF Handler
  <2> HIDE DEF n
  <2>2. handlers' = handlers \cup {n}
    BY <1>a DEF n
  <2>3. UpToDate(n)'
    BY <2>1 DEF UpToDate, Sending
  <2>4. \A f, g \in handlers' : IsRequest(f) /\ IsRequest(g) => f = g
    BY <1>a, <2>1, <2>2 DEF SerialInv, IsRequest
  <2>5. \A g \in handlers' : UpToDate(g)'
    BY <1>a, <2>2, <2>3, UpToDateKept DEF SerialInv
  <2> QED
    BY <1>a, <2>2, <2>4, <2>5 DEF SerialInv
<1>b. ASSUME Undisturbed, UNCHANGED <<plan, uploads, handlers>>
      PROVE  SerialInv'
  <2>1. \A g \in handlers' : UpToDate(g)'
    BY <1>b, UpToDateKept DEF SerialInv
  <2> QED
    BY <1>b, <2>1 DEF SerialInv
<1>1. ASSUME NEW k \in {"sign", "upload"}, NEW want, Request(k, want)
      PROVE  SerialInv'
  <2>1. PICK i \in Numbers : handlers' = handlers \cup {Handler(i, k, "read", want, 1, "EXECUTED")}
    BY <1>1 DEF Request, Begin
  <2>2. /\ overlapped' = (overlapped \/ \E g \in handlers : IsRequest(g))
        /\ failures' = failures /\ plan' = plan /\ uploads' = uploads
    BY <1>1 DEF Request, rows
  <2>3. ~overlapped /\ \A g \in handlers : ~IsRequest(g)
    BY <2>2 DEF Undisturbed
  <2>4. Undisturbed
    BY <2>2, <2>3 DEF Undisturbed
  <2> QED
    BY <1>a, <2>1, <2>2, <2>3, <2>4 DEF Kinds
<1>2. CASE ReceiveReport
  <2> DEFINE m == Head(downlink)
  <2>0. m \in Reports
    BY <1>0, <1>2 DEF ReceiveReport, TypeOK, WiresTypeOK
  <2>1. m.kind \in {"ack", "nack", "replay"}
    BY <2>0 DEF Reports
  <2>2. PICK i \in Numbers :
          handlers' = handlers \cup
            {Handler(i, m.kind, FirstPoint[m.kind], "EXECUTING", m.cmd, m.result)}
    BY <1>2 DEF ReceiveReport, Begin
  <2>3. /\ plan' = plan /\ uploads' = uploads /\ Undisturbed
    BY <1>2 DEF ReceiveReport, rows, counts, Undisturbed
  <2> HIDE DEF m
  <2>4. FirstPoint[m.kind] \in {"read", "update", "look", "queued"} /\ m.kind \in Kinds
    BY <2>1 DEF FirstPoint, Kinds
  <2> QED
    BY <1>a, <2>1, <2>2, <2>3, <2>4
<1>3. ASSUME NEW h \in handlers, Step(h)
      PROVE  SerialInv'
  <2>0. overlapped' = overlapped /\ failures' = failures
    <3>1. CASE DecideStatus(h) \/ CommitStatus(h) \/ ReadForSign(h)
                 \/ WriteSignature(h) \/ ReadForUpload(h) \/ SendPlan(h)
                 \/ MarkSent(h)
      BY <3>1 DEF DecideStatus, CommitStatus, ReadForSign, WriteSignature,
                  ReadForUpload, SendPlan, MarkSent, counts, history
    <3>2. CASE UpdateCommand(h) \/ CheckCommands(h) \/ LookForNack(h)
                 \/ FailCommands(h) \/ ListPending(h) \/ Resend(h)
      BY <3>2 DEF UpdateCommand, CheckCommands, LookForNack, FailCommands,
                  ListPending, Resend, counts, history
    <3> QED
      BY <1>3, <3>1, <3>2 DEF Step
  <2>1. Undisturbed
    BY <2>0 DEF Undisturbed
  <2>2. \A f, g \in handlers' : IsRequest(f) /\ IsRequest(g) => f = g
    BY <1>0, <1>3, <2>1, RequestsStayAlone DEF SerialInv
  <2>3. \A g \in handlers' : UpToDate(g)'
    BY <1>3, <2>1, StepUpToDate
  <2> QED
    BY <1>3, <2>1, <2>2, <2>3, StepUploads DEF SerialInv
<1>4. ASSUME NEW h \in handlers, QueryFails(h)
      PROVE  FALSE
  <2>1. failures' = failures + 1 /\ failures' = 0
    BY <1>4 DEF QueryFails, Undisturbed
  <2> QED
    BY <1>0, <2>1
<1>5. ASSUME Restart
      PROVE  FALSE
  <2>1. failures' = failures + 1 /\ failures' = 0
    BY <1>5 DEF Restart, Undisturbed
  <2> QED
    BY <1>0, <2>1
<1>6. CASE RequestReplay \/ UNCHANGED vars
  BY <1>6, <1>b DEF RequestReplay, vars, rows, counts, history, Undisturbed
<1>7. ASSUME NEW k \in 0 .. N, FlightExecutes(k)
      PROVE  SerialInv'
  BY <1>7, <1>b DEF FlightExecutes, rows, counts, Undisturbed
<1> QED
  BY <1>1, <1>2, <1>3, <1>4, <1>5, <1>6, <1>7 DEF Next, StartSign, StartUpload

(* Operators who wait for each answer upload a plan once at most, whatever *)
(* reports are handled beside the requests, as long as no query fails and  *)
(* the ground stays up (POST /:id/upload and updateStatus).                *)
THEOREM UploadsOnce == Spec => []UploadedOnce
<1>1. Init => SerialInv
  BY DEF Init, SerialInv
<1>2. IndInv /\ SerialInv /\ [Next]_vars => SerialInv'
  BY NextSerialInv
<1>3. SerialInv => UploadedOnce
  BY DEF SerialInv, Undisturbed, UploadedOnce
<1> QED
  BY PlanInvariance, <1>1, <1>2, <1>3, PTL DEF Spec

-----------------------------------------------------------------------------
(* A closed plan *)

\* A handler that has yet to read the plan before it writes it.
Unread(h) == h.at # "commit" /\ (IsRequest(h) => h.at = "read")

\* A plan with status s that no handler is about to write.
Closed(s) == plan = s /\ \A h \in handlers : Unread(h)

(* No transition leaves a closed status, and a handler that reads it goes  *)
(* on to no write.                                                         *)
LEMMA ClosedStep ==
  ASSUME IndInv, NEW s \in {"COMPLETED", "REJECTED"}, Closed(s), [Next]_vars
  PROVE  Closed(s)'
<1>0. /\ TypeOK /\ plan = s
      /\ \A h \in handlers : /\ h \in HandlerRecords /\ h.at # "commit"
                             /\ h.kind \in {"sign", "upload"} => h.at = "read"
  BY DEF IndInv, TypeOK, Closed, Unread, IsRequest
<1>a. \A want : ~Allowed(want)
  BY <1>0 DEF Allowed, Transitions
<1>b. ASSUME plan' = plan, \A g \in handlers' : g \in handlers \/ Unread(g)
      PROVE  Closed(s)'
  <2>1. \A g \in handlers' : Unread(g)
    BY <1>b DEF Closed
  <2> QED
    BY <1>0, <1>b, <2>1 DEF Closed
<1>c. ASSUME NEW h \in handlers, h.at = "decide", Proceed(h, FALSE),
             NEW g \in handlers', g \notin handlers
      PROVE  Unread(g)
  <2>1. h.kind \in {"ack", "nack"}
    BY <1>0, <1>c DEF Proceed
  <2>2. g.kind = h.kind /\ g.at \in {"decide", "fail"}
    BY <1>0, <1>c, <2>1 DEF Proceed, Goto, Decide, Become, End, HandlerRecords
  <2> QED
    BY <2>1, <2>2 DEF Unread, IsRequest
<1>1. ASSUME NEW h \in handlers, Step(h)
      PROVE  Closed(s)'
  <2>1. CASE DecideStatus(h)
    <3>1. plan' = plan /\ h.at = "decide" /\ Proceed(h, FALSE)
      BY <1>a, <2>1 DEF DecideStatus, rows
    <3> QED
      BY <1>b, <1>c, <3>1
  <2>2. CASE ReadForSign(h) \/ ReadForUpload(h)
    BY <1>0, <1>b, <2>2 DEF ReadForSign, ReadForUpload, End, rows
  <2>3. ~(CommitStatus(h) \/ WriteSignature(h) \/ SendPlan(h) \/ MarkSent(h))
    BY <1>0 DEF CommitStatus, WriteSignature, SendPlan, MarkSent
  <2>4. CASE UpdateCommand(h) \/ CheckCommands(h) \/ LookForNack(h)
               \/ FailCommands(h) \/ ListPending(h) \/ Resend(h)
    <3>1. plan' = plan /\ h.kind \in {"ack", "nack", "replay"}
      BY <2>4 DEF UpdateCommand, CheckCommands, LookForNack, FailCommands,
                  ListPending, Resend, rows
    <3>2. ASSUME NEW g \in handlers', g \notin handlers
          PROVE  Unread(g)
      <4>1. \/ g = [h EXCEPT !.at = "decide", !.want = "EXECUTING"]
            \/ g = [h EXCEPT !.at = "decide", !.want = "REJECTED"]
            \/ \E p \in {"check", "look", "sent"} : g = [h EXCEPT !.at = p]
        BY <2>4, <3>2 DEF UpdateCommand, CheckCommands, LookForNack, FailCommands,
                          ListPending, Resend, Goto, Decide, Become, End
      <4>2. g.at # "commit" /\ g.kind = h.kind
        BY <1>0, <4>1 DEF HandlerRecords
      <4> QED
        BY <3>1, <4>2 DEF Unread, IsRequest
    <3> QED
      BY <1>b, <3>1, <3>2
  <2> QED
    BY <1>1, <2>1, <2>2, <2>3, <2>4 DEF Step
<1>2. ASSUME NEW h \in handlers, QueryFails(h)
      PROVE  Closed(s)'
  <2>1. plan' = plan
    BY <1>2 DEF QueryFails, rows
  <2>2. CASE h.at \in {"decide", "commit"}
    BY <1>0, <1>2, <1>b, <1>c, <2>1, <2>2 DEF QueryFails
  <2>3. CASE h.at \notin {"decide", "commit"}
    <3>1. ASSUME NEW g \in handlers', g \notin handlers
          PROVE  Unread(g)
      <4>1. g = [h EXCEPT !.at = "decide", !.want = "REJECTED"] /\ h.kind = "nack"
        BY <1>2, <2>3, <3>1 DEF QueryFails, Decide, Become, End
      <4>2. g.at = "decide" /\ g.kind = "nack"
        BY <1>0, <4>1 DEF HandlerRecords
      <4> QED
        BY <4>2 DEF Unread, IsRequest
    <3> QED
      BY <1>b, <2>1, <3>1
  <2> QED
    BY <2>2, <2>3
<1>3. ASSUME NEW k \in {"sign", "upload"}, NEW want, Request(k, want)
      PROVE  Closed(s)'
  <2>1. PICK i \in Numbers : handlers' = handlers \cup {Handler(i, k, "read", want, 1, "EXECUTED")}
    BY <1>3 DEF Request, Begin
  <2>2. Unread(Handler(i, k, "read", want, 1, "EXECUTED"))
    BY DEF Unread, Handler
  <2>3. plan' = plan
    BY <1>3 DEF Request, rows
  <2> QED
    BY <1>b, <2>1, <2>2, <2>3
<1>4. CASE ReceiveReport
  <2> DEFINE m == Head(downlink)
  <2>0. m \in Reports
    BY <1>0, <1>4 DEF ReceiveReport, TypeOK, WiresTypeOK
  <2>1. m.kind \in {"ack", "nack", "replay"}
    BY <2>0 DEF Reports
  <2>2. PICK i \in Numbers :
          handlers' = handlers \cup
            {Handler(i, m.kind, FirstPoint[m.kind], "EXECUTING", m.cmd, m.result)}
    BY <1>4 DEF ReceiveReport, Begin
  <2>3. plan' = plan
    BY <1>4 DEF ReceiveReport, rows
  <2> HIDE DEF m
  <2>4. Unread(Handler(i, m.kind, FirstPoint[m.kind], "EXECUTING", m.cmd, m.result))
    BY <2>1 DEF Unread, IsRequest, FirstPoint, Handler
  <2> QED
    BY <1>b, <2>2, <2>3, <2>4
<1>5. CASE RequestReplay \/ Restart \/ UNCHANGED vars
  <2>1. plan' = plan /\ handlers' \subseteq handlers
    BY <1>5 DEF RequestReplay, Restart, vars, rows
  <2> QED
    BY <1>b, <2>1
<1>6. ASSUME NEW k \in 0 .. N, FlightExecutes(k)
      PROVE  Closed(s)'
  <2>1. plan' = plan /\ handlers' = handlers
    BY <1>6 DEF FlightExecutes, rows
  <2> QED
    BY <1>b, <2>1
<1> QED
  BY <1>1, <1>2, <1>3, <1>4, <1>5, <1>6 DEF Next, StartSign, StartUpload

LEMMA StaysClosed ==
  ASSUME NEW s \in {"COMPLETED", "REJECTED"}
  PROVE  Spec => [](plan = s /\ handlers = {} => [](plan = s))
<1>1. IndInv /\ Closed(s) /\ [Next]_vars => Closed(s)'
  BY ClosedStep
<1>2. plan = s /\ handlers = {} => Closed(s)
  BY DEF Closed
<1>3. Closed(s) => plan = s
  BY DEF Closed
<1> QED
  BY PlanInvariance, <1>1, <1>2, <1>3, PTL DEF Spec

(* A plan that is closed while no handler runs is never opened again, by   *)
(* no report, replay or request, and by no failure (updateStatus, sign).   *)
THEOREM ClosedPlansStay == Spec => ClosedForGood
  BY StaysClosed DEF ClosedForGood
=============================================================================
