---------------------------- MODULE CommandPlans ----------------------------
(***************************************************************************)
(* The life of one command plan on the ground: the sign and upload         *)
(* requests of ground/src/api/routes/commandPlans.js, and the handlers of  *)
(* COMMAND_ACK, COMMAND_NACK and REPLAY_REQUEST of ground/src/ws/          *)
(* gateway.js, on the rows of ground/src/db/manager.js.                    *)
(*                                                                         *)
(* Node.js runs one handler until it awaits a query.  Each step below is   *)
(* what a handler does from one await to the next, so that the handlers    *)
(* interleave exactly there; each query is atomic, and no two of them are  *)
(* in a transaction.                                                       *)
(***************************************************************************)
EXTENDS Integers, Sequences, SequencesExt

CONSTANTS
  N,              \* how many commands the plan has
  MaxRequests,    \* bound: sign and upload requests
  MaxReplays,     \* bound: REPLAY_REQUESTs
  MaxFailures,    \* bound: failed queries and restarts of the ground
  MaxHandlers     \* bound: handlers that run at once

ASSUME CommandPlansAssumption ==
  /\ N \in Nat \ {0}
  /\ MaxRequests \in Nat /\ MaxReplays \in Nat /\ MaxFailures \in Nat
  /\ MaxHandlers \in Nat \ {0}

VARIABLES
  plan,         \* status of the plan's row
  signature,    \* whether the row has a signature
  cmd,          \* status of each command's row
  handlers,     \* the handlers that run
  uplink,       \* PLAN_UPLOADs on their way: what public_key they carry
  downlink,     \* reports on their way to the gateway
  requests, replays, failures,     \* counts for the bounds
  \* History, read by no action:
  executed,     \* the commands that flight has executed
  refused,      \* flight has reported a NACK
  silent,       \* flight has run commands and reported nothing of it
  uploads,      \* how many uploads were sent
  overlapped,   \* two requests have run at once
  raced         \* a report was handled beside an upload request

rows    == <<plan, signature, cmd>>
wires   == <<uplink, downlink>>
counts  == <<requests, replays, failures>>
history == <<executed, refused, silent, uploads, overlapped, raced>>
vars    == <<rows, handlers, wires, counts, history>>

Commands == 1 .. N
Statuses ==
  {"DRAFT", "SIGNED", "UPLOADED", "EXECUTING", "COMPLETED", "REJECTED"}
\* CmdResult.status, which an ACK of a command carries.
Results == {"EXECUTED", "FAILED"}
\* The database knows ACKED and EXPIRED too; no handler writes them of its
\* own, and no result of flight carries them.
CommandStatuses == {"QUEUED", "SENT", "EXECUTED", "FAILED"}

\* VALID_TRANSITIONS of commandPlans.updateStatus.
Transitions ==
  { <<"DRAFT", "SIGNED">>, <<"SIGNED", "UPLOADED">>,
    <<"UPLOADED", "EXECUTING">>, <<"UPLOADED", "REJECTED">>,
    <<"EXECUTING", "COMPLETED">>, <<"EXECUTING", "REJECTED">> }

\* Mutant: a target that is not checked against the current status.
AllowedFromAny(want) == \E s \in Statuses : <<s, want>> \in Transitions

Allowed(want) == <<plan, want>> \in Transitions

-----------------------------------------------------------------------------
(* Handlers *)

\* A handler: what it serves, the await it is at, the plan status it wants
\* to write or last wrote, the command it is about and the result of it.
Kinds  == {"sign", "upload", "ack", "nack", "replay"}
Points == {"read", "write", "send", "decide", "commit", "mark", "update",
           "check", "fail", "queued", "sent", "look"}
Handler(id, kind, at, want, c, result) ==
  [id |-> id, kind |-> kind, at |-> at, want |-> want, cmd |-> c,
   result |-> result]

IsRequest(h) == h.kind \in {"sign", "upload"}

\* Numbers tell handlers of one kind apart.
Numbers == 1 .. MaxHandlers
Free(kind, i)   == \A h \in handlers : h.kind = kind => h.id # i
IsNext(kind, i) == Free(kind, i) /\ \A j \in 1 .. i - 1 : ~Free(kind, j)

Begin(kind, at, want, c, result) ==
  \E i \in Numbers :
    /\ Cardinality(handlers) < MaxHandlers /\ IsNext(kind, i)
    /\ handlers' = handlers \cup {Handler(i, kind, at, want, c, result)}

Become(h, g) == handlers' = (handlers \ {h}) \cup {g}

Goto(h, at)         == Become(h, [h EXCEPT !.at = at])
Decide(h, want)     == Become(h, [h EXCEPT !.at = "decide", !.want = want])
End(h)              == handlers' = handlers \ {h}

\* How a handler goes on when the status it wanted is written, or when
\* updateStatus throws: the ACK and NACK handlers catch, upload does not.
Proceed(h, written) ==
  \/ h.kind = "upload" /\ written /\ Goto(h, "mark")
  \/ h.kind = "upload" /\ ~written /\ End(h)
  \/ h.kind = "ack" /\ h.want = "EXECUTING" /\ Decide(h, "COMPLETED")
  \/ h.kind = "ack" /\ h.want # "EXECUTING" /\ End(h)
  \/ h.kind = "nack" /\ h.want = "EXECUTING" /\ Decide(h, "REJECTED")
  \/ h.kind = "nack" /\ h.want # "EXECUTING" /\ Goto(h, "fail")

\* updateStatus: the current status is read and checked ...
DecideStatus(h) ==
  /\ h.at = "decide"
  /\ IF Allowed(h.want) THEN Goto(h, "commit") ELSE Proceed(h, FALSE)
  /\ UNCHANGED <<rows, wires, counts, history>>

\* ... and the new one is then written, whatever the row holds by now.
CommitStatus(h) ==
  /\ h.at = "commit"
  /\ plan' = h.want
  /\ Proceed(h, TRUE)
  /\ UNCHANGED <<signature, cmd, wires, counts, history>>

-----------------------------------------------------------------------------
(* Requests of the operators *)

Request(kind, want) ==
  /\ requests < MaxRequests
  /\ requests' = requests + 1
  /\ Begin(kind, "read", want, 1, "EXECUTED")
  /\ overlapped' = (overlapped \/ \E g \in handlers : IsRequest(g))
  /\ UNCHANGED <<rows, wires, replays, failures, executed, refused, silent,
                 uploads, raced>>

StartSign   == Request("sign", "SIGNED")
StartUpload == Request("upload", "UPLOADED")

\* commandPlans.sign: the status is read, and the row written.
ReadForSign(h) ==
  /\ h.kind = "sign" /\ h.at = "read"
  /\ IF plan = "DRAFT" THEN Goto(h, "write") ELSE End(h)
  /\ UNCHANGED <<rows, wires, counts, history>>

WriteSignature(h) ==
  /\ h.kind = "sign" /\ h.at = "write"
  /\ plan' = "SIGNED" /\ signature' = TRUE
  /\ End(h)
  /\ UNCHANGED <<cmd, wires, counts, history>>

\* Mutant: the upload of a plan in any status.
ReadForUploadUnchecked(h) ==
  /\ h.kind = "upload" /\ h.at = "read"
  /\ Goto(h, "send")
  /\ UNCHANGED <<rows, wires, counts, history>>

\* POST /:id/upload: the plan is read ...
ReadForUpload(h) ==
  /\ h.kind = "upload" /\ h.at = "read"
  /\ IF plan = "SIGNED" THEN Goto(h, "send") ELSE End(h)
  /\ UNCHANGED <<rows, wires, counts, history>>

\* ... and, when the flight segment is connected and the contact window
\* ACTIVE, sent with the public key of the request, if it has one.
SendPlan(h) ==
  /\ h.kind = "upload" /\ h.at = "send"
  /\ \/ /\ \E key \in {"given", "null"} : uplink' = Append(uplink, key)
        /\ uploads' = uploads + 1
        /\ Goto(h, "decide")
     \/ End(h) /\ UNCHANGED <<uplink, uploads>>
  /\ UNCHANGED <<rows, downlink, counts, executed, refused, silent,
                 overlapped, raced>>

\* The commands are then marked, one query each.
MarkSent(h) ==
  /\ h.kind = "upload" /\ h.at = "mark"
  /\ cmd' = [cmd EXCEPT ![h.cmd] = "SENT"]
  /\ IF h.cmd < N THEN Become(h, [h EXCEPT !.cmd = h.cmd + 1]) ELSE End(h)
  /\ UNCHANGED <<plan, signature, wires, counts, history>>

-----------------------------------------------------------------------------
(* The flight segment *)

Ack(c, result) == [kind |-> "ack", cmd |-> c, result |-> result]
Nack           == [kind |-> "nack", cmd |-> 1, result |-> "FAILED"]
Replay         == [kind |-> "replay", cmd |-> 1, result |-> "FAILED"]

\* What execute_single may have executed when it answers FAILED: nothing if
\* the handler of c raised, c if the audit log raised after it.
RanThoughFailed(c) == {{}, {c}}

\* How the reports of a plan end of which k commands were executed: with
\* them, if they are all; else with a NACK, alone if a gate stopped the plan,
\* after the result of the command that failed otherwise, which may have run.
Endings(k, more, key) ==
  {e \in {<<>>, <<Nack>>, <<Ack(k + 1, "FAILED"), Nack>>} :
     CASE e = <<>>     -> k = N
       [] e = <<Nack>> -> k = 0 /\ more = {}
       [] OTHER        -> k < N /\ key = "given"}

\* The reports are those the gateway reads (gateway.test.js sends them).
Report(k, more, key) ==
  /\ \E ending \in Endings(k, more, key) :
       downlink' = downlink \o [c \in 1 .. k |-> Ack(c, "EXECUTED")] \o ending
  /\ refused' = (refused \/ k < N)
  /\ UNCHANGED silent

\* Nothing is reported: the audit log raises out of execute_plan, before or
\* after any of its commands, bytes.fromhex does on a null key, or the main
\* loop drops the result.
ReportNothing(ran) ==
  /\ silent' = (silent \/ ran # {})
  /\ UNCHANGED <<downlink, refused>>

\* execute_plan on the next upload: k commands are executed in order, then
\* one fails or the plan is done; k = 0 also when a gate rejects the plan.
\* Without a public_key, or with a null one, no key is trusted.
FlightExecutes(k) ==
  /\ uplink # <<>>
  /\ k > 0 => Head(uplink) = "given"
  /\ uplink' = Tail(uplink)
  /\ \E more \in IF k < N /\ Head(uplink) = "given"
                  THEN RanThoughFailed(k + 1) ELSE {{}} :
       /\ executed' = executed \cup 1 .. k \cup more
       /\ Report(k, more, Head(uplink)) \/ ReportNothing(1 .. k \cup more)
  /\ UNCHANGED <<rows, handlers, counts, uploads, overlapped, raced>>

RequestReplay ==
  /\ replays < MaxReplays
  /\ replays' = replays + 1
  /\ downlink' = Append(downlink, Replay)
  /\ UNCHANGED <<rows, handlers, uplink, requests, failures,
                 history>>

-----------------------------------------------------------------------------
(* The gateway *)

\* Mutant: the commands are checked before the acked one is updated.
FirstPointChecking ==
  [ack |-> "check", nack |-> "look", replay |-> "queued"]

FirstPoint == [ack |-> "update", nack |-> "look", replay |-> "queued"]

\* A message arrives, and its handler runs beside the others.
ReceiveReport ==
  /\ downlink # <<>>
  /\ downlink' = Tail(downlink)
  /\ LET m == Head(downlink)
     IN  Begin(m.kind, FirstPoint[m.kind], "EXECUTING", m.cmd, m.result)
  /\ raced' = (raced \/ \E h \in handlers : h.kind = "upload")
  /\ UNCHANGED <<rows, uplink, counts, executed, refused, silent, uploads,
                 overlapped>>

\* COMMAND_ACK: the status that the ACK carries is written, EXECUTED if it
\* carries none ...
UpdateCommand(h) ==
  /\ h.kind = "ack" /\ h.at = "update"
  /\ cmd' = [cmd EXCEPT ![h.cmd] = h.result]
  /\ Goto(h, "check")
  /\ UNCHANGED <<plan, signature, wires, counts, history>>

\* Mutant: commands that were sent count as executed.
AllSent == \A c \in Commands : cmd[c] # "QUEUED"

AllExecuted == \A c \in Commands : cmd[c] = "EXECUTED"

\* ... and, when all are executed, the plan is led to COMPLETED.
CheckCommands(h) ==
  /\ h.kind = "ack" /\ h.at = "check"
  /\ IF AllExecuted THEN Decide(h, "EXECUTING") ELSE End(h)
  /\ UNCHANGED <<rows, wires, counts, history>>

\* COMMAND_NACK: an UPLOADED plan goes through EXECUTING to REJECTED, and
\* its commands fail.
LookForNack(h) ==
  /\ h.kind = "nack" /\ h.at = "look"
  /\ IF plan = "UPLOADED" THEN Decide(h, "EXECUTING")
                          ELSE Decide(h, "REJECTED")
  /\ UNCHANGED <<rows, wires, counts, history>>

FailCommands(h) ==
  /\ h.kind = "nack" /\ h.at = "fail"
  /\ cmd' = [c \in Commands |-> "FAILED"]
  /\ End(h)
  /\ UNCHANGED <<plan, signature, wires, counts, history>>

\* REPLAY_REQUEST: a plan with a QUEUED or a SENT command is sent again, if
\* it is signed, without a public_key.
ListPending(h) ==
  /\ h.kind = "replay"
  /\ \/ /\ h.at = "queued"
        /\ IF \E c \in Commands : cmd[c] = "QUEUED"
             THEN Goto(h, "look") ELSE Goto(h, "sent")
     \/ /\ h.at = "sent"
        /\ IF \E c \in Commands : cmd[c] = "SENT"
             THEN Goto(h, "look") ELSE End(h)
  /\ UNCHANGED <<rows, wires, counts, history>>

Resend(h) ==
  /\ h.kind = "replay" /\ h.at = "look"
  /\ uplink' = IF signature THEN Append(uplink, "missing") ELSE uplink
  /\ End(h)
  /\ UNCHANGED <<rows, downlink, counts, history>>

-----------------------------------------------------------------------------
(* Failures *)

\* A query fails: updateStatus throws, and any other error ends a handler,
\* but for the first look of a NACK, which is inside a catch of its own.
QueryFails(h) ==
  /\ failures < MaxFailures
  /\ failures' = failures + 1
  /\ \/ h.at \in {"decide", "commit"} /\ Proceed(h, FALSE)
     \/ h.kind = "nack" /\ h.at = "look" /\ Decide(h, "REJECTED")
     \/ /\ h.at \notin {"decide", "commit"}
        /\ ~(h.kind = "nack" /\ h.at = "look")
        /\ End(h)
  /\ UNCHANGED <<rows, wires, requests, replays, history>>

\* The ground process restarts: rows stay, handlers and connections do not.
Restart ==
  /\ failures < MaxFailures
  /\ failures' = failures + 1
  /\ handlers' = {} /\ uplink' = <<>> /\ downlink' = <<>>
  /\ UNCHANGED <<rows, requests, replays, history>>

-----------------------------------------------------------------------------

Init ==
  /\ plan = "DRAFT" /\ signature = FALSE
  /\ cmd = [c \in Commands |-> "QUEUED"]
  /\ handlers = {}
  /\ uplink = <<>> /\ downlink = <<>>
  /\ requests = 0 /\ replays = 0 /\ failures = 0
  /\ executed = {} /\ refused = FALSE /\ silent = FALSE /\ uploads = 0
  /\ overlapped = FALSE /\ raced = FALSE

Step(h) ==
  \/ DecideStatus(h) \/ CommitStatus(h)
  \/ ReadForSign(h) \/ WriteSignature(h)
  \/ ReadForUpload(h) \/ SendPlan(h) \/ MarkSent(h)
  \/ UpdateCommand(h) \/ CheckCommands(h)
  \/ LookForNack(h) \/ FailCommands(h)
  \/ ListPending(h) \/ Resend(h)

Next ==
  \/ StartSign \/ StartUpload \/ RequestReplay
  \/ \E k \in 0 .. N : FlightExecutes(k)
  \/ ReceiveReport
  \/ \E h \in handlers : Step(h) \/ QueryFails(h)
  \/ Restart

\* The event loop goes on, and messages are delivered.
Fairness ==
  /\ WF_vars(\E h \in handlers : Step(h))
  /\ WF_vars(ReceiveReport)

Spec == Init /\ [][Next]_vars /\ Fairness

-----------------------------------------------------------------------------
(* Properties *)

HandlerRecords ==
  [id : Numbers, kind : Kinds, at : Points, want : Statuses, cmd : Commands,
   result : Results]

Reports ==
  [kind : {"ack", "nack", "replay"}, cmd : Commands, result : Results]

RowsTypeOK ==
  /\ plan \in Statuses
  /\ signature \in BOOLEAN
  /\ cmd \in [Commands -> CommandStatuses]

WiresTypeOK ==
  /\ uplink \in Seq({"given", "null", "missing"})
  /\ downlink \in Seq(Reports)

CountsTypeOK ==
  /\ requests \in Nat /\ replays \in Nat /\ failures \in Nat
  /\ uploads \in Nat
  /\ executed \subseteq Commands

FlagsTypeOK ==
  /\ refused \in BOOLEAN /\ silent \in BOOLEAN
  /\ overlapped \in BOOLEAN /\ raced \in BOOLEAN

\* Every variable keeps its type; the marking of the commands as SENT stays
\* within the plan.
TypeOK ==
  /\ RowsTypeOK
  /\ handlers \subseteq HandlerRecords
  /\ WiresTypeOK /\ CountsTypeOK /\ FlagsTypeOK

\* The rows never claim what did not happen, however handlers overlap, fail
\* or are cut off by a restart: no status past SIGNED without an upload, no
\* COMPLETED plan with a command that was not executed, no REJECTED plan
\* and no FAILED command that flight did not refuse.
StatusTruthful ==
  /\ plan # "DRAFT" => signature
  /\ plan \notin {"DRAFT", "SIGNED"} => uploads > 0
  /\ plan = "EXECUTING" => executed = Commands \/ refused
  /\ plan = "COMPLETED" => executed = Commands
  /\ plan = "REJECTED" => refused
  /\ \A c \in Commands : /\ cmd[c] = "EXECUTED" => c \in executed
                         /\ cmd[c] = "FAILED" => refused

\* What a handler, at each of its awaits, relies on: the report that started
\* it is true, an upload that has sent counts, and a status about to be
\* written was allowed when it was read.
HandlerTruthful(h) ==
  /\ h.kind = "sign" => h.at \in {"read", "write"}
  /\ h.kind = "upload" =>
       /\ h.at \in {"read", "send", "decide", "commit", "mark"}
       /\ h.want = "UPLOADED"
       /\ h.at \notin {"read", "send"} => uploads > 0
  /\ h.kind = "ack" =>
       /\ h.at \in {"update", "check", "decide", "commit"}
       /\ h.want \in {"EXECUTING", "COMPLETED"}
       /\ h.result = "EXECUTED" => h.cmd \in executed
       /\ h.result = "FAILED" => refused
       /\ h.at \in {"decide", "commit"} => executed = Commands
  /\ h.kind = "nack" =>
       /\ h.at \in {"look", "decide", "commit", "fail"}
       /\ h.want \in {"EXECUTING", "REJECTED"}
       /\ refused
  /\ h.kind = "replay" => h.at \in {"queued", "sent", "look"}
  /\ h.at = "commit" => signature /\ uploads > 0

\* A report says what flight has done.
ReportTruthful(m) ==
  /\ m.kind = "ack" => /\ m.result = "EXECUTED" => m.cmd \in executed
                       /\ m.result = "FAILED" => refused
  /\ m.kind = "nack" => refused

\* The inductive invariant: what the rows, the handlers and the reports on
\* their way say is true together, in every interleaving of the queries.
IndInv ==
  /\ TypeOK
  /\ StatusTruthful
  /\ \A h \in handlers : HandlerTruthful(h)
  /\ \A m \in ToSet(downlink) : ReportTruthful(m)

\* Operators who wait for each answer upload a plan once, whatever reports
\* arrive meanwhile, as long as no query fails and the ground stays up.
UploadedOnce == ~overlapped /\ failures = 0 => uploads <= 1

\* A plan that is closed while no handler runs stays as it is: no later
\* request, report or replay opens it again.
ClosedForGood ==
  \A s \in {"COMPLETED", "REJECTED"} :
    [](plan = s /\ handlers = {} => [](plan = s))

\* A plan that flight has executed without a refusal ends as COMPLETED,
\* unless flight kept quiet about commands that it ran, a report was handled
\* beside an upload, requests overlapped, or something failed.
CompletesUnlessRaced ==
  <>[](executed = Commands /\ ~refused /\ ~silent /\ ~raced /\ ~overlapped
         /\ failures = 0)
    => <>[](plan = "COMPLETED")

-----------------------------------------------------------------------------
(* Claims of the repository that the code does not keep *)

\* The statuses move along the transitions that updateStatus documents.
StatusGraph == [][plan' # plan => <<plan, plan'>> \in Transitions]_vars

\* A plan is COMPLETED when all of its commands are executed, and flight has
\* reported so.
PlanCompletes ==
  <>[](executed = Commands /\ ~refused /\ ~silent /\ ~overlapped
         /\ failures = 0)
    => <>[](plan = "COMPLETED")
=============================================================================
