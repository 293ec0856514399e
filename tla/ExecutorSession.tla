--------------------------- MODULE ExecutorSession ---------------------------
(***************************************************************************)
(* One run of a live executor session: the native server (Codex App Server *)
(* or Hermes ACP), the adapter's thread that talks to it over a pipe, and  *)
(* the worker's main thread that polls the adapter and reports to the task *)
(* (executors/codex.py, executors/hermes.py, hermes_acp.py,                *)
(* control_transport.py, control_runtime.py, cli.py).                      *)
(*                                                                         *)
(* The threads share a record of the run (status and result, written one   *)
(* after the other), the RunLease (in memory and on disk) and, for Codex,  *)
(* the control plane.  A step is what one of them does between two points  *)
(* at which another may look.  Tasks use the elevation protocol: a native  *)
(* approval becomes a wait of the task, and the run that asked ends.  What *)
(* an answer then starts is in Elevation.                                  *)
(***************************************************************************)
EXTENDS Naturals, Sequences

CONSTANTS
    Adapters,       \* executors: codex, hermes
    MaxAsks,        \* bound: native approval requests
    MaxFaults       \* bound: deaths, lost notifications and timeouts

ASSUME SessionAssumption ==
    /\ Adapters \subseteq {"codex", "hermes"}
    /\ MaxAsks \in Nat /\ MaxFaults \in Nat

VARIABLES
    run,        \* the executor, and whether its session is retained
    server,     \* the native process, its turn, and what it has to answer
    wire,       \* its stdout: the pipe, and the reader's buffer
    plane,      \* control state of the pending request
    thread,     \* the adapter's thread
    rec,        \* what poll reads: status and result
    lease,      \* the RunLease on disk and in the adapter's memory
    worker,     \* the main thread of the worker process
    task,       \* the status of the task
    closing,    \* a close of the task by the user
    asks, faults

shared == <<plane, rec, lease, task>>
bounds == <<asks, faults>>
vars == <<run, server, wire, thread, worker, closing, shared, bounds>>

-----------------------------------------------------------------------------
(* Records.                                                                *)

Over == {"completed", "failed", "interrupted"}
Requests == {"none", "start", "read", "interrupt", "archive", "late"}
Messages == {"started", "running", "over", "interrupted", "archived", "late",
             "ask", "done"}

Run == [adapter : Adapters, retain : BOOLEAN]
Server == [up : BOOLEAN, turn : {"none", "running"} \cup Over, ask : BOOLEAN,
           archived : BOOLEAN, due : SUBSET (Requests \ {"none"})]
Plane == {"none", "pending", "responded", "expired", "invalidated"}
\* known: turn_id is; completed: record["completion"]; sent: interrupt_sent.
Thread == [pc : {"open", "rpc", "loop", "prompt", "blocked", "asking", "telling",
                 "yielding", "deciding", "resumed", "ended", "archived",
                 "outcome", "publish", "fail", "failed", "lease", "finally",
                 "done", "dead"},
           awaits : Requests, known : BOOLEAN, completed : BOOLEAN, sent : BOOLEAN]
Rec == [status : {"running", "input_required", "completed", "failed", "needs_recovery"},
        result : {"none", "approval", "outcome", "resource", "failure"}]
LeaseState == {"active", "stale", "suspended", "closed"}
Worker == [pc : {"command", "start", "poll", "beat", "status", "result", "act", "dialog", "gone"},
           seen : Rec]

Codex == run.adapter = "codex"
Hermes == run.adapter = "hermes"
Cancelled == closing = "signalled"

Init ==
    /\ run \in Run
    /\ server = [up |-> FALSE, turn |-> "none", ask |-> FALSE, archived |-> FALSE,
                 due |-> {}]
    /\ wire = [pipe |-> <<>>, buf |-> <<>>]
    /\ plane = "none"
    /\ thread = [pc |-> "open", awaits |-> "none", known |-> FALSE,
                 completed |-> FALSE, sent |-> FALSE]
    /\ rec = [status |-> "running", result |-> "none"]
    /\ lease = [disk |-> "active", mem |-> "active"]
    /\ worker = [pc |-> "start", seen |-> rec]
    /\ task = "running"
    /\ closing = "none"
    /\ asks = 0 /\ faults = 0

Goto(pc) == thread' = [thread EXCEPT !.pc = pc]
At(pc) == thread.pc = pc
Fault == faults < MaxFaults /\ faults' = faults + 1
Put(msgs) == wire' = [wire EXCEPT !.pipe = @ \o msgs]
Down == server' = [server EXCEPT !.up = FALSE]

-----------------------------------------------------------------------------
(* The native server.                                                      *)

\* It takes up the turn.  (Hermes answers session/prompt when the turn ends.)
Begin ==
    /\ server.up /\ "start" \in server.due /\ server.turn = "none"
    /\ server' = [server EXCEPT !.turn = "running",
                     !.due = IF Codex THEN @ ELSE @ \ {"start"}]
    /\ UNCHANGED <<run, wire, thread, worker, closing, shared, bounds>>

Reply(q) ==
    /\ server.up /\ q \in server.due
    /\ LET s == [server EXCEPT !.due = @ \ {q}]
       IN CASE q = "start" ->
                   /\ s.turn # "none"
                   /\ server' = s /\ Put(<<"started">>) /\ UNCHANGED faults
            [] q = "read" ->
                   /\ Put(<<IF s.turn \in Over THEN "over" ELSE "running">>)
                   /\ server' = s /\ UNCHANGED faults
            [] q = "late" ->
                   server' = s /\ Put(<<"late">>) /\ UNCHANGED faults
            [] q = "archive" ->
                   /\ server' = [s EXCEPT !.archived = TRUE]
                   /\ Put(<<"archived">>) /\ UNCHANGED faults
            [] q = "interrupt" /\ s.turn = "running" ->
                   /\ server' = [s EXCEPT !.turn = "interrupted", !.ask = FALSE]
                   /\ \/ Put(<<"interrupted", "done">>) /\ UNCHANGED faults
                      \/ Put(<<"interrupted">>) /\ Fault
            [] OTHER ->
                   server' = s /\ Put(<<"interrupted">>) /\ UNCHANGED faults
    /\ UNCHANGED <<run, thread, worker, closing, shared, asks>>

\* The turn ends by itself; a notification may be lost, a response may not.
EndTurn ==
    /\ server.up /\ server.turn = "running" /\ ~server.ask
    /\ \E final \in {"completed", "failed"} :
           server' = [server EXCEPT !.turn = final]
    /\ \/ Put(<<"done">>) /\ UNCHANGED faults
       \/ Codex /\ Fault /\ UNCHANGED wire
    /\ UNCHANGED <<run, thread, worker, closing, shared, asks>>

Ask ==
    /\ server.up /\ server.turn = "running" /\ ~server.ask
    /\ asks < MaxAsks
    /\ asks' = asks + 1
    /\ server' = [server EXCEPT !.ask = TRUE]
    /\ Put(<<"ask">>)
    /\ UNCHANGED <<run, thread, worker, closing, shared, faults>>

Die ==
    /\ server.up /\ Fault /\ Down
    /\ UNCHANGED <<run, wire, thread, worker, closing, shared, asks>>

\* Its stdin ends with the worker process.
Orphaned ==
    /\ server.up /\ worker.pc = "gone" /\ Down
    /\ UNCHANGED <<run, wire, thread, worker, closing, shared, bounds>>

-----------------------------------------------------------------------------
(* The transport.                                                          *)

\* readline takes what the pipe holds into its buffer and returns one line.
Unread == wire.buf # <<>> \/ wire.pipe # <<>>
Line == Head(wire.buf \o wire.pipe)
Rest == IF wire.buf # <<>> THEN [wire EXCEPT !.buf = Tail(@)]
        ELSE [pipe |-> <<>>, buf |-> Tail(wire.pipe)]

\* A receive with a timeout selects on the pipe first, and so does not see
\* what is left in the buffer.
Timed == At("loop") \/ thread.awaits \in {"read", "interrupt"}
Selected == wire.pipe # <<>> \/ ~server.up
Readable == Unread /\ (Codex /\ Timed => Selected)
Eof == ~Unread /\ ~server.up

\* A request that is given up: nobody waits for the response any more.
Forgotten(s) == [i \in DOMAIN s |-> IF s[i] \in {"running", "over"} THEN "late" ELSE s[i]]
Send(req) == server' = [server EXCEPT !.due = @ \cup {req}]

-----------------------------------------------------------------------------
(* The Codex thread: _run_app_server.                                      *)

\* Handshake, session receipt and turn/start (Hermes: session/prompt).
Open ==
    /\ At("open")
    /\ \/ /\ server' = [server EXCEPT !.up = TRUE, !.due = {"start"}]
          /\ thread' = IF Codex THEN [thread EXCEPT !.pc = "rpc", !.awaits = "start"]
                       ELSE [thread EXCEPT !.pc = "prompt"]
          /\ UNCHANGED faults
       \/ /\ \E up \in BOOLEAN : server' = [server EXCEPT !.up = up]
          /\ Goto("fail") /\ Fault
    /\ UNCHANGED <<run, wire, worker, closing, shared, asks>>

Back == IF thread.awaits = "none" THEN "loop" ELSE "rpc"
Answers(req) ==
    CASE req = "start" -> {"started"} [] req = "read" -> {"running", "over"}
      [] req = "interrupt" -> {"interrupted"} [] req = "archive" -> {"archived"}
      [] OTHER -> {}

\* Where the response leads.
Responded(msg) ==
    [thread EXCEPT !.awaits = "none", !.known = TRUE,
                   !.pc = CASE msg = "over" -> "ended" [] msg = "archived" -> "archived"
                            [] OTHER -> "loop"]

\* turn/completed counts for the exact turn only, whose id is in the response
\* to turn/start.
NoteCompletion(t) ==
    IF ~t.known THEN t
    ELSE IF t.pc = "loop" THEN [t EXCEPT !.pc = "ended"]
    ELSE [t EXCEPT !.completed = TRUE]

\* A cancellation is seen between two receives.
MustInterrupt == Cancelled /\ ~thread.sent
Receiving == At("rpc") \/ (At("loop") /\ ~thread.completed)

\* _app_wait_response and _app_wait_turn_completed take a message.
Receive ==
    /\ Codex /\ Receiving /\ Readable
    /\ wire' = Rest
    /\ CASE Line = "ask" /\ plane # "pending" ->
                plane' = "pending" /\ Goto("asking")
         [] Line = "ask" /\ plane = "pending" ->
                Goto("fail") /\ UNCHANGED plane
         [] Line = "done" ->
                thread' = NoteCompletion(thread) /\ UNCHANGED plane
         [] At("rpc") /\ Line \in Answers(thread.awaits) ->
                thread' = Responded(Line) /\ UNCHANGED plane
         [] OTHER -> UNCHANGED <<thread, plane>>
    /\ UNCHANGED <<run, server, worker, closing, rec, lease, task, bounds>>

Closed ==
    /\ Receiving \/ At("prompt")
    /\ Eof
    /\ Goto("fail")
    /\ UNCHANGED <<run, server, wire, worker, closing, shared, bounds>>

\* The completion came while a response was awaited.
Notice ==
    /\ Codex /\ At("loop") /\ thread.completed
    /\ Goto("ended")
    /\ UNCHANGED <<run, server, wire, worker, closing, shared, bounds>>

\* One turn/interrupt for a cancellation.
Interrupt ==
    /\ Codex /\ At("loop") /\ ~thread.completed /\ MustInterrupt
    /\ IF server.up
       THEN /\ Send("interrupt")
            /\ thread' = [thread EXCEPT !.pc = "rpc", !.awaits = "interrupt", !.sent = TRUE]
       ELSE Goto("fail") /\ UNCHANGED server
    /\ UNCHANGED <<run, wire, worker, closing, shared, bounds>>

\* (Mutation: the loop only waits.)
NeverReads == FALSE
\* Nothing came: the turn is read (_app_read_turn_state).
MayRead == Codex /\ At("loop") /\ Receiving /\ ~MustInterrupt /\ ~Selected

ReadTurn ==
    /\ MayRead
    /\ Send("read")
    /\ thread' = [thread EXCEPT !.pc = "rpc", !.awaits = "read"]
    /\ UNCHANGED <<run, wire, worker, closing, shared, bounds>>

\* thread/read unanswered for five seconds, or without the exact turn: again,
\* or after thirty seconds the run is given up.
GiveUp ==
    /\ At("rpc") /\ thread.awaits = "read"
    /\ Fault
    /\ \E pc \in {"loop", "fail"} :
           thread' = [thread EXCEPT !.pc = pc, !.awaits = "none"]
    /\ server' = [server EXCEPT !.due = IF "read" \in @ THEN (@ \ {"read"}) \cup {"late"}
                                        ELSE @]
    /\ wire' = [pipe |-> Forgotten(wire.pipe), buf |-> Forgotten(wire.buf)]
    /\ UNCHANGED <<run, worker, closing, shared, asks>>

\* The response is left in the reader's buffer, where the timed receive does
\* not look: its five seconds pass.
Unseen ==
    /\ At("rpc") /\ thread.awaits \in {"read", "interrupt"}
    /\ ~Selected /\ thread.awaits \notin server.due
    /\ IF thread.awaits = "read"
       THEN thread' = [thread EXCEPT !.pc = "loop", !.awaits = "none"]
       ELSE Goto("fail")
    /\ wire' = [wire EXCEPT !.buf = Forgotten(@)]
    /\ UNCHANGED <<run, server, worker, closing, shared, bounds>>

\* turn/interrupt or the prompt unanswered: nothing catches that timeout but
\* the failure path.
Timeout ==
    /\ At("prompt") \/ (At("rpc") /\ thread.awaits = "interrupt")
    /\ Fault
    /\ Goto("fail")
    /\ UNCHANGED <<run, server, wire, worker, closing, shared, asks>>

\* _handle_app_approval: status, result and lease are written one after the
\* other.  Hermes writes result before status, its lease is already suspended.
TellStatus ==
    /\ At("asking")
    /\ rec' = [rec EXCEPT !.status = "input_required"]
    /\ Goto(IF Codex THEN "telling" ELSE "lease")
    /\ UNCHANGED <<run, server, wire, plane, lease, worker, task, closing, bounds>>

TellResult ==
    /\ At("telling")
    /\ rec' = [rec EXCEPT !.result = "approval"]
    /\ Goto(IF Codex THEN "yielding" ELSE "asking")
    /\ UNCHANGED <<run, server, wire, plane, lease, worker, task, closing, bounds>>

Suspended == [disk |-> "suspended", mem |-> "suspended"]

\* _suspend_run
Yield ==
    /\ At("yielding")
    /\ lease' = Suspended
    /\ Goto("deciding")
    /\ UNCHANGED <<run, server, wire, plane, rec, worker, task, closing, bounds>>

\* wait_for_decision, and the thread that watches the transport meanwhile.
\* The deadline of minutes does not pass before a worker that polls every two
\* seconds knows of the request.
Expire ==
    /\ At("deciding") /\ plane = "pending"
    /\ ~server.up \/ worker.pc = "dialog"
    /\ plane' = IF server.up THEN "expired" ELSE "invalidated"
    /\ Goto("fail")
    /\ UNCHANGED <<run, server, wire, rec, lease, worker, task, closing, bounds>>

Decided == plane = "responded"

\* _resume_run
Resume ==
    /\ At("deciding") /\ Decided
    /\ lease' = [disk |-> "active", mem |-> "active"]
    /\ Goto("resumed")
    /\ UNCHANGED <<run, server, wire, plane, rec, worker, task, closing, bounds>>

SendAnswer ==
    /\ At("resumed")
    /\ rec' = [rec EXCEPT !.status = "running"]
    /\ server' = IF server.up THEN [server EXCEPT !.ask = FALSE] ELSE server
    /\ Goto(IF server.up THEN Back ELSE "fail")
    /\ UNCHANGED <<run, wire, plane, lease, worker, task, closing, bounds>>

\* The session that is not retained is archived on this connection, which is
\* closed before the result is published.
Conclude ==
    /\ At("ended")
    /\ IF run.retain THEN Goto("outcome") /\ UNCHANGED server
       ELSE IF server.up
       THEN /\ Send("archive")
            /\ thread' = [thread EXCEPT !.pc = "rpc", !.awaits = "archive"]
       ELSE Goto("fail") /\ UNCHANGED server
    /\ UNCHANGED <<run, wire, worker, closing, shared, bounds>>

Disconnect ==
    /\ At("archived")
    /\ Down
    /\ Goto("outcome")
    /\ UNCHANGED <<run, wire, worker, closing, shared, bounds>>

-----------------------------------------------------------------------------
(* The Hermes thread: _run_acp_session.                                    *)

\* prompt: a response ends it, a permission request becomes the wait of the
\* task (block_task_for_elevation), unless that is refused.
ReceiveFrame ==
    /\ At("prompt") /\ Readable
    /\ wire' = Rest
    /\ \/ /\ Line = "ask"
          /\ task' = "waiting"
          /\ Goto("blocked")
       \/ /\ Line = "ask"
          /\ Goto("fail") /\ UNCHANGED task
       \/ /\ Line # "ask"
          /\ Goto("outcome") /\ UNCHANGED task
    /\ UNCHANGED <<run, server, plane, rec, lease, worker, closing, bounds>>

\* The second write of the wait, which may fail.
SuspendWait ==
    /\ At("blocked")
    /\ \/ /\ lease' = [lease EXCEPT !.disk = "suspended"]
          /\ Goto("telling") /\ UNCHANGED faults
       \/ /\ Fault /\ Goto("fail") /\ UNCHANGED lease
    /\ UNCHANGED <<run, server, wire, plane, rec, worker, task, closing, asks>>

-----------------------------------------------------------------------------
(* The end of either thread.  Codex writes the result before the status,   *)
(* and closes the transport before the lease; Hermes the other way round.  *)

\* (Mutation: each does it as Hermes does.)
AlwaysLeaseFirst == TRUE
LeaseFirst == Hermes

\* (Mutation: an executor that failed is a task that failed.)
FailedIsFailed(final) == IF final = "completed" THEN {"completed", "input_required", "failed"}
                         ELSE {"failed"}
\* What the turn's status and its validated callback make of the run.
StatusOf(final) ==
    CASE final = "completed" -> {"completed", "input_required", "failed"}
      [] final = "failed" -> {"failed"}
      [] final = "interrupted" -> IF Codex THEN {"needs_recovery"} ELSE {"failed"}
      [] OTHER -> {"needs_recovery"}

Report(final, result, first) ==
    IF Codex = first
    THEN rec' = [rec EXCEPT !.result = result]
    ELSE \E status \in StatusOf(final) : rec' = [rec EXCEPT !.status = status]

Outcome ==
    /\ \/ At("outcome") /\ Report(server.turn, "outcome", TRUE) /\ Goto("publish")
       \/ At("publish") /\ Report(server.turn, "outcome", FALSE)
          /\ Goto(IF LeaseFirst THEN "lease" ELSE "finally")
    /\ UNCHANGED <<run, server, wire, plane, lease, worker, task, closing, bounds>>

\* record_transport_failed, then the failure is published.
Fail ==
    /\ \/ /\ At("fail") /\ Report("none", "failure", TRUE) /\ Goto("failed")
          /\ plane' = IF plane = "pending" THEN "invalidated" ELSE plane
       \/ /\ At("failed") /\ Report("none", "failure", FALSE)
          /\ Goto(IF LeaseFirst THEN "lease" ELSE "finally")
          /\ UNCHANGED plane
    /\ UNCHANGED <<run, server, wire, lease, worker, task, closing, bounds>>

CloseTransport ==
    /\ At("finally") /\ Down
    /\ Goto(IF LeaseFirst THEN "done" ELSE "lease")
    /\ UNCHANGED <<run, wire, worker, closing, shared, bounds>>

CloseLease ==
    /\ At("lease")
    /\ lease' = [disk |-> "closed", mem |-> "closed"]
    /\ Goto(IF LeaseFirst THEN "finally" ELSE "done")
    /\ UNCHANGED <<run, server, wire, plane, rec, worker, task, closing, bounds>>

-----------------------------------------------------------------------------
(* The worker's main thread: cli.command_worker_run.                       *)

\* The process ends, and the daemon thread with it.
Exit ==
    /\ worker' = [worker EXCEPT !.pc = "gone"]
    /\ thread' = IF At("done") THEN thread ELSE [thread EXCEPT !.pc = "dead"]
Step(pc) == worker' = [worker EXCEPT !.pc = pc]

\* executor.start returned; the run is registered.  Hermes.poll heartbeats
\* while the run's status says it is running, and so does a thread of its own.
Poll ==
    /\ worker.pc \in {"start", "poll"}
    /\ Step(IF Hermes /\ rec.status = "running" /\ lease.mem = "active"
            THEN "beat" ELSE "status")
    /\ UNCHANGED <<run, server, wire, thread, closing, shared, bounds>>

Beat ==
    /\ worker.pc = "beat"
    /\ lease' = [disk |-> "active", mem |-> "active"]
    /\ Step("status")
    /\ UNCHANGED <<run, server, wire, thread, plane, rec, task, closing, bounds>>

\* The status and the result are two reads.
ReadStatus ==
    /\ worker.pc = "status"
    /\ worker' = [pc |-> "result", seen |-> [status |-> rec.status, result |-> "none"]]
    /\ UNCHANGED <<run, server, wire, thread, closing, shared, bounds>>

ReadResult ==
    /\ worker.pc = "result"
    /\ worker' = [pc |-> IF worker.seen.status = "running" THEN "poll" ELSE "act",
                  seen |-> [worker.seen EXCEPT !.result = rec.result]]
    /\ UNCHANGED <<run, server, wire, thread, closing, shared, bounds>>

Ended == {"completed", "failed"}
Unsuspended(l) == IF l.disk = "suspended" THEN [l EXCEPT !.disk = "closed"] ELSE l

\* finalize_task_from_executor_exit, mark_task_failed and
\* mark_task_needs_recovery: a close that is reserved refuses each.
Accepted(final) ==
    /\ closing = "none"
    /\ CASE final = "completed" -> task = "running"
         [] final = "failed" -> task # "failed"
         [] OTHER -> task \notin Ended

Mark(final) ==
    IF Accepted(final)
    THEN /\ task' = final
         /\ lease' = IF final = "completed" THEN lease ELSE Unsuspended(lease)
    ELSE UNCHANGED <<task, lease>>

\* The task's wait goes before whatever the poll said
\* (_arbitrate_waiting_task_elevation).
Arbitrated == Hermes /\ task = "waiting"
Status(is) == worker.seen.status = is
Result(is) == worker.seen.result = is

\* No session receipt: validate_executor_session_result refuses.
Unreceipted == ~Arbitrated /\ Result("none")
               /\ (Status("completed") \/ Status("input_required"))
Asked == ~Arbitrated /\ Status("input_required") /\ Result("approval")
\* Finalized without a callback: completion_marker_missing.
Torn == ~Arbitrated /\ Status("input_required") /\ Result("failure")

\* A callback that asks the user, or a resource at its limit.
Waits == ~Arbitrated /\ Status("input_required") /\ (Result("outcome") \/ Result("resource"))

Verdict ==
    CASE Unreceipted -> "recovery"
      [] Torn -> "failed"
      [] Status("completed") -> "completed"
      [] Status("failed") -> "failed"
      [] OTHER -> "recovery"

Act ==
    /\ worker.pc = "act" /\ ~Arbitrated /\ ~Asked /\ ~Waits
    /\ Mark(Verdict)
    /\ Exit
    /\ UNCHANGED <<run, server, wire, plane, rec, closing, bounds>>

Arbitrate ==
    /\ worker.pc = "act" /\ Arbitrated
    /\ Step("dialog")
    /\ UNCHANGED <<run, server, wire, thread, closing, shared, bounds>>

\* block_task_for_approval, which a close does not refuse.
Block ==
    /\ worker.pc = "act" /\ Asked
    /\ \/ /\ task' = "waiting"
          /\ lease' = [lease EXCEPT !.disk = "suspended"]
          /\ Step("dialog")
          /\ UNCHANGED thread
       \/ /\ Mark("recovery")
          /\ Exit
    /\ UNCHANGED <<run, server, wire, plane, rec, closing, bounds>>

\* _suspend_task_for_input, which a close refuses, and block_task_for_resource,
\* which it does not; either may fail closed.
Wait ==
    /\ worker.pc = "act" /\ Waits
    /\ \/ /\ Result("resource") \/ Accepted("completed")
          /\ task' = "waiting"
          /\ lease' = [lease EXCEPT !.disk = "suspended"]
          /\ Step("dialog")
          /\ UNCHANGED thread
       \/ /\ Mark("recovery")
          /\ Exit
    /\ UNCHANGED <<run, server, wire, plane, rec, closing, bounds>>

\* The dialog returns, the run's pointers are cleared, and the worker exits.
Leave ==
    /\ worker.pc = "dialog"
    /\ Exit
    /\ UNCHANGED <<run, server, wire, closing, shared, bounds>>

Crash ==
    /\ worker.pc # "gone" /\ Fault /\ Exit
    /\ UNCHANGED <<run, server, wire, closing, shared, asks>>

-----------------------------------------------------------------------------
(* Runner and the command line.                                            *)

\* _reconcile_worker_exit and reconcile_task: a run without a process.  The
\* wait for an elevation is the expected reason for an exit; another wait, or a
\* lease that is still active, is not.
OrdinaryWait == task = "waiting" /\ worker.seen.result \in {"outcome", "resource"}

Reap ==
    /\ worker.pc = "gone" /\ closing = "none"
    /\ \/ task = "running" \/ OrdinaryWait
       \/ task \in {"waiting", "recovery"} /\ lease.disk \in {"active", "stale"}
    /\ task' = "recovery"
    /\ lease' = [lease EXCEPT !.disk = "closed"]
    /\ UNCHANGED <<run, server, wire, plane, rec, thread, worker, closing, bounds>>

\* reserve_task_close
Reserve ==
    /\ closing = "none" /\ task \in {"running", "waiting"}
    /\ closing' = "reserved"
    /\ UNCHANGED <<run, server, wire, thread, worker, shared, bounds>>

\* RunnerService.cancel: SIGTERM.  A Codex worker translates it (cancel): the
\* pending request is declined and the turn will be interrupted.
Signal ==
    /\ closing = "reserved"
    /\ closing' = "signalled"
    /\ IF Codex /\ worker.pc # "start"
       THEN /\ plane' = IF plane = "pending" THEN "responded" ELSE plane
            /\ UNCHANGED <<worker, thread>>
       ELSE Exit /\ UNCHANGED plane
    /\ UNCHANGED <<run, server, wire, rec, lease, task, bounds>>

\* After three seconds the watchdog kills what is left.
Kill ==
    /\ Cancelled /\ worker.pc # "gone"
    /\ Exit /\ Down
    /\ UNCHANGED <<run, wire, closing, shared, bounds>>

-----------------------------------------------------------------------------

Native == Begin \/ (\E q \in Requests : Reply(q)) \/ Orphaned
Talk == \/ Open \/ Receive \/ Closed \/ Notice \/ Interrupt \/ ReadTurn \/ Unseen
        \/ TellStatus \/ TellResult \/ Yield \/ Expire \/ Resume \/ SendAnswer
        \/ Conclude \/ Disconnect \/ ReceiveFrame \/ SuspendWait
        \/ Outcome \/ Fail \/ CloseTransport \/ CloseLease
Work == Poll \/ Beat \/ ReadStatus \/ ReadResult \/ Act \/ Arbitrate \/ Block \/ Wait
        \/ Leave

Next == \/ Native \/ EndTurn \/ Ask \/ Die \/ Talk \/ GiveUp \/ Timeout
        \/ Work \/ Crash \/ Reap \/ Reserve \/ Signal \/ Kill

Spec == Init /\ [][Next]_vars

\* Threads run, a server that lives answers its requests, and Runner
\* reconciles.  No turn has to end, and the watchdog is not counted on.
Fairness == /\ WF_vars(Native) /\ WF_vars(Talk) /\ WF_vars(Work) /\ WF_vars(Reap)
FairSpec == Spec /\ Fairness

-----------------------------------------------------------------------------
(* Properties.                                                             *)

TypeOK ==
    /\ run \in Run /\ server \in Server /\ plane \in Plane /\ thread \in Thread
    /\ wire \in [pipe : Seq(Messages), buf : Seq(Messages)]
    /\ rec \in Rec /\ lease \in [disk : LeaseState, mem : LeaseState]
    /\ worker \in Worker
    /\ task \in {"running", "waiting", "recovery"} \cup Ended
    /\ closing \in {"none", "reserved", "signalled"}
    /\ asks \in 0..MaxAsks /\ faults \in 0..MaxFaults

Quiet == server.up /\ server.turn = "running" => server.ask

\* A task gets a final status from a turn that ended: no death of the server,
\* timeout or torn reading of status and result makes one up.  The exception
\* is a Codex server that dies on its approval request (run_lease.py,
\* _run_app_server, command_worker_run).
TerminalByTurn ==
    /\ task = "completed" => server.turn = "completed"
    /\ task = "failed" =>
           \/ server.turn \in Over
           \/ Codex /\ asks > 0 /\ ~server.up

\* While a task waits for its user the native turn stands still at its request,
\* and nothing answers that request for the user (_handle_app_approval,
\* block_task_for_elevation).
QuietWhileWaiting == task = "waiting" /\ closing = "none" => Quiet

\* Codex gives up its lease, and publishes the end of a session that is not
\* retained, when its native writer is done (_run_app_server).
WriterGoneFirst ==
    Codex /\ closing = "none" /\ worker.pc # "gone" =>
        /\ lease.disk # "active" => Quiet
        /\ lease.disk = "closed" => ~server.up \/ At("deciding")
        /\ rec.status = "completed" /\ ~run.retain => server.archived /\ ~server.up

\* Whoever takes over - the user, a continuation, the cleanup - does not meet an
\* active native writer.
NoActiveWriter == QuietWhileWaiting /\ WriterGoneFirst

\* A run ends once its turn is over, its server is dead or it was cancelled,
\* whatever notification was lost or hidden in the reader's buffer
\* (_app_wait_turn_completed).  A run of CommandRun has no server: it ends
\* whatever its child does and whoever holds its output (timeout_s).
RunEnds ==
    (server.turn \in Over \/ (~server.up /\ ~At("open")) \/ Cancelled)
        ~> worker.pc = "gone"

=============================================================================
