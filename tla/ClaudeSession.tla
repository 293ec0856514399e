---------------------------- MODULE ClaudeSession ----------------------------
(***************************************************************************)
(* The third way to run an executor: Claude's SDK session, in threads of   *)
(* the worker (executors/claude.py, claude_sdk_transport.py,               *)
(* claude_elevation.py, control_runtime.py).                               *)
(*                                                                         *)
(* The adapter's thread drives the session and publishes its result; the   *)
(* loop thread runs the SDK client and its callbacks, one of which may     *)
(* wait, in a thread of its own, for the user's decision; the main thread  *)
(* polls, blocks the task for the request and polls on, since the answer   *)
(* comes to this same run; Runner records it in the task and in the        *)
(* control plane.  A step is what one of them does between two points at   *)
(* which another may look.                                                 *)
(***************************************************************************)
EXTENDS CommandRun

CONSTANT Sdks       \* executors: claude_sdk

ASSUME SdkAssumption == Sdks \subseteq {"claude_sdk"}

VARIABLES
    sdk,        \* the adapter's thread, the loop, and the result to publish
    asking,     \* can_use_tool: the transport's elevation state and its calls
    control     \* the answer, the deadline, and what the plane needs

svars == <<cvars, sdk, asking, control>>

Sdk == run.adapter \in Sdks

-----------------------------------------------------------------------------
(* Records.                                                                *)

Call == 1..MaxAsks
NoCall == 0
Say == {"accept", "decline"}

SdkThread ==
    [at : {"setup", "refused", "connect", "stream", "failed", "stale", "captured",
           "stop", "lease", "publish", "done", "dead"},
     loop : BOOLEAN, stuck : BOOLEAN, result : Rec]
\* full: the run started with full permission.  gate: the elevation state.
\* calls, from the request of the tool to its end; active: the one that asks;
\* anchor: the one that was approved.  bypass: the native session's mode.
\* waiter: the thread in wait_for_decision.  requests: history, how often the
\* plane was asked.
Asking ==
    [full : BOOLEAN, bypass : BOOLEAN,
     gate : {"safe", "pending", "ready", "active", "denied", "blocked"},
     calls : [Call -> {"none", "asked", "waiting", "allowed", "denied", "error", "over"}],
     active : Call \cup {NoCall}, anchor : Call \cup {NoCall},
     waiter : {"none", "waits", "lost"} \cup Say, requests : 0..MaxAsks]
\* dead: the plane needs recovery.  shown: the request is the task's wait.
Control == [answer : Say \cup {"none"}, telling : Say \cup {"none"},
            dead : BOOLEAN, late : BOOLEAN, shown : BOOLEAN]

Recovery == Stored("needs_recovery", "failure")

NoSdk == [at |-> "setup", loop |-> FALSE, stuck |-> FALSE, result |-> Recovery]
NoAsking(full) ==
    [full |-> full, bypass |-> full, gate |-> "safe",
     calls |-> [c \in Call |-> "none"], active |-> NoCall, anchor |-> NoCall,
     waiter |-> "none", requests |-> 0]
NoControl == [answer |-> "none", telling |-> "none", dead |-> FALSE,
              late |-> FALSE, shown |-> FALSE]

\* The lease is started and the worker is in start_control.
SdkInit ==
    /\ run \in [adapter : Sdks, retain : {TRUE}]
    /\ server = [up |-> FALSE, turn |-> "none", ask |-> FALSE, archived |-> FALSE,
                 due |-> {}]
    /\ wire = [pipe |-> <<>>, buf |-> <<>>]
    /\ plane = "none"
    /\ thread = [pc |-> "done", awaits |-> "none", known |-> FALSE,
                 completed |-> FALSE, sent |-> FALSE]
    /\ rec = [status |-> "running", result |-> "none"]
    /\ lease = [disk |-> "active", mem |-> "active"]
    /\ worker = [pc |-> "command", seen |-> rec]
    /\ task = "running" /\ closing = "none"
    /\ asks = 0 /\ faults = 0

Doing(at) == sdk.at = at
Onward(at) == sdk' = [sdk EXCEPT !.at = at]
Fixed == UNCHANGED <<run, wire, thread, command>>
Listening == asking.waiter = "waits"

\* A call is the agent's as long as its tool has no result.
Outstanding == \E c \in Call : asking.calls[c] \in {"asked", "waiting", "allowed"}
TurnRuns == server.up /\ server.turn = "running"

\* The process ends, and with it the daemon threads.
ProcessEnds ==
    /\ worker' = [worker EXCEPT !.pc = "gone"]
    /\ sdk' = [sdk EXCEPT !.at = "dead", !.loop = FALSE]
    /\ asking' = [asking EXCEPT !.waiter = "none"]

-----------------------------------------------------------------------------
(* start_control, in the main thread.                                      *)

\* Policy, environment, control plane or authorization refuse: the lease is
\* closed, and the worker marks the task.
RefuseSession ==
    /\ worker.pc = "command" /\ Doing("setup")
    /\ Lease("closed")
    /\ Onward("refused")
    /\ Fixed /\ UNCHANGED <<server, plane, rec, worker, task, closing, bounds, asking, control>>

SessionRefused ==
    /\ worker.pc = "command" /\ Doing("refused")
    /\ Mark("recovery")
    /\ ProcessEnds
    /\ Fixed /\ UNCHANGED <<server, plane, rec, closing, bounds, control>>

\* The receipt, the loop or the thread fails: recovery, as a result.
StartRecovers ==
    /\ worker.pc = "command" /\ Doing("setup")
    /\ rec' = Recovery
    /\ Lease("closed")
    /\ control' = [control EXCEPT !.dead = TRUE]
    /\ worker' = [worker EXCEPT !.pc = "asleep"]
    /\ Onward("done")
    /\ Fixed /\ UNCHANGED <<server, plane, task, closing, bounds, asking>>

StartSession ==
    /\ worker.pc = "command" /\ Doing("setup")
    /\ sdk' = [sdk EXCEPT !.at = "connect", !.loop = TRUE]
    /\ worker' = [worker EXCEPT !.pc = "asleep"]
    /\ Fixed /\ UNCHANGED <<server, shared, closing, bounds, asking, control>>

-----------------------------------------------------------------------------
(* The agent, a process of the SDK client.                                 *)

Answer(c, call, active) == [asking EXCEPT !.calls[c] = call, !.active = active]

NoneActive == asking.active = NoCall

\* can_use_tool, up to its first await.  known: the call has an id that is new.
Gate(c, known) ==
    IF asking.full \/ asking.gate \in {"ready", "active"} THEN Answer(c, "allowed", asking.active)
    ELSE IF asking.gate \in {"blocked", "denied"} \/ ~known \/ ~NoneActive
         THEN Answer(c, "denied", asking.active)
    ELSE [Answer(c, "asked", c) EXCEPT !.gate = "pending"]

\* A tool that needs permission: an agent in bypass mode may ask all the same.
UseTool ==
    /\ TurnRuns /\ sdk.loop /\ asks < MaxAsks
    /\ asks' = asks + 1
    /\ \E known \in BOOLEAN : asking' = Gate(asks', known)
    /\ Fixed /\ UNCHANGED <<server, shared, worker, closing, faults, sdk, control>>

\* The allowed tool ran: the hook of its end (capture_tool_event).
ToolEnds(c) ==
    /\ server.up /\ asking.calls[c] = "allowed"
    /\ \E works \in BOOLEAN :
           asking' = [asking EXCEPT !.calls[c] = "over",
                         !.gate = IF @ = "ready" /\ asking.anchor = c /\ sdk.loop
                                  THEN IF works THEN "active" ELSE "blocked" ELSE @]
    /\ Fixed /\ UNCHANGED <<server, shared, worker, closing, bounds, sdk, control>>

\* The ResultMessage, with or without is_error.
ResultMessage ==
    /\ TurnRuns /\ ~Outstanding
    /\ \E final \in {"completed", "failed"} : server' = [server EXCEPT !.turn = final]
    /\ Fixed /\ UNCHANGED <<shared, worker, closing, bounds, sdk, asking, control>>

AgentDies ==
    /\ server.up /\ Fault /\ Down
    /\ Fixed /\ UNCHANGED <<shared, worker, closing, asks, sdk, asking, control>>

\* Its stdin ends with the worker process, or with the client that is left.
AgentLeft ==
    /\ server.up
    /\ worker.pc = "gone" \/ (sdk.loop /\ sdk.at \in {"failed", "stale", "stop"})
    /\ Down
    /\ Fixed /\ UNCHANGED <<shared, worker, closing, bounds, sdk, asking, control>>

-----------------------------------------------------------------------------
(* _request_and_wait.                                                      *)

\* ApprovalControlPlane.request_approval, which fails closed on a plane that
\* needs recovery, and on a request whose evidence does not bind.
\* (Mutation: only a request that is pending is refused.)
PendingRefused == plane = "pending"
Refused == control.dead \/ plane = "pending"

Request(c) ==
    /\ asking.calls[c] = "asked" /\ sdk.at # "dead"
    /\ \/ /\ ~Refused
          /\ plane' = "pending"
          /\ asking' = [asking EXCEPT !.calls[c] = "waiting", !.waiter = "waits",
                                      !.requests = @ + 1]
          /\ UNCHANGED <<control, faults>>
       \/ /\ IF Refused THEN UNCHANGED faults ELSE Fault
          /\ control' = [control EXCEPT !.dead = TRUE]
          /\ asking' = Answer(c, "error", NoCall)
          /\ UNCHANGED plane
    /\ Fixed /\ UNCHANGED <<server, rec, lease, task, worker, closing, asks, sdk>>

\* wait_for_decision: a response on file goes first, under the lock too.
Hear ==
    /\ Listening
    /\ \/ /\ plane = "responded"
          /\ asking' = [asking EXCEPT !.waiter = control.answer]
          /\ UNCHANGED <<plane, control>>
       \/ /\ plane = "pending" /\ control.late
          /\ plane' = "expired"
          /\ control' = [control EXCEPT !.dead = TRUE]
          /\ asking' = [asking EXCEPT !.waiter = "lost"]
       \/ /\ plane # "responded" /\ control.dead
          /\ asking' = [asking EXCEPT !.waiter = "lost"]
          /\ UNCHANGED <<plane, control>>
    /\ Fixed /\ UNCHANGED <<server, rec, lease, task, worker, closing, bounds, sdk>>

StillAsking == asking.gate = "pending"

\* The coroutine goes on in the loop: accept is an allow that switches the
\* session's mode as well; what cannot be recorded is an error for the agent.
Resumed(c, accepts) ==
    CASE asking.waiter = "accept" /\ StillAsking ->
             [asking EXCEPT !.calls[c] = "allowed", !.gate = "ready", !.anchor = c,
                            !.bypass = accepts]
      [] asking.waiter = "decline" /\ StillAsking ->
             [asking EXCEPT !.calls[c] = "denied", !.gate = "denied"]
      [] OTHER -> [asking EXCEPT !.calls[c] = "error"]

Continue(c) ==
    /\ sdk.loop /\ asking.calls[c] = "waiting" /\ asking.waiter \notin {"none", "waits"}
    /\ \E accepts \in BOOLEAN :
           asking' = [Resumed(c, accepts) EXCEPT !.active = NoCall, !.waiter = "none"]
    /\ Fixed /\ UNCHANGED <<server, shared, worker, closing, bounds, sdk, control>>

-----------------------------------------------------------------------------
(* The adapter's thread: _run_sdk_session.                                 *)

Connect ==
    /\ Doing("connect")
    /\ \/ /\ server' = [server EXCEPT !.up = TRUE, !.turn = "running"]
          /\ Lease("active") /\ Onward("stream")
          /\ UNCHANGED faults
       \/ Fault /\ Onward("failed") /\ UNCHANGED <<server, lease>>
    /\ Fixed /\ UNCHANGED <<plane, rec, task, worker, closing, asks, asking, control>>

\* What the turn's result and its callback make of the run.
SdkRouted ==
    CASE server.turn = "completed" ->
             {Stored("completed", "outcome"), Stored("input_required", "outcome"),
              Stored("failed", "failure"), Recovery} \cup AtLimit
      [] server.turn = "failed" -> {Stored("failed", "failure"), Recovery} \cup AtLimit
      [] OTHER -> {Stored("failed", "failure")}

\* The stream ends after a ResultMessage, or without one; the client is left.
\* An agent that died may have ended it with an error.
StreamEnds ==
    /\ Doing("stream")
    /\ server.turn \in Over \/ ~server.up
    /\ Down
    /\ \/ sdk' \in {[sdk EXCEPT !.at = "captured", !.result = r] : r \in SdkRouted}
       \/ ~server.up /\ Onward("failed")
    /\ Fixed /\ UNCHANGED <<shared, worker, closing, bounds, asking, control>>

\* timeout_s of the run: the session's coroutine is cancelled.
SafetyTimeout ==
    /\ Doing("stream") /\ server.turn = "running"
    /\ Onward("failed")
    /\ Fixed /\ UNCHANGED <<server, shared, worker, closing, bounds, asking, control>>

\* record_transport_death: the request that is active or on record is
\* invalidated; without one the plane needs recovery all the same.
Invalidates == plane = "pending"

RecordDeath ==
    /\ Doing("failed")
    /\ Onward("stale")
    /\ asking' = [asking EXCEPT !.gate = IF @ \in {"pending", "ready"} THEN "blocked" ELSE @]
    /\ IF Invalidates
       THEN plane' = "invalidated" /\ control' = [control EXCEPT !.dead = TRUE]
       ELSE /\ control' = [control EXCEPT !.dead = @ \/ asking.active = NoCall]
            /\ UNCHANGED plane
    /\ Fixed /\ UNCHANGED <<server, rec, lease, task, worker, closing, bounds>>

MarkStale ==
    /\ Doing("stale")
    /\ Lease("stale")
    /\ sdk' = [sdk EXCEPT !.at = "stop", !.result = Recovery]
    /\ Fixed /\ UNCHANGED <<server, plane, rec, task, worker, closing, bounds, asking, control>>

Capture ==
    /\ Doing("captured")
    /\ Lease("active")
    /\ Onward("stop")
    /\ Fixed /\ UNCHANGED <<server, plane, rec, task, worker, closing, bounds, asking, control>>

\* Best effort: the disconnect has five seconds.
StopTransport ==
    /\ Doing("stop")
    /\ \/ Down /\ sdk' = [sdk EXCEPT !.at = "lease", !.loop = FALSE] /\ UNCHANGED faults
       \/ /\ server.up /\ Fault
          /\ sdk' = [sdk EXCEPT !.at = "lease", !.loop = FALSE, !.stuck = TRUE]
          /\ UNCHANGED server
    /\ Fixed /\ UNCHANGED <<shared, worker, closing, asks, asking, control>>

EndLease ==
    /\ Doing("lease")
    /\ Lease("closed")
    /\ Onward("publish")
    /\ Fixed /\ UNCHANGED <<server, plane, rec, task, worker, closing, bounds, asking, control>>

Publish ==
    /\ Doing("publish")
    /\ rec' = sdk.result
    /\ Onward("done")
    /\ Fixed /\ UNCHANGED <<server, plane, lease, task, worker, closing, bounds, asking, control>>

-----------------------------------------------------------------------------
(* The main thread: ClaudeExecutor.poll, command_worker_run.               *)

Sees(r) == worker' = [pc |-> "judge", seen |-> r]
Ordinary == UNCHANGED <<server, plane, rec, closing, bounds, sdk, asking, control>>

\* The result goes first; without one the control plane is read.
PollResult ==
    /\ worker.pc = "asleep"
    /\ IF rec.status # "running" THEN Sees(rec) ELSE worker' = [worker EXCEPT !.pc = "control"]
    /\ Fixed /\ Ordinary /\ UNCHANGED <<lease, task>>

\* It heartbeats while the loop lives, unless its lease is given up by then.
PollPlane ==
    /\ worker.pc = "control"
    /\ CASE control.dead -> Sees(Recovery)
         [] ~control.dead /\ plane = "pending" -> Sees(Stored("input_required", "approval"))
         [] OTHER -> worker' = [worker EXCEPT !.pc =
                        IF sdk.loop /\ lease.mem # "closed" THEN "beating" ELSE "asleep"]
    /\ Fixed /\ Ordinary /\ UNCHANGED <<lease, task>>

PollBeat ==
    /\ worker.pc = "beating"
    /\ Lease("active")
    /\ worker' = [worker EXCEPT !.pc = "asleep"]
    /\ Fixed /\ Ordinary /\ UNCHANGED task

\* The worker returns: its process ends when the waiting thread does.
Return ==
    IF Listening THEN worker' = [worker EXCEPT !.pc = "leaving"] /\ UNCHANGED <<sdk, asking>>
    ELSE ProcessEnds

\* block_task_for_approval: the one elevation of the task, or its refusal.
\* A request that is the task's wait is only polled for.
BlockLive ==
    /\ worker.pc = "judge" /\ Asked
    /\ \/ /\ control.shown /\ worker' = [worker EXCEPT !.pc = "asleep"]
          /\ UNCHANGED <<task, lease, sdk, asking, control>>
       \/ /\ ~control.shown
          /\ task' = "waiting"
          /\ control' = [control EXCEPT !.shown = TRUE]
          /\ worker' = [worker EXCEPT !.pc = "asleep"]
          /\ UNCHANGED <<lease, sdk, asking>>
       \/ /\ ~control.shown
          /\ Mark("recovery") /\ Return
          /\ UNCHANGED control
    /\ Fixed /\ UNCHANGED <<server, plane, rec, closing, bounds>>

ActOnResult ==
    /\ worker.pc = "judge" /\ ~Asked
    /\ \/ ~Waits /\ Mark(Verdict)
       \/ /\ Waits /\ (Result("resource") \/ Accepted("completed"))
          /\ task' = "waiting" /\ lease' = [lease EXCEPT !.disk = "suspended"]
       \/ Waits /\ Mark("recovery")
    /\ Return
    /\ Fixed /\ UNCHANGED <<server, plane, rec, closing, bounds, control>>

Leaves ==
    /\ worker.pc = "leaving" /\ ~Listening
    /\ ProcessEnds
    /\ Fixed /\ UNCHANGED <<server, shared, closing, bounds, control>>

WorkerDies ==
    /\ worker.pc # "gone" /\ Fault /\ ProcessEnds
    /\ Fixed /\ UNCHANGED <<server, shared, closing, asks, control>>

-----------------------------------------------------------------------------
(* Runner: the answer, the deadline, the cancel.                           *)

\* respond_to_live_claude_elevation keeps the run; the plane is told next.
RecordAnswer(say) ==
    /\ task = "waiting" /\ control.shown /\ control.telling = "none" /\ control.answer = "none"
    /\ ~control.late /\ lease.disk = "active"
    /\ task' = "running"
    /\ control' = [control EXCEPT !.telling = say]
    /\ Fixed /\ UNCHANGED <<server, plane, rec, lease, worker, closing, bounds, sdk, asking>>

\* respond_approval, in one locked section; its error marks plane and task.
TellPlane ==
    /\ control.telling # "none"
    /\ IF plane = "pending" /\ ~control.dead /\ ~control.late
       THEN /\ plane' = "responded"
            /\ control' = [control EXCEPT !.answer = control.telling, !.telling = "none"]
            /\ UNCHANGED <<task, lease>>
       ELSE /\ control' = [control EXCEPT !.dead = TRUE, !.telling = "none"]
            /\ Mark("recovery")
            /\ UNCHANGED plane
    /\ Fixed /\ UNCHANGED <<server, rec, worker, closing, bounds, sdk, asking>>

DeadlinePasses ==
    /\ plane = "pending" /\ ~control.late
    /\ control' = [control EXCEPT !.late = TRUE]
    /\ Fixed /\ UNCHANGED <<server, shared, worker, closing, bounds, sdk, asking>>

\* expire_waiting_inputs
ExpireWait ==
    /\ task = "waiting" /\ control.shown /\ control.late /\ closing = "none"
    /\ task' = "failed"
    /\ lease' = Unsuspended(lease)
    /\ Fixed /\ UNCHANGED <<server, plane, rec, worker, closing, bounds, sdk, asking, control>>

\* SIGTERM to the group of the worker, the agent included.
TerminateGroup ==
    /\ closing = "reserved"
    /\ closing' = "signalled"
    /\ ProcessEnds /\ Down
    /\ Fixed /\ UNCHANGED <<shared, bounds, control>>

-----------------------------------------------------------------------------

Loop == \E c \in Call : Continue(c) \/ Request(c)
Drive == \/ Connect \/ StreamEnds \/ SafetyTimeout \/ RecordDeath \/ MarkStale \/ Capture
         \/ StopTransport \/ EndLease \/ Publish
Main == \/ RefuseSession \/ SessionRefused \/ StartRecovers \/ StartSession
        \/ PollResult \/ PollPlane \/ PollBeat \/ BlockLive \/ ActOnResult \/ Leaves

SdkNext ==
    \/ UseTool \/ ResultMessage \/ AgentDies \/ AgentLeft
    \/ \E c \in Call : ToolEnds(c)
    \/ Loop \/ Hear \/ Drive \/ Main \/ WorkerDies
    \/ \E say \in Say : RecordAnswer(say)
    \/ TellPlane \/ DeadlinePasses \/ ExpireWait \/ TerminateGroup
    \/ (Reap \/ Reserve) /\ UNCHANGED <<command, sdk, asking, control>>

SNext == \/ Sdk /\ SdkNext
         \/ ~Sdk /\ CNext /\ UNCHANGED <<sdk, asking, control>>

SInit ==
    /\ \/ CInit /\ asking = NoAsking(FALSE)
       \/ SdkInit /\ command = NoCommand /\ \E full \in BOOLEAN : asking = NoAsking(full)
    /\ sdk = NoSdk /\ control = NoControl

\* The threads run, a clock passes, an agent whose stdin ended exits.
SdkFairness ==
    /\ WF_svars(Sdk /\ Loop) /\ WF_svars(Sdk /\ Hear)
    /\ WF_svars(Sdk /\ Drive) /\ WF_svars(Sdk /\ Main) /\ WF_svars(Sdk /\ DeadlinePasses)

SSpec == SInit /\ [][SNext]_svars
         /\ Fairness /\ WF_cvars(OneCommand /\ Proceed) /\ SdkFairness

-----------------------------------------------------------------------------
(* Properties.                                                             *)

STypeOK ==
    /\ CTypeOK \/ Sdk
    /\ sdk \in SdkThread /\ asking \in Asking /\ control \in Control

\* A session completes its task by a result of its own, and fails it by the
\* end of its stream or the deadline of its request: a timeout, an error or a
\* lost transport is recovery (_run_sdk_session, route_executor_terminal).
EarnedByResult ==
    /\ task = "completed" => server.turn = "completed"
    /\ task = "failed" => server.turn \in Over \/ ~server.up \/ control.late

EarnedInSession == IF Sdk THEN EarnedByResult ELSE EarnedOutcome

\* A lease is not closed over an agent that runs, unless its disconnect timed
\* out, and while a task waits for an answer that can still come the agent
\* stands at that request (_run_sdk_session, can_use_tool, stop).
LeaseAfterAgent ==
    worker.pc # "gone" =>
        /\ lease.disk = "closed" => ~server.up \/ sdk.stuck
        /\ task = "waiting" /\ plane = "pending" /\ TurnRuns => asking.active # NoCall

NoWriterInSession == IF Sdk THEN LeaseAfterAgent ELSE NoWriterLeft

\* One run asks its user once, whatever tools the agent tries at a time and
\* however the answer, the deadline and the transport's death interleave; no
\* tool gets permission, and no session its full mode, without the accept
\* (can_use_tool, _request_and_wait, request_approval).
OneElevation ==
    /\ asking.requests <= 1
    /\ (asking.bypass \/ \E c \in Call : asking.calls[c] = "allowed") =>
           asking.full \/ control.answer = "accept"
    /\ asking.anchor # NoCall => control.answer = "accept"

=============================================================================
