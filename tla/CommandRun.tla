----------------------------- MODULE CommandRun -----------------------------
(***************************************************************************)
(* The other way to run an executor: one command line, which the adapter   *)
(* starts, waits for and reads inside executor.start (opencode.py; codex   *)
(* exec; claude print; hermes chat; base.py), before the worker's loop of  *)
(* ExecutorSession polls what it stored.                                   *)
(*                                                                         *)
(* The child may leave helpers behind, in its process group or in a        *)
(* session of their own, which may hold its pipe; the deadline, the signal *)
(* of a cancel and the heartbeat thread of OpenCode come at any time.  The *)
(* output is a sequence of the events that the routing looks at.           *)
(***************************************************************************)
EXTENDS ExecutorSession

CONSTANTS
    Commands,       \* executors: opencode, codex_exec, claude, hermes_chat
    MaxEvents       \* bound: length of an output

ASSUME CommandAssumption ==
    /\ Commands \subseteq {"opencode", "codex_exec", "claude", "hermes_chat"}
    /\ MaxEvents \in Nat

VARIABLE command    \* executor.start: its place, the child, and who outlives it

cvars == <<vars, command>>

OpenCode == run.adapter = "opencode"
CodexExec == run.adapter = "codex_exec"
Chat == run.adapter = "hermes_chat"
OneCommand == run.adapter \in Commands

\* stuck: killed, but not confirmed.  told: history variable, the whole output
\* declares the task completed.
Command ==
    [at : {"authorize", "wait", "terminate", "reclaim", "collect", "unwind",
           "returned", "refused"},
     child : {"none", "running", "stuck", "zero", "error", "killed"},
     helper : {"none", "group", "escaped"}, holds : BOOLEAN,
     late : BOOLEAN, interrupted : BOOLEAN, unbound : BOOLEAN, told : BOOLEAN]

NoCommand ==
    [at |-> "authorize", child |-> "none", helper |-> "none", holds |-> FALSE,
     late |-> FALSE, interrupted |-> FALSE, unbound |-> FALSE, told |-> FALSE]

\* The lease is started, its run is in executor.start; there is no session.
CommandInit ==
    /\ run \in [adapter : Commands, retain : {TRUE}]
    /\ server = [up |-> FALSE, turn |-> "none", ask |-> FALSE, archived |-> FALSE,
                 due |-> {}]
    /\ wire = [pipe |-> <<>>, buf |-> <<>>]
    /\ plane = "none"
    /\ thread = [pc |-> "done", awaits |-> "none", known |-> FALSE,
                 completed |-> FALSE, sent |-> FALSE]
    /\ rec = [status |-> "running", result |-> "none"]
    /\ lease = [disk |-> "active", mem |-> "active"]
    /\ worker = [pc |-> "command", seen |-> rec]
    /\ task = "running" /\ closing = "none"
    /\ asks = 0 /\ faults = 0

Starting == worker.pc = "command"
InStart(at) == Starting /\ command.at = at
Lives == command.child \in {"running", "stuck"}
Reaped == command.child \in {"zero", "error", "killed"}
GroupAlive == Lives \/ command.helper = "group"
PipeHeld == Lives \/ (command.helper # "none" /\ command.holds)
Move(c, at) == command' = [c EXCEPT !.at = at]
WithoutHelper(c) == [c EXCEPT !.helper = "none", !.holds = FALSE]
GroupKilled(c) == IF c.helper = "group" THEN WithoutHelper(c) ELSE c
Rested == UNCHANGED <<run, server, wire, plane, thread, task, closing, asks>>
Lease(state) == lease' = [disk |-> state, mem |-> state]

-----------------------------------------------------------------------------
(* The child and its helpers.                                              *)

ChildEnds ==
    /\ command.child = "running"
    /\ \E exit \in {"zero", "error"} : command' = [command EXCEPT !.child = exit]
    /\ UNCHANGED vars

Fork ==
    /\ command.child = "running" /\ command.helper = "none"
    /\ \E where \in {"group", "escaped"}, pipe \in BOOLEAN :
           command' = [command EXCEPT !.helper = where, !.holds = pipe]
    /\ UNCHANGED vars

HelperEnds ==
    /\ command.helper # "none"
    /\ command' = WithoutHelper(command)
    /\ UNCHANGED vars

-----------------------------------------------------------------------------
(* What the output says.                                                   *)

\* done, ask, bad: text that holds the final marker, completed, input_required
\* or refused; stop, calls: step_finish of a turn; error, retried: a tool call
\* that failed, and its later success; garbage: no JSON object; stranger:
\* another session; flood: beyond the capture limit; transport, exhausted: the
\* diagnostics.
Kinds ==
    CASE OpenCode -> {"done", "ask", "bad", "stop", "calls", "error", "retried",
                      "garbage", "stranger", "flood", "transport"}
      [] CodexExec -> {"done", "ask", "bad", "transport"}
      [] OTHER -> {"done", "ask", "bad", "transport", "exhausted"}
Outputs == UNION {[1..n -> Kinds] : n \in 0..MaxEvents}

Markers == {"done", "ask", "bad"}
Finishes == {"stop", "calls"}
Has(out, kind) == \E i \in DOMAIN out : out[i] = kind

\* validate_callback_payload
Valid(marker) == marker # "bad"

\* extract_callback_validation_from_output: exactly one marker, which is valid.
Marks(out) == {i \in DOMAIN out : out[i] \in Markers}
Marker(out) ==
    IF \E i \in Marks(out) : Marks(out) = {i} /\ Valid(out[i])
    THEN out[CHOOSE i \in Marks(out) : TRUE] ELSE "none"

\* collect_protocol_events: the turns, delimited by step_finish.
Turn(turn, kind) ==
    CASE kind \in Markers -> [turn EXCEPT !.marked = TRUE, !.open = TRUE]
      [] kind \in {"error", "retried", "stranger"} -> [turn EXCEPT !.open = TRUE]
      [] kind \in Finishes -> [marked |-> FALSE, open |-> FALSE,
                               stopped |-> turn.marked /\ kind = "stop"]
      [] OTHER -> turn
LastTurn(out) ==
    LET turn[n \in 0..Len(out)] ==
            IF n = 0 THEN [marked |-> FALSE, open |-> FALSE, stopped |-> FALSE]
            ELSE Turn(turn[n-1], out[n])
    IN turn[Len(out)]

\* (Mutation: a normal stop anywhere is enough.)
AnyStop(out) == Has(out, "stop")
FinalStop(out) == LastTurn(out).stopped /\ ~LastTurn(out).open

\* The errors that no later completion resolves.
PendingError(out) ==
    LET pending[n \in 0..Len(out)] ==
            IF n = 0 \/ out[n] = "retried" THEN {}
            ELSE IF out[n] = "error" THEN pending[n-1] \cup {n} ELSE pending[n-1]
    IN pending[Len(out)] # {}

\* (Mutation: the child is reaped.)
ReapedIsStopped == Reaped
\* _execution_stopped: reaped, its group is empty and its readers ended.
Stopped == Reaped /\ ~GroupAlive /\ ~PipeHeld

\* _gate_protocol
Gated(out) ==
    LET marker == Marker(out)
    IN IF \/ Has(out, "stranger") \/ Has(out, "flood")
          \/ /\ marker = "done"
             /\ \/ Has(out, "garbage") \/ ~FinalStop(out) \/ PendingError(out)
                \/ PipeHeld \/ ~Stopped
       THEN "none" ELSE marker

\* A budget or a limit of turns is reached.
Exhausted(out) == Has(out, "exhausted")

\* A Hermes that reports its limit does not get to ask.
Declared(out) ==
    IF OpenCode THEN Gated(out)
    ELSE IF Chat /\ Exhausted(out) /\ Marker(out) = "ask" THEN "none"
    ELSE Marker(out)

Transport(out) == Has(out, "transport")

\* The failure that is known beside the callback.
Retryable(out) ==
    IF ~OpenCode THEN Transport(out)
    ELSE IF command.late THEN ~Stopped
    ELSE \/ Has(out, "flood")
         \/ command.child = "zero" /\ ~Stopped
         \/ command.child # "zero" /\ Transport(out)

Stored(status, result) == [status |-> status, result |-> result]

\* The limit is the task's, or another.
AtLimit == {Stored("input_required", "resource"), Stored("needs_recovery", "failure")}

\* route_executor_terminal.  Of a session that has no receipt the worker will
\* accept no final status.
Routed(out) ==
    LET declared == Declared(out)
    IN IF command.child = "zero" /\ declared # "none"
       THEN {Stored(IF declared = "done" THEN "completed" ELSE "input_required", r) :
                 r \in IF OpenCode THEN {"outcome"} ELSE {"outcome", "none"}}
       ELSE IF Retryable(out) THEN {Stored("needs_recovery", "failure")}
       ELSE IF Exhausted(out) THEN AtLimit
       ELSE {Stored("failed", "failure")}

\* Reference: one completed callback, in the last turn, which ended with a
\* normal stop; nothing but it and recovered calls of one session.
Whole(out) ==
    /\ \E i \in DOMAIN out :
           /\ out[i] = "done"
           /\ \A j \in DOMAIN out \ {i} : out[j] \notin Markers
           /\ OpenCode => \E k \in DOMAIN out :
                  /\ k > i /\ out[k] = "stop"
                  /\ \A j \in i+1 .. k-1 : out[j] \notin Finishes
                  /\ \A j \in k+1 .. Len(out) : out[j] = "transport"
    /\ OpenCode =>
           /\ \A i \in DOMAIN out : out[i] \notin {"garbage", "stranger", "flood"}
           /\ \A i \in DOMAIN out : out[i] = "error" =>
                  \E j \in i+1 .. Len(out) : out[j] = "retried"

-----------------------------------------------------------------------------
(* executor.start.                                                         *)

Returned == worker' = [worker EXCEPT !.pc = "start"]

\* The policy, Runner's authorization or the spawn refuses.
Refuse ==
    /\ InStart("authorize") /\ ~OpenCode
    /\ Lease("closed")
    /\ Move(command, "refused")
    /\ Rested /\ UNCHANGED <<worker, rec, faults>>

\* OpenCode refuses before it starts a lease (none counts as closed) and asks no
\* authorization; a child that cannot be spawned is a result.
Unfit ==
    /\ InStart("authorize") /\ OpenCode
    /\ Lease("closed")
    /\ Move(command, "refused")
    /\ Rested /\ UNCHANGED <<worker, rec, faults>>

Unspawned ==
    /\ InStart("authorize") /\ OpenCode
    /\ rec' = Stored("failed", "failure")
    /\ Lease("closed")
    /\ Move(command, "returned") /\ Returned
    /\ Rested /\ UNCHANGED faults

Spawn ==
    /\ InStart("authorize")
    /\ Move([command EXCEPT !.child = "running"], "wait")
    /\ UNCHANGED vars

\* subprocess.run also waits for the end of the output.
AllOver == Reaped /\ (~OpenCode /\ ~CodexExec => ~PipeHeld)

Exited ==
    /\ InStart("wait") /\ AllOver
    /\ Move(command, IF OpenCode THEN "reclaim" ELSE "collect")
    /\ UNCHANGED vars

\* The safety timeout.  The other adapters kill the child alone.
Killed(c) == IF c.child = "running" THEN [c EXCEPT !.child = "killed"] ELSE c

\* (Mutation: the child is waited for.)
Patient == FALSE
Overdue == InStart("wait") /\ ~AllOver

Deadline ==
    /\ Overdue
    /\ LET c == [command EXCEPT !.late = TRUE]
       IN IF OpenCode THEN Move(c, "terminate") ELSE Move(Killed(c), "collect")
    /\ UNCHANGED vars

\* run_with_stdout_receipts: the receipt cannot be bound, or the worker got the
\* signal of a cancel.
Unbound ==
    /\ InStart("wait") /\ CodexExec
    /\ Move(Killed([command EXCEPT !.unbound = TRUE]), "collect")
    /\ UNCHANGED vars

Interrupted ==
    /\ InStart("wait") /\ command.interrupted
    /\ Move(IF command.child = "running" THEN GroupKilled(Killed(command)) ELSE command,
            "collect")
    /\ UNCHANGED vars

\* _terminate_owned_process: TERM, which the child may take as it likes, KILL.
Terminate ==
    /\ InStart("terminate")
    /\ \/ /\ \E exit \in {"zero", "error", "killed"} :
                 Move(IF command.child = "running" THEN [command EXCEPT !.child = exit]
                      ELSE command, "reclaim")
          /\ UNCHANGED faults
       \/ /\ command.child = "running" /\ Fault
          /\ Move([command EXCEPT !.child = "stuck"], "reclaim")
    /\ Rested /\ UNCHANGED <<worker, rec, lease>>

\* _reclaim_owned_group
Reclaim ==
    /\ InStart("reclaim")
    /\ \/ Move(GroupKilled(command), "collect") /\ UNCHANGED faults
       \/ command.helper = "group" /\ Fault /\ Move(command, "collect")
    /\ Rested /\ UNCHANGED <<worker, rec, lease>>

Recovering == rec' = Stored("needs_recovery", "failure")

\* codex exec: a reader that did not end, or an unbound receipt, is a start that
\* failed, and its lease is closed.
CollectExec(out) ==
    CASE PipeHeld \/ command.unbound ->
             Lease("closed") /\ Move(command, "refused") /\ UNCHANGED <<rec, worker>>
      [] command.late /\ ~PipeHeld /\ ~command.unbound ->
             Lease("stale") /\ Recovering /\ Move(command, "returned") /\ Returned
      [] OTHER ->
             /\ Lease("closed")
             /\ IF command.interrupted THEN Recovering ELSE rec' \in Routed(out)
             /\ Move([command EXCEPT !.told = Whole(out)], "returned") /\ Returned

CollectRun(out) ==
    /\ IF command.late THEN Lease("stale") /\ Recovering
       ELSE Lease("closed") /\ rec' \in Routed(out)
    /\ Move([command EXCEPT !.told = Whole(out)], "returned") /\ Returned

\* _finalize_run_lease
LeaseLeft == IF Stopped THEN "closed" ELSE "stale"

CollectOpenCode(out) ==
    /\ rec' \in Routed(out)
    /\ Lease(LeaseLeft)
    /\ Move([command EXCEPT !.told = Whole(out) /\ ~PipeHeld], "returned") /\ Returned

Collect ==
    /\ InStart("collect")
    /\ \E out \in Outputs :
           IF OpenCode THEN CollectOpenCode(out)
           ELSE IF CodexExec THEN CollectExec(out) ELSE CollectRun(out)
    /\ Rested /\ UNCHANGED faults

\* Any exception of OpenCode's run: the lease is marked stale, and only then the
\* heartbeat is stopped.
Unexpected ==
    /\ OpenCode /\ Starting /\ command.at \in {"wait", "collect"} /\ Fault
    /\ Lease("stale") /\ Recovering
    /\ Move(command, "unwind")
    /\ Rested /\ UNCHANGED worker

Unwind ==
    /\ InStart("unwind")
    /\ Move(command, "returned") /\ Returned
    /\ Rested /\ UNCHANGED <<rec, lease, faults>>

\* _LeaseHeartbeat
HeartbeatThread ==
    /\ OpenCode /\ Starting /\ command.at # "authorize"
    /\ lease.mem = "stale"
    /\ Lease("active")
    /\ Rested /\ UNCHANGED <<worker, rec, faults, command>>

\* command_worker_run: start is not ok.
NotStarted ==
    /\ InStart("refused")
    /\ Mark("recovery")
    /\ Exit
    /\ UNCHANGED <<run, server, wire, plane, rec, closing, bounds, command>>

-----------------------------------------------------------------------------
(* RunnerService.cancel.                                                   *)

\* SIGTERM to the worker of codex exec, which translates it while it waits, or
\* to the group of another worker, its children included; OpenCode's child has
\* a group of its own.
Translated == CodexExec /\ (InStart("wait") \/ worker.pc \notin {"command", "start", "gone"})

Terminated ==
    /\ closing = "reserved"
    /\ closing' = "signalled"
    /\ IF Translated
       THEN /\ command' = [command EXCEPT !.interrupted = Starting]
            /\ UNCHANGED <<worker, thread>>
       ELSE /\ Exit
            /\ command' = IF OpenCode \/ CodexExec THEN command
                          ELSE GroupKilled(Killed(command))
    /\ UNCHANGED <<run, server, wire, shared, bounds>>

\* The watchdog of a Codex worker, and the descendants it took down.
Watchdog ==
    /\ Cancelled /\ worker.pc # "gone"
    /\ Exit
    /\ command' \in {Killed(command), WithoutHelper(Killed(command))}
    /\ UNCHANGED <<run, server, wire, closing, shared, bounds>>

-----------------------------------------------------------------------------

\* What a deadline bounds.
Proceed == \/ Refuse \/ Unfit \/ Unspawned \/ Spawn \/ Exited \/ Deadline \/ Interrupted
           \/ Terminate \/ Reclaim \/ Collect \/ Unwind \/ NotStarted

CNext ==
    \/ OneCommand /\ \/ Proceed \/ Unbound \/ Unexpected \/ HeartbeatThread
                     \/ ChildEnds \/ Fork \/ HelperEnds
                     \/ Terminated \/ Watchdog
    \/ OneCommand /\ (Work \/ Crash \/ Reap \/ Reserve) /\ UNCHANGED command
    \/ ~OneCommand /\ Next /\ UNCHANGED command

CInit == (Init \/ CommandInit) /\ command = NoCommand

CSpec == CInit /\ [][CNext]_cvars /\ Fairness /\ WF_cvars(OneCommand /\ Proceed)

-----------------------------------------------------------------------------
(* Properties.                                                             *)

CTypeOK == command \in Command /\ (~OneCommand => TypeOK)

\* A command completes its task only by an exit of its own and an output that
\* says so as a whole (_gate_protocol, route_executor_terminal), and fails it
\* only if it ended, could not be spawned, or OpenCode's deadline took it: a
\* cancel, a receipt or a process that went on is recovery.
EarnedByExit ==
    /\ task = "completed" => command.child = "zero" /\ command.told
    /\ task = "failed" =>
           \/ command.child \in {"zero", "error"}
           \/ OpenCode /\ (command.child = "none" \/ (command.child = "killed" /\ command.late))

EarnedOutcome == IF OneCommand THEN EarnedByExit ELSE TerminalByTurn

\* No adapter closes its lease over a child that runs, and OpenCode neither
\* closes it nor completes a task over a writer in its group or a reader that
\* goes on (_finalize_run_lease, _execution_stopped, _close_run_lease).
LeaseAfterChild ==
    worker.pc # "gone" =>
        /\ lease.disk = "closed" => ~Lives
        /\ OpenCode /\ (lease.disk = "closed" \/ task = "completed") =>
               ~GroupAlive /\ ~PipeHeld

NoWriterLeft == IF OneCommand THEN LeaseAfterChild ELSE NoActiveWriter

=============================================================================
