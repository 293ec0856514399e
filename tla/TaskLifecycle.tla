--------------------------- MODULE TaskLifecycle ---------------------------
(***************************************************************************)
(* One task from its dispatch to its outcome: the task record (task.json), *)
(* its RunLease (run_lease.json), the worker processes that run it, the    *)
(* Runner that spawns and reaps them, the maintenance that reconciles lost *)
(* runs, and the user who answers, cancels, recovers or closes             *)
(* (service.py, runner.py, cli.py, run_lease.py, executors/base.py).       *)
(*                                                                         *)
(* All of these are processes of their own.  What coordinates them is what *)
(* the handlers read from the two files: there is no lock on the task.     *)
(* Each handler of the service is one step here; the steps of a worker,    *)
(* of a close and of a cancel are separate, and anything may come between. *)
(* A worker stands for its Runner run and for its executor's run: each     *)
(* dispatch draws a new identity.                                          *)
(***************************************************************************)
EXTENDS Naturals, FiniteSets

CONSTANTS
    Workers,        \* worker runs, one per dispatch
    NoWorker,
    MaxCrashes,     \* bound: workers and commands that die, writes that fail
    MaxRestarts,    \* bound: Runner restarts
    MaxAborts       \* bound: closes that give up

ASSUME LifecycleAssumption ==
    /\ NoWorker \notin Workers
    /\ MaxCrashes \in Nat
    /\ MaxRestarts \in Nat
    /\ MaxAborts \in Nat

VARIABLES
    task,       \* task.json
    runLease,   \* run_lease.json
    phase,      \* what each worker run is doing
    watched,    \* Runner's run table
    unwaited,   \* workers in it that no thread waits for
    launch,     \* the dispatch Runner is serving
    signalled,  \* workers Runner has sent SIGTERM
    user,       \* the cancel or close command in progress
    targets,    \* the runs a close waits for
    crashes, restarts, aborts

vars == <<task, runLease, phase, watched, unwaited, launch, signalled, user,
          targets, crashes, restarts, aborts>>
command == <<signalled, user, targets, aborts>>
dispatch == <<unwaited, launch>>
faults == <<crashes, restarts>>

Status == {"pending", "running", "input_required", "completed", "failed",
           "cancelled", "needs_recovery", "deleted"}

\* The kinds of a waiting agentbc.input; "none" is no request or a settled one.
Wait == {"none", "message", "resource"}

\* A worker's process is alive from its spawning to its exit.
Alive == {"spawned", "checked", "claimed", "executing", "returned",
          "finalized", "asking"}
Gone == {"exited", "reaped"}
Live(w) == w \in Workers /\ phase[w] \in Alive

\* resuming is internal_status = "resuming", intent the presence of
\* agentbc.close_intent, final that of agentbc.final_callback, ref the
\* worker_run_id, pid the worker whose worker_pid is recorded, lease the
\* dispatch lease (lease.json).
NewTask == [status |-> "pending", resuming |-> FALSE, wait |-> "none",
            intent |-> FALSE, final |-> FALSE, ref |-> NoWorker,
            pid |-> NoWorker, lease |-> FALSE]

\* RunLeaseState: "open" stands for ACTIVE, STALE and ORPHANED, and only then
\* does it matter whose it is.
NoLease == [state |-> "none", run |-> NoWorker]
ClosedLease == [state |-> "closed", run |-> NoWorker]
SuspendedLease == [state |-> "suspended", run |-> NoWorker]

\* Runner serves one request after the other, dispatches among them.
Launching(at, w) == [at |-> at, run |-> w]
Idle == Launching("idle", NoWorker)
Free == launch = Idle

Exists(t) == t.status # "deleted"
Resuming(t) == t.status = "running" /\ t.resuming

Init ==
    /\ task = NewTask
    /\ runLease = NoLease
    /\ phase = [w \in Workers |-> "new"]
    /\ watched = {} /\ unwaited = {}
    /\ launch = Idle
    /\ signalled = {}
    /\ user = "idle"
    /\ targets = {}
    /\ crashes = 0 /\ restarts = 0 /\ aborts = 0

-----------------------------------------------------------------------------
(* What the service's handlers make of the two files.                      *)

Closed(l) == IF l.state = "none" THEN l ELSE ClosedLease

\* Late infrastructure signals leave a trusted result and a reserved close
\* alone.  (Mutation: a trusted result is no obstacle.)
RecoveryOverResult(t) == Exists(t) /\ ~t.intent
Recoverable(t) ==
    /\ ~t.intent
    /\ t.status \in {"pending", "running", "input_required", "needs_recovery"}

\* Mutation: the waiting request is forgotten, the dispatch lease kept.
RecoverKeepsLease(t, close) ==
    IF ~Recoverable(t) THEN t
    ELSE [t EXCEPT !.status = "needs_recovery", !.resuming = FALSE,
                   !.wait = "none", !.final = FALSE,
                   !.ref = IF close THEN NoWorker ELSE @,
                   !.pid = IF close THEN NoWorker ELSE @]

\* mark_task_needs_recovery, with close_run_lease or without.
Recover(t, close) ==
    IF ~Recoverable(t) THEN t
    ELSE [t EXCEPT !.status = "needs_recovery", !.resuming = FALSE,
                   !.wait = "none", !.final = FALSE, !.lease = FALSE,
                   !.ref = IF close THEN NoWorker ELSE @,
                   !.pid = IF close THEN NoWorker ELSE @]
RecoverLease(t, l, close) ==
    IF Recoverable(t) /\ (close \/ l.state = "suspended") THEN Closed(l) ELSE l

\* mark_task_failed: only an earlier failure and a reserved close stop it.
\* (Mutation: the callback is not superseded.)
Failable(t) == Exists(t) /\ ~t.intent /\ t.status # "failed"
FailKeepsCallback(t) ==
    IF ~Failable(t) THEN t
    ELSE [t EXCEPT !.status = "failed", !.resuming = FALSE, !.lease = FALSE]
Fail(t) ==
    IF ~Failable(t) THEN t
    ELSE [t EXCEPT !.status = "failed", !.resuming = FALSE, !.final = FALSE,
                   !.lease = FALSE]
FailLease(t, l) ==
    IF Failable(t) /\ l.state = "suspended" THEN Closed(l) ELSE l

\* finalize_task_from_agent with a terminal declaration.
Accepts(t) ==
    /\ Exists(t) /\ ~t.intent
    /\ ~(t.status \in {"completed", "failed", "needs_recovery"} /\ t.final)
    /\ t.status \notin {"cancelled", "needs_recovery"}
Finalized(t, final) ==
    [t EXCEPT !.status = final, !.resuming = FALSE, !.final = TRUE,
              !.lease = FALSE]

\* _suspend_task_for_input and block_task_for_resource.
\* (Mutation: the request is not recorded.)
SuspendedSilently(t, kind) ==
    [t EXCEPT !.status = "input_required", !.resuming = FALSE,
              !.final = FALSE, !.lease = FALSE]
Suspended(t, kind) ==
    [t EXCEPT !.status = "input_required", !.resuming = FALSE, !.wait = kind,
              !.final = FALSE, !.lease = FALSE]

\* clear_execution_run_references, of any worker and of the one that exits.
Cleared(t) == [t EXCEPT !.ref = NoWorker, !.pid = NoWorker]
Unreferenced(t, w) == IF t.ref = w THEN Cleared(t) ELSE t

\* close_needs_recovery_run_lifecycle
LifecycleClosed(t) == [Cleared(t) EXCEPT !.lease = FALSE, !.resuming = FALSE]

-----------------------------------------------------------------------------
(* Runner: dispatch.                                                       *)

\* dispatch_task: requeue_task first for a task that needs it.
Dispatchable ==
    \/ task.status = "pending"
    \/ /\ task.status \in {"needs_recovery", "failed"}
       /\ runLease.state \in {"none", "closed"}

Requeued == [task EXCEPT !.status = "pending", !.resuming = FALSE]

Fault == crashes < MaxCrashes /\ crashes' = crashes + 1

\* The pointer is in the record before the process starts.  If its run cannot
\* be registered then, no thread will wait for it and the dispatch gives it up.
Spawn(w, t) ==
    /\ phase[w] = "new"
    /\ phase' = [phase EXCEPT ![w] = "spawned"]
    /\ watched' = watched \cup {w}
    /\ task' = [t EXCEPT !.ref = w]
    /\ \/ launch' = Launching("activate", w) /\ UNCHANGED <<unwaited, crashes>>
       \/ launch' = Launching("abandon", w) /\ unwaited' = unwaited \cup {w} /\ Fault
    /\ UNCHANGED runLease

\* There is no process: _reconcile_worker_start_failure, after the pointer to
\* the new run was written to the record or before.
SpawnFails(w, t) ==
    /\ phase[w] = "new"
    /\ phase' = [phase EXCEPT ![w] = "reaped"]
    /\ \E u \in {t, [t EXCEPT !.ref = w]} :
          task' = Unreferenced(Recover(u, FALSE), w)
    /\ runLease' = RecoverLease(t, runLease, FALSE)
    /\ UNCHANGED <<watched, dispatch, crashes>>

Dispatch(w) ==
    /\ Free /\ Dispatchable
    /\ Spawn(w, Requeued) \/ SpawnFails(w, Requeued)
    /\ UNCHANGED <<command, restarts>>

\* The pointer is written once more, with the process id.
Activated(t, w) == [t EXCEPT !.ref = w, !.pid = w]

Accept(w) ==
    /\ launch = Launching("activate", w)
    /\ Exists(task)
    /\ task' = Activated(task, w)
    /\ launch' = Idle
    /\ UNCHANGED <<runLease, phase, watched, unwaited, command, faults>>

\* That write fails, or the event after it: the worker is told to stop.  For
\* Codex cancel returns at once, for the others when the worker has ended.
ActivationFails(w) ==
    /\ launch = Launching("activate", w)
    /\ \/ ~Exists(task) /\ UNCHANGED <<task, crashes>>
       \/ Exists(task) /\ task' \in {task, Activated(task, w)} /\ Fault
    /\ signalled' = IF Live(w) THEN signalled \cup {w} ELSE signalled
    /\ launch' = Launching("abandon", w)
    /\ UNCHANGED <<runLease, phase, watched, unwaited, user, targets, aborts, restarts>>

\* _reconcile_worker_start_failure of a worker that was started.
Abandon(w) ==
    /\ launch = Launching("abandon", w)
    /\ task' = Unreferenced(Recover(task, FALSE), w)
    /\ runLease' = RecoverLease(task, runLease, FALSE)
    /\ launch' = Idle
    /\ UNCHANGED <<phase, watched, unwaited, command, faults>>

\* A policy check turns the dispatch down: the task stays requeued.
RefuseDispatch ==
    /\ Free /\ Dispatchable
    /\ task' = Requeued
    /\ UNCHANGED <<runLease, phase, watched, dispatch, command, faults>>

\* respond_and_dispatch: record the answer, then dispatch the continuation.
Answerable ==
    /\ task.status = "input_required" /\ task.wait # "none"
    /\ runLease.state # "open"
Answered == [task EXCEPT !.status = "running", !.resuming = TRUE,
                         !.wait = "none"]

Respond(w) ==
    /\ Free /\ Answerable
    /\ Spawn(w, Answered) \/ SpawnFails(w, Answered)
    /\ UNCHANGED <<command, restarts>>

\* The user refuses to raise an exhausted resource limit.  Under a reserved
\* close nothing is written.
Deny ==
    /\ Free /\ Answerable /\ task.wait = "resource"
    /\ Failable(task)
    /\ task' = Fail([task EXCEPT !.wait = "none"])
    /\ runLease' = FailLease(task, runLease)
    /\ UNCHANGED <<phase, watched, dispatch, command, faults>>

\* expire_waiting_inputs
Expire ==
    /\ Free /\ task.status = "input_required" /\ task.wait # "none"
    /\ task' = Recover([task EXCEPT !.wait = "none"], FALSE)
    /\ runLease' = RecoverLease(task, runLease, FALSE)
    /\ UNCHANGED <<phase, watched, dispatch, command, faults>>

-----------------------------------------------------------------------------
(* A worker: cli.command_worker_run.                                       *)

Step(w, from, to) == phase[w] = from /\ phase' = [phase EXCEPT ![w] = to]

\* The executor's probe fails.
ProbeFails(w) ==
    /\ Step(w, "spawned", "exited")
    /\ task' = IF task.status = "pending" THEN Recover(task, FALSE) ELSE task
    /\ runLease' = IF task.status = "pending"
                   THEN RecoverLease(task, runLease, FALSE) ELSE runLease
    /\ UNCHANGED <<watched, dispatch, command, faults>>

\* The worker looks at its task and exits if there is nothing to run.
CheckTask(w) ==
    /\ Step(w, "spawned",
            IF task.status = "pending" \/ Resuming(task)
            THEN "checked" ELSE "exited")
    /\ UNCHANGED <<task, runLease, watched, dispatch, command, faults>>

Startable(t) ==
    /\ t.status \in {"pending", "needs_recovery"} \/ Resuming(t)
    /\ ~t.lease

\* start_task_run
StartRun(w) ==
    /\ Startable(task)
    /\ Step(w, "checked", "claimed")
    /\ task' = [task EXCEPT !.status = "running", !.resuming = FALSE,
                            !.lease = TRUE]
    /\ UNCHANGED <<runLease, watched, dispatch, command, faults>>

\* The task was taken in between: the error marks whatever task it finds.
StartRefused(w) ==
    /\ ~Startable(task)
    /\ Step(w, "checked", "exited")
    /\ task' = Recover(task, FALSE)
    /\ runLease' = RecoverLease(task, runLease, FALSE)
    /\ UNCHANGED <<watched, dispatch, command, faults>>

\* executor.start creates the RunLease of this run.
StartExecutor(w) ==
    /\ Exists(task)
    /\ Step(w, "claimed", "executing")
    /\ runLease' = [state |-> "open", run |-> w]
    /\ UNCHANGED <<task, watched, dispatch, command, faults>>

\* It fails, before the lease is created or after.
StartFails(w) ==
    /\ Step(w, "claimed", "exited")
    /\ task' = Recover(task, FALSE)
    /\ \/ runLease' = RecoverLease(task, runLease, FALSE)
       \/ Exists(task) /\ runLease' = ClosedLease
    /\ UNCHANGED <<watched, dispatch, command, faults>>

\* heartbeat saves the lease the adapter holds in memory, which is ACTIVE.
Heartbeat(w) ==
    /\ phase[w] = "executing"
    /\ runLease' = [state |-> "open", run |-> w]
    /\ runLease' # runLease
    /\ UNCHANGED <<task, phase, watched, dispatch, command, faults>>

\* The executor is done and the adapter closes the lease it holds.
Return(w) ==
    /\ Step(w, "executing", "returned")
    /\ runLease' = ClosedLease
    /\ UNCHANGED <<task, watched, dispatch, command, faults>>

\* finalize_task_from_executor_exit with a valid callback.
Finalize(w, final) ==
    /\ Step(w, "returned", IF Accepts(task) THEN "finalized" ELSE "exited")
    /\ task' = IF Accepts(task) THEN Finalized(task, final) ELSE task
    /\ UNCHANGED <<runLease, watched, dispatch, command, faults>>

\* An input_required declaration is checked against the close only, a
\* resource wait not even against that.  The worker then shows a dialog, which
\* answers like the command line does (Respond), or passes.
AskInput(w, kind) ==
    /\ Exists(task) /\ (kind = "message" => ~task.intent)
    /\ Step(w, "returned", "asking")
    /\ task' = Suspended(task, kind)
    /\ runLease' = SuspendedLease
    /\ UNCHANGED <<watched, dispatch, command, faults>>

AskRefused(w) ==
    /\ ~Exists(task) \/ task.intent
    /\ Step(w, "returned", "exited")
    /\ UNCHANGED <<task, runLease, watched, dispatch, command, faults>>

DialogPasses(w) ==
    /\ Step(w, "asking", "exited")
    /\ UNCHANGED <<task, runLease, watched, dispatch, command, faults>>

\* A failed poll, a missing marker or an error after the start.
ReportFailure(w) ==
    /\ Step(w, "returned", "exited")
    /\ task' = Fail(task)
    /\ runLease' = FailLease(task, runLease)
    /\ UNCHANGED <<watched, dispatch, command, faults>>

\* A retryable failure.
ReportRetryable(w) ==
    /\ Step(w, "returned", "exited")
    /\ task' = Recover(task, FALSE)
    /\ runLease' = RecoverLease(task, runLease, FALSE)
    /\ UNCHANGED <<watched, dispatch, command, faults>>

\* After finalizing, the permission runtime record closes or does not.
Conclude(w) ==
    /\ Step(w, "finalized", "exited")
    /\ \/ UNCHANGED <<task, runLease>>
       \/ task' = Fail(task) /\ runLease' = FailLease(task, runLease)
    /\ UNCHANGED <<watched, dispatch, command, faults>>

\* The worker and its process group die.
Die(w) ==
    /\ phase[w] \in Alive
    /\ phase' = [phase EXCEPT ![w] = "exited"]
    /\ IF w \in signalled THEN UNCHANGED crashes ELSE Fault
    /\ UNCHANGED <<task, runLease, watched, dispatch, command, restarts>>

-----------------------------------------------------------------------------
(* Runner: exit reconciliation and maintenance.                            *)

Settled == task.status \in {"completed", "failed", "cancelled"}
Unsettled == task.status \in {"pending", "running", "input_required"}

\* Mutations: the pointer in the record is not compared with the run reaped;
\* an exit counts only if the RunLease names the run, too.
AnyExit(w) == Exists(task)
LeasedExit(w) == Exists(task) /\ task.ref = w /\ runLease.run = w
CurrentExit(w) == Exists(task) /\ task.ref = w

\* _reconcile_worker_exit
Reap(w) ==
    /\ w \in watched \ unwaited
    /\ phase[w] = "exited"
    /\ phase' = [phase EXCEPT ![w] = "reaped"]
    /\ signalled' = signalled \ {w}
    /\ \/ /\ ~CurrentExit(w) \/ Settled
          /\ UNCHANGED <<task, runLease>>
       \/ /\ CurrentExit(w) /\ task.status = "needs_recovery"
          /\ task' = LifecycleClosed(task) /\ runLease' = Closed(runLease)
       \/ /\ CurrentExit(w) /\ Unsettled
          /\ task' = Unreferenced(Recover(task, TRUE), w)
          /\ runLease' = RecoverLease(task, runLease, TRUE)
    /\ UNCHANGED <<watched, dispatch, user, targets, aborts, faults>>

\* Mutation: a lease whose process is lost is left to its worker.
NeverLost == runLease.state = "open" /\ runLease.run = NoWorker
ProcessLost == runLease.state = "open" /\ ~Live(runLease.run) /\ ~Live(task.pid)

\* reconcile_task, from Runner maintenance, starting workers and commands.
Reconcile ==
    /\ ProcessLost
    /\ Exists(task)
    /\ \/ /\ Settled
          /\ UNCHANGED task /\ runLease' = Closed(runLease)
       \/ /\ task.status = "needs_recovery"
          /\ task' = LifecycleClosed(task) /\ runLease' = Closed(runLease)
       \/ /\ Unsettled
          /\ task' = Cleared(Recover(task, TRUE))
          /\ runLease' = RecoverLease(task, runLease, TRUE)
    /\ UNCHANGED <<phase, watched, dispatch, command, faults>>

\* A restarted Runner knows nothing of the runs of its predecessor.
RestartRunner ==
    /\ restarts < MaxRestarts
    /\ restarts' = restarts + 1
    /\ watched' = {} /\ launch' = Idle
    /\ UNCHANGED <<task, runLease, phase, unwaited, command, crashes>>

-----------------------------------------------------------------------------
(* The user.                                                               *)

\* recover_task
RecoverTask ==
    /\ task.status = "needs_recovery"
    /\ runLease.state \notin {"none", "closed"}
    /\ runLease' = Closed(runLease)
    /\ UNCHANGED <<task, phase, watched, dispatch, command, faults>>

\* cancel_task.  The command line goes on to stop the runs; the MCP server
\* does not.
Cancel ==
    /\ task.status \in {"pending", "running", "input_required", "needs_recovery"}
    /\ task' = [task EXCEPT !.status = "cancelled", !.resuming = FALSE,
                            !.wait = "none", !.lease = FALSE]
    /\ runLease' = Closed(runLease)
    /\ user' \in {user} \cup (IF user = "idle" THEN {"cancelling"} ELSE {})
    /\ UNCHANGED <<phase, watched, dispatch, signalled, targets, aborts, faults>>

\* plan_task_close and reserve_task_close
ReserveClose ==
    /\ user = "idle"
    /\ task.status \in {"pending", "running", "input_required"}
    /\ user' = "reserved"
    /\ task' = [task EXCEPT !.intent = TRUE]
    /\ UNCHANGED <<runLease, phase, watched, dispatch, signalled, targets, aborts, faults>>

\* _cancel_task_runner_runs: Runner signals the live runs it knows.
CancelRuns ==
    /\ Free /\ user \in {"cancelling", "reserved"}
    /\ LET live == {w \in watched : Live(w)} IN
         /\ signalled' = signalled \cup live
         /\ targets' = IF user = "reserved" THEN live ELSE {}
    /\ user' = IF user = "reserved" THEN "closing" ELSE "idle"
    /\ UNCHANGED <<task, runLease, phase, watched, dispatch, aborts, faults>>

\* commit_task_close, once Runner has seen the end of every run cancelled.
CommitClose ==
    /\ user = "closing"
    /\ task.intent
    /\ \A w \in targets : phase[w] \in Gone /\ w \notin unwaited
    /\ task' = [NewTask EXCEPT !.status = "deleted"]
    /\ runLease' = NoLease
    /\ user' = "idle" /\ targets' = {}
    /\ UNCHANGED <<phase, watched, dispatch, signalled, aborts, faults>>

\* abort_task_close, when a cancellation reported an error.
AbortClose ==
    /\ user = "closing"
    /\ aborts < MaxAborts
    /\ aborts' = aborts + 1
    /\ task' = [task EXCEPT !.intent = FALSE]
    /\ user' = "idle" /\ targets' = {}
    /\ UNCHANGED <<runLease, phase, watched, dispatch, signalled, faults>>

\* The command dies half way.
LoseCommand ==
    /\ user # "idle"
    /\ Fault
    /\ user' = "idle" /\ targets' = {}
    /\ UNCHANGED <<task, runLease, phase, watched, dispatch, signalled, aborts, restarts>>

-----------------------------------------------------------------------------
\* What a worker does of its own accord.
Work(w) ==
    \/ ProbeFails(w)
    \/ CheckTask(w)
    \/ StartRun(w)
    \/ StartRefused(w)
    \/ StartExecutor(w)
    \/ StartFails(w)
    \/ Return(w)
    \/ \E final \in {"completed", "cancelled"} : Finalize(w, final)
    \/ \E kind \in Wait \ {"none"} : AskInput(w, kind)
    \/ AskRefused(w)
    \/ DialogPasses(w)
    \/ ReportFailure(w)
    \/ ReportRetryable(w)
    \/ Conclude(w)

Command == CancelRuns \/ CommitClose
Launch(w) == Accept(w) \/ ActivationFails(w) \/ Abandon(w)

Next ==
    \/ \E w \in Workers : Work(w) \/ Heartbeat(w) \/ Die(w) \/ Reap(w)
                            \/ Dispatch(w) \/ Respond(w) \/ Launch(w)
    \/ RefuseDispatch \/ Deny \/ Expire \/ Reconcile \/ RestartRunner
    \/ RecoverTask \/ Cancel \/ ReserveClose \/ Command \/ AbortClose
    \/ LoseCommand

Spec == Init /\ [][Next]_vars

\* Workers run, Runner waits for its children in a thread each, maintenance
\* comes round every ten seconds, and a dispatch or a command that was started
\* goes on.  (A worker has exited before it is reaped.)
Fairness ==
    /\ \A w \in Workers : WF_vars(Work(w) \/ Reap(w))
    /\ WF_vars(\E w \in Workers : Launch(w))
    /\ WF_vars(Reconcile)
    /\ WF_vars(Command)

FairSpec == Spec /\ Fairness

-----------------------------------------------------------------------------
TypeOK ==
    /\ task \in [status : Status, resuming : BOOLEAN, wait : Wait,
                 intent : BOOLEAN, final : BOOLEAN,
                 ref : Workers \cup {NoWorker}, pid : Workers \cup {NoWorker},
                 lease : BOOLEAN]
    /\ runLease \in [state : {"none", "open", "suspended", "closed"},
                     run : Workers \cup {NoWorker}]
    /\ phase \in [Workers -> {"new"} \cup Alive \cup Gone]
    /\ watched \in SUBSET Workers
    /\ unwaited \in SUBSET Workers
    /\ launch \in [at : {"idle", "activate", "abandon"},
                  run : Workers \cup {NoWorker}]
    /\ signalled \in SUBSET Workers
    /\ user \in {"idle", "cancelling", "reserved", "closing"}
    /\ targets \in SUBSET Workers
    /\ crashes \in 0..MaxCrashes
    /\ restarts \in 0..MaxRestarts
    /\ aborts \in 0..MaxAborts

\* The dispatch lease is held exactly while a claimed run is in progress:
\* every way a run can end gives it back, so no task is queued, waiting or
\* revivable with a lease that would refuse its next worker.
LeaseFollowsRun ==
    task.lease <=> (task.status = "running" /\ ~task.resuming)

\* Only a task whose agent declared its end carries a final callback: a
\* failure or a recovery supersedes it, a wait or a new run never inherits it.
CallbackMatchesOutcome == task.final => task.status \in {"completed", "cancelled"}

\* A task that waits for the user has a request the user can answer.  The
\* exception: a request that expires under a reserved close is spent while the
\* status stays, and stays still when the close is aborted.
WaitHasRequest ==
    task.status = "input_required"
        => (task.wait # "none" \/ task.intent \/ aborts > 0)

\* What a status rests on is on record with it: a request under a wait, an outcome
\* an agent declared under a final callback (service.py update_task, the writes
\* that end, suspend and revive a run).
StatusBacked == CallbackMatchesOutcome /\ WaitHasRequest

\* Whatever exits, expires or is reconciled, the record never loses its
\* pointer to a worker that is alive and whose process id it has: only a dispatch
\* replaces it, or gives up the worker it has just started and told to stop
\* (dispatch_worker, _reconcile_worker_start_failure), which may then live for a
\* while with nothing pointing to it.  Before its process id is recorded, a worker
\* can lose the pointer to a dispatch that could not register it and to a
\* reconciliation of the run before it.
LivePointerKept ==
    [][(/\ Live(task.ref) /\ task.pid = task.ref
        /\ Exists(task') /\ task'.ref # task.ref)
       => \/ \E w \in Workers : phase[w] = "new" /\ phase'[w] # "new"
          \/ launch = Launching("abandon", task.ref) /\ task.ref \in signalled]_vars

\* A result the agent or the user put down is never replaced by a signal of
\* the infrastructure: only a worker reporting its own executor's end can
\* replace it, or a close reserved before.
ResultOutlivesInfrastructure ==
    [][(task.status \in {"completed", "cancelled"} /\ task'.status # task.status)
       => \/ \E w \in Workers : /\ phase[w] \in {"returned", "finalized"}
                                /\ phase'[w] # phase[w]
          \/ task.intent]_vars

\* A run whose live worker the record points to does not stay in progress for
\* ever: the worker reports, or Runner reconciles its exit, unless Runner
\* restarted and forgot it or a close has reserved the task.
RunSettles ==
    (task.status = "running" /\ Live(task.ref) /\ task.ref \in watched)
        ~> (task.status # "running" \/ watched = {} \/ task.intent)

\* A lease left open by a process that died is closed in the end, even if
\* Runner restarted in between and watches nobody, unless a close reserved or
\* deleted the task or another worker took the lease over.
LostRunReconciled ==
    (runLease.state = "open" /\ ~Live(runLease.run))
        ~> \/ runLease.state # "open"
           \/ Live(runLease.run)
           \/ task.intent
           \/ ~Exists(task)
=============================================================================
