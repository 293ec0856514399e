------------------------------ MODULE Elevation ------------------------------
(***************************************************************************)
(* The one full-permission elevation of a task: an executor is blocked by  *)
(* its own permission system, the task waits for an answer, and an         *)
(* approval lets one run go on with full permission                        *)
(* (approval_lifecycle.py, permission_elevation.py, runner.py, cli.py).    *)
(*                                                                         *)
(* In the ended flow (Codex, Hermes) the worker suspends its RunLease,     *)
(* shows the dialog and exits; an approval dispatches a continuation.  In  *)
(* the live flow (Claude) the worker keeps its lease, and the SDK thread   *)
(* waits in the control plane (control_runtime.py) for the answer that     *)
(* Runner records in the task first and in the plane next.                 *)
(*                                                                         *)
(* A step is one call of a service handler, one locked section of the      *)
(* control plane, or one reading of them.  Runner serves one request at a  *)
(* time; workers, their SDK threads and the threads that reap them run     *)
(* beside it.                                                              *)
(***************************************************************************)
EXTENDS Naturals

CONSTANTS
    MaxRuns,        \* bound: workers that are dispatched
    MaxAnswers,     \* bound: answers given
    MaxRequeues,    \* bound: dispatches of the task once it stopped
    MaxCrashes      \* bound: workers that die

ASSUME ElevationAssumption ==
    /\ MaxRuns \in Nat \ {0}
    /\ MaxAnswers \in Nat
    /\ MaxRequeues \in Nat
    /\ MaxCrashes \in Nat

Run == 1..MaxRuns
NoRun == 0
RunOrNone == 0..MaxRuns

VARIABLES
    live,       \* the executor's flow: live or ended
    task,       \* task.json
    lease,      \* the RunLease
    plane,      \* control state of the live flow: pending_request and status
    late,       \* the deadline that the task and the plane share has passed
    proc,       \* the workers, and the native executor of each
    runner,     \* the request that Runner serves
    launched,   \* bound: workers dispatched so far
    dialogs,    \* dialogs shown
    answers, requeues, crashes

bounds == <<launched, dialogs, answers, requeues, crashes>>
vars == <<live, task, lease, plane, late, proc, runner, bounds>>

-----------------------------------------------------------------------------
(* Records.                                                                *)

\* status: "resuming" is running with internal_status resuming.  elev is
\* agentbc.permission_elevation and bound its continuation; input and asker
\* are agentbc.input; worker and executor are the two run pointers.
Task == [status : {"pending", "running", "waiting", "resuming", "completed",
                   "failed", "recovery"},
         input : {"none", "waiting", "approve", "deny", "invalid"},
         elev : {"none", "prepared", "approved", "denied", "active", "verified",
                 "blocked"},
         asker : RunOrNone, bound : RunOrNone, notified : BOOLEAN,
         worker : RunOrNone, executor : RunOrNone]

Lease == [state : {"none", "active", "suspended", "closed"}, run : RunOrNone]

Plane == [run : RunOrNone,
          pending : {"none", "pending", "responded", "expired", "invalidated"},
          answer : {"none", "accept", "decline"}, dead : BOOLEAN]

\* mode: what the native executor may do, and where its SDK thread is.
Modes == {"none", "safe", "asking", "overdue", "full", "denied", "lost"}
Alive == {"spawned", "started", "bound", "ready", "launched", "working", "blocked",
          "notify", "dialog", "watching", "clear", "returned", "verify"}
Proc == [pc : Alive \cup {"none", "gone", "reaped"}, mode : Modes]
Gone == [pc |-> "gone", mode |-> "none"]

Live(r) == r # NoRun /\ proc[r].pc \in Alive

Granted(t) == t.elev \in {"approved", "active", "verified"}
Ended == {"completed", "failed"}

Goto(r, pc) == proc' = [proc EXCEPT ![r].pc = pc]
Exit(r) == proc' = [proc EXCEPT ![r] = Gone]
Free == runner.pc = "idle"
Unlocked == runner.pc # "commit"        \* control.lock
Serve(pc) == runner' = [runner EXCEPT !.pc = pc]

Init ==
    /\ live \in BOOLEAN
    /\ task = [status |-> "pending", input |-> "none", elev |-> "none",
               asker |-> NoRun, bound |-> NoRun, notified |-> FALSE,
               worker |-> NoRun, executor |-> NoRun]
    /\ lease = [state |-> "none", run |-> NoRun]
    /\ plane = [run |-> NoRun, pending |-> "none", answer |-> "none", dead |-> FALSE]
    /\ late = FALSE
    /\ proc = [r \in Run |-> [pc |-> "none", mode |-> "none"]]
    /\ runner = [pc |-> "idle", say |-> "none"]
    /\ launched = 0 /\ dialogs = 0
    /\ answers = 0 /\ requeues = 0 /\ crashes = 0

-----------------------------------------------------------------------------
(* What the service's handlers make of the records.                        *)

Closed(l) == IF l.state = "none" THEN l ELSE [l EXCEPT !.state = "closed"]
Unsuspended(l) == IF l.state = "suspended" THEN Closed(l) ELSE l

\* (Mutation: a task whose input is answered is left alone.)
RecoverUnanswered(t) ==
    IF t.status \in Ended \/ t.input \in {"approve", "deny"} THEN t
    ELSE [t EXCEPT !.status = "recovery",
                   !.input = IF @ = "waiting" THEN "invalid" ELSE @]
\* mark_task_needs_recovery, without close_run_lease and with it.
Recover(t) ==
    IF t.status \in Ended THEN t
    ELSE [t EXCEPT !.status = "recovery",
                   !.input = IF @ = "waiting" THEN "invalid" ELSE @]
RecoverLease(t, l) == IF t.status \in Ended THEN l ELSE Unsuspended(l)
Unreferenced(t) == [t EXCEPT !.worker = NoRun, !.executor = NoRun]

\* mark_task_failed
Fail(t) == [t EXCEPT !.status = "failed"]
FailLease(t, l) == IF t.status = "failed" THEN l ELSE Unsuspended(l)

\* The control plane's gate: mark_recovery, and invalidate_request.
Dead(p) == [p EXCEPT !.dead = TRUE]
Invalidated(p) ==
    IF p.pending = "pending" THEN [Dead(p) EXCEPT !.pending = "invalidated"] ELSE p

-----------------------------------------------------------------------------
(* Runner: dispatch of a task that is pending or goes on.                  *)

Requeueable == task.status \in {"failed", "recovery"}
               /\ lease.state \in {"none", "closed"}

\* dispatch_task; requeue_task keeps the elevation.  (TaskLifecycle has the
\* task that is dispatched again before its worker started.)
Dispatch ==
    /\ Free /\ launched < MaxRuns
    /\ \/ launched = 0 /\ UNCHANGED <<task, requeues>>
       \/ /\ Requeueable /\ requeues < MaxRequeues
          /\ task' = [task EXCEPT !.status = "pending"]
          /\ requeues' = requeues + 1
    /\ Serve("publish")
    /\ UNCHANGED <<live, lease, plane, late, proc, launched, dialogs, answers, crashes>>

\* dispatch_worker looks at the task again, and writes the pointer before it
\* starts the process and, with the process id, after that.
Publish ==
    /\ runner.pc = "publish"
    /\ IF task.status \in {"pending", "resuming"}
       THEN task' = [task EXCEPT !.worker = launched + 1] /\ Serve("spawn")
       ELSE UNCHANGED task /\ Serve("idle")
    /\ UNCHANGED <<live, lease, plane, late, proc, bounds>>

Spawn ==
    /\ runner.pc = "spawn"
    /\ launched' = launched + 1
    /\ \/ /\ proc' = [proc EXCEPT ![launched'] = [pc |-> "spawned", mode |-> "none"]]
          /\ Serve("accept")
          /\ UNCHANGED <<task, lease>>
       \/ /\ proc' = [proc EXCEPT ![launched'].pc = "reaped"]
          /\ task' = IF task.worker = launched' THEN Unreferenced(Recover(task))
                                                ELSE Recover(task)
          /\ lease' = RecoverLease(task, lease)
          /\ Serve("idle")
    /\ UNCHANGED <<live, plane, late, dialogs, answers, requeues, crashes>>

Accept ==
    /\ runner.pc = "accept"
    /\ task' = [task EXCEPT !.worker = launched]
    /\ Serve("idle")
    /\ UNCHANGED <<live, lease, plane, late, proc, bounds>>

-----------------------------------------------------------------------------
(* A worker: cli.command_worker_run.                                       *)

\* It looks at its task and claims it (start_task_run), or exits.
Start(r) ==
    /\ proc[r].pc = "spawned"
    /\ IF task.status \in {"pending", "resuming"}
       THEN task' = [task EXCEPT !.status = "running"] /\ Goto(r, "started")
       ELSE Exit(r) /\ UNCHANGED task
    /\ UNCHANGED <<live, lease, plane, late, runner, bounds>>

\* activate_task_elevation binds the one continuation.
Activate(r) ==
    /\ proc[r].pc = "started" /\ task.elev = "approved"
    /\ task' = [task EXCEPT !.elev = "active", !.bound = r]
    /\ Goto(r, "bound")
    /\ UNCHANGED <<live, lease, plane, late, runner, bounds>>

\* update_execution_metadata: a continuation's run is known before its
\* executor starts, another's after that.
Register(r) ==
    /\ proc[r].pc \in {"bound", "launched"}
    /\ task' = [task EXCEPT !.executor = r]
    /\ Goto(r, IF proc[r].pc = "bound" THEN "ready" ELSE "working")
    /\ UNCHANGED <<live, lease, plane, late, runner, bounds>>

Startable(r) ==
    \/ proc[r].pc = "ready"
    \/ proc[r].pc = "started" /\ task.elev # "approved"

\* Mutation: the pending request counts as a grant.
GrantedEarly(t) == t.elev \notin {"none", "denied"}
Authorized(t) == Granted(t)

\* executor.start: Runner authorizes the run under its lock by what the task
\* record grants, and the adapter opens the RunLease.
Launch(r) ==
    /\ Startable(r) /\ Free
    /\ \/ /\ lease' = [state |-> "active", run |-> r]
          /\ proc' = [proc EXCEPT ![r] =
                [pc |-> IF @.pc = "ready" THEN "working" ELSE "launched",
                 mode |-> IF Authorized(task) THEN "full" ELSE "safe"]]
          /\ UNCHANGED task
       \/ /\ task' = Recover(task)
          /\ lease' = RecoverLease(task, lease)
          /\ Exit(r)
    /\ UNCHANGED <<live, plane, late, runner, bounds>>

\* The SDK's can_use_tool opens a request in the control plane of this run.
Ask(r) ==
    /\ live /\ proc[r].pc = "working" /\ proc[r].mode = "safe"
    /\ Unlocked
    /\ plane' = [run |-> r, pending |-> "pending", answer |-> "none", dead |-> FALSE]
    /\ late' = FALSE
    /\ proc' = [proc EXCEPT ![r].mode = "asking"]
    /\ UNCHANGED <<live, task, lease, runner, bounds>>

\* The worker polls its executor and finds a native block.
Reported(r) ==
    /\ proc[r].pc = "working"
    /\ IF live THEN /\ proc[r].mode \in {"asking", "overdue"}
                    /\ plane.run = r /\ plane.pending = "pending" /\ ~plane.dead
               ELSE proc[r].mode \in {"safe", "full"}

Waiting(t, r) == [t EXCEPT !.status = "waiting", !.input = "waiting",
                           !.elev = "prepared", !.asker = r,
                           !.notified = FALSE]

\* A task asks once: whatever became of an earlier elevation, another one is
\* refused.
MayAsk(t) == t.elev = "none"

\* block_task_for_approval: _block_task_for_elevation, or its refusal.  The
\* status of the task is not looked at.
Block(r) ==
    /\ Reported(r)
    /\ IF MayAsk(task) /\ task.input # "waiting"
       THEN /\ task' = Waiting(task, r)
            /\ late' = IF live THEN late ELSE FALSE
            /\ Goto(r, IF live THEN "notify" ELSE "blocked")
            /\ UNCHANGED lease
       ELSE /\ task' = Recover([task EXCEPT !.elev =
                           IF @ \in {"approved", "active"} THEN "blocked" ELSE @])
            /\ lease' = RecoverLease(task, lease)
            /\ Exit(r)
            /\ UNCHANGED late
    /\ UNCHANGED <<live, plane, runner, bounds>>

\* The ended flow gives its lease up once the wait is on record.
Suspend(r) ==
    /\ proc[r].pc = "blocked"
    /\ lease' = [state |-> "suspended", run |-> r]
    /\ Goto(r, "notify")
    /\ UNCHANGED <<live, task, plane, late, runner, bounds>>

\* notify_input_required: the notice is reserved and the dialog shown, in
\* this process.  A request that is answered by now is an error that nothing
\* catches: the worker dies.
Notify(r) ==
    /\ proc[r].pc = "notify"
    /\ IF task.input = "waiting"
       THEN /\ task' = [task EXCEPT !.notified = TRUE]
            /\ dialogs' = IF task.notified THEN dialogs ELSE dialogs + 1
            /\ Goto(r, "dialog")
       ELSE Exit(r) /\ UNCHANGED <<task, dialogs>>
    /\ UNCHANGED <<live, lease, plane, late, runner, launched, answers, requeues, crashes>>

\* The dialog is answered (Answer), dismissed or times out.
CloseDialog(r) ==
    /\ proc[r].pc = "dialog"
    /\ Goto(r, IF live THEN "watching" ELSE "clear")
    /\ UNCHANGED <<live, task, lease, plane, late, runner, bounds>>

\* clear_execution_run_references of the worker that is about to exit.
Clear(r) ==
    /\ proc[r].pc = "clear"
    /\ task' = IF task.executor = r THEN Unreferenced(task) ELSE task
    /\ Exit(r)
    /\ UNCHANGED <<live, lease, plane, late, runner, bounds>>

-----------------------------------------------------------------------------
(* The SDK thread of a live run: ApprovalControlPlane.wait_for_decision.   *)

Answered(r) == plane.run = r /\ plane.answer # "none"

Take(r) ==
    /\ Live(r) /\ proc[r].mode \in {"asking", "overdue"}
    /\ Answered(r)
    /\ proc' = [proc EXCEPT ![r].mode =
                   IF plane.answer = "accept" THEN "full" ELSE "denied"]
    /\ UNCHANGED <<live, task, lease, plane, late, runner, bounds>>

\* The deadline is noticed without the lock; under the lock the answer is
\* looked for once more before the request expires.
Overdue(r) ==
    /\ Live(r) /\ proc[r].mode = "asking"
    /\ late /\ ~Answered(r)
    /\ proc' = [proc EXCEPT ![r].mode = "overdue"]
    /\ UNCHANGED <<live, task, lease, plane, late, runner, bounds>>

\* (Mutation: the answer is not looked for again.)
NotLookedAgain(r) == TRUE
StillPending(r) == ~Answered(r)

Lapse(r) ==
    /\ Live(r) /\ proc[r].mode = "overdue"
    /\ Unlocked /\ StillPending(r)
    /\ plane' = IF plane.pending \in {"pending", "responded"}
                THEN [Dead(plane) EXCEPT !.pending = "expired"] ELSE plane
    /\ proc' = [proc EXCEPT ![r].mode = "lost"]
    /\ UNCHANGED <<live, task, lease, late, runner, bounds>>

\* A request the plane gave up on ends the wait, and the transport's death
\* invalidates what is pending.
Lose(r) ==
    /\ Live(r) /\ proc[r].mode = "asking"
    /\ plane.run = r /\ plane.dead /\ ~Answered(r)
    /\ Unlocked
    /\ plane' = Invalidated(plane)
    /\ proc' = [proc EXCEPT ![r].mode = "lost"]
    /\ UNCHANGED <<live, task, lease, late, runner, bounds>>

-----------------------------------------------------------------------------
(* The end of a run.                                                       *)

Polling(r) == proc[r].pc \in {"working", "watching"}

\* The plane needs recovery, or the transport ended with an error.
PollRecovery(r) ==
    /\ live /\ Polling(r)
    /\ proc[r].mode = "lost" \/ (plane.run = r /\ plane.dead)
    /\ task' = Recover(task)
    /\ lease' = RecoverLease(task, lease)
    /\ Exit(r)
    /\ UNCHANGED <<live, plane, late, runner, bounds>>

\* The executor is done and its adapter closes the lease.
Return(r) ==
    /\ Polling(r) /\ proc[r].mode \in {"safe", "full", "denied"}
    /\ lease' = IF lease.run = r THEN Closed(lease) ELSE lease
    /\ Goto(r, "returned")
    /\ UNCHANGED <<live, task, plane, late, runner, bounds>>

\* finalize_task_from_executor_exit
Finalize(r) ==
    /\ proc[r].pc = "returned"
    /\ IF task.status = "running"
       THEN /\ \E final \in Ended : task' = [task EXCEPT !.status = final]
            /\ Goto(r, "verify")
       ELSE Exit(r) /\ UNCHANGED task
    /\ UNCHANGED <<live, lease, plane, late, runner, bounds>>

\* verify_task_elevation: an elevation that is active must be bound to this
\* run, or the result is turned into a failure.
Verify(r) ==
    /\ proc[r].pc = "verify"
    /\ task' = IF task.elev # "active" THEN task
               ELSE IF task.bound = r THEN [task EXCEPT !.elev = "verified"]
               ELSE Fail(task)
    /\ Exit(r)
    /\ UNCHANGED <<live, lease, plane, late, runner, bounds>>

Crash(r) ==
    /\ Live(r)
    /\ crashes < MaxCrashes
    /\ crashes' = crashes + 1
    /\ Exit(r)
    /\ UNCHANGED <<live, task, lease, plane, late, runner, launched, dialogs,
                   answers, requeues>>

\* _reconcile_worker_exit, in the thread that waited for the process.  A
\* waiting elevation is the expected reason for an exit.
Reap(r) ==
    /\ proc[r].pc = "gone"
    /\ Goto(r, "reaped")
    /\ \/ /\ task.worker # r \/ task.status \in Ended
          /\ UNCHANGED <<task, lease, plane>>
       \/ /\ task.worker = r /\ task.status = "waiting" /\ task.input = "waiting"
          /\ task' = Unreferenced(task)
          /\ UNCHANGED <<lease, plane>>
       \/ /\ task.worker = r /\ task.status = "recovery"
          /\ task' = Unreferenced(task)
          /\ lease' = Closed(lease)
          /\ Unlocked /\ plane' = Invalidated(plane)
       \/ /\ task.worker = r /\ task.status \in {"pending", "running", "resuming"}
          /\ task' = Unreferenced(Recover(task))
          /\ lease' = Closed(lease)
          /\ Unlocked /\ plane' = Invalidated(plane)
    /\ UNCHANGED <<live, late, runner, bounds>>

\* reconcile_task: the RunLease is held for a process that is gone.
Reconcile ==
    /\ lease.state = "active" /\ ~Live(lease.run) /\ ~Live(task.worker)
    /\ task' = IF task.status \in Ended THEN task ELSE Unreferenced(Recover(task))
    /\ lease' = Closed(lease)
    /\ UNCHANGED <<live, plane, late, proc, runner, bounds>>

-----------------------------------------------------------------------------
(* Runner: answers and deadlines.                                          *)

Elapse ==
    /\ ~late
    /\ task.input = "waiting" \/ plane.pending = "pending"
    /\ late' = TRUE
    /\ UNCHANGED <<live, task, lease, plane, proc, runner, bounds>>

\* (Mutation: a suspended run is left to its continuation.)
ExpirableLive == /\ task.status = "waiting" /\ task.input = "waiting" /\ late
                 /\ lease.state = "active"
Expirable == task.status = "waiting" /\ task.input = "waiting" /\ late

\* expire_waiting_inputs: the request is denied by timeout and the task
\* fails, in two writes.
Expire ==
    /\ Free
    /\ Expirable
    /\ task' = [Fail(task) EXCEPT !.input = "deny", !.elev = "denied"]
    /\ lease' = FailLease(task, lease)
    /\ UNCHANGED <<live, plane, late, proc, runner, bounds>>

Say == {"approve", "deny"}
Decided(say) == IF say = "approve" THEN "approved" ELSE "denied"

\* (Mutation: the RunLease is not looked at.)
NoExecutorCheck == TRUE
NoExecutor == lease.state # "active"

\* respond_to_input.  (A run must be left for the continuation.)
AnswerEnded(say) ==
    /\ ~live /\ Free /\ answers < MaxAnswers
    /\ task.status = "waiting" /\ task.input = "waiting" /\ ~late
    /\ NoExecutor
    /\ IF say = "deny"
       THEN /\ task' = [Fail(task) EXCEPT !.input = "deny", !.elev = "denied"]
            /\ lease' = FailLease(task, lease)
            /\ UNCHANGED runner
       ELSE /\ launched < MaxRuns
            /\ task' = [task EXCEPT !.status = "resuming", !.input = "approve",
                                    !.elev = "approved"]
            /\ Serve("publish")
            /\ UNCHANGED lease
    /\ answers' = answers + 1
    /\ UNCHANGED <<live, plane, late, proc, launched, dialogs, requeues, crashes>>

\* respond_to_live_claude_elevation: the run keeps its lease, the status of
\* the task is not looked at.  An answer that is on record is sent again.
AnswerLive(say) ==
    /\ live /\ Free /\ answers < MaxAnswers
    /\ \/ /\ task.input = "waiting" /\ ~late /\ task.elev = "prepared"
          /\ lease = [state |-> "active", run |-> task.asker]
          /\ task' = [task EXCEPT !.status = "running", !.input = say,
                                  !.elev = Decided(say)]
          /\ runner' = [pc |-> "tell", say |-> say]
       \/ /\ task.input \in Say
          /\ runner' = [pc |-> "tell", say |-> task.input]
          /\ UNCHANGED task
    /\ answers' = answers + 1
    /\ UNCHANGED <<live, lease, plane, late, proc, launched, dialogs, requeues, crashes>>

Open == /\ plane.run = task.asker /\ ~plane.dead
        /\ plane.pending = "pending" /\ ~late

\* ApprovalControlPlane.respond_approval looks at the request and the clock
\* and commits the answer in one locked section.  Its error marks the plane,
\* and Runner the task.
Tell ==
    /\ runner.pc = "tell"
    /\ IF Open
       THEN Serve("commit") /\ UNCHANGED <<task, lease, plane>>
       ELSE /\ plane' = Dead(plane)
            /\ task' = Recover(task)
            /\ lease' = RecoverLease(task, lease)
            /\ runner' = [pc |-> "idle", say |-> "none"]
    /\ UNCHANGED <<live, late, proc, bounds>>

Commit ==
    /\ runner.pc = "commit"
    /\ plane' = [plane EXCEPT !.pending = "responded",
             !.answer = IF runner.say = "approve" THEN "accept" ELSE "decline"]
    /\ runner' = [pc |-> "idle", say |-> "none"]
    /\ UNCHANGED <<live, task, lease, late, proc, bounds>>

-----------------------------------------------------------------------------

Transport(r) == Take(r) \/ Overdue(r) \/ Lapse(r) \/ Lose(r)
Work(r) == \/ Start(r) \/ Activate(r) \/ Register(r) \/ Launch(r)
           \/ Suspend(r) \/ Notify(r) \/ CloseDialog(r) \/ Clear(r)
           \/ PollRecovery(r) \/ Finalize(r) \/ Verify(r)
Native(r) == Ask(r) \/ Return(r)
Handle == Publish \/ Spawn \/ Accept \/ Tell \/ Commit

Next ==
    \/ \E r \in Run : Work(r) \/ Native(r) \/ Block(r) \/ Transport(r) \/ Crash(r)
                      \/ Reap(r)
    \/ \E say \in Say : AnswerEnded(say) \/ AnswerLive(say)
    \/ Dispatch \/ Handle \/ Elapse \/ Expire \/ Reconcile

Spec == Init /\ [][Next]_vars

\* Processes and threads run, time passes, Runner finishes what it serves and
\* maintains the waits every ten seconds, and executors come to an end.  No
\* user has to answer.
Fairness ==
    /\ \A r \in Run : /\ WF_vars(Work(r)) /\ WF_vars(Transport(r))
                      /\ WF_vars(Reap(r)) /\ WF_vars(Return(r))
    /\ WF_vars(Handle) /\ WF_vars(Elapse) /\ WF_vars(Expire) /\ WF_vars(Reconcile)

FairSpec == Spec /\ Fairness

-----------------------------------------------------------------------------
(* Properties.                                                             *)

\* The records of the task, the lease, the plane and the processes are well
\* formed.
TypeOK ==
    /\ live \in BOOLEAN /\ late \in BOOLEAN
    /\ task \in Task /\ lease \in Lease /\ plane \in Plane
    /\ proc \in [Run -> Proc]
    /\ runner \in [pc : {"idle", "publish", "spawn", "accept", "tell", "commit"},
                   say : Say \cup {"none"}]
    /\ launched \in RunOrNone
    /\ dialogs \in Nat /\ answers \in Nat /\ requeues \in Nat /\ crashes \in Nat

\* An executor with full permission works for a task whose elevation was
\* approved: the grant, once used, may be called ineffective (blocked), but
\* no denial, timeout or invalidated request goes with it, however the
\* answer, the deadline, the dispatch and an earlier run interleave.
FullOnlyByApproval ==
    \A r \in Run : proc[r].mode = "full" =>
        task.input = "approve" /\ (Granted(task) \/ task.elev = "blocked")

\* The two records of a live answer agree: what the SDK is told is what the
\* task says, and a request that was answered does not expire as well, though
\* Runner writes one after the other while the SDK thread watches the clock.
AnswersAgree ==
    plane.answer # "none" =>
        /\ plane.pending = "responded"
        /\ task.input = IF plane.answer = "accept" THEN "approve" ELSE "deny"

\* A worker whose executor runs holds the RunLease under its own run, so two
\* executors never work on a task at once: a continuation is not started
\* before the run that asked for it gave its lease up.  Once a task has asked
\* and was requeued twice, nothing says so: a late verify_task_elevation of an
\* earlier run, or an answer that is sent again, stops the task of a worker
\* that is about to launch, and lets another one in.
RunningIsLeased ==
    task.elev = "none" \/ requeues <= 1 =>
        \A r \in Run : proc[r].pc \in {"launched", "working", "watching"} =>
            lease = [state |-> "active", run |-> r]

\* A task shows one elevation dialog, whatever became of its first request
\* and however often the task runs.
OneDialog == dialogs <= 1

\* An elevation wait ends, at its deadline if nobody answers, whether the
\* worker that asked is alive, has exited or died.
WaitSettles == task.status = "waiting" ~> task.status # "waiting"

\* A live approval arrives: the executor that waits for it gets the full
\* permission, or the task is stopped.
LiveAnswerArrives ==
    (live /\ task.elev = "approved") ~>
        \/ \E r \in Run : proc[r].mode = "full"
        \/ task.status \in Ended \cup {"recovery"}

\* The old worker of an elevation, on its way out, does not erase the pointer
\* to the continuation (clear_execution_run_references).
OldWorkerErasesNothing ==
    [][\A r \in Run : proc[r].pc = "clear" /\ proc'[r].pc # "clear" =>
            task.worker \in {r, task'.worker}]_vars

=============================================================================
