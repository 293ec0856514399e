--------------------------- MODULE SessionCleanup ---------------------------
(***************************************************************************)
(* The deletion of a finished task's executor sessions                     *)
(* (session_cleanup.py, with the receipt machines of execution_policy.py   *)
(* and auxiliary_sessions.py and the operations that race with it).        *)
(*                                                                         *)
(* A task has one primary session and a ledger of auxiliary ones.  Each    *)
(* has a cleanup receipt inside the task record.  A pass holds the         *)
(* per-task lock .cleanup.lock, checks that the task ended, that its       *)
(* run lease is closed and that the user was shown the task-end dialog,    *)
(* writes the intent (pending), calls the executor, and writes the result. *)
(* The lock excludes other passes only: the delivery of the receipt's      *)
(* other stages, a dispatch and a retry work on the same record meanwhile. *)
(*                                                                         *)
(* A read-modify-write of the task record with no call to the outside      *)
(* between the read and the write is one step; a call to an executor is    *)
(* two, and anything may happen between them.                              *)
(***************************************************************************)
EXTENDS Naturals, Sequences

CONSTANTS
    Primary,        \* the session the task itself runs in
    AuxOrder,       \* its auxiliary sessions, deepest and newest first
    Kinds,          \* the tasks considered: which sessions are Codex's, and
                    \* which ones the user asked to keep
    Container,      \* AGENTBC_SESSION_STORE = isolated_container
    Parked,         \* a recovery's session has an official archive receipt
    Processes,      \* processes that run cleanup passes
    Modes,          \* [Processes -> SUBSET Mode]: the passes each one runs
    NoProcess, NoSession,
    MaxAttempts,    \* MAX_SESSION_CLEANUP_ATTEMPTS
    ShortBackoff, LongBackoff,  \* CLEANUP_RETRY_BACKOFF_S, in clock units
    MaxRuns,        \* bound: runs of the task, over all attempts
    MaxCrashes,     \* bound: processes that die inside a pass
    MaxAcks         \* bound: archive acknowledgements the user sends

Aux == {AuxOrder[i] : i \in 1..Len(AuxOrder)}
Session == {Primary} \cup Aux

\* "maintain": Runner maintenance.  "wake": a Desktop route was registered, the
\* retries are forced.  "ack": the user's Codex app acknowledged an archive.
\* "cli": task cancel, in a process that has no Desktop broker.
Mode == {"maintain", "wake", "ack", "cli"}

ASSUME CleanupAssumption ==
    /\ AuxOrder \in Seq(STRING)
    /\ Primary \in STRING \ Aux
    /\ Kinds \subseteq [codex : SUBSET Session, keep : SUBSET Session]
    /\ Container \in BOOLEAN
    /\ Parked \in BOOLEAN
    /\ Modes \in [Processes -> SUBSET Mode]
    /\ NoProcess \notin Processes
    /\ NoSession \notin Session
    /\ MaxAttempts \in Nat \ {0}
    /\ ShortBackoff \in Nat \ {0}
    /\ LongBackoff \in Nat \ {0}
    /\ ShortBackoff <= LongBackoff
    /\ MaxRuns \in Nat \ {0}
    /\ MaxCrashes \in Nat
    /\ MaxAcks \in Nat

VARIABLES
    task,       \* task.json: status, delivery stages, cleanup receipts
    lease,      \* the run lease, a file of its own
    popup,      \* events.jsonl holds a confirmed dialog of this attempt
    route,      \* a Codex Desktop route is registered with the Runner
    lock,       \* the holder of .cleanup.lock
    proc,       \* what each process is doing
    gone,       \* the sessions the executor has deleted
    run,        \* which run of the task this is
    kind,       \* the kind of this task, frozen when it was created
    crashes, acks,
    calls       \* history: executor calls per session of this attempt

vars == <<task, lease, popup, route, lock, proc, gone, run, kind,
          crashes, acks, calls>>

world == <<lease, popup, route, run, kind>>

\* The executor and the retention of a session, from its snapshot.
Codex == kind.codex
Kept == kind.keep

-----------------------------------------------------------------------------
(* Receipts: transition_session_cleanup, transition_auxiliary_cleanup.     *)

CleanupState ==
    {"not_requested", "pending", "failed", "succeeded", "unsupported", "retained"}
ResolvedStates == {"succeeded", "unsupported", "retained"}

\* Why a cleanup failed, as far as a later pass asks: "desktop" errors are those
\* a user's archive acknowledgement overrides, "scope" those of a container
\* launcher that has not been repaired.
Error == {"none", "desktop", "scope", "other"}

Receipt == [state : CleanupState, attempts : Nat, retryable : BOOLEAN,
            wait : 0..LongBackoff, error : Error]

NewReceipt == [state |-> "not_requested", attempts |-> 0, retryable |-> FALSE,
               wait |-> 0, error |-> "none"]

Resolved(r) == r.state \in ResolvedStates
DeletedOrGivenUp(r) == Resolved(r)
Deleted(r) == r.state = "succeeded"

\* _next_retry
Retryable(attempts) == attempts < MaxAttempts
NextWait(attempts) ==
    IF ~Retryable(attempts) THEN 0
    ELSE IF attempts < 2 THEN ShortBackoff ELSE LongBackoff

ToPending(r) ==
    [r EXCEPT !.state = "pending", !.attempts = @ + 1,
              !.retryable = FALSE, !.wait = 0, !.error = "none"]

ToFailed(r, retryable, error) ==
    [r EXCEPT !.state = "failed",
              !.retryable = retryable /\ Retryable(r.attempts),
              !.wait = IF retryable THEN NextWait(r.attempts) ELSE 0,
              !.error = error]

ToResolved(r, state) ==
    [r EXCEPT !.state = state, !.retryable = FALSE, !.wait = 0, !.error = "none"]

\* What the executor reports, and the receipt it makes of a pending one.
Result == [state : {"succeeded", "unsupported"}, retry : {FALSE}, error : {"none"}]
          \cup [state : {"failed"}, retry : BOOLEAN, error : Error \ {"none"}]

Settle(r, result) ==
    IF result.state = "failed" THEN ToFailed(r, result.retry, result.error)
    ELSE ToResolved(r, result.state)

-----------------------------------------------------------------------------
(* The gates of a pass.                                                    *)

Ended == {"completed", "failed", "needs_recovery"}
Status == Ended \cup {"pending", "running"}

TaskRecord == [status : Status, shown : BOOLEAN,
               receipt : [Session -> Receipt]]

\* _task_end_dialog_delivered: the delivery receipt, or else the event log.
\* A retry begins a new attempt and forgets both; a dispatch keeps them.
DialogDelivered(t) == t.shown \/ popup

\* session_cleanup_blockers and auxiliary_cleanup_blockers, but for retention.
PrimaryBlocked(t) ==
    t.status = "needs_recovery" \/ ~DialogDelivered(t) \/ lease # "closed"
AuxBlocked(t) == ~DialogDelivered(t) \/ lease # "closed"
Blocked(t, s) == IF s = Primary THEN PrimaryBlocked(t) ELSE AuxBlocked(t)

\* A container's Codex parent is deleted after its descendants.
Family == Container /\ Primary \in Codex /\ Primary \notin Kept /\ Aux \cap Codex # {}

\* The record of a pass that holds none.
NoSnap == [status |-> "pending", shown |-> FALSE,
           receipt |-> [s \in Session |-> NewReceipt]]

Idle == [pc |-> "idle", mode |-> "maintain", ack |-> NoSession, todo |-> <<>>,
         target |-> NoSession, snap |-> NoSnap]

\* _codex_waiting_for_desktop
WaitsEverywhere(p, s) == s \in Codex /\ ~route
WaitsForDesktop(p, s) ==
    /\ s \in Codex
    /\ ~Container
    /\ \/ proc[p].mode = "cli"
       \/ proc[p].mode \in {"maintain", "wake"} /\ ~route

\* _can_replace_failed_desktop_route
Acknowledged(p, s, r) ==
    proc[p].mode = "ack" /\ proc[p].ack = s /\ r.error = "desktop"

\* _container_scope_repaired, for the primary session only.
ScopeRepaired(s, r) ==
    IF s = Primary /\ Container /\ s \in Codex /\ r.error = "scope"
          /\ r.attempts < MaxAttempts
    THEN BOOLEAN ELSE {FALSE}

\* Every mode but maintain and cli passes force_retry: the coordinator then
\* takes a failed receipt up before its backoff elapsed, which the receipt
\* machine refuses with an exception that ends the pass.
Forced(p) == proc[p].mode \in {"wake", "ack"}

-----------------------------------------------------------------------------
(* A pass: request_cleanup, under the task's lock.  A primary session is   *)
(* handled on a record read in that step, an auxiliary one on the record   *)
(* the loop read before its first call (proc[p].snap).                     *)

Finish(p) ==
    /\ proc' = [proc EXCEPT ![p] = Idle]
    /\ lock' = NoProcess

\* The pass goes on with record t after session s was handled.
Continue(p, s, t) ==
    LET rest == Tail(proc[p].todo)
        Go(pc, todo) ==
            /\ proc' = [proc EXCEPT ![p].pc = pc, ![p].todo = todo,
                                    ![p].target = NoSession,
                                    ![p].snap = IF pc = "aux" THEN t ELSE NoSnap]
            /\ UNCHANGED lock
    IN  \/ s = Primary /\ (Family \/ AuxOrder = <<>>) /\ Finish(p)
        \/ s = Primary /\ ~Family /\ AuxOrder # <<>> /\ Go("aux", AuxOrder)
        \/ s # Primary /\ Family /\ ~Deleted(t.receipt[s]) /\ Finish(p)
        \/ /\ s # Primary /\ Family /\ Deleted(t.receipt[s])
           /\ IF rest = <<>> THEN Go("primary", <<>>) ELSE Go("aux", rest)
        \/ /\ s # Primary /\ ~Family
           /\ IF rest = <<>> THEN Finish(p) ELSE Go("aux", rest)

\* A primary session that is blocked ends the pass: the auxiliary ones are in
\* use as well.
Skip(p, s, t) == IF s = Primary THEN Finish(p) ELSE Continue(p, s, t)

\* _task_lock: .cleanup.lock of the task is taken without waiting.
NoLock == TRUE
LockFree == lock = NoProcess

\* acknowledge_desktop_archive: the task's own session must be Codex's and not
\* kept, also when the session acknowledged is an auxiliary one.
CanAcknowledge(s) == {s, Primary} \subseteq Codex \ Kept

BeginPass(p, mode, ack) ==
    /\ proc[p].pc = "idle"
    /\ LockFree
    /\ mode \in Modes[p]
    /\ IF mode = "ack" THEN ack \in Session /\ CanAcknowledge(ack) /\ acks < MaxAcks
                       ELSE ack = NoSession
    /\ task.status # "needs_recovery"
    /\ Family => ~PrimaryBlocked(task)
    /\ lock' = p
    /\ proc' = [proc EXCEPT ![p] =
          [Idle EXCEPT !.pc = IF Family THEN "aux" ELSE "primary", !.mode = mode,
                       !.ack = ack, !.todo = IF Family THEN AuxOrder ELSE <<>>,
                       !.snap = IF Family THEN task ELSE NoSnap]]
    /\ acks' = IF mode = "ack" THEN acks + 1 ELSE acks
    /\ UNCHANGED <<task, world, gone, crashes, calls>>

\* The session a pass has come to, and the record it is handled on.
At(p, s, t) ==
    \/ proc[p].pc = "primary" /\ s = Primary /\ t = task
    \/ proc[p].pc = "aux" /\ s = Head(proc[p].todo) /\ t = proc[p].snap

\* _persist_receipt, _persist_auxiliary: the whole record is written.
Persist(t) == task' = t

WithReceipt(t, s, r) == [t EXCEPT !.receipt[s] = r]

\* Nothing to do: the receipt is resolved, final, or its backoff runs.
PassOver(p, s, t) ==
    LET r == t.receipt[s] IN
    /\ At(p, s, t)
    /\ ~(Family /\ s \in Kept)
    /\ \/ Resolved(r) /\ Continue(p, s, t)
       \/ ~Resolved(r) /\ Blocked(t, s) /\ Skip(p, s, t)
       \/ /\ r.state = "failed" /\ ~Blocked(t, s)
          /\ ~Acknowledged(p, s, r)
          /\ FALSE \in ScopeRepaired(s, r)
          /\ \/ ~r.retryable /\ Continue(p, s, t)
             \/ r.retryable /\ r.wait > 0 /\ ~Forced(p) /\ Continue(p, s, t)
             \/ r.retryable /\ r.wait > 0 /\ Forced(p) /\ Finish(p)
       \/ /\ r.state = "pending" /\ ~Blocked(t, s) /\ WaitsForDesktop(p, s)
          /\ Continue(p, s, t)
    /\ UNCHANGED <<task, world, gone, crashes, acks, calls>>

\* In a family a descendant the user keeps protects its ancestors.
KeepFamily(p, s, t) ==
    /\ At(p, s, t)
    /\ Family
    /\ s \in Kept
    /\ Finish(p)
    /\ UNCHANGED <<task, world, gone, crashes, acks, calls>>

\* _handle_retained
MarkRetained(p, s, t) ==
    LET t2 == WithReceipt(t, s, ToResolved(t.receipt[s], "retained")) IN
    /\ At(p, s, t)
    /\ ~Family
    /\ s \in Kept
    /\ t.receipt[s].state = "not_requested"
    /\ ~Blocked(t, s)
    /\ Persist(t2)
    /\ Continue(p, s, t2)
    /\ UNCHANGED <<world, gone, crashes, acks, calls>>

\* Whether a failed receipt is taken up again.
Due(p, s, r) ==
    \/ Acknowledged(p, s, r)
    \/ TRUE \in ScopeRepaired(s, r)
    \/ r.retryable /\ r.wait = 0 /\ r.attempts < MaxAttempts

\* The intent is written before the call.
Request(p, s, t) ==
    LET r  == t.receipt[s]
        t2 == WithReceipt(t, s, ToPending(r)) IN
    /\ At(p, s, t)
    /\ s \notin Kept
    /\ \/ r.state = "not_requested"
       \/ r.state = "failed" /\ Due(p, s, r)
    /\ ~Blocked(t, s)
    /\ Persist(t2)
    /\ IF WaitsForDesktop(p, s) THEN Continue(p, s, t2)
       ELSE /\ proc' = [proc EXCEPT ![p].pc = "requested", ![p].target = s,
                                    ![p].snap = IF s = Primary THEN NoSnap ELSE t2]
            /\ UNCHANGED lock
    /\ UNCHANGED <<world, gone, crashes, acks, calls>>

\* A pending receipt found by a pass belongs to a process that died.  Codex's
\* archive may be asked for again, the other executors' deletion may not.
ReplayableAll(s) == TRUE
Replayable(s) == s \in Codex

Replay(p, s, t) ==
    /\ At(p, s, t)
    /\ t.receipt[s].state = "pending"
    /\ Replayable(s)
    /\ ~Blocked(t, s)
    /\ ~WaitsForDesktop(p, s)
    /\ proc' = [proc EXCEPT ![p].pc = "requested", ![p].target = s,
                             ![p].snap = IF s = Primary THEN NoSnap ELSE t]
    /\ UNCHANGED <<task, world, lock, gone, crashes, acks, calls>>

\* _crash_recovery_receipt: the others' call may have had its effect.
Interrupt(p, s, t) ==
    LET t2 == WithReceipt(t, s, ToFailed(t.receipt[s], TRUE, "other")) IN
    /\ At(p, s, t)
    /\ t.receipt[s].state = "pending"
    /\ ~Replayable(s)
    /\ ~Blocked(t, s)
    /\ Persist(t2)
    /\ Continue(p, s, t2)
    /\ UNCHANGED <<world, gone, crashes, acks, calls>>

\* _execute reads the task again and checks the gates; _auxiliary_execute does
\* neither.
Call(p) ==
    LET s == proc[p].target IN
    /\ proc[p].pc = "requested"
    /\ IF s = Primary /\ PrimaryBlocked(task)
       THEN Finish(p) /\ UNCHANGED calls
       ELSE /\ proc' = [proc EXCEPT ![p].pc = "calling"]
            /\ calls' = [calls EXCEPT ![s] = @ + 1]
            /\ UNCHANGED lock
    /\ UNCHANGED <<task, world, gone, crashes, acks>>

\* The executor deletes the session at some moment of the call, or never.
ExecutorDeletes(p) ==
    /\ proc[p].pc = "calling"
    /\ gone' = gone \cup {proc[p].target}
    /\ UNCHANGED <<task, world, lock, proc, crashes, acks, calls>>

\* What an executor may answer.
MayAnswer(p, result) ==
    LET s == proc[p].target IN
    /\ result.state = "succeeded" => s \in gone
    /\ result.error = "desktop" => s \in Codex /\ ~Container
    /\ result.error = "scope" => s \in Codex /\ Container

\* _apply_result reads the task again; _apply_auxiliary_result uses the record
\* the loop began with.  A gate that closed meanwhile makes the receipt machine
\* refuse the result with an exception that ends the pass.
Apply(p, result) ==
    LET s  == proc[p].target
        t  == IF s = Primary THEN task ELSE proc[p].snap
        r  == t.receipt[s]
        t2 == WithReceipt(t, s, Settle(r, result))
    IN  /\ proc[p].pc = "calling"
        /\ \/ r.state # "pending" /\ Continue(p, s, t) /\ UNCHANGED task
           \/ r.state = "pending" /\ Blocked(t, s) /\ Finish(p) /\ UNCHANGED task
           \/ r.state = "pending" /\ ~Blocked(t, s) /\ Persist(t2) /\ Continue(p, s, t2)
        /\ UNCHANGED <<world, gone, crashes, acks, calls>>

\* A process dies inside a pass.  Its lock goes with it, and with the Runner the
\* Desktop route, which it keeps in memory.
Crash(p) ==
    /\ proc[p].pc # "idle"
    /\ crashes < MaxCrashes
    /\ crashes' = crashes + 1
    /\ route' = (route /\ "maintain" \notin Modes[p])
    /\ Finish(p)
    /\ UNCHANGED <<task, lease, popup, run, kind, gone, acks, calls>>

-----------------------------------------------------------------------------
(* What goes on around the passes.                                         *)

\* The write that ends a run replaces the delivery receipt.  A run is longer
\* than what a pass does between two calls to an executor.
EndRun(outcome) ==
    /\ task.status = "running"
    /\ \A p \in Processes : proc[p].pc \in {"idle", "calling"}
    /\ task' = [task EXCEPT !.status = outcome, !.shown = FALSE]
    /\ lease' = "closed"
    /\ UNCHANGED <<popup, route, kind, lock, proc, gone, run, crashes, acks, calls>>

\* Terminal delivery confirms the dialog, in the receipt and the event log.
ShowDialog ==
    /\ task.status \in Ended
    /\ ~task.shown
    /\ task' = [task EXCEPT !.shown = TRUE]
    /\ popup' = TRUE
    /\ UNCHANGED <<lease, route, kind, lock, proc, gone, run, crashes, acks, calls>>

\* requeue_task, by a dispatch: the session, its cleanup and the delivery
\* receipt stay as they are, and attempt_started_at is not touched.
Requeue ==
    /\ task.status \in {"failed", "needs_recovery"}
    /\ lease = "closed"
    /\ run < MaxRuns
    /\ task' = [task EXCEPT !.status = "pending"]
    /\ run' = run + 1
    /\ UNCHANGED <<lease, popup, route, kind, lock, proc, gone, crashes, acks,
                   calls>>

\* _attempt_session_cleanup_ready
CleanupReady(s, r) ==
    CASE s \in Kept -> r.state = "retained"
      [] s \notin Kept /\ s \in Codex -> r.state = "succeeded"
      [] OTHER -> Resolved(r)

\* _recovery_session_parked
IsParked(t) ==
    /\ Parked
    /\ t.status = "needs_recovery"
    /\ Primary \in Codex
    /\ t.receipt[Primary].state = "not_requested"

RetryReadyPrimaryOnly(t) == IsParked(t) \/ CleanupReady(Primary, t.receipt[Primary])
RetryReady(t) ==
    /\ IsParked(t) \/ CleanupReady(Primary, t.receipt[Primary])
    /\ \A a \in Aux : CleanupReady(a, t.receipt[a])

\* FailedTaskRetryFlow.execute: the next attempt starts with sessions of its
\* own.  Its two writes hold the retry lock, and no pass has anything left to
\* write to a record whose cleanups are all resolved.
Retry ==
    /\ task.status \in {"failed", "needs_recovery"}
    /\ lease = "closed"
    /\ RetryReady(task)
    /\ run < MaxRuns
    /\ task' = [status |-> "pending", shown |-> FALSE,
                receipt |-> [s \in Session |-> NewReceipt]]
    /\ popup' = FALSE
    /\ run' = run + 1
    /\ gone' = {}
    /\ calls' = [s \in Session |-> 0]
    /\ UNCHANGED <<lease, route, kind, lock, proc, crashes, acks>>

\* A worker claims the task, and its executor opens the run lease.
ClaimTask ==
    /\ task.status = "pending"
    /\ task' = [task EXCEPT !.status = "running"]
    /\ UNCHANGED <<world, lock, proc, gone, crashes, acks, calls>>

OpenLease ==
    /\ task.status = "running"
    /\ lease = "closed"
    /\ lease' = "open"
    /\ UNCHANGED <<task, popup, route, kind, lock, proc, gone, run, crashes, acks, calls>>

\* register_desktop_route, and the loss of the route.
RouteChanges ==
    /\ Codex # {} /\ ~Container
    /\ route' = ~route
    /\ UNCHANGED <<task, lease, popup, kind, lock, proc, gone, run, crashes, acks, calls>>

\* Time moves between passes: a pass stamps everything with its beginning.
Elapse(r) == [r EXCEPT !.wait = IF @ = 0 THEN 0 ELSE @ - 1]
Tick ==
    /\ lock = NoProcess
    /\ \E s \in Session : task.receipt[s].wait > 0
    /\ task' = [task EXCEPT !.receipt = [s \in Session |-> Elapse(task.receipt[s])]]
    /\ UNCHANGED <<world, lock, proc, gone, crashes, acks, calls>>

-----------------------------------------------------------------------------
Init ==
    /\ task = [status |-> "running", shown |-> FALSE,
               receipt |-> [s \in Session |-> NewReceipt]]
    /\ lease = "open"
    /\ popup = FALSE
    /\ route = FALSE
    /\ lock = NoProcess
    /\ proc = [p \in Processes |-> Idle]
    /\ gone = {}
    /\ run = 1
    /\ kind \in Kinds
    /\ crashes = 0
    /\ acks = 0
    /\ calls = [s \in Session |-> 0]

\* One step of the pass of p on the session it has come to.
HandleSession(p) ==
    \E s \in Session, t \in {task, proc[p].snap} :
        \/ PassOver(p, s, t)
        \/ KeepFamily(p, s, t)
        \/ MarkRetained(p, s, t)
        \/ Request(p, s, t)
        \/ Replay(p, s, t)
        \/ Interrupt(p, s, t)

Begin(p) == \E m \in Mode, a \in Session \cup {NoSession} : BeginPass(p, m, a)
Answer(p) == \E result \in Result : MayAnswer(p, result) /\ Apply(p, result)

PassStep(p) == HandleSession(p) \/ Call(p) \/ Answer(p)

RunStep ==
    \/ \E outcome \in Ended : EndRun(outcome)
    \/ Requeue
    \/ Retry
    \/ ClaimTask
    \/ OpenLease

Next ==
    \/ \E p \in Processes :
          Begin(p) \/ PassStep(p) \/ ExecutorDeletes(p) \/ Crash(p)
    \/ RunStep
    \/ ShowDialog
    \/ RouteChanges
    \/ Tick

Spec == Init /\ [][Next]_vars
-----------------------------------------------------------------------------
(* Properties.                                                             *)

\* The task record, its cleanup receipts and the passes at work on them are well
\* formed (session_cleanup.py).
TypeOK ==
    /\ task \in TaskRecord
    /\ lease \in {"open", "closed"}
    /\ popup \in BOOLEAN
    /\ route \in BOOLEAN
    /\ lock \in Processes \cup {NoProcess}
    /\ proc \in [Processes ->
          [pc : {"idle", "primary", "aux", "requested", "calling"}, mode : Mode,
           ack : Session \cup {NoSession}, todo : Seq(Aux),
           target : Session \cup {NoSession}, snap : TaskRecord]]
    /\ gone \subseteq Session
    /\ run \in Nat
    /\ kind \in Kinds
    /\ crashes \in Nat
    /\ acks \in Nat
    /\ calls \in [Session -> Nat]

\* The receipts of the sessions that are not Codex's are a ledger of intents: one
\* call per intent on disk, none after the outcome is known, and new sessions
\* only when all the old ones are resolved (session_cleanup.py _request_primary,
\* retry_flow.py preflight).
Ledger == INSTANCE IntentLedger WITH
    Item <- Session,
    Limit <- MaxAttempts,
    intents <- [s \in Session |-> IF s \in Codex THEN 0 ELSE task.receipt[s].attempts],
    calls <- [s \in Session |-> IF s \in Codex THEN 0 ELSE calls[s]],
    closed <- {s \in Session : s \in Codex \/ Resolved(task.receipt[s])}

KeepsLedger == Ledger!Spec

\* A resolved receipt is final until a retry begins the next attempt, although
\* passes write whole records they read long ago (RESOLVED_CLEANUP_STATES).
ResolvedIsFinal ==
    [][\A s \in Session :
          Resolved(task.receipt[s]) /\ task'.receipt[s] # task.receipt[s]
              => RetryReady(task) /\ task'.status = "pending"]_vars

\* A retry rotates the sessions only when no executor call on them is under way
\* (retry_flow.py preflight: the cleanup of the source attempt has finished).
RetryWaitsForCleanup ==
    [][popup /\ ~popup' =>
          \A p \in Processes : proc[p].pc \notin {"requested", "calling"}]_vars

\* A container's Codex parent is never asked to be deleted while a descendant's
\* own deletion is unconfirmed (_request_container_family).
DescendantsFirst ==
    [][Family /\ calls'[Primary] > calls[Primary] =>
          \A a \in Aux : task.receipt[a].state = "succeeded"]_vars

Final(r) == Resolved(r) \/ (r.state = "failed" /\ ~r.retryable)

\* In a family, a descendant that was kept or could not be deleted protects the
\* sessions above it.
Protected(t, s) ==
    Family /\ \E i \in 1..Len(AuxOrder) :
        /\ \/ AuxOrder[i] \in Kept
           \/ /\ Final(t.receipt[AuxOrder[i]])
              /\ t.receipt[AuxOrder[i]].state # "succeeded"
        /\ s = Primary \/ \E j \in i..Len(AuxOrder) : s = AuxOrder[j]

Settled(t) == \A s \in Session : Final(t.receipt[s]) \/ Protected(t, s)

Unlocked == task.status \in {"completed", "failed"} /\ DialogDelivered(task) /\ lease = "closed"

\* Every session of a task that ended is in the end deleted, kept, or given up
\* after its last attempt, unless the task is run again (runner.py
\* maintain_session_cleanup).
CleanupSettles == Unlocked ~> (Settled(task) \/ ~Unlocked)
=============================================================================
