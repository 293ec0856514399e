---------------------------- MODULE Runner_proofs ----------------------------
(***************************************************************************)
(* Proofs about TaskLifecycle, for any number of workers, crashes, Runner  *)
(* restarts and aborted closes, and about RunnerSpool, for any number of   *)
(* calls, Runner processes, signals and deaths.                            *)
(*                                                                         *)
(* The record of the task is written by a dozen handlers that read it      *)
(* without a lock.  What keeps it consistent is that every handler maps a  *)
(* sound record to a sound record, whatever it meant to achieve: the       *)
(* lemmas state this for the operators, and the theorems lift it to the    *)
(* steps.                                                                  *)
(*                                                                         *)
(* Of the spool nothing is needed of the pid files but their type: a       *)
(* request is executed at most once even while two Runners serve, because  *)
(* moving its file is what decides who has it.                             *)
(***************************************************************************)
EXTENDS TaskLifecycle, RunnerSpool, TLAPS


TaskRecord ==
    [status : Status, resuming : BOOLEAN, wait : Wait, intent : BOOLEAN,
     final : BOOLEAN, ref : Workers \cup {NoWorker},
     pid : Workers \cup {NoWorker}, lease : BOOLEAN]

RunLease == [state : {"none", "open", "suspended", "closed"},
             run : Workers \cup {NoWorker}]

\* A sound record: its dispatch lease and its final callback agree with its
\* status.
Sound(t) ==
    /\ t \in TaskRecord
    /\ t.lease <=> (t.status = "running" /\ ~t.resuming)
    /\ t.final => t.status \in {"completed", "cancelled"}

\* It waits with a request, or under a reserved close.
Waits(t) == t.status = "input_required" => (t.wait # "none" \/ t.intent)

-----------------------------------------------------------------------------
\* mark_task_needs_recovery leaves a sound record sound, with a spent request
\* or without.
LEMMA RecoverSound ==
    ASSUME NEW t \in TaskRecord, Sound(t), NEW close \in BOOLEAN
    PROVE  Sound(Recover(t, close)) /\ (Waits(t) => Waits(Recover(t, close)))
BY DEF Sound, Waits, Recover, Recoverable, TaskRecord, Status, Wait

LEMMA RecoverSpentWaits ==
    ASSUME NEW t \in TaskRecord, Sound(t), NEW close \in BOOLEAN,
           t.status = "input_required"
    PROVE  LET u == [t EXCEPT !.wait = "none"]
           IN  Sound(Recover(u, close)) /\ Waits(Recover(u, close))
BY DEF Sound, Waits, Recover, Recoverable, TaskRecord, Status, Wait

LEMMA FailSound ==
    ASSUME NEW t \in TaskRecord, Sound(t)
    PROVE  Sound(Fail(t)) /\ (Waits(t) => Waits(Fail(t)))
BY DEF Sound, Waits, Fail, Failable, Exists, TaskRecord, Status, Wait

LEMMA ClearedSound ==
    ASSUME NEW t \in TaskRecord, Sound(t)
    PROVE  Sound(Cleared(t)) /\ (Waits(t) => Waits(Cleared(t)))
BY DEF Sound, Waits, Cleared, TaskRecord, Status, Wait

LEMMA UnreferencedSound ==
    ASSUME NEW t \in TaskRecord, Sound(t), NEW w \in Workers
    PROVE  Sound(Unreferenced(t, w)) /\ (Waits(t) => Waits(Unreferenced(t, w)))
BY ClearedSound DEF Unreferenced

LEMMA ReferSound ==
    ASSUME NEW t \in TaskRecord, Sound(t), NEW w \in Workers
    PROVE  /\ Sound([t EXCEPT !.ref = w])
           /\ Waits(t) => Waits([t EXCEPT !.ref = w])
BY DEF Sound, Waits, TaskRecord, Status, Wait

LEMMA ActivatedSound ==
    ASSUME NEW t \in TaskRecord, Sound(t), NEW w \in Workers
    PROVE  Sound(Activated(t, w)) /\ (Waits(t) => Waits(Activated(t, w)))
BY DEF Sound, Waits, Activated, TaskRecord, Status, Wait

LEMMA FinalizedSound ==
    ASSUME NEW t \in TaskRecord, Sound(t), NEW final \in {"completed", "cancelled"}
    PROVE  Sound(Finalized(t, final)) /\ Waits(Finalized(t, final))
BY DEF Sound, Waits, Finalized, TaskRecord, Status, Wait

LEMMA SuspendedSound ==
    ASSUME NEW t \in TaskRecord, Sound(t), NEW kind \in Wait \ {"none"}
    PROVE  Sound(Suspended(t, kind)) /\ Waits(Suspended(t, kind))
BY DEF Sound, Waits, Suspended, TaskRecord, Status, Wait

LEMMA LifecycleClosedSound ==
    ASSUME NEW t \in TaskRecord, Sound(t), t.status = "needs_recovery"
    PROVE  Sound(LifecycleClosed(t)) /\ Waits(LifecycleClosed(t))
BY DEF Sound, Waits, LifecycleClosed, Cleared, TaskRecord, Status, Wait

\* The RunLease stays one, whatever closes it.
LEMMA LeaseTyped ==
    ASSUME NEW l \in RunLease, NEW t \in TaskRecord, NEW close \in BOOLEAN
    PROVE  /\ Closed(l) \in RunLease
           /\ RecoverLease(t, l, close) \in RunLease
           /\ FailLease(t, l) \in RunLease
BY LifecycleAssumption DEF Closed, ClosedLease, RecoverLease, FailLease, RunLease

-----------------------------------------------------------------------------
\* The part of the state the handlers do not share with the record.
ActorsTyped ==
    /\ phase \in [Workers -> {"new"} \cup Alive \cup Gone]
    /\ watched \in SUBSET Workers
    /\ unwaited \in SUBSET Workers
    /\ launch \in [at : {"idle", "activate", "abandon"},
                  run : Workers \cup {NoWorker}]
    /\ signalled \in SUBSET Workers
    /\ user \in {"idle", "cancelling", "reserved", "closing"}
    /\ targets \in SUBSET Workers
    /\ crashes \in 0..MaxCrashes
    /\ restarts \in 0..MaxRestarts
    /\ aborts \in 0..MaxAborts

RecordSound ==
    /\ Sound(task)
    /\ aborts = 0 => Waits(task)
    /\ runLease \in RunLease

IInv == ActorsTyped /\ RecordSound

LEMMA InitIInv == Init => IInv
BY LifecycleAssumption
DEF Init, IInv, ActorsTyped, RecordSound, Sound, Waits, TaskRecord, RunLease,
    NewTask, NoLease, Idle, Launching, Status, Wait, Alive, Gone

\* The processes and bounds keep their types.
LEMMA NextActorsTyped == ActorsTyped /\ [Next]_vars => ActorsTyped'
<1>. SUFFICES ASSUME ActorsTyped, [Next]_vars
              PROVE  ActorsTyped'
  OBVIOUS
<1>. USE LifecycleAssumption DEF ActorsTyped, command, faults, dispatch
<1>1. ASSUME NEW w \in Workers, Work(w)
      PROVE  ActorsTyped'
  <2>1. UNCHANGED <<watched, unwaited, launch, signalled, user, targets, aborts,
                    crashes, restarts>>
    BY <1>1 DEF Work, ProbeFails, CheckTask, StartRun, StartRefused,
       StartExecutor, StartFails, Return, Finalize, AskInput, AskRefused,
       DialogPasses, ReportFailure, ReportRetryable, Conclude
  <2>2. \E from, to \in Alive \cup Gone : Step(w, from, to)
    <3>1. CASE CheckTask(w)
      BY <3>1 DEF CheckTask, Alive, Gone
    <3>2. CASE \E final \in {"completed", "cancelled"} : Finalize(w, final)
      BY <3>2 DEF Finalize, Alive, Gone
    <3>3. CASE \E kind \in Wait \ {"none"} : AskInput(w, kind)
      BY <3>3 DEF AskInput, Alive, Gone
    <3>. QED
      BY <1>1, <3>1, <3>2, <3>3
      DEF Work, ProbeFails, StartRun, StartRefused, StartExecutor, StartFails,
          Return, AskRefused, DialogPasses, ReportFailure, ReportRetryable,
          Conclude, Alive, Gone
  <2>3. phase' \in [Workers -> {"new"} \cup Alive \cup Gone]
    BY <2>2 DEF Step
  <2>. QED
    BY <2>1, <2>3
<1>2. ASSUME NEW w \in Workers, Dispatch(w) \/ Respond(w)
      PROVE  ActorsTyped'
  <2>1. UNCHANGED <<signalled, user, targets, aborts, restarts>>
    BY <1>2 DEF Dispatch, Respond
  <2>2. \E t : Spawn(w, t) \/ SpawnFails(w, t)
    BY <1>2 DEF Dispatch, Respond
  <2>3. /\ phase' \in [Workers -> {"new"} \cup Alive \cup Gone]
        /\ watched' \in SUBSET Workers /\ unwaited' \in SUBSET Workers
    BY <2>2 DEF Spawn, SpawnFails, Alive, Gone
  <2>4. launch' \in [at : {"idle", "activate", "abandon"},
                     run : Workers \cup {NoWorker}]
    <3>1. launch' \in {launch, Launching("activate", w), Launching("abandon", w)}
      BY <2>2 DEF Spawn, SpawnFails
    <3>. QED
      BY <3>1 DEF Launching
  <2>5. crashes' \in 0..MaxCrashes
    <3>1. UNCHANGED crashes \/ Fault
      BY <2>2 DEF Spawn, SpawnFails
    <3>. QED
      BY <3>1 DEF Fault
  <2>. QED
    BY <2>1, <2>3, <2>4, <2>5
<1>6. ASSUME NEW w \in Workers, Launch(w)
      PROVE  ActorsTyped'
  <2>1. /\ UNCHANGED <<phase, watched, unwaited, user, targets, aborts, restarts>>
        /\ signalled' \in SUBSET Workers
    BY <1>6 DEF Launch, Accept, ActivationFails, Abandon
  <2>2. launch' \in [at : {"idle", "activate", "abandon"},
                     run : Workers \cup {NoWorker}]
    <3>1. launch' \in {Idle, Launching("abandon", w)}
      BY <1>6 DEF Launch, Accept, ActivationFails, Abandon
    <3>. QED
      BY <3>1 DEF Launching, Idle
  <2>3. crashes' \in 0..MaxCrashes
    <3>1. UNCHANGED crashes \/ Fault
      BY <1>6 DEF Launch, Accept, ActivationFails, Abandon
    <3>. QED
      BY <3>1 DEF Fault
  <2>. QED
    BY <2>1, <2>2, <2>3
<1>3. ASSUME NEW w \in Workers, Heartbeat(w) \/ Die(w) \/ Reap(w)
      PROVE  ActorsTyped'
  <2>1. CASE Heartbeat(w)
    BY <2>1 DEF Heartbeat
  <2>2. CASE Die(w)
    BY <2>2 DEF Die, Fault, Gone
  <2>3. CASE Reap(w)
    BY <2>3 DEF Reap, Gone
  <2>. QED
    BY <1>3, <2>1, <2>2, <2>3
<1>4. ASSUME RefuseDispatch \/ Deny \/ Expire \/ Reconcile \/ RecoverTask
             \/ UNCHANGED vars
      PROVE  ActorsTyped'
  BY <1>4 DEF RefuseDispatch, Deny, Expire, Reconcile, RecoverTask, vars
<1>5. ASSUME RestartRunner \/ Cancel \/ ReserveClose \/ Command \/ AbortClose
             \/ LoseCommand
      PROVE  ActorsTyped'
  BY <1>5 DEF RestartRunner, Cancel, ReserveClose, Command, CancelRuns,
     CommitClose, AbortClose, LoseCommand, Fault, Idle, Launching
<1>. QED
  BY <1>1, <1>2, <1>3, <1>4, <1>5, <1>6 DEF Next

-----------------------------------------------------------------------------
\* A worker's own steps keep the record sound.
LEMMA WorkRecordSound ==
    ASSUME IInv, NEW w \in Workers, Work(w)
    PROVE  RecordSound'
<1>. USE DEF IInv, RecordSound, command, faults, dispatch
<1>0. task \in TaskRecord /\ aborts' = aborts
  BY DEF Sound, Work, ProbeFails, CheckTask, StartRun, StartRefused,
     StartExecutor, StartFails, Return, Finalize, AskInput, AskRefused,
     DialogPasses, ReportFailure, ReportRetryable, Conclude
<1>1. CASE \/ ProbeFails(w) \/ StartRefused(w) \/ ReportRetryable(w)
  <2>1. \/ UNCHANGED <<task, runLease>>
        \/ /\ task' = Recover(task, FALSE)
           /\ runLease' = RecoverLease(task, runLease, FALSE)
    BY <1>1 DEF ProbeFails, StartRefused, ReportRetryable
  <2>. QED
    BY <1>0, <2>1, RecoverSound, LeaseTyped
<1>2. CASE StartFails(w)
  <2>1. /\ task' = Recover(task, FALSE)
        /\ \/ runLease' = RecoverLease(task, runLease, FALSE)
           \/ runLease' = ClosedLease
    BY <1>2 DEF StartFails
  <2>2. ClosedLease \in RunLease
    BY DEF RunLease, ClosedLease
  <2>. QED
    BY <1>0, <2>1, <2>2, RecoverSound, LeaseTyped
<1>3. CASE StartRun(w)
  BY <1>0, <1>3 DEF StartRun, Startable, Resuming, Sound, Waits, TaskRecord, Status
<1>4. CASE \/ CheckTask(w) \/ StartExecutor(w) \/ Return(w) \/ AskRefused(w)
           \/ DialogPasses(w)
  BY <1>0, <1>4
  DEF CheckTask, StartExecutor, Return, AskRefused, DialogPasses, RunLease,
      ClosedLease
<1>5. CASE \E final \in {"completed", "cancelled"} : Finalize(w, final)
  BY <1>0, <1>5, FinalizedSound DEF Finalize
<1>6. CASE \E kind \in Wait \ {"none"} : AskInput(w, kind)
  <2>1. SuspendedLease \in RunLease
    BY DEF RunLease, SuspendedLease
  <2>. QED
    BY <1>0, <1>6, <2>1, SuspendedSound DEF AskInput
<1>7. CASE ReportFailure(w) \/ Conclude(w)
  <2>1. \/ UNCHANGED <<task, runLease>>
        \/ task' = Fail(task) /\ runLease' = FailLease(task, runLease)
    BY <1>7 DEF ReportFailure, Conclude
  <2>. QED
    BY <1>0, <2>1, FailSound, LeaseTyped
<1>. QED
  BY <1>1, <1>2, <1>3, <1>4, <1>5, <1>6, <1>7 DEF Work

\* A dispatch starts from a sound record, requeued or answered.
LEMMA DispatchRecordSound ==
    ASSUME IInv, NEW w \in Workers, Dispatch(w) \/ Respond(w)
    PROVE  RecordSound'
<1>. USE DEF IInv, RecordSound, command, faults, dispatch
<1>0. task \in TaskRecord /\ aborts' = aborts
  BY DEF Sound, Dispatch, Respond
<1>1. PICK t \in {Requeued, Answered} :
        /\ Spawn(w, t) \/ SpawnFails(w, t)
        /\ t = Requeued => Dispatchable
        /\ t = Answered => Answerable
  <2>1. CASE Dispatch(w) /\ Requeued # Answered
    BY <2>1 DEF Dispatch
  <2>2. CASE Respond(w) /\ Requeued # Answered
    BY <2>2 DEF Respond
  <2>3. Requeued.status = "pending" /\ Answered.status = "running"
    BY <1>0 DEF Requeued, Answered, TaskRecord
  <2>. QED
    BY <2>1, <2>2, <2>3
<1>2. Sound(t) /\ Waits(t)
  <2>1. CASE t = Requeued
    BY <1>0, <1>1, <2>1
    DEF Requeued, Dispatchable, Sound, Waits, TaskRecord, Status
  <2>2. CASE t = Answered
    BY <1>0, <1>1, <2>2
    DEF Answered, Answerable, Sound, Waits, TaskRecord, Status, Wait
  <2>. QED
    BY <1>1, <2>1, <2>2
<1>3. t \in TaskRecord
  BY <1>2 DEF Sound
<1>4. CASE Spawn(w, t)
  BY <1>2, <1>3, <1>4, ReferSound DEF Spawn
<1>5. CASE SpawnFails(w, t)
  <2>1. PICK u \in {t, [t EXCEPT !.ref = w]} :
          task' = Unreferenced(Recover(u, FALSE), w)
    BY <1>5 DEF SpawnFails
  <2>2. Sound(u) /\ Waits(u) /\ u \in TaskRecord
    <3>1. Sound(u) /\ Waits(u)
      BY <1>2, <1>3, <2>1, ReferSound
    <3>. QED
      BY <3>1 DEF Sound
  <2>3. LET r == Recover(u, FALSE)
        IN  Sound(r) /\ Waits(r) /\ r \in TaskRecord
    BY <2>2, RecoverSound, ZenonT(40) DEF Sound
  <2>4. Sound(task') /\ Waits(task')
    BY <2>1, <2>3, UnreferencedSound
  <2>. QED
    BY <1>3, <1>5, <2>4, LeaseTyped DEF SpawnFails
<1>. QED
  BY <1>1, <1>4, <1>5

\* So does a dispatch that goes on, or gives its worker up.
LEMMA LaunchRecordSound ==
    ASSUME IInv, NEW w \in Workers, Launch(w)
    PROVE  RecordSound'
<1>. USE DEF IInv, RecordSound, command, faults, dispatch
<1>0. task \in TaskRecord /\ aborts' = aborts
  BY DEF Sound, Launch, Accept, ActivationFails, Abandon
<1>1. CASE Accept(w) \/ ActivationFails(w)
  <2>1. task' \in {task, Activated(task, w)} /\ runLease' = runLease
    BY <1>1 DEF Accept, ActivationFails
  <2>. QED
    BY <1>0, <2>1, ActivatedSound
<1>2. CASE Abandon(w)
  <2>. DEFINE r == Recover(task, FALSE)
  <2>1. Sound(r) /\ r \in TaskRecord /\ (Waits(task) => Waits(r))
    BY <1>0, RecoverSound DEF Sound
  <2>2. Sound(task') /\ (Waits(task) => Waits(task'))
    BY <1>2, <2>1, UnreferencedSound DEF Abandon
  <2>. QED
    BY <1>0, <1>2, <2>2, LeaseTyped DEF Abandon
<1>. QED
  BY <1>1, <1>2 DEF Launch

\* Exits, maintenance and time keep the record sound.
LEMMA RunnerRecordSound ==
    ASSUME IInv,
           \/ \E w \in Workers : Heartbeat(w) \/ Die(w) \/ Reap(w)
           \/ RefuseDispatch \/ Deny \/ Expire \/ Reconcile \/ RestartRunner
    PROVE  RecordSound'
<1>. USE DEF IInv, RecordSound, command, faults, dispatch
<1>0. task \in TaskRecord /\ aborts' = aborts
  BY DEF Sound, Heartbeat, Die, Reap, RefuseDispatch, Deny, Expire, Reconcile,
     RestartRunner
<1>1. ASSUME NEW w \in Workers, Heartbeat(w) \/ Die(w)
      PROVE  RecordSound'
  BY <1>0, <1>1 DEF Heartbeat, Die, RunLease
<1>2. ASSUME NEW w \in Workers, Reap(w)
      PROVE  RecordSound'
  <2>1. CASE UNCHANGED <<task, runLease>>
    BY <1>0, <2>1
  <2>2. CASE /\ task.status = "needs_recovery"
             /\ task' = LifecycleClosed(task) /\ runLease' = Closed(runLease)
    BY <1>0, <2>2, LifecycleClosedSound, LeaseTyped
  <2>3. CASE /\ task' = Unreferenced(Recover(task, TRUE), w)
             /\ runLease' = RecoverLease(task, runLease, TRUE)
    <3>. DEFINE r == Recover(task, TRUE)
    <3>1. Sound(r) /\ r \in TaskRecord /\ (Waits(task) => Waits(r))
      BY <1>0, RecoverSound DEF Sound
    <3>2. Sound(task') /\ (Waits(task) => Waits(task'))
      BY <2>3, <3>1, UnreferencedSound
    <3>. QED
      BY <1>0, <2>3, <3>2, LeaseTyped
  <2>. QED
    BY <1>2, <2>1, <2>2, <2>3 DEF Reap
<1>3. ASSUME RefuseDispatch
      PROVE  RecordSound'
  BY <1>0, <1>3
  DEF RefuseDispatch, Requeued, Dispatchable, Sound, Waits, TaskRecord, Status
<1>4. ASSUME Deny
      PROVE  RecordSound'
  <2>. DEFINE u == [task EXCEPT !.wait = "none"]
  <2>1. u \in TaskRecord /\ Sound(u) /\ Failable(u)
    BY <1>0, <1>4 DEF Deny, Failable, Exists, Sound, TaskRecord, Wait
  <2>2. Fail(u).status = "failed"
    BY <2>1 DEF Fail, TaskRecord, Status
  <2>3. Sound(Fail(u)) /\ Waits(Fail(u))
    BY <2>1, <2>2, FailSound DEF Waits
  <2>. QED
    BY <1>0, <1>4, <2>3, LeaseTyped DEF Deny
<1>5. ASSUME Expire
      PROVE  RecordSound'
  BY <1>0, <1>5, RecoverSpentWaits, LeaseTyped DEF Expire
<1>6. ASSUME Reconcile
      PROVE  RecordSound'
  <2>1. CASE UNCHANGED task /\ runLease' = Closed(runLease)
    BY <1>0, <2>1, LeaseTyped
  <2>2. CASE /\ task.status = "needs_recovery"
             /\ task' = LifecycleClosed(task) /\ runLease' = Closed(runLease)
    BY <1>0, <2>2, LifecycleClosedSound, LeaseTyped
  <2>3. CASE /\ task' = Cleared(Recover(task, TRUE))
             /\ runLease' = RecoverLease(task, runLease, TRUE)
    <3>. DEFINE r == Recover(task, TRUE)
    <3>1. Sound(r) /\ r \in TaskRecord /\ (Waits(task) => Waits(r))
      BY <1>0, RecoverSound DEF Sound
    <3>. HIDE DEF r
    <3>2. Sound(Cleared(r)) /\ (Waits(task) => Waits(Cleared(r)))
      BY <3>1, ClearedSound
    <3>. QED
      BY <1>0, <2>3, <3>2, LeaseTyped DEF r
  <2>. QED
    BY <1>6, <2>1, <2>2, <2>3 DEF Reconcile
<1>7. ASSUME RestartRunner
      PROVE  RecordSound'
  BY <1>0, <1>7 DEF RestartRunner
<1>. QED
  BY <1>1, <1>2, <1>3, <1>4, <1>5, <1>6, <1>7

\* So do the user's commands; only an aborted close may leave a wait whose
\* request was spent under it.
LEMMA UserRecordSound ==
    ASSUME IInv,
           \/ RecoverTask \/ Cancel \/ ReserveClose \/ Command \/ AbortClose
           \/ LoseCommand
    PROVE  RecordSound'
<1>. USE DEF IInv, RecordSound, command, faults, dispatch
<1>0. task \in TaskRecord
  BY DEF Sound
<1>1. CASE RecoverTask
  BY <1>0, <1>1, LeaseTyped DEF RecoverTask
<1>2. CASE Cancel
  BY <1>0, <1>2, LeaseTyped DEF Cancel, Sound, Waits, TaskRecord, Status, Wait
<1>3. CASE ReserveClose
  BY <1>0, <1>3 DEF ReserveClose, Sound, Waits, TaskRecord
<1>4. CASE CancelRuns \/ LoseCommand
  BY <1>4 DEF CancelRuns, LoseCommand
<1>5. CASE CommitClose
  BY <1>5, LifecycleAssumption
  DEF CommitClose, NewTask, NoLease, Sound, Waits, TaskRecord, RunLease,
      Status, Wait
<1>6. CASE AbortClose
  <2>1. aborts' # 0
    BY <1>6, LifecycleAssumption DEF AbortClose, ActorsTyped
  <2>. QED
    BY <1>0, <1>6, <2>1 DEF AbortClose, Sound, TaskRecord
<1>. QED
  BY <1>1, <1>2, <1>3, <1>4, <1>5, <1>6 DEF Command

LEMMA NextIInv == IInv /\ [Next]_vars => IInv'
<1>1. CASE UNCHANGED vars
  BY <1>1 DEF vars, IInv, ActorsTyped, RecordSound, Sound, Waits
<1>2. CASE Next
  <2>. SUFFICES ASSUME IInv, Next
                PROVE  IInv'
    BY <1>2
  <2>1. ActorsTyped'
    BY NextActorsTyped DEF IInv
  <2>2. RecordSound'
    BY WorkRecordSound, DispatchRecordSound, LaunchRecordSound,
       RunnerRecordSound, UserRecordSound DEF Next
  <2>. QED
    BY <2>1, <2>2 DEF IInv
<1>. QED
  BY <1>1, <1>2

LEMMA SpecIInv == Spec => []IInv
BY InitIInv, NextIInv, PTL DEF Spec

-----------------------------------------------------------------------------
\* Every variable keeps its type, whatever dies, restarts or gives up.
THEOREM TypeCorrect == Spec => []TypeOK
<1>1. IInv => TypeOK
  BY DEF IInv, ActorsTyped, RecordSound, Sound, TypeOK, TaskRecord, RunLease
<1>. QED
  BY <1>1, SpecIInv, PTL

\* The dispatch lease is held exactly while a claimed run is in progress.
THEOREM LeaseNeverStrands == Spec => []LeaseFollowsRun
<1>1. IInv => LeaseFollowsRun
  BY DEF IInv, RecordSound, Sound, LeaseFollowsRun
<1>. QED
  BY <1>1, SpecIInv, PTL

\* Only a task whose agent declared its end carries a final callback.
THEOREM CallbackSuperseded == Spec => []CallbackMatchesOutcome
<1>1. IInv => CallbackMatchesOutcome
  BY DEF IInv, RecordSound, Sound, CallbackMatchesOutcome
<1>. QED
  BY <1>1, SpecIInv, PTL

\* A waiting task has a request that can be answered, unless a close is
\* reserved or was aborted.
THEOREM WaitIsAnswerable == Spec => []WaitHasRequest
<1>1. IInv => WaitHasRequest
  BY LifecycleAssumption
  DEF IInv, ActorsTyped, RecordSound, Waits, WaitHasRequest
<1>. QED
  BY <1>1, SpecIInv, PTL

\* What a status rests on is on record with it.
THEOREM StatusIsBacked == Spec => []StatusBacked
<1>1. CallbackMatchesOutcome /\ WaitHasRequest => StatusBacked
  BY DEF StatusBacked
<1>. QED
  BY <1>1, CallbackSuperseded, WaitIsAnswerable, PTL
-----------------------------------------------------------------------------
\* A record names the worker that another names, or none.
SameWorker(s, t) == s.ref = t.ref /\ s.pid = t.pid
NoOther(s, t) == s.ref \in {t.ref, NoWorker} /\ s.pid \in {t.pid, NoWorker}

\* What the handlers leave alone in the record.
LEMMA RecoverKeeps ==
    ASSUME NEW t \in TaskRecord
    PROVE  /\ SameWorker(Recover(t, FALSE), t)
           /\ \A close \in BOOLEAN :
                /\ Recover(t, close) \in TaskRecord
                /\ NoOther(Recover(t, close), t)
                /\ t.status \in {"completed", "cancelled"} => Recover(t, close) = t
<1>1. SameWorker(Recover(t, FALSE), t)
  BY DEF SameWorker, Recover, TaskRecord
<1>2. ASSUME NEW close \in BOOLEAN
      PROVE  /\ Recover(t, close) \in TaskRecord
             /\ NoOther(Recover(t, close), t)
  <2>1. \/ Recover(t, close) = t
        \/ Recover(t, close) = [t EXCEPT !.status = "needs_recovery", !.resuming = FALSE,
             !.wait = "none", !.final = FALSE, !.lease = FALSE,
             !.ref = IF close THEN NoWorker ELSE @, !.pid = IF close THEN NoWorker ELSE @]
    BY DEF Recover
  <2>. QED
    BY <2>1 DEF NoOther, TaskRecord, Status, Wait
<1>3. ASSUME NEW close \in BOOLEAN, t.status \in {"completed", "cancelled"}
      PROVE  Recover(t, close) = t
  BY <1>3 DEF Recover, Recoverable
<1>. QED
  BY <1>1, <1>2, <1>3

LEMMA ClearedNamesNone ==
    ASSUME NEW t \in TaskRecord
    PROVE  /\ NoOther(Cleared(t), t)
           /\ \A w \in Workers : NoOther(Unreferenced(t, w), t)
           /\ NoOther(LifecycleClosed(t), t)
BY DEF NoOther, Cleared, Unreferenced, LifecycleClosed, TaskRecord

LEMMA OthersKeepPointer ==
    ASSUME NEW t \in TaskRecord
    PROVE  /\ SameWorker(Fail(t), t)
           /\ \A final \in {"completed", "cancelled"} : SameWorker(Finalized(t, final), t)
           /\ \A kind \in Wait : SameWorker(Suspended(t, kind), t)
BY DEF SameWorker, Fail, Finalized, Suspended, TaskRecord

\* A worker that is past its executor moves on to its exit.
ReporterMoved ==
    \E w \in Workers : phase[w] \in {"returned", "finalized"} /\ phase'[w] # phase[w]

\* No step but a worker's report replaces a result.
LEMMA ResultStep ==
    ASSUME IInv, Next, task.status \in {"completed", "cancelled"},
           task'.status # task.status
    PROVE  ReporterMoved \/ task.intent
<1>. USE DEF IInv, RecordSound, command, faults, dispatch
<1>0. task \in TaskRecord /\ phase \in [Workers -> {"new"} \cup Alive \cup Gone]
  BY DEF Sound, ActorsTyped
<1>1. ASSUME NEW w \in Workers, Work(w)
      PROVE  ReporterMoved
  <2>1. \A close \in BOOLEAN : Recover(task, close) = task
    BY <1>0, RecoverKeeps
  <2>2. ~(\/ ProbeFails(w) \/ CheckTask(w) \/ StartRun(w) \/ StartRefused(w)
          \/ StartExecutor(w) \/ StartFails(w) \/ Return(w) \/ AskRefused(w)
          \/ DialogPasses(w))
    BY <2>1 DEF ProbeFails, CheckTask, StartRun, Startable, Resuming,
       StartRefused, StartExecutor, StartFails, Return, AskRefused, DialogPasses
  <2>3. \E from \in {"returned", "finalized"}, to \in {"exited", "finalized", "asking"} :
           from # to /\ Step(w, from, to)
    <3>1. CASE \E final \in {"completed", "cancelled"} : Finalize(w, final)
      BY <3>1 DEF Finalize
    <3>2. CASE \E kind \in Wait \ {"none"} : AskInput(w, kind)
      BY <3>2 DEF AskInput
    <3>3. CASE ReportFailure(w) \/ ReportRetryable(w) \/ Conclude(w)
      BY <3>3 DEF ReportFailure, ReportRetryable, Conclude
    <3>. QED
      BY <1>1, <2>2, <3>1, <3>2, <3>3 DEF Work
  <2>. QED
    BY <1>0, <2>3 DEF Step, ReporterMoved
<1>2. ASSUME NEW w \in Workers,
             Heartbeat(w) \/ Die(w) \/ Reap(w) \/ Dispatch(w) \/ Respond(w)
      PROVE  FALSE
  <2>1. ~(Heartbeat(w) \/ Die(w))
    BY DEF Heartbeat, Die
  <2>2. ~Reap(w)
    BY DEF Reap, Unsettled
  <2>3. ~(Dispatch(w) \/ Respond(w))
    BY DEF Dispatch, Dispatchable, Respond, Answerable
  <2>. QED
    BY <1>2, <2>1, <2>2, <2>3
<1>3. ~(RefuseDispatch \/ Deny \/ Expire \/ RestartRunner \/ RecoverTask)
  BY DEF RefuseDispatch, Dispatchable, Deny, Answerable, Expire, RestartRunner,
     RecoverTask
<1>4. ~(Reconcile \/ Cancel \/ ReserveClose)
  BY DEF Reconcile, Unsettled, Cancel, ReserveClose
<1>5. CASE CommitClose
  BY <1>0, <1>5 DEF CommitClose
<1>6. ~(CancelRuns \/ AbortClose \/ LoseCommand)
  BY <1>0 DEF CancelRuns, AbortClose, LoseCommand, TaskRecord
<1>7. ~\E w \in Workers : Launch(w)
  <2>1. ASSUME NEW w \in Workers
        PROVE  /\ Unreferenced(task, w).status = task.status
               /\ Activated(task, w).status = task.status
    BY <1>0 DEF Unreferenced, Cleared, Activated, TaskRecord
  <2>2. Recover(task, FALSE) = task
    BY <1>0, RecoverKeeps
  <2>3. ASSUME NEW w \in Workers, Launch(w)
        PROVE  task' \in {task, Activated(task, w), Unreferenced(task, w)}
    BY <2>2, <2>3 DEF Launch, Accept, ActivationFails, Abandon
  <2>. QED
    BY <2>1, <2>3
<1>. QED
  BY <1>1, <1>2, <1>3, <1>4, <1>5, <1>6, <1>7 DEF Next, Command

\* The worker whose process id the record has was started, as was the one that
\* is being launched, and meanwhile the record points to no other; a launch that
\* is given up has told its worker to stop, unless the worker is dead or the record
\* never had its process id.
LaunchInv ==
    /\ task.pid # NoWorker => phase[task.pid] # "new"
    /\ launch.at # "idle" => /\ launch.run \in Workers /\ phase[launch.run] # "new"
                             /\ task.ref \in {launch.run, NoWorker}
    /\ launch.at = "abandon" /\ phase[launch.run] \in Alive /\ task.pid = launch.run
         => launch.run \in signalled

\* What the steps that launch nobody do to it: no worker is unborn or rises from
\* the dead, the record names no other worker, a SIGTERM is forgotten with its worker.
Launchless ==
    /\ NoOther(task', task)
    /\ launch' \in {launch, Idle}
    /\ \A w \in Workers : /\ phase[w] # "new" => phase'[w] # "new"
                          /\ phase[w] \in Gone => phase'[w] \in Gone
                          /\ w \in signalled /\ w \notin signalled' => phase'[w] \in Gone

\* A worker's own steps leave the pointer alone.
LEMMA WorkKeepsWorker ==
    ASSUME IInv, NEW w \in Workers, Work(w)
    PROVE  SameWorker(task', task)
<1>. USE DEF IInv, RecordSound
<1>0. task \in TaskRecord
  BY DEF Sound, ActorsTyped
<1>1. CASE \/ ProbeFails(w) \/ CheckTask(w) \/ StartRefused(w) \/ StartExecutor(w)
           \/ StartFails(w) \/ Return(w) \/ ReportRetryable(w) \/ AskRefused(w)
           \/ DialogPasses(w)
  BY <1>0, <1>1, RecoverKeeps DEF ProbeFails, CheckTask, StartRefused,
     StartExecutor, StartFails, Return, ReportRetryable, AskRefused,
     DialogPasses, SameWorker
<1>2. CASE StartRun(w)
  BY <1>0, <1>2 DEF StartRun, TaskRecord, SameWorker
<1>3. CASE ReportFailure(w) \/ Conclude(w)
  BY <1>0, <1>3, OthersKeepPointer DEF ReportFailure, Conclude, SameWorker
<1>4. CASE \E final \in {"completed", "cancelled"} : Finalize(w, final)
  BY <1>0, <1>4, OthersKeepPointer DEF Finalize, SameWorker
<1>5. CASE \E kind \in Wait \ {"none"} : AskInput(w, kind)
  BY <1>0, <1>5, OthersKeepPointer DEF AskInput
<1>. QED
  BY <1>1, <1>2, <1>3, <1>4, <1>5 DEF Work

\* The steps that launch nobody do what Launchless says.
LEMMA WorkLaunchless ==
    ASSUME IInv, NEW w \in Workers, Work(w)
    PROVE  Launchless
<1>. USE DEF IInv, RecordSound, command, faults, dispatch
<1>0. task \in TaskRecord /\ phase \in [Workers -> {"new"} \cup Alive \cup Gone]
  BY DEF Sound, ActorsTyped
<1>1. UNCHANGED <<launch, signalled>>
  BY DEF Work, ProbeFails, CheckTask, StartRun, StartRefused, StartExecutor,
     StartFails, Return, Finalize, AskInput, AskRefused, DialogPasses,
     ReportFailure, ReportRetryable, Conclude
<1>2. \E from \in Alive, to \in Alive \cup Gone : Step(w, from, to)
  <2>1. CASE CheckTask(w)
    BY <2>1 DEF CheckTask, Alive, Gone
  <2>2. CASE \E final \in {"completed", "cancelled"} : Finalize(w, final)
    BY <2>2 DEF Finalize, Alive, Gone
  <2>3. CASE \E kind \in Wait \ {"none"} : AskInput(w, kind)
    BY <2>3 DEF AskInput, Alive, Gone
  <2>. QED
    BY <2>1, <2>2, <2>3
    DEF Work, ProbeFails, StartRun, StartRefused, StartExecutor, StartFails,
        Return, AskRefused, DialogPasses, ReportFailure, ReportRetryable,
        Conclude, Alive, Gone
<1>3. \A v \in Workers : /\ phase[v] # "new" => phase'[v] # "new"
                         /\ phase[v] \in Gone => phase'[v] \in Gone
  BY <1>0, <1>2 DEF Step, Alive, Gone
<1>4. SameWorker(task', task)
  BY WorkKeepsWorker
<1>. QED
  BY <1>1, <1>3, <1>4 DEF Launchless, SameWorker, NoOther

LEMMA OthersLaunchless ==
    ASSUME IInv,
           \/ \E w \in Workers : Heartbeat(w) \/ Die(w) \/ Reap(w)
           \/ RefuseDispatch \/ Deny \/ Expire \/ Reconcile \/ RestartRunner
           \/ RecoverTask \/ Cancel \/ ReserveClose \/ Command \/ AbortClose
           \/ LoseCommand
    PROVE  Launchless
<1>. USE DEF IInv, RecordSound, command, faults, dispatch
<1>0. task \in TaskRecord /\ phase \in [Workers -> {"new"} \cup Alive \cup Gone]
  BY DEF Sound, ActorsTyped
<1>1. ASSUME NEW w \in Workers, Heartbeat(w) \/ Die(w)
      PROVE  Launchless
  BY <1>0, <1>1 DEF Heartbeat, Die, Launchless, NoOther, Alive, Gone
<1>2. ASSUME NEW w \in Workers, Reap(w)
      PROVE  Launchless
  <2>1. NoOther(task', task)
    <3>. DEFINE r == Recover(task, TRUE)
    <3>1. r \in TaskRecord /\ NoOther(r, task)
      BY <1>0, RecoverKeeps
    <3>2. NoOther(Unreferenced(r, w), r) /\ NoOther(LifecycleClosed(task), task)
      BY <1>0, <3>1, ClearedNamesNone
    <3>. QED
      BY <1>2, <3>1, <3>2 DEF Reap, NoOther
  <2>. QED
    BY <1>0, <1>2, <2>1 DEF Reap, Launchless, Alive, Gone
<1>3. CASE RefuseDispatch \/ RestartRunner \/ RecoverTask \/ Cancel \/ ReserveClose
  BY <1>0, <1>3 DEF RefuseDispatch, Requeued, RestartRunner, RecoverTask, Cancel,
     ReserveClose, TaskRecord, NoOther, Launchless
<1>4. CASE Deny \/ Expire
  <2>. DEFINE u == [task EXCEPT !.wait = "none"]
  <2>1. u \in TaskRecord /\ SameWorker(u, task)
    BY <1>0 DEF TaskRecord, Wait, SameWorker
  <2>2. SameWorker(task', task)
    BY <1>4, <2>1, RecoverKeeps, OthersKeepPointer DEF Deny, Expire, SameWorker
  <2>. QED
    BY <1>4, <2>2 DEF Deny, Expire, Launchless, SameWorker, NoOther
<1>5. CASE Reconcile
  <2>. DEFINE r == Recover(task, TRUE)
  <2>1. r \in TaskRecord /\ NoOther(r, task)
    BY <1>0, RecoverKeeps
  <2>2. NoOther(Cleared(r), r) /\ NoOther(LifecycleClosed(task), task)
    BY <1>0, <2>1, ClearedNamesNone
  <2>3. NoOther(task', task)
    BY <1>5, <2>1, <2>2 DEF Reconcile, NoOther
  <2>. QED
    BY <1>5, <2>3 DEF Reconcile, Launchless
<1>6. CASE Command \/ AbortClose \/ LoseCommand
  BY <1>0, <1>6 DEF Command, CancelRuns, CommitClose, NewTask, AbortClose,
     LoseCommand, TaskRecord, NoOther, Launchless
<1>. QED
  BY <1>1, <1>2, <1>3, <1>4, <1>5, <1>6

LEMMA InitLaunchInv == Init => LaunchInv
BY LifecycleAssumption DEF Init, LaunchInv, NewTask, Idle, Launching

LEMMA NextLaunchInv == IInv /\ LaunchInv /\ [Next]_vars => LaunchInv'
<1>. SUFFICES ASSUME IInv, LaunchInv, [Next]_vars
              PROVE  LaunchInv'
  OBVIOUS
<1>. USE LifecycleAssumption DEF IInv, RecordSound, command, faults
<1>0. /\ task \in TaskRecord /\ phase \in [Workers -> {"new"} \cup Alive \cup Gone]
      /\ launch \in [at : {"idle", "activate", "abandon"},
                     run : Workers \cup {NoWorker}]
      /\ signalled \in SUBSET Workers
  BY DEF Sound, ActorsTyped
<1>1. CASE UNCHANGED vars
  BY <1>1 DEF vars, LaunchInv
<1>2. CASE Launchless
  <2>1. task'.pid # NoWorker => phase'[task'.pid] # "new"
    BY <1>0, <1>2 DEF Launchless, NoOther, LaunchInv, TaskRecord
  <2>2. launch'.at # "idle" => launch' = launch
    BY <1>2 DEF Launchless, Idle, Launching
  <2>3. launch'.at # "idle" => /\ launch'.run \in Workers /\ phase'[launch'.run] # "new"
                              /\ task'.ref \in {launch'.run, NoWorker}
    BY <1>0, <1>2, <2>2 DEF Launchless, NoOther, LaunchInv
  <2>4. ASSUME launch'.at = "abandon", phase'[launch'.run] \in Alive,
               task'.pid = launch'.run
        PROVE  launch'.run \in signalled'
    <3>. DEFINE w == launch.run
    <3>1. launch' = launch /\ w \in Workers /\ phase[w] # "new"
      BY <2>2, <2>4 DEF LaunchInv
    <3>2. task.pid = w
      BY <1>2, <2>4, <3>1, LifecycleAssumption DEF Launchless, NoOther
    <3>3. phase'[w] \notin Gone
      BY <2>4, <3>1 DEF Alive, Gone
    <3>4. phase[w] \in Alive
      BY <1>0, <1>2, <3>1, <3>3 DEF Launchless
    <3>5. w \in signalled
      BY <2>4, <3>1, <3>2, <3>4 DEF LaunchInv
    <3>. QED
      BY <1>2, <3>1, <3>3, <3>5 DEF Launchless
  <2>. QED
    BY <2>1, <2>3, <2>4 DEF LaunchInv
<1>3. ASSUME NEW w \in Workers, Dispatch(w) \/ Respond(w)
      PROVE  LaunchInv'
  <2>1. PICK t \in {Requeued, Answered} : Spawn(w, t) \/ SpawnFails(w, t)
    BY <1>3 DEF Dispatch, Respond
  <2>2. t \in TaskRecord /\ t.pid = task.pid /\ launch = Idle /\ UNCHANGED signalled
    BY <1>0, <1>3, <2>1 DEF Requeued, Answered, TaskRecord, Status, Wait,
       Dispatch, Respond, Free
  <2>3. CASE Spawn(w, t)
    <3>1. task'.pid = task.pid /\ task'.ref = w /\ phase' = [phase EXCEPT ![w] = "spawned"]
      BY <2>2, <2>3 DEF Spawn, TaskRecord
    <3>2. launch'.run = w /\ task.pid # w
      BY <1>0, <2>3 DEF Spawn, Launching, LaunchInv
    <3>. QED
      BY <1>0, <3>1, <3>2 DEF LaunchInv, TaskRecord
  <2>4. CASE SpawnFails(w, t)
    <3>1. /\ launch' = Idle /\ phase' = [phase EXCEPT ![w] = "reaped"]
          /\ \E u \in {t, [t EXCEPT !.ref = w]} :
                task' = Unreferenced(Recover(u, FALSE), w)
      BY <2>2, <2>4 DEF SpawnFails, dispatch
    <3>2. PICK u \in {t, [t EXCEPT !.ref = w]} :
             task' = Unreferenced(Recover(u, FALSE), w)
      BY <3>1
    <3>3. u \in TaskRecord /\ u.pid = task.pid
      BY <2>2, <3>2 DEF TaskRecord
    <3>4. Recover(u, FALSE) \in TaskRecord /\ NoOther(Recover(u, FALSE), u)
      BY <3>3, RecoverKeeps
    <3>5. task'.pid \in {task.pid, NoWorker}
      BY <3>2, <3>3, <3>4, ClearedNamesNone DEF NoOther
    <3>. QED
      BY <1>0, <3>1, <3>5 DEF LaunchInv, TaskRecord, Idle, Launching
  <2>. QED
    BY <2>1, <2>3, <2>4
<1>4. ASSUME NEW w \in Workers, Launch(w)
      PROVE  LaunchInv'
  <2>1. phase[w] # "new" /\ UNCHANGED phase
    <3>1. /\ launch \in {Launching("activate", w), Launching("abandon", w)}
          /\ UNCHANGED phase
      BY <1>4 DEF Launch, Accept, ActivationFails, Abandon
    <3>2. launch.at # "idle" /\ launch.run = w
      BY <3>1 DEF Launching
    <3>. QED
      BY <3>1, <3>2 DEF LaunchInv
  <2>2. CASE Accept(w)
    BY <1>0, <2>1, <2>2
    DEF Accept, Activated, Idle, Launching, LaunchInv, TaskRecord
  <2>3. CASE ActivationFails(w)
    <3>1. task'.pid \in {task.pid, w} /\ task'.ref \in {task.ref, w}
      BY <1>0, <2>3 DEF ActivationFails, Activated, TaskRecord
    <3>. QED
      BY <1>0, <2>1, <2>3, <3>1
      DEF ActivationFails, Launching, LaunchInv, Live, TaskRecord
  <2>4. CASE Abandon(w)
    <3>1. Recover(task, FALSE) \in TaskRecord /\ NoOther(Recover(task, FALSE), task)
      BY <1>0, RecoverKeeps
    <3>2. task'.pid \in {task.pid, NoWorker}
      BY <2>4, <3>1, ClearedNamesNone DEF Abandon, NoOther
    <3>. QED
      BY <2>1, <2>4, <3>2 DEF Abandon, Idle, Launching, LaunchInv
  <2>. QED
    BY <1>4, <2>2, <2>3, <2>4 DEF Launch
<1>5. ASSUME NEW w \in Workers, Work(w)
      PROVE  LaunchInv'
  BY <1>2, <1>5, WorkLaunchless
<1>. QED
  BY <1>1, <1>2, <1>3, <1>4, <1>5, OthersLaunchless DEF Next

LEMMA SpecLaunchInv == Spec => []LaunchInv
BY SpecIInv, InitLaunchInv, NextLaunchInv, PTL DEF Spec

\* No step but a dispatch takes a live worker out of the record, of its own
\* accord or because it gives the worker up.
LEMMA PointerStep ==
    ASSUME IInv, LaunchInv, Next, Live(task.ref), task.pid = task.ref,
           Exists(task'), task'.ref # task.ref
    PROVE  \/ \E w \in Workers : phase[w] = "new" /\ phase'[w] # "new"
           \/ launch = Launching("abandon", task.ref) /\ task.ref \in signalled
<1>. USE DEF IInv, RecordSound, command, faults, dispatch
<1>0. task \in TaskRecord /\ phase \in [Workers -> {"new"} \cup Alive \cup Gone]
  BY DEF Sound, ActorsTyped
<1>1. ASSUME NEW w \in Workers, Dispatch(w) \/ Respond(w)
      PROVE  phase[w] = "new" /\ phase'[w] # "new"
  BY <1>0, <1>1 DEF Dispatch, Respond, Spawn, SpawnFails
<1>2. ASSUME NEW w \in Workers, Launch(w)
      PROVE  launch = Launching("abandon", task.ref) /\ task.ref \in signalled
  <2>1. /\ task.ref \in Workers /\ task.ref # NoWorker
        /\ phase[task.ref] \in Alive
    BY LifecycleAssumption DEF Live
  <2>2. launch.run = w /\ task.ref = w
    <3>1. launch \in {Launching("activate", w), Launching("abandon", w)}
      BY <1>2 DEF Launch, Accept, ActivationFails, Abandon
    <3>2. launch.at # "idle" /\ launch.run = w
      BY <3>1 DEF Launching
    <3>. QED
      BY <2>1, <3>2 DEF LaunchInv
  <2>3. ~(Accept(w) \/ ActivationFails(w))
    BY <1>0, <2>2 DEF Accept, ActivationFails, Activated, TaskRecord
  <2>4. launch = Launching("abandon", w)
    BY <1>2, <2>3 DEF Launch, Abandon
  <2>5. launch.at = "abandon"
    BY <2>4 DEF Launching
  <2>. QED
    BY <2>1, <2>2, <2>4, <2>5 DEF LaunchInv
<1>3. ~\E w \in Workers : Work(w)
  BY WorkKeepsWorker DEF SameWorker
<1>4. ASSUME NEW w \in Workers, Heartbeat(w) \/ Die(w) \/ Reap(w)
      PROVE  FALSE
  <2>1. ~(Heartbeat(w) \/ Die(w))
    BY DEF Heartbeat, Die
  <2>2. CASE Reap(w)
    <3>1. task.ref = w
      BY <2>2 DEF Reap, CurrentExit
    <3>. QED
      BY <2>2, <3>1 DEF Reap, Live, Alive
  <2>. QED
    BY <1>4, <2>1, <2>2
<1>5. ~(RefuseDispatch \/ RestartRunner \/ RecoverTask)
  BY <1>0 DEF RefuseDispatch, Requeued, RestartRunner, RecoverTask, TaskRecord
<1>6. ~(Deny \/ Expire)
  <2>. DEFINE u == [task EXCEPT !.wait = "none"]
  <2>1. u \in TaskRecord /\ SameWorker(u, task)
    BY <1>0 DEF TaskRecord, Wait, SameWorker
  <2>. QED
    BY <2>1, RecoverKeeps, OthersKeepPointer DEF Deny, Expire, SameWorker
<1>7. ~Reconcile
  BY DEF Reconcile, ProcessLost
<1>8. ~(Cancel \/ ReserveClose \/ CancelRuns \/ AbortClose \/ LoseCommand)
  BY <1>0 DEF Cancel, ReserveClose, CancelRuns, AbortClose, LoseCommand, TaskRecord
<1>9. ~CommitClose
  BY <1>0 DEF CommitClose, Exists, NewTask
<1>. QED
  BY <1>1, <1>2, <1>3, <1>4, <1>5, <1>6, <1>7, <1>8, <1>9 DEF Next, Command

\* A result is replaced by a worker's own report or by a close, never by a
\* signal of the infrastructure: exits, lost leases, expired waits, failed
\* dispatches and starts all leave it alone.
THEOREM ResultStands == Spec => ResultOutlivesInfrastructure
<1>1. IInv /\ [Next]_vars =>
        [(task.status \in {"completed", "cancelled"} /\ task'.status # task.status)
         => \/ \E w \in Workers : /\ phase[w] \in {"returned", "finalized"}
                                  /\ phase'[w] # phase[w]
            \/ task.intent]_vars
  BY ResultStep DEF ReporterMoved
<1>. QED
  BY <1>1, SpecIInv, PTL DEF Spec, ResultOutlivesInfrastructure

\* The record keeps its pointer to a live worker whose process id it has until a
\* dispatch replaces it, or gives up the worker it started and told to stop.
THEOREM PointerKept == Spec => LivePointerKept
<1>1. IInv /\ LaunchInv /\ [Next]_vars =>
        [(/\ Live(task.ref) /\ task.pid = task.ref
          /\ Exists(task') /\ task'.ref # task.ref)
         => \/ \E w \in Workers : phase[w] = "new" /\ phase'[w] # "new"
            \/ launch = Launching("abandon", task.ref) /\ task.ref \in signalled]_vars
  BY PointerStep
<1>. QED
  BY <1>1, SpecIInv, SpecLaunchInv, PTL DEF Spec, LivePointerKept

-----------------------------------------------------------------------------
(* The spool.                                                              *)


\* A Runner in one of these places has a request in its hands.
Busy == {"admit", "execute", "respond"}

\* An answer says what became of the request.
Agrees(answer, runs) ==
    /\ answer \in Results
    /\ runs \in 0..1
    /\ answer = "ok" => runs = 1
    /\ answer = "refused" => runs = 0

\* The files and the command of a call fit together.
CallSound(c) ==
    /\ c.runs \in 0..1
    /\ c.client = "new" => c.request = "none" /\ c.response = "none" /\ c.runs = 0
    /\ c.request = "spooled" => c.runs = 0
    /\ c.request # "none" => c.response = "none" /\ c.client \notin Results
    /\ c.response # "none" => Agrees(c.response, c.runs) /\ c.client \notin Results
    /\ c.client \in Results => Agrees(c.client, c.runs)

\* What a Runner knows of the request it has, whose record is c.
HandSound(p, c) ==
    /\ c.request = "taken"
    /\ p.pc \in {"admit", "execute"} => c.runs = 0
    /\ p.pc = "execute" => c.admitted
    /\ p.pc = "respond" => Agrees(p.result, c.runs)

RunnersSound ==
    \A r \in Runner : runner[r].pc \in Busy =>
        /\ runner[r].now \in Calls
        /\ HandSound(runner[r], call[runner[r].now])
        /\ \A s \in Runner : runner[s].pc \in Busy /\ runner[s].now = runner[r].now => s = r

CallsSound == \A q \in Calls : CallSound(call[q])

\* A command gives up after its request has expired.
GivenUpIsLate == \A q \in Calls : call[q].client = "gave up" => call[q].late

SpoolInv == SpoolTypeOK /\ CallsSound /\ RunnersSound /\ GivenUpIsLate

-----------------------------------------------------------------------------
(* Types.                                                                  *)

LEMMA NoFileType == NoFile \in PidFile
BY DEF NoFile, PidFile

LEMMA OffType == Off \in Process
BY SpoolAssumption DEF Off, Process, Path, Results

\* Releasing pid files leaves pid files.
LEMMA ReleasedType ==
    ASSUME NEW r \in Runner, SpoolTypeOK
    PROVE  Released(r) \in [Path -> PidFile]
BY NoFileType DEF SpoolTypeOK, Released

LEMMA InitType == SpoolInit => SpoolTypeOK
<1> SUFFICES ASSUME SpoolInit PROVE SpoolTypeOK
  OBVIOUS
<1>1. pid \in [Path -> PidFile]
  <2>1. [by |-> Former, there |-> TRUE, written |-> TRUE] \in PidFile
    BY DEF PidFile
  <2> QED BY <2>1, NoFileType DEF SpoolInit
<1>2. runner \in [Runner -> Process]
  <2>1. [Off EXCEPT !.pc = "new"] \in Process
    BY OffType DEF Process
  <2> QED BY <2>1 DEF SpoolInit
<1>3. call \in [Calls -> Call]
  BY DEF SpoolInit, Call, Results
<1> QED BY <1>1, <1>2, <1>3, SpoolAssumption DEF SpoolInit, SpoolTypeOK

LEMMA FollowingType == \A k \in Path : Following(k) \in Path
BY DEF Following, Path

\* A Runner goes to another place.
LEMMA GotoType ==
    ASSUME SpoolTypeOK, NEW r \in Runner,
           NEW pc \in {"new", "off", "identity"} \cup Starting \cup Serving, Goto(r, pc)
    PROVE  runner' \in [Runner -> Process]
BY DEF SpoolTypeOK, Goto, Process

\* The steps that decide which process is the Runner.
LEMMA AcquireType ==
    ASSUME SpoolTypeOK, NEW r \in Runner, Start(r) \/ Acquire(r)
    PROVE  SpoolTypeOK'
<1>0. /\ runner \in [Runner -> Process] /\ runner[r] \in Process
      /\ pid \in [Path -> PidFile] /\ runner[r].at \in Path
  BY DEF SpoolTypeOK, Process
<1>places. {"create", "look", "unlink", "write"} \subseteq Starting
  BY DEF Starting
<1> SUFFICES pid' \in [Path -> PidFile] /\ runner' \in [Runner -> Process]
  BY DEF SpoolTypeOK, Start, Acquire, Create, Write, Look, Unlink, Identity
<1>1. CASE Start(r)
  BY <1>0, <1>places, <1>1, GotoType DEF Start
<1>2. CASE Create(r)
  <2>1. [by |-> r, there |-> TRUE, written |-> FALSE] \in PidFile
    BY DEF PidFile
  <2> QED BY <1>0, <1>places, <1>2, <2>1, GotoType DEF Create
<1>3. CASE Write(r)
  <2> DEFINE k == runner[r].at
  <2>1. [pid[k] EXCEPT !.written = TRUE] \in PidFile
    BY <1>0 DEF PidFile
  <2>2. \A pc \in Starting \cup {"identity"} :
           [runner[r] EXCEPT !.owned = @ \cup {k}, !.at = Following(k), !.pc = pc] \in Process
    BY <1>0, FollowingType DEF Process
  <2> QED BY <1>0, <1>places, <1>3, <2>1, <2>2 DEF Write
<1>4. CASE Look(r)
  BY <1>0, <1>places, <1>4, OffType, ReleasedType, GotoType DEF Look, Leave
<1>5. CASE Unlink(r)
  BY <1>0, <1>places, <1>5, NoFileType, GotoType DEF Unlink
<1>6. CASE Identity(r)
  <2> DEFINE k == runner[r].at
  <2>1. \A pc \in {"identity", "list"} :
           [runner[r] EXCEPT !.at = Following(k), !.pc = pc] \in Process
    BY <1>0, FollowingType DEF Process, Serving
  <2> QED BY <1>0, <1>6, <2>1, OffType, ReleasedType DEF Identity, Leave
<1> QED BY <1>1, <1>2, <1>3, <1>4, <1>5, <1>6 DEF Acquire

\* The steps of a Runner that serves.
LEMMA ServeType ==
    ASSUME SpoolTypeOK, NEW r \in Runner, Serve(r)
    PROVE  SpoolTypeOK'
<1>0. /\ runner \in [Runner -> Process] /\ runner[r] \in Process
      /\ call \in [Calls -> Call] /\ runner[r].now \in Calls \cup {NoCall}
  BY DEF SpoolTypeOK, Process
<1>places. {"identity", "execute"} \subseteq {"new", "off", "identity"} \cup Starting \cup Serving
  BY DEF Serving
<1> SUFFICES call' \in [Calls -> Call] /\ runner' \in [Runner -> Process]
  BY DEF SpoolTypeOK, Serve, List, Take, Admit, Execute, WriteResponse
<1> DEFINE q == runner[r].now
<1>1. CASE List(r)
  <2>1. [runner[r] EXCEPT !.todo = {x \in Calls : Listed(x)}, !.pc = "take"] \in Process
    BY <1>0 DEF Process, Serving
  <2> QED BY <1>0, <1>1, <2>1 DEF List
<1>2. CASE Take(r)
  <2>1. \A x \in Calls : [call[x] EXCEPT !.request = MovedAway] \in Call
    BY <1>0 DEF Call, MovedAway
  <2>2. \A x \in Calls :
           /\ [runner[r] EXCEPT !.todo = @ \ {x}] \in Process
           /\ [runner[r] EXCEPT !.todo = @ \ {x}, !.now = x, !.pc = "admit"] \in Process
    BY <1>0 DEF Process, Serving
  <2>3. runner[r].todo \subseteq Calls
    BY <1>0 DEF Process
  <2>4. CASE runner[r].todo = {}
    BY <1>0, <1>places, <1>2, <2>4, GotoType DEF Take
  <2>5. CASE runner[r].todo # {}
    <3>1. PICK x \in runner[r].todo :
            \/ /\ call' = [call EXCEPT ![x].request = MovedAway]
               /\ runner' = [runner EXCEPT ![r].todo = @ \ {x}, ![r].now = x, ![r].pc = "admit"]
            \/ call' = call /\ runner' = [runner EXCEPT ![r].todo = @ \ {x}]
      BY <1>2, <2>5 DEF Take
    <3>2. x \in Calls
      BY <2>3, <3>1
    <3>3. CASE call' = call /\ runner' = [runner EXCEPT ![r].todo = @ \ {x}]
      BY <1>0, <2>2, <3>2, <3>3
    <3>4. CASE /\ call' = [call EXCEPT ![x].request = MovedAway]
               /\ runner' = [runner EXCEPT ![r].todo = @ \ {x}, ![r].now = x, ![r].pc = "admit"]
      BY <1>0, <2>1, <2>2, <3>2, <3>4
    <3> QED BY <3>1, <3>3, <3>4
  <2> QED BY <2>4, <2>5
<1>3. CASE Admit(r)
  <2>1. \A x \in Calls : [call[x] EXCEPT !.admitted = TRUE] \in Call
    BY <1>0 DEF Call
  <2>2. [runner[r] EXCEPT !.pc = "respond", !.result = "refused"] \in Process
    BY <1>0 DEF Process, Serving, Results
  <2> QED BY <1>0, <1>places, <1>3, <2>1, <2>2, GotoType DEF Admit
<1>4. CASE Execute(r)
  <2>1. \A x \in Calls, n \in 0..2 : [call[x] EXCEPT !.runs = n] \in Call
    BY <1>0 DEF Call
  <2>3. q \in Calls => call[q].runs \in 0..2
    BY <1>0 DEF Call
  <2>2. \A result \in {"ok", "failed"} :
           [runner[r] EXCEPT !.pc = "respond", !.result = result] \in Process
    BY <1>0 DEF Process, Serving, Results
  <2>4. CASE q \in Calls
    <3>1. call[q].runs + 1 \in 0..2
      BY <1>4, <2>3, <2>4 DEF Execute
    <3>2. [call[q] EXCEPT !.runs = @ + 1] \in Call
      BY <2>1, <2>4, <3>1
    <3> QED BY <1>0, <1>4, <2>2, <3>2 DEF Execute
  <2>5. CASE q \notin Calls
    BY <1>0, <1>4, <2>2, <2>5 DEF Execute
  <2> QED BY <2>4, <2>5
<1>5. CASE WriteResponse(r)
  <2>0. runner[r].result \in Results \cup {"none"}
    BY <1>0 DEF Process
  <2>1. \A x \in Calls, v \in {"none", "spooled", "taken"} :
           [call[x] EXCEPT !.response = runner[r].result, !.request = v] \in Call
    BY <1>0, <2>0 DEF Call
  <2>3. \A x \in Calls : call[x].request \in {"none", "spooled", "taken"}
    BY <1>0 DEF Call
  <2>2. [runner[r] EXCEPT !.pc = "take", !.now = NoCall, !.result = "none"] \in Process
    BY <1>0 DEF Process, Serving
  <2> QED BY <1>0, <1>5, <2>1, <2>2, <2>3 DEF WriteResponse
<1> QED BY <1>1, <1>2, <1>3, <1>4, <1>5 DEF Serve

\* Signals, deaths and commands.
LEMMA OtherType ==
    ASSUME SpoolTypeOK,
           \/ \E r \in Runner : Signal(r) \/ CrashRunner(r)
           \/ \E q \in Calls : Request(q) \/ Receive(q) \/ RequestExpires(q) \/ GiveUp(q) \/ CrashClient(q)
    PROVE  SpoolTypeOK'
<1>0. runner \in [Runner -> Process] /\ call \in [Calls -> Call]
  BY DEF SpoolTypeOK
<1>1. ASSUME NEW r \in Runner, Signal(r) PROVE SpoolTypeOK'
  <2>1. [runner[r] EXCEPT !.stop = TRUE, !.owned = {}] \in Process
    BY <1>0 DEF Process
  <2>2. signals' \in 0..MaxSignals
    BY <1>1, SpoolAssumption DEF Signal, SpoolTypeOK
  <2> QED BY <1>0, <1>1, <2>1, <2>2, ReleasedType DEF Signal, SpoolTypeOK
<1>2. ASSUME NEW r \in Runner, CrashRunner(r) PROVE SpoolTypeOK'
  BY <1>2, OffType, SpoolAssumption DEF CrashRunner, SpoolTypeOK
<1>3. ASSUME NEW q \in Calls, Request(q) PROVE SpoolTypeOK'
  <2>1. [call[q] EXCEPT !.client = "waiting", !.request = "spooled"] \in Call
    BY <1>0 DEF Call
  <2> QED BY <1>0, <1>3, <2>1 DEF Request, SpoolTypeOK
<1>4. ASSUME NEW q \in Calls, Receive(q) PROVE SpoolTypeOK'
  <2>1. [call[q] EXCEPT !.client = call[q].response, !.response = "none"] \in Call
    BY <1>0, <1>4 DEF Call, Receive
  <2> QED BY <1>0, <1>4, <2>1 DEF Receive, SpoolTypeOK
<1>5. ASSUME NEW q \in Calls, RequestExpires(q) PROVE SpoolTypeOK'
  <2>1. [call[q] EXCEPT !.late = TRUE] \in Call
    BY <1>0 DEF Call
  <2> QED BY <1>0, <1>5, <2>1 DEF RequestExpires, SpoolTypeOK
<1>6. ASSUME NEW q \in Calls, GiveUp(q) PROVE SpoolTypeOK'
  <2>1. [call[q] EXCEPT !.client = "gave up",
                        !.request = IF @ = "spooled" THEN "none" ELSE @] \in Call
    BY <1>0 DEF Call
  <2> QED BY <1>0, <1>6, <2>1 DEF GiveUp, SpoolTypeOK
<1>7. ASSUME NEW q \in Calls, CrashClient(q) PROVE SpoolTypeOK'
  <2>1. [call[q] EXCEPT !.client = "dead"] \in Call
    BY <1>0 DEF Call
  <2> QED BY <1>0, <1>7, <2>1, SpoolAssumption DEF CrashClient, SpoolTypeOK
<1> QED BY <1>1, <1>2, <1>3, <1>4, <1>5, <1>6, <1>7

LEMMA NextType == SpoolTypeOK /\ [SpoolNext]_spoolVars => SpoolTypeOK'
<1> SUFFICES ASSUME SpoolTypeOK, [SpoolNext]_spoolVars PROVE SpoolTypeOK'
  OBVIOUS
<1>1. CASE SpoolNext
  BY <1>1, AcquireType, ServeType, OtherType DEF SpoolNext
<1>2. CASE UNCHANGED spoolVars
  BY <1>2 DEF SpoolTypeOK, spoolVars
<1> QED BY <1>1, <1>2

-----------------------------------------------------------------------------
(* Who has a request, and what became of it.                               *)

LEMMA InitSound == SpoolInit => CallsSound /\ RunnersSound
<1> SUFFICES ASSUME SpoolInit PROVE CallsSound /\ RunnersSound
  OBVIOUS
<1>1. \A r \in Runner : runner[r].pc \notin Busy
  BY DEF SpoolInit, Busy, Off
<1>2. ASSUME NEW q \in Calls PROVE CallSound(call[q])
  <2>1. call[q] = [client |-> "new", late |-> FALSE, request |-> "none",
                   response |-> "none", admitted |-> FALSE, runs |-> 0]
    BY DEF SpoolInit
  <2> QED BY <2>1 DEF CallSound, Results
<1> QED BY <1>1, <1>2 DEF CallsSound, RunnersSound

\* A call whose request was taken is sound as long as nobody has answered it.
LEMMA TakenSound ==
    ASSUME NEW c, c.request = "taken", c.runs \in 0..1, c.response = "none",
           c.client \notin Results \cup {"new"}
    PROVE  CallSound(c)
BY DEF CallSound

\* A step of one Runner leaves the hands of the others alone.
LEMMA HandsKept ==
    ASSUME SpoolInv, NEW r \in Runner,
           \A s \in Runner \ {r} : runner'[s] = runner[s],
           \A s \in Runner \ {r} :
              runner[s].pc \in Busy => HandSound(runner[s], call'[runner[s].now]),
           runner'[r].pc \in Busy =>
              /\ runner'[r].now \in Calls
              /\ HandSound(runner'[r], call'[runner'[r].now])
              /\ \A s \in Runner \ {r} :
                    runner[s].pc \in Busy => runner[s].now # runner'[r].now
    PROVE  RunnersSound'
BY DEF SpoolInv, RunnersSound

\* The steps of a Runner that touch no call: its hands are empty afterwards, or
\* as they were.
LEMMA IdleSound ==
    ASSUME SpoolInv, NEW r \in Runner,
           Start(r) \/ Acquire(r) \/ List(r) \/ Signal(r) \/ CrashRunner(r)
    PROVE  CallsSound' /\ RunnersSound'
<1>0. runner \in [Runner -> Process] /\ runner[r] \in Process
  BY DEF SpoolInv, SpoolTypeOK
<1>1. call' = call
  BY DEF Start, Acquire, Create, Write, Look, Unlink, Identity, List, Signal, CrashRunner
<1>2. \A s \in Runner \ {r} : runner'[s] = runner[s]
  BY <1>0 DEF Start, Acquire, Create, Write, Look, Unlink, Identity, List, Signal, CrashRunner,
              Goto, Leave
<1>3. CASE ~Signal(r)
  <2>1. runner'[r].pc \notin Busy
    BY <1>0, <1>3 DEF Start, Acquire, Create, Write, Look, Unlink, Identity, List, CrashRunner,
              Goto, Leave, Off, Busy, Process
  <2> QED BY <1>1, <1>2, <2>1, HandsKept DEF SpoolInv, CallsSound, RunnersSound
<1>4. CASE Signal(r)
  <2>1. /\ runner'[r].pc = runner[r].pc /\ runner'[r].now = runner[r].now
        /\ runner'[r].result = runner[r].result
    BY <1>0, <1>4 DEF Signal, Process
  <2> QED BY <1>1, <1>2, <2>1, HandsKept DEF SpoolInv, CallsSound, RunnersSound, HandSound
<1> QED BY <1>3, <1>4

\* Moving the file decides who has the request: nobody had it before.
LEMMA TakeSound ==
    ASSUME SpoolInv, NEW r \in Runner, Take(r)
    PROVE  CallsSound' /\ RunnersSound'
<1>0. /\ runner \in [Runner -> Process] /\ runner[r] \in Process
      /\ call \in [Calls -> Call] /\ runner[r].todo \subseteq Calls
  BY DEF SpoolInv, SpoolTypeOK, Process
<1>1. CASE /\ call' = call /\ runner'[r].pc \notin Busy
           /\ \A s \in Runner \ {r} : runner'[s] = runner[s]
  BY <1>1, HandsKept DEF SpoolInv, CallsSound, RunnersSound
<1>2. CASE runner[r].todo = {}
  <2>1. /\ call' = call /\ runner'[r].pc \notin Busy
        /\ \A s \in Runner \ {r} : runner'[s] = runner[s]
    BY <1>0, <1>2 DEF Take, Goto, Busy, Process
  <2> QED BY <1>1, <2>1
<1>3. CASE runner[r].todo # {}
  <2>1. PICK x \in runner[r].todo :
          \/ /\ call[x].request = "spooled"
             /\ call' = [call EXCEPT ![x].request = MovedAway]
             /\ runner' = [runner EXCEPT ![r].todo = @ \ {x}, ![r].now = x, ![r].pc = "admit"]
          \/ call' = call /\ runner' = [runner EXCEPT ![r].todo = @ \ {x}]
    BY <1>3 DEF Take
  <2>2. x \in Calls
    BY <1>0, <2>1
  <2>3. CASE call' = call /\ runner' = [runner EXCEPT ![r].todo = @ \ {x}]
    <3>1. /\ runner'[r].pc \notin Busy
          /\ \A s \in Runner \ {r} : runner'[s] = runner[s]
      BY <1>0, <2>3 DEF Take, Is, Busy, Process
    <3> QED BY <1>1, <2>3, <3>1
  <2>4. CASE /\ call[x].request = "spooled"
             /\ call' = [call EXCEPT ![x].request = MovedAway]
             /\ runner' = [runner EXCEPT ![r].todo = @ \ {x}, ![r].now = x, ![r].pc = "admit"]
    <3>1. CallSound(call[x]) /\ call[x] \in Call
      BY <1>0, <2>2 DEF SpoolInv, CallsSound
    <3>2. call'[x] = [call[x] EXCEPT !.request = "taken"]
      BY <1>0, <2>2, <2>4 DEF MovedAway
    <3>3. \A q \in Calls \ {x} : call'[q] = call[q]
      BY <1>0, <2>4
    <3>old. /\ call[x].runs = 0 /\ call[x].response = "none" /\ call[x].client \notin Results
          /\ call[x].client # "new"
      BY <2>4, <3>1 DEF CallSound
    <3>new. /\ call'[x].request = "taken" /\ call'[x].runs = call[x].runs
          /\ call'[x].client = call[x].client /\ call'[x].response = call[x].response
      BY <3>1, <3>2 DEF Call
    <3>4. CallSound(call'[x]) /\ call'[x].request = "taken" /\ call'[x].runs = 0
      BY <3>old, <3>new, TakenSound
    <3>5. CallsSound'
      BY <3>3, <3>4 DEF SpoolInv, CallsSound
    <3>6. /\ runner'[r].pc = "admit" /\ runner'[r].now = x
          /\ \A s \in Runner \ {r} : runner'[s] = runner[s]
      BY <1>0, <2>4 DEF Process
    <3>7. HandSound(runner'[r], call'[x])
      BY <3>4, <3>6 DEF HandSound
    <3>8. \A s \in Runner : runner[s].pc \in Busy =>
             /\ runner[s].now \in Calls \ {x}
             /\ HandSound(runner[s], call[runner[s].now])
      BY <2>4 DEF SpoolInv, RunnersSound, HandSound
    <3>9. \A s \in Runner \ {r} :
             runner[s].pc \in Busy => HandSound(runner[s], call'[runner[s].now])
      BY <3>3, <3>8
    <3> QED BY <2>2, <3>5, <3>6, <3>7, <3>8, <3>9, HandsKept
  <2> QED BY <2>1, <2>3, <2>4
<1> QED BY <1>2, <1>3

\* The steps of a Runner at the request it has: only its own call changes.
LEMMA HandStep ==
    ASSUME SpoolInv, NEW r \in Runner, Admit(r) \/ Execute(r) \/ WriteResponse(r)
    PROVE  CallsSound' /\ RunnersSound'
<1> DEFINE q == runner[r].now
<1>0. /\ runner \in [Runner -> Process] /\ runner[r] \in Process
      /\ call \in [Calls -> Call]
  BY DEF SpoolInv, SpoolTypeOK
<1>1. runner[r].pc \in Busy
  BY DEF Admit, Execute, WriteResponse, Is, Busy
<1>2. /\ q \in Calls /\ HandSound(runner[r], call[q])
      /\ \A s \in Runner \ {r} : runner[s].pc \in Busy =>
            /\ runner[s].now \in Calls \ {q}
            /\ HandSound(runner[s], call[runner[s].now])
  BY <1>1 DEF SpoolInv, RunnersSound
<1>3. call[q] \in Call /\ CallSound(call[q])
  BY <1>0, <1>2 DEF SpoolInv, CallsSound
<1>4. /\ \A x \in Calls \ {q} : call'[x] = call[x]
      /\ \A s \in Runner \ {r} : runner'[s] = runner[s]
  BY <1>0 DEF Admit, Execute, WriteResponse, Goto
<1>5. \A s \in Runner \ {r} :
         runner[s].pc \in Busy => HandSound(runner[s], call'[runner[s].now])
  BY <1>2, <1>4
<1> SUFFICES /\ CallSound(call'[q])
             /\ runner'[r].pc \in Busy =>
                  runner'[r].now = q /\ HandSound(runner'[r], call'[q])
  BY <1>2, <1>4, <1>5, HandsKept DEF SpoolInv, CallsSound
<1>6. CASE Admit(r)
  <2>1. CASE InTime(q)
    <3>1. /\ call'[q] = [call[q] EXCEPT !.admitted = TRUE]
          /\ runner'[r] = [runner[r] EXCEPT !.pc = "execute"]
      BY <1>0, <1>2, <1>6, <2>1 DEF Admit, Goto
    <3> QED BY <1>0, <1>2, <1>3, <1>6, <3>1 DEF CallSound, HandSound, Call, Process, Agrees, Admit, Is
  <2>2. CASE ~InTime(q)
    <3>1. /\ call'[q] = call[q]
          /\ runner'[r] = [runner[r] EXCEPT !.pc = "respond", !.result = "refused"]
      BY <1>0, <1>2, <1>6, <2>2 DEF Admit
    <3>2. call[q].runs = 0
      BY <1>2, <1>6 DEF Admit, Is, HandSound
    <3> QED BY <1>0, <1>2, <1>3, <3>1, <3>2 DEF HandSound, Process, Agrees, Results
  <2> QED BY <2>1, <2>2
<1>7. CASE Execute(r)
  <2>1. call[q].runs = 0
    BY <1>2, <1>7 DEF Execute, Is, HandSound
  <2>2. call'[q] = [call[q] EXCEPT !.runs = 1]
    BY <1>0, <1>2, <1>7, <2>1 DEF Execute
  <2>3. PICK result \in {"ok", "failed"} :
           runner'[r] = [runner[r] EXCEPT !.pc = "respond", !.result = result]
    BY <1>0, <1>7 DEF Execute
  <2>old. /\ call[q].request = "taken" /\ call[q].response = "none"
        /\ call[q].client \notin Results /\ call[q].client # "new"
    BY <1>2, <1>3 DEF CallSound, HandSound
  <2>new. /\ call'[q].request = call[q].request /\ call'[q].runs = 1
        /\ call'[q].client = call[q].client /\ call'[q].response = call[q].response
    BY <1>3, <2>2 DEF Call
  <2>4. CallSound(call'[q]) /\ call'[q].request = "taken" /\ call'[q].runs = 1
    BY <2>old, <2>new, TakenSound
  <2>5. runner'[r].pc = "respond" /\ runner'[r].now = q /\ runner'[r].result = result
    BY <1>0, <2>3 DEF Process
  <2> QED BY <2>3, <2>4, <2>5 DEF HandSound, Agrees, Results
<1>8. CASE WriteResponse(r)
  <2>1. call'[q] = [call[q] EXCEPT !.response = runner[r].result, !.request = "none"]
    BY <1>0, <1>2, <1>8 DEF WriteResponse, HandSound
  <2>2. Agrees(runner[r].result, call[q].runs)
    BY <1>2, <1>8 DEF WriteResponse, Is, HandSound
  <2>3. CallSound(call'[q])
    BY <1>2, <1>3, <2>1, <2>2 DEF CallSound, HandSound, Call
  <2>4. runner'[r].pc = "take"
    BY <1>0, <1>8 DEF WriteResponse, Process
  <2> QED BY <2>3, <2>4 DEF Busy
<1> QED BY <1>6, <1>7, <1>8

\* A command touches no request that is taken.
LEMMA CommandSound ==
    ASSUME SpoolInv, NEW q \in Calls,
           Request(q) \/ Receive(q) \/ RequestExpires(q) \/ GiveUp(q) \/ CrashClient(q)
    PROVE  CallsSound' /\ RunnersSound'
<1>0. call \in [Calls -> Call] /\ call[q] \in Call /\ CallSound(call[q])
  BY DEF SpoolInv, SpoolTypeOK, CallsSound
<1>1. runner' = runner /\ \A x \in Calls \ {q} : call'[x] = call[x]
  BY <1>0 DEF Request, Receive, RequestExpires, GiveUp, CrashClient
<1>2. SUFFICES /\ CallSound(call'[q])
               /\ call[q].request = "taken" =>
                    /\ call'[q].request = "taken"
                    /\ call'[q].runs = call[q].runs /\ call'[q].admitted = call[q].admitted
  <2>1. CallsSound'
    BY <1>1, <1>2 DEF SpoolInv, CallsSound
  <2>2. RunnersSound'
    BY <1>1, <1>2 DEF SpoolInv, RunnersSound, HandSound
  <2> QED BY <2>1, <2>2
<1>3. CASE Request(q)
  <2>1. call'[q] = [call[q] EXCEPT !.client = "waiting", !.request = "spooled"]
    BY <1>0, <1>3 DEF Request
  <2> QED BY <1>0, <1>3, <2>1 DEF Request, CallSound, Call, Results
<1>4. CASE Receive(q)
  <2>1. call'[q] = [call[q] EXCEPT !.client = call[q].response, !.response = "none"]
    BY <1>0, <1>4 DEF Receive
  <2> QED BY <1>0, <1>4, <2>1 DEF Receive, CallSound, Agrees, Call, Results
<1>5. CASE RequestExpires(q)
  <2>1. call'[q] = [call[q] EXCEPT !.late = TRUE]
    BY <1>0, <1>5 DEF RequestExpires
  <2> QED BY <1>0, <2>1 DEF CallSound, Call
<1>6. CASE GiveUp(q)
  <2>1. call'[q] = [call[q] EXCEPT !.client = "gave up",
                        !.request = IF @ = "spooled" THEN "none" ELSE @]
    BY <1>0, <1>6 DEF GiveUp
  <2>2. call[q].client = "waiting"
    BY <1>6 DEF GiveUp
  <2> QED BY <1>0, <2>1, <2>2 DEF CallSound, Call, Results
<1>7. CASE CrashClient(q)
  <2>1. call'[q] = [call[q] EXCEPT !.client = "dead"] /\ call[q].client = "waiting"
    BY <1>0, <1>7 DEF CrashClient
  <2> QED BY <1>0, <2>1 DEF CallSound, Call, Results
<1> QED BY <1>3, <1>4, <1>5, <1>6, <1>7

LEMMA LateKept == SpoolTypeOK /\ GivenUpIsLate /\ [SpoolNext]_spoolVars => GivenUpIsLate'
<1> SUFFICES ASSUME SpoolTypeOK, GivenUpIsLate, [SpoolNext]_spoolVars,
                    NEW q \in Calls, call'[q].client = "gave up"
             PROVE  call'[q].late
  BY DEF GivenUpIsLate
<1>0. call \in [Calls -> Call] /\ call[q] \in Call
  BY DEF SpoolTypeOK
<1>1. CASE call'[q].client = call[q].client /\ (call[q].late => call'[q].late)
  BY <1>1 DEF GivenUpIsLate
<1> DEFINE Kept == call'[q].client = call[q].client /\ (call[q].late => call'[q].late)
<1>2. ASSUME NEW r \in Runner, Start(r) \/ Acquire(r) \/ List(r) \/ Signal(r) \/ CrashRunner(r)
      PROVE  Kept
  BY <1>2 DEF Start, Acquire, Create, Write, Look, Unlink, Identity, List, Signal, CrashRunner
<1>3. ASSUME NEW r \in Runner, Take(r) PROVE Kept
  <2>1. CASE call' = call
    BY <2>1
  <2>2. ASSUME NEW x, call' = [call EXCEPT ![x].request = MovedAway]
        PROVE  Kept
    BY <1>0, <2>2 DEF Call
  <2> QED BY <1>3, <2>1, <2>2 DEF Take
<1>4. ASSUME NEW r \in Runner, Admit(r) PROVE Kept
  <2>1. CASE call' = call
    BY <2>1
  <2>2. ASSUME NEW x, call' = [call EXCEPT ![x].admitted = TRUE]
        PROVE  Kept
    BY <1>0, <2>2 DEF Call
  <2> QED BY <1>4, <2>1, <2>2 DEF Admit
<1>5. ASSUME NEW r \in Runner, Execute(r) PROVE Kept
  BY <1>0, <1>5 DEF Execute, Call
<1>6. ASSUME NEW r \in Runner, WriteResponse(r) PROVE Kept
  BY <1>0, <1>6 DEF WriteResponse, Call
<1>7. ASSUME NEW x \in Calls, Request(x) PROVE Kept
  BY <1>0, <1>7 DEF Request, Call
<1>8. ASSUME NEW x \in Calls, RequestExpires(x) PROVE Kept
  BY <1>0, <1>8 DEF RequestExpires, Call
<1>9. ASSUME NEW x \in Calls, CrashClient(x) PROVE Kept
  BY <1>0, <1>9 DEF CrashClient, Call
<1>10. ASSUME NEW x \in Calls, Receive(x) PROVE Kept
  BY <1>0, <1>10 DEF Receive, Call, Results
<1>11. ASSUME NEW x \in Calls, GiveUp(x) PROVE call'[q].late
  <2>1. CASE x = q
    BY <1>0, <1>11, <2>1 DEF GiveUp, Call
  <2>2. CASE x # q
    BY <1>0, <1>1, <1>11, <2>2 DEF GiveUp
  <2> QED BY <2>1, <2>2
<1>12. CASE SpoolNext
  BY <1>1, <1>2, <1>3, <1>4, <1>5, <1>6, <1>7, <1>8, <1>9, <1>10, <1>11, <1>12 DEF SpoolNext, Serve
<1> QED BY <1>1, <1>12 DEF spoolVars

LEMMA SpoolInvStep == SpoolInv /\ [SpoolNext]_spoolVars => SpoolInv'
<1> SUFFICES ASSUME SpoolInv, [SpoolNext]_spoolVars PROVE SpoolInv'
  OBVIOUS
<1>1. SpoolTypeOK'
  BY NextType DEF SpoolInv
<1>2. CASE SpoolNext
  <2>1. CallsSound' /\ RunnersSound'
    BY <1>2, IdleSound, TakeSound, HandStep, CommandSound DEF SpoolNext, Serve
  <2> QED BY <1>1, <2>1, LateKept DEF SpoolInv
<1>3. CASE UNCHANGED spoolVars
  BY <1>1, <1>3, LateKept DEF SpoolInv, CallsSound, RunnersSound, spoolVars
<1> QED BY <1>2, <1>3

THEOREM Invariant == SpoolSpec => []SpoolInv
<1>1. SpoolInit => SpoolInv
  <2>1. SpoolInit => GivenUpIsLate
    <3> SUFFICES ASSUME SpoolInit, NEW q \in Calls PROVE call[q].client = "new"
      BY DEF GivenUpIsLate
    <3> QED BY DEF SpoolInit
  <2> QED BY <2>1, InitType, InitSound DEF SpoolInv
<1> QED BY <1>1, SpoolInvStep, PTL DEF SpoolSpec

-----------------------------------------------------------------------------
\* The pid files, Runners and calls keep their types (runner_ipc.py).
THEOREM SpoolTypeCorrect == SpoolSpec => []SpoolTypeOK
<1>1. SpoolInv => SpoolTypeOK
  BY DEF SpoolInv
<1> QED BY <1>1, Invariant, PTL

\* A request is executed at most once and answered as it was, with any number of
\* Runners that start, stop and die, even beside each other (serve_once, _request).
THEOREM AnsweredTruthfully == SpoolSpec => []ExecutedAsAnswered
<1>1. SpoolInv => ExecutedAsAnswered
  <2> SUFFICES ASSUME SpoolInv, NEW q \in Calls
               PROVE  /\ call[q].runs <= 1
                      /\ call[q].client = "ok" => call[q].runs = 1
                      /\ call[q].client = "refused" => call[q].runs = 0
    BY DEF ExecutedAsAnswered
  <2>1. CallSound(call[q])
    BY DEF SpoolInv, CallsSound
  <2>2. call[q].runs \in 0..1 /\ (call[q].client \in Results => Agrees(call[q].client, call[q].runs))
    BY <2>1 DEF CallSound
  <2>3. {"ok", "refused"} \subseteq Results
    BY DEF Results
  <2> QED BY <2>2, <2>3 DEF Agrees
<1> QED BY <1>1, Invariant, PTL

\* What was given up before it was admitted stays undone: the expiry that made the
\* command give up is one the Runner looks at (serve_once, expires_at).
THEOREM GivenUpNeverRun == SpoolSpec => GivenUpStaysUndone
<1> DEFINE Stays == \A q \in Calls : call[q].client = "gave up" /\ ~call[q].admitted =>
                       call'[q].runs = call[q].runs /\ ~call'[q].admitted
<1>1. ASSUME SpoolInv, [SpoolNext]_spoolVars PROVE [Stays]_spoolVars
  <2> SUFFICES ASSUME SpoolNext, NEW q \in Calls, call[q].client = "gave up", ~call[q].admitted
               PROVE  call'[q].runs = call[q].runs /\ ~call'[q].admitted
    BY <1>1
  <2>0. call \in [Calls -> Call] /\ call[q] \in Call /\ call[q].late
    BY <1>1 DEF SpoolInv, SpoolTypeOK, GivenUpIsLate
  <2>1. CASE call'[q].runs = call[q].runs /\ call'[q].admitted = call[q].admitted
    BY <2>1
  <2>2. ASSUME NEW r \in Runner, Start(r) \/ Acquire(r) \/ Signal(r) \/ CrashRunner(r)
        PROVE  call' = call
    BY <2>2 DEF Start, Acquire, Create, Write, Look, Unlink, Identity, Signal, CrashRunner
  <2>3. ASSUME NEW r \in Runner, List(r) \/ Take(r) \/ WriteResponse(r)
        PROVE  call'[q].runs = call[q].runs /\ call'[q].admitted = call[q].admitted
    <3>1. CASE List(r)
      BY <2>0, <3>1 DEF List
    <3>2. CASE Take(r)
      <4>1. CASE call' = call
        BY <4>1
      <4>2. ASSUME NEW x, call' = [call EXCEPT ![x].request = MovedAway]
            PROVE  call'[q].runs = call[q].runs /\ call'[q].admitted = call[q].admitted
        BY <2>0, <4>2 DEF Call
      <4> QED BY <3>2, <4>1, <4>2 DEF Take
    <3>3. CASE WriteResponse(r)
      BY <2>0, <3>3 DEF WriteResponse, Call
    <3> QED BY <2>3, <3>1, <3>2, <3>3
  <2>4. ASSUME NEW r \in Runner, Admit(r)
        PROVE  call'[q].runs = call[q].runs /\ call'[q].admitted = call[q].admitted
    BY <2>0, <2>4 DEF Admit, InTime
  <2>5. ASSUME NEW r \in Runner, Execute(r)
        PROVE  call'[q].runs = call[q].runs /\ call'[q].admitted = call[q].admitted
    <3>1. runner[r].pc = "execute"
      BY <2>5 DEF Execute, Is
    <3>2. call[runner[r].now].admitted
      BY <1>1, <3>1 DEF SpoolInv, RunnersSound, Busy, HandSound
    <3> QED BY <2>0, <2>5, <3>2 DEF Execute
  <2>6. ASSUME NEW x \in Calls,
               Request(x) \/ Receive(x) \/ RequestExpires(x) \/ GiveUp(x) \/ CrashClient(x)
        PROVE  call'[q].runs = call[q].runs /\ call'[q].admitted = call[q].admitted
    BY <2>0, <2>6 DEF Request, Receive, RequestExpires, GiveUp, CrashClient, Call
  <2> QED BY <2>1, <2>2, <2>3, <2>4, <2>5, <2>6 DEF SpoolNext, Serve
<1> QED BY <1>1, Invariant, PTL DEF SpoolSpec, GivenUpStaysUndone

=============================================================================
