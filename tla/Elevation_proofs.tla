-------------------------- MODULE Elevation_proofs --------------------------
(***************************************************************************)
(* Proofs about Elevation, for any number of workers, answers, requeues    *)
(* and deaths.                                                             *)
(*                                                                         *)
(* A grant is a state of the elevation, an answer one of the input, and    *)
(* they are written and read by different processes.  Two facts tie them:  *)
(* every handler keeps a record in which grant and answer agree (Sound),   *)
(* and an answer that was given is never changed (Kept), so that what is   *)
(* on its way in Runner, in the control plane or in an executor does not   *)
(* become stale.                                                           *)
(***************************************************************************)
EXTENDS Elevation, TLAPS

\* Grant and answer agree in the record.
Sound(t) ==
    /\ t \in Task
    /\ t.elev = "none" => t.input = "none"
    /\ Granted(t) => t.input = "approve"
    /\ t.input = "approve" => Granted(t) \/ t.elev = "blocked"

\* A handler makes u of t: an answer stands, a request is made only once, and
\* the notice of it is not forgotten.
Kept(t, u) ==
    /\ t.input \in Say => u.input = t.input
    /\ t.elev # "none" => u.elev # "none" /\ (t.notified => u.notified)

-----------------------------------------------------------------------------
LEMMA RunFacts == NoRun \in RunOrNone /\ Run \subseteq RunOrNone /\ NoRun \notin Run
BY ElevationAssumption DEF NoRun, RunOrNone, Run

\* The handlers that end a run or give it up keep a record sound, whatever
\* the state of its request.
LEMMA RecoverSound ==
    ASSUME NEW t \in Task, Sound(t)
    PROVE  Sound(Recover(t)) /\ Kept(t, Recover(t))
BY DEF Sound, Kept, Recover, Granted, Ended, Say, Task

LEMMA FailSound ==
    ASSUME NEW t \in Task, Sound(t)
    PROVE  Sound(Fail(t)) /\ Kept(t, Fail(t))
BY DEF Sound, Kept, Fail, Granted, Say, Task

LEMMA UnreferencedSound ==
    ASSUME NEW t \in Task, Sound(t)
    PROVE  Sound(Unreferenced(t)) /\ Kept(t, Unreferenced(t))
BY RunFacts DEF Sound, Kept, Unreferenced, Granted, Say, Task

\* _reconcile_worker_exit does one after the other.
LEMMA RecoverUnreferencedSound ==
    ASSUME NEW t \in Task, Sound(t)
    PROVE  Sound(Unreferenced(Recover(t))) /\ Kept(t, Unreferenced(Recover(t)))
<1>1. Recover(t) \in Task /\ Sound(Recover(t)) /\ Kept(t, Recover(t))
  BY RecoverSound DEF Sound
<1>2. /\ Sound(Unreferenced(Recover(t)))
      /\ Kept(Recover(t), Unreferenced(Recover(t)))
  BY <1>1, UnreferencedSound
<1> QED BY <1>1, <1>2 DEF Kept

\* Status and pointers are not part of the agreement.
LEMMA StatusSound ==
    ASSUME NEW t \in Task, Sound(t),
           NEW status \in {"pending", "running", "completed", "failed"},
           NEW r \in RunOrNone
    PROVE  /\ Sound([t EXCEPT !.status = status])
           /\ Kept(t, [t EXCEPT !.status = status])
           /\ Sound([t EXCEPT !.worker = r]) /\ Kept(t, [t EXCEPT !.worker = r])
           /\ Sound([t EXCEPT !.executor = r]) /\ Kept(t, [t EXCEPT !.executor = r])
BY DEF Sound, Kept, Granted, Say, Task

-----------------------------------------------------------------------------
\* The rest of the state keeps its types.
ActorsTyped ==
    /\ live \in BOOLEAN /\ late \in BOOLEAN
    /\ lease \in Lease /\ plane \in Plane
    /\ proc \in [Run -> Proc]
    /\ runner \in [pc : {"idle", "publish", "spawn", "accept", "tell", "commit"},
                   say : Say \cup {"none"}]
    /\ launched \in RunOrNone
    /\ runner.pc \in {"publish", "spawn"} => launched < MaxRuns
    /\ dialogs \in Nat /\ answers \in Nat /\ requeues \in Nat /\ crashes \in Nat

\* An answer on its way says what the record says.
AnswerOnItsWay ==
    /\ runner.pc \in {"tell", "commit"} => runner.say \in Say /\ runner.say = task.input
    /\ plane.answer = "accept" => task.input = "approve"
    /\ plane.answer = "decline" => task.input = "deny"
    /\ \A r \in Run : proc[r].mode = "full" => task.input = "approve"

\* A dialog was shown only for the request on record, which knows of it.
DialogKnown ==
    /\ dialogs <= 1
    /\ dialogs = 1 => task.notified
    /\ task.elev = "none" => dialogs = 0

IInv == Sound(task) /\ ActorsTyped /\ AnswerOnItsWay /\ DialogKnown

LEMMA InitIInv == Init => IInv
<1> SUFFICES ASSUME Init
             PROVE  IInv
  OBVIOUS
<1> USE ElevationAssumption, RunFacts DEF Init
<1>1. Sound(task)
  BY DEF Sound, Granted, Task
<1>2. plane \in Plane /\ lease \in Lease
  BY DEF Plane, Lease
<1>3. proc \in [Run -> Proc]
  BY DEF Proc, Modes
<1>4. ActorsTyped
  BY <1>2, <1>3 DEF ActorsTyped, RunOrNone, Run, NoRun
<1>5. AnswerOnItsWay /\ DialogKnown
  BY DEF AnswerOnItsWay, DialogKnown
<1> QED BY <1>1, <1>4, <1>5 DEF IInv

-----------------------------------------------------------------------------
\* Runner's writes before a worker runs: pointers, a status, a recovery.
LEMMA DispatchKept ==
    ASSUME IInv, Dispatch \/ Publish \/ Spawn \/ Accept
    PROVE  Sound(task') /\ Kept(task, task')
<1> USE DEF IInv
<1>0. task \in Task /\ Kept(task, task)
  BY DEF Sound, Kept
<1>1. CASE Dispatch
  BY <1>0, <1>1, RunFacts, StatusSound DEF Dispatch
<1>2. CASE Publish
  <2>1. launched + 1 \in RunOrNone
    BY <1>2, ElevationAssumption DEF Publish, ActorsTyped, RunOrNone
  <2> QED BY <1>0, <1>2, <2>1, StatusSound DEF Publish
<1>3. CASE Spawn
  BY <1>0, <1>3, RecoverSound, RecoverUnreferencedSound DEF Spawn
<1>4. CASE Accept
  BY <1>0, <1>4, StatusSound DEF Accept, ActorsTyped
<1> QED BY <1>1, <1>2, <1>3, <1>4

\* A worker's writes, but for its request.
LEMMA WorkKept ==
    ASSUME IInv, NEW r \in Run, Work(r)
    PROVE  Sound(task') /\ Kept(task, task')
<1> USE RunFacts DEF IInv
<1>0. task \in Task /\ Kept(task, task)
  BY DEF Sound, Kept
<1>1. CASE Start(r)
  BY <1>0, <1>1, StatusSound DEF Start
<1>2. CASE Activate(r)
  BY <1>0, <1>2 DEF Activate, Sound, Kept, Granted, Say, Task
<1>3. CASE Register(r)
  BY <1>0, <1>3, StatusSound DEF Register
<1>4. CASE Launch(r)
  BY <1>0, <1>4, RecoverSound DEF Launch
<1>5. CASE Suspend(r) \/ CloseDialog(r)
  BY <1>0, <1>5 DEF Suspend, CloseDialog
<1>6. CASE Notify(r)
  BY <1>0, <1>6 DEF Notify, Sound, Kept, Granted, Say, Task
<1>7. CASE Clear(r)
  BY <1>0, <1>7, UnreferencedSound DEF Clear
<1>8. CASE PollRecovery(r)
  BY <1>0, <1>8, RecoverSound DEF PollRecovery
<1>9. CASE Finalize(r)
  BY <1>0, <1>9, StatusSound DEF Finalize, Ended
<1>10. CASE Verify(r)
  <2>1. CASE task.elev = "active" /\ task.bound = r
    BY <1>0, <1>10, <2>1 DEF Verify, Sound, Kept, Granted, Say, Task
  <2>2. CASE ~(task.elev = "active" /\ task.bound = r)
    BY <1>0, <1>10, <2>2, FailSound DEF Verify
  <2> QED BY <2>1, <2>2
<1> QED BY <1>1, <1>2, <1>3, <1>4, <1>5, <1>6, <1>7, <1>8, <1>9, <1>10 DEF Work

\* A request is the first of its task, or is refused.
LEMMA BlockKept ==
    ASSUME IInv, NEW r \in Run, Block(r)
    PROVE  Sound(task') /\ Kept(task, task')
<1> USE DEF IInv
<1>0. task \in Task
  BY DEF Sound
<1>1. CASE MayAsk(task) /\ task.input # "waiting"
  <2>1. task' = Waiting(task, r)
    BY <1>1 DEF Block
  <2> QED BY <1>0, <1>1, <2>1, RunFacts DEF MayAsk, Waiting, Sound, Kept, Granted, Say, Task
<1>2. CASE ~(MayAsk(task) /\ task.input # "waiting")
  <2> DEFINE refused == [task EXCEPT !.elev =
                            IF @ \in {"approved", "active"} THEN "blocked" ELSE @]
  <2>1. refused \in Task /\ Sound(refused) /\ Kept(task, refused)
    BY <1>0 DEF Sound, Kept, Granted, Say, Task
  <2>2. task' = Recover(refused)
    BY <1>2 DEF Block
  <2> HIDE DEF refused
  <2> QED BY <2>1, <2>2, RecoverSound DEF Kept
<1> QED BY <1>1, <1>2

\* What Runner makes of answers, deadlines, and runs that are gone.
LEMMA RunnerKept ==
    ASSUME IInv,
           \/ \E r \in Run : Reap(r)
           \/ \E say \in Say : AnswerEnded(say) \/ AnswerLive(say)
           \/ Tell \/ Commit \/ Expire \/ Reconcile \/ Elapse
    PROVE  Sound(task') /\ Kept(task, task')
<1> USE DEF IInv
<1>0. task \in Task /\ Kept(task, task)
  BY DEF Sound, Kept
<1>1. ASSUME NEW r \in Run, Reap(r)
      PROVE  Sound(task') /\ Kept(task, task')
  BY <1>0, <1>1, UnreferencedSound, RecoverUnreferencedSound DEF Reap
<1>2. ASSUME NEW say \in Say, AnswerEnded(say)
      PROVE  Sound(task') /\ Kept(task, task')
  BY <1>0, <1>2 DEF AnswerEnded, Fail, Sound, Kept, Granted, Say, Task
<1>3. ASSUME NEW say \in Say, AnswerLive(say)
      PROVE  Sound(task') /\ Kept(task, task')
  BY <1>0, <1>3 DEF AnswerLive, Decided, Sound, Kept, Granted, Say, Task
<1>4. CASE Tell
  BY <1>0, <1>4, RecoverSound DEF Tell
<1>5. CASE Commit \/ Elapse
  BY <1>0, <1>5 DEF Commit, Elapse
<1>6. CASE Expire
  BY <1>0, <1>6 DEF Expire, Expirable, Fail, Sound, Kept, Granted, Say, Task
<1>7. CASE Reconcile
  BY <1>0, <1>7, RecoverUnreferencedSound DEF Reconcile
<1> QED BY <1>1, <1>2, <1>3, <1>4, <1>5, <1>6, <1>7

\* Every step keeps the record sound, the answer and the notice.
LEMMA NextKept ==
    ASSUME IInv, [Next]_vars
    PROVE  Sound(task') /\ Kept(task, task')
<1>0. Sound(task) /\ Kept(task, task)
  BY DEF IInv, Kept
<1>1. ASSUME NEW r \in Run, Native(r) \/ Transport(r) \/ Crash(r)
      PROVE  task' = task
  BY <1>1 DEF Native, Ask, Return, Transport, Take, Overdue, Lapse, Lose, Crash
<1>2. CASE UNCHANGED vars
  BY <1>0, <1>2 DEF vars
<1> QED BY <1>0, <1>1, <1>2, DispatchKept, WorkKept, BlockKept, RunnerKept DEF Next, Handle

-----------------------------------------------------------------------------
\* What the handlers make of a lease and of the control state is one again.
LEMMA LeaseTyped ==
    ASSUME NEW l \in Lease, NEW t
    PROVE  Closed(l) \in Lease /\ RecoverLease(t, l) \in Lease /\ FailLease(t, l) \in Lease
BY DEF Closed, RecoverLease, FailLease, Unsuspended, Lease

LEMMA PlaneTyped ==
    ASSUME NEW p \in Plane
    PROVE  /\ Dead(p) \in Plane /\ Dead(p).answer = p.answer
           /\ Invalidated(p) \in Plane /\ Invalidated(p).answer = p.answer
BY DEF Dead, Invalidated, Plane

\* A worker goes on, or exits: the others stay where they are, and nobody gains
\* permissions.
Moved == /\ proc' \in [Run -> Proc]
         /\ \A r \in Run : proc'[r].mode = "full" => proc[r].mode = "full"

LEMMA GotoMoves ==
    ASSUME proc \in [Run -> Proc], NEW r \in Run,
           NEW pc \in Alive \cup {"none", "gone", "reaped"}, Goto(r, pc)
    PROVE  Moved
BY DEF Goto, Moved, Proc

LEMMA ExitMoves ==
    ASSUME proc \in [Run -> Proc], NEW r \in Run, Exit(r)
    PROVE  Moved
BY DEF Exit, Gone, Moved, Proc, Modes

\* The steps of a worker that start no executor.
LEMMA WorkMoves ==
    ASSUME IInv, NEW r \in Run,
           \/ Start(r) \/ Activate(r) \/ Register(r) \/ Suspend(r) \/ Notify(r)
           \/ CloseDialog(r) \/ Clear(r) \/ PollRecovery(r) \/ Finalize(r)
           \/ Verify(r) \/ Block(r) \/ Return(r) \/ Reap(r) \/ Crash(r)
    PROVE  Moved
<1>1. proc \in [Run -> Proc]
  BY DEF IInv, ActorsTyped
<1> SUFFICES \/ Exit(r)
             \/ \E pc \in Alive \cup {"none", "gone", "reaped"} : Goto(r, pc)
  BY <1>1, GotoMoves, ExitMoves
<1>2. CASE Register(r)
  BY <1>2 DEF Register, Alive
<1>3. CASE Block(r)
  BY <1>3 DEF Block, Alive
<1>4. CASE Notify(r) \/ CloseDialog(r) \/ Suspend(r) \/ Clear(r)
  BY <1>4 DEF Notify, CloseDialog, Suspend, Clear, Alive
<1>5. CASE Start(r) \/ Activate(r) \/ PollRecovery(r) \/ Finalize(r) \/ Verify(r)
  BY <1>5 DEF Start, Activate, PollRecovery, Finalize, Verify, Alive
<1>6. CASE Return(r) \/ Reap(r) \/ Crash(r)
  BY <1>6 DEF Return, Reap, Crash, Alive
<1> QED BY <1>2, <1>3, <1>4, <1>5, <1>6

-----------------------------------------------------------------------------
\* The steps of a worker, of its SDK thread and of the thread that reaps it.
RunStep(r) == Work(r) \/ Native(r) \/ Block(r) \/ Transport(r) \/ Crash(r) \/ Reap(r)

\* An executor with full permission had it before, was launched for a task
\* whose record grants it, or took the plane's acceptance.
LEMMA RunProcs ==
    ASSUME IInv, NEW r \in Run, RunStep(r)
    PROVE  /\ proc' \in [Run -> Proc]
           /\ \A q \in Run : proc'[q].mode = "full" =>
                  proc[q].mode = "full" \/ Granted(task) \/ plane.answer = "accept"
<1>0. proc \in [Run -> Proc]
  BY DEF IInv, ActorsTyped
<1>1. CASE Launch(r)
  BY <1>0, <1>1 DEF Launch, Authorized, Exit, Gone, Proc, Modes, Alive
<1>2. CASE Take(r)
  BY <1>0, <1>2 DEF Take, Proc, Modes, Alive
<1>3. CASE Ask(r) \/ Overdue(r) \/ Lapse(r) \/ Lose(r)
  BY <1>0, <1>3 DEF Ask, Overdue, Lapse, Lose, Proc, Modes, Alive
<1>4. CASE ~(Launch(r) \/ Take(r) \/ Ask(r) \/ Overdue(r) \/ Lapse(r) \/ Lose(r))
  BY <1>4, WorkMoves DEF Moved, RunStep, Work, Native, Transport
<1> QED BY <1>1, <1>2, <1>3, <1>4

\* No worker serves requests.
LEMMA RunLeavesRunner ==
    ASSUME NEW r \in Run, RunStep(r)
    PROVE  UNCHANGED <<live, runner, launched, answers, requeues>>
<1>1. CASE Work(r)
  BY <1>1 DEF Work, Start, Activate, Register, Launch, Suspend, Notify, CloseDialog,
              Clear, PollRecovery, Finalize, Verify, bounds
<1>2. CASE Native(r) \/ Transport(r)
  BY <1>2 DEF Native, Transport, Ask, Return, Take, Overdue, Lapse, Lose, bounds
<1>3. CASE Block(r) \/ Crash(r) \/ Reap(r)
  BY <1>3 DEF Block, Crash, Reap, bounds
<1> QED BY <1>1, <1>2, <1>3 DEF RunStep

\* Only the SDK's request changes the plane's answer, by erasing it.
LEMMA RunPlane ==
    ASSUME IInv, NEW r \in Run, RunStep(r)
    PROVE  /\ plane' \in Plane /\ lease' \in Lease /\ late' \in BOOLEAN
           /\ plane'.answer \in {"none", plane.answer}
<1>0. plane \in Plane /\ lease \in Lease /\ late \in BOOLEAN
  BY DEF IInv, ActorsTyped
<1> USE RunFacts, LeaseTyped, PlaneTyped
<1>1. CASE Work(r)
  <2>1. plane' = plane /\ late' = late
    BY <1>1 DEF Work, Start, Activate, Register, Launch, Suspend, Notify, CloseDialog,
                Clear, PollRecovery, Finalize, Verify
  <2>2. CASE Launch(r) \/ Suspend(r)
    <3>1. /\ [state |-> "active", run |-> r] \in Lease
          /\ [state |-> "suspended", run |-> r] \in Lease
      BY DEF Lease
    <3> QED BY <1>0, <2>1, <2>2, <3>1 DEF Launch, Suspend
  <2>3. CASE PollRecovery(r)
    BY <1>0, <2>1, <2>3 DEF PollRecovery
  <2>4. CASE ~(Launch(r) \/ Suspend(r) \/ PollRecovery(r))
    BY <1>0, <1>1, <2>1, <2>4 DEF Work, Start, Activate, Register, Notify, CloseDialog,
                                  Clear, Finalize, Verify
  <2> QED BY <2>2, <2>3, <2>4
<1>2. CASE Ask(r)
  BY <1>0, <1>2 DEF Ask, Plane
<1>3. CASE Return(r) \/ Take(r) \/ Overdue(r) \/ Crash(r)
  BY <1>0, <1>3 DEF Return, Take, Overdue, Crash
<1>4. CASE Lapse(r)
  <2>1. /\ [Dead(plane) EXCEPT !.pending = "expired"] \in Plane
        /\ [Dead(plane) EXCEPT !.pending = "expired"].answer = plane.answer
    BY <1>0 DEF Dead, Plane
  <2> QED BY <1>0, <1>4, <2>1 DEF Lapse
<1>5. CASE Lose(r)
  BY <1>0, <1>5 DEF Lose
<1>6. CASE Block(r)
  BY <1>0, <1>6 DEF Block
<1>7. CASE Reap(r)
  BY <1>0, <1>7 DEF Reap
<1> QED BY <1>1, <1>2, <1>3, <1>4, <1>5, <1>6, <1>7 DEF RunStep, Native, Transport

LEMMA RunCounters ==
    ASSUME IInv, NEW r \in Run, RunStep(r)
    PROVE  /\ crashes' \in Nat /\ dialogs' \in Nat
           /\ \/ dialogs' = dialogs
              \/ /\ task.elev # "none" /\ ~task.notified /\ task'.notified
                 /\ dialogs' = dialogs + 1
<1>0. crashes \in Nat /\ dialogs \in Nat /\ Sound(task) /\ task \in Task
  BY DEF IInv, ActorsTyped, Sound
<1>1. CASE Notify(r)
  BY <1>0, <1>1 DEF Notify, Sound, Task
<1>2. CASE Crash(r)
  BY <1>0, <1>2 DEF Crash
<1>3. CASE Work(r) /\ ~Notify(r)
  BY <1>0, <1>3 DEF Work, Start, Activate, Register, Launch, Suspend, CloseDialog,
              Clear, PollRecovery, Finalize, Verify, bounds
<1>4. CASE Native(r) \/ Transport(r)
  BY <1>0, <1>4 DEF Native, Transport, Ask, Return, Take, Overdue, Lapse, Lose, bounds
<1>5. CASE Block(r) \/ Reap(r)
  BY <1>0, <1>5 DEF Block, Reap, bounds
<1> QED BY <1>1, <1>2, <1>3, <1>4, <1>5 DEF RunStep

\* A step of a worker preserves the invariant: what it may rest on does not
\* change, because an answer that was given is kept.
LEMMA RunIInv ==
    ASSUME IInv, NEW r \in Run, RunStep(r)
    PROVE  IInv'
<1>0. Sound(task') /\ Kept(task, task')
  BY NextKept DEF RunStep, Next
<1>1. UNCHANGED <<live, runner, launched, answers, requeues>>
  BY RunLeavesRunner
<1>2. ActorsTyped'
  BY <1>1, RunProcs, RunPlane, RunCounters DEF IInv, ActorsTyped
<1>3. AnswerOnItsWay'
  <2>1. /\ Granted(task) => task.input = "approve"
        /\ \A say \in Say : task.input = say => task'.input = say
    BY <1>0 DEF IInv, Sound, Kept
  <2>2. "approve" \in Say /\ "deny" \in Say
    BY DEF Say
  <2> QED BY <1>1, <2>1, <2>2, RunProcs, RunPlane DEF IInv, AnswerOnItsWay
<1>4. DialogKnown'
  BY <1>0, RunCounters DEF IInv, DialogKnown, Kept, ActorsTyped
<1> QED BY <1>0, <1>2, <1>3, <1>4 DEF IInv

-----------------------------------------------------------------------------
\* A step of Runner.
RunnerStep ==
    \/ \E say \in Say : AnswerEnded(say) \/ AnswerLive(say)
    \/ Dispatch \/ Handle \/ Elapse \/ Expire \/ Reconcile

LEMMA RunnerProcs ==
    ASSUME IInv, RunnerStep
    PROVE  Moved
<1>0. proc \in [Run -> Proc]
  BY DEF IInv, ActorsTyped
<1>1. CASE Spawn
  BY <1>0, <1>1 DEF Spawn, Moved, Proc, Modes, Alive
<1>2. CASE RunnerStep /\ ~Spawn
  BY <1>0, <1>2 DEF RunnerStep, AnswerEnded, AnswerLive, Dispatch, Handle, Publish,
                    Accept, Tell, Commit, Elapse, Expire, Reconcile, Moved
<1> QED BY <1>1, <1>2

\* Runner keeps its types; a worker is spawned below the bound.
LEMMA RunnerTyped ==
    ASSUME IInv, RunnerStep
    PROVE  ActorsTyped'
<1> DEFINE Requests == [pc : {"idle", "publish", "spawn", "accept", "tell", "commit"},
                        say : Say \cup {"none"}]
<1>0. ActorsTyped /\ task \in Task
  BY DEF IInv, Sound
<1> USE LeaseTyped, PlaneTyped, ElevationAssumption
<1>1. proc' \in [Run -> Proc]
  BY RunnerProcs DEF Moved
<1>2. ASSUME NEW pc \in {"idle", "publish", "spawn", "accept", "tell", "commit"}
      PROVE  [runner EXCEPT !.pc = pc] \in Requests
                /\ [runner EXCEPT !.pc = pc].pc = pc
  BY <1>0 DEF ActorsTyped
<1>3. ASSUME NEW say \in Say, AnswerEnded(say)
      PROVE  ActorsTyped'
  BY <1>0, <1>1, <1>2, <1>3 DEF AnswerEnded, ActorsTyped, Serve
<1>4. ASSUME NEW say \in Say, AnswerLive(say)
      PROVE  ActorsTyped'
  <2>1. runner' \in Requests /\ runner'.pc = "tell"
    BY <1>4 DEF AnswerLive
  <2> QED BY <1>0, <1>1, <1>4, <2>1 DEF AnswerLive, ActorsTyped
<1>5. CASE Dispatch
  BY <1>0, <1>1, <1>2, <1>5 DEF Dispatch, ActorsTyped, Serve
<1>6. CASE Publish
  BY <1>0, <1>1, <1>2, <1>6 DEF Publish, ActorsTyped, Serve, bounds
<1>7. CASE Spawn
  <2>1. launched' \in RunOrNone
    BY <1>0, <1>7 DEF Spawn, ActorsTyped, RunOrNone
  <2>2. runner' \in Requests /\ runner'.pc \in {"accept", "idle"}
    BY <1>2, <1>7 DEF Spawn, Serve
  <2>3. lease' \in Lease
    BY <1>0, <1>7 DEF Spawn, ActorsTyped
  <2>4. UNCHANGED <<live, plane, late, dialogs, answers, requeues, crashes>>
    BY <1>7 DEF Spawn
  <2> QED BY <1>0, <1>1, <2>1, <2>2, <2>3, <2>4 DEF ActorsTyped
<1>8. CASE Accept
  BY <1>0, <1>1, <1>2, <1>8 DEF Accept, ActorsTyped, Serve, bounds
<1>9. CASE Tell
  <2>1. [pc |-> "idle", say |-> "none"] \in Requests
    OBVIOUS
  <2>2. runner' \in Requests /\ runner'.pc \in {"commit", "idle"}
    BY <1>2, <1>9, <2>1 DEF Tell, Serve
  <2>3. plane' \in Plane /\ lease' \in Lease
    BY <1>0, <1>9 DEF Tell, ActorsTyped
  <2> QED BY <1>0, <1>1, <1>9, <2>2, <2>3 DEF Tell, ActorsTyped, bounds
<1>10. CASE Commit
  <2>1. plane' \in Plane
    BY <1>0, <1>10 DEF Commit, ActorsTyped, Plane
  <2> QED BY <1>0, <1>1, <1>10, <2>1 DEF Commit, ActorsTyped, bounds
<1>11. CASE Elapse
  BY <1>0, <1>1, <1>11 DEF Elapse, ActorsTyped, bounds
<1>12. CASE Expire \/ Reconcile
  BY <1>0, <1>1, <1>12 DEF Expire, Reconcile, ActorsTyped, bounds
<1> QED BY <1>3, <1>4, <1>5, <1>6, <1>7, <1>8, <1>9, <1>10, <1>11, <1>12
        DEF RunnerStep, Handle

\* Runner tells the plane what is on record, and the plane accepts for nothing
\* else.
LEMMA RunnerAnswers ==
    ASSUME IInv, RunnerStep
    PROVE  AnswerOnItsWay'
<1>0. /\ Sound(task) /\ ActorsTyped /\ AnswerOnItsWay /\ plane \in Plane
      /\ \A say \in Say : task.input = say => task'.input = say
  BY NextKept DEF IInv, ActorsTyped, RunnerStep, Next, Kept
<1>1. \A r \in Run : proc'[r].mode = "full" => proc[r].mode = "full"
  BY RunnerProcs DEF Moved
<1>2. "approve" \in Say /\ "deny" \in Say
  BY DEF Say
<1> SUFFICES
      /\ runner'.pc \in {"tell", "commit"} =>
            runner'.say \in Say /\ runner'.say = task'.input
      /\ plane'.answer = "accept" => task'.input = "approve"
      /\ plane'.answer = "decline" => task'.input = "deny"
  BY <1>0, <1>1, <1>2 DEF AnswerOnItsWay
<1>3. ASSUME NEW say \in Say, AnswerLive(say)
      PROVE  runner'.say \in Say /\ runner'.say = task'.input /\ plane' = plane
  <2>1. plane' = plane
    BY <1>3 DEF AnswerLive
  <2>2. CASE task.input \in Say /\ runner' = [pc |-> "tell", say |-> task.input]
                                /\ UNCHANGED task
    BY <2>1, <2>2
  <2>3. CASE /\ runner' = [pc |-> "tell", say |-> say]
             /\ task' = [task EXCEPT !.status = "running", !.input = say,
                                     !.elev = Decided(say)]
    BY <1>0, <1>3, <2>1, <2>3 DEF Sound, Task
  <2> QED BY <1>3, <2>2, <2>3 DEF AnswerLive
<1>4. CASE Tell
  <2>1. plane'.answer = plane.answer
    BY <1>0, <1>4, PlaneTyped DEF Tell
  <2>2. runner'.pc = "commit" => runner'.say = runner.say /\ runner.pc = "tell"
    BY <1>0, <1>4 DEF Tell, Serve, ActorsTyped
  <2>3. runner'.pc # "tell"
    BY <1>0, <1>4 DEF Tell, Serve, ActorsTyped
  <2> QED BY <1>0, <1>2, <2>1, <2>2, <2>3 DEF AnswerOnItsWay
<1>5. CASE Commit
  <2>1. /\ plane'.answer = (IF runner.say = "approve" THEN "accept" ELSE "decline")
        /\ runner'.pc = "idle"
    BY <1>0, <1>5 DEF Commit, Plane
  <2>2. runner.say \in Say /\ runner.say = task.input
    BY <1>0, <1>5 DEF Commit, AnswerOnItsWay
  <2> QED BY <1>0, <2>1, <2>2 DEF Say
<1>6. ASSUME ~Tell, ~Commit, \A say \in Say : ~AnswerLive(say)
      PROVE  plane' = plane /\ (runner' = runner \/ runner'.pc \notin {"tell", "commit"})
  <2>1. ASSUME NEW say \in Say, AnswerEnded(say)
        PROVE  plane' = plane /\ (runner' = runner \/ runner'.pc = "publish")
    BY <1>0, <2>1 DEF AnswerEnded, Serve, ActorsTyped
  <2>2. CASE Dispatch \/ Publish \/ Spawn \/ Accept
    BY <1>0, <2>2 DEF Dispatch, Publish, Spawn, Accept, Serve, ActorsTyped
  <2>3. CASE Elapse \/ Expire \/ Reconcile
    BY <2>3 DEF Elapse, Expire, Reconcile
  <2> QED BY <1>6, <2>1, <2>2, <2>3 DEF RunnerStep, Handle
<1> QED BY <1>0, <1>2, <1>3, <1>4, <1>5, <1>6 DEF AnswerOnItsWay

LEMMA RunnerIInv ==
    ASSUME IInv, RunnerStep
    PROVE  IInv'
<1>1. Sound(task') /\ Kept(task, task')
  BY NextKept DEF RunnerStep, Next
<1>2. dialogs' = dialogs
  BY DEF RunnerStep, AnswerEnded, AnswerLive, Dispatch, Handle, Publish, Spawn, Accept,
         Tell, Commit, Elapse, Expire, Reconcile, bounds
<1>3. DialogKnown'
  BY <1>1, <1>2 DEF IInv, DialogKnown, Kept, ActorsTyped
<1> QED BY <1>1, <1>3, RunnerTyped, RunnerAnswers DEF IInv

LEMMA NextIInv == IInv /\ [Next]_vars => IInv'
<1> SUFFICES ASSUME IInv, [Next]_vars
             PROVE  IInv'
  OBVIOUS
<1>1. CASE UNCHANGED vars
  BY <1>1 DEF vars, bounds, IInv, Sound, ActorsTyped, AnswerOnItsWay, DialogKnown
<1>2. CASE \E r \in Run : RunStep(r)
  BY <1>2, RunIInv
<1>3. CASE RunnerStep
  BY <1>3, RunnerIInv
<1> QED BY <1>1, <1>2, <1>3 DEF Next, RunStep, RunnerStep

LEMMA AlwaysIInv == Spec => []IInv
BY InitIInv, NextIInv, PTL DEF Spec

-----------------------------------------------------------------------------
\* The records of the task, the lease, the control plane and the processes
\* are well formed whatever is dispatched, answered and killed.
THEOREM TypeCorrect == Spec => []TypeOK
<1>1. IInv => TypeOK
  BY DEF IInv, Sound, ActorsTyped, TypeOK
<1> QED BY <1>1, AlwaysIInv, PTL

\* An executor has full permission only for a task whose elevation was approved:
\* neither a second answer, a deadline that passes while the answer is on its
\* way, nor a later run of the task makes it one that was not
\* (respond_to_input, authorize_execution, wait_for_decision).
THEOREM FullPermissionIsApproved == Spec => []FullOnlyByApproval
<1>1. IInv => FullOnlyByApproval
  BY DEF IInv, AnswerOnItsWay, Sound, FullOnlyByApproval
<1> QED BY <1>1, AlwaysIInv, PTL

\* A task shows one elevation dialog, however often it is dispatched again
\* (block_task_for_approval, notify_input_required).
THEOREM OneDialogPerTask == Spec => []OneDialog
<1>1. IInv => OneDialog
  BY DEF IInv, DialogKnown, OneDialog
<1> QED BY <1>1, AlwaysIInv, PTL

-----------------------------------------------------------------------------
(***************************************************************************)
(* One executor at a time.  A task is worked on by the last worker that    *)
(* was dispatched (PointerIsLast), and by no other: who is spawned, claims *)
(* the task or runs an executor is alone (OneAtWork), because a dispatch   *)
(* needs a lease that nobody holds, and a worker holds it for as long as   *)
(* its executor runs.  What a dispatch cannot see is a worker that is      *)
(* spawned or claims the task: while a task has not asked, or was not      *)
(* requeued, the status of the task shows it (NoneOvertaken).  A late      *)
(* verification of an earlier run, or an answer that is sent again, breaks *)
(* that once the task was requeued, and OneAtWork with the next requeue:   *)
(* that is why RunningIsLeased is stated up to the first one.              *)
(*                                                                         *)
(* The other parts carry these: the first run (FirstRunAlone), the worker  *)
(* that asked (AskerKnown), the two flows (FlowKnown), and the live answer *)
(* on its way to that worker's request (AnswerForAsker), which is all that *)
(* AnswersAgree needs.                                                     *)
(***************************************************************************)

\* What Recover makes of a status, and the handlers of a lease.
Recovered(status) == IF status \in Ended THEN status ELSE "recovery"
GivenUp(l, m) == m = l \/ (l.state = "suspended" /\ m.state = "closed")

\* A worker that claimed its task, and one whose executor runs.
Claimed == {"started", "bound", "ready"}
Running == {"launched", "working", "watching", "blocked"}
           \cup (IF live THEN {"notify", "dialog"} ELSE {})
\* A worker whose executor has not asked.
Early == {"none", "spawned", "launched"} \cup Claimed
At(r, pcs) == proc[r].pc \in pcs
\* No other worker was dispatched after r, or is about to be.
Alone(r) == r = launched /\ runner.pc \notin {"publish", "spawn"}

\* The task points to the last worker that was dispatched, if to any.
PointerIsLast ==
    /\ task.worker \in {NoRun, IF runner.pc = "spawn" THEN launched + 1 ELSE launched}
    /\ \A r \in Run : r > launched => proc[r] = [pc |-> "none", mode |-> "none"]
    /\ runner.pc = "accept" => launched > 0

\* Two executors may meet at the second requeue of a task that asked.
Calm == task.elev = "none" \/ requeues <= 1
OneAtWork ==
    /\ \A r \in Run : At(r, {"spawned"} \cup Claimed \cup Running) => Alone(r)
    /\ \A r \in Run : At(r, Running) => lease = [state |-> "active", run |-> r]
    /\ \A r \in Run : At(r, Claimed) => lease.state # "active"
    /\ task.status \in {"pending", "resuming"} =>
          lease.state # "active" /\ \A r \in Run : ~At(r, Claimed)
    /\ task.status = "waiting" =>
          runner.pc # "spawn" /\ \A r \in Run : ~At(r, {"spawned"} \cup Claimed)

\* The status of the task shows where its worker is.
Orderly == task.elev = "none" \/ requeues = 0
NoneOvertaken ==
    /\ runner.pc = "spawn" => task.status \in {"pending", "resuming"}
    /\ \A r \in Run : At(r, {"spawned"}) => task.status \in {"pending", "resuming"}
    /\ \A r \in Run : At(r, Claimed) => task.status = "running"
    /\ \A r \in Run : At(r, {"returned"}) => Alone(r) /\ lease.state # "active"
    /\ task.elev = "none" =>
          \A r \in Run : At(r, Claimed \cup Running \cup {"returned"}) =>
                           task.status = "running"
    /\ ~live /\ task.status = "waiting" =>
          \A r \in Run : ~At(r, {"launched", "working", "watching", "returned"})

\* Before the first requeue a live task has one worker, and a run that is over
\* is verified while no other one works.
FirstRunAlone == requeues = 0 =>
    /\ live => launched <= 1 /\ (runner.pc \in {"publish", "spawn"} => launched = 0)
    /\ \A q \in Run : At(q, {"verify"}) =>
           /\ task.status \in Ended /\ Alone(q) /\ lease.state # "active"

\* The worker that asked is one of those that ran.
AskerKnown == task.elev # "none" =>
    /\ task.asker \in Run /\ task.asker <= launched
    /\ proc[task.asker].pc \notin Early
    /\ live => proc[task.asker].mode # "safe"

\* A worker goes through the states of its flow.
FlowKnown ==
    /\ live => \A r \in Run : ~At(r, {"blocked", "clear"})
    /\ ~live => \A r \in Run : ~At(r, {"watching"})
    /\ \A r \in Run : proc[r].mode \in {"asking", "overdue"} =>
          live /\ At(r, {"working", "notify", "dialog", "watching"})

\* What is on its way is the answer to the asker's request.
AnswerForAsker ==
    /\ runner.pc = "tell" => live /\ task.elev # "none"
    /\ runner.pc = "commit" =>
          plane.run = task.asker /\ plane.pending = "pending" /\ task.elev # "none"
    /\ plane.answer # "none" =>
          plane.run = task.asker /\ plane.pending = "responded"
          /\ task.elev # "none"
    /\ task.elev # "none" /\ plane.run = task.asker =>
          \A r \in Run : proc[r].mode \in {"asking", "overdue"} => r = task.asker

Serial == /\ PointerIsLast /\ (Calm => OneAtWork) /\ (Orderly => NoneOvertaken)
          /\ FirstRunAlone /\ AskerKnown /\ FlowKnown /\ AnswerForAsker

\* The types that the proofs below need.
Typed ==
    /\ task \in Task /\ proc \in [Run -> Proc] /\ lease \in Lease /\ plane \in Plane
    /\ live \in BOOLEAN /\ launched \in Nat /\ requeues \in Nat
    /\ runner \in [pc : {"idle", "publish", "spawn", "accept", "tell", "commit"},
                   say : Say \cup {"none"}]
    /\ Run \subseteq Nat \ {0} /\ NoRun = 0 /\ 1 \in Run
    /\ runner.pc \in {"publish", "spawn"} => launched + 1 \in Run

LEMMA Types == IInv => Typed
BY ElevationAssumption DEF IInv, Sound, ActorsTyped, Typed, RunOrNone, NoRun, Run

\* An answer needs a request.
LEMMA AskedIsAsked == IInv => (task.elev = "none" => task.input = "none")
BY DEF IInv, Sound

\* The fields of a record that a handler made.
LEMMA Handlers ==
    ASSUME NEW t \in Task, NEW l \in Lease
    PROVE  /\ Recover(t) \in Task /\ Recover(t).status = Recovered(t.status)
           /\ \A f \in {"elev", "asker", "worker"} : Recover(t)[f] = t[f]
           /\ Unreferenced(t).worker = NoRun
           /\ \A f \in {"status", "elev", "asker"} : Unreferenced(t)[f] = t[f]
           /\ Fail(t).status = "failed"
           /\ \A f \in {"elev", "asker", "worker"} : Fail(t)[f] = t[f]
           /\ GivenUp(l, RecoverLease(t, l)) /\ GivenUp(l, FailLease(t, l))
           /\ Closed(l).state \in {"none", "closed"}
              /\ (l.state # "none" => Closed(l).state = "closed")
BY DEF Recover, Recovered, Unreferenced, Fail, GivenUp, RecoverLease, FailLease, Unsuspended,
       Closed, Ended, Task, Lease

\* What most steps leave alone.
SameRequest == task'.elev = task.elev /\ task'.asker = task.asker
Left(r) == proc'[r].pc = "gone" /\ proc'[r].mode = "none"
Others(r) == \A q \in Run : q # r => proc'[q] = proc[q]
Quiet == UNCHANGED <<live, runner, launched, requeues>>

\* The asker is untouched by the step of any worker, itself included, that does
\* not go back.
LEMMA AskerStays ==
    ASSUME Typed, AskerKnown, task'.asker = task.asker,
           task'.elev = "none" <=> task.elev = "none", NEW r \in Run, Others(r), live' = live,
           launched' \in Nat, launched <= launched',
           task.elev # "none" /\ task.asker = r =>
              /\ proc[r].pc \notin Early => proc'[r].pc \notin Early
              /\ live /\ proc[r].mode # "safe" => proc'[r].mode # "safe"
    PROVE  AskerKnown'
<1> SUFFICES ASSUME task.elev # "none"
             PROVE  /\ task.asker \in Run /\ task.asker <= launched'
                    /\ proc'[task.asker].pc \notin Early
                    /\ live => proc'[task.asker].mode # "safe"
  BY DEF AskerKnown, SameRequest
<1>1. /\ task.asker \in Run /\ task.asker <= launched
      /\ proc[task.asker].pc \notin Early
         /\ (live => proc[task.asker].mode # "safe")
  BY DEF AskerKnown
<1>2. task.asker <= launched'
  BY <1>1 DEF Typed
<1>3. CASE task.asker = r
  BY <1>1, <1>2, <1>3
<1>4. CASE task.asker # r
  BY <1>1, <1>2, <1>4 DEF Others
<1> QED BY <1>3, <1>4

-----------------------------------------------------------------------------
\* One lemma per step: first what the step changes (<1>1), then each part of
\* the invariant from that.
USE DEF At, Alone, Claimed, Running, Early, Quiet, Others, SameRequest, Gone, Ended,
        Serial, Typed, Recovered, GivenUp, Left

\* A worker claims its task, or finds that it has been overtaken and exits.
LEMMA StartSerial ==
    ASSUME IInv, Serial, NEW r \in Run, Start(r)
    PROVE  Serial'
<1>0. Typed BY Types
<1>1. /\ proc' \in [Run -> Proc]
      /\ Quiet /\ Others(r) /\ UNCHANGED <<lease, plane>>
      /\ proc[r].pc = "spawned"
      /\ SameRequest /\ task'.worker = task.worker
      /\ \/ task.status \in {"pending", "resuming"} /\ task'.status = "running"
            /\ proc'[r].pc = "started" /\ proc'[r].mode = proc[r].mode
         \/ task'.status = task.status /\ Left(r)
  BY <1>0 DEF Start, Exit, Goto, Task, Proc, Alive, Modes, bounds
<1>2. PointerIsLast'
  BY <1>0, <1>1 DEF PointerIsLast
<1>3. (Calm => OneAtWork)'
  BY <1>0, <1>1 DEF Calm, OneAtWork
<1>4. (Orderly => NoneOvertaken)'
  BY <1>0, <1>1 DEF Calm, OneAtWork, Orderly, NoneOvertaken
<1>5. FirstRunAlone'
  BY <1>0, <1>1 DEF FirstRunAlone
<1>6. AskerKnown'
  BY <1>0, <1>1, AskerStays DEF AskerKnown, Early
<1>7. FlowKnown'
  BY <1>0, <1>1 DEF FlowKnown
<1>8. AnswerForAsker'
  BY <1>0, <1>1 DEF AnswerForAsker
<1> QED BY <1>2, <1>3, <1>4, <1>5, <1>6, <1>7, <1>8 DEF Serial

\* The elevation is bound by a worker that claimed its task.
LEMMA ActivateSerial ==
    ASSUME IInv, Serial, NEW r \in Run, Activate(r)
    PROVE  Serial'
<1>0. Typed BY Types
<1>1. /\ proc' \in [Run -> Proc]
      /\ Quiet /\ Others(r) /\ UNCHANGED <<lease, plane>>
      /\ proc[r].pc = "started" /\ proc'[r].pc = "bound"
         /\ proc'[r].mode = proc[r].mode
      /\ task.elev = "approved" /\ task'.elev = "active" /\ task'.asker = task.asker
      /\ task'.worker = task.worker /\ task'.status = task.status
  BY <1>0 DEF Activate, Goto, Task, Proc, Alive, Modes, bounds
<1>2. PointerIsLast'
  BY <1>0, <1>1 DEF PointerIsLast
<1>3. (Calm => OneAtWork)'
  BY <1>0, <1>1 DEF Calm, OneAtWork
<1>4. (Orderly => NoneOvertaken)'
  BY <1>0, <1>1 DEF Orderly, NoneOvertaken
<1>5. FirstRunAlone'
  BY <1>0, <1>1 DEF FirstRunAlone
<1>6. AskerKnown'
  BY <1>0, <1>1, AskerStays DEF AskerKnown, Early
<1>7. FlowKnown'
  BY <1>0, <1>1 DEF FlowKnown
<1>8. AnswerForAsker'
  BY <1>0, <1>1 DEF AnswerForAsker
<1> QED BY <1>2, <1>3, <1>4, <1>5, <1>6, <1>7, <1>8 DEF Serial

\* A run pointer: a step of its own worker, before or after its executor starts.
LEMMA RegisterSerial ==
    ASSUME IInv, Serial, NEW r \in Run, Register(r)
    PROVE  Serial'
<1>0. Typed BY Types
<1>1. /\ proc' \in [Run -> Proc]
      /\ Quiet /\ Others(r) /\ UNCHANGED <<lease, plane>>
      /\ \/ proc[r].pc = "bound" /\ proc'[r].pc = "ready"
         \/ proc[r].pc = "launched" /\ proc'[r].pc = "working"
      /\ proc'[r].mode = proc[r].mode
      /\ SameRequest /\ task'.worker = task.worker /\ task'.status = task.status
  BY <1>0 DEF Register, Goto, Task, Proc, Alive, Modes, bounds
<1>2. PointerIsLast'
  BY <1>0, <1>1 DEF PointerIsLast
<1>3. (Calm => OneAtWork)'
  BY <1>0, <1>1 DEF Calm, OneAtWork
<1>4. (Orderly => NoneOvertaken)'
  BY <1>0, <1>1 DEF Orderly, NoneOvertaken
<1>5. FirstRunAlone'
  BY <1>0, <1>1 DEF FirstRunAlone
<1>6. AskerKnown'
  BY <1>0, <1>1, AskerStays DEF AskerKnown, Early
<1>7. FlowKnown'
  BY <1>0, <1>1 DEF FlowKnown
<1>8. AnswerForAsker'
  BY <1>0, <1>1 DEF AnswerForAsker
<1> QED BY <1>2, <1>3, <1>4, <1>5, <1>6, <1>7, <1>8 DEF Serial

\* An executor starts, under a lease that no other executor holds.
LEMMA LaunchSerial ==
    ASSUME IInv, Serial, NEW r \in Run, Launch(r)
    PROVE  Serial'
<1>0. Typed BY Types
<1>1. /\ proc' \in [Run -> Proc]
      /\ Quiet /\ Others(r) /\ UNCHANGED plane
      /\ proc[r].pc \in {"started", "ready"} /\ runner.pc = "idle"
      /\ SameRequest /\ task'.worker = task.worker
      /\ \/ lease' = [state |-> "active", run |-> r]
            /\ proc'[r].pc \in {"launched", "working"}
               /\ proc'[r].mode \in {"full", "safe"} /\ task' = task
         \/ Left(r) /\ GivenUp(lease, lease')
            /\ task'.status \in {task.status, "recovery"}
  BY <1>0, Handlers DEF Launch, Startable, Free, Exit, Proc, Alive, Modes, Lease,
         bounds
<1>2. PointerIsLast'
  BY <1>0, <1>1 DEF PointerIsLast
<1>3. (Calm => OneAtWork)'
  BY <1>0, <1>1 DEF Calm, OneAtWork
<1>4. (Orderly => NoneOvertaken)'
  BY <1>0, <1>1 DEF Calm, OneAtWork, Orderly, NoneOvertaken
<1>5. FirstRunAlone'
  BY <1>0, <1>1 DEF Orderly, NoneOvertaken, FirstRunAlone
<1>6. AskerKnown'
  BY <1>0, <1>1, AskerStays DEF AskerKnown, Early
<1>7. FlowKnown'
  BY <1>0, <1>1 DEF FlowKnown
<1>8. AnswerForAsker'
  BY <1>0, <1>1 DEF AnswerForAsker
<1> QED BY <1>2, <1>3, <1>4, <1>5, <1>6, <1>7, <1>8 DEF Serial

\* The lease is given up by the worker that holds it and is blocked.
LEMMA SuspendSerial ==
    ASSUME IInv, Serial, NEW r \in Run, Suspend(r)
    PROVE  Serial'
<1>0. Typed BY Types
<1>1. /\ proc' \in [Run -> Proc]
      /\ Quiet /\ Others(r) /\ UNCHANGED <<task, plane>>
      /\ proc[r].pc = "blocked" /\ proc'[r].pc = "notify"
         /\ proc'[r].mode = proc[r].mode
      /\ lease'.state = "suspended"
  BY <1>0 DEF Suspend, Goto, Proc, Alive, Modes, Lease, bounds
<1>2. PointerIsLast'
  BY <1>0, <1>1 DEF PointerIsLast
<1>3. (Calm => OneAtWork)'
  BY <1>0, <1>1 DEF Calm, OneAtWork, FlowKnown
<1>4. (Orderly => NoneOvertaken)'
  BY <1>0, <1>1 DEF Orderly, NoneOvertaken
<1>5. FirstRunAlone'
  BY <1>0, <1>1 DEF FirstRunAlone
<1>6. AskerKnown'
  BY <1>0, <1>1, AskerStays DEF AskerKnown, Early
<1>7. FlowKnown'
  BY <1>0, <1>1 DEF FlowKnown
<1>8. AnswerForAsker'
  BY <1>0, <1>1 DEF AnswerForAsker
<1> QED BY <1>2, <1>3, <1>4, <1>5, <1>6, <1>7, <1>8 DEF Serial

\* The worker that asks shows its dialog, or dies of the error.
LEMMA NotifySerial ==
    ASSUME IInv, Serial, NEW r \in Run, Notify(r)
    PROVE  Serial'
<1>0. Typed BY Types
<1>1. /\ proc' \in [Run -> Proc]
      /\ Quiet /\ Others(r) /\ UNCHANGED <<lease, plane>>
      /\ proc[r].pc = "notify"
      /\ Left(r) \/ (proc'[r].pc = "dialog" /\ proc'[r].mode = proc[r].mode)
      /\ SameRequest /\ task'.worker = task.worker /\ task'.status = task.status
  BY <1>0 DEF Notify, Exit, Goto, Task, Proc, Alive, Modes
<1>2. PointerIsLast'
  BY <1>0, <1>1 DEF PointerIsLast
<1>3. (Calm => OneAtWork)'
  BY <1>0, <1>1 DEF Calm, OneAtWork
<1>4. (Orderly => NoneOvertaken)'
  BY <1>0, <1>1 DEF Orderly, NoneOvertaken
<1>5. FirstRunAlone'
  BY <1>0, <1>1 DEF FirstRunAlone
<1>6. AskerKnown'
  BY <1>0, <1>1, AskerStays DEF AskerKnown, Early
<1>7. FlowKnown'
  BY <1>0, <1>1 DEF FlowKnown
<1>8. AnswerForAsker'
  BY <1>0, <1>1 DEF AnswerForAsker
<1> QED BY <1>2, <1>3, <1>4, <1>5, <1>6, <1>7, <1>8 DEF Serial

\* The dialog ends: the live worker watches its executor, the ended one leaves.
LEMMA CloseDialogSerial ==
    ASSUME IInv, Serial, NEW r \in Run, CloseDialog(r)
    PROVE  Serial'
<1>0. Typed BY Types
<1>1. /\ proc' \in [Run -> Proc]
      /\ Quiet /\ Others(r) /\ UNCHANGED <<task, lease, plane>>
      /\ proc[r].pc = "dialog" /\ proc'[r].mode = proc[r].mode
      /\ proc'[r].pc = IF live THEN "watching" ELSE "clear"
  BY <1>0 DEF CloseDialog, Goto, Proc, Alive, Modes, bounds
<1>2. PointerIsLast'
  BY <1>0, <1>1 DEF PointerIsLast
<1>3. (Calm => OneAtWork)'
  BY <1>0, <1>1 DEF Calm, OneAtWork
<1>4. (Orderly => NoneOvertaken)'
  BY <1>0, <1>1 DEF Orderly, NoneOvertaken
<1>5. FirstRunAlone'
  BY <1>0, <1>1 DEF FirstRunAlone
<1>6. AskerKnown'
  BY <1>0, <1>1, AskerStays DEF AskerKnown, Early
<1>7. FlowKnown'
  BY <1>0, <1>1 DEF FlowKnown
<1>8. AnswerForAsker'
  BY <1>0, <1>1 DEF AnswerForAsker
<1> QED BY <1>2, <1>3, <1>4, <1>5, <1>6, <1>7, <1>8 DEF Serial

\* The ended worker erases its pointers, or another one's.
LEMMA ClearSerial ==
    ASSUME IInv, Serial, NEW r \in Run, Clear(r)
    PROVE  Serial'
<1>0. Typed BY Types
<1>1. /\ proc' \in [Run -> Proc]
      /\ Quiet /\ Others(r) /\ UNCHANGED <<lease, plane>>
      /\ proc[r].pc = "clear" /\ Left(r)
      /\ SameRequest /\ task'.worker \in {NoRun, task.worker}
         /\ task'.status = task.status
  BY <1>0, Handlers DEF Clear, Exit, Proc, Alive, Modes, bounds
<1>2. PointerIsLast'
  BY <1>0, <1>1 DEF PointerIsLast
<1>3. (Calm => OneAtWork)'
  BY <1>0, <1>1 DEF Calm, OneAtWork
<1>4. (Orderly => NoneOvertaken)'
  BY <1>0, <1>1 DEF Orderly, NoneOvertaken
<1>5. FirstRunAlone'
  BY <1>0, <1>1 DEF FirstRunAlone
<1>6. AskerKnown'
  BY <1>0, <1>1, AskerStays DEF AskerKnown, Early
<1>7. FlowKnown'
  BY <1>0, <1>1 DEF FlowKnown
<1>8. AnswerForAsker'
  BY <1>0, <1>1 DEF AnswerForAsker
<1> QED BY <1>2, <1>3, <1>4, <1>5, <1>6, <1>7, <1>8 DEF Serial

\* A live worker stops its task, and gives a suspended lease up.
LEMMA PollRecoverySerial ==
    ASSUME IInv, Serial, NEW r \in Run, PollRecovery(r)
    PROVE  Serial'
<1>0. Typed BY Types
<1>1. /\ proc' \in [Run -> Proc]
      /\ Quiet /\ Others(r) /\ UNCHANGED plane
      /\ proc[r].pc \in {"working", "watching"} /\ Left(r)
      /\ GivenUp(lease, lease')
      /\ SameRequest /\ task'.worker = task.worker
      /\ task'.status = Recovered(task.status)
  BY <1>0, Handlers DEF PollRecovery, Polling, Exit, Proc, Alive, Modes, Lease,
         bounds
<1>2. PointerIsLast'
  BY <1>0, <1>1 DEF PointerIsLast
<1>3. (Calm => OneAtWork)'
  BY <1>0, <1>1 DEF Calm, OneAtWork
<1>4. (Orderly => NoneOvertaken)'
  BY <1>0, <1>1 DEF Calm, OneAtWork, Orderly, NoneOvertaken
<1>5. FirstRunAlone'
  BY <1>0, <1>1 DEF FirstRunAlone
<1>6. AskerKnown'
  BY <1>0, <1>1, AskerStays DEF AskerKnown, Early
<1>7. FlowKnown'
  BY <1>0, <1>1 DEF FlowKnown
<1>8. AnswerForAsker'
  BY <1>0, <1>1 DEF AnswerForAsker
<1> QED BY <1>2, <1>3, <1>4, <1>5, <1>6, <1>7, <1>8 DEF Serial

\* The result of a run is recorded by a worker whose executor is gone.
LEMMA FinalizeSerial ==
    ASSUME IInv, Serial, NEW r \in Run, Finalize(r)
    PROVE  Serial'
<1>0. Typed BY Types
<1>1. /\ proc' \in [Run -> Proc]
      /\ Quiet /\ Others(r) /\ UNCHANGED <<lease, plane>>
      /\ proc[r].pc = "returned"
      /\ SameRequest /\ task'.worker = task.worker
      /\ \/ task.status = "running" /\ task'.status \in Ended
            /\ proc'[r].pc = "verify" /\ proc'[r].mode = proc[r].mode
         \/ task'.status = task.status /\ Left(r)
  BY <1>0 DEF Finalize, Exit, Goto, Task, Proc, Alive, Modes, bounds
<1>2. PointerIsLast'
  BY <1>0, <1>1 DEF PointerIsLast
<1>3. (Calm => OneAtWork)'
  BY <1>0, <1>1 DEF Calm, OneAtWork
<1>4. (Orderly => NoneOvertaken)'
  BY <1>0, <1>1 DEF Calm, OneAtWork, Orderly, NoneOvertaken
<1>5. FirstRunAlone'
  BY <1>0, <1>1 DEF Orderly, NoneOvertaken, FirstRunAlone
<1>6. AskerKnown'
  BY <1>0, <1>1, AskerStays DEF AskerKnown, Early
<1>7. FlowKnown'
  BY <1>0, <1>1 DEF FlowKnown
<1>8. AnswerForAsker'
  BY <1>0, <1>1 DEF AnswerForAsker
<1> QED BY <1>2, <1>3, <1>4, <1>5, <1>6, <1>7, <1>8 DEF Serial

\* A late verification may fail a task, but only once it was requeued.
LEMMA VerifySerial ==
    ASSUME IInv, Serial, NEW r \in Run, Verify(r)
    PROVE  Serial'
<1>0. Typed BY Types
<1>1. /\ proc' \in [Run -> Proc]
      /\ Quiet /\ Others(r) /\ UNCHANGED <<lease, plane>>
      /\ proc[r].pc = "verify" /\ Left(r)
      /\ task'.asker = task.asker /\ task'.worker = task.worker
      /\ \/ task' = task
         \/ task.elev # "none" /\ task'.elev # "none"
            /\ task'.status \in {task.status, "failed"}
  BY <1>0, Handlers DEF Verify, Exit, Fail, Task, Proc, Alive, Modes, bounds
<1>2. PointerIsLast'
  BY <1>0, <1>1 DEF PointerIsLast
<1>3. (Calm => OneAtWork)'
  BY <1>0, <1>1 DEF Calm, OneAtWork
<1>4. (Orderly => NoneOvertaken)'
  BY <1>0, <1>1 DEF Orderly, NoneOvertaken, FirstRunAlone
<1>5. FirstRunAlone'
  BY <1>0, <1>1 DEF FirstRunAlone
<1>6. AskerKnown'
  BY <1>0, <1>1, AskerStays DEF AskerKnown, Early
<1>7. FlowKnown'
  BY <1>0, <1>1 DEF FlowKnown
<1>8. AnswerForAsker'
  BY <1>0, <1>1 DEF AnswerForAsker
<1> QED BY <1>2, <1>3, <1>4, <1>5, <1>6, <1>7, <1>8 DEF Serial

\* A request is opened by the one executor at work.
LEMMA AskSerial ==
    ASSUME IInv, Serial, NEW r \in Run, Ask(r)
    PROVE  Serial'
<1>0. Typed BY Types
<1>1. /\ proc' \in [Run -> Proc]
      /\ Quiet /\ Others(r) /\ UNCHANGED <<task, lease>>
      /\ live /\ proc[r].pc = "working" /\ proc'[r].pc = "working"
         /\ proc[r].mode = "safe" /\ proc'[r].mode = "asking"
      /\ runner.pc # "commit" /\ plane'.run = r /\ plane'.answer = "none"
  BY <1>0 DEF Ask, Unlocked, Proc, Alive, Modes, Plane, bounds
<1>2. PointerIsLast'
  BY <1>0, <1>1 DEF PointerIsLast
<1>3. (Calm => OneAtWork)'
  BY <1>0, <1>1 DEF Calm, OneAtWork
<1>4. (Orderly => NoneOvertaken)'
  BY <1>0, <1>1 DEF Orderly, NoneOvertaken
<1>5. FirstRunAlone'
  BY <1>0, <1>1 DEF FirstRunAlone
<1>6. AskerKnown'
  BY <1>0, <1>1, AskerStays DEF AskerKnown, Early
<1>7. FlowKnown'
  BY <1>0, <1>1 DEF FlowKnown
<1>8. AnswerForAsker'
  BY <1>0, <1>1 DEF AnswerForAsker, AskerKnown
<1> QED BY <1>2, <1>3, <1>4, <1>5, <1>6, <1>7, <1>8 DEF Serial

\* The executor is done: nobody holds the lease any more.
LEMMA ReturnSerial ==
    ASSUME IInv, Serial, NEW r \in Run, Return(r)
    PROVE  Serial'
<1>0. Typed BY Types
<1>1. /\ proc' \in [Run -> Proc]
      /\ Quiet /\ Others(r) /\ UNCHANGED <<task, plane>>
      /\ proc[r].pc \in {"working", "watching"} /\ proc'[r].pc = "returned"
      /\ proc'[r].mode = proc[r].mode /\ proc[r].mode \in {"safe", "full", "denied"}
      /\ lease.run = r => lease'.state # "active"
      /\ lease' = lease \/ lease.run = r
  BY <1>0, Handlers DEF Return, Polling, Goto, Proc, Alive, Modes, Lease, bounds
<1>2. PointerIsLast'
  BY <1>0, <1>1 DEF PointerIsLast
<1>3. (Calm => OneAtWork)'
  BY <1>0, <1>1 DEF Calm, OneAtWork
<1>4. (Orderly => NoneOvertaken)'
  BY <1>0, <1>1 DEF Calm, OneAtWork, Orderly, NoneOvertaken
<1>5. FirstRunAlone'
  BY <1>0, <1>1 DEF FirstRunAlone
<1>6. AskerKnown'
  BY <1>0, <1>1, AskerStays DEF AskerKnown, Early
<1>7. FlowKnown'
  BY <1>0, <1>1 DEF FlowKnown
<1>8. AnswerForAsker'
  BY <1>0, <1>1 DEF AnswerForAsker
<1> QED BY <1>2, <1>3, <1>4, <1>5, <1>6, <1>7, <1>8 DEF Serial

\* Only an executor at work asks, so the asker is the last worker.
LEMMA BlockSerial ==
    ASSUME IInv, Serial, NEW r \in Run, Block(r)
    PROVE  Serial'
<1>0. Typed BY Types
<1>1. /\ proc' \in [Run -> Proc]
      /\ Quiet /\ Others(r) /\ UNCHANGED plane
      /\ proc[r].pc = "working" /\ task'.worker = task.worker
      /\ live => proc[r].mode \in {"asking", "overdue"} /\ plane.run = r
         /\ plane.pending = "pending"
      /\ ~live => proc[r].mode \in {"safe", "full"}
      /\ \/ /\ task.elev = "none" /\ task'.elev = "prepared" /\ task'.asker = r
               /\ task'.status = "waiting"
               /\ proc'[r].pc = (IF live THEN "notify" ELSE "blocked")
                  /\ proc'[r].mode = proc[r].mode /\ lease' = lease
         \/ /\ task.elev # "none" /\ task'.elev # "none" /\ task'.asker = task.asker
               /\ Left(r)
               /\ task'.status = Recovered(task.status)
               /\ GivenUp(lease, lease')
  <2>1. /\ Quiet /\ Others(r) /\ UNCHANGED plane /\ proc' \in [Run -> Proc]
        /\ proc[r].pc = "working"
        /\ live => proc[r].mode \in {"asking", "overdue"} /\ plane.run = r
           /\ plane.pending = "pending"
        /\ ~live => proc[r].mode \in {"safe", "full"}
    <3>1. /\ Quiet /\ UNCHANGED plane /\ proc[r].pc = "working"
          /\ live => proc[r].mode \in {"asking", "overdue"} /\ plane.run = r
             /\ plane.pending = "pending"
          /\ ~live => proc[r].mode \in {"safe", "full"}
      BY DEF Block, Reported, bounds
    <3>2. Exit(r) \/ Goto(r, IF live THEN "notify" ELSE "blocked")
      BY DEF Block
    <3>3. Others(r) /\ proc' \in [Run -> Proc]
      BY <1>0, <3>2 DEF Exit, Goto, Proc, Alive, Modes
    <3> QED BY <3>1, <3>3
  <2>2. CASE MayAsk(task) /\ task.input # "waiting"
    <3>1. /\ task' = Waiting(task, r) /\ lease' = lease /\ task.elev = "none"
          /\ Goto(r, IF live THEN "notify" ELSE "blocked")
      BY <2>2 DEF Block, MayAsk
    <3>2. /\ task'.elev = "prepared" /\ task'.asker = r /\ task'.status = "waiting"
          /\ task'.worker = task.worker
      BY <1>0, <3>1 DEF Waiting, Task
    <3>3. proc'[r].pc = (IF live THEN "notify" ELSE "blocked")
          /\ proc'[r].mode = proc[r].mode
      BY <1>0, <3>1 DEF Goto, Proc
    <3> QED BY <2>1, <3>1, <3>2, <3>3
  <2>3. CASE ~(MayAsk(task) /\ task.input # "waiting")
    <3> DEFINE refused == [task EXCEPT !.elev =
                              IF @ \in {"approved", "active"} THEN "blocked" ELSE @]
    <3>1. /\ refused \in Task /\ refused.elev # "none" /\ refused.asker = task.asker
             /\ refused.status = task.status
          /\ refused.worker = task.worker /\ task.elev # "none"
      BY <1>0, <2>3, AskedIsAsked DEF MayAsk, Task
    <3>2. task' = Recover(refused) /\ lease' = RecoverLease(task, lease) /\ Exit(r)
      BY <2>3 DEF Block
    <3> HIDE DEF refused
    <3>3. /\ task'.status = Recovered(task.status) /\ task'.elev = refused.elev
          /\ task'.asker = task.asker /\ task'.worker = task.worker
          /\ GivenUp(lease, lease')
      BY <1>0, <3>1, <3>2, Handlers
    <3>4. Left(r)
      BY <1>0, <3>2 DEF Exit
    <3> QED BY <2>1, <3>1, <3>3, <3>4
  <2> QED BY <2>2, <2>3
<1>2. PointerIsLast'
  BY <1>0, <1>1 DEF PointerIsLast
<1>3. (Calm => OneAtWork)'
  BY <1>0, <1>1 DEF Calm, OneAtWork
<1>4. (Orderly => NoneOvertaken)'
  BY <1>0, <1>1 DEF Calm, OneAtWork, Orderly, NoneOvertaken
<1>5. FirstRunAlone'
  BY <1>0, <1>1 DEF Orderly, NoneOvertaken, FirstRunAlone
<1>6. AskerKnown'
  <2>1. CASE task.elev = "none"
    BY <1>0, <1>1, <2>1 DEF AskerKnown, Early, PointerIsLast
  <2>2. CASE task.elev # "none"
    <3>1. /\ task'.asker = task.asker /\ task'.elev # "none" /\ Left(r)
      BY <1>1, <2>2
    <3> QED BY <1>0, <1>1, <3>1, AskerStays DEF Early
  <2> QED BY <2>1, <2>2
<1>7. FlowKnown'
  BY <1>0, <1>1 DEF FlowKnown
<1>8. AnswerForAsker'
  BY <1>0, <1>1 DEF AnswerForAsker, AskerKnown, FlowKnown, Calm, OneAtWork
<1> QED BY <1>2, <1>3, <1>4, <1>5, <1>6, <1>7, <1>8 DEF Serial

\* An SDK thread takes the answer.
LEMMA TakeSerial ==
    ASSUME IInv, Serial, NEW r \in Run, Take(r)
    PROVE  Serial'
<1>0. Typed BY Types
<1>1. /\ proc' \in [Run -> Proc]
      /\ Quiet /\ Others(r) /\ UNCHANGED <<task, lease, plane>>
      /\ proc'[r].pc = proc[r].pc /\ proc[r].mode \in {"asking", "overdue"}
      /\ proc'[r].mode \in {"full", "denied", "overdue"}
  BY <1>0 DEF Take, Proc, Alive, Modes, bounds
<1>2. PointerIsLast'
  BY <1>0, <1>1 DEF PointerIsLast
<1>3. (Calm => OneAtWork)'
  BY <1>0, <1>1 DEF Calm, OneAtWork
<1>4. (Orderly => NoneOvertaken)'
  BY <1>0, <1>1 DEF Orderly, NoneOvertaken
<1>5. FirstRunAlone'
  BY <1>0, <1>1 DEF FirstRunAlone
<1>6. AskerKnown'
  BY <1>0, <1>1, AskerStays DEF AskerKnown, Early
<1>7. FlowKnown'
  BY <1>0, <1>1 DEF FlowKnown
<1>8. AnswerForAsker'
  BY <1>0, <1>1 DEF AnswerForAsker
<1> QED BY <1>2, <1>3, <1>4, <1>5, <1>6, <1>7, <1>8 DEF Serial

\* An SDK thread sees the deadline.
LEMMA OverdueSerial ==
    ASSUME IInv, Serial, NEW r \in Run, Overdue(r)
    PROVE  Serial'
<1>0. Typed BY Types
<1>1. /\ proc' \in [Run -> Proc]
      /\ Quiet /\ Others(r) /\ UNCHANGED <<task, lease, plane>>
      /\ proc'[r].pc = proc[r].pc /\ proc[r].mode \in {"asking", "overdue"}
      /\ proc'[r].mode \in {"full", "denied", "overdue"}
  BY <1>0 DEF Overdue, Proc, Alive, Modes, bounds
<1>2. PointerIsLast'
  BY <1>0, <1>1 DEF PointerIsLast
<1>3. (Calm => OneAtWork)'
  BY <1>0, <1>1 DEF Calm, OneAtWork
<1>4. (Orderly => NoneOvertaken)'
  BY <1>0, <1>1 DEF Orderly, NoneOvertaken
<1>5. FirstRunAlone'
  BY <1>0, <1>1 DEF FirstRunAlone
<1>6. AskerKnown'
  BY <1>0, <1>1, AskerStays DEF AskerKnown, Early
<1>7. FlowKnown'
  BY <1>0, <1>1 DEF FlowKnown
<1>8. AnswerForAsker'
  BY <1>0, <1>1 DEF AnswerForAsker
<1> QED BY <1>2, <1>3, <1>4, <1>5, <1>6, <1>7, <1>8 DEF Serial

\* A request expires only while no answer is recorded.
LEMMA LapseSerial ==
    ASSUME IInv, Serial, NEW r \in Run, Lapse(r)
    PROVE  Serial'
<1>0. Typed BY Types
<1>1. /\ proc' \in [Run -> Proc]
      /\ Quiet /\ Others(r) /\ UNCHANGED <<task, lease>>
      /\ proc'[r].pc = proc[r].pc /\ proc[r].mode = "overdue"
         /\ proc'[r].mode = "lost"
      /\ runner.pc # "commit" /\ ~(plane.run = r /\ plane.answer # "none")
      /\ plane'.run = plane.run /\ plane'.answer = plane.answer
  BY <1>0 DEF Lapse, Unlocked, StillPending, Answered, Dead, Proc, Alive, Modes,
         Plane, bounds
<1>2. PointerIsLast'
  BY <1>0, <1>1 DEF PointerIsLast
<1>3. (Calm => OneAtWork)'
  BY <1>0, <1>1 DEF Calm, OneAtWork
<1>4. (Orderly => NoneOvertaken)'
  BY <1>0, <1>1 DEF Orderly, NoneOvertaken
<1>5. FirstRunAlone'
  BY <1>0, <1>1 DEF FirstRunAlone
<1>6. AskerKnown'
  BY <1>0, <1>1, AskerStays DEF AskerKnown, Early
<1>7. FlowKnown'
  BY <1>0, <1>1 DEF FlowKnown
<1>8. AnswerForAsker'
  BY <1>0, <1>1 DEF AnswerForAsker
<1> QED BY <1>2, <1>3, <1>4, <1>5, <1>6, <1>7, <1>8 DEF Serial

\* A request that the plane gave up on is not an answered one.
LEMMA LoseSerial ==
    ASSUME IInv, Serial, NEW r \in Run, Lose(r)
    PROVE  Serial'
<1>0. Typed BY Types
<1>1. /\ proc' \in [Run -> Proc]
      /\ Quiet /\ Others(r) /\ UNCHANGED <<task, lease>>
      /\ proc'[r].pc = proc[r].pc /\ proc[r].mode = "asking"
         /\ proc'[r].mode = "lost"
      /\ runner.pc # "commit" /\ plane.answer = "none"
      /\ plane'.run = plane.run /\ plane'.answer = plane.answer
  BY <1>0 DEF Lose, Unlocked, Answered, Invalidated, Dead, Proc, Alive, Modes,
         Plane, bounds
<1>2. PointerIsLast'
  BY <1>0, <1>1 DEF PointerIsLast
<1>3. (Calm => OneAtWork)'
  BY <1>0, <1>1 DEF Calm, OneAtWork
<1>4. (Orderly => NoneOvertaken)'
  BY <1>0, <1>1 DEF Orderly, NoneOvertaken
<1>5. FirstRunAlone'
  BY <1>0, <1>1 DEF FirstRunAlone
<1>6. AskerKnown'
  BY <1>0, <1>1, AskerStays DEF AskerKnown, Early
<1>7. FlowKnown'
  BY <1>0, <1>1 DEF FlowKnown
<1>8. AnswerForAsker'
  BY <1>0, <1>1 DEF AnswerForAsker
<1> QED BY <1>2, <1>3, <1>4, <1>5, <1>6, <1>7, <1>8 DEF Serial

\* A worker dies.
LEMMA CrashSerial ==
    ASSUME IInv, Serial, NEW r \in Run, Crash(r)
    PROVE  Serial'
<1>0. Typed BY Types
<1>1. /\ proc' \in [Run -> Proc]
      /\ Quiet /\ Others(r) /\ UNCHANGED <<task, lease, plane>>
      /\ Live(r) /\ Left(r)
  BY <1>0 DEF Crash, Exit, Proc, Alive, Modes
<1>2. PointerIsLast'
  BY <1>0, <1>1 DEF PointerIsLast, Live, Alive
<1>3. (Calm => OneAtWork)'
  BY <1>0, <1>1 DEF Calm, OneAtWork
<1>4. (Orderly => NoneOvertaken)'
  BY <1>0, <1>1 DEF Orderly, NoneOvertaken
<1>5. FirstRunAlone'
  BY <1>0, <1>1 DEF FirstRunAlone
<1>6. AskerKnown'
  BY <1>0, <1>1, AskerStays DEF AskerKnown, Early
<1>7. FlowKnown'
  BY <1>0, <1>1 DEF FlowKnown
<1>8. AnswerForAsker'
  BY <1>0, <1>1 DEF AnswerForAsker
<1> QED BY <1>2, <1>3, <1>4, <1>5, <1>6, <1>7, <1>8 DEF Serial

\* What the reaping thread does to task, lease and plane concerns its own worker.
LEMMA ReapSerial ==
    ASSUME IInv, Serial, NEW r \in Run, Reap(r)
    PROVE  Serial'
<1>0. Typed BY Types
<1>1. /\ proc' \in [Run -> Proc]
      /\ Quiet /\ Others(r)
      /\ proc[r].pc = "gone" /\ proc'[r].pc = "reaped"
         /\ proc'[r].mode = proc[r].mode
      /\ SameRequest
      /\ \/ UNCHANGED <<task, lease, plane>>
         \/ /\ task.worker = r /\ task'.worker = NoRun
            /\ \/ UNCHANGED <<lease, plane>> /\ task'.status = task.status
               \/ /\ (lease' = lease \/ lease'.state = "closed")
                     /\ lease'.state # "active" /\ runner.pc # "commit"
                  /\ plane'.run = plane.run /\ plane'.answer = plane.answer
                     /\ (plane'.pending = plane.pending \/ plane.pending = "pending")
                  /\ task'.status = "recovery"
                     /\ task.status \notin Ended \cup {"waiting"}
  <2>1. /\ proc' \in [Run -> Proc] /\ Quiet /\ Others(r) /\ proc[r].pc = "gone"
        /\ proc'[r].pc = "reaped" /\ proc'[r].mode = proc[r].mode
    BY <1>0 DEF Reap, Goto, Proc, bounds
  <2>2. CASE UNCHANGED <<task, lease, plane>>
    BY <2>1, <2>2
  <2>3. CASE /\ task.worker = r /\ task.status = "waiting"
             /\ task' = Unreferenced(task) /\ UNCHANGED <<lease, plane>>
    BY <1>0, <2>1, <2>3, Handlers
  <2>4. CASE /\ task.worker = r
                /\ task.status \in {"recovery", "pending", "running", "resuming"}
             /\ task' \in {Unreferenced(task), Unreferenced(Recover(task))}
             /\ task'.status = "recovery"
             /\ lease' = Closed(lease) /\ Unlocked /\ plane' = Invalidated(plane)
    <3>1. Recover(task) \in Task /\ Recover(task).elev = task.elev
          /\ Recover(task).asker = task.asker
      BY <1>0, Handlers
    <3>2. SameRequest /\ task'.worker = NoRun
      BY <1>0, <2>4, <3>1, Handlers
    <3>3. (lease' = lease \/ lease'.state = "closed") /\ lease'.state # "active"
      BY <1>0, <2>4 DEF Closed, Lease
    <3>4. /\ plane'.run = plane.run /\ plane'.answer = plane.answer
          /\ plane'.pending = plane.pending \/ plane.pending = "pending"
      BY <1>0, <2>4 DEF Invalidated, Dead, Plane
    <3> QED BY <2>1, <2>4, <3>2, <3>3, <3>4 DEF Unlocked
  <2>5. /\ Recover(task) \in Task /\ Recover(task).status = Recovered(task.status)
        /\ Unreferenced(task).status = task.status
    BY <1>0, Handlers
  <2>6. Unreferenced(Recover(task)).status = Recover(task).status
    BY <1>0, <2>5, Handlers
  <2> QED BY <2>2, <2>3, <2>4, <2>5, <2>6 DEF Reap
<1>2. PointerIsLast'
  BY <1>0, <1>1 DEF PointerIsLast
<1>3. (Calm => OneAtWork)'
  BY <1>0, <1>1 DEF Calm, OneAtWork, PointerIsLast
<1>4. (Orderly => NoneOvertaken)'
  BY <1>0, <1>1 DEF Orderly, NoneOvertaken, Calm, OneAtWork, PointerIsLast
<1>5. FirstRunAlone'
  BY <1>0, <1>1 DEF FirstRunAlone
<1>6. AskerKnown'
  BY <1>0, <1>1, AskerStays DEF AskerKnown, Early
<1>7. FlowKnown'
  BY <1>0, <1>1 DEF FlowKnown
<1>8. AnswerForAsker'
  BY <1>0, <1>1 DEF AnswerForAsker
<1> QED BY <1>2, <1>3, <1>4, <1>5, <1>6, <1>7, <1>8 DEF Serial

\* A task is dispatched again only when no lease is held or suspended.
LEMMA DispatchSerial ==
    ASSUME IInv, Serial, Dispatch
    PROVE  Serial'
<1>0. Typed BY Types
<1>1. /\ proc' \in [Run -> Proc]
      /\ UNCHANGED <<live, lease, plane, proc, launched>> /\ runner.pc = "idle"
         /\ runner'.pc = "publish"
      /\ launched < MaxRuns /\ SameRequest /\ task'.worker = task.worker
      /\ \/ launched = 0 /\ UNCHANGED <<task, requeues>>
         \/ task.status \in {"failed", "recovery"} /\ lease.state # "active"
            /\ task'.status = "pending" /\ requeues' = requeues + 1
  BY <1>0 DEF Dispatch, Free, Requeueable, Serve, Task
<1>2. PointerIsLast'
  BY <1>0, <1>1 DEF PointerIsLast
<1>3. (Calm => OneAtWork)'
  <2> SUFFICES ASSUME Calm'
               PROVE  OneAtWork'
    OBVIOUS
  <2>1. CASE launched = 0 /\ UNCHANGED <<task, requeues>>
    <3>1. \A q \in Run : proc[q].pc = "none"
      BY <1>0, <2>1 DEF PointerIsLast
    <3> QED BY <1>1, <2>1, <3>1 DEF Calm, OneAtWork
  <2>2. CASE task.status \in {"failed", "recovery"} /\ lease.state # "active"
             /\ task'.status = "pending" /\ requeues' = requeues + 1
    <3>1. Calm /\ Orderly
      BY <1>0, <1>1, <2>2 DEF Calm, Orderly
    <3>2. \A q \in Run : ~At(q, Running)
      BY <2>2, <3>1 DEF OneAtWork
    <3>3. \A q \in Run : ~At(q, {"spawned"} \cup Claimed)
      BY <2>2, <3>1 DEF NoneOvertaken
    <3> QED BY <1>1, <2>2, <3>2, <3>3 DEF OneAtWork
  <2> QED BY <1>1, <2>1, <2>2
<1>4. (Orderly => NoneOvertaken)'
  BY <1>0, <1>1 DEF Orderly, NoneOvertaken
<1>5. FirstRunAlone'
  <2>1. CASE launched = 0 /\ UNCHANGED <<task, requeues>>
    <3>1. \A q \in Run : proc[q].pc = "none"
      BY <1>0, <2>1 DEF PointerIsLast
    <3> QED BY <1>0, <1>1, <2>1, <3>1 DEF FirstRunAlone
  <2>2. CASE requeues' = requeues + 1
    BY <1>0, <2>2 DEF FirstRunAlone
  <2> QED BY <1>1, <2>1, <2>2
<1>6. AskerKnown'
  BY <1>0, <1>1 DEF AskerKnown
<1>7. FlowKnown'
  BY <1>0, <1>1 DEF FlowKnown
<1>8. AnswerForAsker'
  BY <1>0, <1>1 DEF AnswerForAsker
<1> QED BY <1>2, <1>3, <1>4, <1>5, <1>6, <1>7, <1>8 DEF Serial

\* Runner points the task to the worker it is about to start.
LEMMA PublishSerial ==
    ASSUME IInv, Serial, Publish
    PROVE  Serial'
<1>0. Typed BY Types
<1>1. /\ proc' \in [Run -> Proc]
      /\ UNCHANGED <<live, lease, plane, proc, launched, requeues>>
         /\ runner.pc = "publish"
      /\ SameRequest /\ task'.status = task.status
      /\ \/ task'.worker = launched + 1 /\ runner'.pc = "spawn"
            /\ task.status \in {"pending", "resuming"}
         \/ task'.worker = task.worker /\ runner'.pc = "idle"
  BY <1>0 DEF Publish, Serve, Task, bounds
<1>2. PointerIsLast'
  BY <1>0, <1>1 DEF PointerIsLast
<1>3. (Calm => OneAtWork)'
  BY <1>0, <1>1 DEF Calm, OneAtWork
<1>4. (Orderly => NoneOvertaken)'
  BY <1>0, <1>1 DEF Orderly, NoneOvertaken
<1>5. FirstRunAlone'
  BY <1>0, <1>1 DEF FirstRunAlone
<1>6. AskerKnown'
  BY <1>0, <1>1 DEF AskerKnown
<1>7. FlowKnown'
  BY <1>0, <1>1 DEF FlowKnown
<1>8. AnswerForAsker'
  BY <1>0, <1>1 DEF AnswerForAsker
<1> QED BY <1>2, <1>3, <1>4, <1>5, <1>6, <1>7, <1>8 DEF Serial

\* The worker starts, or its start fails.
LEMMA SpawnSerial ==
    ASSUME IInv, Serial, Spawn
    PROVE  Serial'
<1>0. Typed BY Types
<1>1. /\ proc' \in [Run -> Proc]
      /\ UNCHANGED <<live, plane, requeues>> /\ runner.pc = "spawn"
         /\ launched' = launched + 1
      /\ launched + 1 \in Run
         /\ \A q \in Run : q # launched + 1 => proc'[q] = proc[q]
      /\ SameRequest
      /\ \/ /\ proc'[launched + 1].pc = "spawned"
               /\ proc'[launched + 1].mode = "none" /\ runner'.pc = "accept"
                  /\ UNCHANGED <<task, lease>>
         \/ /\ proc'[launched + 1].pc = "reaped"
               /\ proc'[launched + 1].mode = proc[launched + 1].mode
                  /\ runner'.pc = "idle"
            /\ GivenUp(lease, lease')
            /\ task'.worker = (IF task.worker = launched + 1 THEN NoRun ELSE task.worker)
            /\ task'.status = Recovered(task.status)
  <2>1. /\ UNCHANGED <<live, plane, requeues>> /\ runner.pc = "spawn"
           /\ launched' = launched + 1
        /\ launched + 1 \in Run
    BY <1>0 DEF Spawn
  <2>2. CASE /\ proc' = [proc EXCEPT ![launched'] = [pc |-> "spawned", mode |-> "none"]]
             /\ Serve("accept") /\ UNCHANGED <<task, lease>>
    BY <1>0, <2>1, <2>2 DEF Serve, Proc, Alive, Modes
  <2>3. CASE /\ proc' = [proc EXCEPT ![launched'].pc = "reaped"]
             /\ task' = IF task.worker = launched' THEN Unreferenced(Recover(task))
                                                   ELSE Recover(task)
             /\ lease' = RecoverLease(task, lease) /\ Serve("idle")
    <3>1. /\ task'.status = Recovered(task.status) /\ task'.elev = task.elev
          /\ task'.asker = task.asker
          /\ task'.worker = (IF task.worker = launched + 1 THEN NoRun ELSE task.worker)
      <4>1. Recover(task) \in Task /\ Recover(task).status = Recovered(task.status)
            /\ Recover(task).elev = task.elev /\ Recover(task).asker = task.asker
            /\ Recover(task).worker = task.worker
        BY <1>0, Handlers
      <4>2. /\ Unreferenced(Recover(task)).status = Recover(task).status
            /\ Unreferenced(Recover(task)).elev = Recover(task).elev
            /\ Unreferenced(Recover(task)).asker = Recover(task).asker
            /\ Unreferenced(Recover(task)).worker = NoRun
        BY <1>0, <4>1, Handlers
      <4> QED BY <2>1, <2>3, <4>1, <4>2
    <3>2. GivenUp(lease, lease')
      BY <1>0, <2>3, Handlers
    <3>3. runner'.pc = "idle" 
      BY <1>0, <2>3 DEF Serve
    <3>4. /\ proc' \in [Run -> Proc] /\ proc'[launched + 1].pc = "reaped"
          /\ proc'[launched + 1].mode = proc[launched + 1].mode
          /\ \A q \in Run : q # launched + 1 => proc'[q] = proc[q]
      BY <1>0, <2>1, <2>3 DEF Proc
    <3> QED BY <2>1, <3>1, <3>2, <3>3, <3>4
  <2> QED BY <2>2, <2>3 DEF Spawn
<1>2. PointerIsLast'
  <2>1. \A q \in Run : q > launched' => q > launched /\ q # launched + 1
    BY <1>0, <1>1
  <2> QED BY <1>0, <1>1, <2>1 DEF PointerIsLast
<1>3. (Calm => OneAtWork)'
  <2> SUFFICES ASSUME Calm
               PROVE  OneAtWork'
    BY <1>1 DEF Calm
  <2>1. \A q \in Run : ~At(q, {"spawned"} \cup Claimed \cup Running)
    BY <1>1 DEF OneAtWork
  <2> QED BY <1>0, <1>1, <2>1 DEF OneAtWork
<1>4. (Orderly => NoneOvertaken)'
  <2> SUFFICES ASSUME Orderly
               PROVE  NoneOvertaken'
    BY <1>1 DEF Orderly
  <2>1. \A q \in Run : ~At(q, {"spawned", "returned"} \cup Claimed \cup Running)
    BY <1>1 DEF Calm, Orderly, OneAtWork, NoneOvertaken
  <2> QED BY <1>0, <1>1, <2>1 DEF NoneOvertaken
<1>5. FirstRunAlone'
  BY <1>0, <1>1 DEF FirstRunAlone
<1>6. AskerKnown'
  <2>1. launched + 1 \in Nat /\ launched <= launched'
    BY <1>0, <1>1
  <2>2. launched + 1 \in Run /\ Others(launched + 1) /\ live' = live /\ SameRequest
    BY <1>1
  <2>3. task.elev # "none" => task.asker # launched + 1
    BY <1>0 DEF AskerKnown
  <2>4. CASE task.elev # "none"
    BY <1>0, <1>1, <2>1, <2>2, <2>3, <2>4, AskerStays
  <2> QED BY <2>2, <2>4 DEF AskerKnown
<1>7. FlowKnown'
  BY <1>0, <1>1 DEF FlowKnown, PointerIsLast
<1>8. AnswerForAsker'
  BY <1>0, <1>1 DEF AnswerForAsker
<1> QED BY <1>2, <1>3, <1>4, <1>5, <1>6, <1>7, <1>8 DEF Serial

\* The pointer is written again.
LEMMA AcceptSerial ==
    ASSUME IInv, Serial, Accept
    PROVE  Serial'
<1>0. Typed BY Types
<1>1. /\ proc' \in [Run -> Proc]
      /\ UNCHANGED <<live, lease, plane, proc, launched, requeues>>
         /\ runner.pc = "accept" /\ runner'.pc = "idle"
      /\ SameRequest /\ task'.status = task.status /\ task'.worker = launched
  BY <1>0 DEF Accept, Serve, Task, bounds
<1>2. PointerIsLast'
  BY <1>0, <1>1 DEF PointerIsLast
<1>3. (Calm => OneAtWork)'
  BY <1>0, <1>1 DEF Calm, OneAtWork
<1>4. (Orderly => NoneOvertaken)'
  BY <1>0, <1>1 DEF Orderly, NoneOvertaken
<1>5. FirstRunAlone'
  BY <1>0, <1>1 DEF FirstRunAlone
<1>6. AskerKnown'
  BY <1>0, <1>1 DEF AskerKnown
<1>7. FlowKnown'
  BY <1>0, <1>1 DEF FlowKnown
<1>8. AnswerForAsker'
  BY <1>0, <1>1 DEF AnswerForAsker
<1> QED BY <1>2, <1>3, <1>4, <1>5, <1>6, <1>7, <1>8 DEF Serial

\* Runner finds the plane open for its answer, or stops the task.
LEMMA TellSerial ==
    ASSUME IInv, Serial, Tell
    PROVE  Serial'
<1>0. Typed BY Types
<1>1. /\ proc' \in [Run -> Proc]
      /\ UNCHANGED <<live, proc, launched, requeues>> /\ runner.pc = "tell"
      /\ SameRequest /\ task'.worker = task.worker
      /\ plane'.run = plane.run /\ plane'.answer = plane.answer
         /\ plane'.pending = plane.pending
      /\ \/ /\ runner'.pc = "commit" /\ UNCHANGED <<task, lease>>
               /\ plane.run = task.asker /\ plane.pending = "pending"
         \/ /\ runner'.pc = "idle" /\ GivenUp(lease, lease')
            /\ task'.status = Recovered(task.status)
  <2>1. CASE Open
    BY <1>0, <2>1 DEF Tell, Open, Serve, Dead, bounds
  <2>2. CASE ~Open
    <3>1. /\ plane' = Dead(plane) /\ task' = Recover(task)
             /\ lease' = RecoverLease(task, lease)
          /\ runner'.pc = "idle" /\ runner.pc = "tell"
             /\ UNCHANGED <<live, proc, launched, requeues>>
      BY <2>2 DEF Tell, bounds
    <3>2. Dead(plane).run = plane.run /\ Dead(plane).answer = plane.answer
          /\ Dead(plane).pending = plane.pending
      BY <1>0 DEF Dead, Plane
    <3>3. /\ Recover(task).status = Recovered(task.status)
             /\ Recover(task).elev = task.elev
          /\ Recover(task).asker = task.asker /\ Recover(task).worker = task.worker
          /\ GivenUp(lease, RecoverLease(task, lease))
      BY <1>0, Handlers
    <3> QED BY <1>0, <3>1, <3>2, <3>3
  <2> QED BY <2>1, <2>2
<1>2. PointerIsLast'
  BY <1>0, <1>1 DEF PointerIsLast
<1>3. (Calm => OneAtWork)'
  BY <1>0, <1>1 DEF Calm, OneAtWork
<1>4. (Orderly => NoneOvertaken)'
  <2>1. CASE UNCHANGED <<task, lease>>
    BY <1>0, <1>1, <2>1 DEF Orderly, NoneOvertaken
  <2>2. CASE Orderly /\ ~UNCHANGED <<task, lease>>
    <3>1. live /\ task.elev # "none" /\ requeues = 0
      BY <1>1, <2>2 DEF AnswerForAsker, Orderly
    <3>2. launched = task.asker
        <4>1. task.asker \in Nat \ {0} /\ task.asker <= launched
        BY <1>0, <3>1 DEF AskerKnown
      <4>2. launched \in Nat /\ launched <= 1
        BY <1>0, <3>1 DEF FirstRunAlone
      <4> HIDE DEF Serial, Typed
      <4> QED BY <4>1, <4>2
    <3>3. \A q \in Run : ~At(q, {"spawned"} \cup Claimed)
      BY <3>1, <3>2 DEF Calm, OneAtWork, AskerKnown, Early
    <3> QED BY <1>0, <1>1, <2>2, <3>1, <3>3 DEF Orderly, NoneOvertaken
  <2> QED BY <1>1, <2>1, <2>2 DEF Orderly
<1>5. FirstRunAlone'
  BY <1>0, <1>1 DEF FirstRunAlone
<1>6. AskerKnown'
  BY <1>0, <1>1 DEF AskerKnown
<1>7. FlowKnown'
  BY <1>0, <1>1 DEF FlowKnown
<1>8. AnswerForAsker'
  BY <1>0, <1>1 DEF AnswerForAsker
<1> QED BY <1>2, <1>3, <1>4, <1>5, <1>6, <1>7, <1>8 DEF Serial

\* The plane takes the answer: its request is the asker's and still open.
LEMMA CommitSerial ==
    ASSUME IInv, Serial, Commit
    PROVE  Serial'
<1>0. Typed BY Types
<1>1. /\ proc' \in [Run -> Proc]
      /\ UNCHANGED <<live, task, lease, proc, launched, requeues>>
         /\ runner.pc = "commit" /\ runner'.pc = "idle"
      /\ plane'.run = plane.run /\ plane'.pending = "responded"
  BY <1>0 DEF Commit, Plane, bounds
<1>2. PointerIsLast'
  BY <1>0, <1>1 DEF PointerIsLast
<1>3. (Calm => OneAtWork)'
  BY <1>0, <1>1 DEF Calm, OneAtWork
<1>4. (Orderly => NoneOvertaken)'
  BY <1>0, <1>1 DEF Orderly, NoneOvertaken
<1>5. FirstRunAlone'
  BY <1>0, <1>1 DEF FirstRunAlone
<1>6. AskerKnown'
  BY <1>0, <1>1 DEF AskerKnown
<1>7. FlowKnown'
  BY <1>0, <1>1 DEF FlowKnown
<1>8. AnswerForAsker'
  BY <1>0, <1>1 DEF AnswerForAsker
<1> QED BY <1>2, <1>3, <1>4, <1>5, <1>6, <1>7, <1>8 DEF Serial

\* A deadline passes.
LEMMA ElapseSerial ==
    ASSUME IInv, Serial, Elapse
    PROVE  Serial'
<1>0. Typed BY Types
<1>1. /\ proc' \in [Run -> Proc]
      /\ UNCHANGED <<live, task, lease, plane, proc, runner, launched, requeues>>
  BY <1>0 DEF Elapse, bounds
<1>2. PointerIsLast'
  BY <1>0, <1>1 DEF PointerIsLast
<1>3. (Calm => OneAtWork)'
  BY <1>0, <1>1 DEF Calm, OneAtWork
<1>4. (Orderly => NoneOvertaken)'
  BY <1>0, <1>1 DEF Orderly, NoneOvertaken
<1>5. FirstRunAlone'
  BY <1>0, <1>1 DEF FirstRunAlone
<1>6. AskerKnown'
  BY <1>0, <1>1 DEF AskerKnown
<1>7. FlowKnown'
  BY <1>0, <1>1 DEF FlowKnown
<1>8. AnswerForAsker'
  BY <1>0, <1>1 DEF AnswerForAsker
<1> QED BY <1>2, <1>3, <1>4, <1>5, <1>6, <1>7, <1>8 DEF Serial

\* A wait times out.
LEMMA ExpireSerial ==
    ASSUME IInv, Serial, Expire
    PROVE  Serial'
<1>0. Typed BY Types
<1>1. /\ proc' \in [Run -> Proc]
      /\ UNCHANGED <<live, plane, proc, runner, launched, requeues>>
         /\ runner.pc = "idle"
      /\ task.status = "waiting" /\ task'.status = "failed" /\ task'.elev = "denied"
         /\ task.elev # "none" /\ task'.asker = task.asker
            /\ task'.worker = task.worker
      /\ GivenUp(lease, lease')
  BY <1>0, Handlers, AskedIsAsked DEF Expire, Free, Expirable, Fail, Task, Lease,
         bounds
<1>2. PointerIsLast'
  BY <1>0, <1>1 DEF PointerIsLast
<1>3. (Calm => OneAtWork)'
  BY <1>0, <1>1 DEF Calm, OneAtWork
<1>4. (Orderly => NoneOvertaken)'
  BY <1>0, <1>1 DEF Orderly, NoneOvertaken
<1>5. FirstRunAlone'
  BY <1>0, <1>1 DEF FirstRunAlone
<1>6. AskerKnown'
  BY <1>0, <1>1 DEF AskerKnown
<1>7. FlowKnown'
  BY <1>0, <1>1 DEF FlowKnown
<1>8. AnswerForAsker'
  BY <1>0, <1>1 DEF AnswerForAsker
<1> QED BY <1>2, <1>3, <1>4, <1>5, <1>6, <1>7, <1>8 DEF Serial

\* A lease whose process is gone is closed.
LEMMA ReconcileSerial ==
    ASSUME IInv, Serial, Reconcile
    PROVE  Serial'
<1>0. Typed BY Types
<1>1. /\ proc' \in [Run -> Proc]
      /\ UNCHANGED <<live, plane, proc, runner, launched, requeues>>
      /\ lease.state = "active" /\ ~Live(lease.run) /\ lease'.state = "closed"
      /\ SameRequest /\ task'.worker \in {NoRun, task.worker}
      /\ task'.status \in {task.status, "recovery"}
  BY <1>0, Handlers DEF Reconcile, Lease, bounds
<1>2. PointerIsLast'
  BY <1>0, <1>1 DEF PointerIsLast
<1>3. (Calm => OneAtWork)'
  BY <1>0, <1>1 DEF Calm, OneAtWork, Live, Alive
<1>4. (Orderly => NoneOvertaken)'
  BY <1>0, <1>1 DEF Orderly, NoneOvertaken, Calm, OneAtWork, Live, Alive
<1>5. FirstRunAlone'
  BY <1>0, <1>1 DEF FirstRunAlone
<1>6. AskerKnown'
  BY <1>0, <1>1 DEF AskerKnown
<1>7. FlowKnown'
  BY <1>0, <1>1 DEF FlowKnown
<1>8. AnswerForAsker'
  BY <1>0, <1>1 DEF AnswerForAsker
<1> QED BY <1>2, <1>3, <1>4, <1>5, <1>6, <1>7, <1>8 DEF Serial

\* A continuation is dispatched when no executor is at work.
LEMMA AnswerEndedSerial ==
    ASSUME IInv, Serial, NEW say \in Say, AnswerEnded(say)
    PROVE  Serial'
<1>0. Typed BY Types
<1>1. /\ proc' \in [Run -> Proc]
      /\ UNCHANGED <<live, plane, proc, launched, requeues>> /\ ~live
         /\ runner.pc = "idle"
      /\ task.status = "waiting" /\ lease.state # "active" /\ task.elev # "none"
         /\ task'.elev # "none" /\ task'.asker = task.asker
            /\ task'.worker = task.worker
      /\ \/ task'.status = "failed" /\ runner' = runner
            /\ (lease' = lease \/ lease'.state = "closed")
         \/ task'.status = "resuming" /\ runner'.pc = "publish" /\ lease' = lease
  <2>1. /\ UNCHANGED <<live, plane, proc, launched, requeues>> /\ ~live
           /\ runner.pc = "idle"
        /\ task.status = "waiting" /\ lease.state # "active" /\ task.elev # "none"
    BY AskedIsAsked DEF AnswerEnded, Free, NoExecutor
  <2>2. CASE say = "deny"
    <3>1. /\ task' = [Fail(task) EXCEPT !.input = "deny", !.elev = "denied"]
          /\ lease' = FailLease(task, lease) /\ runner' = runner
      BY <2>2 DEF AnswerEnded
    <3>2. /\ task'.status = "failed" /\ task'.elev = "denied"
             /\ task'.asker = task.asker
          /\ task'.worker = task.worker
      BY <1>0, <3>1 DEF Fail, Task
    <3>3. GivenUp(lease, FailLease(task, lease))
      BY <1>0, Handlers
    <3> QED BY <1>0, <2>1, <3>1, <3>2, <3>3
  <2>3. CASE say # "deny"
    BY <1>0, <2>1, <2>3 DEF AnswerEnded, Serve, Task
  <2> QED BY <2>2, <2>3
<1>2. PointerIsLast'
  BY <1>0, <1>1 DEF PointerIsLast
<1>3. (Calm => OneAtWork)'
  <2> SUFFICES ASSUME Calm
               PROVE  OneAtWork'
    BY <1>1 DEF Calm
  <2>1. \A q \in Run : ~At(q, {"spawned"} \cup Claimed \cup Running)
    BY <1>1 DEF OneAtWork
  <2> QED BY <1>0, <1>1, <2>1 DEF OneAtWork
<1>4. (Orderly => NoneOvertaken)'
  BY <1>0, <1>1 DEF Orderly, NoneOvertaken
<1>5. FirstRunAlone'
  BY <1>0, <1>1 DEF FirstRunAlone
<1>6. AskerKnown'
  BY <1>0, <1>1 DEF AskerKnown
<1>7. FlowKnown'
  BY <1>0, <1>1 DEF FlowKnown
<1>8. AnswerForAsker'
  BY <1>0, <1>1 DEF AnswerForAsker
<1> QED BY <1>2, <1>3, <1>4, <1>5, <1>6, <1>7, <1>8 DEF Serial

\* The live run that asked still holds the lease.
LEMMA AnswerLiveSerial ==
    ASSUME IInv, Serial, NEW say \in Say, AnswerLive(say)
    PROVE  Serial'
<1>0. Typed BY Types
<1>1. /\ proc' \in [Run -> Proc]
      /\ UNCHANGED <<live, lease, plane, proc, launched, requeues>> /\ live
         /\ runner.pc = "idle" /\ runner'.pc = "tell"
      /\ task.elev # "none" /\ task'.elev # "none" /\ task'.asker = task.asker
         /\ task'.worker = task.worker
      /\ \/ task'.status = "running" /\ lease.state = "active"
            /\ lease.run = task.asker
         \/ task'.status = task.status
  <2>1. /\ UNCHANGED <<live, lease, plane, proc, launched, requeues>> /\ live
           /\ runner.pc = "idle"
    BY DEF AnswerLive, Free
  <2>2. CASE /\ task.input = "waiting"
                /\ lease = [state |-> "active", run |-> task.asker]
             /\ task' = [task EXCEPT !.status = "running", !.input = say, !.elev = Decided(say)]
             /\ runner' = [pc |-> "tell", say |-> say]
    BY <1>0, <2>1, <2>2, AskedIsAsked DEF Decided, Task
  <2>3. CASE /\ task.input \in Say /\ task' = task
             /\ runner' = [pc |-> "tell", say |-> task.input]
    BY <1>0, <2>1, <2>3, AskedIsAsked DEF Say
  <2> QED BY <2>2, <2>3 DEF AnswerLive
<1>2. PointerIsLast'
  BY <1>0, <1>1 DEF PointerIsLast
<1>3. (Calm => OneAtWork)'
  BY <1>0, <1>1 DEF Calm, OneAtWork
<1>4. (Orderly => NoneOvertaken)'
  BY <1>0, <1>1 DEF Calm, OneAtWork, Orderly, NoneOvertaken
<1>5. FirstRunAlone'
  BY <1>0, <1>1 DEF FirstRunAlone
<1>6. AskerKnown'
  BY <1>0, <1>1 DEF AskerKnown
<1>7. FlowKnown'
  BY <1>0, <1>1 DEF FlowKnown
<1>8. AnswerForAsker'
  BY <1>0, <1>1 DEF AnswerForAsker
<1> QED BY <1>2, <1>3, <1>4, <1>5, <1>6, <1>7, <1>8 DEF Serial

HIDE DEF Serial, Typed

LEMMA InitSerial == Init => Serial
<1> SUFFICES ASSUME Init
             PROVE  Serial
  OBVIOUS
<1> USE ElevationAssumption, RunFacts DEF Init
<1>1. \A r \in Run : proc[r] = [pc |-> "none", mode |-> "none"]
  OBVIOUS
<1>2. PointerIsLast /\ AskerKnown
  BY <1>1 DEF PointerIsLast, AskerKnown
<1>3. OneAtWork /\ NoneOvertaken /\ FirstRunAlone
  BY <1>1 DEF OneAtWork, NoneOvertaken, FirstRunAlone
<1>4. FlowKnown /\ AnswerForAsker
  BY <1>1 DEF FlowKnown, AnswerForAsker
<1> QED BY <1>2, <1>3, <1>4 DEF Serial

LEMMA NextSerial == IInv /\ Serial /\ [Next]_vars => Serial'
<1> SUFFICES ASSUME IInv, Serial, [Next]_vars
             PROVE  Serial'
  OBVIOUS
<1>1. ASSUME NEW r \in Run, Work(r)
      PROVE  Serial'
  BY <1>1, StartSerial, ActivateSerial, RegisterSerial, LaunchSerial, SuspendSerial,
     NotifySerial, CloseDialogSerial, ClearSerial, PollRecoverySerial, FinalizeSerial,
     VerifySerial DEF Work
<1>2. ASSUME NEW r \in Run, Native(r) \/ Block(r) \/ Transport(r) \/ Crash(r) \/ Reap(r)
      PROVE  Serial'
  BY <1>2, AskSerial, ReturnSerial, BlockSerial, TakeSerial, OverdueSerial, LapseSerial,
     LoseSerial, CrashSerial, ReapSerial DEF Native, Transport
<1>3. ASSUME NEW say \in Say, AnswerEnded(say) \/ AnswerLive(say)
      PROVE  Serial'
  BY <1>3, AnswerEndedSerial, AnswerLiveSerial
<1>4. CASE Dispatch \/ Handle \/ Elapse \/ Expire \/ Reconcile
  BY <1>4, DispatchSerial, PublishSerial, SpawnSerial, AcceptSerial, TellSerial,
     CommitSerial, ElapseSerial, ExpireSerial, ReconcileSerial DEF Handle
<1>5. CASE UNCHANGED vars
  <2>1. UNCHANGED <<live, task, lease, plane, proc, runner, launched, requeues>>
    BY <1>5 DEF vars, bounds
  <2>2. PointerIsLast' /\ FlowKnown' /\ AskerKnown' /\ AnswerForAsker'
    BY <2>1 DEF Serial, PointerIsLast, FlowKnown, AskerKnown, AnswerForAsker
  <2>3. (Calm => OneAtWork)'
    BY <2>1 DEF Serial, Calm, OneAtWork
  <2>4. (Orderly => NoneOvertaken)' /\ FirstRunAlone'
    BY <2>1 DEF Serial, Orderly, NoneOvertaken, FirstRunAlone
  <2> QED BY <2>2, <2>3, <2>4 DEF Serial
<1> QED BY <1>1, <1>2, <1>3, <1>4, <1>5 DEF Next

LEMMA AlwaysSerial == Spec => [](IInv /\ Serial)
BY InitIInv, NextIInv, InitSerial, NextSerial, PTL DEF Spec

-----------------------------------------------------------------------------
\* At most one executor works on a task, under the RunLease of its own run, up
\* to the second requeue of a task that asked: the continuation of an approved
\* elevation never runs beside the worker that asked (executor.start, dispatch_worker,
\* start_task_run).
THEOREM OneExecutorLeased == Spec => []RunningIsLeased
<1>1. Serial => RunningIsLeased
  BY DEF Serial, Calm, OneAtWork, At, Running, RunningIsLeased
<1> QED BY <1>1, AlwaysSerial, PTL

\* What the SDK of a live run was told is what the task says, and a request that
\* was answered never expires or is invalidated as well, however the deadline
\* falls between Runner's two writes (respond_approval, wait_for_decision).
THEOREM AnswersNeverDiffer == Spec => []AnswersAgree
<1>1. IInv /\ Serial => AnswersAgree
  BY DEF IInv, ActorsTyped, AnswerOnItsWay, Serial, AnswerForAsker, AnswersAgree, Plane
<1> QED BY <1>1, AlwaysSerial, PTL

=============================================================================
