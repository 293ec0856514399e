------------------------------- MODULE Revival -------------------------------
(***************************************************************************)
(* How a failed task goes on: task retry, which runs the same task again   *)
(* from zero (retry_flow.py), and task handoff, which creates a successor  *)
(* iteration in its chain (service.py handoff_failed_task,                 *)
(* handoff_recovery.py), with the dispatch that requeues the failed task.  *)
(*                                                                         *)
(* A retry moves the failed attempt's session files, report and artifacts  *)
(* aside, writes the new attempt into task.json and removes what it moved; *)
(* on a failure it moves everything back and writes the record it began    *)
(* with.  Retries exclude each other by a flock, handoffs by a lock file   *)
(* that is broken when it is old; a dispatch takes neither lock.           *)
(*                                                                         *)
(* A step is one file operation, one write of task.json or one reading of  *)
(* the disk.  The executor is not Codex, its session cleanup is resolved,  *)
(* and artifacts are in the managed default place.                         *)
(***************************************************************************)
EXTENDS Naturals, FiniteSets

CONSTANTS
    Users,          \* processes that run task retry and task handoff
    Operations,     \* the operations they use
    NoUser,
    MaxAttempts,    \* bound: attempts of the task
    MaxChildren,    \* bound: successors that are ever created
    MaxRequeues,    \* bound: dispatches of the failed task
    MaxCrashes,     \* bound: processes that die
    MaxFaults       \* bound: file operations that fail

ASSUME RevivalAssumption ==
    /\ Operations \subseteq {"retry", "handoff"}
    /\ NoUser \notin Users
    /\ MaxAttempts \in Nat \ {0}
    /\ MaxChildren \in Nat
    /\ MaxRequeues \in Nat
    /\ MaxCrashes \in Nat
    /\ MaxFaults \in Nat

Attempt == 1..MaxAttempts
Child == 1..MaxChildren

VARIABLES
    task,       \* task.json: status, attempt_index, agentbc.revival
    lease,      \* the RunLease
    report, artifacts, control,     \* files of the task, by the attempt they stem from
    archive,    \* attempts/attempt-N: the session files of earlier attempts
    aside,      \* what each retry has in quarantine
    orphan,     \* quarantines nobody knows of any more
    children,   \* successor iterations in the chain
    retryLock,  \* holder of .retry-flow.lock
    handoffLock,\* the file .handoff-recovery.lock
    proc,
    requeues, crashes, faults,
    made,       \* bound: successors created so far
    crossed,    \* history: a command or a run got into a revival under way
    damaged,    \* history: attempts whose artifacts a failing removal destroyed
    broken      \* history: an old lock file was removed

files == <<report, artifacts, control, archive, aside, orphan>>
locks == <<retryLock, handoffLock>>
bounds == <<requeues, crashes, faults, made>>
vars == <<task, lease, files, children, locks, proc, bounds, crossed, damaged, broken>>

-----------------------------------------------------------------------------
Revived(state, op) == [state |-> state, op |-> op]
Reservation == [state : {"none", "reserved", "committed", "released"},
                op : {"none", "retry", "handoff"}]
Record == [status : {"failed", "pending", "running"}, attempt : Attempt,
           revival : Reservation]

Reserved(t) == t.revival.state = "reserved"

Dir == [there : BOOLEAN, of : SUBSET Attempt]
NoDir == [there |-> FALSE, of |-> {}]
EmptyDir == [there |-> TRUE, of |-> {}]

Nothing == [report |-> {}, artifacts |-> NoDir]

NoLock == [there |-> FALSE, old |-> FALSE]

NoRecord == [status |-> "pending", attempt |-> 1, revival |-> Revived("none", "none")]
Idle == [pc |-> "idle", snap |-> NoRecord, child |-> 0, fresh |-> FALSE]

RetrySteps == {"reserve", "archive", "report", "artifacts", "mkdir", "commit", "purge",
               "undo files", "undo record"}
HandoffSteps == {"handoff reserve", "create", "attach", "source", "undo handoff"}

\* A revival is under way from its reservation to its last write.
Reviving(u) == proc[u].pc \in (RetrySteps \cup HandoffSteps)
Others(u) == \E v \in Users \ {u} : Reviving(v)

Goto(u, pc) == proc' = [proc EXCEPT ![u].pc = pc]
Stop(u) == proc' = [proc EXCEPT ![u] = Idle]

-----------------------------------------------------------------------------
(* Retry: FailedTaskRetryFlow.execute, under .retry-flow.lock.             *)

\* preflight: a current head that failed, with a closed RunLease and no open
\* reservation.  An open one of an earlier retry is a conflict as well.
RetryPreflight ==
    /\ task.status = "failed"
    /\ lease = "closed"
    /\ ~Reserved(task)
    /\ children = {}

RetryBegin(u) ==
    /\ "retry" \in Operations
    /\ proc[u].pc = "idle"
    /\ retryLock = NoUser
    /\ RetryPreflight
    /\ task.attempt < MaxAttempts
    /\ retryLock' = u
    /\ proc' = [proc EXCEPT ![u] = [Idle EXCEPT !.pc = "reserve", !.snap = task]]
    /\ UNCHANGED <<task, lease, files, children, handoffLock, bounds, crossed, damaged, broken>>

\* Whole records are written, made from the one the retry began with.
Reserve(u) ==
    /\ proc[u].pc = "reserve"
    /\ task' = [proc[u].snap EXCEPT !.revival = Revived("reserved", "retry")]
    /\ crossed' = (crossed \/ Others(u) \/ task # proc[u].snap)
    /\ Goto(u, "archive")
    /\ UNCHANGED <<lease, files, children, locks, bounds, damaged, broken>>

\* os.replace moves the session files; a copy would leave them.
Copied == control
Moved == {}

\* _archive_active_session_state undoes itself when it fails.
Archive(u) ==
    LET n == proc[u].snap.attempt IN
    /\ proc[u].pc = "archive"
    /\ IF archive[n].there
       THEN Goto(u, "undo record") /\ UNCHANGED <<archive, control>>
       ELSE /\ archive' = [archive EXCEPT ![n] = [there |-> TRUE, of |-> control]]
            /\ control' = Moved
            /\ Goto(u, "report")
    /\ UNCHANGED <<task, lease, report, artifacts, aside, orphan, children, locks, bounds,
                   crossed, damaged, broken>>

QuarantineReport(u) ==
    /\ proc[u].pc = "report"
    /\ aside' = [aside EXCEPT ![u].report = report]
    /\ report' = {}
    /\ Goto(u, "artifacts")
    /\ UNCHANGED <<task, lease, artifacts, control, archive, orphan, children, locks, bounds,
                   crossed, damaged, broken>>

QuarantineArtifacts(u) ==
    /\ proc[u].pc = "artifacts"
    /\ aside' = [aside EXCEPT ![u].artifacts = artifacts]
    /\ artifacts' = NoDir
    /\ Goto(u, "mkdir")
    /\ UNCHANGED <<task, lease, report, control, archive, orphan, children, locks, bounds,
                   crossed, damaged, broken>>

\* mkdir with exist_ok=False
MakeArtifacts(u) ==
    /\ proc[u].pc = "mkdir"
    /\ IF artifacts.there
       THEN Goto(u, "undo files") /\ UNCHANGED artifacts
       ELSE /\ artifacts' = EmptyDir
            /\ proc' = [proc EXCEPT ![u].pc = "commit", ![u].fresh = TRUE]
    /\ UNCHANGED <<task, lease, report, control, archive, aside, orphan, children, locks,
                   bounds, crossed, damaged, broken>>

NextAttempt(n) == n + 1

Renewed(t) == [status |-> "pending", attempt |-> NextAttempt(t.attempt),
               revival |-> Revived("committed", "retry")]

\* _prepare_retry_task closes the old lease.
CommitRetry(u) ==
    /\ proc[u].pc = "commit"
    /\ task' = Renewed(proc[u].snap)
    /\ lease' = "closed"
    /\ crossed' = (crossed \/ Others(u))
    /\ Goto(u, "purge")
    /\ UNCHANGED <<files, children, locks, bounds, damaged, broken>>

Purge(u) ==
    /\ proc[u].pc = "purge"
    /\ aside' = [aside EXCEPT ![u] = Nothing]
    /\ retryLock' = NoUser
    /\ Stop(u)
    /\ UNCHANGED <<task, lease, report, artifacts, control, archive, orphan, children,
                   handoffLock, bounds, crossed, damaged, broken>>

\* An operation fails, and the retry is undone.
RetryFault(u) ==
    /\ faults < MaxFaults
    /\ faults' = faults + 1
    /\ \/ proc[u].pc = "archive" /\ Goto(u, "undo record")
       \/ /\ proc[u].pc \in {"report", "artifacts", "mkdir", "commit"}
          /\ Goto(u, "undo files")
    /\ UNCHANGED <<task, lease, files, children, locks, requeues, crashes, made, crossed,
                   damaged, broken>>

\* commit removes the quarantined artifacts, then the report.  If that fails, a part
\* of the artifacts is gone, or all of them, and the new attempt is on disk: it is
\* undone all the same.
PurgeFault(u) ==
    /\ proc[u].pc = "purge"
    /\ faults < MaxFaults
    /\ faults' = faults + 1
    /\ \/ \E left \in SUBSET aside[u].artifacts.of :
             aside' = [aside EXCEPT ![u].artifacts.of = left]
       \/ aside' = [aside EXCEPT ![u].artifacts = NoDir]
    /\ damaged' = damaged \cup {proc[u].snap.attempt}
    /\ crossed' = (crossed \/ task # Renewed(proc[u].snap))
    /\ Goto(u, "undo files")
    /\ UNCHANGED <<task, lease, report, artifacts, control, archive, orphan, children, locks,
                   requeues, crashes, made, broken>>

RestoredFresh(a, cleared) == IF a.artifacts.there THEN EmptyDir ELSE cleared
Restored(a, cleared) == IF a.artifacts.there THEN a.artifacts ELSE cleared

\* rollback: what was moved goes back to its place, the fresh artifacts are
\* removed with all that is in them.  Each may fail, and then the rest stays aside.
UndoFiles(u) ==
    LET n == proc[u].snap.attempt
        a == aside[u]
        cleared == IF proc[u].fresh THEN NoDir ELSE artifacts
        blocked == a.artifacts.there /\ cleared.there /\ cleared.of # {} IN
    /\ proc[u].pc = "undo files"
    /\ IF blocked
       THEN /\ artifacts' = cleared
            /\ orphan' = [report |-> orphan.report \cup a.report,
                          artifacts |-> orphan.artifacts \cup a.artifacts.of]
            /\ UNCHANGED <<report, control, archive>>
       ELSE /\ artifacts' = Restored(a, cleared)
            /\ report' = IF a.report # {} THEN a.report ELSE report
            /\ control' = IF archive[n].of # {} THEN archive[n].of ELSE control
            /\ archive' = [archive EXCEPT ![n] = NoDir]
            /\ UNCHANGED orphan
    /\ aside' = [aside EXCEPT ![u] = Nothing]
    /\ Goto(u, "undo record")
    /\ UNCHANGED <<task, lease, children, locks, bounds, crossed, damaged, broken>>

UndoWrite(u) == task' = proc[u].snap

UndoRecord(u) ==
    /\ proc[u].pc = "undo record"
    /\ UndoWrite(u)
    /\ crossed' = (crossed \/ Others(u))
    /\ retryLock' = NoUser
    /\ Stop(u)
    /\ UNCHANGED <<lease, files, children, handoffLock, bounds, damaged, broken>>

-----------------------------------------------------------------------------
(* Handoff: handoff_failed_task, its last part under the lock file.        *)

\* The source record is read once, before the lock.  A reservation of a handoff
\* that died does not block the next one; a report that is missing is made again.
HandoffBegin(u) ==
    /\ "handoff" \in Operations
    /\ proc[u].pc = "idle"
    /\ task.status = "failed"
    /\ lease = "closed"
    /\ Reserved(task) => task.revival.op = "handoff"
    /\ children = {}
    /\ report' = IF report = {} THEN {task.attempt} ELSE report
    /\ proc' = [proc EXCEPT ![u] = [Idle EXCEPT !.pc = "stat", !.snap = task]]
    /\ UNCHANGED <<task, lease, artifacts, control, archive, aside, orphan, children, locks,
                   bounds, crossed, damaged, broken>>

\* _break_stale_lock: an old file is removed, whoever's it is by then.
Stat(u) ==
    /\ proc[u].pc = "stat"
    /\ Goto(u, IF handoffLock.there /\ handoffLock.old THEN "break" ELSE "open")
    /\ UNCHANGED <<task, lease, files, children, locks, bounds, crossed, damaged, broken>>

Break(u) ==
    /\ proc[u].pc = "break"
    /\ handoffLock' = NoLock
    /\ broken' = TRUE
    /\ Goto(u, "open")
    /\ UNCHANGED <<task, lease, files, children, retryLock, bounds, crossed, damaged>>

\* O_CREAT | O_EXCL; after five seconds of trying the command gives up.
OpenLock(u) ==
    /\ proc[u].pc = "open"
    /\ \/ /\ ~handoffLock.there
          /\ handoffLock' = [there |-> TRUE, old |-> FALSE]
          /\ Goto(u, "check")
       \/ handoffLock.there /\ Goto(u, "stat") /\ UNCHANGED handoffLock
       \/ handoffLock.there /\ Stop(u) /\ UNCHANGED handoffLock
    /\ UNCHANGED <<task, lease, files, children, retryLock, bounds, crossed, damaged, broken>>

\* release removes the file, whoever's it is.
Release == handoffLock' = NoLock

NoRecheck == TRUE
NoChildYet == children = {}

\* "Conclusive duplicate check".
Check(u) ==
    /\ proc[u].pc = "check"
    /\ IF NoChildYet THEN Goto(u, "handoff reserve") /\ UNCHANGED handoffLock
                     ELSE Stop(u) /\ Release
    /\ UNCHANGED <<task, lease, files, children, retryLock, bounds, crossed, damaged, broken>>

HandoffReserve(u) ==
    /\ proc[u].pc = "handoff reserve"
    /\ task' = [proc[u].snap EXCEPT !.revival = Revived("reserved", "handoff")]
    /\ crossed' = (crossed \/ Others(u) \/ task # proc[u].snap)
    /\ Goto(u, "create")
    /\ UNCHANGED <<lease, files, children, locks, bounds, damaged, broken>>

\* create_task: the successor is on disk, without the recovery record yet.
CreateChild(u) ==
    /\ proc[u].pc = "create"
    /\ made < MaxChildren
    /\ made' = made + 1
    /\ children' = children \cup {made + 1}
    /\ proc' = [proc EXCEPT ![u].pc = "attach", ![u].child = made + 1]
    /\ UNCHANGED <<task, lease, files, locks, requeues, crashes, faults, crossed, damaged, broken>>

\* The recovery record is attached to the successor.
Attach(u) ==
    /\ proc[u].pc = "attach"
    /\ Goto(u, "source")
    /\ UNCHANGED <<task, lease, files, children, locks, bounds, crossed, damaged, broken>>

CommitHandoff(u) ==
    /\ proc[u].pc = "source"
    /\ task' = [proc[u].snap EXCEPT !.revival = Revived("committed", "handoff")]
    /\ crossed' = (crossed \/ Others(u))
    /\ Release
    /\ Stop(u)
    /\ UNCHANGED <<lease, files, children, retryLock, bounds, damaged, broken>>

HandoffFault(u) ==
    /\ proc[u].pc \in {"create", "attach", "source"}
    /\ faults < MaxFaults
    /\ faults' = faults + 1
    /\ Goto(u, "undo handoff")
    /\ UNCHANGED <<task, lease, files, children, locks, requeues, crashes, made, crossed,
                   damaged, broken>>

\* The record is restored with a released reservation, the successor removed.
UndoHandoff(u) ==
    /\ proc[u].pc = "undo handoff"
    /\ task' = [proc[u].snap EXCEPT !.revival = Revived("released", "handoff")]
    /\ children' = children \ {proc[u].child}
    /\ crossed' = (crossed \/ Others(u))
    /\ Release
    /\ Stop(u)
    /\ UNCHANGED <<lease, files, retryLock, bounds, damaged, broken>>

-----------------------------------------------------------------------------
(* Around the revivals.                                                    *)

\* requeue_task, by a dispatch: the report is removed, the artifacts stay.
Requeue ==
    /\ task.status = "failed"
    /\ lease = "closed"
    /\ requeues < MaxRequeues
    /\ requeues' = requeues + 1
    /\ task' = [task EXCEPT !.status = "pending"]
    /\ report' = {}
    /\ artifacts' = [artifacts EXCEPT !.there = TRUE]
    /\ crossed' = (crossed \/ \E u \in Users : Reviving(u))
    /\ UNCHANGED <<lease, control, archive, aside, orphan, children, locks, proc, crashes, faults,
                   made, damaged, broken>>

\* A worker runs the task: it leaves session files and artifacts, and a report.  It
\* gets into a revival if the retry that made the attempt is being undone.
StartRun ==
    /\ task.status = "pending"
    /\ crossed' = (crossed \/ \E u \in Users : proc[u].pc \in {"undo files", "undo record"})
    /\ task' = [task EXCEPT !.status = "running"]
    /\ lease' = "open"
    /\ artifacts' = [there |-> TRUE, of |-> artifacts.of \cup {task.attempt}]
    /\ control' = control \cup {task.attempt}
    /\ UNCHANGED <<report, archive, aside, orphan, children, locks, proc, bounds, damaged, broken>>

FailRun ==
    /\ task.status = "running"
    /\ task' = [task EXCEPT !.status = "failed"]
    /\ lease' = "closed"
    /\ report' = {task.attempt}
    /\ UNCHANGED <<artifacts, control, archive, aside, orphan, children, locks, proc, bounds,
                   crossed, damaged, broken>>

\* Thirty seconds pass: HANDOFF_RECOVERY_LOCK_STALE_S.  The section under the lock
\* is shorter, so only the file of a dead process gets so old.
LockAges ==
    /\ handoffLock.there
    /\ ~handoffLock.old
    /\ \A u \in Users : proc[u].pc \notin (HandoffSteps \cup {"check"})
    /\ handoffLock' = [handoffLock EXCEPT !.old = TRUE]
    /\ UNCHANGED <<task, lease, files, children, retryLock, proc, bounds, crossed, damaged, broken>>

\* The kernel drops a flock, a lock file stays.
Crash(u) ==
    /\ proc[u].pc # "idle"
    /\ crashes < MaxCrashes
    /\ crashes' = crashes + 1
    /\ orphan' = [report |-> orphan.report \cup aside[u].report,
                  artifacts |-> orphan.artifacts \cup aside[u].artifacts.of]
    /\ aside' = [aside EXCEPT ![u] = Nothing]
    /\ retryLock' = IF retryLock = u THEN NoUser ELSE retryLock
    /\ Stop(u)
    /\ UNCHANGED <<task, lease, report, artifacts, control, archive, children, handoffLock,
                   requeues, faults, made, crossed, damaged, broken>>

-----------------------------------------------------------------------------
Init ==
    /\ task = [status |-> "pending", attempt |-> 1, revival |-> Revived("none", "none")]
    /\ lease = "closed"
    /\ report = {} /\ artifacts = EmptyDir /\ control = {}
    /\ archive = [n \in Attempt |-> NoDir]
    /\ aside = [u \in Users |-> Nothing]
    /\ orphan = [report |-> {}, artifacts |-> {}]
    /\ children = {}
    /\ retryLock = NoUser /\ handoffLock = NoLock
    /\ proc = [u \in Users |-> Idle]
    /\ requeues = 0 /\ crashes = 0 /\ faults = 0 /\ made = 0
    /\ crossed = FALSE /\ damaged = {} /\ broken = FALSE

RetryStep(u) ==
    \/ RetryBegin(u) \/ Reserve(u) \/ Archive(u) \/ QuarantineReport(u)
    \/ QuarantineArtifacts(u) \/ MakeArtifacts(u) \/ CommitRetry(u) \/ Purge(u)
    \/ RetryFault(u) \/ PurgeFault(u) \/ UndoFiles(u) \/ UndoRecord(u)

HandoffStep(u) ==
    \/ HandoffBegin(u) \/ Stat(u) \/ Break(u) \/ OpenLock(u) \/ Check(u)
    \/ HandoffReserve(u) \/ CreateChild(u) \/ Attach(u) \/ CommitHandoff(u)
    \/ HandoffFault(u) \/ UndoHandoff(u)

Next ==
    \/ \E u \in Users : RetryStep(u) \/ HandoffStep(u) \/ Crash(u)
    \/ Requeue \/ StartRun \/ FailRun \/ LockAges

Spec == Init /\ [][Next]_vars
-----------------------------------------------------------------------------
(* Properties.                                                             *)

\* The records of the failed task, of its files in place, aside and in the archive,
\* and of the commands at work on it are well formed (retry_flow.py,
\* handoff_recovery.py).
TypeOK ==
    /\ task \in Record
    /\ lease \in {"open", "closed"}
    /\ report \subseteq Attempt
    /\ artifacts \in Dir
    /\ control \subseteq Attempt
    /\ archive \in [Attempt -> Dir]
    /\ aside \in [Users -> [report : SUBSET Attempt, artifacts : Dir]]
    /\ orphan \in [report : SUBSET Attempt, artifacts : SUBSET Attempt]
    /\ children \subseteq Child
    /\ retryLock \in Users \cup {NoUser}
    /\ handoffLock \in [there : BOOLEAN, old : BOOLEAN]
    /\ proc \in [Users ->
          [pc : {"idle", "stat", "break", "open", "check"} \cup RetrySteps \cup HandoffSteps,
           snap : Record, child : 0..MaxChildren, fresh : BOOLEAN]]
    /\ requeues \in 0..MaxRequeues /\ crashes \in 0..MaxCrashes
    /\ faults \in 0..MaxFaults /\ made \in 0..MaxChildren
    /\ crossed \in BOOLEAN /\ damaged \subseteq Attempt /\ broken \in BOOLEAN

\* As long as the failed attempt stands, its artifacts, its report and its session
\* files exist, in place or aside, wherever a retry failed or died, unless another
\* command or a run got into the revival; a dispatch may remove the report.  Only
\* artifacts do not survive if their removal fails, after the new attempt was written:
\* the record says "failed" again, and part of what it is about is gone
\* (_RetryCleanupTransaction, commit and rollback).
EvidenceKept ==
    task.status = "failed" /\ ~crossed =>
        /\ \/ task.attempt \in artifacts.of \cup orphan.artifacts \cup damaged
           \/ \E u \in Users : task.attempt \in aside[u].artifacts.of
        /\ \/ task.attempt \in report \cup orphan.report
           \/ \E u \in Users : task.attempt \in aside[u].report
        /\ task.attempt \in control \cup archive[task.attempt].of

\* An attempt from zero finds nothing of an earlier one, unless another command got
\* into the revival, the attempt was being undone when its run started, or a command
\* died after the removal that follows a commit had failed
\* (_RetryCleanupTransaction.perform, execute).
FreshStart ==
    [][/\ StartRun /\ task.revival = Revived("committed", "retry")
       /\ ~crossed' /\ (damaged = {} \/ crashes = 0)
       => /\ artifacts.of \subseteq {task.attempt}
          /\ report = {}
          /\ control \subseteq {task.attempt}]_vars

\* A reservation is open only while its command runs, unless a process died: no
\* path of failure leaves one behind (execute, handoff_failed_task).
ReservationHasOwner ==
    Reserved(task) /\ crashes = 0 /\ ~crossed => \E u \in Users : Reviving(u)

\* One failed task has one successor, even if commands run at the same time and
\* die, as long as no old lock is broken (HandoffRecoveryLock).
OneSuccessorUnderLock == ~broken => Cardinality(children) <= 1
=============================================================================
