---------------------------- MODULE Revival_proofs ----------------------------
(***************************************************************************)
(* Proofs about Revival, for any users, attempts, requeues, deaths and     *)
(* failing file operations.                                                *)
(*                                                                         *)
(* The lock file of handoffs protects as long as nobody removes an old one *)
(* (LockInv): its holder is alone, and what it does depends on the children*)
(* it saw under the lock.  A reservation is closed by the command that     *)
(* opened it, unless it dies or another writes in between (OwnerInv).      *)
(* While nobody does, what a retry has moved is neither lost nor left to   *)
(* the attempt it starts (KeptInv).                                        *)
(***************************************************************************)
EXTENDS Revival, FiniteSetTheorems, TLAPS

Step == {"idle", "stat", "break", "open", "check"} \cup RetrySteps \cup HandoffSteps
Command == [pc : Step, snap : Record, child : 0..MaxChildren, fresh : BOOLEAN]

FilesTyped ==
    /\ report \subseteq Attempt /\ artifacts \in Dir /\ control \subseteq Attempt
    /\ archive \in [Attempt -> Dir]
    /\ aside \in [Users -> [report : SUBSET Attempt, artifacts : Dir]]
    /\ orphan \in [report : SUBSET Attempt, artifacts : SUBSET Attempt]

LocksTyped ==
    /\ retryLock \in Users \cup {NoUser}
    /\ handoffLock \in [there : BOOLEAN, old : BOOLEAN]

BoundsTyped ==
    /\ requeues \in 0..MaxRequeues /\ crashes \in 0..MaxCrashes
    /\ faults \in 0..MaxFaults /\ made \in 0..MaxChildren

HistoryTyped == crossed \in BOOLEAN /\ damaged \subseteq Attempt /\ broken \in BOOLEAN

\* The types, in parts; a retry has room for the attempt it makes.
TypeInv ==
    /\ task \in Record /\ lease \in {"open", "closed"} /\ children \subseteq Child
    /\ FilesTyped /\ LocksTyped /\ BoundsTyped /\ HistoryTyped
    /\ proc \in [Users -> Command]
    /\ \A u \in Users : proc[u].pc \in RetrySteps => proc[u].snap.attempt < MaxAttempts

-----------------------------------------------------------------------------
(* What becomes of a command.                                              *)

LEMMA IdleFacts == Idle \in Command /\ Idle.pc = "idle" /\ Idle.pc \notin RetrySteps
BY RevivalAssumption
   DEF Idle, Command, Step, NoRecord, Record, Reservation, Revived, Attempt, RetrySteps

\* A step of u leaves the commands of the others, and moves its own.
Moves(u, Pcs) ==
    /\ proc' \in [Users -> Command]
    /\ \A v \in Users \ {u} : proc'[v] = proc[v]
    /\ proc'[u].pc \in Pcs

LEMMA GotoMoves ==
    ASSUME proc \in [Users -> Command], NEW u \in Users, NEW pc \in Step, Goto(u, pc)
    PROVE  /\ Moves(u, {pc})
           /\ proc'[u].snap = proc[u].snap /\ proc'[u].child = proc[u].child
BY DEF Goto, Moves, Command

LEMMA StopMoves ==
    ASSUME proc \in [Users -> Command], NEW u \in Users, Stop(u)
    PROVE  Moves(u, {"idle"})
BY IdleFacts DEF Stop, Moves

LEMMA BeginMoves ==
    ASSUME proc \in [Users -> Command], task \in Record, NEW u \in Users, NEW pc \in Step,
           proc' = [proc EXCEPT ![u] = [Idle EXCEPT !.pc = pc, !.snap = task]]
    PROVE  Moves(u, {pc}) /\ proc'[u].snap = task
<1>1. /\ [Idle EXCEPT !.pc = pc, !.snap = task] \in Command
      /\ [Idle EXCEPT !.pc = pc, !.snap = task].pc = pc
      /\ [Idle EXCEPT !.pc = pc, !.snap = task].snap = task
  BY IdleFacts DEF Command
<1> QED BY <1>1 DEF Moves

\* The record with another reservation.
LEMMA RecordTyped ==
    ASSUME NEW t \in Record,
           NEW state \in {"none", "reserved", "committed", "released"},
           NEW op \in {"none", "retry", "handoff"},
           NEW status \in {"failed", "pending", "running"}
    PROVE  /\ [t EXCEPT !.revival = Revived(state, op)] \in Record
           /\ [t EXCEPT !.revival = Revived(state, op)].revival.state = state
           /\ [t EXCEPT !.status = status] \in Record
           /\ [t EXCEPT !.status = status].revival = t.revival
           /\ [t EXCEPT !.status = status].attempt = t.attempt
BY DEF Record, Revived, Reservation

-----------------------------------------------------------------------------
(* The type invariant.                                                     *)

LEMMA InitTypeInv == Init => TypeInv
<1> SUFFICES ASSUME Init
             PROVE  TypeInv
  OBVIOUS
<1>1. proc \in [Users -> Command] /\ \A u \in Users : proc[u].pc \notin RetrySteps
  BY IdleFacts DEF Init
<1>2. 1 \in Attempt /\ task \in Record
  BY RevivalAssumption DEF Init, Record, Reservation, Revived, Attempt
<1>3. archive \in [Attempt -> Dir] /\ artifacts \in Dir
  BY DEF Init, Dir, NoDir, EmptyDir
<1>4. aside \in [Users -> [report : SUBSET Attempt, artifacts : Dir]]
  BY DEF Init, Dir, NoDir, Nothing
<1>5. orphan \in [report : SUBSET Attempt, artifacts : SUBSET Attempt]
  BY DEF Init
<1>6. FilesTyped
  BY <1>3, <1>4, <1>5 DEF Init, FilesTyped
<1>7. LocksTyped
  BY DEF Init, LocksTyped, NoLock
<1>8. BoundsTyped
  BY RevivalAssumption DEF Init, BoundsTyped
<1>9. HistoryTyped
  BY DEF Init, HistoryTyped
<1> QED BY <1>1, <1>2, <1>6, <1>7, <1>8, <1>9 DEF TypeInv, Init

LEMMA TypeInvIsType == TypeInv => TypeOK
BY DEF TypeInv, TypeOK, FilesTyped, LocksTyped, BoundsTyped, HistoryTyped, Command, Step

-----------------------------------------------------------------------------
LEMMA NextBounds ==
    ASSUME TypeInv, Next
    PROVE  BoundsTyped'
<1>0. BoundsTyped
  BY DEF TypeInv
<1>1. CASE UNCHANGED bounds
  BY <1>0, <1>1 DEF BoundsTyped, bounds
<1>2. ASSUME NEW u \in Users, RetryFault(u) \/ PurgeFault(u) \/ HandoffFault(u)
      PROVE  BoundsTyped'
  <2>1. faults < MaxFaults /\ faults' = faults + 1
        /\ UNCHANGED <<requeues, crashes, made>>
    BY <1>2 DEF RetryFault, PurgeFault, HandoffFault
  <2> QED BY <1>0, <2>1, RevivalAssumption DEF BoundsTyped
<1>3. ASSUME NEW u \in Users, CreateChild(u)
      PROVE  BoundsTyped'
  BY <1>0, <1>3, RevivalAssumption DEF CreateChild, BoundsTyped
<1>4. ASSUME NEW u \in Users, Crash(u)
      PROVE  BoundsTyped'
  BY <1>0, <1>4, RevivalAssumption DEF Crash, BoundsTyped
<1>5. CASE Requeue
  BY <1>0, <1>5, RevivalAssumption DEF Requeue, BoundsTyped
<1>6. ASSUME NEW u \in Users,
             \/ RetryStep(u) /\ ~RetryFault(u) /\ ~PurgeFault(u)
             \/ HandoffStep(u) /\ ~HandoffFault(u) /\ ~CreateChild(u)
      PROVE  UNCHANGED bounds
  BY <1>6 DEF RetryStep, RetryBegin, Reserve, Archive, QuarantineReport,
              QuarantineArtifacts, MakeArtifacts, CommitRetry, Purge, UndoFiles,
              UndoRecord, HandoffStep, HandoffBegin, Stat, Break, OpenLock, Check,
              HandoffReserve, Attach, CommitHandoff, UndoHandoff
<1>7. CASE StartRun \/ FailRun \/ LockAges
  BY <1>1, <1>7 DEF StartRun, FailRun, LockAges
<1> QED BY <1>1, <1>2, <1>3, <1>4, <1>5, <1>6, <1>7 DEF Next

LEMMA NextHistory ==
    ASSUME TypeInv, Next
    PROVE  HistoryTyped'
<1> USE DEF TypeInv, HistoryTyped
<1>1. ASSUME NEW u \in Users, RetryStep(u)
      PROVE  HistoryTyped'
  <2>1. crossed' \in BOOLEAN
    BY <1>1, Zenon DEF RetryStep, RetryBegin, Reserve, Archive, QuarantineReport,
              QuarantineArtifacts, MakeArtifacts, CommitRetry, Purge, RetryFault, PurgeFault,
              UndoFiles, UndoRecord
  <2>3. damaged' \subseteq Attempt
    <3>1. proc[u].snap.attempt \in Attempt
      BY DEF Command, Record
    <3>2. CASE PurgeFault(u)
      BY <3>1, <3>2 DEF PurgeFault
    <3>3. CASE UNCHANGED damaged
      BY <3>3
    <3> QED
      BY <1>1, <3>2, <3>3 DEF RetryStep, RetryBegin, Reserve, Archive, QuarantineReport,
              QuarantineArtifacts, MakeArtifacts, CommitRetry, Purge, RetryFault,
              UndoFiles, UndoRecord
  <2>2. broken' = broken
    BY <1>1 DEF RetryStep, RetryBegin, Reserve, Archive, QuarantineReport,
              QuarantineArtifacts, MakeArtifacts, CommitRetry, Purge, RetryFault, PurgeFault,
              UndoFiles, UndoRecord
  <2> QED BY <2>1, <2>2, <2>3
<1>2. ASSUME NEW u \in Users, HandoffStep(u)
      PROVE  HistoryTyped'
  BY <1>2, Zenon DEF HandoffStep, HandoffBegin, Stat, Break, OpenLock, Check,
              HandoffReserve, CreateChild, Attach, CommitHandoff, HandoffFault, UndoHandoff
<1>3. ASSUME NEW u \in Users, Crash(u)
      PROVE  HistoryTyped'
  BY <1>3 DEF Crash
<1>4. CASE Requeue \/ StartRun \/ FailRun \/ LockAges
  BY <1>4, Zenon DEF Requeue, StartRun, FailRun, LockAges
<1> QED BY <1>1, <1>2, <1>3, <1>4 DEF Next

LEMMA NextLocks ==
    ASSUME TypeInv, Next
    PROVE  LocksTyped'
<1> USE DEF TypeInv, LocksTyped, locks
<1>0. NoLock \in [there : BOOLEAN, old : BOOLEAN]
      /\ [there |-> TRUE, old |-> FALSE] \in [there : BOOLEAN, old : BOOLEAN]
  BY DEF NoLock
<1>1. ASSUME NEW u \in Users, RetryStep(u)
      PROVE  LocksTyped'
  BY <1>1 DEF RetryStep, RetryBegin, Reserve, Archive, QuarantineReport,
              QuarantineArtifacts, MakeArtifacts, CommitRetry, Purge, RetryFault, PurgeFault,
              UndoFiles, UndoRecord
<1>2. ASSUME NEW u \in Users, HandoffStep(u)
      PROVE  LocksTyped'
  BY <1>0, <1>2 DEF HandoffStep, HandoffBegin, Stat, Break, OpenLock, Check, Release,
              HandoffReserve, CreateChild, Attach, CommitHandoff, HandoffFault, UndoHandoff
<1>3. ASSUME NEW u \in Users, Crash(u)
      PROVE  LocksTyped'
  BY <1>3 DEF Crash
<1>4. CASE Requeue \/ StartRun \/ FailRun
  BY <1>4 DEF Requeue, StartRun, FailRun
<1>5. CASE LockAges
  BY <1>5 DEF LockAges
<1> QED BY <1>1, <1>2, <1>3, <1>4, <1>5 DEF Next

\* Files are moved, and made for attempts that are.
LEMMA NextFiles ==
    ASSUME TypeInv, Next
    PROVE  FilesTyped'
<1>0. FilesTyped /\ task \in Record /\ task.attempt \in Attempt
  BY DEF TypeInv, Record
<1> USE DEF FilesTyped
<1>1. /\ NoDir \in Dir /\ EmptyDir \in Dir
      /\ Nothing \in [report : SUBSET Attempt, artifacts : Dir]
  BY DEF NoDir, EmptyDir, Dir, Nothing
<1>2. CASE UNCHANGED files
  BY <1>0, <1>2 DEF files
<1>3. ASSUME NEW u \in Users, Archive(u)
      PROVE  FilesTyped'
  <2>1. [there |-> TRUE, of |-> control] \in Dir
    BY <1>0 DEF Dir
  <2> QED BY <1>0, <1>3, <2>1 DEF Archive, Moved
<1>4. ASSUME NEW u \in Users, QuarantineReport(u)
      PROVE  FilesTyped'
  BY <1>0, <1>4 DEF QuarantineReport
<1>5. ASSUME NEW u \in Users, QuarantineArtifacts(u) \/ MakeArtifacts(u)
      PROVE  FilesTyped'
  <2>1. CASE QuarantineArtifacts(u)
    <3>1. [aside[u] EXCEPT !.artifacts = artifacts]
            \in [report : SUBSET Attempt, artifacts : Dir]
      BY <1>0
    <3> QED BY <1>0, <1>1, <2>1, <3>1 DEF QuarantineArtifacts
  <2>2. CASE MakeArtifacts(u)
    BY <1>0, <1>1, <2>2 DEF MakeArtifacts
  <2> QED BY <1>5, <2>1, <2>2
<1>6. ASSUME NEW u \in Users, Purge(u)
      PROVE  FilesTyped'
  BY <1>0, <1>1, <1>6 DEF Purge
<1>7. ASSUME NEW u \in Users, PurgeFault(u)
      PROVE  FilesTyped'
  <2>1. ASSUME NEW left \in SUBSET aside[u].artifacts.of,
               aside' = [aside EXCEPT ![u].artifacts.of = left]
        PROVE  aside' \in [Users -> [report : SUBSET Attempt, artifacts : Dir]]
    BY <1>0, <2>1 DEF Dir
  <2>2. UNCHANGED <<report, artifacts, control, archive, orphan>>
    BY <1>7 DEF PurgeFault
  <2>3. ASSUME aside' = [aside EXCEPT ![u].artifacts = NoDir]
        PROVE  aside' \in [Users -> [report : SUBSET Attempt, artifacts : Dir]]
    BY <1>0, <1>1, <2>3
  <2>4. aside' \in [Users -> [report : SUBSET Attempt, artifacts : Dir]]
    BY <1>7, <2>1, <2>3 DEF PurgeFault
  <2> QED BY <1>0, <2>2, <2>4
<1>8. ASSUME NEW u \in Users, UndoFiles(u)
      PROVE  FilesTyped'
  <2> DEFINE a == aside[u]
             cleared == IF proc[u].fresh THEN NoDir ELSE artifacts
             set == [report |-> orphan.report \cup a.report,
                     artifacts |-> orphan.artifacts \cup a.artifacts.of]
  <2>1. /\ a \in [report : SUBSET Attempt, artifacts : Dir] /\ cleared \in Dir
        /\ Restored(a, cleared) \in Dir
    BY <1>0, <1>1 DEF Restored
  <2>2. set \in [report : SUBSET Attempt, artifacts : SUBSET Attempt]
    BY <1>0, <2>1 DEF Dir
  <2>3. \A n \in Attempt : archive[n].of \subseteq Attempt
    BY <1>0 DEF Dir
  <2>4. aside' \in [Users -> [report : SUBSET Attempt, artifacts : Dir]]
    BY <1>0, <1>1, <1>8 DEF UndoFiles
  <2>5. artifacts' \in {cleared, Restored(a, cleared)} /\ orphan' \in {orphan, set}
    BY <1>8 DEF UndoFiles
  <2>6. /\ report' \in {report, a.report}
        /\ control' \in {control, archive[proc[u].snap.attempt].of}
        /\ archive' \in {archive, [archive EXCEPT ![proc[u].snap.attempt] = NoDir]}
    BY <1>8 DEF UndoFiles
  <2>7. proc[u].snap.attempt \in Attempt
    BY DEF TypeInv, Command, Record
  <2> HIDE DEF cleared, set
  <2> QED BY <1>0, <1>1, <2>1, <2>2, <2>3, <2>4, <2>5, <2>6, <2>7
<1>9. ASSUME NEW u \in Users, HandoffStep(u)
      PROVE  FilesTyped'
  <2>1. report' \in {report, {task.attempt}}
        /\ UNCHANGED <<artifacts, control, archive, aside, orphan>>
    BY <1>9 DEF files, HandoffStep, HandoffBegin, Stat, Break, OpenLock, Check,
                HandoffReserve, CreateChild, Attach, CommitHandoff, HandoffFault,
                UndoHandoff
  <2> QED BY <1>0, <2>1
<1>10. ASSUME NEW u \in Users, Crash(u)
       PROVE  FilesTyped'
  <2>1. aside[u].report \subseteq Attempt /\ aside[u].artifacts.of \subseteq Attempt
    BY <1>0 DEF Dir
  <2> QED BY <1>0, <1>1, <1>10, <2>1 DEF Crash
<1>11. CASE Requeue
  <2>1. [artifacts EXCEPT !.there = TRUE] \in Dir
    BY <1>0 DEF Dir
  <2> QED BY <1>0, <1>11, <2>1 DEF Requeue
<1>12. CASE StartRun
  <2>1. [there |-> TRUE, of |-> artifacts.of \cup {task.attempt}] \in Dir
    BY <1>0 DEF Dir
  <2> QED BY <1>0, <1>12, <2>1 DEF StartRun
<1>13. CASE FailRun
  BY <1>0, <1>13 DEF FailRun
<1>14. CASE LockAges
  BY <1>2, <1>14 DEF LockAges
<1>15. ASSUME NEW u \in Users, RetryBegin(u) \/ Reserve(u) \/ CommitRetry(u) \/ UndoRecord(u)
                                \/ RetryFault(u)
       PROVE  UNCHANGED files
  BY <1>15 DEF RetryBegin, Reserve, CommitRetry, UndoRecord, RetryFault
<1> QED BY <1>2, <1>3, <1>4, <1>5, <1>6, <1>7, <1>8, <1>9, <1>10, <1>11, <1>12, <1>13,
           <1>14, <1>15 DEF Next, RetryStep

\* A retry begins with room for its attempt, and keeps the record it began with.
LEMMA NextCommands ==
    ASSUME TypeInv, Next
    PROVE  /\ proc' \in [Users -> Command]
           /\ \A u \in Users : proc'[u].pc \in RetrySteps =>
                  proc'[u].snap.attempt < MaxAttempts
<1> DEFINE P == [Users -> Command]
           Room == \A u \in Users : proc'[u].pc \in RetrySteps =>
                       proc'[u].snap.attempt < MaxAttempts
<1>0. /\ proc \in P /\ task \in Record
      /\ \A u \in Users : proc[u].pc \in RetrySteps => proc[u].snap.attempt < MaxAttempts
  BY DEF TypeInv
<1>1. ASSUME NEW u \in Users, RetryBegin(u)
      PROVE  proc' \in P /\ Room
  <2>1. "reserve" \in Step
    BY DEF Step, RetrySteps
  <2> QED BY <1>0, <1>1, <2>1, BeginMoves, ZenonT(40) DEF RetryBegin, Moves
<1>2. ASSUME NEW u \in Users, HandoffBegin(u)
      PROVE  proc' \in P /\ Room
  <2>1. "stat" \in Step /\ "stat" \notin RetrySteps
    BY DEF Step, RetrySteps
  <2> QED BY <1>0, <1>2, <2>1, BeginMoves, ZenonT(40) DEF HandoffBegin, Moves
<1>3. ASSUME NEW u \in Users, MakeArtifacts(u)
      PROVE  proc' \in P /\ Room
  <2>1. CASE Goto(u, "undo files")
    <3>1. "undo files" \in Step /\ proc[u].pc \in RetrySteps
      BY <1>3 DEF MakeArtifacts, Step, RetrySteps
    <3>2. Moves(u, {"undo files"}) /\ proc'[u].snap = proc[u].snap
      BY <1>0, <2>1, <3>1, GotoMoves
    <3> QED BY <1>0, <3>1, <3>2 DEF Moves
  <2>2. CASE proc' = [proc EXCEPT ![u].pc = "commit", ![u].fresh = TRUE]
    BY <1>0, <1>3, <2>2 DEF MakeArtifacts, Command, Step, RetrySteps
  <2> QED BY <1>3, <2>1, <2>2 DEF MakeArtifacts
<1>4. ASSUME NEW u \in Users, CreateChild(u)
      PROVE  proc' \in P /\ Room
  <2>1. made + 1 \in 0..MaxChildren
    BY <1>4, RevivalAssumption DEF CreateChild, TypeInv, BoundsTyped
  <2>2. proc' = [proc EXCEPT ![u].pc = "attach", ![u].child = made + 1]
    BY <1>4 DEF CreateChild
  <2> QED BY <1>0, <2>1, <2>2 DEF Command, Step, RetrySteps, HandoffSteps
<1>5. ASSUME NEW u \in Users, Stop(u)
      PROVE  proc' \in P /\ Room
  BY <1>0, <1>5, StopMoves DEF Moves, RetrySteps
<1>6. ASSUME NEW u \in Users, NEW pc \in Step, Goto(u, pc),
             pc \in RetrySteps => proc[u].pc \in RetrySteps
      PROVE  proc' \in P /\ Room
  BY <1>0, <1>6, GotoMoves DEF Moves
<1>7. ASSUME NEW u \in Users,
             \/ Reserve(u) \/ Archive(u) \/ QuarantineReport(u) \/ QuarantineArtifacts(u)
             \/ CommitRetry(u) \/ RetryFault(u) \/ PurgeFault(u) \/ UndoFiles(u)
      PROVE  proc' \in P /\ Room
  <2>1. PICK pc \in RetrySteps : Goto(u, pc) /\ proc[u].pc \in RetrySteps
    BY <1>7 DEF Reserve, Archive, QuarantineReport, QuarantineArtifacts, CommitRetry,
                RetryFault, PurgeFault, UndoFiles, RetrySteps
  <2>2. pc \in Step
    BY <2>1 DEF Step
  <2> QED BY <2>1, <2>2, <1>6
<1>8. ASSUME NEW u \in Users, Purge(u) \/ UndoRecord(u) \/ CommitHandoff(u)
                               \/ UndoHandoff(u) \/ Crash(u)
      PROVE  proc' \in P /\ Room
  BY <1>5, <1>8 DEF Purge, UndoRecord, CommitHandoff, UndoHandoff, Crash
<1>9. ASSUME NEW u \in Users,
             \/ Stat(u) \/ Break(u) \/ OpenLock(u) \/ Check(u) \/ HandoffReserve(u)
             \/ Attach(u) \/ HandoffFault(u)
      PROVE  proc' \in P /\ Room
  <2>1. Stop(u) \/ \E pc \in Step \ RetrySteps : Goto(u, pc)
    BY <1>9 DEF Stat, Break, OpenLock, Check, HandoffReserve, Attach, HandoffFault,
                Step, HandoffSteps, RetrySteps
  <2> QED BY <2>1, <1>5, <1>6
<1>10. ASSUME Requeue \/ StartRun \/ FailRun \/ LockAges
       PROVE  proc' \in P /\ Room
  BY <1>0, <1>10 DEF Requeue, StartRun, FailRun, LockAges
<1> HIDE DEF P, Room
<1>11. ASSUME NEW u \in Users, RetryStep(u)
       PROVE  proc' \in P /\ Room
  BY <1>1, <1>3, <1>7, <1>8, <1>11 DEF RetryStep
<1>12. ASSUME NEW u \in Users, HandoffStep(u)
       PROVE  proc' \in P /\ Room
  BY <1>2, <1>4, <1>8, <1>9, <1>12 DEF HandoffStep
<1>13. proc' \in P /\ Room
  BY <1>8, <1>10, <1>11, <1>12 DEF Next
<1> QED BY <1>13 DEF P, Room

\* The record, and what goes with it.
LEMMA NextRecord ==
    ASSUME TypeInv, Next
    PROVE  task' \in Record /\ lease' \in {"open", "closed"} /\ children' \subseteq Child
<1> DEFINE Fine == /\ task' \in Record /\ lease' \in {"open", "closed"}
                   /\ children' \subseteq Child
<1>0. /\ task \in Record /\ lease \in {"open", "closed"} /\ children \subseteq Child
      /\ \A u \in Users : proc[u].snap \in Record
  BY DEF TypeInv, Command
<1>1. ASSUME NEW u \in Users,
             \/ Reserve(u) \/ HandoffReserve(u) \/ CommitHandoff(u) \/ UndoHandoff(u)
      PROVE  Fine
  <2>1. ASSUME NEW state \in {"reserved", "committed", "released"},
               NEW op \in {"retry", "handoff"}
        PROVE  [proc[u].snap EXCEPT !.revival = Revived(state, op)] \in Record
    BY <1>0 DEF Record, Revived, Reservation
  <2> QED BY <1>0, <1>1, <2>1 DEF Reserve, HandoffReserve, CommitHandoff, UndoHandoff
<1>2. ASSUME NEW u \in Users, CommitRetry(u)
      PROVE  Fine
  <2>1. proc[u].pc \in RetrySteps
    BY <1>2 DEF CommitRetry, RetrySteps
  <2>2. NextAttempt(proc[u].snap.attempt) \in Attempt
    BY <1>0, <2>1, RevivalAssumption DEF TypeInv, NextAttempt, Record, Attempt
  <2>3. task' \in Record
    BY <1>2, <2>2 DEF CommitRetry, Renewed, Record, Revived, Reservation
  <2> QED BY <1>0, <1>2, <2>3 DEF CommitRetry
<1>3. ASSUME NEW u \in Users, UndoRecord(u)
      PROVE  Fine
  BY <1>0, <1>3 DEF UndoRecord, UndoWrite
<1>4. ASSUME NEW u \in Users, CreateChild(u)
      PROVE  Fine
  <2>1. made + 1 \in Child
    BY <1>4, RevivalAssumption DEF CreateChild, TypeInv, BoundsTyped, Child
  <2> QED BY <1>0, <1>4, <2>1 DEF CreateChild
<1>5. CASE Requeue \/ StartRun \/ FailRun \/ LockAges
  <2>1. \A status \in {"failed", "pending", "running"} :
           [task EXCEPT !.status = status] \in Record
    BY <1>0 DEF Record
  <2> QED BY <1>0, <1>5, <2>1 DEF Requeue, StartRun, FailRun, LockAges
<1>6. ASSUME NEW u \in Users,
             \/ RetryBegin(u) \/ Archive(u) \/ QuarantineReport(u)
             \/ QuarantineArtifacts(u) \/ MakeArtifacts(u) \/ Purge(u) \/ RetryFault(u)
             \/ PurgeFault(u) \/ UndoFiles(u) \/ HandoffBegin(u) \/ Stat(u) \/ Break(u)
             \/ OpenLock(u)
             \/ Check(u) \/ Attach(u) \/ HandoffFault(u) \/ Crash(u)
      PROVE  UNCHANGED <<task, lease, children>>
  BY <1>6 DEF RetryBegin, Archive, QuarantineReport, QuarantineArtifacts, MakeArtifacts,
              Purge, RetryFault, PurgeFault, UndoFiles, HandoffBegin, Stat, Break, OpenLock, Check,
              Attach, HandoffFault, Crash
<1> QED BY <1>0, <1>1, <1>2, <1>3, <1>4, <1>5, <1>6 DEF Next, RetryStep, HandoffStep

LEMMA NextTypeInv == TypeInv /\ [Next]_vars => TypeInv'
<1> SUFFICES ASSUME TypeInv, [Next]_vars
             PROVE  TypeInv'
  OBVIOUS
<1>1. CASE Next
  BY <1>1, NextBounds, NextHistory, NextLocks, NextFiles, NextCommands, NextRecord
     DEF TypeInv
<1>2. CASE UNCHANGED vars
  BY <1>2 DEF vars, files, locks, bounds, TypeInv, FilesTyped, LocksTyped, BoundsTyped,
              HistoryTyped
<1> QED BY <1>1, <1>2

LEMMA AlwaysTypeInv == Spec => []TypeInv
BY InitTypeInv, NextTypeInv, PTL DEF Spec

\* The records of the task, its files and the commands are well formed, whatever
\* runs, fails and dies; in particular no retry takes the task over its attempts.
THEOREM TypeCorrect == Spec => []TypeOK
BY AlwaysTypeInv, TypeInvIsType, PTL

-----------------------------------------------------------------------------
(* The lock file of handoffs.                                              *)

Holds(u) == proc[u].pc \in HandoffSteps \cup {"check"}

\* A holder that will create a successor saw that there is none, and one that
\* has created a successor knows it.
Sees(u) ==
    /\ proc[u].pc \in {"handoff reserve", "create"} => children = {}
    /\ proc[u].pc \in {"attach", "source", "undo handoff"} => children \subseteq {proc[u].child}

LockInv ==
    \/ broken
    \/ /\ \A u, v \in Users : Holds(u) /\ Holds(v) => u = v
       /\ \A u \in Users : Holds(u) => handoffLock.there /\ Sees(u)
       /\ \E c : children \subseteq {c}

\* A command that does not hold the lock afterwards, or goes on as it was.
Outside == /\ children' = children /\ handoffLock'.there = handoffLock.there
           /\ broken' = broken
           /\ \A u \in Users : Holds(u)' => Holds(u) /\ proc'[u] = proc[u]

LEMMA OutsideLock ==
    ASSUME LockInv, Outside
    PROVE  LockInv'
BY DEF LockInv, Outside, Sees, Holds

LEMMA StepsOutside ==
    ASSUME TypeInv, NEW u \in Users,
           RetryStep(u) \/ HandoffBegin(u) \/ Stat(u) \/ Crash(u)
    PROVE  Outside
<1>0. proc \in [Users -> Command] /\ task \in Record
  BY DEF TypeInv
<1>1. ASSUME NEW Pcs, Moves(u, Pcs), Pcs \cap (HandoffSteps \cup {"check"}) = {},
             UNCHANGED <<children, handoffLock, broken>>
      PROVE  Outside
  BY <1>1 DEF Moves, Outside, Holds
<1>2. {"idle"} \cap (HandoffSteps \cup {"check"}) = {}
  BY DEF HandoffSteps
<1>3. ASSUME Stop(u), UNCHANGED <<children, handoffLock, broken>>
      PROVE  Outside
  BY <1>0, <1>1, <1>2, <1>3, StopMoves
<1>4. ASSUME NEW pc \in Step \ (HandoffSteps \cup {"check"}), Goto(u, pc),
             UNCHANGED <<children, handoffLock, broken>>
      PROVE  Outside
  <2>1. {pc} \cap (HandoffSteps \cup {"check"}) = {}
    OBVIOUS
  <2> QED BY <1>0, <1>1, <1>4, <2>1, GotoMoves
<1>5. CASE RetryStep(u)
  <2>1. UNCHANGED <<children, handoffLock, broken>>
    BY <1>5 DEF RetryStep, RetryBegin, Reserve, Archive, QuarantineReport,
              QuarantineArtifacts, MakeArtifacts, CommitRetry, Purge, RetryFault, PurgeFault,
              UndoFiles, UndoRecord, locks
  <2>2. CASE RetryBegin(u)
    <3>1. "reserve" \in Step /\ "reserve" \notin HandoffSteps \cup {"check"}
      BY DEF Step, RetrySteps, HandoffSteps
    <3>2. Moves(u, {"reserve"})
      BY <1>0, <2>2, <3>1, BeginMoves DEF RetryBegin
    <3> QED BY <1>1, <2>1, <3>1, <3>2
  <2>3. CASE MakeArtifacts(u)
    <3>1. CASE Goto(u, "undo files")
      BY <1>4, <2>1, <3>1 DEF Step, RetrySteps, HandoffSteps
    <3>2. CASE proc' = [proc EXCEPT ![u].pc = "commit", ![u].fresh = TRUE]
      BY <1>0, <2>1, <3>2 DEF Outside, Holds, HandoffSteps, Command
    <3> QED BY <2>3, <3>1, <3>2 DEF MakeArtifacts
  <2>4. CASE Purge(u) \/ UndoRecord(u)
    BY <1>3, <2>1, <2>4 DEF Purge, UndoRecord
  <2>5. CASE \/ Reserve(u) \/ Archive(u) \/ QuarantineReport(u) \/ QuarantineArtifacts(u)
             \/ CommitRetry(u) \/ RetryFault(u) \/ PurgeFault(u) \/ UndoFiles(u)
    <3>1. PICK pc \in RetrySteps : Goto(u, pc)
      BY <2>5 DEF Reserve, Archive, QuarantineReport, QuarantineArtifacts, CommitRetry,
                  RetryFault, PurgeFault, UndoFiles, RetrySteps
    <3>2. pc \in Step \ (HandoffSteps \cup {"check"})
      BY <3>1 DEF Step, RetrySteps, HandoffSteps
    <3> QED BY <1>4, <2>1, <3>1, <3>2
  <2> QED BY <1>5, <2>2, <2>3, <2>4, <2>5 DEF RetryStep
<1>6. CASE HandoffBegin(u)
  <2>1. "stat" \in Step /\ "stat" \notin HandoffSteps \cup {"check"}
    BY DEF Step, HandoffSteps
  <2>2. Moves(u, {"stat"})
    BY <1>0, <1>6, <2>1, BeginMoves DEF HandoffBegin
  <2> QED BY <1>1, <1>6, <2>1, <2>2 DEF HandoffBegin, locks
<1>7. CASE Stat(u)
  <2>1. PICK pc \in {"break", "open"} : Goto(u, pc)
    BY <1>7 DEF Stat
  <2>2. pc \in Step \ (HandoffSteps \cup {"check"})
    BY DEF Step, HandoffSteps
  <2> QED BY <1>4, <1>7, <2>1, <2>2 DEF Stat, locks
<1>8. CASE Crash(u)
  BY <1>3, <1>8 DEF Crash
<1> QED BY <1>5, <1>6, <1>7, <1>8

\* The holder is alone, so only what it does matters.
LEMMA HolderLock ==
    ASSUME LockInv, NEW u \in Users, NEW Pcs, Moves(u, Pcs),
           Holds(u) \/ ~handoffLock.there,
           Holds(u)' => handoffLock'.there /\ Sees(u)',
           \E c : children' \subseteq {c},
           broken' = broken
    PROVE  LockInv'
<1>1. CASE broken
  BY <1>1 DEF LockInv
<1>2. CASE ~broken
  <2>1. \A v \in Users \ {u} : ~Holds(v)
    BY <1>2 DEF LockInv
  <2>2. \A v \in Users \ {u} : ~Holds(v)'
    BY <2>1 DEF Moves, Holds
  <2> QED BY <2>2 DEF LockInv
<1> QED BY <1>1, <1>2

LEMMA HandoffLock ==
    ASSUME TypeInv, LockInv, ~broken, NEW u \in Users, HandoffStep(u)
    PROVE  LockInv'
<1>0. proc \in [Users -> Command] /\ children \subseteq Child
  BY DEF TypeInv
<1>1. \A pc : pc \in HandoffSteps \cup {"check"} => pc \in Step
  BY DEF Step
<1>2. /\ Holds(u) => handoffLock.there /\ Sees(u)
      /\ \E c : children \subseteq {c}
  BY DEF LockInv
<1>3. CASE HandoffBegin(u) \/ Stat(u)
  BY <1>3, StepsOutside, OutsideLock
<1>4. CASE Break(u)
  BY <1>4 DEF Break, LockInv
<1>5. CASE OpenLock(u)
  <2>1. UNCHANGED <<children, broken>>
    BY <1>5 DEF OpenLock
  <2>2. CASE ~handoffLock.there /\ handoffLock' = [there |-> TRUE, old |-> FALSE]
             /\ Goto(u, "check")
    <3>1. Moves(u, {"check"})
      BY <1>0, <1>1, <2>2, GotoMoves
    <3>2. handoffLock'.there /\ Sees(u)'
      BY <2>2, <3>1 DEF Moves, Sees
    <3> QED BY <1>2, <2>1, <2>2, <3>1, <3>2, HolderLock
  <2>3. CASE (Goto(u, "stat") \/ Stop(u)) /\ UNCHANGED handoffLock
    <3>1. Moves(u, {"stat"}) \/ Moves(u, {"idle"})
      BY <1>0, <2>3, GotoMoves, StopMoves DEF Step
    <3>2. Outside
      BY <2>1, <2>3, <3>1 DEF Outside, Moves, Holds, HandoffSteps
    <3> QED BY <3>2, OutsideLock
  <2> QED BY <1>5, <2>2, <2>3 DEF OpenLock
<1>6. CASE Check(u)
  <2>1. Holds(u) /\ UNCHANGED <<children, broken>>
    BY <1>6 DEF Check, Holds
  <2>2. CASE children = {} /\ Goto(u, "handoff reserve") /\ UNCHANGED handoffLock
    <3>1. Moves(u, {"handoff reserve"})
      BY <1>0, <1>1, <2>2, GotoMoves DEF HandoffSteps
    <3>2. Sees(u)'
      BY <2>1, <2>2, <3>1 DEF Sees, Moves
    <3> QED BY <1>2, <2>1, <2>2, <3>1, <3>2, HolderLock
  <2>3. CASE Stop(u)
    <3>1. Moves(u, {"idle"}) /\ ~Holds(u)'
      BY <1>0, <2>3, StopMoves DEF Moves, Holds, HandoffSteps
    <3> QED BY <1>2, <2>1, <3>1, HolderLock
  <2> QED BY <1>6, <2>2, <2>3 DEF Check, NoChildYet
<1>7. CASE HandoffReserve(u) \/ Attach(u) \/ HandoffFault(u)
  <2>1. Holds(u) /\ UNCHANGED <<children, broken, handoffLock>>
    BY <1>7 DEF HandoffReserve, Attach, HandoffFault, Holds, HandoffSteps, locks
  <2>2. CASE HandoffReserve(u)
    <3>1. Moves(u, {"create"})
      BY <1>0, <1>1, <2>2, GotoMoves DEF HandoffReserve, HandoffSteps
    <3>2. Sees(u)'
      BY <1>2, <2>1, <2>2, <3>1 DEF HandoffReserve, Sees, Moves
    <3> QED BY <1>2, <2>1, <3>1, <3>2, HolderLock
  <2>3. CASE Attach(u)
    <3>1. Moves(u, {"source"}) /\ proc'[u].child = proc[u].child
      BY <1>0, <1>1, <2>3, GotoMoves DEF Attach, HandoffSteps
    <3>2. Sees(u)'
      BY <1>2, <2>1, <2>3, <3>1 DEF Attach, Sees, Moves
    <3> QED BY <1>2, <2>1, <3>1, <3>2, HolderLock
  <2>4. CASE HandoffFault(u)
    <3>1. Moves(u, {"undo handoff"}) /\ proc'[u].child = proc[u].child
      BY <1>0, <1>1, <2>4, GotoMoves DEF HandoffFault, HandoffSteps
    <3>2. children \subseteq {proc[u].child}
      BY <1>2, <2>1, <2>4 DEF HandoffFault, Sees
    <3>3. Sees(u)'
      BY <2>1, <3>1, <3>2 DEF Sees, Moves
    <3> QED BY <1>2, <2>1, <3>1, <3>3, HolderLock
  <2> QED BY <1>7, <2>2, <2>3, <2>4
<1>8. CASE CreateChild(u)
  <2>1. Holds(u) /\ children = {} /\ UNCHANGED <<broken, handoffLock>>
    BY <1>2, <1>8 DEF CreateChild, Holds, HandoffSteps, Sees, locks
  <2>2. /\ children' = {made + 1} /\ proc'[u].child = made + 1
        /\ Moves(u, {"attach"})
    <3>1. made + 1 \in 0..MaxChildren
      BY <1>8, RevivalAssumption DEF CreateChild, TypeInv, BoundsTyped
    <3>2. proc' = [proc EXCEPT ![u].pc = "attach", ![u].child = made + 1]
      BY <1>8 DEF CreateChild
    <3>3. proc'[u].child = made + 1 /\ Moves(u, {"attach"})
      BY <1>0, <3>1, <3>2 DEF Moves, Command, Step, HandoffSteps
    <3> QED BY <1>8, <2>1, <3>3 DEF CreateChild
  <2>3. Sees(u)'
    BY <2>2 DEF Sees, Moves
  <2> QED BY <1>2, <2>1, <2>2, <2>3, HolderLock
<1>9. CASE CommitHandoff(u) \/ UndoHandoff(u)
  <2>1. /\ Holds(u) /\ Stop(u) /\ broken' = broken /\ children' \subseteq children
    BY <1>9 DEF CommitHandoff, UndoHandoff, Holds, HandoffSteps
  <2>2. Moves(u, {"idle"}) /\ ~Holds(u)'
    BY <1>0, <2>1, StopMoves DEF Moves, Holds, HandoffSteps
  <2>3. \E c : children' \subseteq {c}
    BY <1>2, <2>1
  <2> QED BY <2>1, <2>2, <2>3, HolderLock
<1> QED BY <1>3, <1>4, <1>5, <1>6, <1>7, <1>8, <1>9 DEF HandoffStep

LEMMA NextLockInv == TypeInv /\ LockInv /\ [Next]_vars => LockInv'
<1> SUFFICES ASSUME TypeInv, LockInv, [Next]_vars
             PROVE  LockInv'
  OBVIOUS
<1>1. ASSUME NEW u \in Users, RetryStep(u) \/ Crash(u)
      PROVE  LockInv'
  BY <1>1, StepsOutside, OutsideLock
<1>2. ASSUME NEW u \in Users, HandoffStep(u)
      PROVE  LockInv'
  <2>1. CASE broken
    <3>1. broken'
      BY <1>2, <2>1 DEF HandoffStep, HandoffBegin, Stat, Break, OpenLock, Check,
             HandoffReserve, CreateChild, Attach, CommitHandoff, HandoffFault, UndoHandoff
    <3> QED BY <3>1 DEF LockInv
  <2> QED BY <1>2, <2>1, HandoffLock
<1>3. CASE Requeue \/ StartRun \/ FailRun \/ LockAges \/ UNCHANGED vars
  <2>1. handoffLock'.there = handoffLock.there
    BY <1>3 DEF TypeInv, LocksTyped, Requeue, StartRun, FailRun, LockAges, vars, locks
  <2>2. Outside
    BY <1>3, <2>1 DEF Requeue, StartRun, FailRun, LockAges, vars, Outside, Holds
  <2> QED BY <2>2, OutsideLock
<1> QED BY <1>1, <1>2, <1>3 DEF Next

\* One failed task has one successor, however many handoffs run, fail and die, as
\* long as none of them removes a lock that it takes for old (HandoffRecoveryLock).
THEOREM OneSuccessorPerHead == Spec => []OneSuccessorUnderLock
<1>1. Init => LockInv
  <2> SUFFICES ASSUME Init
               PROVE  LockInv
    OBVIOUS
  <2>1. \A u \in Users : ~Holds(u)
    BY DEF Init, Holds, Idle, HandoffSteps
  <2>2. children \subseteq {0}
    BY DEF Init
  <2> QED BY <2>1, <2>2 DEF LockInv
<1>2. LockInv => OneSuccessorUnderLock
  <2> SUFFICES ASSUME NEW c, children \subseteq {c}
               PROVE  Cardinality(children) <= 1
    BY DEF LockInv, OneSuccessorUnderLock
  <2>1. children = {} \/ children = {c}
    OBVIOUS
  <2>2. Cardinality({}) = 0 /\ Cardinality({c}) = 1
    BY FS_EmptySet, FS_Singleton
  <2> QED BY <2>1, <2>2
<1> QED BY <1>1, <1>2, AlwaysTypeInv, NextLockInv, PTL DEF Spec

-----------------------------------------------------------------------------
(* Reservations.                                                           *)

\* Only a command that is under way has one; what a retry began with, it may write
\* back, and at its end it has closed its own.
OwnerInv ==
    /\ Reserved(task) /\ crashes = 0 /\ ~crossed => \E u \in Users : Reviving(u)
    /\ \A u \in Users : proc[u].pc \in RetrySteps => ~Reserved(proc[u].snap)
    /\ \A u \in Users : proc[u].pc = "purge" /\ ~crossed => ~Reserved(task)

\* A step of u that closes what it leaves.
Closes(u) ==
    /\ crossed => crossed'
    /\ crashes # 0 => crashes' # 0
    /\ \A v \in Users \ {u} : proc'[v] = proc[v]
    /\ proc'[u].pc \in RetrySteps => ~Reserved(proc'[u].snap)
    /\ \/ ~Reserved(task')
       \/ Reviving(u)' /\ proc'[u].pc # "purge" /\ (task' = task \/ crossed' \/ ~Others(u))
       \/ task' = task /\ (~Reviving(u) \/ crossed' \/ crashes' # 0)
                      /\ proc'[u].pc # "purge"

LEMMA ClosesOwner ==
    ASSUME OwnerInv, NEW u \in Users, Closes(u)
    PROVE  OwnerInv'
<1>1. \A v \in Users : proc'[v].pc \in RetrySteps => ~Reserved(proc'[v].snap)
  BY DEF Closes, OwnerInv
<1>2. (Reserved(task) /\ crashes = 0 /\ ~crossed => \E v \in Users : Reviving(v))'
  BY DEF Closes, OwnerInv, Reviving
<1>3. ASSUME NEW v \in Users, proc'[v].pc = "purge", ~crossed', Reserved(task')
      PROVE  FALSE
  <2>1. v # u /\ proc'[v] = proc[v] /\ ~crossed
    BY <1>3 DEF Closes
  <2>2. Reviving(v) /\ Others(u) /\ ~Reserved(task)
    BY <1>3, <2>1 DEF OwnerInv, Others, Reviving, RetrySteps
  <2> QED BY <1>3, <2>2 DEF Closes
<1> QED BY <1>1, <1>2, <1>3 DEF OwnerInv, Reserved

LEMMA RetryCloses ==
    ASSUME TypeInv, OwnerInv, NEW u \in Users, RetryStep(u)
    PROVE  Closes(u)
<1>0. /\ proc \in [Users -> Command] /\ task \in Record /\ proc[u].snap \in Record
  BY DEF TypeInv, Command
<1>1. UNCHANGED crashes
  BY DEF RetryStep, RetryBegin, Reserve, Archive, QuarantineReport,
         QuarantineArtifacts, MakeArtifacts, CommitRetry, Purge, RetryFault, PurgeFault,
         UndoFiles, UndoRecord, bounds
<1>2. crossed => crossed'
  BY DEF RetryStep, RetryBegin, Reserve, Archive, QuarantineReport,
         QuarantineArtifacts, MakeArtifacts, CommitRetry, Purge, RetryFault, PurgeFault,
         UndoFiles, UndoRecord
<1>3. \A pc \in RetrySteps : pc \in Step
  BY DEF Step
<1>4. CASE RetryBegin(u)
  <2>1. Moves(u, {"reserve"}) /\ proc'[u].snap = task
    BY <1>0, <1>3, <1>4, BeginMoves DEF RetryBegin, RetrySteps
  <2> QED BY <1>1, <1>2, <1>4, <2>1 DEF RetryBegin, RetryPreflight, Closes, Moves
<1>5. CASE Reserve(u)
  <2>1. Moves(u, {"archive"}) /\ proc'[u].snap = proc[u].snap
    BY <1>0, <1>3, <1>5, GotoMoves DEF Reserve, RetrySteps
  <2>2. crossed' \/ ~Others(u)
    BY <1>5 DEF Reserve
  <2>3. ~Reserved(proc'[u].snap)
    BY <1>5, <2>1 DEF Reserve, OwnerInv, RetrySteps
  <2> QED BY <1>1, <1>2, <2>1, <2>2, <2>3 DEF Closes, Moves, Reviving, RetrySteps
<1>6. CASE \/ Archive(u) \/ QuarantineReport(u) \/ QuarantineArtifacts(u)
           \/ RetryFault(u) \/ PurgeFault(u) \/ UndoFiles(u)
  <2>1. PICK pc \in RetrySteps \ {"purge"} : Goto(u, pc) /\ proc[u].pc \in RetrySteps
    BY <1>6 DEF Archive, QuarantineReport, QuarantineArtifacts, RetryFault, PurgeFault,
                UndoFiles, RetrySteps
  <2>2. Moves(u, {pc}) /\ proc'[u].snap = proc[u].snap
    BY <1>0, <1>3, <2>1, GotoMoves
  <2>3. task' = task
    BY <1>6 DEF Archive, QuarantineReport, QuarantineArtifacts, RetryFault, PurgeFault,
                UndoFiles
  <2> QED BY <1>1, <1>2, <2>1, <2>2, <2>3 DEF Closes, Moves, Reviving, OwnerInv
<1>7. CASE MakeArtifacts(u)
  <2>1. /\ proc'[u].pc \in {"undo files", "commit"} /\ proc'[u].snap = proc[u].snap
        /\ \A v \in Users \ {u} : proc'[v] = proc[v]
    <3>1. CASE Goto(u, "undo files")
      BY <1>0, <1>3, <3>1, GotoMoves DEF Moves, RetrySteps
    <3>2. CASE proc' = [proc EXCEPT ![u].pc = "commit", ![u].fresh = TRUE]
      BY <1>0, <3>2 DEF Command
    <3> QED BY <1>7, <3>1, <3>2 DEF MakeArtifacts
  <2>2. ~Reserved(proc'[u].snap) /\ task' = task
    BY <1>7, <2>1 DEF MakeArtifacts, OwnerInv, RetrySteps
  <2> QED BY <1>1, <1>2, <2>1, <2>2 DEF Closes, Reviving, RetrySteps
<1>8. CASE CommitRetry(u)
  <2>1. Moves(u, {"purge"}) /\ proc'[u].snap = proc[u].snap
    BY <1>0, <1>3, <1>8, GotoMoves DEF CommitRetry, RetrySteps
  <2>2. ~Reserved(proc'[u].snap) /\ ~Reserved(task')
    BY <1>8, <2>1 DEF CommitRetry, Renewed, OwnerInv, RetrySteps, Reserved, Revived
  <2> QED BY <1>1, <1>2, <2>1, <2>2 DEF Closes, Moves
<1>9. CASE Purge(u) \/ UndoRecord(u)
  <2>1. Moves(u, {"idle"})
    BY <1>0, <1>9, StopMoves DEF Purge, UndoRecord
  <2>2. crossed' \/ ~Reserved(task')
    <3>1. CASE Purge(u)
      <4>1. /\ proc[u].pc = "purge" /\ task' = task /\ crossed' = crossed
        BY <3>1 DEF Purge
      <4>2. crossed \/ ~Reserved(task)
        BY <4>1 DEF OwnerInv
      <4> QED BY <4>1, <4>2
    <3>2. CASE UndoRecord(u)
      BY <3>2 DEF UndoRecord, UndoWrite, OwnerInv, RetrySteps
    <3> QED BY <1>9, <3>1, <3>2
  <2>3. UndoRecord(u) => ~Reserved(task')
    BY DEF UndoRecord, UndoWrite, OwnerInv, RetrySteps
  <2>4. Purge(u) => task' = task
    BY DEF Purge
  <2> QED BY <1>1, <1>2, <1>9, <2>1, <2>2, <2>3, <2>4 DEF Closes, Moves, RetrySteps
<1> QED BY <1>4, <1>5, <1>6, <1>7, <1>8, <1>9 DEF RetryStep

LEMMA HandoffCloses ==
    ASSUME TypeInv, OwnerInv, NEW u \in Users, HandoffStep(u)
    PROVE  Closes(u)
<1>0. /\ proc \in [Users -> Command] /\ task \in Record /\ proc[u].snap \in Record
  BY DEF TypeInv, Command
<1>1. UNCHANGED crashes
  BY DEF HandoffStep, HandoffBegin, Stat, Break, OpenLock, Check, HandoffReserve,
         CreateChild, Attach, CommitHandoff, HandoffFault, UndoHandoff, bounds
<1>2. crossed => crossed'
  BY DEF HandoffStep, HandoffBegin, Stat, Break, OpenLock, Check, HandoffReserve,
         CreateChild, Attach, CommitHandoff, HandoffFault, UndoHandoff
<1>3. /\ \A pc \in HandoffSteps \cup {"stat", "open", "check", "break"} :
            pc \in Step /\ pc \notin RetrySteps /\ pc # "purge"
      /\ "idle" \notin RetrySteps
  BY DEF Step, HandoffSteps, RetrySteps
<1>4. CASE HandoffBegin(u)
  <2>1. Moves(u, {"stat"})
    BY <1>0, <1>3, <1>4, BeginMoves DEF HandoffBegin
  <2> QED BY <1>1, <1>2, <1>3, <1>4, <2>1
          DEF HandoffBegin, Closes, Moves, Reviving, RetrySteps, HandoffSteps
<1>5. CASE Stat(u) \/ Break(u) \/ OpenLock(u) \/ Check(u)
  <2>1. task' = task /\ ~Reviving(u)
    BY <1>5 DEF Stat, Break, OpenLock, Check, Reviving, RetrySteps, HandoffSteps
  <2>2. Stop(u) \/ \E pc \in HandoffSteps \cup {"stat", "open", "check", "break"} :
                      Goto(u, pc)
    BY <1>5 DEF Stat, Break, OpenLock, Check, HandoffSteps
  <2>3. /\ \A v \in Users \ {u} : proc'[v] = proc[v]
        /\ proc'[u].pc \notin RetrySteps /\ proc'[u].pc # "purge"
    BY <1>0, <1>3, <2>2, GotoMoves, StopMoves DEF Moves
  <2> QED BY <1>1, <1>2, <2>1, <2>3 DEF Closes
<1>6. CASE HandoffReserve(u)
  <2>1. Moves(u, {"create"}) /\ (crossed' \/ ~Others(u))
    BY <1>0, <1>3, <1>6, GotoMoves DEF HandoffReserve, HandoffSteps
  <2> QED BY <1>1, <1>2, <1>3, <2>1 DEF Closes, Moves, Reviving, HandoffSteps
<1>7. CASE CreateChild(u) \/ Attach(u) \/ HandoffFault(u)
  <2>1. /\ proc'[u].pc \in HandoffSteps /\ task' = task
        /\ \A v \in Users \ {u} : proc'[v] = proc[v]
    BY <1>0, <1>7 DEF CreateChild, Attach, HandoffFault, Goto, Command, HandoffSteps
  <2> QED BY <1>1, <1>2, <1>3, <2>1 DEF Closes, Reviving
<1>8. CASE CommitHandoff(u) \/ UndoHandoff(u)
  <2>1. Moves(u, {"idle"})
    BY <1>0, <1>8, StopMoves DEF CommitHandoff, UndoHandoff
  <2>2. ~Reserved(task')
    <3>1. task' = [proc[u].snap EXCEPT !.revival = Revived("committed", "handoff")]
          \/ task' = [proc[u].snap EXCEPT !.revival = Revived("released", "handoff")]
      BY <1>8 DEF CommitHandoff, UndoHandoff
    <3> QED BY <1>0, <3>1 DEF Reserved, Record, Revived
  <2> QED BY <1>1, <1>2, <1>3, <2>1, <2>2 DEF Closes, Moves
<1> QED BY <1>4, <1>5, <1>6, <1>7, <1>8 DEF HandoffStep

LEMMA NextOwnerInv == TypeInv /\ OwnerInv /\ [Next]_vars => OwnerInv'
<1> SUFFICES ASSUME TypeInv, OwnerInv, [Next]_vars
             PROVE  OwnerInv'
  OBVIOUS
<1>1. ASSUME NEW u \in Users, RetryStep(u) \/ HandoffStep(u)
      PROVE  OwnerInv'
  BY <1>1, RetryCloses, HandoffCloses, ClosesOwner
<1>2. ASSUME NEW u \in Users, Crash(u)
      PROVE  OwnerInv'
  <2>1. Moves(u, {"idle"}) /\ task' = task /\ crossed' = crossed
    BY <1>2, StopMoves DEF Crash, TypeInv
  <2>2. crashes' # 0
    BY <1>2, RevivalAssumption DEF Crash, TypeInv, BoundsTyped
  <2> QED BY <2>1, <2>2, ClosesOwner DEF Closes, Moves, RetrySteps
<1>3. CASE Requeue \/ StartRun \/ FailRun \/ LockAges \/ UNCHANGED vars
  <2>1. /\ proc' = proc /\ crashes' = crashes /\ (crossed => crossed')
        /\ task'.revival = task.revival
    <3>1. \A status : [task EXCEPT !.status = status].revival = task.revival
      BY DEF TypeInv, Record
    <3>2. proc' = proc /\ crashes' = crashes
      BY <1>3 DEF Requeue, StartRun, FailRun, LockAges, vars, bounds
    <3>3. crossed => crossed'
      BY <1>3, Zenon DEF Requeue, StartRun, FailRun, LockAges, vars
    <3>4. task' = task \/ \E status : task' = [task EXCEPT !.status = status]
      BY <1>3 DEF Requeue, StartRun, FailRun, LockAges, vars
    <3> QED BY <3>1, <3>2, <3>3, <3>4
  <2> QED BY <2>1 DEF OwnerInv, Reserved, Reviving
<1> QED BY <1>1, <1>2, <1>3 DEF Next

\* A reservation is never left behind by a command that failed, only by one that
\* died or met another (execute, handoff_failed_task).
THEOREM ReservationOwned == Spec => []ReservationHasOwner
<1>1. Init => OwnerInv
  <2> SUFFICES ASSUME Init
               PROVE  OwnerInv
    OBVIOUS
  <2>1. ~Reserved(task)
    BY DEF Init, Reserved, Revived
  <2>2. \A u \in Users : proc[u].pc = "idle"
    BY DEF Init, Idle
  <2> QED BY <2>1, <2>2 DEF OwnerInv, RetrySteps
<1>2. OwnerInv => ReservationHasOwner
  BY DEF OwnerInv, ReservationHasOwner
<1> QED BY <1>1, <1>2, AlwaysTypeInv, NextOwnerInv, PTL DEF Spec
-----------------------------------------------------------------------------
(***************************************************************************)
(* What a retry moves.  A retry excludes others and dispatches by the      *)
(* record it wrote: while no other command crossed it, the record says     *)
(* "failed, reserved" (Held), so no worker runs, no other retry begins and *)
(* no handoff makes a report; what it moved away is aside or archived, and *)
(* the places it moved from are empty (Cleared).  A retry that is undone   *)
(* after its commit (Late) is undone for the attempt before the one on     *)
(* record: that attempt is the one the files are about (Standing).         *)
(***************************************************************************)

\* Steps between a command's first write of the record and its last.
RetryHolds == RetrySteps \ {"reserve", "purge"}
HandoffHolds == HandoffSteps \ {"handoff reserve"}

\* Steps of a retry that may have something aside.
Filled == {"artifacts", "mkdir", "commit", "purge", "undo files"}

\* A retry is undone although the new attempt is on record.
Undoing == {"undo files", "undo record"}
LateOf(u) == proc[u].pc \in Undoing /\ task.attempt # proc[u].snap.attempt
Late == \E u \in Users : LateOf(u)

\* The attempt the files are about, and whether it failed.
Standing == IF Late THEN task.attempt - 1 ELSE task.attempt
Failed == Late \/ task.status = "failed"

\* Files of attempt m and, if a command died after a commit failed, of earlier ones.
Orderly == damaged = {} \/ crashes = 0
Of(orderly, S, m) == (\A k \in S : k <= m) /\ (orderly => S \subseteq {m})

\* One retry at a time, and only it has something aside.
Apart(u) ==
    /\ proc[u].pc \in RetrySteps => retryLock = u
    /\ proc[u].pc \notin Filled => aside[u] = Nothing
    /\ proc[u].pc = "artifacts" => aside[u].artifacts = NoDir
    /\ proc[u].pc # "idle" => proc[u].snap.status = "failed"
    /\ proc[u].pc \in {"reserve", "archive", "report", "artifacts", "mkdir"} => ~proc[u].fresh

\* While nobody wrote in between, the record is the one the command wrote.
Held(u) ==
    /\ proc[u].pc \in RetryHolds =>
           /\ Failed /\ Standing = proc[u].snap.attempt
           /\ ~Late => task.revival = Revived("reserved", "retry")
    /\ proc[u].pc \in HandoffHolds =>
           task.status = "failed" /\ task.attempt = proc[u].snap.attempt
    /\ proc[u].pc = "purge" => task.attempt = proc[u].snap.attempt + 1

\* How far a retry has cleared the place of its attempt, and what it has of it when the
\* next one is on record.
Cleared(u) ==
    /\ proc[u].pc \in {"report", "artifacts", "mkdir", "commit", "undo files"} => control = {}
    /\ proc[u].pc \in {"artifacts", "mkdir", "commit"} => report = {}
    /\ proc[u].pc \in {"mkdir", "commit"} => artifacts.of = {}
    /\ proc[u].pc = "undo files" =>
           /\ aside[u].report # {} => report = {}
           /\ proc[u].fresh => artifacts.of = {}
    /\ proc[u].pc = "purge" =>
           /\ task.status = "pending" =>
                  control = {} /\ report = {} /\ artifacts.of = {}
           /\ proc[u].snap.attempt \in orphan.report \cup aside[u].report
           /\ proc[u].snap.attempt \in archive[proc[u].snap.attempt].of

\* Files in place stem from the attempt that stands, others from the one they are kept for.
InPlace ==
    /\ Of(Orderly, report, Standing)
    /\ Of(Orderly, artifacts.of, Standing) /\ (~artifacts.there => artifacts.of = {})
    /\ Of(Orderly, control, Standing)
    /\ task.status = "pending" /\ ~Late /\ Orderly => report = {}

Archived(n) == Of(Orderly, archive[n].of, n) /\ (~archive[n].there => archive[n].of = {})
Kept(u) == /\ Of(Orderly, aside[u].report, proc[u].snap.attempt)
           /\ Of(Orderly, aside[u].artifacts.of, proc[u].snap.attempt)
           /\ ~aside[u].artifacts.there => aside[u].artifacts.of = {}

ArtifactsKept == \/ Standing \in artifacts.of \cup orphan.artifacts \cup damaged
                 \/ \E u \in Users : Standing \in aside[u].artifacts.of
ReportKept == \/ Standing \in report \cup orphan.report
              \/ \E u \in Users : Standing \in aside[u].report
ControlKept == Standing \in control \cup archive[Standing].of

Evidence ==
    /\ Failed => ArtifactsKept /\ ReportKept /\ ControlKept
    /\ task.status = "running" => task.attempt \in artifacts.of /\ task.attempt \in control
    /\ Late => task.status = "pending" /\ damaged # {}

Uncrossed ==
    /\ \A u \in Users : Held(u) /\ Cleared(u) /\ Kept(u)
    /\ \A n \in Attempt : Archived(n)
    /\ InPlace /\ Evidence

KeptInv == (\A u \in Users : Apart(u)) /\ (~crossed => Uncrossed)

-----------------------------------------------------------------------------
\* What a step leaves of a command's own fields.
LEMMA GotoKeeps ==
    ASSUME proc \in [Users -> Command], NEW u \in Users, NEW pc \in Step, Goto(u, pc)
    PROVE  /\ proc'[u].pc = pc /\ proc'[u].snap = proc[u].snap
           /\ proc'[u].fresh = proc[u].fresh
           /\ \A v \in Users \ {u} : proc'[v] = proc[v]
BY DEF Goto, Command

LEMMA StopIdles ==
    ASSUME proc \in [Users -> Command], NEW u \in Users, Stop(u)
    PROVE  /\ proc'[u].pc = "idle" /\ proc'[u] = Idle
           /\ \A v \in Users \ {u} : proc'[v] = proc[v]
BY IdleFacts DEF Stop

LEMMA StepNames ==
    /\ \A pc \in RetrySteps \cup HandoffSteps \cup {"idle", "stat", "break", "open", "check"} :
          pc \in Step
    /\ RetrySteps \cap HandoffSteps = {}
    /\ Filled \subseteq RetrySteps
    /\ {"reserve", "archive", "report", "artifacts", "mkdir", "undo files", "undo record",
        "commit", "purge"} = RetrySteps
    /\ \A pc \in {"idle", "stat", "break", "open", "check"} :
          pc \notin RetrySteps /\ pc \notin HandoffSteps
BY DEF Step, RetrySteps, HandoffSteps, Filled

\* A command that the step is not about: its part of Apart.
LEMMA OtherApart ==
    ASSUME NEW v \in Users, Apart(v), proc'[v] = proc[v], aside'[v] = aside[v],
           retryLock' = retryLock \/ proc[v].pc \notin RetrySteps
    PROVE  Apart(v)'
BY DEF Apart

\* A command that the step is not about: its parts of Uncrossed.
LEMMA OtherHeld ==
    ASSUME NEW v \in Users, Held(v), Cleared(v), Kept(v),
           proc'[v] = proc[v], aside'[v] = aside[v], Orderly' => Orderly,
           (task' = task /\ (Late' <=> Late)) \/ ~Reviving(v),
           \/ /\ UNCHANGED <<control, report, artifacts, archive>>
              /\ orphan.report \subseteq orphan'.report
           \/ proc[v].pc \notin RetrySteps
    PROVE  Held(v)' /\ Cleared(v)' /\ Kept(v)'
<1>1. Held(v)'
  <2>1. CASE ~Reviving(v)
    BY <2>1 DEF Held, Reviving, RetryHolds, HandoffHolds, RetrySteps, HandoffSteps
  <2>2. CASE task' = task /\ (Late' <=> Late)
    <3>1. Standing' = Standing /\ Failed' = Failed
      BY <2>2 DEF Standing, Failed
    <3> QED BY <2>2, <3>1 DEF Held
  <2> QED BY <2>1, <2>2
<1>2. Cleared(v)'
  <2>1. CASE proc[v].pc \notin RetrySteps
    BY <2>1 DEF Cleared, RetrySteps
  <2>2. CASE /\ UNCHANGED <<control, report, artifacts, archive>>
             /\ orphan.report \subseteq orphan'.report
    <3>1. proc[v].pc = "purge" => task' = task
      BY DEF Reviving, RetrySteps
    <3> QED BY <2>2, <3>1 DEF Cleared
  <2> QED BY <2>1, <2>2
<1>3. Kept(v)'
  BY DEF Kept, Of
<1> QED BY <1>1, <1>2, <1>3

\* The same, of one that has not written the record.
LEMMA AloofHeld ==
    ASSUME NEW v \in Users, Kept(v), proc[v].pc \notin RetrySteps \cup HandoffHolds,
           proc'[v] = proc[v], aside'[v] = aside[v], Orderly' => Orderly
    PROVE  Held(v)' /\ Cleared(v)' /\ Kept(v)'
<1>1. Held(v)'
  BY DEF Held, RetryHolds, RetrySteps
<1>2. Cleared(v)'
  BY DEF Cleared, RetrySteps
<1>3. Kept(v)'
  BY DEF Kept, Of
<1> QED BY <1>1, <1>2, <1>3

\* Only the holder of the flock is in a retry.
LEMMA OneRetry ==
    ASSUME \A v \in Users : Apart(v), NEW u \in Users, NEW v \in Users, u # v,
           proc[u].pc \in RetrySteps
    PROVE  proc[v].pc \notin RetrySteps /\ aside[v] = Nothing
BY StepNames DEF Apart

\* A retry that is not undone is the only one: none is undone late.
LEMMA NotLate ==
    ASSUME \A v \in Users : Apart(v), NEW u \in Users, proc[u].pc \in RetrySteps \ Undoing
    PROVE  ~Late
<1>1. \A v \in Users \ {u} : proc[v].pc \notin RetrySteps
  BY OneRetry
<1>2. Undoing \subseteq RetrySteps
  BY DEF Undoing, RetrySteps
<1> QED BY <1>1, <1>2 DEF Late, LateOf

\* Nor is one after a step of it that leaves the attempt it is about on record.
LEMMA NorThen ==
    ASSUME \A v \in Users : Apart(v), NEW u \in Users, proc[u].pc \in RetrySteps,
           \A v \in Users \ {u} : proc'[v] = proc[v],
           proc'[u].pc \notin Undoing \/ task'.attempt = proc'[u].snap.attempt
    PROVE  ~Late'
<1>1. \A v \in Users \ {u} : proc[v].pc \notin RetrySteps
  BY OneRetry
<1>2. Undoing \subseteq RetrySteps
  BY DEF Undoing, RetrySteps
<1>3. \A v \in Users : ~LateOf(v)'
  BY <1>1, <1>2 DEF LateOf
<1> QED BY <1>3 DEF Late

\* An idle command, or one that hands off, is not undoing a retry.
LEMMA NotUndoing ==
    /\ Undoing \subseteq RetrySteps
    /\ \A pc \in {"idle", "stat", "break", "open", "check"} \cup HandoffSteps : pc \notin Undoing
BY DEF Undoing, RetrySteps, HandoffSteps

\* A step of u that leaves the record, and whether u is undone late.
LEMMA LateStays ==
    ASSUME NEW u \in Users, \A v \in Users \ {u} : proc'[v] = proc[v],
           task'.attempt = task.attempt, LateOf(u)' <=> LateOf(u)
    PROVE  Late' <=> Late
<1>1. \A v \in Users : LateOf(v)' <=> LateOf(v)
  BY DEF LateOf
<1> QED BY <1>1, Zenon DEF Late

\* No step of u, and no other record but for its status.
LEMMA LateStands ==
    ASSUME proc' = proc, task'.attempt = task.attempt
    PROVE  Late' <=> Late
<1>1. \A v \in Users : LateOf(v)' <=> LateOf(v)
  BY DEF LateOf
<1> QED BY <1>1, Zenon DEF Late

\* Nor then does what the record says of the files change.
LEMMA Unmoved ==
    ASSUME Late' <=> Late, UNCHANGED <<task, damaged, crashes>>
    PROVE  Standing' = Standing /\ Failed' = Failed /\ Orderly' = Orderly
BY DEF Standing, Failed, Orderly

\* With no retry undone late the record says what the files are about.
LEMMA Plain ==
    ASSUME ~Late
    PROVE  Standing = task.attempt /\ (Failed <=> task.status = "failed")
BY DEF Standing, Failed

LEMMA PlainThen ==
    ASSUME ~Late'
    PROVE  Standing' = task'.attempt /\ (Failed' <=> task'.status = "failed")
BY DEF Standing, Failed

\* The evidence stays where only the record's reservation, an empty place or the
\* holder of what is aside change.
LEMMA EvidenceStays ==
    ASSUME Evidence, task'.status = task.status, task'.attempt = task.attempt, Late' <=> Late,
           artifacts.of \subseteq artifacts'.of, report \subseteq report',
           control \subseteq control', damaged \subseteq damaged',
           orphan' = orphan, aside' = aside, archive' = archive
    PROVE  Evidence'
<1>0. Standing' = Standing /\ Failed' = Failed
  BY DEF Standing, Failed
<1>1. ArtifactsKept => ArtifactsKept'
  BY <1>0 DEF ArtifactsKept
<1>2. ReportKept => ReportKept'
  BY <1>0 DEF ReportKept
<1>3. ControlKept => ControlKept'
  BY <1>0 DEF ControlKept
<1> QED BY <1>0, <1>1, <1>2, <1>3 DEF Evidence

-----------------------------------------------------------------------------
(* One step at a time; a step that leaves the revival uncrossed found it so. *)

LEMMA InitKept == Init => KeptInv
<1> SUFFICES ASSUME Init
             PROVE  KeptInv
  OBVIOUS
<1>1. /\ task.status = "pending" /\ task.attempt = 1
      /\ report = {} /\ control = {} /\ artifacts.there /\ artifacts.of = {}
  BY DEF Init, EmptyDir
<1>2. \A u \in Users : /\ proc[u].pc = "idle" /\ aside[u] = Nothing
                       /\ aside[u].artifacts.of = {} /\ aside[u].report = {}
  BY DEF Init, Idle, Nothing, NoDir
<1>3. \A n \in Attempt : Archived(n)
  BY DEF Init, Archived, Of, NoDir
<1>4. \A u \in Users : Apart(u)
  BY <1>2, StepNames DEF Apart
<1>5. \A u \in Users : Held(u) /\ Cleared(u) /\ Kept(u)
  <2> SUFFICES ASSUME NEW u \in Users
               PROVE  Held(u) /\ Cleared(u) /\ Kept(u)
    OBVIOUS
  <2>1. Held(u) /\ Cleared(u)
    BY <1>2, StepNames DEF Held, Cleared, RetryHolds, HandoffHolds
  <2>2. Kept(u)
    BY <1>2 DEF Kept, Of
  <2> QED BY <2>1, <2>2
<1>6. InPlace /\ Evidence
  <2>1. ~Late
    BY <1>2, NotUndoing DEF Late, LateOf
  <2>2. ~Failed
    BY <1>1, <2>1 DEF Failed
  <2> QED BY <1>1, <2>1, <2>2 DEF InPlace, Of, Evidence
<1> QED BY <1>3, <1>4, <1>5, <1>6 DEF KeptInv, Uncrossed

LEMMA RetryBeginKept ==
    ASSUME TypeInv, KeptInv, NEW u \in Users, RetryBegin(u)
    PROVE  KeptInv'
<1>0. proc \in [Users -> Command] /\ task \in Record
  BY DEF TypeInv
<1>1. /\ proc[u].pc = "idle" /\ retryLock = NoUser /\ retryLock' = u /\ task.status = "failed"
      /\ UNCHANGED <<task, report, artifacts, control, archive, aside, orphan, crossed,
                     damaged, crashes>>
  BY DEF RetryBegin, RetryPreflight, files, bounds
<1>2. /\ proc'[u].pc = "reserve" /\ proc'[u].snap = task /\ ~proc'[u].fresh
      /\ \A v \in Users \ {u} : proc'[v] = proc[v]
  BY <1>0, IdleFacts DEF RetryBegin, Command, Idle
<1>3. aside[u] = Nothing /\ Nothing.report = {} /\ Nothing.artifacts.of = {}
  BY <1>1, StepNames DEF KeptInv, Apart, Nothing, NoDir
<1>4. \A v \in Users : proc[v].pc \notin RetrySteps
  BY <1>1, RevivalAssumption DEF KeptInv, Apart
<1>5. Apart(u)'
  BY <1>1, <1>2, <1>3 DEF Apart, KeptInv
<1>6. \A v \in Users \ {u} : Apart(v)'
  BY <1>1, <1>2, <1>4, OtherApart DEF KeptInv
<1>8. Late' <=> Late
  BY <1>1, <1>2, LateStays, NotUndoing DEF LateOf, Undoing
<1>9. Standing' = Standing /\ Failed' = Failed /\ Orderly' = Orderly
  BY <1>1, <1>8, Unmoved
<1>7. ASSUME ~crossed
      PROVE  Uncrossed'
  <2>0. Uncrossed
    BY <1>7 DEF KeptInv
  <2>1. Held(u)' /\ Cleared(u)' /\ Kept(u)'
    BY <1>1, <1>2, <1>3, StepNames DEF Held, Cleared, Kept, Of, RetryHolds, HandoffHolds
  <2>2. \A v \in Users \ {u} : Held(v)' /\ Cleared(v)' /\ Kept(v)'
    BY <1>1, <1>2, <1>4, <1>8, <1>9, <2>0, OtherHeld DEF Uncrossed
  <2>3. InPlace' /\ \A n \in Attempt : Archived(n)'
    BY <1>1, <1>8, <1>9, <2>0 DEF Uncrossed, InPlace, Archived
  <2>4. Evidence'
    BY <1>1, <1>8, <2>0, EvidenceStays DEF Uncrossed
  <2> QED BY <2>1, <2>2, <2>3, <2>4 DEF Uncrossed
<1> QED BY <1>1, <1>5, <1>6, <1>7 DEF KeptInv

\* The reservation, written while the record is the one that was read.
LEMMA ReserveKept ==
    ASSUME TypeInv, KeptInv, NEW u \in Users, Reserve(u)
    PROVE  KeptInv'
<1>0. proc \in [Users -> Command] /\ proc[u].snap \in Record
  BY DEF TypeInv, Command
<1>1. /\ proc[u].pc = "reserve"
      /\ UNCHANGED <<report, artifacts, control, archive, aside, orphan, retryLock,
                     damaged, crashes>>
      /\ crossed' = (crossed \/ Others(u) \/ task # proc[u].snap)
      /\ Goto(u, "archive")
  BY DEF Reserve, files, locks, bounds
<1>2. /\ proc'[u].pc = "archive" /\ proc'[u].snap = proc[u].snap
      /\ proc'[u].fresh = proc[u].fresh /\ \A v \in Users \ {u} : proc'[v] = proc[v]
  BY <1>0, <1>1, GotoKeeps, StepNames
<1>3. /\ task'.status = proc[u].snap.status /\ task'.attempt = proc[u].snap.attempt
      /\ task'.revival = Revived("reserved", "retry")
  BY <1>0 DEF Reserve, Record
<1>4. Apart(u)'
  BY <1>1, <1>2, StepNames DEF KeptInv, Apart, Filled
<1>5. \A v \in Users \ {u} : Apart(v)'
  BY <1>1, <1>2, OtherApart DEF KeptInv
<1>8. ~Late /\ ~Late'
  BY <1>1, <1>2, <1>3, NotLate, NorThen, StepNames DEF KeptInv, Undoing
<1>9. Orderly' = Orderly
  BY <1>1 DEF Orderly
<1>6. ASSUME ~crossed'
      PROVE  Uncrossed'
  <2>0. Uncrossed /\ ~Others(u) /\ task = proc[u].snap /\ proc[u].snap.status = "failed"
    BY <1>1, <1>6, StepNames DEF KeptInv, Apart
  <2>5. /\ Standing = task.attempt /\ Standing' = task.attempt
        /\ Failed /\ Failed'
    BY <1>3, <1>8, <2>0, Plain, PlainThen
  <2>1. Held(u)' /\ Cleared(u)' /\ Kept(u)'
    BY <1>1, <1>2, <1>3, <1>9, <2>0, <2>5, StepNames
       DEF Uncrossed, Held, Cleared, Kept, RetryHolds, HandoffHolds
  <2>2. \A v \in Users \ {u} : Held(v)' /\ Cleared(v)' /\ Kept(v)'
    BY <1>1, <1>2, <1>9, <2>0, OtherHeld DEF Uncrossed, Others
  <2>3. InPlace' /\ \A n \in Attempt : Archived(n)'
    BY <1>1, <1>3, <1>9, <2>0, <2>5 DEF Uncrossed, InPlace, Archived
  <2>4. Evidence'
    BY <1>1, <1>3, <1>8, <2>0, EvidenceStays DEF Uncrossed
  <2> QED BY <2>1, <2>2, <2>3, <2>4 DEF Uncrossed
<1> QED BY <1>4, <1>5, <1>6 DEF KeptInv

\* The session files go to the archive of their attempt.
LEMMA ArchiveKept ==
    ASSUME TypeInv, KeptInv, NEW u \in Users, Archive(u)
    PROVE  KeptInv'
<1> DEFINE n == proc[u].snap.attempt
<1>0. /\ proc \in [Users -> Command] /\ task \in Record /\ n \in Attempt
      /\ archive \in [Attempt -> Dir]
  BY DEF TypeInv, FilesTyped, Command, Record
<1>1. /\ proc[u].pc = "archive"
      /\ UNCHANGED <<task, report, artifacts, aside, orphan, retryLock, crossed, damaged,
                     crashes>>
  BY DEF Archive, locks, bounds
<1>2. \/ archive[n].there /\ Goto(u, "undo record") /\ UNCHANGED <<archive, control>>
      \/ /\ ~archive[n].there /\ control' = {} /\ Goto(u, "report")
         /\ archive' = [archive EXCEPT ![n] = [there |-> TRUE, of |-> control]]
  BY DEF Archive, Moved
<1>3. /\ proc'[u].pc \in {"undo record", "report"} /\ proc'[u].snap = proc[u].snap
      /\ proc'[u].fresh = proc[u].fresh /\ \A v \in Users \ {u} : proc'[v] = proc[v]
  BY <1>0, <1>2, GotoKeeps, StepNames
<1>4. aside[u] = Nothing /\ Nothing.report = {}
  BY <1>1 DEF KeptInv, Apart, Nothing, Filled
<1>5. Apart(u)'
  BY <1>1, <1>3, StepNames DEF KeptInv, Apart, Filled
<1>6. \A v \in Users \ {u} : Apart(v)' /\ proc[v].pc \notin RetrySteps
  BY <1>1, <1>3, OtherApart, OneRetry, StepNames DEF KeptInv
<1>8. ~Late
  BY <1>1, NotLate, StepNames DEF KeptInv, Undoing
<1>9. Orderly' = Orderly
  BY <1>1 DEF Orderly
<1>7. ASSUME ~crossed
      PROVE  Uncrossed'
  <2>0. Uncrossed /\ task.attempt = n /\ task.status = "failed"
    BY <1>1, <1>7, <1>8, StepNames, Plain DEF KeptInv, Uncrossed, Held, RetryHolds
  <2>8. ~Late'
    BY <1>1, <1>3, <2>0, NorThen, StepNames DEF KeptInv
  <2>9. Standing = n /\ Standing' = n /\ Failed /\ Failed' /\ (Late' <=> Late)
    BY <1>1, <1>8, <2>0, <2>8, Plain, PlainThen
  <2>1. Held(u)' /\ Kept(u)'
    BY <1>1, <1>3, <1>9, <2>0, <2>9, StepNames
       DEF Uncrossed, Held, Kept, RetryHolds, HandoffHolds
  <2>2. Cleared(u)'
    <3>1. CASE Goto(u, "undo record")
      <4>1. proc'[u].pc = "undo record"
        BY <1>0, <3>1, GotoKeeps, StepNames
      <4> QED BY <4>1 DEF Cleared
    <3>2. CASE Goto(u, "report") /\ control' = {}
      <4>1. proc'[u].pc = "report"
        BY <1>0, <3>2, GotoKeeps, StepNames
      <4> QED BY <3>2, <4>1 DEF Cleared
    <3> QED BY <1>2, <3>1, <3>2
  <2>3. \A v \in Users \ {u} : Held(v)' /\ Cleared(v)' /\ Kept(v)'
    BY <1>1, <1>3, <1>6, <1>9, <2>0, <2>9, OtherHeld DEF Uncrossed
  <2>4. \A m \in Attempt : Archived(m)'
    <3> SUFFICES ASSUME NEW m \in Attempt
                 PROVE  Archived(m)'
      OBVIOUS
    <3>1. Archived(m) /\ Of(Orderly, control, n)
      BY <2>0, <2>9 DEF Uncrossed, InPlace
    <3>2. \/ archive'[m] = archive[m]
          \/ m = n /\ archive'[m] = [there |-> TRUE, of |-> control]
      BY <1>0, <1>2
    <3> QED BY <1>9, <3>1, <3>2 DEF Archived
  <2>5. InPlace'
    BY <1>1, <1>2, <1>9, <2>0, <2>9 DEF Uncrossed, InPlace, Of
  <2>6. ControlKept => ControlKept'
    <3>1. CASE UNCHANGED <<archive, control>>
      BY <1>1, <2>9, <3>1 DEF ControlKept
    <3>2. CASE /\ ~archive[n].there
               /\ archive' = [archive EXCEPT ![n] = [there |-> TRUE, of |-> control]]
      <4>1. archive[n].of = {} /\ archive'[n].of = control
        BY <1>0, <2>0, <3>2 DEF Uncrossed, Archived
      <4> HIDE DEF n
      <4> QED BY <1>1, <2>9, <4>1 DEF ControlKept
    <3> QED BY <1>2, <3>1, <3>2
  <2>7. Evidence'
    <3>1. ArtifactsKept' /\ ReportKept' /\ ControlKept'
      BY <1>1, <2>0, <2>6, <2>9 DEF Uncrossed, Evidence, ArtifactsKept, ReportKept
    <3> QED BY <1>1, <2>0, <2>8, <3>1 DEF Evidence
  <2> QED BY <2>1, <2>2, <2>3, <2>4, <2>5, <2>7 DEF Uncrossed
<1> QED BY <1>1, <1>5, <1>6, <1>7 DEF KeptInv

\* The report goes aside.
LEMMA ReportAsideKept ==
    ASSUME TypeInv, KeptInv, NEW u \in Users, QuarantineReport(u)
    PROVE  KeptInv'
<1>0. /\ proc \in [Users -> Command]
      /\ aside \in [Users -> [report : SUBSET Attempt, artifacts : Dir]]
  BY DEF TypeInv, FilesTyped
<1>1. /\ proc[u].pc = "report" /\ report' = {} /\ Goto(u, "artifacts")
      /\ UNCHANGED <<task, artifacts, control, archive, orphan, retryLock, crossed, damaged,
                     crashes>>
  BY DEF QuarantineReport, locks, bounds
<1>2. /\ proc'[u].pc = "artifacts" /\ proc'[u].snap = proc[u].snap
      /\ proc'[u].fresh = proc[u].fresh /\ \A v \in Users \ {u} : proc'[v] = proc[v]
  BY <1>0, <1>1, GotoKeeps, StepNames
<1>3. aside[u].artifacts = NoDir /\ aside[u].report = {} /\ NoDir.of = {}
  <2>1. aside[u] = Nothing
    BY <1>1 DEF KeptInv, Apart, Filled
  <2>2. Nothing.artifacts = NoDir /\ Nothing.report = {} /\ NoDir.of = {}
    BY DEF Nothing, NoDir
  <2> QED BY <2>1, <2>2
<1>4. /\ aside'[u].report = report /\ aside'[u].artifacts = NoDir
      /\ \A v \in Users \ {u} : aside'[v] = aside[v]
  BY <1>0, <1>3 DEF QuarantineReport
<1>5. Apart(u)'
  BY <1>1, <1>2, <1>3, <1>4, StepNames DEF KeptInv, Apart, Filled
<1>6. \A v \in Users \ {u} : Apart(v)' /\ proc[v].pc \notin RetrySteps
  BY <1>1, <1>2, <1>4, OtherApart, OneRetry, StepNames DEF KeptInv
<1>8. ~Late
  BY <1>1, NotLate, StepNames DEF KeptInv, Undoing
<1>9. Orderly' = Orderly
  BY <1>1 DEF Orderly
<1>7. ASSUME ~crossed
      PROVE  Uncrossed'
  <2>0. /\ Uncrossed /\ task.attempt = proc[u].snap.attempt /\ task.status = "failed"
        /\ control = {}
    BY <1>1, <1>7, <1>8, StepNames, Plain
       DEF KeptInv, Uncrossed, Held, Cleared, RetryHolds
  <2>8. ~Late'
    BY <1>1, <1>2, <2>0, NorThen, StepNames DEF KeptInv
  <2>9. /\ Standing = task.attempt /\ Standing' = task.attempt /\ Failed /\ Failed'
        /\ Late' <=> Late
    BY <1>1, <1>8, <2>0, <2>8, Plain, PlainThen
  <2>1. Held(u)'
    BY <1>1, <1>2, <2>0, <2>9, StepNames DEF Uncrossed, Held, RetryHolds, HandoffHolds
  <2>2. Cleared(u)' /\ Kept(u)'
    BY <1>1, <1>2, <1>3, <1>4, <1>9, <2>0, <2>9 DEF Uncrossed, Cleared, Kept, InPlace, Of
  <2>3. \A v \in Users \ {u} : Held(v)' /\ Cleared(v)' /\ Kept(v)'
    BY <1>1, <1>2, <1>4, <1>6, <1>9, <2>0, <2>9, OtherHeld DEF Uncrossed
  <2>4. InPlace' /\ \A m \in Attempt : Archived(m)'
    BY <1>1, <1>9, <2>0, <2>9 DEF Uncrossed, InPlace, Archived, Of
  <2>5. ArtifactsKept' /\ ControlKept'
    BY <1>0, <1>1, <1>3, <1>4, <2>0, <2>9
       DEF Uncrossed, Evidence, ArtifactsKept, ControlKept
  <2>6. ReportKept'
    BY <1>1, <1>3, <1>4, <2>0, <2>9 DEF Uncrossed, Evidence, ReportKept
  <2>7. Evidence'
    BY <1>1, <2>0, <2>5, <2>6, <2>8 DEF Evidence
  <2> QED BY <2>1, <2>2, <2>3, <2>4, <2>7 DEF Uncrossed
<1> QED BY <1>1, <1>5, <1>6, <1>7 DEF KeptInv

\* The artifacts go aside.
LEMMA ArtifactsAsideKept ==
    ASSUME TypeInv, KeptInv, NEW u \in Users, QuarantineArtifacts(u)
    PROVE  KeptInv'
<1>0. /\ proc \in [Users -> Command]
      /\ aside \in [Users -> [report : SUBSET Attempt, artifacts : Dir]]
  BY DEF TypeInv, FilesTyped
<1>1. /\ proc[u].pc = "artifacts" /\ artifacts' = NoDir /\ Goto(u, "mkdir")
      /\ UNCHANGED <<task, report, control, archive, orphan, retryLock, crossed, damaged,
                     crashes>>
      /\ NoDir.of = {}
  BY DEF QuarantineArtifacts, locks, bounds, NoDir
<1>2. /\ proc'[u].pc = "mkdir" /\ proc'[u].snap = proc[u].snap
      /\ proc'[u].fresh = proc[u].fresh /\ \A v \in Users \ {u} : proc'[v] = proc[v]
  BY <1>0, <1>1, GotoKeeps, StepNames
<1>3. aside[u].artifacts.of = {}
  BY <1>1 DEF KeptInv, Apart, NoDir
<1>4. /\ aside'[u].report = aside[u].report /\ aside'[u].artifacts = artifacts
      /\ \A v \in Users \ {u} : aside'[v] = aside[v]
  BY <1>0 DEF QuarantineArtifacts
<1>6. \A v \in Users \ {u} : Apart(v)' /\ proc[v].pc \notin RetrySteps
  BY <1>1, <1>2, <1>4, OtherApart, OneRetry, StepNames DEF KeptInv
<1>5. Apart(u)'
  BY <1>1, <1>2, <1>4, StepNames DEF KeptInv, Apart, Filled
<1>8. ~Late
  BY <1>1, NotLate, StepNames DEF KeptInv, Undoing
<1>9. Orderly' = Orderly
  BY <1>1 DEF Orderly
<1>7. ASSUME ~crossed
      PROVE  Uncrossed'
  <2>0. /\ Uncrossed /\ task.attempt = proc[u].snap.attempt /\ task.status = "failed"
        /\ control = {} /\ report = {}
    BY <1>1, <1>7, <1>8, StepNames, Plain
       DEF KeptInv, Uncrossed, Held, Cleared, RetryHolds
  <2>8. ~Late'
    BY <1>1, <1>2, <2>0, NorThen, StepNames DEF KeptInv
  <2>9. /\ Standing = task.attempt /\ Standing' = task.attempt /\ Failed /\ Failed'
        /\ Late' <=> Late
    BY <1>1, <1>8, <2>0, <2>8, Plain, PlainThen
  <2>1. Held(u)'
    BY <1>1, <1>2, <2>0, <2>9, StepNames DEF Uncrossed, Held, RetryHolds, HandoffHolds
  <2>2. Cleared(u)' /\ Kept(u)'
    BY <1>1, <1>2, <1>4, <1>9, <2>0, <2>9 DEF Uncrossed, Cleared, Kept, InPlace
  <2>3. \A v \in Users \ {u} : Held(v)' /\ Cleared(v)' /\ Kept(v)'
    BY <1>1, <1>2, <1>4, <1>6, <1>9, <2>0, <2>9, OtherHeld DEF Uncrossed
  <2>4. InPlace' /\ \A m \in Attempt : Archived(m)'
    BY <1>1, <1>9, <2>0, <2>9 DEF Uncrossed, InPlace, Archived, Of
  <2>5. ArtifactsKept'
    BY <1>1, <1>3, <1>4, <2>0, <2>9 DEF Uncrossed, Evidence, ArtifactsKept
  <2>6. ReportKept' /\ ControlKept'
    BY <1>1, <1>4, <2>0, <2>9 DEF Uncrossed, Evidence, ReportKept, ControlKept
  <2>7. Evidence'
    BY <1>1, <2>0, <2>5, <2>6, <2>8 DEF Evidence
  <2> QED BY <2>1, <2>2, <2>3, <2>4, <2>7 DEF Uncrossed
<1> QED BY <1>1, <1>5, <1>6, <1>7 DEF KeptInv

\* The place of the artifacts is made again.
LEMMA MakeArtifactsKept ==
    ASSUME TypeInv, KeptInv, NEW u \in Users, MakeArtifacts(u)
    PROVE  KeptInv'
<1>0. proc \in [Users -> Command]
  BY DEF TypeInv
<1>1. /\ proc[u].pc = "mkdir"
      /\ UNCHANGED <<task, report, control, archive, aside, orphan, retryLock, crossed,
                     damaged, crashes>>
  BY DEF MakeArtifacts, locks, bounds
<1>2. /\ \/ artifacts' = artifacts /\ proc'[u].pc = "undo files" /\ proc'[u].fresh = proc[u].fresh
         \/ artifacts' = EmptyDir /\ proc'[u].pc = "commit"
      /\ proc'[u].snap = proc[u].snap /\ \A v \in Users \ {u} : proc'[v] = proc[v]
  <2>1. CASE Goto(u, "undo files") /\ UNCHANGED artifacts
    BY <1>0, <2>1, GotoKeeps, StepNames
  <2>2. CASE artifacts' = EmptyDir /\ proc' = [proc EXCEPT ![u].pc = "commit", ![u].fresh = TRUE]
    BY <1>0, <2>2 DEF Command
  <2> QED BY <2>1, <2>2 DEF MakeArtifacts
<1>3. EmptyDir.of = {}
  BY DEF EmptyDir
<1>5. Apart(u)'
  BY <1>1, <1>2, StepNames DEF KeptInv, Apart, Filled
<1>6. \A v \in Users \ {u} : Apart(v)' /\ proc[v].pc \notin RetrySteps
  BY <1>1, <1>2, OtherApart, OneRetry, StepNames DEF KeptInv
<1>8. ~Late
  BY <1>1, NotLate, StepNames DEF KeptInv, Undoing
<1>9. Orderly' = Orderly
  BY <1>1 DEF Orderly
<1>7. ASSUME ~crossed
      PROVE  Uncrossed'
  <2>0. /\ Uncrossed /\ task.attempt = proc[u].snap.attempt /\ task.status = "failed"
        /\ control = {} /\ report = {} /\ artifacts.of = {} /\ ~proc[u].fresh
    BY <1>1, <1>7, <1>8, StepNames, Plain
       DEF KeptInv, Uncrossed, Held, Cleared, Apart, RetryHolds
  <2>8. ~Late'
    BY <1>1, <1>2, <2>0, NorThen, StepNames DEF KeptInv
  <2>9. /\ Standing = task.attempt /\ Standing' = task.attempt /\ Failed /\ Failed'
        /\ Late' <=> Late
    BY <1>1, <1>8, <2>0, <2>8, Plain, PlainThen
  <2>1. Held(u)' /\ Kept(u)'
    BY <1>1, <1>2, <1>9, <2>0, <2>9, StepNames
       DEF Uncrossed, Held, Kept, RetryHolds, HandoffHolds
  <2>2. Cleared(u)'
    BY <1>1, <1>2, <1>3, <2>0 DEF Cleared
  <2>3. \A v \in Users \ {u} : Held(v)' /\ Cleared(v)' /\ Kept(v)'
    BY <1>1, <1>2, <1>6, <1>9, <2>0, <2>9, OtherHeld DEF Uncrossed
  <2>4. InPlace' /\ \A m \in Attempt : Archived(m)'
    BY <1>1, <1>2, <1>3, <1>9, <2>0, <2>9 DEF Uncrossed, InPlace, Archived, Of
  <2>5. Evidence'
    BY <1>1, <1>2, <1>3, <2>0, <2>9, EvidenceStays DEF Uncrossed
  <2> QED BY <2>1, <2>2, <2>3, <2>4, <2>5 DEF Uncrossed
<1> QED BY <1>1, <1>5, <1>6, <1>7 DEF KeptInv

\* The new attempt is written: nothing of the old one is in its place.
LEMMA CommitRetryKept ==
    ASSUME TypeInv, KeptInv, NEW u \in Users, CommitRetry(u)
    PROVE  KeptInv'
<1> DEFINE n == proc[u].snap.attempt
<1>0. proc \in [Users -> Command]
  BY DEF TypeInv
<1>1. /\ proc[u].pc = "commit" /\ Goto(u, "purge")
      /\ task'.status = "pending" /\ task'.attempt = n + 1
      /\ UNCHANGED <<report, artifacts, control, archive, aside, orphan, retryLock,
                     damaged, crashes>>
      /\ crossed' = (crossed \/ Others(u))
  BY DEF CommitRetry, Renewed, files, locks, bounds, NextAttempt
<1>2. /\ proc'[u].pc = "purge" /\ proc'[u].snap = proc[u].snap
      /\ \A v \in Users \ {u} : proc'[v] = proc[v]
  BY <1>0, <1>1, GotoKeeps, StepNames
<1>3. /\ \A v \in Users \ {u} : proc[v].pc \notin RetrySteps /\ aside[v] = Nothing
      /\ Nothing.report = {}
  BY <1>1, OneRetry, StepNames DEF KeptInv, Nothing
<1>4. Orderly' = Orderly /\ ~Late /\ ~Late'
  <2>1. ~Late
    BY <1>1, NotLate, StepNames DEF KeptInv, Undoing
  <2>2. ~Late'
    BY <1>1, <1>2, NorThen, StepNames DEF KeptInv, Undoing
  <2> QED BY <1>1, <2>1, <2>2 DEF Orderly
<1>5. Apart(u)'
  BY <1>1, <1>2, StepNames DEF KeptInv, Apart, Filled
<1>6. \A v \in Users \ {u} : Apart(v)'
  BY <1>1, <1>2, OtherApart DEF KeptInv
<1>7. ASSUME ~crossed'
      PROVE  Uncrossed'
  <2>0. Uncrossed /\ control = {} /\ report = {} /\ artifacts.of = {} /\ ~Others(u)
    BY <1>1, <1>7, StepNames DEF KeptInv, Uncrossed, Cleared
  <2>1. Failed /\ Standing = n /\ Evidence
    BY <1>1, <2>0 DEF Uncrossed, Held, RetryHolds, RetrySteps
  <2>2. n \in orphan.report \cup aside[u].report /\ n \in archive[n].of
    <3>1. ReportKept /\ ControlKept
      BY <2>1 DEF Evidence
    <3>2. n \in orphan.report \cup aside[u].report
      BY <1>3, <2>0, <2>1, <3>1 DEF ReportKept
    <3>3. n \in archive[n].of
      BY <2>0, <2>1, <3>1 DEF ControlKept
    <3> QED BY <3>2, <3>3
  <2>3. Held(u)' /\ Kept(u)'
    BY <1>1, <1>2, <1>4, <2>0, StepNames DEF Uncrossed, Held, Kept, RetryHolds, HandoffHolds
  <2>4. Cleared(u)'
    BY <1>1, <1>2, <2>0, <2>2 DEF Cleared
  <2>5. \A v \in Users \ {u} : Held(v)' /\ Cleared(v)' /\ Kept(v)'
    BY <1>1, <1>2, <1>4, <2>0, OtherHeld DEF Uncrossed, Others
  <2>6. InPlace' /\ \A m \in Attempt : Archived(m)'
    BY <1>1, <1>4, <2>0 DEF Uncrossed, InPlace, Archived, Of
  <2>7. Evidence'
    BY <1>1, <1>4 DEF Evidence, Failed
  <2> QED BY <2>3, <2>4, <2>5, <2>6, <2>7 DEF Uncrossed
<1> QED BY <1>5, <1>6, <1>7 DEF KeptInv

\* What the new attempt replaces is removed for good.
LEMMA PurgeKept ==
    ASSUME TypeInv, KeptInv, NEW u \in Users, Purge(u)
    PROVE  KeptInv'
<1>0. /\ proc \in [Users -> Command] /\ task \in Record /\ proc[u].snap \in Record
      /\ aside \in [Users -> [report : SUBSET Attempt, artifacts : Dir]]
  BY DEF TypeInv, FilesTyped, Command
<1>1. /\ proc[u].pc = "purge" /\ Stop(u)
      /\ UNCHANGED <<task, report, artifacts, control, archive, orphan, crossed, damaged,
                     crashes>>
  BY DEF Purge, bounds
<1>2. /\ proc'[u].pc = "idle" /\ \A v \in Users \ {u} : proc'[v] = proc[v]
  BY <1>0, <1>1, StopIdles
<1>3. /\ aside'[u] = Nothing /\ Nothing.report = {} /\ Nothing.artifacts.of = {}
      /\ \A v \in Users \ {u} : aside'[v] = aside[v]
  BY <1>0 DEF Purge, Nothing, NoDir
<1>5. Apart(u)'
  BY <1>2, <1>3, StepNames DEF Apart
<1>6. \A v \in Users \ {u} : Apart(v)' /\ proc[v].pc \notin RetrySteps
  BY <1>1, <1>2, <1>3, OtherApart, OneRetry, StepNames DEF KeptInv
<1>8. ~Late /\ ~Late'
  <2>1. ~Late
    BY <1>1, NotLate, StepNames DEF KeptInv, Undoing
  <2>2. ~Late'
    BY <1>1, <1>2, NorThen, StepNames, NotUndoing DEF KeptInv
  <2> QED BY <2>1, <2>2
<1>9. /\ Standing = task.attempt /\ Standing' = task.attempt /\ Orderly' = Orderly
      /\ Failed <=> task.status = "failed"
      /\ Failed' <=> task.status = "failed"
  BY <1>1, <1>8, Plain, PlainThen DEF Orderly
<1>7. ASSUME ~crossed
      PROVE  Uncrossed'
  <2>0. Uncrossed /\ task.attempt = proc[u].snap.attempt + 1
    BY <1>1, <1>7 DEF KeptInv, Uncrossed, Held
  <2>1. Held(u)' /\ Cleared(u)' /\ Kept(u)'
    BY <1>2, <1>3, StepNames DEF Held, Cleared, Kept, Of, RetryHolds, HandoffHolds
  <2>3. \A v \in Users \ {u} : Held(v)' /\ Cleared(v)' /\ Kept(v)'
    BY <1>1, <1>2, <1>3, <1>6, <1>8, <1>9, <2>0, OtherHeld DEF Uncrossed
  <2>4. InPlace' /\ \A m \in Attempt : Archived(m)'
    BY <1>1, <1>8, <1>9, <2>0 DEF Uncrossed, InPlace, Archived
  <2>5. task.attempt \notin aside[u].report /\ task.attempt \notin aside[u].artifacts.of
    <3>1. proc[u].snap.attempt \in Nat
      BY <1>0 DEF Record, Attempt
    <3> QED BY <2>0, <3>1 DEF Uncrossed, Kept, Of
  <2>6. ArtifactsKept => ArtifactsKept'
    BY <1>1, <1>3, <1>9, <2>5 DEF ArtifactsKept
  <2>7. ReportKept => ReportKept'
    BY <1>1, <1>3, <1>9, <2>5 DEF ReportKept
  <2>8. ControlKept => ControlKept'
    BY <1>1, <1>9 DEF ControlKept
  <2>9. Evidence'
    BY <1>1, <1>8, <1>9, <2>0, <2>6, <2>7, <2>8 DEF Uncrossed, Evidence
  <2> QED BY <2>1, <2>3, <2>4, <2>9 DEF Uncrossed
<1> QED BY <1>1, <1>5, <1>6, <1>7 DEF KeptInv

\* An operation fails before the commit: from then on the retry is taken back.
LEMMA RetryFaultKept ==
    ASSUME TypeInv, KeptInv, NEW u \in Users, RetryFault(u)
    PROVE  KeptInv'
<1>0. proc \in [Users -> Command]
  BY DEF TypeInv
<1>1. /\ UNCHANGED <<task, report, artifacts, control, archive, aside, orphan, retryLock,
                     crossed, damaged, crashes>>
      /\ \/ proc[u].pc = "archive" /\ Goto(u, "undo record")
         \/ /\ proc[u].pc \in {"report", "artifacts", "mkdir", "commit"}
            /\ Goto(u, "undo files")
  BY DEF RetryFault, files, locks
<1>2. /\ \/ proc[u].pc = "archive" /\ proc'[u].pc = "undo record"
         \/ /\ proc[u].pc \in {"report", "artifacts", "mkdir", "commit"}
            /\ proc'[u].pc = "undo files"
      /\ proc'[u].snap = proc[u].snap /\ proc'[u].fresh = proc[u].fresh
      /\ \A v \in Users \ {u} : proc'[v] = proc[v]
  BY <1>0, <1>1, GotoKeeps, StepNames
<1>3. Apart(u)'
  BY <1>1, <1>2, StepNames DEF KeptInv, Apart, Filled
<1>4. \A v \in Users \ {u} : Apart(v)' /\ proc[v].pc \notin RetrySteps
  BY <1>1, <1>2, OtherApart, OneRetry, StepNames DEF KeptInv
<1>8. ~Late
  BY <1>1, NotLate, StepNames DEF KeptInv, Undoing
<1>9. Orderly' = Orderly
  BY <1>1 DEF Orderly
<1>5. ASSUME ~crossed
      PROVE  Uncrossed'
  <2>0. /\ Uncrossed /\ task.attempt = proc[u].snap.attempt /\ task.status = "failed"
    BY <1>2, <1>5, <1>8, StepNames, Plain DEF KeptInv, Uncrossed, Held, RetryHolds
  <2>8. ~Late'
    BY <1>1, <1>2, <2>0, NorThen, StepNames DEF KeptInv
  <2>9. /\ Standing = task.attempt /\ Standing' = task.attempt /\ Failed /\ Failed'
        /\ Late' <=> Late
    BY <1>1, <1>8, <2>0, <2>8, Plain, PlainThen
  <2>1. Held(u)' /\ Kept(u)'
    BY <1>1, <1>2, <1>9, <2>0, <2>9, StepNames
       DEF Uncrossed, Held, Kept, RetryHolds, HandoffHolds
  <2>2. Cleared(u)'
    <3>1. proc[u].pc = "report" => aside[u].report = {}
      <4>1. proc[u].pc = "report" => aside[u] = Nothing
        BY DEF KeptInv, Apart, Filled
      <4> QED BY <4>1 DEF Nothing
    <3> QED BY <1>1, <1>2, <2>0, <3>1 DEF Uncrossed, Cleared, KeptInv, Apart
  <2>3. \A v \in Users \ {u} : Held(v)' /\ Cleared(v)' /\ Kept(v)'
    BY <1>1, <1>2, <1>4, <1>9, <2>0, <2>9, OtherHeld DEF Uncrossed
  <2>4. InPlace' /\ \A m \in Attempt : Archived(m)'
    BY <1>1, <1>9, <2>0, <2>9 DEF Uncrossed, InPlace, Archived
  <2>5. Evidence'
    BY <1>1, <2>0, <2>9, EvidenceStays DEF Uncrossed
  <2> QED BY <2>1, <2>2, <2>3, <2>4, <2>5 DEF Uncrossed
<1> QED BY <1>1, <1>3, <1>4, <1>5 DEF KeptInv

\* The removal after the commit fails: the attempt of before stands again, with what is
\* left of its artifacts.
LEMMA PurgeFaultKept ==
    ASSUME TypeInv, KeptInv, NEW u \in Users, PurgeFault(u)
    PROVE  KeptInv'
<1> DEFINE n == proc[u].snap.attempt
<1>0. /\ proc \in [Users -> Command] /\ n \in Nat
      /\ aside \in [Users -> [report : SUBSET Attempt, artifacts : Dir]]
  BY DEF TypeInv, FilesTyped, Command, Record, Attempt
<1>1. /\ proc[u].pc = "purge" /\ Goto(u, "undo files")
      /\ damaged' = damaged \cup {n}
      /\ UNCHANGED <<task, report, artifacts, control, archive, orphan, retryLock, crashes>>
      /\ crossed' = (crossed \/ task # Renewed(proc[u].snap))
  BY DEF PurgeFault, locks
<1>2. /\ proc'[u].pc = "undo files" /\ proc'[u].snap = proc[u].snap
      /\ \A v \in Users \ {u} : proc'[v] = proc[v]
  BY <1>0, <1>1, GotoKeeps, StepNames
<1> DEFINE Smaller == /\ aside'[u].report = aside[u].report
                      /\ aside'[u].artifacts.of \subseteq aside[u].artifacts.of
                      /\ \/ aside'[u].artifacts.there = aside[u].artifacts.there
                         \/ aside'[u].artifacts.of = {}
                      /\ \A v \in Users \ {u} : aside'[v] = aside[v]
<1>3. Smaller
  <2>1. CASE aside' = [aside EXCEPT ![u].artifacts = NoDir]
    BY <1>0, <2>1 DEF NoDir
  <2>2. ASSUME NEW left \in SUBSET aside[u].artifacts.of,
               aside' = [aside EXCEPT ![u].artifacts.of = left]
        PROVE  Smaller
    BY <1>0, <2>2 DEF Dir
  <2> QED BY <2>1, <2>2 DEF PurgeFault
<1>4. Apart(u)'
  BY <1>1, <1>2, StepNames DEF KeptInv, Apart, Filled
<1>5. \A v \in Users \ {u} : Apart(v)' /\ proc[v].pc \notin RetrySteps
  BY <1>1, <1>2, <1>3, OtherApart, OneRetry, StepNames DEF KeptInv
<1>6. Orderly' => Orderly
  BY <1>1 DEF Orderly
<1>7. ASSUME ~crossed'
      PROVE  Uncrossed'
  <2>0. /\ Uncrossed /\ task.status = "pending" /\ task.attempt = n + 1
    <3>1. ~crossed /\ task = Renewed(proc[u].snap)
      BY <1>1, <1>7
    <3>2. task.status = "pending" /\ task.attempt = n + 1
      BY <3>1 DEF Renewed, NextAttempt
    <3> QED BY <3>1, <3>2 DEF KeptInv
  <2>1. /\ control = {} /\ report = {} /\ artifacts.of = {}
        /\ n \in orphan.report \cup aside[u].report /\ n \in archive[n].of
    BY <1>1, <2>0 DEF Uncrossed, Cleared
  <2>2. Late' /\ Standing' = n /\ Failed'
    <3>1. task'.attempt = n + 1 /\ n + 1 # n /\ (n + 1) - 1 = n
      <4>1. task' = task
        BY <1>1
      <4> QED BY <1>0, <2>0, <4>1
    <3>2. LateOf(u)'
      BY <1>2, <3>1 DEF LateOf, Undoing
    <3>3. Late'
      BY <3>2 DEF Late
    <3> QED BY <3>1, <3>3 DEF Standing, Failed
  <2>3. Held(u)' /\ Cleared(u)'
    BY <1>1, <1>2, <2>1, <2>2, StepNames DEF Held, Cleared, HandoffHolds
  <2>4. Kept(u)'
    BY <1>2, <1>3, <1>6, <2>0 DEF Uncrossed, Kept, Of
  <2>5. \A v \in Users \ {u} : Held(v)' /\ Cleared(v)' /\ Kept(v)'
    <3>1. \A v \in Users : proc[v].pc \notin HandoffHolds
      BY <2>0 DEF Uncrossed, Held
    <3> QED BY <1>2, <1>3, <1>5, <1>6, <2>0, <3>1, AloofHeld DEF Uncrossed
  <2>6. InPlace' /\ \A m \in Attempt : Archived(m)'
    BY <1>1, <1>6, <2>0, <2>1, <2>2 DEF Uncrossed, InPlace, Archived, Of
  <2>7. ArtifactsKept' /\ ReportKept' /\ ControlKept'
    <3>1. n \in damaged'
      BY <1>1
    <3>2. n \in orphan'.report \/ n \in aside'[u].report
      BY <1>1, <1>3, <2>1
    <3> HIDE DEF n
    <3> QED BY <1>1, <2>1, <2>2, <3>1, <3>2 DEF ArtifactsKept, ReportKept, ControlKept
  <2>8. Evidence'
    BY <1>1, <2>0, <2>7 DEF Evidence
  <2> QED BY <2>3, <2>4, <2>5, <2>6, <2>8 DEF Uncrossed
<1> QED BY <1>1, <1>4, <1>5, <1>7 DEF KeptInv

\* What is aside and in the archive goes back to where it came from.
LEMMA UndoFilesKept ==
    ASSUME TypeInv, KeptInv, NEW u \in Users, UndoFiles(u)
    PROVE  KeptInv'
<1> DEFINE n == proc[u].snap.attempt
           a == aside[u]
           cleared == IF proc[u].fresh THEN NoDir ELSE artifacts
           blocked == a.artifacts.there /\ cleared.there /\ cleared.of # {}
<1>0. /\ proc \in [Users -> Command] /\ n \in Attempt
      /\ aside \in [Users -> [report : SUBSET Attempt, artifacts : Dir]]
      /\ archive \in [Attempt -> Dir]
      /\ orphan \in [report : SUBSET Attempt, artifacts : SUBSET Attempt]
  BY DEF TypeInv, FilesTyped, Command, Record
<1>1. /\ proc[u].pc = "undo files" /\ Goto(u, "undo record")
      /\ UNCHANGED <<task, retryLock, crossed, damaged, crashes>>
  BY DEF UndoFiles, locks, bounds
<1>2. /\ proc'[u].pc = "undo record" /\ proc'[u].snap = proc[u].snap
      /\ \A v \in Users \ {u} : proc'[v] = proc[v]
  BY <1>0, <1>1, GotoKeeps, StepNames
<1>3. /\ aside'[u] = Nothing /\ Nothing.report = {} /\ Nothing.artifacts.of = {}
      /\ \A v \in Users \ {u} : aside'[v] = aside[v]
  BY <1>0 DEF UndoFiles, Nothing, NoDir
<1>4. Apart(u)'
  BY <1>1, <1>2, <1>3, StepNames DEF KeptInv, Apart
<1>5. \A v \in Users \ {u} : Apart(v)' /\ proc[v].pc \notin RetrySteps
  BY <1>1, <1>2, <1>3, OtherApart, OneRetry, StepNames DEF KeptInv
<1>8. Late' <=> Late
  <2>1. task' = task
    BY <1>1
  <2>2. LateOf(u)' <=> LateOf(u)
    BY <1>1, <1>2 DEF LateOf, Undoing
  <2> QED BY <1>2, <2>1, <2>2, LateStays
<1>9. Standing' = Standing /\ (Failed' <=> Failed) /\ Orderly' = Orderly
  <2>1. UNCHANGED <<task, damaged, crashes>>
    BY <1>1
  <2> QED BY <1>8, <2>1, Unmoved
<1>6. ASSUME ~crossed
      PROVE  Uncrossed'
  <2>0. /\ Uncrossed /\ Standing = n /\ Failed /\ control = {}
        /\ aside[u].report # {} => report = {}
        /\ proc[u].fresh => artifacts.of = {}
    BY <1>1, <1>6, StepNames DEF KeptInv, Uncrossed, Held, Cleared, RetryHolds
  <2>1. /\ cleared.of = artifacts.of /\ (~cleared.there => cleared.of = {})
        /\ Of(Orderly, a.artifacts.of, n) /\ (~a.artifacts.there => a.artifacts.of = {})
        /\ Of(Orderly, a.report, n) /\ Of(Orderly, artifacts.of, n) /\ Of(Orderly, report, n)
        /\ ~artifacts.there => artifacts.of = {}
        /\ ~(task.status = "pending" /\ ~Late)
    <3>1. InPlace /\ Kept(u) /\ Evidence
      BY <2>0 DEF Uncrossed
    <3>2. ~(task.status = "pending" /\ ~Late)
      BY <2>0 DEF Failed
    <3>3. cleared.of = artifacts.of /\ (~cleared.there => cleared.of = {})
      BY <2>0, <3>1 DEF InPlace, NoDir
    <3> QED BY <2>0, <3>1, <3>2, <3>3 DEF InPlace, Kept
  <2>2. \A m \in Attempt : Archived(m)
    BY <2>0 DEF Uncrossed
  <2>3. Evidence
    BY <2>0 DEF Uncrossed
  <2>4. /\ \/ n \in artifacts.of \cup orphan.artifacts \cup damaged
           \/ \E v \in Users : n \in aside[v].artifacts.of
        /\ n \in report \cup orphan.report \/ \E v \in Users : n \in aside[v].report
        /\ n \in archive[n].of
    BY <2>0, <2>3 DEF Evidence, ArtifactsKept, ReportKept, ControlKept
  <2>9. task'.status # "running"
    BY <1>1, <2>0, <2>3 DEF Evidence, Failed
  <2>5. Held(u)' /\ Kept(u)' /\ Cleared(u)'
    <3>1. Held(u)'
      BY <1>1, <1>2, <1>8, <1>9, <2>0, StepNames DEF Uncrossed, Held, RetryHolds, HandoffHolds
    <3>2. Kept(u)' /\ Cleared(u)'
      BY <1>2, <1>3 DEF Kept, Cleared, Of
    <3> QED BY <3>1, <3>2
  <2>6. \A v \in Users \ {u} : Held(v)' /\ Cleared(v)' /\ Kept(v)'
    BY <1>1, <1>2, <1>3, <1>5, <1>8, <1>9, <2>0, OtherHeld DEF Uncrossed
  <2>7. CASE blocked
    <3>1. /\ artifacts' = cleared /\ UNCHANGED <<report, control, archive>>
          /\ orphan'.report = orphan.report \cup a.report
          /\ orphan'.artifacts = orphan.artifacts \cup a.artifacts.of
      <4>1. /\ artifacts' = cleared /\ UNCHANGED <<report, control, archive>>
            /\ orphan' = [report |-> orphan.report \cup a.report,
                          artifacts |-> orphan.artifacts \cup a.artifacts.of]
        BY <2>7 DEF UndoFiles
      <4> HIDE DEF cleared, a
      <4> QED BY <4>1
    <3> HIDE DEF cleared, blocked
    <3>2. InPlace' /\ \A m \in Attempt : Archived(m)'
      BY <1>1, <1>8, <1>9, <2>0, <2>1, <2>2, <3>1 DEF InPlace, Archived
    <3>3. ArtifactsKept'
      BY <1>1, <1>3, <1>9, <2>0, <2>1, <2>4, <3>1 DEF ArtifactsKept
    <3>4. ReportKept' /\ ControlKept'
      BY <1>1, <1>3, <1>9, <2>0, <2>4, <3>1 DEF ReportKept, ControlKept
    <3>5. Evidence'
      BY <1>1, <1>8, <2>0, <2>3, <2>9, <3>3, <3>4 DEF Evidence
    <3> QED BY <2>5, <2>6, <3>2, <3>5 DEF Uncrossed
  <2>8. CASE ~blocked
    <3>1. /\ artifacts' = Restored(a, cleared) /\ orphan' = orphan
          /\ report' = IF a.report # {} THEN a.report ELSE report
          /\ control' = IF archive[n].of # {} THEN archive[n].of ELSE control
          /\ archive' = [archive EXCEPT ![n] = NoDir]
      BY <2>8 DEF UndoFiles
    <3>2. /\ artifacts'.of = a.artifacts.of \cup artifacts.of
          /\ ~artifacts'.there => artifacts'.of = {}
      BY <2>1, <2>8, <3>1 DEF Restored
    <3>3. report' = a.report \cup report
      BY <2>0, <3>1
    <3>4. control' = archive[n].of /\ Of(Orderly, archive[n].of, n)
      BY <1>0, <2>0, <2>2, <3>1 DEF Archived
    <3> HIDE DEF cleared, blocked
    <3>5. InPlace'
      BY <1>1, <1>8, <1>9, <2>0, <2>1, <3>2, <3>3, <3>4 DEF InPlace, Of
    <3>6. \A m \in Attempt : Archived(m)'
      <4>1. \A m \in Attempt : archive'[m] = archive[m] \/ archive'[m] = NoDir
        BY <1>0, <3>1
      <4> QED BY <1>9, <2>2, <4>1 DEF Archived, Of, NoDir
    <3>7. ArtifactsKept'
      BY <1>1, <1>3, <1>9, <2>0, <2>4, <3>1, <3>2 DEF ArtifactsKept
    <3>8. ReportKept' /\ ControlKept'
      BY <1>1, <1>3, <1>9, <2>0, <2>4, <3>1, <3>3, <3>4 DEF ReportKept, ControlKept
    <3>9. Evidence'
      BY <1>1, <1>8, <2>0, <2>3, <2>9, <3>7, <3>8 DEF Evidence
    <3> QED BY <2>5, <2>6, <3>5, <3>6, <3>9 DEF Uncrossed
  <2> QED BY <2>7, <2>8
<1> QED BY <1>1, <1>4, <1>5, <1>6 DEF KeptInv

\* The record of before the retry is written back.
LEMMA UndoRecordKept ==
    ASSUME TypeInv, KeptInv, NEW u \in Users, UndoRecord(u)
    PROVE  KeptInv'
<1>0. proc \in [Users -> Command]
  BY DEF TypeInv
<1>1. /\ proc[u].pc = "undo record" /\ Stop(u) /\ task' = proc[u].snap
      /\ UNCHANGED <<report, artifacts, control, archive, aside, orphan, damaged, crashes>>
      /\ crossed' = (crossed \/ Others(u))
  BY DEF UndoRecord, UndoWrite, files, bounds
<1>2. proc'[u].pc = "idle" /\ \A v \in Users \ {u} : proc'[v] = proc[v]
  BY <1>0, <1>1, StopIdles
<1>3. aside[u] = Nothing /\ Nothing.report = {} /\ Nothing.artifacts.of = {}
  <2>1. aside[u] = Nothing
    BY <1>1 DEF KeptInv, Apart, Filled
  <2> QED BY <2>1 DEF Nothing, NoDir
<1>4. Apart(u)'
  BY <1>1, <1>2, <1>3, StepNames DEF Apart
<1>5. \A v \in Users \ {u} : Apart(v)'
  BY <1>1, <1>2, OtherApart, OneRetry, StepNames DEF KeptInv
<1>8. ~Late' /\ Orderly' = Orderly
  BY <1>1, <1>2, NorThen, StepNames, NotUndoing DEF KeptInv, Orderly
<1>6. ASSUME ~crossed'
      PROVE  Uncrossed'
  <2>0. /\ Uncrossed /\ ~Others(u)
        /\ task'.status = "failed" /\ task'.attempt = Standing /\ Failed
    BY <1>1, <1>6, StepNames DEF KeptInv, Apart, Uncrossed, Held, RetryHolds
  <2>9. Standing' = Standing /\ Evidence
    BY <1>8, <2>0, PlainThen DEF Uncrossed
  <2>1. Held(u)' /\ Cleared(u)' /\ Kept(u)'
    BY <1>1, <1>2, <1>3, StepNames DEF Held, Cleared, Kept, Of, RetryHolds, HandoffHolds
  <2>2. \A v \in Users \ {u} : Held(v)' /\ Cleared(v)' /\ Kept(v)'
    BY <1>1, <1>2, <1>8, <2>0, OtherHeld DEF Uncrossed, Others
  <2>3. InPlace' /\ \A m \in Attempt : Archived(m)'
    BY <1>1, <1>8, <2>0, <2>9 DEF Uncrossed, InPlace, Archived
  <2>4. ArtifactsKept' /\ ReportKept' /\ ControlKept'
    BY <1>1, <2>0, <2>9 DEF Evidence, ArtifactsKept, ReportKept, ControlKept
  <2>5. Evidence'
    BY <1>8, <2>0, <2>4 DEF Evidence
  <2> QED BY <2>1, <2>2, <2>3, <2>5 DEF Uncrossed
<1> QED BY <1>4, <1>5, <1>6 DEF KeptInv

\* A missing report is made again, when no retry has it.
LEMMA HandoffBeginKept ==
    ASSUME TypeInv, KeptInv, NEW u \in Users, HandoffBegin(u)
    PROVE  KeptInv'
<1>0. proc \in [Users -> Command] /\ task \in Record
  BY DEF TypeInv
<1>1. /\ proc[u].pc = "idle" /\ task.status = "failed"
      /\ Reserved(task) => task.revival.op = "handoff"
      /\ report' = IF report = {} THEN {task.attempt} ELSE report
      /\ UNCHANGED <<task, artifacts, control, archive, aside, orphan, retryLock, crossed,
                     damaged, crashes>>
  BY DEF HandoffBegin, locks, bounds
<1>2. /\ proc'[u].pc = "stat" /\ proc'[u].snap = task
      /\ \A v \in Users \ {u} : proc'[v] = proc[v]
  BY <1>0, IdleFacts DEF HandoffBegin, Command, Idle
<1>3. aside[u] = Nothing /\ Nothing.report = {} /\ Nothing.artifacts.of = {}
  <2>1. aside[u] = Nothing
    BY <1>1 DEF KeptInv, Apart, Filled
  <2> QED BY <2>1 DEF Nothing, NoDir
<1>4. Apart(u)'
  BY <1>1, <1>2, <1>3, StepNames DEF Apart
<1>5. \A v \in Users \ {u} : Apart(v)'
  BY <1>1, <1>2, OtherApart DEF KeptInv
<1>8. Late' <=> Late
  <2>1. task' = task
    BY <1>1
  <2>2. ~LateOf(u) /\ ~LateOf(u)'
    BY <1>1, <1>2, NotUndoing DEF LateOf
  <2> QED BY <1>2, <2>1, <2>2, LateStays
<1>9. Standing' = Standing /\ (Failed' <=> Failed) /\ Orderly' = Orderly
  <2>1. UNCHANGED <<task, damaged, crashes>>
    BY <1>1
  <2> QED BY <1>8, <2>1, Unmoved
<1>6. ASSUME ~crossed
      PROVE  Uncrossed'
  <2>0. Uncrossed /\ ~Late /\ Standing = task.attempt
    <3>1. Uncrossed
      BY <1>6 DEF KeptInv
    <3>2. ~Late
      BY <1>1, <3>1 DEF Uncrossed, Evidence
    <3> QED BY <3>1, <3>2, Plain
  <2>1. Held(u)' /\ Cleared(u)' /\ Kept(u)'
    BY <1>1, <1>2, <1>3, StepNames DEF Held, Cleared, Kept, Of, RetryHolds, HandoffHolds
  <2>2. \A v \in Users : proc[v].pc \notin RetryHolds
    <3>1. task.revival # Revived("reserved", "retry")
      BY <1>1 DEF Reserved, Revived
    <3> QED BY <2>0, <3>1 DEF Uncrossed, Held
  <2>3. ASSUME NEW v \in Users \ {u}
        PROVE  Held(v)' /\ Cleared(v)' /\ Kept(v)'
    <3>1. Held(v) /\ Cleared(v) /\ Kept(v)
      BY <2>0 DEF Uncrossed
    <3>2. Held(v)' /\ Kept(v)'
      BY <1>1, <1>2, <1>8, <1>9, <3>1 DEF Held, Kept
    <3>3. proc'[v] = proc[v] /\ proc'[v].pc \notin RetryHolds
      BY <1>2, <2>2
    <3>4. Cleared(v)'
      BY <1>1, <3>1, <3>3 DEF Cleared, RetryHolds, RetrySteps
    <3> QED BY <3>2, <3>4
  <2>4. InPlace' /\ \A m \in Attempt : Archived(m)'
    BY <1>0, <1>1, <1>8, <1>9, <2>0 DEF Uncrossed, InPlace, Archived, Of, Record, Attempt
  <2>5. Evidence'
    BY <1>1, <1>8, <2>0, EvidenceStays DEF Uncrossed
  <2> QED BY <2>1, <2>3, <2>4, <2>5 DEF Uncrossed
<1> QED BY <1>1, <1>4, <1>5, <1>6 DEF KeptInv

\* The other steps of a handoff, but for its writes of the record, touch no file.
LEMMA HandoffOnlyKept ==
    ASSUME TypeInv, KeptInv, NEW u \in Users,
           \/ Stat(u) \/ Break(u) \/ OpenLock(u) \/ Check(u)
           \/ CreateChild(u) \/ Attach(u) \/ HandoffFault(u)
    PROVE  KeptInv'
<1>0. proc \in [Users -> Command]
  BY DEF TypeInv
<1>1. UNCHANGED <<task, report, artifacts, control, archive, aside, orphan, retryLock, crossed,
                  damaged, crashes>>
  BY DEF Stat, Break, OpenLock, Check, CreateChild, Attach, HandoffFault, files, locks, bounds
<1> DEFINE Apace == /\ \A v \in Users \ {u} : proc'[v] = proc[v]
                    /\ proc'[u].pc \notin RetrySteps
                    /\ proc'[u].pc # "idle" => proc'[u].snap = proc[u].snap
                    /\ proc'[u].pc \in HandoffHolds => proc[u].pc \in HandoffHolds
<1>2. proc[u].pc \notin RetrySteps /\ proc[u].pc # "idle" /\ Apace
  <2>1. ASSUME Stop(u)
        PROVE  Apace
    BY <1>0, <2>1, StopIdles, StepNames DEF HandoffHolds
  <2>2. ASSUME NEW pc \in {"stat", "break", "open", "check", "handoff reserve"}, Goto(u, pc)
        PROVE  Apace
    <3>1. pc \in Step /\ pc \notin RetrySteps /\ pc \notin HandoffHolds
      BY DEF Step, HandoffSteps, HandoffHolds, RetrySteps
    <3> QED BY <1>0, <2>2, <3>1, GotoKeeps
  <2>3. ASSUME proc[u].pc \in HandoffHolds, NEW pc \in HandoffSteps, Goto(u, pc)
        PROVE  Apace
    <3>1. pc \in Step /\ pc \notin RetrySteps
      BY StepNames
    <3> QED BY <1>0, <2>3, <3>1, GotoKeeps
  <2> HIDE DEF Apace
  <2>4. CASE Stat(u) \/ Break(u) \/ OpenLock(u) \/ Check(u)
    <3>1. proc[u].pc \in {"stat", "break", "open", "check"}
      BY <2>4 DEF Stat, Break, OpenLock, Check
    <3>2. \/ Stop(u)
          \/ \E pc \in {"stat", "break", "open", "check", "handoff reserve"} : Goto(u, pc)
      BY <2>4 DEF Stat, Break, OpenLock, Check
    <3> QED BY <2>1, <2>2, <3>1, <3>2, StepNames
  <2>5. CASE Attach(u) \/ HandoffFault(u)
    <3>1. /\ proc[u].pc \in {"create", "attach", "source"}
          /\ Goto(u, "source") \/ Goto(u, "undo handoff")
      BY <2>5 DEF Attach, HandoffFault
    <3>2. proc[u].pc \in HandoffHolds /\ {"source", "undo handoff"} \subseteq HandoffSteps
      BY <3>1 DEF HandoffHolds, HandoffSteps
    <3> QED BY <2>3, <3>1, <3>2, StepNames DEF HandoffHolds
  <2>6. CASE CreateChild(u)
    <3>1. proc[u].pc \in HandoffHolds /\ proc[u].pc # "idle" /\ proc[u].pc \notin RetrySteps
      BY <2>6, StepNames DEF CreateChild, HandoffHolds, HandoffSteps
    <3>2. /\ proc'[u].pc = "attach" /\ proc'[u].snap = proc[u].snap
          /\ \A v \in Users \ {u} : proc'[v] = proc[v]
      BY <1>0, <2>6 DEF CreateChild, Command
    <3> QED BY <3>1, <3>2, StepNames DEF Apace, HandoffHolds, HandoffSteps, RetrySteps
  <2> QED BY <2>4, <2>5, <2>6
<1>3. Apart(u)'
  BY <1>1, <1>2, StepNames DEF KeptInv, Apart
<1>4. \A v \in Users \ {u} : Apart(v)'
  BY <1>1, <1>2, OtherApart DEF KeptInv
<1>8. Late' <=> Late
  <2>1. task' = task
    BY <1>1
  <2>2. ~LateOf(u) /\ ~LateOf(u)'
    BY <1>2, NotUndoing DEF LateOf
  <2> QED BY <1>2, <2>1, <2>2, LateStays
<1>9. Standing' = Standing /\ (Failed' <=> Failed) /\ Orderly' = Orderly
  BY <1>1, <1>8, Unmoved
<1>5. ASSUME ~crossed
      PROVE  Uncrossed'
  <2>0. Uncrossed
    BY <1>5 DEF KeptInv
  <2>1. Held(u)' /\ Cleared(u)' /\ Kept(u)'
    <3>1. aside[u] = Nothing /\ Nothing.report = {} /\ Nothing.artifacts.of = {}
      BY <1>2, StepNames DEF KeptInv, Apart, Nothing, NoDir
    <3>2. Held(u)' /\ Cleared(u)'
      BY <1>1, <1>2, <2>0, StepNames DEF Uncrossed, Held, Cleared, RetryHolds, HandoffHolds
    <3>3. Kept(u)'
      BY <1>1, <3>1 DEF Kept, Of
    <3> QED BY <3>2, <3>3
  <2>2. \A v \in Users \ {u} : Held(v)' /\ Cleared(v)' /\ Kept(v)'
    BY <1>1, <1>2, <1>8, <1>9, <2>0, OtherHeld DEF Uncrossed
  <2>3. InPlace' /\ (\A m \in Attempt : Archived(m)') /\ Evidence'
    BY <1>1, <1>8, <1>9, <2>0, EvidenceStays DEF Uncrossed, InPlace, Archived
  <2> QED BY <2>1, <2>2, <2>3 DEF Uncrossed
<1> QED BY <1>1, <1>3, <1>4, <1>5 DEF KeptInv

\* A handoff writes the record it read, with another reservation, while nothing else
\* is at work on the task.
LEMMA HandoffWriteKept ==
    ASSUME TypeInv, KeptInv, NEW u \in Users,
           HandoffReserve(u) \/ CommitHandoff(u) \/ UndoHandoff(u)
    PROVE  KeptInv'
<1>0. proc \in [Users -> Command] /\ proc[u].snap \in Record
  BY DEF TypeInv, Command
<1>1. /\ proc[u].pc \in HandoffSteps
      /\ proc[u].pc = "handoff reserve" \/ proc[u].pc \in HandoffHolds
      /\ UNCHANGED <<report, artifacts, control, archive, aside, orphan, retryLock, damaged,
                     crashes>>
      /\ crossed \/ Others(u) => crossed'
      /\ proc[u].pc = "handoff reserve" /\ task # proc[u].snap => crossed'
  BY DEF HandoffReserve, CommitHandoff, UndoHandoff, HandoffSteps, HandoffHolds, files, locks,
         bounds
<1>2. /\ \A v \in Users \ {u} : proc'[v] = proc[v]
      /\ \/ proc'[u].pc = "create" /\ proc'[u].snap = proc[u].snap
         \/ proc'[u].pc = "idle"
  <2>1. Goto(u, "create") \/ Stop(u)
    BY DEF HandoffReserve, CommitHandoff, UndoHandoff
  <2> QED BY <1>0, <2>1, GotoKeeps, StopIdles, StepNames DEF HandoffSteps
<1>3. task'.status = proc[u].snap.status /\ task'.attempt = proc[u].snap.attempt
  <2>1. \E state, op : task' = [proc[u].snap EXCEPT !.revival = Revived(state, op)]
    BY DEF HandoffReserve, CommitHandoff, UndoHandoff
  <2> QED BY <1>0, <2>1 DEF Record
<1>4. proc'[u].pc \notin RetrySteps
  BY <1>2, StepNames DEF RetrySteps
<1>5. Apart(u)'
  BY <1>1, <1>2, <1>4, StepNames DEF KeptInv, Apart
<1>6. \A v \in Users \ {u} : Apart(v)'
  BY <1>1, <1>2, OtherApart DEF KeptInv
<1>7. ASSUME ~crossed'
      PROVE  Uncrossed'
  <2>0. /\ Uncrossed /\ ~Others(u) /\ proc[u].snap.status = "failed"
        /\ task'.status = task.status /\ task'.attempt = task.attempt
    BY <1>1, <1>3, <1>7, StepNames DEF KeptInv, Apart, Uncrossed, Held
  <2>8. ~Late /\ ~Late'
    <3>1. \A v \in Users : proc[v].pc \notin Undoing /\ proc'[v].pc \notin Undoing
      BY <1>1, <1>2, <1>4, <2>0, NotUndoing DEF Others, Reviving
    <3> QED BY <3>1 DEF Late, LateOf
  <2>9. /\ Standing = task.attempt /\ Standing' = task.attempt /\ Orderly' = Orderly
        /\ Late' <=> Late
    BY <1>1, <2>0, <2>8, Plain, PlainThen DEF Orderly
  <2>1. Held(u)' /\ Cleared(u)' /\ Kept(u)'
    <3>1. aside[u] = Nothing
      BY <1>1, StepNames DEF KeptInv, Apart
    <3>2. Nothing.report = {} /\ Nothing.artifacts.of = {}
      BY DEF Nothing, NoDir
    <3>3. Held(u)' /\ Cleared(u)'
      BY <1>1, <1>2, <1>3, <1>4, <2>0, StepNames DEF Held, Cleared, RetryHolds, HandoffHolds
    <3>4. Kept(u)'
      BY <1>1, <3>1, <3>2 DEF Kept, Of
    <3> QED BY <3>3, <3>4
  <2>2. \A v \in Users \ {u} : Held(v)' /\ Cleared(v)' /\ Kept(v)'
    BY <1>1, <1>2, <2>0, <2>9, OtherHeld DEF Uncrossed, Others
  <2>3. InPlace' /\ (\A m \in Attempt : Archived(m)') /\ Evidence'
    BY <1>1, <2>0, <2>9, EvidenceStays DEF Uncrossed, InPlace, Archived
  <2> QED BY <2>1, <2>2, <2>3 DEF Uncrossed
<1> QED BY <1>5, <1>6, <1>7 DEF KeptInv

\* A command dies: what it had aside is orphaned, not lost.  If it was undoing a retry
\* after its commit, the files of before stay with the new attempt.
LEMMA CrashKept ==
    ASSUME TypeInv, KeptInv, NEW u \in Users, Crash(u)
    PROVE  KeptInv'
<1>0. /\ proc \in [Users -> Command] /\ crashes \in Nat
      /\ task.attempt \in Nat /\ report \subseteq Nat /\ control \subseteq Nat
      /\ artifacts.of \subseteq Nat
      /\ aside \in [Users -> [report : SUBSET Attempt, artifacts : Dir]]
  BY DEF TypeInv, FilesTyped, BoundsTyped, Record, Dir, Attempt
<1>1. /\ Stop(u)
      /\ UNCHANGED <<task, report, artifacts, control, archive, crossed, damaged>>
      /\ retryLock' = IF retryLock = u THEN NoUser ELSE retryLock
      /\ crashes' = crashes + 1
  BY DEF Crash
<1>2. proc'[u].pc = "idle" /\ \A v \in Users \ {u} : proc'[v] = proc[v]
  BY <1>0, <1>1, StopIdles
<1>3. /\ aside'[u] = Nothing /\ \A v \in Users \ {u} : aside'[v] = aside[v]
      /\ orphan'.report = orphan.report \cup aside[u].report
      /\ orphan'.artifacts = orphan.artifacts \cup aside[u].artifacts.of
  BY <1>0 DEF Crash
<1>4. Nothing.report = {} /\ Nothing.artifacts.of = {}
  BY DEF Nothing, NoDir
<1>5. Apart(u)'
  BY <1>2, <1>3, StepNames DEF Apart
<1>6. \A v \in Users \ {u} : Apart(v)'
  BY <1>1, <1>2, <1>3, OtherApart DEF KeptInv, Apart
<1>8. ~LateOf(u)'
  BY <1>2, NotUndoing DEF LateOf
<1>9. Orderly' <=> damaged = {}
  <2>1. crashes' # 0 /\ damaged' = damaged
    BY <1>0, <1>1
  <2> QED BY <2>1 DEF Orderly
<1>7. ASSUME ~crossed
      PROVE  Uncrossed'
  <2>0. Uncrossed /\ (Orderly' => Orderly)
    BY <1>7, <1>9 DEF KeptInv, Orderly
  <2>1. Held(u)' /\ Cleared(u)' /\ Kept(u)'
    BY <1>2, <1>3, <1>4, StepNames DEF Held, Cleared, Kept, Of, RetryHolds, HandoffHolds
  <2>2. \A m \in Attempt : Archived(m)'
    BY <1>1, <2>0 DEF Uncrossed, Archived, Of
  <2>3. CASE ~LateOf(u)
    <3>1. (Late' <=> Late) /\ task' = task
      BY <1>1, <1>2, <1>8, <2>3, LateStays
    <3>2. Standing' = Standing /\ (Failed' <=> Failed)
      BY <3>1 DEF Standing, Failed
    <3>3. \A v \in Users \ {u} : Held(v)' /\ Cleared(v)' /\ Kept(v)'
      BY <1>1, <1>2, <1>3, <2>0, <3>1, OtherHeld DEF Uncrossed
    <3>4. InPlace'
      BY <1>1, <2>0, <3>1, <3>2 DEF Uncrossed, InPlace, Of
    <3>5. ArtifactsKept => ArtifactsKept'
      BY <1>1, <1>3, <3>2 DEF ArtifactsKept
    <3>6. ReportKept => ReportKept'
      BY <1>1, <1>3, <3>2 DEF ReportKept
    <3>7. Evidence'
      BY <1>1, <2>0, <3>1, <3>2, <3>5, <3>6 DEF Uncrossed, Evidence, ControlKept
    <3> QED BY <2>1, <2>2, <3>3, <3>4, <3>7 DEF Uncrossed
  <2>4. CASE LateOf(u)
    <3>1. Late /\ task.status = "pending" /\ ~Orderly' /\ task' = task
      <4>1. Late
        BY <2>4 DEF Late
      <4> QED BY <1>1, <1>9, <2>0, <4>1 DEF Uncrossed, Evidence
    <3>2. proc[u].pc \in RetrySteps
      BY <2>4, NotUndoing DEF LateOf
    <3>3. \A v \in Users \ {u} : proc[v].pc \notin RetrySteps /\ proc'[v].pc \notin RetrySteps
      BY <1>2, <3>2, OneRetry DEF KeptInv
    <3>4. ~Late'
      <4>1. \A v \in Users : ~LateOf(v)'
        BY <1>8, <3>3, NotUndoing DEF LateOf
      <4> QED BY <4>1 DEF Late
    <3>5. Standing' = task.attempt /\ Standing = task.attempt - 1 /\ ~Failed'
      BY <3>1, <3>4 DEF Standing, Failed
    <3>6. \A v \in Users \ {u} : Held(v)' /\ Cleared(v)' /\ Kept(v)'
      <4>1. \A v \in Users : proc[v].pc \notin HandoffHolds
        BY <2>0, <3>1 DEF Uncrossed, Held
      <4> QED BY <1>2, <1>3, <2>0, <3>3, <4>1, AloofHeld DEF Uncrossed
    <3>7. InPlace'
      <4>1. ASSUME NEW S \in SUBSET Nat, Of(Orderly, S, Standing)
            PROVE  Of(Orderly', S, Standing')
        <5>1. \A k \in S : k \in Nat /\ k <= task.attempt - 1
          BY <3>5, <4>1 DEF Of
        <5>2. \A k \in S : k <= task.attempt
          BY <1>0, <5>1
        <5> QED BY <3>1, <3>5, <5>2 DEF Of
      <4>2. UNCHANGED <<report, artifacts, control>> /\ InPlace
        BY <1>1, <2>0 DEF Uncrossed
      <4> QED BY <1>0, <3>1, <4>1, <4>2 DEF InPlace
    <3>8. Evidence'
      BY <3>1, <3>4, <3>5 DEF Evidence
    <3> QED BY <2>1, <2>2, <3>6, <3>7, <3>8 DEF Uncrossed
  <2> QED BY <2>3, <2>4
<1> QED BY <1>1, <1>5, <1>6, <1>7 DEF KeptInv

\* A dispatch requeues the task, when no revival is under way.
LEMMA RequeueKept ==
    ASSUME TypeInv, KeptInv, Requeue
    PROVE  KeptInv'
<1>0. task \in Record /\ artifacts \in Dir
  BY DEF TypeInv, FilesTyped
<1>1. /\ task'.status = "pending" /\ task'.attempt = task.attempt
      /\ report' = {} /\ artifacts'.of = artifacts.of /\ artifacts'.there
      /\ UNCHANGED <<control, archive, aside, retryLock, proc, damaged, crashes>>
      /\ crossed' = (crossed \/ \E u \in Users : Reviving(u))
  BY <1>0 DEF Requeue, locks, Record, Dir
<1>2. \A u \in Users : Apart(u)'
  BY <1>1 DEF KeptInv, Apart
<1>3. ASSUME ~crossed'
      PROVE  Uncrossed'
  <2>0. Uncrossed /\ \A u \in Users : proc[u].pc \notin RetrySteps \cup HandoffSteps
    BY <1>1, <1>3 DEF KeptInv, Reviving
  <2>8. ~Late /\ ~Late' /\ Orderly' = Orderly
    <3>1. ~Late
      BY <2>0, NotUndoing DEF Late, LateOf
    <3> QED BY <1>1, <3>1, LateStands DEF Orderly
  <2>9. Standing = task.attempt /\ Standing' = task.attempt /\ ~Failed'
    BY <1>1, <2>8, Plain, PlainThen
  <2>1. \A u \in Users : Held(u)' /\ Cleared(u)' /\ Kept(u)'
    BY <1>1, <2>0, <2>8, StepNames DEF Uncrossed, Held, Cleared, Kept, RetryHolds, HandoffHolds
  <2>2. InPlace' /\ (\A m \in Attempt : Archived(m)') /\ Evidence'
    BY <1>1, <2>0, <2>8, <2>9 DEF Uncrossed, InPlace, Archived, Of, Evidence
  <2> QED BY <2>1, <2>2 DEF Uncrossed
<1> QED BY <1>2, <1>3 DEF KeptInv

\* A worker runs the attempt, and leaves the evidence of it.
LEMMA RunKept ==
    ASSUME TypeInv, KeptInv, StartRun \/ FailRun
    PROVE  KeptInv'
<1>0. task \in Record /\ task.attempt \in Nat
  BY DEF TypeInv, Record, Attempt
<1>1. /\ UNCHANGED <<archive, aside, orphan, retryLock, proc, damaged, crashes>>
      /\ task'.attempt = task.attempt /\ task.status \in {"pending", "running"}
      /\ task'.status \in {"running", "failed"}
      /\ task.status = "pending" /\ (\E u \in Users : proc[u].pc \in Undoing) => crossed'
      /\ crossed => crossed'
  <2>1. CASE StartRun
    <3>1. task' = [task EXCEPT !.status = "running"] /\ task.status = "pending"
      BY <2>1 DEF StartRun
    <3>2. task'.status = "running" /\ task'.attempt = task.attempt
      BY <1>0, <3>1 DEF Record
    <3> QED BY <2>1, <3>1, <3>2 DEF StartRun, locks, bounds, Undoing
  <2>2. CASE FailRun
    <3>1. task' = [task EXCEPT !.status = "failed"] /\ task.status = "running"
      BY <2>2 DEF FailRun
    <3>2. task'.status = "failed" /\ task'.attempt = task.attempt
      BY <1>0, <3>1 DEF Record
    <3> QED BY <2>2, <3>1, <3>2 DEF FailRun, locks, bounds
  <2> QED BY <2>1, <2>2
<1>2. \A u \in Users : Apart(u)'
  BY <1>1 DEF KeptInv, Apart
<1>3. ASSUME ~crossed'
      PROVE  Uncrossed'
  <2>0. Uncrossed
    BY <1>1, <1>3 DEF KeptInv
  <2>8. ~Late /\ ~Late' /\ Orderly' = Orderly
    <3>1. ~Late
      BY <1>1, <1>3, <2>0 DEF Late, LateOf, Uncrossed, Evidence
    <3> QED BY <1>1, <3>1, LateStands DEF Orderly
  <2>9. /\ Standing = task.attempt /\ Standing' = task.attempt
        /\ Failed <=> task.status = "failed"
        /\ Failed' <=> task'.status = "failed"
    BY <1>1, <2>8, Plain, PlainThen
  <2>1. \A u \in Users : proc[u].pc \notin RetryHolds /\ proc[u].pc \notin HandoffHolds
    BY <1>1, <2>0, <2>9 DEF Uncrossed, Held
  <2>2. \A u \in Users : Held(u)' /\ Kept(u)'
    BY <1>1, <2>0, <2>1, <2>8 DEF Uncrossed, Held, Kept
  <2>3. \A u \in Users : Cleared(u)'
    BY <1>1, <2>0, <2>1 DEF Uncrossed, Cleared, RetryHolds, RetrySteps
  <2>4. \A m \in Attempt : Archived(m)'
    BY <1>1, <2>0, <2>8 DEF Uncrossed, Archived
  <2>5. CASE StartRun
    <3>1. /\ task'.status = "running" /\ report' = report /\ artifacts'.there
          /\ artifacts'.of = artifacts.of \cup {task.attempt}
          /\ control' = control \cup {task.attempt}
      BY <1>0, <2>5 DEF StartRun, Record
    <3>2. InPlace'
      BY <1>0, <1>1, <2>0, <2>8, <2>9, <3>1 DEF Uncrossed, InPlace, Of
    <3>3. Evidence'
      BY <1>1, <2>8, <2>9, <3>1 DEF Evidence
    <3> QED BY <2>2, <2>3, <2>4, <3>2, <3>3 DEF Uncrossed
  <2>6. CASE FailRun
    <3>1. /\ task'.status = "failed" /\ report' = {task.attempt}
          /\ task.status = "running" /\ UNCHANGED <<artifacts, control>>
      BY <1>0, <2>6 DEF FailRun, Record
    <3>2. InPlace'
      BY <1>0, <1>1, <2>0, <2>8, <2>9, <3>1 DEF Uncrossed, InPlace, Of
    <3>3. Evidence'
      BY <1>1, <2>0, <2>8, <2>9, <3>1
         DEF Uncrossed, Evidence, ArtifactsKept, ReportKept, ControlKept
    <3> QED BY <2>2, <2>3, <2>4, <3>2, <3>3 DEF Uncrossed
  <2> QED BY <2>5, <2>6
<1> QED BY <1>1, <1>2, <1>3 DEF KeptInv

LEMMA NextKept == TypeInv /\ KeptInv /\ [Next]_vars => KeptInv'
<1> SUFFICES ASSUME TypeInv, KeptInv, [Next]_vars
             PROVE  KeptInv'
  OBVIOUS
<1>1. ASSUME NEW u \in Users, RetryStep(u)
      PROVE  KeptInv'
  BY <1>1, RetryBeginKept, ReserveKept, ArchiveKept, ReportAsideKept, ArtifactsAsideKept,
     MakeArtifactsKept, CommitRetryKept, PurgeKept, RetryFaultKept, PurgeFaultKept,
     UndoFilesKept, UndoRecordKept DEF RetryStep
<1>2. ASSUME NEW u \in Users, HandoffStep(u)
      PROVE  KeptInv'
  BY <1>2, HandoffBeginKept, HandoffOnlyKept, HandoffWriteKept DEF HandoffStep
<1>3. CASE LockAges \/ UNCHANGED vars
  <2>1. UNCHANGED <<task, files, retryLock, proc, crossed, damaged, crashes>>
    BY <1>3 DEF LockAges, vars, locks, bounds
  <2>2. (Late' <=> Late) /\ Standing' = Standing /\ (Failed' <=> Failed) /\ Orderly' = Orderly
    BY <2>1, LateStands, Unmoved
  <2>3. \A u \in Users : Apart(u)'
    BY <2>1 DEF files, KeptInv, Apart
  <2>4. ASSUME Uncrossed
        PROVE  Uncrossed'
    <3>1. \A u \in Users : Held(u)' /\ Cleared(u)' /\ Kept(u)'
      BY <2>1, <2>2, <2>4, OtherHeld DEF files, Uncrossed
    <3>2. InPlace' /\ (\A m \in Attempt : Archived(m)') /\ Evidence'
      BY <2>1, <2>2, <2>4 DEF files, Uncrossed, InPlace, Archived, Evidence, ArtifactsKept,
                              ReportKept, ControlKept
    <3> QED BY <3>1, <3>2 DEF Uncrossed
  <2> QED BY <2>1, <2>3, <2>4 DEF KeptInv
<1> QED BY <1>1, <1>2, <1>3, CrashKept, RequeueKept, RunKept DEF Next

LEMMA AlwaysKept == Spec => []KeptInv
BY InitKept, NextKept, AlwaysTypeInv, PTL DEF Spec

\* Wherever a retry fails or dies, the report and the session files of a failed attempt
\* exist, in place, aside or archived, and its artifacts too, unless their removal after
\* a commit failed (_RetryCleanupTransaction, commit and rollback).
THEOREM EvidenceAlwaysKept == Spec => []EvidenceKept
<1>1. KeptInv => EvidenceKept
  <2> SUFFICES ASSUME KeptInv, ~crossed, task.status = "failed"
               PROVE  ArtifactsKept /\ ReportKept /\ ControlKept /\ Standing = task.attempt
    BY DEF EvidenceKept, ArtifactsKept, ReportKept, ControlKept
  <2>1. Evidence
    BY DEF KeptInv, Uncrossed
  <2>2. ~Late
    BY <2>1 DEF Evidence
  <2> QED BY <2>1, <2>2, Plain DEF Evidence
<1> QED BY <1>1, AlwaysKept, PTL

\* A retry from zero starts from nothing: the run after it finds no report and no file
\* of an earlier attempt, unless another command crossed it, the attempt was being undone
\* or the command that undid it died (perform).
THEOREM RetryStartsFresh == Spec => FreshStart
<1> DEFINE Fresh == /\ StartRun /\ task.revival = Revived("committed", "retry")
                    /\ ~crossed' /\ (damaged = {} \/ crashes = 0)
                    => /\ artifacts.of \subseteq {task.attempt}
                       /\ report = {}
                       /\ control \subseteq {task.attempt}
<1>1. KeptInv => Fresh
  <2> SUFFICES ASSUME KeptInv, StartRun, ~crossed', Orderly
               PROVE  /\ artifacts.of \subseteq {task.attempt}
                      /\ report = {}
                      /\ control \subseteq {task.attempt}
    BY DEF Orderly
  <2>1. /\ ~crossed /\ task.status = "pending"
        /\ \A u \in Users : proc[u].pc \notin Undoing
    BY DEF StartRun, Undoing
  <2>2. InPlace
    BY <2>1 DEF KeptInv, Uncrossed
  <2>3. ~Late
    BY <2>1 DEF Late, LateOf
  <2>4. Standing = task.attempt
    BY <2>3, Plain
  <2> QED BY <2>1, <2>2, <2>3, <2>4 DEF InPlace, Of
<1>2. KeptInv /\ [Next]_vars => [Fresh]_vars
  BY <1>1
<1> QED BY <1>2, AlwaysKept, PTL DEF Spec, FreshStart
=============================================================================
