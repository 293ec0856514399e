-------------------------- MODULE TerminalDelivery --------------------------
(***************************************************************************)
(* The durable delivery receipt of a finished task and the passes that     *)
(* replay it (terminal_delivery.py, terminal_delivery_coordinator.py and   *)
(* the Core pass of service.py).                                           *)
(*                                                                         *)
(* The write that ends a task also writes a receipt with one entry per     *)
(* side effect ("stage": report, record, index, file_notification,         *)
(* ui_notification).  Two kinds of pass work on it:                        *)
(*                                                                         *)
(*   - the Core pass (service.py _run_terminal_delivery_stages), run by    *)
(*     the process that ended the task, takes NO lock, ignores the backoff *)
(*     and owns the local projections only;                                *)
(*   - the coordinator pass (TerminalDeliveryCoordinator._pass), run by    *)
(*     the same process afterwards and by Runner maintenance, holds the    *)
(*     per-task file lock.                                                 *)
(*                                                                         *)
(* Each pass reads the receipt once, runs its stage handlers against that  *)
(* copy, and writes the whole copy back at its end.                        *)
(*                                                                         *)
(* Time advances only between passes: a pass stamps everything with the    *)
(* moment it began, and its handlers (a dialog holds the lock for at most  *)
(* 30 s) are shorter than the 60 s unit of the backoff schedule.           *)
(***************************************************************************)
EXTENDS Naturals, Sequences

CONSTANTS
    Actors,         \* processes that end tasks or run delivery passes
    Maintainers,    \* those of them that run Runner maintenance
    StageOrder,     \* TERMINAL_DELIVERY_STAGES: the order of a pass
    UncertainStages,\* stages whose failure is reported delivery_uncertain
    CoreStages,     \* [Actors -> SUBSET Stage]: handlers Core has in there
    Deferred,       \* [Actors -> SUBSET Stage]: coordinator stages it defers
    MaxAttempts,    \* TERMINAL_DELIVERY_MAX_ATTEMPTS
    ShortBackoff, LongBackoff,  \* TERMINAL_DELIVERY_BACKOFF_S, in clock units
    NoActor,
    MaxOutcomes,    \* bound: terminal writes of one task
    MaxCrashes      \* bound: processes that die inside a pass

Stage == {StageOrder[i] : i \in 1..Len(StageOrder)}

ASSUME DeliveryAssumption ==
    /\ Maintainers \subseteq Actors
    /\ StageOrder \in Seq(STRING)
    /\ \A i, j \in 1..Len(StageOrder) : StageOrder[i] = StageOrder[j] => i = j
    /\ UncertainStages \subseteq Stage
    /\ CoreStages \in [Actors -> SUBSET (Stage \ UncertainStages)]
    /\ Deferred \in [Actors -> SUBSET Stage]
    /\ MaxAttempts \in Nat \ {0}
    /\ ShortBackoff \in Nat \ {0}
    /\ LongBackoff \in Nat \ {0}
    /\ ShortBackoff <= LongBackoff
    /\ NoActor \notin Actors
    /\ MaxOutcomes \in Nat
    /\ MaxCrashes \in Nat

\* The outcomes told apart here: needs_recovery, which keeps a receipt of its
\* own kind, and cancelled for the others, which always write a new one.
Outcome == {"needs_recovery", "cancelled"}

StageState == {"pending", "in_progress", "retry_wait", "succeeded"}

Entry == [state : StageState, attempts : 0..MaxAttempts, wait : 0..LongBackoff]

VARIABLES
    status,     \* the task's status: "open" or its outcome
    receipt,    \* the receipt on disk; id 0 before the first outcome
    lock,       \* the holder of .delivery.lock
    pc,         \* what each actor is doing
    pos,        \* the stage its pass has come to
    work,       \* the receipt its pass is working on
    ran,        \* whether its pass has a result to persist
    outcomes,   \* terminal writes so far
    crashes,    \* crashes so far
    runs,       \* history: handler executions per receipt and stage
    acks,       \* history: handler executions that succeeded
    confirmed   \* history: stages once confirmed on disk, per receipt

vars == <<status, receipt, lock, pc, pos, work, ran, outcomes, crashes,
          runs, acks, confirmed>>

disk == <<status, receipt, outcomes>>
history == <<runs, acks, confirmed>>

NewEntry == [state |-> "pending", attempts |-> 0, wait |-> 0]

\* build_terminal_delivery_receipt
NewReceipt(id, kind) ==
    [id |-> id, kind |-> kind, stage |-> [s \in Stage |-> NewEntry]]

Resolved(e) == e.state = "succeeded"
Exhausted(e) == ~Resolved(e) /\ e.attempts >= MaxAttempts
PendingStages(r) == {s \in Stage : ~Resolved(r.stage[s])}

-----------------------------------------------------------------------------
(* The pure stage machine: transition_terminal_delivery_stage.             *)

\* next_terminal_delivery_backoff_s: 0 after the first attempt, then 60s,
\* then 300s.
Backoff(attempts) ==
    IF attempts <= 1 THEN 0
    ELSE IF attempts = 2 THEN ShortBackoff ELSE LongBackoff

Reserve(e) ==
    [state |-> "in_progress", attempts |-> e.attempts + 1, wait |-> 0]

Succeed(e) == [state |-> "succeeded", attempts |-> e.attempts, wait |-> 0]

RetryLater(e) ==
    [state |-> "retry_wait", attempts |-> e.attempts, wait |-> Backoff(e.attempts)]

RetryUncertain(e) ==
    [state |-> "retry_wait",
     attempts |-> IF e.attempts = 0 THEN 1 ELSE e.attempts,
     wait |-> LongBackoff]

\* A mutation of Settle: an uncertain delivery taken for a confirmed one.
SettleUncertainAsDone(s, e, result) ==
    IF result = "ok" \/ s \in UncertainStages THEN Succeed(e) ELSE RetryLater(e)

\* The entry a stage handler leaves behind, from the reserved entry.
Settle(s, e, result) ==
    CASE result = "ok" -> Succeed(e)
      [] result = "failed" /\ s \in UncertainStages -> RetryUncertain(e)
      [] result = "failed" /\ s \notin UncertainStages -> RetryLater(e)

\* A reservation is made unless the entry is already reserved.
Reserved(e) == IF e.state = "in_progress" THEN e ELSE Reserve(e)
Reservable(e) == e.state = "in_progress" \/ e.attempts < MaxAttempts

\* reconcile_interrupted_stages: what a pass makes of a reservation it finds.
Reconcile(r) ==
    [r EXCEPT !.stage = [s \in Stage |->
        LET e == r.stage[s] IN
        IF e.state # "in_progress" THEN e
        ELSE IF s \in UncertainStages \cup {"file_notification"}
             THEN RetryUncertain(e)
             ELSE [e EXCEPT !.state = "pending", !.wait = 0]]]

-----------------------------------------------------------------------------
NoReceipt == NewReceipt(0, "open")

Init ==
    /\ status = "open"
    /\ receipt = NoReceipt
    /\ lock = NoActor
    /\ pc = [a \in Actors |-> "idle"]
    /\ pos = [a \in Actors |-> 1]
    /\ work = [a \in Actors |-> NoReceipt]
    /\ ran = [a \in Actors |-> FALSE]
    /\ outcomes = 0
    /\ crashes = 0
    /\ runs = [i \in 1..MaxOutcomes |-> [s \in Stage |-> 0]]
    /\ acks = [i \in 1..MaxOutcomes |-> [s \in Stage |-> 0]]
    /\ confirmed = [i \in 1..MaxOutcomes |-> {}]

\* The receipt a terminal write leaves: mark_task_needs_recovery keeps a
\* receipt of its own kind, every other outcome starts a new one.  (Mutation:
\* any receipt is kept.)
ReceiptKept(k) ==
    IF receipt.id # 0 THEN receipt ELSE NewReceipt(outcomes + 1, k)
ReceiptOf(k) ==
    IF k = "needs_recovery" /\ receipt.kind = "needs_recovery"
    THEN receipt ELSE NewReceipt(outcomes + 1, k)

\* A terminal write of the service: the status and the receipt in one file
\* replacement.  The caller goes on to its Core pass.
EndTask(a, k) ==
    /\ pc[a] = "idle"
    /\ outcomes < MaxOutcomes
    /\ status = "open" \/ (status = "needs_recovery" /\ k # "needs_recovery")
    /\ status' = k
    /\ outcomes' = outcomes + 1
    /\ receipt' = ReceiptOf(k)
    /\ pc' = [pc EXCEPT ![a] = "ended"]
    /\ UNCHANGED <<lock, pos, work, ran, crashes, history>>

\* requeue_task: the task runs again and its receipt stays where it is.
Requeue ==
    /\ status \in Outcome
    /\ status' = "open"
    /\ UNCHANGED <<receipt, lock, pc, pos, work, ran, outcomes, crashes, history>>

Enter(a, kind, r) ==
    /\ pc' = [pc EXCEPT ![a] = kind]
    /\ pos' = [pos EXCEPT ![a] = 1]
    /\ work' = [work EXCEPT ![a] = r]
    /\ ran' = [ran EXCEPT ![a] = FALSE]

\* _sync_terminal_report reads the task and starts the unlocked Core pass.
CoreBegin(a) ==
    /\ pc[a] = "ended"
    /\ Enter(a, "core", receipt)
    /\ UNCHANGED <<disk, lock, crashes, history>>

\* deliver_now after the Core pass, or a maintenance pass over a task whose
\* receipt has an unconfirmed stage.
WantsPass(a) ==
    \/ pc[a] = "told"
    \/ a \in Maintainers /\ pc[a] = "idle" /\ status \in Outcome
         /\ PendingStages(receipt) # {}

\* _task_lock: a blocking flock on .delivery.lock.
TaskLock(a) == a \in Actors /\ lock = NoActor

\* _pass: take the task lock, re-read the task, reconcile and save.
DeliverBegin(a) ==
    /\ WantsPass(a)
    /\ TaskLock(a)
    /\ status \in Outcome
    /\ lock' = a
    /\ receipt' = Reconcile(receipt)
    /\ Enter(a, "deliver", Reconcile(receipt))
    /\ UNCHANGED <<status, outcomes, crashes, history>>

\* _eligibility_blockers: the task is no longer at its end.
DeliverSkip(a) ==
    /\ pc[a] = "told"
    /\ TaskLock(a)
    /\ status \notin Outcome
    /\ pc' = [pc EXCEPT ![a] = "idle"]
    /\ UNCHANGED <<disk, lock, pos, work, ran, crashes, history>>

CurrentStage(a) == StageOrder[pos[a]]
CurrentEntry(a) == work[a].stage[CurrentStage(a)]
InPass(a) == pc[a] \in {"core", "deliver"} /\ pos[a] <= Len(StageOrder)

\* Mutations of Runs: confirmed stages run again; a stage waits until the
\* stages before it are confirmed.
RunsConfirmed(a) ==
    /\ Reservable(CurrentEntry(a))
    /\ pc[a] = "core" => CurrentStage(a) \in CoreStages[a]
RunsInSequence(a) ==
    /\ ~Resolved(CurrentEntry(a))
    /\ Reservable(CurrentEntry(a))
    /\ CurrentEntry(a).wait = 0
    /\ pc[a] = "core" => CurrentStage(a) \in CoreStages[a]
    /\ \A i \in 1..(pos[a] - 1) : Resolved(work[a].stage[StageOrder[i]])

\* Whether this pass runs the handler of its current stage.
Runs(a) ==
    /\ ~Resolved(CurrentEntry(a))
    /\ Reservable(CurrentEntry(a))
    /\ IF pc[a] = "core"
       THEN CurrentStage(a) \in CoreStages[a]
       ELSE CurrentEntry(a).wait = 0

Defers(a) == pc[a] = "deliver" /\ CurrentStage(a) \in Deferred[a]

StageSkip(a) ==
    /\ InPass(a)
    /\ ~Runs(a)
    /\ pos' = [pos EXCEPT ![a] = @ + 1]
    /\ UNCHANGED <<disk, lock, pc, work, ran, crashes, history>>

\* A deferred stage keeps its entry, but the pass has a result to write.
StageDefer(a) ==
    /\ InPass(a)
    /\ Runs(a)
    /\ Defers(a)
    /\ pos' = [pos EXCEPT ![a] = @ + 1]
    /\ ran' = [ran EXCEPT ![a] = TRUE]
    /\ UNCHANGED <<disk, lock, pc, work, crashes, history>>

\* One stage inside its try/except: reserve in memory, run the handler,
\* record its result in memory.
StageRun(a, result) ==
    /\ InPass(a)
    /\ Runs(a)
    /\ ~Defers(a)
    /\ LET s == CurrentStage(a)
           i == work[a].id
       IN /\ work' = [work EXCEPT ![a].stage[s] =
                        Settle(s, Reserved(@), result)]
          /\ runs' = [runs EXCEPT ![i][s] = @ + 1]
          /\ acks' = IF result = "ok"
                     THEN [acks EXCEPT ![i][s] = @ + 1] ELSE acks
    /\ pos' = [pos EXCEPT ![a] = @ + 1]
    /\ ran' = [ran EXCEPT ![a] = TRUE]
    /\ UNCHANGED <<disk, lock, pc, crashes, confirmed>>

\* _persist_receipt and _persist_terminal_delivery_receipt: re-read the task
\* and replace its receipt, whichever receipt the task holds by now.
Persist(a) ==
    IF ran[a]
    THEN /\ receipt' = work[a]
         /\ confirmed' = [confirmed EXCEPT ![work[a].id] =
                @ \cup {s \in Stage : Resolved(work[a].stage[s])}]
    ELSE UNCHANGED <<receipt, confirmed>>

AtEnd(a) == pos[a] > Len(StageOrder)

CoreEnd(a) ==
    /\ pc[a] = "core" /\ AtEnd(a)
    /\ Persist(a)
    /\ pc' = [pc EXCEPT ![a] = "told"]
    /\ UNCHANGED <<status, outcomes, lock, pos, work, ran, crashes, runs, acks>>

DeliverEnd(a) ==
    /\ pc[a] = "deliver" /\ AtEnd(a)
    /\ Persist(a)
    /\ lock' = NoActor
    /\ pc' = [pc EXCEPT ![a] = "idle"]
    /\ UNCHANGED <<status, outcomes, pos, work, ran, crashes, runs, acks>>

\* The process of a dies.  Its working copy is lost and the kernel releases
\* its file lock.
Crash(a) ==
    /\ pc[a] # "idle"
    /\ crashes < MaxCrashes
    /\ crashes' = crashes + 1
    /\ pc' = [pc EXCEPT ![a] = "idle"]
    /\ lock' = IF lock = a THEN NoActor ELSE lock
    /\ UNCHANGED <<disk, pos, work, ran, history>>

Aged(e) == [state |-> e.state, attempts |-> e.attempts,
            wait |-> IF e.wait = 0 THEN 0 ELSE e.wait - 1]

\* One clock unit passes.
Tick ==
    /\ \A a \in Actors : pc[a] = "idle"
    /\ \E s \in Stage : receipt.stage[s].wait > 0
    /\ receipt' = [receipt EXCEPT !.stage =
            [s \in Stage |-> Aged(receipt.stage[s])]]
    /\ UNCHANGED <<status, lock, pc, pos, work, ran, outcomes, crashes, history>>

Advance(a) ==
    \/ CoreBegin(a)
    \/ DeliverBegin(a)
    \/ DeliverSkip(a)
    \/ StageSkip(a)
    \/ StageDefer(a)
    \/ \E result \in {"ok", "failed"} : StageRun(a, result)
    \/ CoreEnd(a)
    \/ DeliverEnd(a)

Next ==
    \/ \E a \in Actors : Advance(a) \/ Crash(a)
    \/ \E a \in Actors, k \in Outcome : EndTask(a, k)
    \/ Requeue
    \/ Tick

Spec == Init /\ [][Next]_vars

\* Time passes, a started pass goes on, and maintenance comes round again: the
\* Runner loop sleeps between its cycles, so neither the clock nor a process
\* blocked on the file lock waits for ever on an idle maintenance cycle.
Fairness == SF_vars(Tick) /\ \A a \in Actors : SF_vars(Advance(a))

FairSpec == Spec /\ Fairness

-----------------------------------------------------------------------------
Receipt == [id : 0..MaxOutcomes, kind : Outcome \cup {"open"},
            stage : [Stage -> Entry]]

TypeOK ==
    /\ status \in Outcome \cup {"open"}
    /\ receipt \in Receipt
    /\ lock \in Actors \cup {NoActor}
    /\ pc \in [Actors -> {"idle", "ended", "core", "told", "deliver"}]
    /\ pos \in [Actors -> 1..(Len(StageOrder) + 1)]
    /\ work \in [Actors -> Receipt]
    /\ ran \in [Actors -> BOOLEAN]
    /\ outcomes \in 0..MaxOutcomes
    /\ crashes \in 0..MaxCrashes
    /\ runs \in [1..MaxOutcomes -> [Stage -> Nat]]
    /\ acks \in [1..MaxOutcomes -> [Stage -> Nat]]
    /\ confirmed \in [1..MaxOutcomes -> SUBSET Stage]

\* No false confirmation: a stage is confirmed on disk only if its handler
\* succeeded for that very receipt, whatever passes raced and whichever died.
ConfirmedWasDelivered ==
    receipt.id # 0 =>
        \A s \in Stage : Resolved(receipt.stage[s]) => acks[receipt.id][s] > 0

\* The reservation of a stage never reaches the disk, so the maintenance code
\* that reconciles interrupted reservations has nothing to find.
NoReservationOnDisk ==
    \A s \in Stage : receipt.stage[s].state # "in_progress"

\* Confirmed stages are never repeated: no handler runs for a stage that was
\* confirmed on disk for the same receipt.
ConfirmedNeverRepeated ==
    [][\A i \in 1..MaxOutcomes : \A s \in Stage :
          runs'[i][s] > runs[i][s] => s \notin confirmed[i]]_vars

\* The attempt limit bounds the real executions of a handler, up to one lost
\* count per crash.
RunsBounded ==
    \A i \in 1..MaxOutcomes : \A s \in Stage :
        runs[i][s] <= MaxAttempts + crashes

\* The receipt of a finished task describes the write that finished it.
ReceiptMatchesOutcome == status \in Outcome => receipt.kind = status

\* What a single deliverer's receipt says is so: it is that of the outcome, and
\* its attempts account for the handlers that ran (terminal_write,
\* deliver_stages, persist).
ReceiptTrue == ReceiptMatchesOutcome /\ RunsBounded

\* Every finished task whose outcome stands has each stage confirmed or its
\* attempts spent in the end: one failing stage never starves another.
EveryStageSettles ==
    \A s \in Stage :
        status \in Outcome ~> \/ status = "open"
                              \/ Resolved(receipt.stage[s])
                              \/ Exhausted(receipt.stage[s])
=============================================================================
