---------------------------- MODULE ChainDeletion ----------------------------
(***************************************************************************)
(* task delete: the removal of a task chain in a transaction on disk       *)
(* (service.py plan_task_delete, delete_task_chain; task_store.py          *)
(* reserve_chain_deletion to purge_committed_deletion).                    *)
(*                                                                         *)
(* A chain is a few directories: reports, inputs, artifacts and, last, the *)
(* records that hold its task.json files.  A deletion writes a manifest,   *)
(* moves each directory aside, refreshes the index, appends a receipt,     *)
(* marks the manifest committed and then removes what it moved.  A command *)
(* that finds a manifest that is not committed takes it up again.          *)
(*                                                                         *)
(* The model follows one task code.  Every step is one file operation or   *)
(* one reading of the disk; there is no lock, and the process may die      *)
(* between any two of them.                                                *)
(***************************************************************************)
EXTENDS Naturals, Sequences

CONSTANTS
    Deleters,       \* processes that run task delete
    Targets,        \* the directories of a chain in the plan's order, records last
    Ids,            \* names of deletion transactions (uuid4)
    NoId,
    MaxChains,      \* bound: chains that use the task code, one after another
    MaxIterations,  \* bound: iterations of a chain
    MaxReopens,     \* bound: failed iterations that run again
    MaxCrashes,     \* bound: processes that die
    MaxFaults       \* bound: file operations that fail

Target == {Targets[i] : i \in 1..Len(Targets)}
Records == Targets[Len(Targets)]

ASSUME DeletionAssumption ==
    /\ Targets \in Seq(STRING)
    /\ Targets # <<>>
    /\ \A i, j \in 1..Len(Targets) : Targets[i] = Targets[j] => i = j
    /\ NoId \notin Ids
    /\ MaxChains \in Nat \ {0}
    /\ MaxIterations \in Nat \ {0}
    /\ MaxReopens \in Nat
    /\ MaxCrashes \in Nat
    /\ MaxFaults \in Nat

\* The files of one iteration of one chain.
Unit == [chain : 1..MaxChains, iteration : 1..MaxIterations]

VARIABLES
    source,     \* [Target -> SUBSET Unit]: what each directory of the code holds
    staged,     \* [Ids -> [Target -> SUBSET Unit]]: what was moved aside
    manifest,   \* [Ids -> Manifest], one per transaction directory
    receipts,   \* deletion_receipts.jsonl: transactions and what they deleted
    active,     \* the iterations whose task may still run
    proc,       \* the commands under way
    created,    \* history: the iterations there ever were
    reopens, crashes, faults

vars == <<source, staged, manifest, receipts, active, proc,
          created, reopens, crashes, faults>>

disk == <<source, staged, manifest, receipts>>
world == <<active, created, reopens>>

NoManifest == [state |-> "none", units |-> {}, targets |-> {}]

Exists(dir) == dir # {}

\* The iterations that list_tasks finds.
Chain == source[Records]

HasReceipt(d) == \E i \in 1..Len(receipts) : receipts[i].id = d

\* Transactions that still hold the code (pending_chain_deletion).
Pending == {d \in Ids : manifest[d].state \notin {"none", "committed"}}

Idle == [pc |-> "idle", id |-> NoId, work |-> NoManifest, pos |-> 1, ok |-> TRUE]

Goto(p, pc) == proc' = [proc EXCEPT ![p].pc = pc]
Stop(p) == proc' = [proc EXCEPT ![p] = Idle]

\* stage_chain_deletion and delete_task_chain roll back on every failure.
Fail(p) == proc' = [proc EXCEPT ![p].pc = "rollback"]

\* The targets a transaction has left at position pos of the plan.
At(p) == Targets[proc[p].pos]
InPlan(p) == At(p) \in proc[p].work.targets
Advance(p) == proc' = [proc EXCEPT ![p].pos = @ + 1, ![p].pc = "stage"]

-----------------------------------------------------------------------------
(* Planning and reservation.                                               *)

Eligible == Chain \cap active = {}

\* plan_task_delete: a pending transaction is taken up with the plan it has; a
\* chain that is gone is purged if its files are still there.
Plan(p) ==
    /\ proc[p].pc = "idle"
    /\ \/ \E d \in Pending :
             /\ Pending = {d}
             /\ proc' = [proc EXCEPT ![p] = [Idle EXCEPT !.pc = "open", !.id = d]]
       \/ /\ Pending = {}
          /\ Exists(Chain)
          /\ Eligible
          /\ proc' = [proc EXCEPT ![p] =
                [Idle EXCEPT !.pc = "reserve",
                             !.work = [state |-> "reserved", units |-> Chain,
                                       targets |-> {t \in Target : Exists(source[t])}]]]
       \/ /\ Pending = {}
          /\ ~Exists(Chain)
          /\ receipts # <<>>
          /\ proc' = [proc EXCEPT ![p] =
                [Idle EXCEPT !.pc = "purge", !.id = receipts[Len(receipts)].id]]
    /\ UNCHANGED <<disk, world, crashes, faults>>

\* reserve_chain_deletion looks for a pending transaction once more; one with
\* another generation, or several, refuse the command.
Reserve(p) ==
    /\ proc[p].pc = "reserve"
    /\ \/ Pending = {} /\ Goto(p, "write")
       \/ \E d \in Pending :
             IF Pending = {d} /\ manifest[d].units = proc[p].work.units
             THEN proc' = [proc EXCEPT ![p].pc = "open", ![p].id = d]
             ELSE Stop(p)
    /\ UNCHANGED <<disk, world, crashes, faults>>

WriteManifest(p) ==
    /\ proc[p].pc = "write"
    /\ \E d \in Ids :
          /\ manifest[d] = NoManifest
          /\ ~HasReceipt(d)
          /\ \A q \in Deleters : proc[q].id # d
          /\ manifest' = [manifest EXCEPT ![d] = proc[p].work]
          /\ proc' = [proc EXCEPT ![p].pc = "open", ![p].id = d]
    /\ UNCHANGED <<source, staged, receipts, world, crashes, faults>>

-----------------------------------------------------------------------------
(* Staging.                                                                *)

ResumableBeforeRollback(m) == m.state \notin {"none", "committed", "rollback_required"}
Resumable(m) == m.state \notin {"none", "committed"}

\* stage_chain_deletion reads the manifest, and works on its copy from then on.
Open(p) ==
    LET m == manifest[proc[p].id] IN
    /\ proc[p].pc = "open"
    /\ CASE Resumable(m) ->
              proc' = [proc EXCEPT ![p].pc = "stage", ![p].work = m, ![p].pos = 1]
         [] m.state = "committed" -> Goto(p, "refresh")
         [] OTHER -> Stop(p)
    /\ UNCHANGED <<disk, world, crashes, faults>>

\* What stands in the way, or was done by an earlier command.
StageCheck(p) ==
    LET src == source[At(p)]
        dst == staged[proc[p].id][At(p)] IN
    /\ proc[p].pc = "stage"
    /\ proc[p].pos <= Len(Targets)
    /\ \/ ~InPlan(p) /\ Advance(p)
       \/ InPlan(p) /\ ~Exists(src) /\ Exists(dst) /\ Advance(p)
       \/ InPlan(p) /\ Exists(src) /\ ~Exists(dst) /\ Goto(p, "move")
       \/ InPlan(p) /\ (Exists(src) <=> Exists(dst)) /\ Fail(p)
    /\ UNCHANGED <<disk, world, crashes, faults>>

\* _stage_delete_target: a rename, which fails if its source has gone or its
\* destination has come.
StageMove(p) ==
    LET t == At(p)
        d == proc[p].id IN
    /\ proc[p].pc = "move"
    /\ IF Exists(source[t]) /\ ~Exists(staged[d][t])
       THEN /\ source' = [source EXCEPT ![t] = {}]
            /\ staged' = [staged EXCEPT ![d][t] = source[t]]
            /\ Goto(p, "note")
       ELSE Fail(p) /\ UNCHANGED <<source, staged>>
    /\ UNCHANGED <<manifest, receipts, world, crashes, faults>>

Save(p, state) ==
    manifest' = [manifest EXCEPT ![proc[p].id] = [proc[p].work EXCEPT !.state = state]]

StageNote(p) ==
    /\ proc[p].pc = "note"
    /\ Save(p, "staging")
    /\ Advance(p)
    /\ UNCHANGED <<source, staged, receipts, world, crashes, faults>>

StageEnd(p) ==
    /\ proc[p].pc = "stage"
    /\ proc[p].pos > Len(Targets)
    /\ Save(p, "staged")
    /\ Goto(p, "refresh")
    /\ UNCHANGED <<source, staged, receipts, world, crashes, faults>>

\* _refresh_task_index
Refresh(p) ==
    /\ proc[p].pc = "refresh"
    /\ Goto(p, "finalize")
    /\ UNCHANGED <<disk, world, crashes, faults>>

\* A rename, a write or the index refresh fails before it has an effect.
Fault(p) ==
    /\ proc[p].pc \in {"move", "note", "refresh"}
    /\ faults < MaxFaults
    /\ faults' = faults + 1
    /\ Fail(p)
    /\ UNCHANGED <<disk, world, crashes>>

-----------------------------------------------------------------------------
(* Rolling back: rollback_chain_deletion, from the last target to the      *)
(* first.                                                                  *)

\* _remove_deletion_transaction: the records are staged next to the manifest.
RolledBackAlways(p) == TRUE
RolledBack(p) == proc[p].ok

RemoveTransaction(d) ==
    /\ manifest' = [manifest EXCEPT ![d] = NoManifest]
    /\ staged' = [staged EXCEPT ![d][Records] = {}]

RollbackOpen(p) ==
    LET m == manifest[proc[p].id] IN
    /\ proc[p].pc = "rollback"
    /\ IF m.state = "none" THEN Stop(p)
       ELSE proc' = [proc EXCEPT ![p].pc = "undo", ![p].work = m,
                                 ![p].pos = Len(Targets), ![p].ok = TRUE]
    /\ UNCHANGED <<disk, world, crashes, faults>>

RollbackTarget(p) ==
    LET t == At(p)
        d == proc[p].id
        Next1(ok) == proc' = [proc EXCEPT ![p].pos = @ - 1, ![p].ok = @ /\ ok] IN
    /\ proc[p].pc = "undo"
    /\ proc[p].pos > 0
    /\ \/ ~InPlan(p) /\ Next1(TRUE) /\ UNCHANGED <<source, staged, faults>>
       \/ /\ InPlan(p) /\ ~Exists(staged[d][t])
          /\ Next1(Exists(source[t])) /\ UNCHANGED <<source, staged, faults>>
       \/ /\ InPlan(p) /\ Exists(staged[d][t]) /\ Exists(source[t])
          /\ Next1(FALSE) /\ UNCHANGED <<source, staged, faults>>
       \/ /\ InPlan(p) /\ Exists(staged[d][t]) /\ ~Exists(source[t])
          /\ source' = [source EXCEPT ![t] = staged[d][t]]
          /\ staged' = [staged EXCEPT ![d][t] = {}]
          /\ Next1(TRUE) /\ UNCHANGED faults
       \/ /\ InPlan(p) /\ Exists(staged[d][t]) /\ ~Exists(source[t])
          /\ faults < MaxFaults /\ faults' = faults + 1
          /\ Next1(FALSE) /\ UNCHANGED <<source, staged>>
    /\ UNCHANGED <<manifest, receipts, world, crashes>>

RollbackEnd(p) ==
    /\ proc[p].pc = "undo"
    /\ proc[p].pos = 0
    /\ IF RolledBack(p) THEN RemoveTransaction(proc[p].id)
       ELSE Save(p, "rollback_required") /\ UNCHANGED staged
    /\ Stop(p)
    /\ UNCHANGED <<source, receipts, world, crashes, faults>>

-----------------------------------------------------------------------------
(* Commit: finalize_chain_deletion and purge_committed_deletion.           *)

\* Every planned directory has been moved, and none has come back.
Moved(d) ==
    \A t \in manifest[d].targets : ~Exists(source[t]) /\ Exists(staged[d][t])

Finalize(p) ==
    LET d == proc[p].id IN
    /\ proc[p].pc = "finalize"
    /\ \/ manifest[d].state = "committed" /\ Goto(p, "purge") /\ UNCHANGED receipts
       \/ /\ manifest[d].state = "staged" /\ Moved(d)
          /\ receipts' = IF HasReceipt(d) THEN receipts
                         ELSE Append(receipts, [id |-> d, units |-> manifest[d].units])
          /\ proc' = [proc EXCEPT ![p].pc = "commit", ![p].work = manifest[d]]
       \/ /\ manifest[d].state # "committed"
          /\ ~(manifest[d].state = "staged" /\ Moved(d))
          /\ Stop(p) /\ UNCHANGED receipts
    /\ UNCHANGED <<source, staged, manifest, world, crashes, faults>>

Commit(p) ==
    /\ proc[p].pc = "commit"
    /\ Save(p, "committed")
    /\ Goto(p, "purge")
    /\ UNCHANGED <<source, staged, receipts, world, crashes, faults>>

\* A directory that cannot be removed keeps its transaction.
Purge(p) ==
    LET d == proc[p].id IN
    /\ proc[p].pc = "purge"
    /\ \/ /\ manifest[d].state = "committed"
          /\ staged' = [staged EXCEPT ![d] = [t \in Target |-> {}]]
          /\ manifest' = [manifest EXCEPT ![d] = NoManifest]
          /\ UNCHANGED faults
       \/ /\ manifest[d].state = "committed"
          /\ faults < MaxFaults /\ faults' = faults + 1
          /\ \E left \in SUBSET Target :
                staged' = [staged EXCEPT ![d] =
                              [t \in Target |-> IF t \in left THEN staged[d][t] ELSE {}]]
          /\ UNCHANGED manifest
       \/ manifest[d].state # "committed" /\ UNCHANGED <<staged, manifest, faults>>
    /\ Stop(p)
    /\ UNCHANGED <<source, receipts, world, crashes>>

Crash(p) ==
    /\ proc[p].pc # "idle"
    /\ crashes < MaxCrashes
    /\ crashes' = crashes + 1
    /\ Stop(p)
    /\ UNCHANGED <<disk, world, faults>>

-----------------------------------------------------------------------------
(* The tasks of the chain.                                                 *)

Populate(u) ==
    /\ source' = [t \in Target |-> source[t] \cup {u}]
    /\ active' = active \cup {u}
    /\ created' = created \cup {u}

IsHead(u) == u \in Chain /\ \A v \in Chain : v.iteration <= u.iteration

ChainsSoFar == {u.chain : u \in created}

\* create_task with a fresh code (allocate_task_code): no chain has it and no
\* transaction reserves it.
CodeFreeOnDisk == ~Exists(Chain)
CodeFree == ~Exists(Chain) /\ Pending = {}

CreateChain ==
    /\ CodeFree
    /\ \E c \in 1..MaxChains :
          /\ ChainsSoFar = 1..(c - 1)
          /\ Populate([chain |-> c, iteration |-> 1])
    /\ UNCHANGED <<staged, manifest, receipts, proc, reopens, crashes, faults>>

\* create_task with a lineage (handoff, follow-up): the next iteration, in the
\* chain's directories, which are made again where they are missing.
Continue ==
    /\ Exists(Chain)
    /\ Eligible
    /\ \E u \in Chain :
          /\ IsHead(u)
          /\ u.iteration < MaxIterations
          /\ Populate([u EXCEPT !.iteration = @ + 1])
    /\ UNCHANGED <<staged, manifest, receipts, proc, reopens, crashes, faults>>

\* requeue_task, for a failed head.
Reopen ==
    /\ Eligible
    /\ reopens < MaxReopens
    /\ reopens' = reopens + 1
    /\ \E u \in Chain : IsHead(u) /\ Populate(u)
    /\ UNCHANGED <<staged, manifest, receipts, proc, crashes, faults>>

EndTask ==
    /\ \E u \in Chain \cap active : active' = active \ {u}
    /\ UNCHANGED <<disk, proc, created, reopens, crashes, faults>>

-----------------------------------------------------------------------------
Init ==
    /\ source = [t \in Target |-> {}]
    /\ staged = [d \in Ids |-> [t \in Target |-> {}]]
    /\ manifest = [d \in Ids |-> NoManifest]
    /\ receipts = <<>>
    /\ active = {}
    /\ proc = [p \in Deleters |-> Idle]
    /\ created = {}
    /\ reopens = 0 /\ crashes = 0 /\ faults = 0

Step(p) ==
    \/ Reserve(p) \/ WriteManifest(p)
    \/ Open(p) \/ StageCheck(p) \/ StageMove(p) \/ StageNote(p) \/ StageEnd(p)
    \/ Refresh(p)
    \/ RollbackOpen(p) \/ RollbackTarget(p) \/ RollbackEnd(p)
    \/ Finalize(p) \/ Commit(p) \/ Purge(p)

Next ==
    \/ \E p \in Deleters : Plan(p) \/ Step(p) \/ Fault(p) \/ Crash(p)
    \/ CreateChain \/ Continue \/ Reopen \/ EndTask

Spec == Init /\ [][Next]_vars

\* A started command goes on, and the user repeats one that was cut short.
FairSpec == Spec /\ \A p \in Deleters : WF_vars(Step(p)) /\ WF_vars(Plan(p))

-----------------------------------------------------------------------------
Manifest == [state : {"none", "reserved", "staging", "staged", "committed", "rollback_required"},
             units : SUBSET Unit, targets : SUBSET Target]

\* The store, the manifests and the commands at work on them are well formed
\* (task_store.py).
TypeOK ==
    /\ source \in [Target -> SUBSET Unit]
    /\ staged \in [Ids -> [Target -> SUBSET Unit]]
    /\ manifest \in [Ids -> Manifest]
    /\ receipts \in Seq([id : Ids, units : SUBSET Unit])
    /\ active \subseteq Unit
    /\ proc \in [Deleters ->
          [pc : {"idle", "reserve", "write", "open", "stage", "move", "note", "refresh",
                 "rollback", "undo", "finalize", "commit", "purge"},
           id : Ids \cup {NoId}, work : Manifest, pos : 0..(Len(Targets) + 1), ok : BOOLEAN]]
    /\ created \subseteq Unit
    /\ reopens \in 0..MaxReopens
    /\ crashes \in 0..MaxCrashes
    /\ faults \in 0..MaxFaults

\* No file of a chain is lost but to a deletion that left a receipt for it,
\* whatever dies or fails, and whatever the tasks do (purge_committed_deletion,
\* rollback_chain_deletion).
LostOnlyWithReceipt ==
    \A u \in created, t \in Target :
        \/ u \in source[t]
        \/ \E d \in Ids : u \in staged[d][t]
        \/ \E i \in 1..Len(receipts) : \E v \in receipts[i].units : v.chain = u.chain

\* A task code is one chain's at a time: nothing that a pending deletion may
\* still put back belongs to an earlier chain than the one that has the code
\* (reserved_deletion_codes).
CodeNeverShared ==
    /\ \A u, v \in Chain : u.chain = v.chain
    /\ \A d \in Pending, t \in Target : \A u \in staged[d][t], c \in ChainsSoFar : c <= u.chain

\* What a receipt says was deleted stays away, unless an index refresh failed
\* after a command that died between receipt and commit (finalize_chain_deletion).
ReceiptStands ==
    faults = 0 =>
        \A i \in 1..Len(receipts), t \in Target : receipts[i].units \cap source[t] = {}

\* A receipt is written for what is lost, and what has a receipt is lost.
ReceiptsTrue == LostOnlyWithReceipt /\ ReceiptStands

\* A directory was made again after it had been moved aside.
Doubled == \E d \in Pending, t \in Target : Exists(source[t]) /\ Exists(staged[d][t])

\* A deletion that was cut short is completed or undone in the end by repeating
\* the command, wherever it stopped, unless a task of the chain ran meanwhile and
\* made a directory again.
DeletionSettles == Pending # {} ~> (Pending = {} \/ Doubled)
=============================================================================
