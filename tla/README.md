# Verification of Agent Bridge Connect

TLA+ models of the parts of `src/src/agent_bridge_connect` where processes meet:
the life of a task from dispatch to outcome, the delivery of the outcome, the
permission elevation of a run, the cleanup of its sessions, the retry and handoff
of a failed task, the deletion of a chain, the spool between commands and the
Runner, the installation with its updates and rollbacks, and the session of an executor
between its native server, the adapter and the worker. TLC checks the models on
small instances, TLAPS proves central invariants for every instance. All paths below are
relative to `src/src/agent_bridge_connect` unless they start with `src/`.

## 1. The system

The program hands *tasks* to agent executors (Codex, Claude, Hermes, OpenCode, a
shell) and keeps everything it knows on disk: one directory per task with
`task.json`, `lease.json` (the dispatch lease) and `run_lease.json` (the
RunLease). Command line, MCP server, web gateway, Runner and workers are separate
processes that read and write these files. There is **no lock on a task**:
a handler reads `task.json`, decides, and replaces the file. Some operations have
locks of their own, which exclude nobody else: `.delivery.lock` (the delivery
coordinator), `.cleanup.lock` (session cleanup), `.retry-flow.lock` and
`.handoff-recovery.lock` (the two revivals), `control.lock` (the approval control
plane of a live run).

### Inventory

| Component | State | Operations | Interacts with | Hard part | What makes it correct |
|---|---|---|---|---|---|
| Task service (`service.py`) | `task.json`: status, `agentbc.execution`, `agentbc.input`, `agentbc.close_intent`, `agentbc.final_callback`, delivery receipt | create, start, suspend, finalize, fail, mark needs_recovery, requeue, respond, expire, cancel, plan/reserve/commit/abort close | called by every process | handlers of several processes in any order; late reports | lease, callback, request and status agree; a result stands |
| RunLease (`run_lease.py`) | `run_lease.json` | create, heartbeat, suspend, close, reconcile, recover | executor (heartbeat), service, maintenance | writers do not know of each other; dead processes | a lost run is noticed |
| Runner (`runner.py`) | table of runs, threads waiting for children | dispatch, respond-and-dispatch, cancel, exit reconciliation, maintenance cycle | spawns workers; service | restart forgets the table; stale exits | an exit only settles the run it belongs to |
| Worker (`cli.py` `worker_run`, `executors/base.py`) | its executor's run and in-memory lease | probe, claim, start, poll, report, exit | service, executor | dies anywhere; reports late | it reports once, about its own run |
| Terminal delivery (`terminal_delivery.py`, `terminal_delivery_coordinator.py`, Core pass in `service.py`) | receipt in `task.json`: five stages with state, attempts, backoff | Core pass, coordinator pass, maintenance | report, record, index, file and dialog notifications | two kinds of pass, one unlocked; crash between effect and record | no false confirmation; no repetition; every stage gets its turn |
| Task store (`task_store.py`) | directories of chains; manifests, staging and receipts of deletions | atomic file replacement, leases, chain deletion through staging | all | crash inside a deletion; failing moves; tasks that go on meanwhile | nothing is lost without a receipt; a code has one chain |
| Session cleanup (`session_cleanup.py`, `auxiliary_sessions.py`) | a cleanup receipt per session: state, attempts, backoff, error | gates, intent, external call, result, crash recovery, acknowledgement | executor archives, maintenance, cancel, the desktop, retry | external call with unknown effect; stale copies of the record | one call per intent; resolved is final; every session settles |
| Revival and retry (`revival.py`, `retry_flow.py`, `handoff_recovery.py`) | `agentbc.revival`, quarantine, archives, lock files | retry, hand off, undo | service, dispatch | failure or death at any step; two kinds of lock | evidence is kept; a fresh start; one successor per head |
| Approvals and permissions (`approval*.py`, `permission_*.py`) | `agentbc.input`, `agentbc.permission_elevation`, grants | request, decide, time out, activate, verify | executor adapters, dialogs, Runner | late answers; the old run beside the new one | full permission only by an approval; one dialog; a wait ends |
| Control plane (`control_runtime.py`) | pending request and state of a live run | request, answer, expire, invalidate | SDK thread, Runner | answer against deadline | agrees with the task's record |
| Runner IPC (`runner_ipc.py`) | spool of requests and responses, two pid files | start, stop, submit, take, answer, give up | command line, Runner | a deadline against a request being taken; two Runners; deaths with a request in hand | executed at most once, answered as it was, given up is not done |
| Installation, Docker edition (`installation*.py`, `docker_install*.py`) | receipt with the journals of an update and an uninstall, managed root, skills, containers, data volume, maintenance marker | install, undo, update, rollback, setup, start and stop, uninstall, recovery; supervisor | a file lock; Docker; the Runner in the container | errors and deaths between any two steps; a supervisor and commands that decided before the lock | one version, or a receipt that says no; no record lost; nothing without an owner |
| Executor adapters (`executors/`, `hermes_acp.py`, `control_transport.py`, `claude_sdk_*`, `codex_app_server.py`) | a run's status, result and RunLease in memory, shared by the adapter's thread and the worker; the pipe to the native server and the reader's buffer | start, poll, cancel, read a turn, hand a request over, archive | native servers; worker; control plane | two threads without a lock, four writes that are published one by one, lost or hidden messages, deaths | no outcome without a turn that ended; no native writer beside whoever takes over; a run ends |
| Policy, contracts, configuration, health | none in time | validation, projection | all | - | - |
| Native update and uninstall (`update.py`, `skill_packages.py`, `installation_native.py`) | CLI link, staged environments, skill packages, Runner, WebUI, maintenance marker | update with rollback, uninstall, setup, Runner and WebUI commands | the same lock as above, which setup, runner and webui commands do not take; errors, deaths; nothing is journalled | what it reports is what is there; the CLI resolves |
| Reports, records, notifications, boards, web, doctor, configuration, scripts | files and views | I/O | - | - | - |

`PROJECT.json` lists every part with its sources and status, and the hazards at
their lines.

### Interactions of the core

    command line / MCP / dialog          Runner                     worker
      dispatch, respond, cancel  --->  spawn, watch  ------->  claim, run executor
             |                           |   ^                       |
             |                           |   +---- exit -------------+
             v                           v                           v
           task.json   <----------  reconcile exit / lease  ----  report result
           run_lease.json <--- maintenance                 <---- heartbeat, close
             |
             +--> terminal write with receipt --> Core pass --> coordinator pass
                                                        maintenance replays it

## 2. The modules

| Module | Contents |
|---|---|
| `TerminalDelivery` | the receipt, the pure stage machine, the Core and coordinator passes, crashes and time |
| `MCTerminalDelivery` | stage lists and the handlers each process has |
| `TerminalDelivery_proofs` | inductive invariant and theorems |
| `TaskLifecycle` | task record, RunLease, workers, Runner and the user's commands |
| `MCTaskLifecycle` | its instances |
| `SessionCleanup` | cleanup receipts, the passes of four kinds of process, executor calls, retries |
| `CodexCleanup` | extends it by the inside of a cleanup call of Codex: Desktop's route, the app server, lost and refused requests |
| `MCSessionCleanup` | kinds of tasks, the passes each process runs, the tasks whose calls are followed inside |
| `SessionCleanup_proofs` | inductive invariants and theorems about both: the refinement, and what the ledger promises |
| `IntentLedger` | abstract: what a durable ledger of intents promises about calls that cannot be undone |
| `Elevation` | the one elevation of a task, in the ended and in the live flow, with the control plane |
| `Elevation_proofs` | inductive invariant and theorems |
| `Revival` | retry and handoff of a failed task, step by step, with requeue and run beside them |
| `Revival_proofs` | inductive invariants and theorems |
| `ChainDeletion` | the deletion transaction, file operation by file operation |
| `ChainDeletion_proofs` | inductive invariant and theorems |
| `RunnerSpool` | requests, responses and pid files between commands and Runner processes |
| `Runner_proofs` | inductive invariants and theorems about `TaskLifecycle` and `RunnerSpool` |
| `Installation` | the managed installation: each operation a plan of steps on files, containers, data and receipt |
| `Installation_proofs` | inductive invariants and theorems |
| `NativeUpdate` | extends it by the inside of a native installation: update with rollback, uninstall, and what goes on beside them |
| `ExecutorSession` | one run of a live executor session: native server, pipe, adapter's thread, worker, close |
| `CommandRun` | the other way to run an executor: one command line, its helpers, deadline, output and routing |
| `ClaudeSession` | the third way: Claude's SDK session in threads of the worker, and the user's live answer |
| `ClaudeSession_proofs` | inductive invariants and theorems about a run of any of the three kinds |
| `MCElevation`, `MCRevival`, `MCChainDeletion`, `MCRunnerSpool`, `MCInstallation`, `MCClaudeSession` | their instances |

The models share the task's status and the RunLease and meet at a few operations.
Each keeps as much of the others as its properties can tell apart:
`TerminalDelivery` has "a terminal write" and "a requeue" for the lifecycle;
`SessionCleanup` has the end of a run, the delivered dialog, requeue, retry, claim
and lease; `Revival` has a requeue, a start and a failure; `Elevation` has the
dispatch, start, exit reconciliation and lease of the lifecycle around a request;
`ChainDeletion` has tasks that are created, continued, requeued and ended;
`ExecutorSession` has the reports to the task, the reconciliation and the close around one
run, and ends where the answer to a request would start another (`Elevation`);
`CommandRun` extends it by what `executor.start` does before that worker polls, and
`ClaudeSession` by a run in threads that goes on while its user is asked: `Elevation` has the
records of that answer over several runs, `ClaudeSession` the threads of the one run.
What a request of `RunnerSpool` does is one step; the other modules say what.
`Installation` has a task's creation and its end as records of the data volume.
`TaskLifecycle` leaves all of them out. `SessionCleanup` implements `IntentLedger`
(property `KeepsLedger`): the intents are the attempts in the receipts on disk, the
calls are those the executors received, and an item is closed when its receipt is
resolved. Codex sessions count as closed, because a call for one may be repeated
(an archive that exists is confirmed, not made again).

### TerminalDelivery

| State | Code |
|---|---|
| `status` | the task's status: open, `needs_recovery`, or `cancelled` for every other outcome |
| `receipt` | `agentbc.terminal_delivery`: identity, kind of outcome, an entry (state, attempts, time to the next attempt) per stage |
| `lock` | holder of `.delivery.lock` |
| `pc`, `pos`, `work`, `ran` | a pass: which kind, which stage, its in-memory copy, whether there is something to persist |
| `runs`, `acks`, `confirmed` | history: how often a handler really ran and succeeded, what was ever confirmed on disk |

| Action | Code |
|---|---|
| `EndTask` | the write of an outcome: `_mark_task_failed_model`, `mark_task_needs_recovery`, `finalize_task_from_agent`, `cancel_task` |
| `Requeue` | `requeue_task` |
| `CoreBegin`, `StageRun`, `StageSkip`, `CoreEnd` | `_sync_terminal_report`, `_run_terminal_delivery_stages`, `_persist_terminal_delivery_receipt` |
| `DeliverBegin`, `StageRun`, `StageDefer`, `StageSkip`, `DeliverEnd`, `DeliverSkip` | `TerminalDeliveryCoordinator._pass` with `run_delivery_stages` |
| `Crash` | a process dies; the kernel drops its flock |
| `Tick` | one backoff unit (60 s) |

Abstractions. No production handler returns `not_applicable`, so it is merged with
`succeeded`. Only two kinds of outcome differ: `needs_recovery` keeps an earlier
receipt of its kind, all others write a new one. A pass stamps everything with
the moment it began and is far shorter than a backoff unit, so time passes between
passes. The persist re-reads `task.json` and replaces the receipt only; that
read-modify-write is one step. Legacy receipts are not imported and the lock-free
headless path and the Docker dialog bridge are left out.

### TaskLifecycle

| State | Code |
|---|---|
| `task.status`, `task.resuming` | status and `internal_status = resuming` |
| `task.wait` | a waiting `agentbc.input`: a message, or an exhausted resource limit |
| `task.intent` | `agentbc.close_intent` |
| `task.final` | `agentbc.final_callback` |
| `task.ref`, `task.pid` | `worker_run_id` in `agentbc.execution`; the worker whose `worker_pid` is recorded there |
| `task.lease` | `lease.json` |
| `runLease` | `run_lease.json`; `open` is ACTIVE, STALE or ORPHANED |
| `phase` | what each worker process does |
| `watched`, `signalled` | the Runner's run table and its SIGTERMs |
| `launch` | `dispatch_worker` once it has started a process: it accepts the dispatch (`activate`) or gives it up (`abandon`); the Runner serves nothing else meanwhile |
| `unwaited` | workers whose run could not be registered, so that no thread waits for them |
| `user`, `targets` | the cancel or close command under way |

Every handler of the service is one step, the steps of a worker, a cancel and a
close are separate. A handler's effect is an operator on the record (`Recover`,
`Fail`, `Finalized`, `Suspended`, `Unreferenced`, `LifecycleClosed`) with the
companion on the RunLease, so that the actions read like the callers: a worker that
fails to start, an exit, a lost lease and an expiry all go through `Recover`.
Actions are grouped by actor: dispatch (`Dispatch`, `RefuseDispatch`, `Respond`,
`Accept`, `ActivationFails`, `Abandon`, `Deny`, `Expire`), worker (`ProbeFails` to `Die`), Runner (`Reap`, `Reconcile`,
`RestartRunner`), user (`RecoverTask`, `Cancel`, `ReserveClose`, `CancelRuns`,
`CommitClose`, `AbortClose`, `LoseCommand`).

Abstractions. An agent's final states are completed, cancelled and
input_required. The dispatch lease's one hour is longer than any behaviour
considered. ACTIVE, STALE and ORPHANED are not told apart by any decision about a
run whose process is lost. The two processes of a run, the worker's and its executor's, die
together. `close_lease` is one step. An expiry's two writes are
one step with the result of both. A close waits 12 s and gives up
(`AbortClose`), at any time. Pause and resume, callback receipts and plan tokens
are left out.

A dispatch writes the pointer, starts the process and registers its run (`Spawn`); the three
are one step, and a process that does not start is `SpawnFails`. What follows has steps of its
own, for the worker runs meanwhile: the pointer is written again with the process id
(`Accept`), or that write, the event or the monitor's write fails (`ActivationFails`). Then
`RunnerState.cancel` sends a SIGTERM and `_reconcile_worker_start_failure` marks the task and
clears the pointer (`Abandon`). For a Codex worker `cancel` returns at once and a watchdog kills
it after 3 s; a worker whose run could not be registered is not signalled at all, nor reaped.
Both may be alive when the pointer is gone, and the model has them go on. For the other
executors `cancel` waits, which is the case in which the worker dies first. A second failure is
left out: that of `cancel`'s own record or of the reconciliation, which then does nothing, and
that of the pointer's first write, after which nothing was started.

### SessionCleanup

| State | Code |
|---|---|
| `task` | status, the confirmed dialog stage (`shown`), a cleanup receipt per session: state, attempts, retryable, wait, error |
| `lease`, `popup`, `route` | `run_lease.json`; a dialog event of this attempt in `events.jsonl`; a registered Desktop route |
| `lock`, `proc` | holder of `.cleanup.lock`; each pass with its kind, the session it is at and the record it read |
| `gone` | what the executor has deleted; a later call finds it absent |
| `calls` | history: calls per session of this attempt |

| Action | Code |
|---|---|
| `BeginPass` | a maintenance, wake-up, acknowledgement or cancel pass that gets the lock: `maintain_session_cleanup`, `acknowledge_desktop_archive`, `_request_container_family` |
| `PassOver`, `KeepFamily`, `MarkRetained`, `Request`, `Replay`, `Interrupt` | what a pass does at a session: the gates, retention, the intent, the retry when due, the recovery of an interrupted call |
| `Call`, `ExecutorDeletes`, `Apply` | `_execute`, the executor's own effect (also after its caller died), `_apply_result` and the auxiliary one, which writes the whole record it read |
| `ShowDialog`, `EndRun`, `Requeue`, `Retry`, `ClaimTask`, `OpenLease`, `RouteChanges`, `Crash`, `Tick` | the surroundings |

### CodexCleanup

In `SessionCleanup` a call of an executor is one action that deletes (or does not) and one
that answers. For Codex, `CodexCleanup` puts the conversation in their place, under the same
passes (`opened` says which of the two is followed).

| State | Code |
|---|---|
| `broker` | `CodexDesktopArchiveBroker` in the Runner's memory: capability of the registered route, cached answers per thread |
| `exec` | the step of the call under way: `archive`, `connect`, `gate` (a container's archive), `delete`, `read`, and the answer when it is `told` |
| `archived` | threads that Codex Desktop, the user's app or the server has archived |
| `wake` | a registration whose forced maintenance has not run yet |

| Action | Code |
|---|---|
| `Register` | `register` and `_inspect_tools`: new route, empty cache |
| `AskDesktop` | the cached answer, the route (`_archive_on_route`; `LoseRoute` is a facade or relay that fails before or after Codex acted) or the user's acknowledgement, which stands for one thread (`AcknowledgedCodexDesktopArchiveBroker`) |
| `CheckScope`, `ArchiveOnServer` | a container's launcher, and its `thread/archive` with acknowledgement |
| `Connect`, `AnswerDelete`, `ReadBack` | the two connections to the app server, `thread/delete` and `_read_absence` with the verdict |
| `BeginFollowed`, `HandleFollowed`, `CallFollowed`, `ApplyFollowed`, `CrashFollowed` | the steps of `SessionCleanup` around them |

The Runner serves registrations and maintenance in one loop, so that the broker never
changes its route inside a call; its generations and its waiting second caller are not
modelled. The code that judges an answer *after* both requests were acknowledged
(`executors/codex.py` 360-417) cannot be reached any more: the reading decides before. Two
things the model showed that no property is about: a container's deletion whose answer was
lost ends as a failure that is not retried, for the retry begins with the archive of a thread
that is gone; and a receipt of a partly acknowledged cleanup says that the deletion was not
requested, although `codex_session_cleanup.py` says it keeps both acknowledgements.

### Elevation

| State | Code |
|---|---|
| `live` | Claude's flow, in which the run waits in its process, or that of Codex and Hermes, in which it ends |
| `task` | status, `agentbc.input`, the state and the binding of `agentbc.permission_elevation`, the notice, `worker_run_id`, `executor_run_id` |
| `lease`, `plane`, `late` | the RunLease; the control plane's state; the deadline both share |
| `proc` | each worker's place in `worker_run`, and what its native executor may do |
| `runner` | the request the Runner serves; it serves one at a time |

Actions are grouped by actor: dispatch (`Dispatch`, `Publish`, `Spawn`, `Accept`),
worker (`Start` to `Clear`, `PollRecovery`, `Finalize`, `Verify`), SDK thread (`Ask`,
`Take`, `Overdue`, `Lapse`, `Lose`), Runner (`AnswerEnded`, `AnswerLive`, `Tell`,
`Commit`, `Expire`, `Reap`, `Reconcile`). An answer of the live flow is three
steps, the write of the task, the check of the plane and the commit, because the SDK
thread watches the clock in between.

Abstractions. A handler's read and write of `task.json` is one step, the two writes of
an expiry are one step. The Runner does not die. A task that is dispatched again
before its worker started, and a dispatch that fails after its worker was started, are a matter
of `TaskLifecycle`. Fingerprints, digests and
session bindings always match. Approvals of protocol version 2 are left out.

### Revival

| State | Code |
|---|---|
| `task`, `lease` | status, `attempt_index`, `agentbc.revival`; RunLease |
| `report`, `artifacts`, `control`, `archive` | files of the task by the attempt they stem from |
| `aside`, `orphan` | the quarantine of a retry; quarantines whose process died |
| `children` | successor iterations |
| `retryLock`, `handoffLock` | a flock; a lock file that can become old |
| `crossed`, `broken` | history: a command, or a run of the task, got into a revival under way; an old lock was removed |
| `damaged` | history: attempts whose artifacts a removal destroyed that failed after the commit of their retry |

A retry is `RetryBegin`, `Reserve`, `Archive`, `QuarantineReport`,
`QuarantineArtifacts`, `MakeArtifacts`, `CommitRetry`, `Purge`, or `RetryFault`, `PurgeFault` and
the undo; a handoff is `HandoffBegin`, the lock (`Stat`, `Break`, `OpenLock`), `Check`,
`HandoffReserve`, `CreateChild`, `Attach`, `CommitHandoff`, or `HandoffFault` and the
undo. `Requeue`, `StartRun`, `FailRun` take neither lock.

Abstractions. The executor is not Codex, the cleanup of the failed attempt's session is
resolved (that a retry waits for it is `RetryWaitsForCleanup` of `SessionCleanup`),
artifacts are in the managed place. An undo fails only where a file is in its way.

`PurgeFault` is `cleanup.commit()` that fails: the new attempt is on disk, and some or all of the
quarantined artifacts are removed. `execute` undoes the retry all the same
(`retry_flow.py:513-522`), so that the record says "failed" of an attempt part of whose artifacts
is lost, and the error says `rollback_complete`. `EvidenceKept` excepts exactly those artifacts
(`damaged`), not the report or the session files. A worker that starts while such a retry is
being undone gets into the revival (`crossed`), as does a command.

### ChainDeletion

| State | Code |
|---|---|
| `source`, `staged` | what each directory of the code holds, and what a transaction moved aside |
| `manifest`, `receipts` | the transactions' manifests; `deletion_receipts.jsonl` |
| `active` | iterations whose task may still run |
| `proc` | a deletion command: its place, its working copy of the manifest |

`Plan` reads the chain and finds a pending transaction; `Reserve`, `Write` and the
moves, the index refresh, `Finalize`, `Commit` and `Purge` are one file operation each,
as is the rollback; `Fault` makes one fail, `Crash` ends the process. `CreateChain`,
`Continue`, `Reopen` and `EndTask` are the tasks of the code. There is no lock.

Abstractions. Directories that are neither records nor artifacts behave like reports.
One deletion command runs at a time and is repeated: with two of them `ReceiptsTrue` is
false, as the hazard at `task_store.py:250` says.

### RunnerSpool

| State | Code |
|---|---|
| `pid` | the two `runner.pid` files: who created each, and whether the pid is written |
| `runner` | each Runner process: its place in `serve_forever` and `serve_once`, the paths it owns, the listing, the request in its hands, the stop flag |
| `call` | a command's call: what the command knows, whether `expires_at` has passed, where its request file is, its response file, and, as history, whether it was admitted and how often it ran |

| Action | Code |
|---|---|
| `Start`, `Create`, `Write`, `Look`, `Unlink` | `RunnerService.__init__`, `_acquire_singleton_pid`, file operation by file operation |
| `Identity`, `Signal` | `serve_forever` with `_identity_is_current`; the SIGTERM handler with `shutdown` |
| `List`, `Take`, `Admit`, `Execute`, `WriteResponse` | `serve_once`: the listing, the move, the checks, `_dispatch_request`, the response |
| `Request`, `Receive`, `RequestExpires`, `GiveUp` | `RunnerClient._request` |
| `CrashRunner`, `CrashClient` | a process dies; its files stay |

Abstractions. Everybody has the same token and channel and requests are well formed. A
release of the two pid files is one step, and so are a response and the removal of the
processed request. Timestamps are not refreshed, and the maintenance of `serve_once` is
the matter of the other modules. A pid is not reused. A handler that raises an exception
`serve_once` does not catch is a crash. Files in the processing directory are never read
again, so a request whose Runner died stays `taken`.

### Installation

| State | Code |
|---|---|
| `receipt` | `~/.agentbc-install/installation.json`: type, state, the journal `update` (old profile, candidate, backup, which services ran), the journal of an uninstall (`remove`, `kept`) |
| `disk` | `docker-host.json`, `bundle`, `venv` and `previous-venv` of the managed root, the skill in the home of a CLI, each by the version it belongs to |
| `srv`, `bound` | the two containers, their image and whether they run; whether the profile names these very containers |
| `data`, `marker` | the data volume: the version that ran on it last and its tasks; `.agentbc-maintenance` |
| `login`, `looked` | the supervisor's login item; the supervisor has read an installed receipt |
| `native` | a native runtime |
| `proc`, `waiting` | the operation that holds the lock, with the place in its plan and what it has in memory; a command that waits for the lock with the profile it loaded |
| `seen`, `archived` | history: the tasks there ever were; those in volumes and backups that an uninstall left |
| `declined` | history: the user was asked about the skill and said no; a command that writes or commits without asking again keeps it |

| Action | Code |
|---|---|
| `BeginInstall`, `BeginCommand`, `Await` with `BeginWaiting`, `BeginRollback`, `BeginRecovery`, `BeginNative` | the admission of an operation: `preflight`, `transaction`, `docker_install.run`, `docker_install_recovery.main`, `assert_native` |
| `Mark` to `Forget` (`Work`) | one step of the plan (`Plan`): `install`, `rollback_install`, `update`, `rollback_update`, `setup`, `uninstall` and the `maintenance` block around them |
| `Fault` (`Abandon`, `Withdraw`, `Undo`, `Break`) | what an exception at a step leads to: nothing, the end of the maintenance block, the undo or the rollback, `repair_required` |
| `Crash`, `Reboot` | the process or the host dies; the kernel gives the lock back, Docker restarts nothing |
| `Look`, `Supervise`, `Switch`, `CreateTask`, `EndTask` | the supervisor, `runner start`, `webui`, task commands, the tasks |

The steps have the order of the code, and a step is what happens between two points where
the process can fail with a different outcome: `up` is compose up, compose create and the
wait for readiness, `records` the removal of records. A step that raises an error has no
effect of its own; with an effect it is the step before an error of the next.

Abstractions. Images, wheels and schemas are good: the checks of identity, checksum and
platform pass. A task command is one step under the shared lock. The preparation of an
update before its maintenance block leaves nothing an operation looks at. A removal of the
managed root is one step. There is one CLI with a skill: those of the others go the same way,
each for itself. An installation and a setup may ask about it (`EntryAndSkill`), an update does
not; a rollback puts back what the backup has of it (`RestoreSkill`), so that a skill that was
declined before stays at the version of the update that failed. A native installation is a payload that succeeds or not; `NativeUpdate` looks inside.
Docker, when it is not reachable, is an error of a step. `setup` has no new projects.

### NativeUpdate

| State | Code |
|---|---|
| `link`, `venvs` | `bin/agentbc` and the environments below the install root, by version |
| `skills` | in each skill root the package: of a version, edited by the user, half replaced (`torn`), or half written (`part`) |
| `runner`, `web` | the Runner that serves, and from which version; whether the WebUI runs |
| `board` | `.agentbc-maintenance` of the board, and whether a task is active |
| `upd`, `said` | the update: its place, the link and the skills it will restore, the WebUI it suspended, whether its rollback went well; what it reported |
| `leaving` | the step of the payload of an uninstall |

| Action | Code |
|---|---|
| `UpdateBegins` to `CaptureSkills` | `run_update_flow`, `update_preflight`, `guarded_update` with `assert_native`, `_require_current_install_identity`, the staging, `_capture_skill_snapshot` |
| `SuspendWeb` to `ResumeWeb` | the cutover of `_install_verified_release_payload`: WebUI, Runner, link, `setup --update`, Runner, identity, WebUI |
| `StopRunner("unhalt", ...)` to `Scrap` | `_rollback_update_transaction`, which returns at its first failure; then the WebUI, and the staged environment is removed in any case |
| `UpdateFault`, `UpdateCrash` | an error: before, in or after the cutover; a death, in a replacement of a skill too |
| `InstallNative`, `BeginRetire`, `RetireSteps` | the payloads of `install_local_alpha` and `uninstall` inside `Installation`'s operations |
| `RunnerStarts`, `RunnerEnds`, `WebSwitches`, `UserSetsUp`, `UserCleans`, `UserEdits`, `TaskRuns`, `Bypass` | what does not take the lock |

Update and uninstall hold the lock of `Installation` (`Holds`), so one module extends the
other: with `watched` false a behaviour is one of `Installation` and the variables of this
module stand still, with `watched` true it is about a native installation in detail. One
choice at the start keeps the two state spaces apart; both are checked by the same run.

Nothing of an update is journalled. After a death the next update starts from what is
there, and only `upd` knew which WebUI to resume. The preflight runs before the lock and
removes the marker of the board, an uninstall's included. The rollback removes the new
environment also when it could not put the link back, which cuts the CLI off; it is the one
case `UpdateToldTrue` allows, and the update says so.

Abstractions. One update at a time: a second one waits for the lock with what it read. The
release index, wheels, checksums and the trial of the staged environment are good or an
error of `Stage`. A Runner that is asked to start answers or the step fails. The doctor's
identity is `Identity`. What setup asks is in `agreed` and `cleaned`.

### ExecutorSession

| State | Code |
|---|---|
| `run` | the executor (Codex App Server or Hermes ACP), and whether its session is retained |
| `server` | the native process: its turn, an unanswered approval request, the archived session, the requests it has to answer |
| `wire` | its output: what is in the pipe, and what `readline` took into the reader's buffer |
| `thread` | the adapter's thread: its place in `_run_app_server` or `_run_acp_session`, the response it awaits, whether it knows the turn's id |
| `rec`, `lease` | what `poll` reads; the RunLease on disk and in the adapter's memory |
| `plane` | state of the request in the control plane |
| `worker`, `task`, `closing` | the main thread with the status and result it read; the task; a close |

| Action | Code |
|---|---|
| `Begin`, `Reply`, `EndTurn`, `Ask`, `Die`, `Orphaned` | the native server: its answers, the end of a turn (the notification may be lost), a request, a death, the end of its stdin |
| `Open`, `Receive`, `Closed`, `Notice`, `Interrupt`, `ReadTurn`, `GiveUp`, `Unseen`, `Timeout` | the Codex thread on its pipe: `_app_wait_response`, `_app_wait_turn_completed`, `_app_read_turn_state` |
| `TellStatus`, `TellResult`, `Yield`, `Expire`, `Resume`, `SendAnswer` | `_handle_app_approval` with `_suspend_run`, `wait_for_decision`, `_resume_run` |
| `ReceiveFrame`, `SuspendWait` | the Hermes thread: `prompt`, `block_task_for_elevation` |
| `Conclude`, `Disconnect`, `Outcome`, `Fail`, `CloseTransport`, `CloseLease` | the end of either thread, write by write |
| `Poll` to `Leave`, `Wait`, `Crash` | `command_worker_run` |
| `Reap`, `Reserve`, `Signal`, `Kill` | Runner and command line |

A timed receive of the Codex thread selects on the pipe and does not look into the
reader's buffer (`Selected`), which is why a message can be there and not be seen: `Unseen`
is the request whose response stays in the buffer until its five seconds pass.

Abstractions. Tasks of elevation protocol 3 only. A deadline of a request (300 s) does not
pass before a worker that polls every two seconds knows of the request, so `Expire` needs
the worker at its dialog or a dead server. A server that answers later than the timeout is
a fault and therefore bounded: an App Server that answers *every* `thread/read` later than
five seconds would keep a run alive for ever. Hermes beats in `poll` and in a thread of its
own; the two write the same and are one action. A reply is matched by the request it
answers, an answer to a request nobody awaits any more is `late`. Hermes does not translate
a cancel into its protocol.

### CommandRun

| State | Code |
|---|---|
| `run.adapter` | `opencode`, `codex_exec`, `claude` (print mode), `hermes_chat` |
| `command.at` | the worker's place in `executor.start` |
| `command.child`, `helper`, `holds` | the child; a process it left behind, in its group or in a session of its own, and whether that one holds the output |
| `late`, `interrupted`, `unbound` | the deadline passed; a cancel was translated; the session's receipt could not be bound |
| `told` | history: the output, all of it, declares the task completed (`Whole`) |

| Action | Code |
|---|---|
| `ChildEnds`, `Fork`, `HelperEnds` | the processes |
| `Refuse`, `Unfit`, `Unspawned`, `Spawn` | the way to `Popen` or `subprocess.run` |
| `Exited`, `Deadline`, `Unbound`, `Interrupted` | what ends the wait |
| `Terminate`, `Reclaim` | `_terminate_owned_process`, `_reclaim_owned_group`: a kill may go unconfirmed |
| `Collect` | the result of any output: `Marker`, `LastTurn`, `PendingError`, `_gate_protocol`, `route_executor_terminal`; the lease |
| `Unexpected`, `Unwind`, `HeartbeatThread` | an exception of OpenCode's run, beside its heartbeat |
| `NotStarted` | a start that is not ok |
| `Terminated`, `Watchdog` | `RunnerService.cancel` |

The run then goes on in `ExecutorSession`: `Poll`, `Act`, `Wait`, `Leave`, `Reap`.

`TerminalByTurn` and `NoActiveWriter` of `ExecutorSession` speak of turns, `EarnedByExit` and
`LeaseAfterChild` of exits; `EarnedOutcome` and `NoWriterLeft` are the two of them, each for
its kind of run. `Whole` says what a complete answer is without the counters and flags by which
`_gate_protocol` decides, and `EarnedByExit` compares the two.

Abstractions. An output is a sequence of the events the routing looks at (`Kinds`); a
callback is valid or not; tool errors are of one call, so that its success recovers them.
`messageID` and the text of permissions are left out. One helper at a time.

### ClaudeSession

It extends `CommandRun` by the runs of a Claude task that Runner manages
(`ClaudeExecutor.start_control`). Three threads of one process work on such a run, and
Runner answers from outside:

| State | Code |
|---|---|
| `sdk.at`, `sdk.result` | the adapter's thread in `_run_sdk_session`, and its `poll_result` |
| `sdk.loop`, `sdk.stuck` | the transport's event loop; its disconnect timed out |
| `asking.gate` | `_elevation_state` of the transport |
| `asking.calls`, `active`, `anchor` | the calls of `can_use_tool`, `_active_request`, `_verification_anchor` |
| `asking.waiter` | the thread in `ApprovalControlPlane.wait_for_decision` |
| `asking.full`, `bypass` | permission of the run's start; the mode of the native session |
| `plane`, `control` | the control plane's request; its answer, deadline and need of recovery; the answer Runner is about to hand over |
| `worker.pc` | the main thread: `start_control`, `poll`, the worker's loop |

| Action | Code |
|---|---|
| `RefuseSession`, `SessionRefused`, `StartRecovers`, `StartSession` | `start_control` and what the worker makes of it |
| `UseTool`, `ToolEnds`, `ResultMessage`, `AgentDies`, `AgentLeft` | the native process |
| `Request`, `Hear`, `Continue` | `_request_and_wait`: three threads take a part each |
| `Connect`, `StreamEnds`, `SafetyTimeout`, `RecordDeath`, `MarkStale`, `Capture`, `StopTransport`, `EndLease`, `Publish` | `_run_sdk_session`, step by step |
| `PollResult`, `PollPlane`, `PollBeat` | `ClaudeExecutor.poll` reads the result, then the plane, then heartbeats |
| `BlockLive`, `ActOnResult`, `Leaves` | `command_worker_run` |
| `RecordAnswer`, `TellPlane`, `DeadlinePasses`, `ExpireWait`, `TerminateGroup` | Runner |

A step is what a thread does between two points at which another may look; a section under
the control plane's file lock is one step. The interpreter waits at its exit for the thread
in `wait_for_decision` (`leaving`), since `asyncio.to_thread` uses threads it joins.

`EarnedInSession` and `NoWriterInSession` are `EarnedOutcome` and `NoWriterLeft` for the
runs of the other modules, and `EarnedByResult` and `LeaseAfterAgent` for these.
`OneElevation` is about the race of the callback, its user, the deadline and the death of the
transport. A deadline of a request fails a task whatever the session does, so
`EarnedByResult` allows `control.late`.

Abstractions. The one v3 request of a task: the session bundles of protocol version 2,
verification events and grants are left out, and the record of the elevation in the task is
that of `Elevation`. A second run of the task is not here.

## 3. The runs

Passing runs:

| Run | Instance | Shows |
|---|---|---|
| `delivery_race` | worker and Runner, stages index and dialog, 2 attempts, 2 outcomes, 1 crash | `ConfirmedWasDelivered`: confirmed on disk means delivered for that receipt |
| `delivery_single` | Runner alone, report and dialog, 3 attempts, 2 outcomes, 1 crash, fair | `ConfirmedNeverRepeated`, `ReceiptTrue`: without a concurrent pass the documented promises hold (the receipt is that of the outcome, and its attempts bound the handler runs, with one uncounted run per crash); `EveryStageSettles`: no stage starves another |
| `lifecycle` | 2 workers, 1 crash or failing write, 1 restart, 1 aborted close, fair | `LeaseFollowsRun`, `StatusBacked` (the callback is that of the outcome, and a task that waits has the request it waits for), `LivePointerKept`: a live worker whose process id is recorded loses its pointer only to the next dispatch, or to its own that has told it to stop; `ResultOutlivesInfrastructure`; `RunSettles` and `LostRunReconciled` |
| `cleanup_plain` | Runner and command line, primary and one auxiliary session of mixed kinds, 2 attempts, 2 runs, 1 crash, 1 acknowledgement; or an ended Codex task, its calls followed inside | `KeepsLedger` (refinement of `IntentLedger`), `ResolvedIsFinal`, `RetryWaitsForCleanup`; `DeletionEarned`: nothing is deleted that was not archived, and success means gone |
| `cleanup_family` | Runner, a container's family of three sessions, 3 attempts, 2 runs, 1 crash, fair; Codex containers followed inside among them | `DescendantsFirst`, `CleanupSettles` |
| `deletion_safe` | one command, 3 directories, 2 transactions, 2 chains of 2 iterations, 1 crash, 2 faults, fair | `ReceiptsTrue`: what is gone has a receipt (`LostOnlyWithReceipt`), and what has a receipt stays gone (`ReceiptStands`); `CodeNeverShared`, `DeletionSettles` |
| `revival_safe` | 2 users (symmetric), both operations, 3 attempts, 1 requeue, 1 crash, 1 fault | `EvidenceKept`: where nothing got into a revival, a failed attempt's evidence exists, but for artifacts whose removal failed; `FreshStart`: and the next attempt finds none of it; `OneSuccessorUnderLock` |
| `elevation_safe` | both flows, 4 workers, 2 answers, 2 requeues, 2 deaths, fair | `FullOnlyByApproval`, `AnswersAgree`, `RunningIsLeased`, `WaitSettles`, `LiveAnswerArrives` |
| `spool_safe` | 2 calls, 2 Runner processes, no or stale pid files at first, 1 SIGTERM, 1 crash of a Runner or a command, fair | `ExecutedAsAnswered`, `GivenUpStaysUndone`, `SpoolDrains` |
| `install_safe` | 2 versions, 1 task, an uninstall may wait for the lock, 2 errors or deaths; or a native installation with one skill root, updates from one version to the other, 2 errors or deaths in them; fair | `VersionsAgree`: what calls itself installed is of one version, but for a skill its user declined; `RecordsKept`, `OwnedByReceipt`, `MigratedUnderJournal`: a Runner of another version gets the data only while a journal names a backup of them; `JournalSettles`; `UpdateToldTrue`: what a native update reports is what is there |
| `session_safe` | one run: Codex or Hermes session, retained or not, 2 approval requests; or a command of OpenCode, Codex, Claude or Hermes, outputs of up to 4 events; or a Claude SDK session, 2 tools, full permission or not; 2 faults (deaths, lost notifications, timeouts, failing writes, unconfirmed kills), a close, fair | `EarnedInSession`: a task is completed or failed by a turn that ended, an exit of its own with a whole answer, a result of the SDK or a deadline; `NoWriterInSession`: whoever takes over meets no active native writer, and no lease is closed over one; `OneElevation`: one run asks once, and nothing is permitted without the accept; `RunEnds` |

The type invariant of every module is proved (`TypeOK` of `ExecutorSession` and `CTypeOK` of
`CommandRun` as parts of `STypeOK` of `ClaudeSession`) and no run repeats it. So are
`NoReservationOnDisk` (a reservation of a stage never reaches the
disk), `OneDialog` (a task asks for its elevation once) and `ReservationHasOwner` (an open
reservation of a revival has a process or a crash behind it), which no run repeats.

Runs that show a disagreement between the code and what the repository says of it
(TLC must find the violation; `PROJECT.json` quotes the lines):

| Run | What happens |
|---|---|
| `elevation_pointer` | A worker suspends its run and shows the dialog; the answer makes the Runner publish the pointer to the continuation; the worker leaves and clears the pointers, for the executor's run it compares is still its own. |

Met on the way, without a run of their own: of two handoffs that find the lock of a dead
one old, the slower one removes the lock the faster one just took, and two successors are
created, although `handoff_recovery.py:567-569` says that the check under the lock still
guarantees one (so `OneSuccessorUnderLock` excepts broken locks); a SIGTERM releases the
pid files while the Runner is at its requests, so the next Runner serves beside it, and
two Runners that find a stale pid file can remove each other's, although
`src/README.md:267` rejects duplicate startups (`ExecutedAsAnswered` holds all the
same); a report of a wait or a failure that comes after a cancellation replaces it
(`service.py:1364`), although `src/tests/integration/test_run_lease_lifecycle.py:253` is
named `test_late_callback_does_not_overwrite_cancelled_task` and `protocol.py:43` gives
`cancelled` no successor (`ResultOutlivesInfrastructure` excepts these reports); the Core
pass can take back a dialog that
maintenance confirmed, and it is shown again, although
`terminal_delivery_coordinator.py:10` says confirmed stages are never repeated (so
`ConfirmedNeverRepeated` is checked for one process); a process that dies after the dialog leaves the attempt uncounted
(`ReceiptTrue` allows one per crash); a message wait becomes `needs_recovery` when its
worker exits; a dispatch that fails after its worker was started clears the pointer while a Codex
worker may still be alive, although the comment at `runner.py:1338-1342` says "Reap it and close
every capability before exposing the failure" and the docstring at `runner.py:3204` speaks of a
dispatch "that never produced a worker process" (`LivePointerKept` excepts a worker that was told
to stop); a dispatch between reserve and commit of a close starts an executor the
close does not wait for; `service.py:2820` says the coordinator replays the receipt
"until confirmed", while three unconfirmed attempts end the replay
(`terminal_delivery.py:504`), so `EveryStageSettles` says "confirmed or exhausted"; a
live answer that is sent twice recovers the task; retry and handoff have different
locks and overlap; a retry whose removal of the old artifacts fails is undone and reported as
rolled back with part of them gone (`retry_flow.py:512-530`; `damaged`); a requeue keeps the delivered dialog of the earlier attempt; a task of a
chain that is requeued or continued between the plan of a deletion and its moves is deleted
while it is active, although `docs/USER_GUIDE.md:385-387` says such a chain is rejected. They
are among the hazards of `PROJECT.json`, with the reason why no property claims more.
In `Installation`: a process that dies in its maintenance leaves the marker, which refuses
every later maintenance; an installation that dies between its profile and its first
containers can be neither removed nor repeated; an update that dies after its receipt and
before it removes `previous-venv` is refused from then on; a commit that fails after the
journal was dropped leaves `repair_required` with nothing to resume; an uninstall after a
failed rollback backs up what is half restored (the journal's backup stays); a setup after
`runner stop` leaves `runner.closed`. The repository promises nothing else there. An update that
fails reports "previous installation restored" (`docker_install_update.py:100`) although a skill
the user had declined, of which the backup has no copy, stays at the candidate's version
(`docker_install_update.py:156-161`).
In `ExecutorSession`: Codex publishes the status of an approval request before its result
and the result of a failure before its status, so that a poll in between finds a request
whose result is a failure, and the task fails, although `run_lease.py:124-126` calls such a
loss recoverable (so `EarnedInSession` excepts a Codex server that dies on its request);
Hermes sets a status before its result, and a completed turn polled in between becomes
`needs_recovery`; the wait of a Hermes task suspends the lease on disk only, the next
heartbeat makes it active again, and the task becomes `needs_recovery` when its worker exits
before the lease is closed, although `executors/hermes.py:1290-1291` says the task stays
waiting; Hermes closes its lease before its transport (so `WriterGoneFirst` is about Codex);
the hidden response to a `turn/interrupt` makes a transport failure of a cancellation; a
completed Codex turn whose archive is not acknowledged becomes `needs_recovery`.
In `CommandRun`: `_finalize_run_lease` keeps a lease stale over a writer that may live "so
nothing claims a still-live writer was stopped" (`executors/opencode.py:949-951`), and the
Runner closes the stale lease when the worker exits (so `LeaseAfterChild` is about the time
before); OpenCode's process group outlives a cancel or a death of its worker; an exception of
OpenCode's run marks its lease stale before the heartbeat is stopped, and a last beat makes it
active again; a callback that asks the user is accepted over a live writer; a helper that holds
the output makes Codex's completed run a failed start; Claude and Hermes kill only the child.

### Bounds

- Actors: the races are between one unlocked Core pass and one locked pass; further
  coordinators only queue for the lock. Stages: two are enough for one stage to
  stand before and one after a failure, with both kinds (deferred or Core-owned,
  and uncertain). The races do not depend on the number of attempts, so they use 2;
  the code's 3 are in `delivery_single`.
- `MaxOutcomes = 2`: the receipt of one outcome against the next. Requeues are not
  bounded.
- `MaxCrashes`, `MaxDeaths`, `MaxRestarts`, `MaxAborts` bound faults; each is a single fault in
  every state it can strike. In `TaskLifecycle`, `MaxCrashes` counts the writes of a dispatch that
  fail, too; a process that gets a SIGTERM dies of it without being counted.
- Workers: two are needed for an old run against a new one. A worker runs once, so the
  number also bounds dispatches. In `elevation_safe` four allow a first run, its
  continuation, a requeue and one more.
- Cleanup: two processes are needed for two passes at once, two sessions for a pass that
  is at one with a stale copy of the other, three for a family with a middle. Two
  attempts tell the first from the last; the family has the code's three. Two runs let
  a retry begin a new generation.
- Deletion: two iterations make a chain of which one part runs; two chains let the code be
  given away; two faults are a failing operation and a failing rollback. Three of the
  four kinds of directory are enough for one to be moved, one being moved and one not.
- Revival: two users race; three attempts allow a retry of a retry; two children show a
  second successor. One fault and one crash are a retry that fails, and the death of the
  command that undoes it, which is where `FreshStart` has its exception; the theorems have any
  number of both. The symmetry of the users is sound because they have no identity
  but the locks they hold.
- Elevation: four workers are a first run, its continuation and two requeues; the second
  answer is a replay of the first. `RunningIsLeased` says nothing of the second requeue of a
  task that asked: `verify_task_elevation` of an earlier run may come late and fail the
  requeued task, a replayed live answer may recover it, in both cases while its next worker
  is between its claim and its launch, and the second requeue then dispatches another one.
  TLC finds both histories when the premise is dropped.
- Spool: two calls let a listing hold one while another is taken; two Runner processes,
  one signal and one death are every way two of them meet at a request.
- Installation: two versions make an old and a candidate. Two mishaps let the rollback of
  a failed update fail or die in its turn. `Overtaken = {"uninstall"}`: of the commands that
  load the profile before they wait for the lock, the others are refused by the same check,
  but for setup, which is not checked and with which `VersionsAgree` fails (a hazard at
  `docker_install.py:91`). In the native half one skill root is enough, since
  every property is about each root; `MaxTroubles = 2` lets an error lead to a rollback that
  fails or dies, and `Known` has the old version among the fingerprints of the new one.
- Session: two requests let one follow an answered one; two faults are a lost notification
  and a death, or a torn publication and the death that follows.
- Command: four events are a marked turn that stops, with one event before or after it of each
  kind that spoils it, and an error with its recovery beside a marker that stops. One helper of either
  kind keeps the group alive or the output open.
- Deadlock is not checked: a task that is finished, delivered or deleted, or that
  has used up its dispatches, has nothing left to do.

### Fairness

- `TerminalDelivery`: a started pass goes on and maintenance comes round.
  The Runner's loop repeats its maintenance cycle for ever and sleeps between
  cycles. Strong fairness of `Advance(a)` and `Tick` stands for this: a process
  blocked in `flock` gets the lock in one of the pauses, and the clock moves in
  them. Handlers may fail for ever.
- `TaskLifecycle`: weak fairness of a worker's own steps, of the Runner's thread that
  waits for a child, of the maintenance that reconciles leases, of a dispatch once its process was
  started, and of a started command. Weak fairness of `Work(w)` contains an assumption about the environment:
  an executor ends some time. The code sets no limit on a run's length at the worker
  (adapters have their own). No fairness is assumed of heartbeats, dispatches,
  users, crashes or signals.
- `SessionCleanup`, `CodexCleanup`: a pass that has the lock goes on and executors answer
  within their timeouts (weak); maintenance gets the lock again and again, although other passes
  take it in between, and time passes between passes (strong).
- `ChainDeletion`: a started command goes on, and the user repeats one that was cut short
  (weak). Faults are bounded.
- `Elevation`: weak fairness of workers, SDK threads, the thread that reaps a worker, the
  clock, and the Runner's maintenance every ten seconds; an executor ends some time. No
  user has to answer, nothing dispatches.
- `RunnerSpool`: a Runner that was started goes on (weak fairness of `Acquire` and
  `Serve`). Nobody has to start one, to wait for an answer, or to stop.
- `Installation`: an operation that neither fails nor dies goes on (`Work`, weak). The
  operator repeats the recovery that the receipt asks for, `recover_docker rollback` or the
  uninstall: strong, for it is refused while another operation has the lock or a task is
  open. Errors and deaths are bounded. `NativeUpdate` assumes the same of the runs that do
  not look inside, and nothing of an update.
- `ExecutorSession`: weak fairness of the threads, of a live server that has requests to
  answer, and of the reconciliation. No turn has to end, no user has to answer, and the
  watchdog that kills a cancelled worker is not counted on.
- `CommandRun`: weak fairness of `executor.start` (`Proceed`), the adapter's deadline
  included; no child and no helper has to end.
- `ClaudeSession`: weak fairness of its threads and of the clock behind a request's
  deadline and the safety timeout (`timeout_s`). The agent need not end its turn, the user
  not answer, Runner not expire the wait.
- `RunSettles` excludes runs a restarted Runner forgot: if such a worker dies before it
  opens its lease or after it closes it, the model shows no one who notices
  (a hazard in `PROJECT.json`).

### Mutants

Every property of a passing run has a mutant: a variant of a modelled definition,
such as a dropped guard or a forgotten assignment, that stands before it in the module
with a comment, and under which TLC finds the property violated. The variants are
used nowhere else.

## 4. The proofs

Assumptions: `DeliveryAssumption` (the stages are distinct; limits and backoffs are
positive; Core has no handler for a stage that reports uncertainty),
`LifecycleAssumption`, `ElevationAssumption`, `RevivalAssumption`, `SpoolAssumption` and
`InstallationAssumption` (the absent worker, user, call or version is none; bounds are
natural numbers), `CleanupAssumption` (sessions are distinct names, a pass belongs to a process, limits and
backoffs are positive), `FollowedAssumption` (a task followed inside is Codex's), `DeletionAssumption` (the
directories of a chain are distinct and at least one), `JournalAssumption` (an absent journal is none) and `NativeAssumption` (the newest release is a
version). Nothing else is
assumed of the constants, but for `OneVersion`, `DataMigrateUnderJournal`, `DeletionReceiptsTrue` and
`DeletionCodeNeverShared` (see there): any
number of actors, stages, attempts, workers, faults, versions, tasks.

`TerminalDelivery_proofs`
- `TypeCorrect`, `NoFalseConfirmation`, `ReservationNeverDurable`, `SoleReceiptTrue`, `SoleNeverRepeats`.
- `ConfirmedWasDelivered` is not inductive: what is written to disk is a copy a
  pass made earlier. The invariant `IInv` states the same of *every* copy
  (`Sound(receipt)` and `Sound(work[a])` for each actor: nothing reserved, nothing
  confirmed without a recorded delivery) together with the type and the fact that
  passes work on a real receipt (`ReceiptExists`). It survives the
  unlocked races because the delivery history only grows (`SoundGrows`): a stale
  copy may know less, never something false. `SettleFacts` says what a handler's
  result makes of an entry, `StageRunIInv` and `PersistIInv` are the steps that
  change and publish copies.
- `SoleReceiptTrue`, `SoleNeverRepeats`: `ReceiptTrue` and `ConfirmedNeverRepeated` are
  broken by overlapping passes (the run `delivery_race` reaches both), so they are
  proved of the behaviours in which at most one actor is in a pass at a time
  (`[]OneAtATime`): any number of actors that take turns, and crash, not only the one actor of
  the run `delivery_single`. The invariant `SoleInv` says what then ties the copy of the
  one pass to the disk: it began from what the disk holds and differs from it only in the
  stages it has already run (`Following`), a stage once confirmed on disk stays so
  (`Remembered`), and every handler run is counted in the receipt but for one per crash.

`Runner_proofs`
- Of the lifecycle: `TypeCorrect`, `LeaseNeverStrands`, `CallbackSuperseded`, `WaitIsAnswerable` (together
  `StatusIsBacked`),
  and the action properties `PointerKept` (`LivePointerKept`) and `ResultStands`.
- The argument follows the design: since handlers do not exclude each other, each one
  must turn *any* sound record into a sound record. One lemma per operator says so
  (`RecoverSound`, `FailSound`, ...); the invariant is `ActorsTyped /\ RecordSound`,
  and the steps are split by actor (`WorkRecordSound`, `DispatchRecordSound`,
  `RunnerRecordSound`, `UserRecordSound`). The request of a waiting task needs the
  weakening "or a close was aborted" because an expiry under a reserved close spends
  the request and leaves the status.
- `PointerKept` needs `LaunchInv` beside it: while a dispatch is under way the record points to
  its worker or to none, and one that gives up a live worker whose process id is recorded has
  sent it a SIGTERM. `Launchless` is what all the steps that start nothing do to it: they leave
  the pointer or take it away, and forget a SIGTERM only with the worker's end.
- Of the spool: `AnsweredTruthfully`, `GivenUpNeverRun`, `SpoolTypeCorrect`.
- The pid files do not matter for it. `RunnersSound` says that a request in a Runner's
  hands is taken, that no other Runner has it, and what the Runner knows of it; moving the
  file (`TakeSound`) is the only way to get one, and only from the spool, where nobody has
  it. `CallsSound` says what the files and the command of a call tell of its execution, and
  `GivenUpIsLate` that a command gives up after the expiry the Runner looks at.

`SessionCleanup_proofs`
- `CleanupIsLedger` (`KeepsLedger`): every step of `CodexCleanup`, and so of `SessionCleanup`,
  is a step of `IntentLedger` or leaves it alone. `LedgerStutters`, `LedgerIntends`,
  `LedgerCalls`, `LedgerCloses` and `LedgerRenews` say which of its actions a step is by what
  it does to the receipts and calls of the sessions that are not Codex's; each step of a pass
  then names its case. `CleanupResolvedIsFinal`, `CleanupRetryWaits`,
  `CleanupDescendantsFirst`, `CodexDeletionEarned`, `CleanupTypes`.
- A pass works on a record it read earlier and writes the whole of it, while a retry may
  begin the next attempt and no lock is common to both. The invariant `SInv` says why nothing
  is lost: the receipts a pass carries are those on disk, or a retry came in between, and
  then the pass has nothing left to write, for the retry waited until every receipt was
  resolved (`Carried`); a session that is being called has a pending receipt, so that no retry
  comes in between at all, and the record of its pass is the one on disk (`PassSound`).
  In a family the list of a pass says what is deleted already (`OnList`). The limit of the
  attempts is kept for the executors other than Codex's only (`RequestMoves`): an
  acknowledgement of the user or a repaired scope takes up a Codex receipt at its limit again.
- The two specifications share their steps: `Step` is what both do (`NextIsStep`,
  `CodexNextIsStep`), with any answer an executor may give and any change of the route; one
  lemma per action (`RequestSound`, `ApplySound`, `RetrySound`, ...) proves all of the above at
  once.
- `CodexDeletionEarned` (`DeletionEarned`): `Earned` follows a call from the acknowledgement,
  which may be cached by the broker or be the user's, to the deletion and the verdict.
- TLC checked `SInv` and `Earned` on both cleanup instances (1.7 and 0.4 million states)
  before they were proved.

- `LedgerBounded`, `LedgerClosedIsFinal`: whoever keeps the ledger (`KeepsLedger`), with any set
  of items and any limit, makes at most `Limit` calls for an item of one generation, each with
  an intent on record, and none for an item whose outcome is known. They are proved of the
  ledger's steps alone (`LedgerSteps`); with `CleanupIsLedger` they give the bound of the
  cleanup's external calls, `CleanupCallsBounded`, and `CleanupClosedIsFinal`.

`ChainDeletion_proofs`
- `DeletionTypes`, for any number of commands. `DeletionReceiptsTrue`,
  `DeletionCodeNeverShared` (`ReceiptsTrue`, `CodeNeverShared`) for one command at a time,
  `OneCommand`, which crashes and is repeated as often as one likes: with two of them TLC finds
  a lost record in 23 steps.
- What is on the disk says little in the middle of a transaction; `IInv` says what it means.
  `StoreSound`: all that the directories hold is of the chain that has the code now
  (`Latest`), and without a pending transaction they are all there or none is. `TransactionSound`:
  the only pending transaction has files of that chain and a plan of all its directories, and
  a committed one only files with a receipt. `CommandSound`: a rollback has put back every
  directory it has passed, which is why the transaction it removes is empty, and a commit finds
  the directories gone and the receipt written.
- `ReceiptStands` needs `Unbroken`: until an operation fails, a chain with a receipt has left
  every directory and no command is at a place from which it could come back. A new chain may
  then take the code, and `Latest` forgets the old one.
- TLC checked `IInv` on the instance of `deletion_safe` (1 million states) before it was
  proved.

`Elevation_proofs`
- `FullPermissionIsApproved`, `OneDialogPerTask`, `AnswersNeverDiffer`, `OneExecutorLeased`,
  `TypeCorrect`, in both flows.
- The invariant says of the task record alone what its parts have to do with each other
  (`Sound`: permission is granted only under an approval; `Kept`: an answer stands and a
  request is made only once), and each operator on the record keeps it, whoever calls it. `AnswerOnItsWay`
  ties the Runner's request to the record between the steps of a live answer,
  `DialogKnown` the number of dialogs to the record.
- `Serial` is the invariant behind the last two. `OneAtWork` says that whoever is spawned,
  claims the task or runs an executor is the last worker dispatched, and that the lease is
  its own; a dispatch sees the lease but no spawned worker, so `NoneOvertaken` says that the
  status of the task shows where its worker is. Each holds for as many requeues as the code
  supports (`Calm`, `Orderly`); `AnswerForAsker`, which `AnswersAgree` needs, holds for any
  number: what is on its way to the control plane is for the request of the worker that
  asked. TLC checked `Serial` with 4 workers before it was proved.

`Revival_proofs`
- `OneSuccessorPerHead`: `LockInv` says that, as long as no lock was broken, the holder of
  the handoff lock is alone in the critical section and what it saw of the children is
  still true. `ReservationOwned`: `OwnerInv` says who will close an open reservation.
  `TypeCorrect` needs `TypeInv`, which keeps room for the attempt a retry under way will
  make.
- `EvidenceAlwaysKept`, `RetryStartsFresh` (`EvidenceKept`, `FreshStart`): `KeptInv` follows
  a retry from file to file. The flock makes it the only one with something aside
  (`Apart`). While nothing crossed it, the record is the one it wrote (`Held`), which is
  what keeps the worker, another retry and the report of a handoff away; so what it moved
  away left an empty place (`Cleared`), nothing of another attempt is in a place or aside
  (`InPlace`, `Kept`, `Archived`), and the evidence of the attempt is in one of them
  (`Evidence`). A retry whose removal failed is undone *late*, with the new attempt on record:
  `Standing` is the attempt the files are about then. If the command dies there, the files of
  both attempts meet, so "nothing of another attempt" weakens to "of no later one" once a
  removal failed and a command died (`Orderly`, `Of`). There is one lemma per step; that undoing does not overwrite what it
  cannot restore is `UndoFilesKept`.

`Installation_proofs`
- `ReceiptOwns`, `RecordsNeverLost`, `OneVersion`, `DataMigrateUnderJournal`, `TypeCorrect`;
  of `NativeUpdate`, `NativeIsInstallation`, `NativeTypeCorrect` and `UpdateTellsTheTruth`.
- `Place` and the lemmas about it say where each step stands in which plan; everything else
  refers to places, so that no leaf expands a plan.
- `TInv` adds to the type what an operation has in hand at its place (`Equipped`): a
  rollback has its journal, an update its backup.
- `OInv`: `OwnedByReceipt` is not inductive, for an operation that goes on must belong to
  the receipt it found. `Holding` says which receipt an operation under way has, `Removing`
  what is gone at which place of an uninstall or an undo, `Rooted` that skills and login
  item do not outlive the profile, and that what can be used or resumed has one.
- `RInv`: a record is in the volume, in the journal's backup or archived. That is kept by a
  restoration only because the journal's backup holds everything the volume held when no
  task may begin any more (`Journaled`), and by a removal of records only because the
  backup was made in the same maintenance (`Underway`). Faults need nothing of their own:
  they change only the place and the receipt's state, and leave the journal as long as the
  volumes are not restored.
- `VInv`, for `VersionsAgree` and `MigratedUnderJournal`: `Pieces` says what the receipt tells of
  the versions of everything else (an installation without a journal has one version, a
  journal names what the old one was and the old environment can be found), `Progress` how
  much of it is of an operation's version at its place. `After` states the effect of the step
  at each place once, so that one lemma per half (`StepPieces`, `StepProgress`) serves every
  step but `Save`, `Claim`, `Commit` and `Forget`. The skill is of the version, or it was declined;
  `SkillAfter` says what a step makes of both. Both theorems suppose `"setup" \notin
  Overtaken`: with a setup that waits for the lock and is not checked afterwards the
  properties are false, which is the hazard at `docker_install.py:91`. TLC checked `VInv`
  before it was proved, without `declined` on 3 versions, 3 mishaps and every other command
  waiting (14.5 million states).
- `NativeUpdate` refines `Installation` by construction of its steps but not by name:
  `NativeIsInstallation` shows it, and so the theorems above hold of `NSpec` too. `UInv`, for
  `UpdateToldTrue`, says what the lock is worth (`Alone`: from the lock on nobody installs or
  leaves, the old environment stays, the link is where the update put it) and what it is not:
  setup, the Runner and the user's editor do not take it, so that what was verified is kept
  only up to what they do with the link as it is (`Done`). `Unlinked` is the order of the
  uninstall's payload. TLC checked `UInv` on the instance of `install_safe` before it was
  proved.

`ClaudeSession_proofs`
- `StatusIsEarned`, `WriterDoneFirst`, `AsksOnce` (`EarnedInSession`, `NoWriterInSession`,
  `OneElevation`), `SessionTypes`, for any number of requests, faults and tool calls and any choice of
  adapters; `DeclaredWhole`, for outputs of any length.
- A status, a result, a lease and a task are written by different threads, and read one by
  one by the worker's loop, so what each says of the server, the child or the agent holds
  only from some place of some thread on. `SessionInv` is one invariant for each kind of run:
  `LiveInv` (`Written`: a failure beside a wait is that of a request whose server died;
  `GivenUp`: a task waits, and a lease is suspended, only at a request or after the turn;
  `Archives`: what the Codex thread has behind it), `CommandInv` (`CommandPlaces`: where in
  `executor.start` which child may be; `CommandTold`: a closed lease has no writer), and
  `SdkInv` (`OneAsks`: a second request meets a dead plane; `Heard`: what the waiting thread
  heard is what the plane holds; `AnswerComes`: a request nobody waits for is no wait).
  `RunStays` says that a run keeps its kind, and one lemma per action and kind
  (`LiveReceive`, `CommandCollect`, `SdkTellPlane`, ...) that the action keeps its invariant.
- `LiveInv` claims its parts only as long as no close is reserved: a close kills the server
  wherever the threads are. `TerminalByTurn` and the types hold beside it too.
- That a completed command said so as a whole (`CommandSaid`) rests on `DeclaredWhole`, which compares what
  the counters of `_gate_protocol` compute over the output with `Whole`. `Recursion` shows that the
  recursive functions `LastTurn` and `PendingError` exist, and `Upward` is the induction over
  their length. Both are proved from the pigeonhole principle of the library, whose
  induction rule cannot be used: were the first element at which the induction fails above
  the base, each failing element below it had a failing predecessor, which maps them
  injectively into one fewer.
- TLC checked the three invariants before they were proved (SDK sessions 719000 states,
  commands 10000, live sessions 465000).

Only model-checked: liveness, which is out of the prover's reach (`RunEnds`,
`SpoolDrains` and the other properties with `~>` or fairness), and the properties that the
code breaks (the findings).

## 5. Not modelled

Of the executor adapters: the session bundles and verification events of Claude's SDK, Hermes through the
Runner, and what the protocols carry; the approvals of protocol version 2, the
permission tables and validators; notifications, reports,
records, boards, web and doctor; the dialog and configuration of setup, the bridges and
path mappings of the Docker edition. The reasons are in `PROJECT.json`. Three hazards of what *is* modelled are hidden by the atomicity of
handlers in `TaskLifecycle` and `Elevation`: lost updates between the read and the write
of two handlers, the check-then-write of `acquire_lease`, and a crash between CLOSING
and CLOSED.

## 6. Plan

Done: `TerminalDelivery`, `TaskLifecycle`, `Elevation`, `Revival`, `RunnerSpool` and
`Installation` with their proofs; `SessionCleanup` with `CodexCleanup`, the refinement of `IntentLedger` and their
proofs; `ChainDeletion` with its proofs; `NativeUpdate`; `ExecutorSession`
with `CommandRun` and `ClaudeSession` and their proofs. In this order:

1. `TaskRace`: `start_task_run` against another handler with the read and the write
   as separate steps, `acquire_lease` split, CLOSING as a state of its own.
   Properties: one claim per lease; which updates may be lost.
2. Abstract specifications: `TaskOutcome` (a task has one standing outcome, replaced
   only by the allowed transitions), refined by `TaskLifecycle`; `DeliveryPromise`
   (at least one try per stage, confirmation only after delivery), refined by
   `TerminalDelivery`.
3. The auxiliary sessions of a Codex collaboration
   (`auxiliary_sessions.py`) in `SessionCleanup`; the grants of protocol version 2.
