---------------------------- MODULE Installation ----------------------------
(***************************************************************************)
(* The managed installation of one user: install, update with rollback,    *)
(* setup, runner and webui commands, and uninstall of the Docker edition,  *)
(* beside a native installation (installation.py, installation_native.py,  *)
(* docker_install*.py).                                                    *)
(*                                                                         *)
(* A receipt says who is installed and in which state; an update and an    *)
(* uninstall keep their journals in it.  Operations that change anything   *)
(* hold an exclusive file lock, which the kernel gives back when the       *)
(* process dies.  Each is a plan of steps on the host's files, the         *)
(* containers and the data volume, and it may fail or die between any two. *)
(*                                                                         *)
(* An image, a bundle, a virtual environment, a profile and an installed   *)
(* skill are represented by the version they belong to.  The skill is that *)
(* of one CLI; those of the others go the same way, each for itself.       *)
(***************************************************************************)
EXTENDS Naturals, Sequences

CONSTANTS
    Versions,       \* the versions of the offline bundles
    None,
    Tasks,          \* identities of tasks
    Overtaken,      \* host commands that may wait for the lock with a loaded profile
    MaxMishaps      \* bound: steps that raise an error, and processes that die

ASSUME InstallationAssumption ==
    /\ None \notin Versions
    /\ Overtaken \subseteq {"setup", "update", "uninstall", "stop"}
    /\ MaxMishaps \in Nat

VARIABLES
    receipt,    \* ~/.agentbc-install/installation.json
    disk,       \* what the managed root holds, and the skill in a CLI's home
    srv,        \* the containers
    bound,      \* the profile on disk names the containers there are
    login,      \* the supervisor's login item
    data,       \* the data volume: the version that ran on it last, and its tasks
    marker,     \* .agentbc-maintenance in the data volume
    native,     \* a native runtime is on the host
    looked,     \* the supervisor has read an installed receipt
    waiting,    \* a command that waits for the lock with the profile it loaded
    proc,       \* the operation that holds the lock
    seen,       \* history: the tasks there ever were
    archived,   \* history: tasks in the volumes and backups of earlier installations
    declined,   \* history: asked about the skill, the user said no
    mishaps

host == <<disk, login>>
docker == <<srv, bound>>
world == <<looked, waiting, seen, archived, declined, mishaps>>
vars == <<receipt, disk, srv, bound, login, data, marker, native, looked,
          waiting, proc, seen, archived, declined, mishaps>>

-----------------------------------------------------------------------------

NoReceipt == [type |-> "none", state |-> "none", update |-> None,
              remove |-> FALSE, kept |-> {}]
NoDisk == [profile |-> None, bundle |-> None, venv |-> None, prev |-> None,
           skills |-> None]
Services == {"runner", "webui"}
NoContainer == [image |-> None, up |-> FALSE]
NoServices == [runner |-> NoContainer, webui |-> NoContainer]
NoData == [by |-> None, task |-> [t \in Tasks |-> "none"]]

\* The steps of every operation, in the order of the code.  The steps before
\* "claim" leave no trace that a later operation would have to undo.
InstallPlan ==
    <<"claim", "bundle", "venv", "profile", "up", "bind", "skills", "login", "settle",
      "commit">>
UndoPlan == <<"off", "remove", "unskill", "root", "forget">>

\* (Mutation: the receipt is committed before the environment is exchanged.)
UpdateCommitsFirst ==
    <<"mark", "idle", "save", "claim", "off", "stop", "bundle", "up", "bind", "commit",
      "shelve", "venv", "skills", "login", "web", "rest", "tidy", "unmark">>
UpdatePlan ==
    <<"mark", "idle", "save", "claim", "off", "stop", "bundle", "up", "bind", "shelve",
      "venv", "skills", "login", "web", "rest", "commit", "tidy", "unmark">>

\* (Mutations: the volumes are not restored; they are restored after the start.)
RollbackWithoutData ==
    <<"off", "stop", "scrap", "unshelve", "rebundle", "reskill", "wipe", "up", "bind",
      "web", "login", "rest", "unmark", "commit">>
RollbackStartsFirst ==
    <<"off", "stop", "scrap", "unshelve", "rebundle", "reskill", "up", "bind", "wipe",
      "restore", "web", "login", "rest", "unmark", "commit">>
RollbackPlan ==
    <<"off", "stop", "scrap", "unshelve", "rebundle", "reskill", "wipe", "restore", "up",
      "bind", "web", "login", "rest", "unmark", "commit">>

SetupPlan ==
    <<"create", "bind", "mark", "idle", "claim", "up", "bind", "skills", "login",
      "settle", "commit", "unmark">>
StopPlan == <<"mark", "idle", "halt", "unmark">>

\* (Mutation: the receipt goes before the root.)
UninstallForgetsFirst ==
    <<"mark", "idle", "save", "claim", "off", "remove", "records", "unskill", "unmark",
      "forget", "root">>
UninstallPlan ==
    <<"mark", "idle", "save", "claim", "off", "remove", "records", "unskill", "unmark",
      "root", "forget">>

Plan ==
    [install   |-> InstallPlan,
     undo      |-> UndoPlan,
     update    |-> UpdatePlan,
     rollback  |-> RollbackPlan,
     setup     |-> SetupPlan,
     stop      |-> StopPlan,
     uninstall |-> UninstallPlan,
     purge     |-> <<"root", "forget">>,
     leave     |-> <<"unmark">>,
     native    |-> <<"claim", "payload", "commit">>,
     retire    |-> <<"claim", "payload", "forget">>]

Op == DOMAIN Plan
Steps(op) == Len(Plan[op])
Idle == [op |-> "none", at |-> 0, prof |-> None, to |-> None, inside |-> FALSE,
         remove |-> FALSE, saved |-> None]

Recorded == {t \in Tasks : data.task[t] # "none"}
Open == {t \in Tasks : data.task[t] = "open"}

\* The tasks in the backup that the journal of an update names.
BackedUp == IF receipt.update = None THEN {}
            ELSE {t \in Tasks : receipt.update.saved.data.task[t] # "none"}

\* The evidence of a Docker installation that discover and
\* discover_managed_docker look for; data volumes and backups do not count.
DockerEvidence == disk # NoDisk \/ srv # NoServices \/ login

Begin(op, prof) == proc' = [Idle EXCEPT !.op = op, !.at = 1, !.prof = prof]
Leave == proc' = [Idle EXCEPT !.op = "leave", !.at = 1]
Finish == proc' = Idle

\* A rollback inside an update ends with the update's maintenance block.
Advance ==
    proc' = IF proc.at < Steps(proc.op) THEN [proc EXCEPT !.at = @ + 1]
            ELSE IF proc.inside THEN [Idle EXCEPT !.op = "leave", !.at = 1]
            ELSE Idle

At(step) == proc # Idle /\ Plan[proc.op][proc.at] = step

-----------------------------------------------------------------------------
(* Containers.                                                             *)

\* verify_binding: the engine's containers are the ones the profile names.
Bound(prof) == bound /\ srv.runner.image = prof /\ srv.webui.image = prof

\* compose create: a container of another image is replaced by a new one.
Created(c, v) == IF c.image = v THEN c ELSE [image |-> v, up |-> FALSE]

Create(v) ==
    /\ srv' = [runner |-> Created(srv.runner, v), webui |-> Created(srv.webui, v)]
    /\ bound' = (bound /\ srv.runner.image = v /\ srv.webui.image = v)

\* A Runner that starts works on the data volume.
Touch(v) == data' = [data EXCEPT !.by = v]

SetUp(services, up) ==
    srv' = [runner |-> IF "runner" \in services THEN [srv.runner EXCEPT !.up = up]
                       ELSE srv.runner,
            webui  |-> IF "webui" \in services THEN [srv.webui EXCEPT !.up = up]
                       ELSE srv.webui]

-----------------------------------------------------------------------------
(* Beginning an operation.                                                 *)

\* docker_install.run: the profile is loaded, then the lock is awaited.
CanRun(op) ==
    /\ receipt.type = "docker"
    /\ disk.profile # None
    /\ disk.venv # None
    /\ op \in {"setup", "update", "uninstall", "stop"}

Await(op) ==
    /\ proc # Idle
    /\ waiting = None
    /\ op \in Overtaken
    /\ CanRun(op)
    /\ waiting' = [op |-> op, prof |-> disk.profile, same |-> TRUE]
    /\ UNCHANGED <<receipt, host, docker, data, marker, native, looked, proc, seen,
                   archived, declined, mishaps>>

\* What run checks once it has the lock, and the start of the operation.
Admitted(op, prof, same) ==
    /\ receipt.type = "docker"
    /\ receipt.state = "installed" \/ op \in {"uninstall", "setup"}
    /\ op = "setup" => receipt.update = None /\ data.by # None /\ Open = {}
    /\ op # "setup" /\ ~(op = "uninstall" /\ receipt.state = "uninstalling") =>
          Bound(prof) /\ same

\* An uninstall that is under way goes on after its journal.
Resume == IF receipt.state = "uninstalling" THEN 5 ELSE 1

Launch(op, prof, same) ==
    /\ Admitted(op, prof, same)
    /\ \/ op \in {"setup", "stop"} /\ Begin(op, prof)
       \/ /\ op = "update"
          /\ \E v \in Versions \ {prof} :
                proc' = [Idle EXCEPT !.op = op, !.at = 1, !.prof = prof, !.to = v]
       \/ /\ op = "uninstall"
          /\ receipt.state = "uninstalling" => Open = {}
          /\ \E r \in BOOLEAN :
                proc' = [Idle EXCEPT !.op = op, !.at = Resume, !.prof = prof, !.remove = r]

BeginCommand(op) ==
    /\ proc = Idle
    /\ CanRun(op)
    /\ Launch(op, disk.profile, TRUE)
    /\ UNCHANGED <<receipt, host, docker, data, marker, native, world>>

\* The command that waited gets the lock; it may be refused.
BeginWaiting ==
    /\ proc = Idle
    /\ waiting # None
    /\ waiting' = None
    /\ \/ Launch(waiting.op, waiting.prof, waiting.same)
       \/ /\ ~Admitted(waiting.op, waiting.prof, waiting.same)
          /\ proc' = Idle
    /\ UNCHANGED <<receipt, host, docker, data, marker, native, looked, seen,
                   archived, declined, mishaps>>

\* recover_docker rollback (docker_install_recovery.main, rollback_update).
\* (Mutation: a rollback that failed is not taken up again.)
ResumableOnce == receipt.update # None /\ receipt.state = "installing"
Resumable == receipt.update # None /\ receipt.state \in {"installing", "repair_required"}

BeginRollback ==
    /\ proc = Idle
    /\ Resumable
    /\ \A s \in Services :
          srv[s].image \in {None, receipt.update.old, receipt.update.candidate}
    /\ Open = {}
    /\ Begin("rollback", receipt.update.old)
    /\ UNCHANGED <<receipt, host, docker, data, marker, native, world>>

\* recover_docker uninstall, with or without a profile in the root.
BeginRecovery ==
    /\ proc = Idle
    /\ receipt.type = "docker"
    /\ IF disk.profile # None
       THEN /\ IF receipt.state = "uninstalling" THEN Open = {} ELSE Bound(disk.profile)
            /\ proc' = [Idle EXCEPT !.op = "uninstall", !.at = Resume, !.prof = disk.profile]
       ELSE /\ srv = NoServices
            /\ Begin("purge", None)
    /\ UNCHANGED <<receipt, host, docker, data, marker, native, world>>

\* transaction: preflight for a first installation.
BeginInstall(v) ==
    /\ proc = Idle
    /\ receipt = NoReceipt
    /\ ~DockerEvidence
    /\ ~native
    /\ Begin("install", v)
    /\ UNCHANGED <<receipt, host, docker, data, marker, native, world>>

BeginNative ==
    /\ proc = Idle
    /\ ~DockerEvidence
    /\ \/ receipt = NoReceipt /\ ~native /\ Begin("native", None)
       \/ receipt.type = "native" /\ Begin("retire", None)
    /\ UNCHANGED <<receipt, host, docker, data, marker, native, world>>

-----------------------------------------------------------------------------
(* Steps.                                                                  *)

\* maintenance: the marker is created exclusively.
Mark ==
    /\ At("mark")
    /\ IF marker THEN Finish ELSE Advance
    /\ marker' = TRUE
    /\ UNCHANGED <<receipt, host, docker, data, native, world>>

RequireIdle ==
    /\ At("idle")
    /\ IF Open = {} THEN Advance ELSE Leave
    /\ UNCHANGED <<receipt, host, docker, data, marker, native, world>>

\* backup, and the copies update makes; a leftover of an earlier update is refused.
Save ==
    /\ At("save")
    /\ IF proc.op = "update" /\ disk.prev # None
       THEN Leave
       ELSE proc' = [proc EXCEPT !.at = @ + 1,
                                 !.saved = [data |-> data, bundle |-> disk.bundle,
                                            skills |-> disk.skills]]
    /\ UNCHANGED <<receipt, host, docker, data, marker, native, world>>

Journal ==
    [old |-> proc.prof, candidate |-> proc.to, saved |-> proc.saved,
     runner |-> srv.runner.up, webui |-> srv.webui.up]

\* The receipt is written before anything of the installation is changed.
Claim ==
    /\ At("claim")
    /\ receipt' =
          CASE proc.op = "install" ->
                 [NoReceipt EXCEPT !.type = "docker", !.state = "installing"]
            [] proc.op = "native" ->
                 [NoReceipt EXCEPT !.type = "native", !.state = "installing"]
            [] proc.op = "setup" -> [receipt EXCEPT !.state = "installing"]
            [] proc.op = "update" ->
                 [receipt EXCEPT !.state = "installing", !.update = Journal]
            [] proc.op = "uninstall" ->
                 [receipt EXCEPT !.state = "uninstalling", !.remove = proc.remove,
                                 !.kept = {t \in Tasks : proc.saved.data.task[t] # "none"}]
            [] proc.op = "retire" -> [receipt EXCEPT !.state = "uninstalling"]
    /\ Advance
    /\ UNCHANGED <<host, docker, data, marker, native, world>>

\* register and the removal of the login item.
Login ==
    /\ \/ At("off") /\ login' = FALSE
       \/ At("login") /\ login' = TRUE
    /\ Advance
    /\ UNCHANGED <<receipt, disk, docker, data, marker, native, world>>

\* compose stop, docker rm.
Containers ==
    /\ \/ At("stop") /\ SetUp(Services, FALSE) /\ UNCHANGED bound
       \/ At("halt") /\ SetUp({"runner"}, FALSE) /\ UNCHANGED bound
       \/ At("remove") /\ srv' = NoServices /\ bound' = FALSE
       \/ At("create") /\ Create(proc.prof)
       \/ /\ At("web")
          /\ srv' = [srv EXCEPT !.webui.up = @ \/ receipt.update.webui]
          /\ UNCHANGED bound
       \/ /\ At("rest")
          /\ srv' = [srv EXCEPT !.runner.up = @ /\ receipt.update.runner]
          /\ UNCHANGED bound
       \/ /\ At("settle")
          /\ \E autostart \in BOOLEAN : srv' = [srv EXCEPT !.webui.up = autostart]
          /\ UNCHANGED bound
    /\ Advance
    /\ UNCHANGED <<receipt, host, data, marker, native, world>>

\* compose up runner, compose create webui, ready.
Up ==
    /\ At("up")
    /\ srv' = [runner |-> [image |-> proc.prof, up |-> TRUE],
               webui |-> Created(srv.webui, proc.prof)]
    /\ bound' = Bound(proc.prof)
    /\ Touch(proc.prof)
    /\ Advance
    /\ UNCHANGED <<receipt, host, marker, native, world>>

\* refresh_binding writes the profile; a profile that was loaded before names
\* other containers than the ones created since.
Bind ==
    /\ At("bind")
    /\ disk' = [disk EXCEPT !.profile = proc.prof]
    /\ bound' = TRUE
    /\ waiting' = IF waiting # None /\ ~bound THEN [waiting EXCEPT !.same = FALSE]
                  ELSE waiting
    /\ Advance
    /\ UNCHANGED <<receipt, srv, login, data, marker, native, looked, seen, archived,
                   declined, mishaps>>

\* entry_and_skills: an interactive setup asks about a skill that is not the current
\* one, and one that is declined stays as it is; an update does not ask.
EntryAndSkill ==
    \/ /\ disk' = [disk EXCEPT !.skills = disk.venv]
       /\ declined' = (declined /\ proc.op = "update")
    \/ /\ proc.op # "update"
       /\ disk.skills # disk.venv
       /\ declined' = TRUE
       /\ UNCHANGED disk

\* A skill of which the backup has no copy is not touched.
RestoreSkill ==
    LET saved == receipt.update.saved.skills
    IN  disk' = IF saved = None THEN disk ELSE [disk EXCEPT !.skills = saved]

\* The files of the root and the skill.
Files ==
    /\ \/ /\ At("bundle")
          /\ LET v == IF proc.op = "update" THEN proc.to ELSE proc.prof
             IN  /\ disk' = [disk EXCEPT !.bundle = v]
                 /\ proc' = [proc EXCEPT !.at = @ + 1, !.prof = v]
       \/ /\ \/ At("venv") /\ disk' = [disk EXCEPT !.venv = proc.prof]
             \/ At("profile") /\ disk' = [disk EXCEPT !.profile = proc.prof]
             \/ At("shelve") /\ disk' = [disk EXCEPT !.prev = disk.venv, !.venv = None]
             \/ At("scrap") /\ disk' = [disk EXCEPT !.venv = IF disk.prev = None THEN @ ELSE None]
             \/ /\ At("unshelve")
                /\ disk' = IF disk.prev = None THEN disk
                           ELSE [disk EXCEPT !.venv = disk.prev, !.prev = None]
             \/ At("tidy") /\ disk' = [disk EXCEPT !.prev = None]
             \/ At("skills") /\ EntryAndSkill
             \/ At("unskill") /\ disk' = [disk EXCEPT !.skills = None]
             \/ At("rebundle") /\ disk' = [disk EXCEPT !.bundle = receipt.update.saved.bundle]
             \/ At("reskill") /\ RestoreSkill
             \/ At("root") /\ disk' = [NoDisk EXCEPT !.skills = disk.skills]
          /\ Advance
    /\ ~At("skills") => UNCHANGED declined
    /\ UNCHANGED <<receipt, login, docker, data, marker, native, looked, waiting, seen,
                   archived, mishaps>>

\* The restoration of the volumes, and the removal of records on uninstall.  The
\* marker is among the records, and was there when the backup was made.
Volume ==
    /\ \/ At("wipe") /\ data' = NoData /\ marker' = FALSE
       \/ At("restore") /\ data' = receipt.update.saved.data /\ marker' = TRUE
       \/ /\ At("records")
          /\ IF receipt.remove
             THEN data' = [data EXCEPT !.task = NoData.task] /\ marker' = FALSE
             ELSE UNCHANGED <<data, marker>>
    /\ archived' = IF At("records") /\ receipt.remove THEN archived \cup receipt.kept
                   ELSE archived
    /\ Advance
    /\ UNCHANGED <<receipt, host, docker, native, looked, waiting, seen, declined, mishaps>>

Unmark ==
    /\ At("unmark")
    /\ marker' = FALSE
    /\ Advance
    /\ UNCHANGED <<receipt, host, docker, data, native, world>>

Payload ==
    /\ At("payload")
    /\ native' = (proc.op = "native")
    /\ Advance
    /\ UNCHANGED <<receipt, host, docker, data, marker, world>>

Commit ==
    /\ At("commit")
    /\ receipt' = [receipt EXCEPT !.state = "installed", !.update = None]
    /\ declined' = (declined /\ proc.op # "update")
    /\ Advance
    /\ UNCHANGED <<host, docker, data, marker, native, looked, waiting, seen, archived,
                   mishaps>>

\* The receipt is removed; another installation has other volumes.
Forget ==
    /\ At("forget")
    /\ receipt' = NoReceipt
    /\ IF receipt.type = "docker"
       THEN /\ archived' = archived \cup Recorded \cup BackedUp
            /\ data' = NoData
            /\ marker' = FALSE
       ELSE UNCHANGED <<archived, data, marker>>
    /\ waiting' = None
    /\ declined' = FALSE
    /\ Advance
    /\ UNCHANGED <<host, docker, native, looked, seen, mishaps>>

Work == \/ Mark \/ RequireIdle \/ Save \/ Claim \/ Login \/ Containers \/ Up \/ Bind
        \/ Files \/ Volume \/ Unmark \/ Payload \/ Commit \/ Forget

-----------------------------------------------------------------------------
(* Errors.                                                                 *)

Before(step) == \E i \in 1..Steps(proc.op) : Plan[proc.op][i] = step /\ proc.at < i
Upto(step) == Before(step) \/ At(step)

Spoil(update) == receipt' = [receipt EXCEPT !.state = "repair_required", !.update = update]

RollBack == proc' = [Idle EXCEPT !.op = "rollback", !.at = 1, !.inside = TRUE,
                                 !.prof = receipt.update.old]

\* An error before the maintenance marker is there, or where nothing handles it.
Abandon ==
    /\ \/ proc.op \in {"retire", "purge", "leave"}
       \/ proc.op \in {"install", "native"} /\ (At("claim") \/ At("commit"))
       \/ proc.op = "undo" /\ At("forget")
       \/ proc.op \in {"update", "setup", "stop"} /\ (Upto("mark") \/ At("unmark"))
       \/ proc.op = "uninstall" /\ (Upto("mark") \/ ~Upto("claim"))
       \/ proc.op = "rollback" /\ ~proc.inside
    /\ Finish
    /\ UNCHANGED receipt

\* An error inside the maintenance block, before or after the part that is undone.
Withdraw ==
    /\ ~Upto("mark")
    /\ \/ proc.op \in {"update", "uninstall"} /\ Upto("claim")
       \/ proc.op = "update" /\ At("tidy")
       \/ proc.op = "setup" /\ (At("idle") \/ At("commit"))
       \/ proc.op = "stop" /\ ~At("unmark")
    /\ Leave
    /\ UNCHANGED receipt

\* An error after the claim: the installation is undone, the update rolled back.
Undo ==
    /\ ~Upto("claim")
    /\ \/ proc.op = "install" /\ ~At("commit") /\ Begin("undo", proc.prof)
       \/ proc.op = "update" /\ Upto("commit") /\ RollBack
    /\ UNCHANGED receipt

\* An error that leaves repair_required behind; a commit that fails has already
\* dropped the update's journal.
Break ==
    \/ /\ \/ proc.op = "undo" /\ ~At("forget")
          \/ proc.op = "native" /\ At("payload")
       /\ Spoil(None) /\ Finish
    \/ proc.op = "setup" /\ ~Before("claim") /\ Before("commit") /\ Spoil(None) /\ Leave
    \/ proc.op = "update" /\ At("commit") /\ Spoil(None) /\ Leave
    \/ /\ proc.op = "rollback" /\ proc.inside
       /\ Spoil(IF At("commit") THEN None ELSE receipt.update)
       /\ Leave

\* A step raises an error: no space, Docker not reachable, an interrupt.
Fault ==
    /\ proc # Idle
    /\ mishaps < MaxMishaps
    /\ mishaps' = mishaps + 1
    /\ Abandon \/ Withdraw \/ Undo \/ Break
    /\ UNCHANGED <<host, docker, data, marker, native, looked, waiting, seen,
                   archived, declined>>

\* The process dies; the kernel gives the lock back.
Crash ==
    /\ proc # Idle
    /\ mishaps < MaxMishaps
    /\ mishaps' = mishaps + 1
    /\ proc' = Idle
    /\ UNCHANGED <<receipt, host, docker, data, marker, native, looked, waiting, seen,
                   archived, declined>>

\* The host goes down; containers are not restarted by Docker.
Reboot ==
    /\ mishaps < MaxMishaps
    /\ mishaps' = mishaps + 1
    /\ proc' = Idle
    /\ waiting' = None
    /\ looked' = FALSE
    /\ SetUp(Services, FALSE)
    /\ UNCHANGED <<receipt, host, bound, data, marker, native, seen, archived,
                   declined>>

-----------------------------------------------------------------------------
(* The surroundings: the supervisor, and commands of one step.             *)

Installed == receipt.type = "docker" /\ receipt.state = "installed"

\* supervise reads the receipt outside the lock ...
Look ==
    /\ login
    /\ Installed
    /\ ~looked
    /\ looked' = TRUE
    /\ UNCHANGED <<receipt, host, docker, data, marker, native, waiting, proc, seen,
                   archived, declined, mishaps>>

\* ... and starts services under it, after a login or a Docker outage the Runner too.
Supervise ==
    /\ looked
    /\ looked' = FALSE
    /\ \/ /\ proc = Idle
          /\ disk.profile # None
          /\ Bound(disk.profile)
          /\ \E services \in SUBSET Services \ {{}} :
                /\ SetUp(services, TRUE)
                /\ IF "runner" \in services THEN Touch(srv.runner.image) ELSE UNCHANGED data
       \/ UNCHANGED <<srv, data>>
    /\ UNCHANGED <<receipt, host, bound, marker, native, waiting, proc, seen, archived,
                   declined, mishaps>>

\* runner start; webui start and close.
Switch ==
    /\ proc = Idle
    /\ Installed
    /\ CanRun("stop")
    /\ Bound(disk.profile)
    /\ \/ SetUp({"runner"}, TRUE) /\ Touch(srv.runner.image)
       \/ \E up \in BOOLEAN : SetUp({"webui"}, up) /\ UNCHANGED data
    /\ UNCHANGED <<receipt, host, bound, marker, native, proc, world>>

\* A task command in the container, under the shared lock.
CreateTask(t) ==
    /\ proc = Idle
    /\ Installed
    /\ CanRun("stop")
    /\ Bound(disk.profile)
    /\ srv.runner.up
    /\ ~marker
    /\ t \notin seen
    /\ seen' = seen \cup {t}
    /\ data' = [data EXCEPT !.task[t] = "open"]
    /\ UNCHANGED <<receipt, host, docker, marker, native, looked, waiting, proc, archived,
                   declined, mishaps>>

EndTask(t) ==
    /\ srv.runner.up
    /\ data.task[t] = "open"
    /\ data' = [data EXCEPT !.task[t] = "ended"]
    /\ UNCHANGED <<receipt, host, docker, marker, native, proc, world>>

-----------------------------------------------------------------------------

Init ==
    /\ receipt = NoReceipt
    /\ disk = NoDisk
    /\ srv = NoServices
    /\ bound = FALSE
    /\ login = FALSE
    /\ data = NoData
    /\ marker = FALSE
    /\ native = FALSE
    /\ looked = FALSE
    /\ waiting = None
    /\ proc = Idle
    /\ seen = {}
    /\ archived = {}
    /\ declined = FALSE
    /\ mishaps = 0

Next ==
    \/ \E op \in {"setup", "update", "uninstall", "stop"} : Await(op) \/ BeginCommand(op)
    \/ BeginWaiting
    \/ BeginRollback
    \/ BeginRecovery
    \/ \E v \in Versions : BeginInstall(v)
    \/ BeginNative
    \/ Work
    \/ Fault
    \/ Crash
    \/ Reboot
    \/ Look
    \/ Supervise
    \/ Switch
    \/ \E t \in Tasks : CreateTask(t) \/ EndTask(t)

Spec == Init /\ [][Next]_vars

\* A process that was not killed goes on, and the operator repeats the recovery
\* the receipt asks for.
Fairness ==
    /\ WF_vars(Work)
    /\ SF_vars(BeginRollback)
    /\ SF_vars(BeginRecovery /\ receipt.state = "uninstalling")

FairSpec == Spec /\ Fairness

-----------------------------------------------------------------------------
(* Properties.                                                             *)

AtRest == proc = Idle

Compositions == [runner : [image : Versions \cup {None}, up : BOOLEAN],
                 webui : [image : Versions \cup {None}, up : BOOLEAN]]
Volumes == [by : Versions \cup {None}, task : [Tasks -> {"none", "open", "ended"}]]
Copies == [data : Volumes, bundle : Versions \cup {None}, skills : Versions \cup {None}]
Journals == [old : Versions, candidate : Versions, saved : Copies,
             runner : BOOLEAN, webui : BOOLEAN]

\* The receipt without a journal cannot be mistaken for one with a journal.
ASSUME JournalAssumption == None \notin Journals

Processes == [op : Op, at : 1..18, prof : Versions \cup {None},
              to : Versions \cup {None}, inside : BOOLEAN, remove : BOOLEAN,
              saved : Copies \cup {None}]
Receipts == [type : {"none", "docker", "native"},
             state : {"none", "installing", "installed", "uninstalling",
                      "repair_required"},
             update : Journals \cup {None},
             remove : BOOLEAN,
             kept : SUBSET Tasks]
Disks == [profile : Versions \cup {None}, bundle : Versions \cup {None},
          venv : Versions \cup {None}, prev : Versions \cup {None},
          skills : Versions \cup {None}]

TypeOK ==
    /\ receipt \in Receipts
    /\ disk \in Disks
    /\ srv \in Compositions
    /\ data \in Volumes
    /\ bound \in BOOLEAN /\ login \in BOOLEAN /\ marker \in BOOLEAN
    /\ native \in BOOLEAN /\ looked \in BOOLEAN /\ declined \in BOOLEAN
    /\ waiting \in [op : Overtaken, prof : Versions, same : BOOLEAN] \cup {None}
    /\ proc = Idle \/ (proc \in Processes /\ proc.at <= Steps(proc.op))
    /\ seen \subseteq Tasks
    /\ archived \subseteq Tasks
    /\ mishaps \in 0..MaxMishaps

\* An installation that calls itself installed is of one version: profile, bundle,
\* environment, both containers, the data and the skill, whatever died or failed in the
\* update, rollback or setup before (docker_install_update.update, rollback_update).  A
\* skill the user declined is left as it is, and the installation is committed all the
\* same (docker_install.entry_and_skills); of that one nothing is said.
VersionsAgree ==
    AtRest /\ Installed =>
        \E v \in Versions :
            /\ disk.profile = v /\ disk.bundle = v /\ disk.venv = v
            /\ declined \/ disk.skills = v
            /\ Bound(v)
            /\ data.by = v

\* No record of a task is lost: it is in the data volume, or in the backup that the
\* journal of an update will restore, or was kept when the installation was removed
\* (docker_install_maintenance.backup, uninstall; rollback_update).
RecordsKept == seen \subseteq Recorded \cup BackedUp \cup archived

\* Whatever of an installation is on the host belongs to the receipt, so that the other
\* type is refused until the last piece is gone (installation.preflight, transaction;
\* uninstall removes the receipt last).
OwnedByReceipt ==
    /\ DockerEvidence => receipt.type = "docker"
    /\ native => receipt.type = "native"

\* A Runner of another version gets the data only while a journal names a backup of
\* them as they were before (update journals before it starts the candidate; rollback
\* restores the volumes before it starts the old image).
MigratedUnderJournal ==
    [][data'.by # data.by /\ data.by # None /\ data'.by # None =>
          receipt.update # None /\ receipt.update.saved.data.by = data.by]_vars

\* An update that was interrupted does not stay so: its journal is taken up by the
\* rollback, however often that is interrupted itself (rollback_update resumes).
JournalSettles == []<>(receipt.update = None)

=============================================================================
