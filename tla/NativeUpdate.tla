----------------------------- MODULE NativeUpdate -----------------------------
(***************************************************************************)
(* The native installation from inside: agentbc update as one transaction  *)
(* over the CLI link, the staged environment, the skills, the Runner and   *)
(* the WebUI, with its rollback, and the payload of the uninstall          *)
(* (update.py, setup.py, skill_packages.py, installation_native.py,        *)
(* migration.py, web_service.py, runner.py).                               *)
(*                                                                         *)
(* Installation has the receipt and the lock.  Update and uninstall hold   *)
(* that lock; agentbc setup, runner and webui commands and tasks do not,   *)
(* and go on between any two of their steps.                               *)
(***************************************************************************)
EXTENDS Installation

CONSTANTS
    Platforms,      \* skill roots: Codex, Claude Code, the profiles of Hermes
    Latest,         \* the newest release
    Fingerprints,   \* the versions whose skills a release recognises
    MaxTroubles     \* bound: errors and deaths in an update or uninstall

ASSUME NativeAssumption ==
    /\ Latest \in Versions
    /\ Fingerprints \in [Versions -> SUBSET Versions]
    /\ MaxTroubles \in Nat

VARIABLES
    link,       \* bin/agentbc: the environment it points to
    venvs,      \* the environments under the install root
    skills,     \* the package in each skill root
    runner,     \* the Runner that serves
    web,        \* the WebUI runs, or its login item is there
    board,      \* .agentbc-maintenance of the board, and whether a task is active
    upd,        \* the update
    leaving,    \* the step of the uninstall's payload
    said,       \* what the last update reported
    watched,    \* bound: the run follows a native installation, in detail
    troubles

nvars == <<link, venvs, skills, runner, web, board, upd, leaving, said, watched, troubles>>
allvars == <<vars, nvars>>

\* A package is a version's, edited by the user, half replaced, or half written.
Packages == Versions \cup {None, "edited", "torn", "part"}
NoUpdate == [pc |-> "none", old |-> None, snap |-> None,
             web |-> FALSE, ok |-> TRUE]
Free == upd = NoUpdate

\* The CLI answers: its link leads to an environment that exists.
Resolves == link # None /\ link \in venvs

NativeInit ==
    /\ link = None
    /\ venvs = {}
    /\ skills = [p \in Platforms |-> None]
    /\ runner = None
    /\ web = FALSE
    /\ board = [marker |-> FALSE, active |-> FALSE]
    /\ upd = NoUpdate
    /\ leaving = "none"
    /\ said = "none"
    /\ watched \in BOOLEAN
    /\ troubles = 0

-----------------------------------------------------------------------------
(* Skill packages (skill_packages.py), as the release v sees them.         *)

Classification(v, package) ==
    CASE package = None -> "missing"
      [] package = v -> "current"
      [] package \in Fingerprints[v] \ {v} -> "managed_outdated"
      [] package = "part" /\ v = Latest -> "partial"
      [] OTHER -> "modified"

\* A manifest that is not the release's own is outdated only with every field and
\* every file of a release that is known.
Drifted(v, package) ==
    Classification(v, package) \notin {"missing", "current"}

\* _install_skill_package without a terminal: a modified package is left alone.
InstallSkill(v, package) ==
    IF Classification(v, package) = "modified" THEN package ELSE v

\* install_hermes_skill: the roots of all profiles, or none.
Refreshed(v, sk) ==
    [p \in Platforms |-> InstallSkill(v, sk[p])]

\* replace_managed_skill_package backs up, exchanges, and restores on an error;
\* killed in between it leaves a mixture, or files without a manifest.
Torn(package) == IF package = None THEN "part" ELSE "torn"

\* remove_managed_skill_package: what a manifest declares, edited or not.
NoSkills == [p \in Platforms |-> None]

-----------------------------------------------------------------------------
(* The update: update.py and installation_native.guarded_update.           *)

Ends(report) == upd' = NoUpdate /\ said' = report
GoTo(pc) == upd' = [upd EXCEPT !.pc = pc] /\ UNCHANGED said
StartsUndoing == GoTo("unhalt")

\* _rollback_update_transaction returns at its first failure.
GivesUp == upd' = [upd EXCEPT !.pc = "unsuspend", !.ok = FALSE] /\ UNCHANGED said

Preparing == {"gate", "lock", "identify", "stage", "capture"}
Cutover == {"suspend", "halt", "switch", "refresh", "start", "verify", "resume"}
Undoing == {"unhalt", "relink", "reskill", "restart", "reverify"}

\* Until it has the lock an update leaves other commands alone.
Holds == upd.pc \in {"identify", "stage", "capture"} \cup Cutover \cup Undoing \cup {"unsuspend", "scrap"}

\* check_for_update
Offered == link # Latest

\* run_update_flow: the release index is read, the user says yes.
UpdateBegins ==
    /\ Free /\ proc = Idle
    /\ Resolves /\ Offered
    /\ upd' = [NoUpdate EXCEPT !.pc = "gate", !.old = link]
    /\ said' = "none"
    /\ UNCHANGED <<vars, leaving, link, venvs, skills, runner, web, board, troubles>>

\* legacy_permission_cutover_blocked
Blocked == board.active

\* update_preflight: active tasks block; otherwise maintenance mode ends.
UpdatePreflight ==
    /\ upd.pc = "gate"
    /\ IF Blocked
       THEN Ends("refused") /\ UNCHANGED board
       ELSE GoTo("lock") /\ board' = [board EXCEPT !.marker = FALSE]
    /\ UNCHANGED <<vars, leaving, link, venvs, skills, runner, web, troubles>>

\* _local_install_strategy: the link leads into the install root.
Managed == link # None

\* guarded_update, assert_native
UpdateLocks ==
    /\ upd.pc = "lock" /\ proc = Idle
    /\ IF Managed /\ receipt.type = "native" /\ receipt.state = "installed" /\ ~DockerEvidence
       THEN GoTo("identify")
       ELSE Ends("refused")
    /\ UNCHANGED <<vars, leaving, link, venvs, skills, runner, web, board, troubles>>

\* _require_current_install_identity, _require_post_update_identity: the doctor of
\* the CLI reports package, Runner and skills of one version.
Identity(v) ==
    /\ link = v /\ v \in venvs
    /\ runner = v
    /\ \A p \in Platforms : ~Drifted(v, skills[p])

UpdateIdentifies ==
    /\ upd.pc = "identify"
    /\ IF Identity(upd.old) THEN GoTo("stage") ELSE Ends("refused")
    /\ UNCHANGED <<vars, leaving, link, venvs, skills, runner, web, board, troubles>>

\* The wheel is verified, installed into an environment of its own and tried out.
Stage ==
    /\ upd.pc = "stage"
    /\ venvs' = venvs \cup {Latest}
    /\ GoTo("capture")
    /\ UNCHANGED <<vars, leaving, link, skills, runner, web, board, troubles>>

\* _target_managed_skill_specs: every path either release manages.
Snapshot == skills

\* _capture_skill_snapshot: their bytes, as they are.
CaptureSkills ==
    /\ upd.pc = "capture"
    /\ upd' = [upd EXCEPT !.pc = "suspend", !.snap = Snapshot]
    /\ UNCHANGED <<vars, leaving, link, venvs, skills, runner, web, board, said, troubles>>

\* suspend_update: login item and server, remembered in the process only.
SuspendWeb ==
    /\ upd.pc = "suspend"
    /\ upd' = [upd EXCEPT !.pc = "halt", !.web = web]
    /\ web' = FALSE
    /\ UNCHANGED <<vars, leaving, link, venvs, skills, runner, board, said, troubles>>

\* start_runner_background: a Runner that answers is left running.
Started(v) == IF runner = None THEN v ELSE runner

\* stop_runner_background
StopRunner(pc, next) ==
    /\ upd.pc = pc
    /\ runner' = None
    /\ GoTo(next)
    /\ UNCHANGED <<vars, leaving, link, venvs, skills, web, board, troubles>>

SwitchLink ==
    /\ upd.pc = "switch"
    /\ link' = Latest
    /\ GoTo("refresh")
    /\ UNCHANGED <<vars, leaving, venvs, skills, runner, web, board, troubles>>

\* setup --update --non-interactive of the new CLI; a package it may not touch
\* makes it fail after it refreshed the others.
RefreshSkills ==
    /\ upd.pc = "refresh"
    /\ skills' = Refreshed(Latest, skills)
    /\ IF \A p \in Platforms : skills'[p] = Latest THEN GoTo("start") ELSE StartsUndoing
    /\ UNCHANGED <<vars, leaving, link, venvs, runner, web, board, troubles>>

StartRunner ==
    /\ \/ upd.pc = "start" /\ runner' = Started(Latest) /\ GoTo("verify")
       \/ upd.pc = "restart" /\ runner' = Started(link) /\ GoTo("reverify")
    /\ UNCHANGED <<vars, leaving, link, venvs, skills, web, board, troubles>>

\* (Mutation: what follows the start is not part of the transaction.)
VerifyLeniently ==
    /\ upd.pc = "verify"
    /\ GoTo("resume")
    /\ UNCHANGED <<vars, leaving, link, venvs, skills, runner, web, board, troubles>>
VerifyUpdate ==
    /\ upd.pc = "verify"
    /\ IF Identity(Latest) THEN GoTo("resume") ELSE StartsUndoing
    /\ UNCHANGED <<vars, leaving, link, venvs, skills, runner, web, board, troubles>>

\* restore_update, of the new environment or the old one.
Resumed == web \/ upd.web

ResumeWeb ==
    /\ upd.pc = "resume"
    /\ web' = Resumed
    /\ Ends("updated")
    /\ UNCHANGED <<vars, leaving, link, venvs, skills, runner, board, troubles>>

-----------------------------------------------------------------------------
(* The rollback (_rollback_update_transaction).                            *)

\* _restore_cli_link
RestoreLink ==
    /\ upd.pc = "relink"
    /\ link' = upd.old
    /\ GoTo("reskill")
    /\ UNCHANGED <<vars, leaving, venvs, skills, runner, web, board, troubles>>

\* _restore_skill_snapshot
RestoreSkills ==
    /\ upd.pc = "reskill"
    /\ skills' = upd.snap
    /\ GoTo("restart")
    /\ UNCHANGED <<vars, leaving, link, venvs, runner, web, board, troubles>>

\* _verify_cli_link, _verify_skill_snapshot, and the identity of the old version.
VerifyRollback ==
    /\ upd.pc = "reverify"
    /\ IF link = upd.old /\ skills = upd.snap /\ Identity(upd.old)
       THEN GoTo("unsuspend") ELSE GivesUp
    /\ UNCHANGED <<vars, leaving, link, venvs, skills, runner, web, board, troubles>>

UnsuspendWeb ==
    /\ upd.pc = "unsuspend"
    /\ web' = Resumed
    /\ GoTo("scrap")
    /\ UNCHANGED <<vars, leaving, link, venvs, skills, runner, board, troubles>>

\* The new environment goes, whatever came of the rollback.
Scrap ==
    /\ upd.pc = "scrap"
    /\ venvs' = venvs \ {Latest}
    /\ Ends(IF upd.ok THEN "restored" ELSE "incomplete")
    /\ UNCHANGED <<vars, leaving, link, skills, runner, web, board, troubles>>

\* An error.  Before the cutover the staged environment goes; in the cutover
\* everything is undone; an error of the undoing ends it where it is.
UpdateFault ==
    /\ troubles < MaxTroubles
    /\ troubles' = troubles + 1
    /\ \/ /\ upd.pc \in Preparing
          /\ Ends("refused")
          /\ venvs' = IF upd.pc = "capture" THEN venvs \ {Latest} ELSE venvs
       \/ upd.pc \in Cutover /\ StartsUndoing /\ UNCHANGED venvs
       \/ upd.pc \in Undoing \cup {"unsuspend"} /\ UNCHANGED <<venvs, said>>
          /\ upd' = [upd EXCEPT !.pc = IF upd.pc = "unsuspend" THEN "scrap" ELSE "unsuspend",
                                !.ok = FALSE]
    /\ UNCHANGED <<vars, leaving, link, skills, runner, web, board>>

\* The update is killed: nothing remembers it, or the WebUI it suspended.
UpdateCrash ==
    /\ ~Free
    /\ troubles < MaxTroubles
    /\ troubles' = troubles + 1
    /\ upd' = NoUpdate
    /\ \/ UNCHANGED skills
       \/ /\ upd.pc = "refresh"
          /\ \E p \in Platforms :
                /\ skills[p] # Latest
                /\ skills' = [skills EXCEPT ![p] = Torn(@)]
    /\ UNCHANGED <<vars, leaving, link, venvs, runner, web, board, said>>

UpdateSteps ==
    \/ UpdatePreflight \/ UpdateLocks \/ UpdateIdentifies \/ Stage \/ CaptureSkills
    \/ SuspendWeb \/ StopRunner("halt", "switch") \/ SwitchLink \/ RefreshSkills
    \/ StartRunner \/ VerifyUpdate \/ ResumeWeb
    \/ StopRunner("unhalt", "relink") \/ RestoreLink \/ RestoreSkills \/ VerifyRollback
    \/ UnsuspendWeb \/ Scrap
    \/ UpdateFault \/ UpdateCrash

-----------------------------------------------------------------------------
(* The installation and the uninstall: the payload inside Installation's.   *)

\* install_local_alpha: an environment, the link, and setup.
InstallNative ==
    /\ proc.op = "native" /\ At("payload")
    /\ Payload
    /\ \E v \in Versions :
          /\ link' = v /\ venvs' = {v}
          /\ skills' = [p \in Platforms |-> IF Classification(v, skills[p]) = "modified"
                                           THEN skills[p] ELSE v]
    /\ said' = "none"
    /\ UNCHANGED <<runner, web, board, upd, leaving, troubles>>

\* uninstall: the marker of the board is made before the board is looked at, and
\* removed by whatever happens but death.
BeginRetire ==
    /\ receipt.type = "native"
    /\ venvs # {}
    /\ ~board.marker /\ ~Blocked
    /\ BeginNative
    /\ board' = [board EXCEPT !.marker = TRUE]
    /\ leaving' = "quiet"
    /\ UNCHANGED <<link, venvs, skills, runner, web, upd, said, troubles>>

\* _run_uninstall_payload
Retire(pc, next) ==
    /\ proc.op = "retire" /\ At("payload")
    /\ leaving = pc
    /\ leaving' = next
    /\ UNCHANGED <<vars, upd, said, troubles>>

UninstallPayload ==
    \/ /\ Retire("quiet", "kill")
       /\ web' = FALSE
       /\ UNCHANGED <<link, venvs, skills, runner, board>>
    \/ /\ Retire("kill", "unskill")
       /\ runner' = None
       /\ UNCHANGED <<link, venvs, skills, web, board>>
    \/ /\ Retire("unskill", "unlink")
       /\ skills' = NoSkills
       /\ UNCHANGED <<link, venvs, runner, web, board>>
    \/ /\ Retire("unlink", "records")
       /\ link' = None
       /\ UNCHANGED <<venvs, skills, runner, web, board>>
    \/ /\ Retire("records", "uproot")
       /\ \E remove \in BOOLEAN : board' = [board EXCEPT !.marker = @ /\ ~remove]
       /\ UNCHANGED <<link, venvs, skills, runner, web>>
    \/ /\ Retire("uproot", "gone")
       /\ venvs' = {}
       /\ UNCHANGED <<link, skills, runner, web, board>>

RetireSteps ==
    \/ UninstallPayload
    \/ /\ proc.op = "retire"
       /\ \/ Claim /\ UNCHANGED <<board, leaving>>
          \/ Payload /\ leaving = "gone" /\ UNCHANGED <<board, leaving>>
          \/ (Forget \/ Fault) /\ board' = [board EXCEPT !.marker = FALSE] /\ leaving' = "none"
          \/ Crash /\ leaving' = "none" /\ UNCHANGED board
       /\ said' = "none"
       /\ UNCHANGED <<link, venvs, skills, runner, web, upd, troubles>>

-----------------------------------------------------------------------------
(* What goes on without the lock.                                          *)

\* agentbc runner start
RunnerStarts ==
    /\ Resolves
    /\ runner' = Started(link)
    /\ UNCHANGED <<vars, link, venvs, skills, web, board, upd, leaving, said, troubles>>

\* agentbc runner stop; the Runner dies.
RunnerEnds ==
    /\ runner # None
    /\ runner' = None
    /\ UNCHANGED <<vars, link, venvs, skills, web, board, upd, leaving, said, troubles>>

\* agentbc webui start, close
WebSwitches ==
    /\ Resolves
    /\ web' = ~web
    /\ UNCHANGED <<vars, link, venvs, skills, runner, board, upd, leaving, said, troubles>>

UserEdits(p) ==
    /\ skills[p] \in Versions
    /\ skills' = [skills EXCEPT ![p] = "edited"]
    /\ UNCHANGED <<vars, link, venvs, runner, web, board, upd, leaving, said, troubles>>

\* agentbc setup: the skills the user agrees to, and the WebUI as configured.
UserSetsUp ==
    /\ Resolves
    /\ \E agreed \in SUBSET Platforms :
          skills' = [p \in Platforms |-> IF p \in agreed THEN link ELSE skills[p]]
    /\ web' \in BOOLEAN
    /\ UNCHANGED <<vars, link, venvs, runner, board, upd, leaving, said, troubles>>

\* agentbc setup --clean
UserCleans ==
    /\ Resolves
    /\ \E cleaned \in SUBSET Platforms :
          skills' = [p \in Platforms |-> IF p \in cleaned THEN None ELSE skills[p]]
    /\ UNCHANGED <<vars, link, venvs, runner, web, board, upd, leaving, said, troubles>>

\* assert_maintenance_command_allowed; a worker outlives its Runner.
TaskRuns ==
    /\ \/ ~board.active /\ Resolves /\ runner # None /\ ~board.marker
       \/ board.active
    /\ board' = [board EXCEPT !.active = ~@]
    /\ UNCHANGED <<vars, leaving, link, venvs, skills, runner, web, upd, said, troubles>>

\* agentbc update --bypass: manual_bypass_install
Bypass ==
    /\ Resolves
    /\ board' = [board EXCEPT !.marker = TRUE]
    /\ UNCHANGED <<vars, leaving, link, venvs, skills, runner, web, upd, said, troubles>>

Surroundings ==
    /\ native
    /\ \/ RunnerStarts \/ RunnerEnds \/ WebSwitches \/ UserSetsUp \/ UserCleans
       \/ TaskRuns \/ Bypass
       \/ \E p \in Platforms : UserEdits(p)

-----------------------------------------------------------------------------

\* The rest of the installation: its receipt, and its errors.
InstallSteps ==
    /\ \/ receipt = NoReceipt /\ BeginNative
       \/ proc.op = "native" /\ ~At("payload") /\ Work
       \/ proc.op = "native" /\ (Fault \/ Crash)
    /\ UNCHANGED nvars

\* The Runner and the server of the WebUI go down with the host.
NReboot ==
    /\ Reboot
    /\ runner' = None
    /\ web' = FALSE
    /\ upd' = NoUpdate
    /\ leaving' = "none"
    /\ UNCHANGED <<link, venvs, skills, board, said, troubles>>

NNext ==
    \/ ~watched /\ Next /\ UNCHANGED nvars
    \/ /\ watched /\ UNCHANGED watched
       /\ \/ InstallSteps \/ InstallNative
          \/ ~Holds /\ (BeginRetire \/ RetireSteps)
          \/ NReboot
          \/ native /\ UpdateBegins
          \/ UpdateSteps
          \/ Surroundings

NInit == Init /\ NativeInit

NSpec == NInit /\ [][NNext]_allvars

NFairness ==
    /\ WF_allvars(~watched /\ Work /\ UNCHANGED nvars)
    /\ SF_allvars(~watched /\ BeginRollback /\ UNCHANGED nvars)
    /\ SF_allvars(~watched /\ BeginRecovery /\ receipt.state = "uninstalling" /\ UNCHANGED nvars)

NFairSpec == NSpec /\ NFairness

-----------------------------------------------------------------------------
(* Properties.                                                             *)

NTypeOK ==
    /\ TypeOK
    /\ link \in Versions \cup {None} /\ venvs \subseteq Versions
    /\ skills \in [Platforms -> Packages]
    /\ runner \in Versions \cup {None}
    /\ web \in BOOLEAN
    /\ board \in [marker : BOOLEAN, active : BOOLEAN]
    /\ said \in {"none", "refused", "updated", "restored", "incomplete"}
    /\ troubles \in 0..MaxTroubles

Dangling == link # None /\ link \notin venvs

\* What an update reports is what is there, whatever ran beside it: an update that
\* succeeded leaves one version behind, a rollback that succeeded the old one; and
\* the CLI is cut off from its environment by no step but a rollback that reports
\* itself incomplete (_install_verified_release_payload, _rollback_update_transaction).
UpdateToldTrue ==
    [][/\ said' # said /\ said' = "updated" =>
             /\ link' = Latest /\ runner' \in {None, Latest}
             /\ \A p \in Platforms : skills'[p] \in {Latest, None, "edited"}
       /\ said' # said /\ said' = "restored" =>
             /\ link' = upd.old /\ runner' \in {None, upd.old}
             /\ \A p \in Platforms : skills'[p] \in {upd.old, upd.snap[p], None, "edited"}
       /\ Dangling' /\ ~Dangling => said' = "incomplete"]_allvars

=============================================================================
