------------------------- MODULE Installation_proofs -------------------------
(***************************************************************************)
(* Proofs about Installation, for any versions, tasks, waiting commands    *)
(* and number of errors and deaths; and about NativeUpdate, for any skill  *)
(* roots and any fingerprints besides.                                     *)
(***************************************************************************)
EXTENDS NativeUpdate, TLAPS

\* What an operation has in hand, and the journal it goes by.
Equipped(p, update) ==
    p # Idle =>
        /\ p.op \notin {"leave", "purge", "native", "retire"} => p.prof \in Versions
        /\ p.op = "update" => p.to \in Versions
        /\ p.op = "update" /\ p.at > 3 => p.saved \in Copies
        /\ p.op = "uninstall" /\ p.at = 4 => p.saved \in Copies
        /\ p.op = "rollback" => update \in Journals
        /\ p.op = "update" /\ p.at \in 5..16 => update \in Journals

Good(p, update) ==
    /\ p = Idle \/ (p \in Processes /\ p.at <= Steps(p.op))
    /\ Equipped(p, update)

TInv == TypeOK /\ Equipped(proc, receipt.update)

-----------------------------------------------------------------------------
(* The plans.                                                              *)

\* Where a step stands in the plan of an operation.
Place(op, i, step) ==
    \/ op = "install" /\ \/ i = 1 /\ step = "claim"
                         \/ i = 2 /\ step = "bundle"
                         \/ i = 3 /\ step = "venv"
                         \/ i = 4 /\ step = "profile"
                         \/ i = 5 /\ step = "up"
                         \/ i = 6 /\ step = "bind"
                         \/ i = 7 /\ step = "skills"
                         \/ i = 8 /\ step = "login"
                         \/ i = 9 /\ step = "settle"
                         \/ i = 10 /\ step = "commit"
    \/ op = "undo" /\ \/ i = 1 /\ step = "off"
                      \/ i = 2 /\ step = "remove"
                      \/ i = 3 /\ step = "unskill"
                      \/ i = 4 /\ step = "root"
                      \/ i = 5 /\ step = "forget"
    \/ op = "update" /\ \/ i = 1 /\ step = "mark"
                        \/ i = 2 /\ step = "idle"
                        \/ i = 3 /\ step = "save"
                        \/ i = 4 /\ step = "claim"
                        \/ i = 5 /\ step = "off"
                        \/ i = 6 /\ step = "stop"
                        \/ i = 7 /\ step = "bundle"
                        \/ i = 8 /\ step = "up"
                        \/ i = 9 /\ step = "bind"
                        \/ i = 10 /\ step = "shelve"
                        \/ i = 11 /\ step = "venv"
                        \/ i = 12 /\ step = "skills"
                        \/ i = 13 /\ step = "login"
                        \/ i = 14 /\ step = "web"
                        \/ i = 15 /\ step = "rest"
                        \/ i = 16 /\ step = "commit"
                        \/ i = 17 /\ step = "tidy"
                        \/ i = 18 /\ step = "unmark"
    \/ op = "rollback" /\ \/ i = 1 /\ step = "off"
                          \/ i = 2 /\ step = "stop"
                          \/ i = 3 /\ step = "scrap"
                          \/ i = 4 /\ step = "unshelve"
                          \/ i = 5 /\ step = "rebundle"
                          \/ i = 6 /\ step = "reskill"
                          \/ i = 7 /\ step = "wipe"
                          \/ i = 8 /\ step = "restore"
                          \/ i = 9 /\ step = "up"
                          \/ i = 10 /\ step = "bind"
                          \/ i = 11 /\ step = "web"
                          \/ i = 12 /\ step = "login"
                          \/ i = 13 /\ step = "rest"
                          \/ i = 14 /\ step = "unmark"
                          \/ i = 15 /\ step = "commit"
    \/ op = "setup" /\ \/ i = 1 /\ step = "create"
                       \/ i = 2 /\ step = "bind"
                       \/ i = 3 /\ step = "mark"
                       \/ i = 4 /\ step = "idle"
                       \/ i = 5 /\ step = "claim"
                       \/ i = 6 /\ step = "up"
                       \/ i = 7 /\ step = "bind"
                       \/ i = 8 /\ step = "skills"
                       \/ i = 9 /\ step = "login"
                       \/ i = 10 /\ step = "settle"
                       \/ i = 11 /\ step = "commit"
                       \/ i = 12 /\ step = "unmark"
    \/ op = "stop" /\ \/ i = 1 /\ step = "mark"
                      \/ i = 2 /\ step = "idle"
                      \/ i = 3 /\ step = "halt"
                      \/ i = 4 /\ step = "unmark"
    \/ op = "uninstall" /\ \/ i = 1 /\ step = "mark"
                           \/ i = 2 /\ step = "idle"
                           \/ i = 3 /\ step = "save"
                           \/ i = 4 /\ step = "claim"
                           \/ i = 5 /\ step = "off"
                           \/ i = 6 /\ step = "remove"
                           \/ i = 7 /\ step = "records"
                           \/ i = 8 /\ step = "unskill"
                           \/ i = 9 /\ step = "unmark"
                           \/ i = 10 /\ step = "root"
                           \/ i = 11 /\ step = "forget"
    \/ op = "purge" /\ \/ i = 1 /\ step = "root"
                       \/ i = 2 /\ step = "forget"
    \/ op = "leave" /\ i = 1 /\ step = "unmark"
    \/ op = "native" /\ \/ i = 1 /\ step = "claim"
                        \/ i = 2 /\ step = "payload"
                        \/ i = 3 /\ step = "commit"
    \/ op = "retire" /\ \/ i = 1 /\ step = "claim"
                        \/ i = 2 /\ step = "payload"
                        \/ i = 3 /\ step = "forget"

LEMMA Lengths ==
    /\ Op = {"install", "undo", "update", "rollback", "setup", "stop", "uninstall",
             "purge", "leave", "native", "retire"}
    /\ Steps("install") = 10
    /\ Steps("undo") = 5
    /\ Steps("update") = 18
    /\ Steps("rollback") = 15
    /\ Steps("setup") = 12
    /\ Steps("stop") = 4
    /\ Steps("uninstall") = 11
    /\ Steps("purge") = 2
    /\ Steps("leave") = 1
    /\ Steps("native") = 3
    /\ Steps("retire") = 3
BY DEF Op, Steps, Plan, InstallPlan, UndoPlan, UpdatePlan, RollbackPlan, SetupPlan, StopPlan,
       UninstallPlan

LEMMA Places ==
    ASSUME NEW op \in Op, NEW i \in 1..Steps(op)
    PROVE  Place(op, i, Plan[op][i])
<1>1. CASE op = "install"
  BY <1>1, Lengths DEF Plan, Place, InstallPlan
<1>2. CASE op = "undo"
  BY <1>2, Lengths DEF Plan, Place, UndoPlan
<1>3. CASE op = "update"
  BY <1>3, Lengths DEF Plan, Place, UpdatePlan
<1>4. CASE op = "rollback"
  BY <1>4, Lengths DEF Plan, Place, RollbackPlan
<1>5. CASE op = "setup"
  BY <1>5, Lengths DEF Plan, Place, SetupPlan
<1>6. CASE op = "stop"
  BY <1>6, Lengths DEF Plan, Place, StopPlan
<1>7. CASE op = "uninstall"
  BY <1>7, Lengths DEF Plan, Place, UninstallPlan
<1>8. CASE op = "purge"
  BY <1>8, Lengths DEF Plan, Place
<1>9. CASE op = "leave"
  BY <1>9, Lengths DEF Plan, Place
<1>10. CASE op = "native"
  BY <1>10, Lengths DEF Plan, Place
<1>11. CASE op = "retire"
  BY <1>11, Lengths DEF Plan, Place
<1> QED BY <1>1, <1>2, <1>3, <1>4, <1>5, <1>6, <1>7, <1>8, <1>9, <1>10, <1>11, Lengths

-----------------------------------------------------------------------------
(* Types.                                                                  *)

LEMMA NoneType == None \in Versions \cup {None} /\ None \in Copies \cup {None}
OBVIOUS

LEMMA LengthRange == \A op \in Op : Steps(op) \in 1..18
BY Lengths

LEMMA StepPlace ==
    ASSUME TypeOK, NEW step, At(step)
    PROVE  /\ proc \in Processes
           /\ proc.at <= Steps(proc.op)
           /\ Place(proc.op, proc.at, step)
<1>1. proc \in Processes /\ proc.at <= Steps(proc.op)
  BY DEF TypeOK, At
<1>2. proc.op \in Op /\ proc.at \in 1..18
  BY <1>1 DEF Processes
<1>3. proc.at \in 1..Steps(proc.op)
  BY <1>1, <1>2, Lengths
<1>4. Place(proc.op, proc.at, Plan[proc.op][proc.at])
  BY <1>2, <1>3, Places
<1> QED BY <1>1, <1>4 DEF At

LEMMA BeginGood ==
    ASSUME NEW op \in Op, NEW prof \in Versions \cup {None}, NEW u, Begin(op, prof),
           op \notin {"leave", "purge", "native", "retire"} => prof \in Versions,
           op # "update", op = "rollback" => u \in Journals
    PROVE  Good(proc', u)
<1>1. proc' = [op |-> op, at |-> 1, prof |-> prof, to |-> None, inside |-> FALSE,
              remove |-> FALSE, saved |-> None]
  BY DEF Begin, Idle
<1>2. proc' \in Processes
  BY <1>1 DEF Processes
<1>3. proc'.op = op /\ proc'.at = 1
  BY <1>1
<1>4. proc'.at <= Steps(proc'.op)
  <2>1. Steps(op) \in 1..18
    BY LengthRange
  <2> QED BY <1>3, <2>1
<1> QED BY <1>1, <1>2, <1>4 DEF Good, Equipped

LEMMA LeaveGood ==
    ASSUME NEW u, Leave
    PROVE  Good(proc', u)
<1>1. proc' = [op |-> "leave", at |-> 1, prof |-> None, to |-> None, inside |-> FALSE,
              remove |-> FALSE, saved |-> None]
  BY DEF Leave, Idle
<1>2. proc' \in Processes
  BY <1>1, Lengths DEF Processes
<1>3. proc'.op = "leave" /\ proc'.at = 1
  BY <1>1
<1>4. proc'.at <= Steps(proc'.op)
  BY <1>3, Lengths
<1> QED BY <1>1, <1>2, <1>4 DEF Good, Equipped

LEMMA FinishGood == ASSUME NEW u, proc' = Idle PROVE Good(proc', u)
BY DEF Good, Equipped

\* A step hands the process on; only saving and claiming give it something new.
LEMMA AdvanceGood ==
    ASSUME TInv, NEW step, At(step), step \notin {"save", "claim"}, Advance, NEW u,
           u = receipt.update \/ step \in {"commit", "forget"}
    PROVE  Good(proc', u)
<1>1. /\ proc \in Processes
      /\ proc.at <= Steps(proc.op)
      /\ Place(proc.op, proc.at, step)
  BY StepPlace DEF TInv
<1>2. CASE proc.at < Steps(proc.op)
  <2>1. proc' = [proc EXCEPT !.at = @ + 1]
    BY <1>2 DEF Advance
  <2>2. /\ proc.op \in Op /\ proc.at \in 1..18
        /\ proc'.op = proc.op /\ proc'.at = proc.at + 1 /\ proc'.prof = proc.prof
        /\ proc'.to = proc.to /\ proc'.saved = proc.saved
    BY <1>1, <2>1 DEF Processes
  <2>5. Steps(proc.op) \in 1..18
    BY <2>2, LengthRange
  <2>6. proc'.at \in 1..18 /\ proc'.at <= Steps(proc'.op)
    BY <1>2, <2>2, <2>5
  <2>3. proc' \in Processes
    BY <1>1, <2>1, <2>6 DEF Processes
  <2>4. Equipped(proc', u)
    <3>1. Equipped(proc, receipt.update) /\ proc # Idle
      BY DEF TInv, At
    <3>2. step \in {"commit", "forget"} =>
             proc'.op # "rollback" /\ ~(proc'.op = "update" /\ proc'.at \in 5..16)
      <4>1. proc.op = "rollback" => proc.at < 15
        BY <1>2, <2>2, Lengths
      <4> QED BY <1>1, <2>2, <4>1 DEF Place
    <3>3. proc.op = "update" => proc.at # 3 /\ proc.at # 4
      BY <1>1 DEF Place
    <3>4. proc.op = "uninstall" => proc.at # 3
      BY <1>1 DEF Place
    <3> QED BY <2>2, <3>1, <3>2, <3>3, <3>4 DEF Equipped
  <2> QED BY <2>3, <2>4, <2>6 DEF Good
<1>3. CASE ~(proc.at < Steps(proc.op))
  <2>1. Leave \/ proc' = Idle
    BY <1>3 DEF Advance, Leave
  <2> QED BY <2>1, LeaveGood, FinishGood
<1> QED BY <1>2, <1>3


LEMMA Conclude ==
    ASSUME receipt' \in Receipts, disk' \in Disks, srv' \in Compositions, data' \in Volumes,
           bound' \in BOOLEAN, login' \in BOOLEAN, marker' \in BOOLEAN,
           native' \in BOOLEAN, looked' \in BOOLEAN, declined' \in BOOLEAN,
           waiting' \in [op : Overtaken, prof : Versions, same : BOOLEAN] \cup {None},
           seen' \subseteq Tasks, archived' \subseteq Tasks, mishaps' \in 0..MaxMishaps,
           Good(proc', receipt'.update)
    PROVE  TInv'
BY DEF TInv, TypeOK, Good

LEMMA Records ==
    /\ NoReceipt \in Receipts /\ NoDisk \in Disks /\ NoServices \in Compositions
    /\ NoData \in Volumes
    /\ NoReceipt.update = None
<1>1. NoReceipt \in Receipts /\ NoReceipt.update = None
  BY DEF NoReceipt, Receipts
<1>2. NoDisk \in Disks
  BY DEF NoDisk, Disks
<1>3. NoServices \in Compositions
  BY DEF NoServices, NoContainer, Compositions
<1>4. NoData \in Volumes
  BY DEF NoData, Volumes
<1> QED BY <1>1, <1>2, <1>3, <1>4

LEMMA InitTyped == Init => TInv
<1> SUFFICES ASSUME Init PROVE TInv
  OBVIOUS
<1>1. Good(proc, receipt.update)
  BY DEF Init, Good, Equipped
<1>2. receipt \in Receipts /\ disk \in Disks /\ srv \in Compositions /\ data \in Volumes
  BY Records DEF Init
<1>3. mishaps \in 0..MaxMishaps
  BY InstallationAssumption DEF Init
<1>4. TypeOK
  BY <1>1, <1>2, <1>3 DEF Init, TypeOK
<1> QED BY <1>1, <1>4 DEF TInv, Good

LEMMA SetUpType ==
    ASSUME TypeOK, NEW services, NEW up \in BOOLEAN, SetUp(services, up)
    PROVE  srv' \in Compositions
BY DEF TypeOK, SetUp, Compositions

LEMMA CreateType ==
    ASSUME TypeOK, NEW v \in Versions
    PROVE  \A s \in Services : Created(srv[s], v) \in [image : Versions \cup {None}, up : BOOLEAN]
BY DEF TypeOK, Created, Compositions, Services

LEMMA TouchType ==
    ASSUME TypeOK, NEW v \in Versions \cup {None}, Touch(v)
    PROVE  data' \in Volumes
BY DEF TypeOK, Touch, Volumes

-----------------------------------------------------------------------------
(* The operations begin.                                                   *)

LEMMA LaunchTyped ==
    ASSUME NEW op, NEW prof \in Versions, NEW same, NEW u, Launch(op, prof, same)
    PROVE  Good(proc', u)
<1>1. CASE op \in {"setup", "stop"} /\ Begin(op, prof)
  BY <1>1, BeginGood, Lengths
<1>2. ASSUME NEW v \in Versions, op = "update",
             proc' = [Idle EXCEPT !.op = op, !.at = 1, !.prof = prof, !.to = v]
      PROVE  Good(proc', u)
  <2>1. proc' = [op |-> "update", at |-> 1, prof |-> prof, to |-> v, inside |-> FALSE,
                remove |-> FALSE, saved |-> None]
    BY <1>2 DEF Idle
  <2>2. proc' \in Processes /\ proc'.at = 1 /\ proc'.op = "update"
    BY <2>1, Lengths DEF Processes
  <2>3. proc'.at <= Steps(proc'.op)
    BY <2>2, Lengths
  <2> QED BY <2>1, <2>2, <2>3 DEF Good, Equipped
<1>3. ASSUME NEW r \in BOOLEAN, op = "uninstall",
             proc' = [Idle EXCEPT !.op = op, !.at = Resume, !.prof = prof, !.remove = r]
      PROVE  Good(proc', u)
  <2>1. proc' = [op |-> "uninstall", at |-> Resume, prof |-> prof, to |-> None,
                inside |-> FALSE, remove |-> r, saved |-> None]
    BY <1>3 DEF Idle
  <2>2. Resume \in {1, 5}
    BY DEF Resume
  <2>3. proc' \in Processes /\ proc'.at \in {1, 5} /\ proc'.op = "uninstall"
    BY <2>1, <2>2, Lengths DEF Processes
  <2>4. proc'.at <= Steps(proc'.op)
    BY <2>3, Lengths
  <2> QED BY <2>1, <2>2, <2>3, <2>4 DEF Good, Equipped
<1> QED BY <1>1, <1>2, <1>3 DEF Launch

LEMMA UnchangedTyped ==
    ASSUME TInv,
           UNCHANGED <<receipt, host, docker, data, marker, native, world>>,
           Good(proc', receipt.update)
    PROVE  TInv'
<1>1. UNCHANGED <<receipt, disk, login, srv, bound, data, marker, native, looked, waiting,
                  seen, archived, declined, mishaps>>
  BY DEF host, docker, world
<1> QED BY <1>1, Conclude DEF TInv, TypeOK

LEMMA CommandsTyped ==
    ASSUME TInv, NEW op, Await(op) \/ BeginCommand(op)
    PROVE  TInv'
<1>1. CASE Await(op)
  <2>1. disk.profile \in Versions
    BY <1>1 DEF Await, CanRun, TInv, TypeOK, Disks
  <2>2. waiting' \in [op : Overtaken, prof : Versions, same : BOOLEAN]
    BY <1>1, <2>1 DEF Await
  <2> QED BY <1>1, <2>2 DEF Await, TInv, TypeOK, host, docker
<1>2. CASE BeginCommand(op)
  <2>1. disk.profile \in Versions
    BY <1>2 DEF BeginCommand, CanRun, TInv, TypeOK, Disks
  <2>2. Good(proc', receipt.update)
    BY <1>2, <2>1, LaunchTyped DEF BeginCommand
  <2> QED BY <1>2, <2>2, UnchangedTyped DEF BeginCommand
<1> QED BY <1>1, <1>2

LEMMA BeginWaitingTyped ==
    ASSUME TInv, BeginWaiting
    PROVE  TInv'
<1>1. waiting.prof \in Versions
  BY DEF BeginWaiting, TInv, TypeOK
<1>2. Good(proc', receipt.update)
  BY <1>1, LaunchTyped, FinishGood DEF BeginWaiting
<1> QED BY <1>2, Conclude DEF BeginWaiting, TInv, TypeOK, host, docker

LEMMA RecoveriesTyped ==
    ASSUME TInv, BeginRollback \/ BeginRecovery
    PROVE  TInv'
<1>1. CASE BeginRollback
  <2>1. receipt.update \in Journals
    BY <1>1 DEF BeginRollback, Resumable, TInv, TypeOK, Receipts
  <2>2. receipt.update.old \in Versions
    BY <2>1 DEF Journals
  <2>3. Good(proc', receipt.update)
    BY <1>1, <2>1, <2>2, BeginGood, Lengths DEF BeginRollback
  <2> QED BY <1>1, <2>3, UnchangedTyped DEF BeginRollback
<1>2. CASE BeginRecovery /\ disk.profile # None
  <2>1. disk.profile \in Versions
    BY <1>2 DEF TInv, TypeOK, Disks
  <2>2. proc' = [op |-> "uninstall", at |-> Resume, prof |-> disk.profile, to |-> None,
                inside |-> FALSE, remove |-> FALSE, saved |-> None]
    BY <1>2 DEF BeginRecovery, Idle
  <2>3. Resume \in {1, 5}
    BY DEF Resume
  <2>4. proc' \in Processes /\ proc'.at \in {1, 5} /\ proc'.op = "uninstall"
    BY <2>1, <2>2, <2>3, Lengths DEF Processes
  <2>5. proc'.at <= Steps(proc'.op)
    BY <2>4, Lengths
  <2>6. Good(proc', receipt.update)
    BY <2>1, <2>2, <2>4, <2>5 DEF Good, Equipped
  <2> QED BY <1>2, <2>6, UnchangedTyped DEF BeginRecovery
<1>3. CASE BeginRecovery /\ disk.profile = None
  <2>1. Good(proc', receipt.update)
    BY <1>3, BeginGood, NoneType, Lengths DEF BeginRecovery
  <2> QED BY <1>3, <2>1, UnchangedTyped DEF BeginRecovery
<1> QED BY <1>1, <1>2, <1>3

LEMMA InstallsTyped ==
    ASSUME TInv, (\E v \in Versions : BeginInstall(v)) \/ BeginNative
    PROVE  TInv'
<1>1. ASSUME NEW v \in Versions, BeginInstall(v)
      PROVE  TInv'
  <2>1. Good(proc', receipt.update)
    BY <1>1, BeginGood, Lengths DEF BeginInstall
  <2> QED BY <1>1, <2>1, UnchangedTyped DEF BeginInstall
<1>2. CASE BeginNative
  <2>1. Good(proc', receipt.update)
    BY <1>2, BeginGood, NoneType, Lengths DEF BeginNative
  <2> QED BY <1>2, <2>1, UnchangedTyped DEF BeginNative
<1> QED BY <1>1, <1>2


-----------------------------------------------------------------------------
(* The steps.                                                              *)

LEMMA MarkTyped ==
    ASSUME TInv, Mark \/ RequireIdle \/ Unmark
    PROVE  TInv'
<1>1. Good(proc', receipt.update)
  BY AdvanceGood, FinishGood, LeaveGood DEF Mark, RequireIdle, Unmark, Finish
<1>2. receipt' = receipt /\ marker' \in BOOLEAN
  BY DEF Mark, RequireIdle, Unmark, TInv, TypeOK
<1>3. UNCHANGED <<disk, login, srv, bound, data, native, looked, waiting, seen, archived,
                  declined, mishaps>>
  BY DEF Mark, RequireIdle, Unmark, host, docker, world
<1> QED BY <1>1, <1>2, <1>3, Conclude DEF TInv, TypeOK

LEMMA SaveTyped ==
    ASSUME TInv, Save
    PROVE  TInv'
<1>1. CASE Leave
  BY <1>1, LeaveGood, UnchangedTyped DEF Save
<1>2. CASE ~Leave
  <2> DEFINE copy == [data |-> data, bundle |-> disk.bundle, skills |-> disk.skills]
  <2>1. proc' = [proc EXCEPT !.at = @ + 1, !.saved = copy]
    BY <1>2 DEF Save
  <2>2. copy \in Copies
    BY DEF TInv, TypeOK, Disks, Copies
  <2> HIDE DEF copy
  <2>3. /\ proc \in Processes
        /\ Place(proc.op, proc.at, "save")
    BY StepPlace DEF TInv, Save
  <2>4. proc.op \in {"update", "uninstall"} /\ proc.at = 3
    BY <2>3 DEF Place
  <2>9. proc' = [op |-> proc.op, at |-> proc.at + 1, prof |-> proc.prof, to |-> proc.to,
                inside |-> proc.inside, remove |-> proc.remove, saved |-> copy]
    BY <2>1, <2>3 DEF Processes
  <2>5. /\ proc' \in Processes
        /\ proc'.op = proc.op /\ proc'.at = 4 /\ proc'.prof = proc.prof
        /\ proc'.to = proc.to /\ proc'.saved = copy
    BY <2>2, <2>3, <2>4, <2>9 DEF Processes
  <2>6. proc'.at <= Steps(proc'.op)
    BY <2>4, <2>5, Lengths
  <2>7. Equipped(proc', receipt.update)
    BY <2>2, <2>4, <2>5 DEF TInv, Equipped, Save, At
  <2>8. Good(proc', receipt.update)
    BY <2>5, <2>6, <2>7 DEF Good
  <2> QED BY <2>8, UnchangedTyped DEF Save
<1> QED BY <1>1, <1>2

LEMMA ClaimTyped ==
    ASSUME TInv, Claim
    PROVE  TInv'
<1>1. /\ proc \in Processes
      /\ proc.at <= Steps(proc.op)
      /\ Place(proc.op, proc.at, "claim")
  BY StepPlace DEF TInv, Claim
<1>2. /\ proc.op \in {"install", "native", "setup", "update", "uninstall", "retire"}
      /\ proc.op = "update" => proc.at = 4
      /\ proc.op = "uninstall" => proc.at = 4
      /\ proc.at \in 1..5
      /\ proc.at < Steps(proc.op)
  BY <1>1, Lengths DEF Place
<1>3. Equipped(proc, receipt.update) /\ proc # Idle
  BY DEF TInv, Claim, At
<1>4. receipt \in Receipts
  BY DEF TInv, TypeOK
<1>5. proc.op = "update" => Journal \in Journals
  <2>1. srv.runner.up \in BOOLEAN /\ srv.webui.up \in BOOLEAN
    BY DEF TInv, TypeOK, Compositions
  <2> QED BY <1>2, <1>3, <2>1 DEF Equipped, Journal, Journals
<1>6. proc.remove \in BOOLEAN
  BY <1>1 DEF Processes
<1>7. receipt' \in Receipts /\ (proc.op = "update" => receipt'.update \in Journals)
  <2>1. CASE proc.op = "install"
    BY <2>1, Records DEF Claim, Receipts
  <2>2. CASE proc.op = "native"
    BY <2>2, Records DEF Claim, Receipts
  <2>3. CASE proc.op = "setup"
    BY <2>3, <1>4 DEF Claim, Receipts
  <2>4. CASE proc.op = "update"
    BY <2>4, <1>4, <1>5 DEF Claim, Receipts
  <2>5. CASE proc.op = "uninstall"
    BY <2>5, <1>4, <1>6 DEF Claim, Receipts
  <2>6. CASE proc.op = "retire"
    BY <2>6, <1>4 DEF Claim, Receipts
  <2> QED BY <1>2, <2>1, <2>2, <2>3, <2>4, <2>5, <2>6
<1>8. Good(proc', receipt'.update)
  <2>1. proc' = [proc EXCEPT !.at = @ + 1]
    BY <1>2 DEF Claim, Advance
  <2>2. /\ proc' \in Processes
        /\ proc'.op = proc.op /\ proc'.at = proc.at + 1 /\ proc'.prof = proc.prof
        /\ proc'.to = proc.to /\ proc'.saved = proc.saved
    BY <2>1, <1>1, <1>2 DEF Processes
  <2>3. Steps(proc.op) \in 1..18
    BY <1>2, Lengths
  <2>4. proc'.at <= Steps(proc'.op)
    BY <1>2, <2>2, <2>3
  <2>5. Equipped(proc', receipt'.update)
    BY <1>2, <1>3, <1>7, <2>2 DEF Equipped
  <2> QED BY <2>2, <2>4, <2>5 DEF Good
<1>9. UNCHANGED <<disk, login, srv, bound, data, marker, native, looked, waiting, seen,
                  archived, declined, mishaps>>
  BY DEF Claim, host, docker, world
<1> QED BY <1>7, <1>8, <1>9, Conclude DEF TInv, TypeOK

LEMMA LoginTyped ==
    ASSUME TInv, Login \/ Payload
    PROVE  TInv'
<1>1. Good(proc', receipt.update)
  BY AdvanceGood DEF Login, Payload
<1>2. receipt' = receipt /\ login' \in BOOLEAN /\ native' \in BOOLEAN
  BY DEF Login, Payload, host, TInv, TypeOK
<1>3. UNCHANGED <<disk, srv, bound, data, marker, looked, waiting, seen, archived, declined, mishaps>>
  BY DEF Login, Payload, host, docker, world
<1> QED BY <1>1, <1>2, <1>3, Conclude DEF TInv, TypeOK

LEMMA JournalKnown ==
    ASSUME TInv, NEW step \in {"rebundle", "reskill", "restore", "web", "rest"}, At(step)
    PROVE  receipt.update \in Journals
<1>1. Place(proc.op, proc.at, step)
  BY StepPlace DEF TInv
<1>2. proc.op = "rollback" \/ (proc.op = "update" /\ proc.at \in 5..16)
  BY <1>1 DEF Place
<1> QED BY <1>2 DEF TInv, Equipped, At

LEMMA ProfileKnown ==
    ASSUME TInv, NEW step, At(step),
           step \notin {"unmark", "root", "forget", "claim", "payload", "commit"}
    PROVE  proc.prof \in Versions
<1>1. Place(proc.op, proc.at, step)
  BY StepPlace DEF TInv
<1>2. proc.op \notin {"leave", "purge", "native", "retire"}
  BY <1>1 DEF Place
<1> QED BY <1>2 DEF TInv, Equipped, At

LEMMA ContainersTyped ==
    ASSUME TInv, Containers
    PROVE  TInv'
<1>1. Good(proc', receipt.update)
  BY AdvanceGood DEF Containers
<1>2. srv' \in Compositions /\ bound' \in BOOLEAN
  <2>0. TypeOK /\ srv \in Compositions /\ bound \in BOOLEAN
    BY DEF TInv, TypeOK
  <2>1. CASE At("stop") \/ At("halt")
    <3>1. SetUp(Services, FALSE) \/ SetUp({"runner"}, FALSE) \/ At("remove") \/ At("create")
            \/ At("web") \/ At("rest") \/ At("settle")
      BY DEF Containers
    <3>2. SetUp(Services, FALSE) \/ SetUp({"runner"}, FALSE)
      BY <2>1, <3>1 DEF At
    <3>3. bound' = bound
      BY <2>1 DEF Containers, At
    <3> QED BY <2>0, <3>2, <3>3, SetUpType
  <2>2. CASE At("remove")
    BY <2>2, Records DEF Containers, At
  <2>3. CASE At("create")
    <3>1. Create(proc.prof)
      BY <2>3 DEF Containers, At
    <3>2. proc.prof \in Versions
      BY <2>3, ProfileKnown
    <3>3. /\ Created(srv["runner"], proc.prof) \in [image : Versions \cup {None}, up : BOOLEAN]
          /\ Created(srv["webui"], proc.prof) \in [image : Versions \cup {None}, up : BOOLEAN]
      BY <2>0, <3>2, CreateType DEF Services
    <3> QED BY <2>0, <3>1, <3>3 DEF Create, Compositions
  <2>4. CASE At("web") \/ At("rest")
    <3>1. receipt.update.runner \in BOOLEAN /\ receipt.update.webui \in BOOLEAN
      BY <2>4, JournalKnown DEF Journals
    <3>2. /\ bound' = bound
          /\ \/ srv' = [srv EXCEPT !.webui.up = @ \/ receipt.update.webui]
             \/ srv' = [srv EXCEPT !.runner.up = @ /\ receipt.update.runner]
      BY <2>4 DEF Containers, At
    <3> QED BY <2>0, <3>1, <3>2 DEF Compositions
  <2>5. CASE At("settle")
    <3>1. bound' = bound /\ \E autostart \in BOOLEAN : srv' = [srv EXCEPT !.webui.up = autostart]
      BY <2>5 DEF Containers, At
    <3> QED BY <2>0, <3>1 DEF Compositions
  <2> QED BY <2>1, <2>2, <2>3, <2>4, <2>5 DEF Containers
<1>3. UNCHANGED <<receipt, disk, login, data, marker, native, looked, waiting, seen,
                  archived, declined, mishaps>>
  BY DEF Containers, host, world
<1> QED BY <1>1, <1>2, <1>3, Conclude DEF TInv, TypeOK

LEMMA UpTyped ==
    ASSUME TInv, Up
    PROVE  TInv'
<1>1. Good(proc', receipt.update)
  BY AdvanceGood DEF Up
<1>2. proc.prof \in Versions
  BY ProfileKnown DEF Up
<1>3. TypeOK /\ srv \in Compositions /\ bound \in BOOLEAN
  BY DEF TInv, TypeOK
<1>4. Created(srv["webui"], proc.prof) \in [image : Versions \cup {None}, up : BOOLEAN]
  BY <1>2, <1>3, CreateType DEF Services
<1>5. srv' \in Compositions
  BY <1>2, <1>4 DEF Up, Compositions
<1>6. bound' \in BOOLEAN
  BY <1>3 DEF Up, Bound
<1>7. data' \in Volumes
  BY <1>2, <1>3, TouchType DEF Up
<1>8. UNCHANGED <<receipt, disk, login, marker, native, looked, waiting, seen, archived,
                  declined, mishaps>>
  BY DEF Up, host, world
<1> QED BY <1>1, <1>5, <1>6, <1>7, <1>8, Conclude DEF TInv, TypeOK

LEMMA BindTyped ==
    ASSUME TInv, Bind
    PROVE  TInv'
<1>1. Good(proc', receipt.update)
  BY AdvanceGood DEF Bind
<1>2. proc.prof \in Versions
  BY ProfileKnown DEF Bind
<1>3. disk' \in Disks
  BY <1>2 DEF Bind, TInv, TypeOK, Disks
<1>4. waiting' \in [op : Overtaken, prof : Versions, same : BOOLEAN] \cup {None}
  BY DEF Bind, TInv, TypeOK
<1>5. UNCHANGED <<receipt, login, srv, data, marker, native, looked, seen, archived,
                  declined, mishaps>> /\ bound' = TRUE
  BY DEF Bind
<1> QED BY <1>1, <1>3, <1>4, <1>5, Conclude DEF TInv, TypeOK


LEMMA FilesTyped ==
    ASSUME TInv, Files
    PROVE  TInv'
<1>0. disk \in Disks /\ TypeOK
  BY DEF TInv, TypeOK
<1>d. declined' \in BOOLEAN
  <2>1. CASE At("skills")
    BY <2>1 DEF Files, At, EntryAndSkill
  <2>2. CASE ~At("skills")
    BY <2>2 DEF Files, TInv, TypeOK
  <2> QED BY <2>1, <2>2
<1>1. CASE At("bundle")
  <2> DEFINE v == IF proc.op = "update" THEN proc.to ELSE proc.prof
  <2>1. disk' = [disk EXCEPT !.bundle = v] /\ proc' = [proc EXCEPT !.at = @ + 1, !.prof = v]
    BY <1>1 DEF Files, At
  <2>2. /\ proc \in Processes
        /\ Place(proc.op, proc.at, "bundle")
    BY <1>1, StepPlace DEF TInv
  <2>3. \/ proc.op = "install" /\ proc.at = 2
        \/ proc.op = "update" /\ proc.at = 7
    BY <2>2 DEF Place
  <2>4. Equipped(proc, receipt.update) /\ proc # Idle
    BY <1>1 DEF TInv, At
  <2>5. v \in Versions
    BY <2>3, <2>4 DEF Equipped
  <2> HIDE DEF v
  <2>6. proc' = [op |-> proc.op, at |-> proc.at + 1, prof |-> v, to |-> proc.to,
                inside |-> proc.inside, remove |-> proc.remove, saved |-> proc.saved]
    BY <2>1, <2>2 DEF Processes
  <2>7. /\ proc' \in Processes
        /\ proc'.op = proc.op /\ proc'.at = proc.at + 1 /\ proc'.prof = v
        /\ proc'.to = proc.to /\ proc'.saved = proc.saved
    BY <2>2, <2>3, <2>5, <2>6 DEF Processes
  <2>8. proc'.at <= Steps(proc'.op)
    BY <2>3, <2>7, Lengths
  <2>9. Equipped(proc', receipt.update)
    BY <2>3, <2>4, <2>5, <2>7 DEF Equipped
  <2>10. Good(proc', receipt.update)
    BY <2>7, <2>8, <2>9 DEF Good
  <2>11. disk' \in Disks
    BY <1>0, <2>1, <2>5 DEF Disks
  <2>12. UNCHANGED <<receipt, login, srv, bound, data, marker, native, looked, waiting,
                     seen, archived, mishaps>>
    BY DEF Files, docker
  <2> QED BY <1>d, <2>10, <2>11, <2>12, Conclude DEF TInv, TypeOK
<1>2. CASE ~At("bundle")
  <2>1. Good(proc', receipt.update)
    BY <1>2, AdvanceGood DEF Files
  <2>2. disk' \in Disks
    <3>1. CASE At("venv") \/ At("profile")
      <4>1. proc.prof \in Versions
        BY <3>1, ProfileKnown
      <4> QED BY <1>0, <1>2, <3>1, <4>1 DEF Files, At, Disks
    <3>2. CASE At("rebundle") \/ At("reskill")
      <4>1. receipt.update.saved \in Copies
        BY <3>2, JournalKnown DEF Journals
      <4> QED BY <1>0, <1>2, <3>2, <4>1 DEF Files, At, Disks, Copies, RestoreSkill
    <3>3. CASE At("shelve") \/ At("scrap") \/ At("unshelve") \/ At("tidy")
      BY <1>0, <1>2, <3>3 DEF Files, At, Disks
    <3>4. CASE At("skills")
      <4>1. disk' = disk \/ disk' = [disk EXCEPT !.skills = disk.venv]
        BY <3>4 DEF Files, At, EntryAndSkill
      <4> QED BY <1>0, <4>1 DEF Disks
    <3>5. CASE At("unskill") \/ At("root")
      BY <1>0, <1>2, <3>5 DEF Files, At, Disks, NoDisk
    <3> QED BY <1>2, <3>1, <3>2, <3>3, <3>4, <3>5 DEF Files
  <2>3. UNCHANGED <<receipt, login, srv, bound, data, marker, native, looked, waiting,
                    seen, archived, mishaps>>
    BY DEF Files, docker
  <2> QED BY <1>d, <2>1, <2>2, <2>3, Conclude DEF TInv, TypeOK
<1> QED BY <1>1, <1>2

LEMMA VolumeTyped ==
    ASSUME TInv, Volume
    PROVE  TInv'
<1>1. Good(proc', receipt.update)
  BY AdvanceGood DEF Volume
<1>2. data \in Volumes /\ marker \in BOOLEAN /\ receipt.kept \subseteq Tasks
  BY DEF TInv, TypeOK, Receipts
<1>3. data' \in Volumes /\ marker' \in BOOLEAN
  <2>1. CASE At("wipe")
    BY <2>1, Records DEF Volume, At
  <2>2. CASE At("restore")
    <3>1. receipt.update.saved.data \in Volumes
      BY <2>2, JournalKnown DEF Journals, Copies
    <3> QED BY <2>2, <3>1 DEF Volume, At
  <2>3. CASE At("records")
    <3>1. NoData.task \in [Tasks -> {"none", "open", "ended"}]
      BY DEF NoData
    <3> QED BY <1>2, <2>3, <3>1 DEF Volume, At, Volumes
  <2> QED BY <2>1, <2>2, <2>3 DEF Volume
<1>4. archived' \subseteq Tasks
  BY <1>2 DEF Volume, TInv, TypeOK
<1>5. UNCHANGED <<receipt, disk, login, srv, bound, native, looked, waiting, seen, declined, mishaps>>
  BY DEF Volume, host, docker
<1> QED BY <1>1, <1>3, <1>4, <1>5, Conclude DEF TInv, TypeOK

LEMMA CommitTyped ==
    ASSUME TInv, Commit
    PROVE  TInv'
<1>1. receipt' \in Receipts
  BY DEF Commit, TInv, TypeOK, Receipts
<1>2. Good(proc', receipt'.update)
  BY AdvanceGood DEF Commit
<1>3. UNCHANGED <<disk, login, srv, bound, data, marker, native, looked, waiting, seen,
                  archived, mishaps>>
  BY DEF Commit, host, docker
<1>4. declined' \in BOOLEAN
  BY DEF Commit
<1> QED BY <1>1, <1>2, <1>3, <1>4, Conclude DEF TInv, TypeOK

LEMMA ForgetTyped ==
    ASSUME TInv, Forget
    PROVE  TInv'
<1>1. receipt' \in Receipts
  BY Records DEF Forget
<1>2. Good(proc', receipt'.update)
  BY AdvanceGood DEF Forget
<1>3. data' \in Volumes /\ marker' \in BOOLEAN
  BY Records DEF Forget, TInv, TypeOK
<1>4. archived' \subseteq Tasks
  BY DEF Forget, TInv, TypeOK, Recorded, BackedUp
<1>5. /\ UNCHANGED <<disk, login, srv, bound, native, looked, seen, mishaps>>
      /\ waiting' = None /\ declined' = FALSE
  BY DEF Forget, host, docker
<1> QED BY <1>1, <1>2, <1>3, <1>4, <1>5, Conclude DEF TInv, TypeOK

-----------------------------------------------------------------------------
(* Errors and deaths.                                                      *)

LEMMA RollBackGood ==
    ASSUME TInv, receipt.update \in Journals, RollBack
    PROVE  Good(proc', receipt.update)
<1>1. receipt.update.old \in Versions
  BY DEF Journals
<1>2. proc' = [op |-> "rollback", at |-> 1, prof |-> receipt.update.old, to |-> None,
              inside |-> TRUE, remove |-> FALSE, saved |-> None]
  BY DEF RollBack, Idle
<1>3. proc' \in Processes /\ proc'.at = 1 /\ proc'.op = "rollback"
  BY <1>1, <1>2, Lengths DEF Processes
<1>4. proc'.at <= Steps(proc'.op)
  BY <1>3, Lengths
<1> QED BY <1>1, <1>2, <1>3, <1>4 DEF Good, Equipped

\* Between claim and commit an update is at a step from 5 to 16.
LEMMA UpdateSpan ==
    ASSUME TInv, proc # Idle, proc.op = "update", ~Upto("claim"), Upto("commit")
    PROVE  proc.at \in 5..16
<1>1. proc \in Processes /\ proc.at \in 1..18
  BY DEF TInv, TypeOK, Processes
<1>2. ~(proc.at < 4) /\ proc.at # 4
  BY <1>1, Lengths DEF Upto, Before, At, Plan, UpdatePlan
<1>3. \A i \in 1..18 : Plan["update"][i] = "commit" => i = 16
  BY DEF Plan, UpdatePlan
<1>4. proc.at <= 16
  BY <1>1, <1>3, Lengths DEF Upto, Before, At
<1> QED BY <1>1, <1>2, <1>4

LEMMA FaultTyped ==
    ASSUME TInv, Fault
    PROVE  TInv'
<1>1. receipt \in Receipts /\ mishaps' \in 0..MaxMishaps
  BY InstallationAssumption DEF Fault, TInv, TypeOK
<1>2. receipt' \in Receipts /\ Good(proc', receipt'.update)
  <2>1. CASE Abandon
    BY <1>1, <2>1, FinishGood DEF Abandon, Finish
  <2>2. CASE Withdraw
    BY <1>1, <2>2, LeaveGood DEF Withdraw
  <2>3. CASE Undo
    <3>1. CASE proc.op = "install" /\ Begin("undo", proc.prof)
      <4>1. proc.prof \in Versions
        BY <3>1 DEF TInv, Equipped, Fault
      <4>2. Good(proc', receipt.update)
        BY <3>1, <4>1, BeginGood, Lengths
      <4> QED BY <1>1, <2>3, <4>2 DEF Undo
    <3>2. CASE proc.op = "update" /\ Upto("commit") /\ RollBack
      <4>1. proc.at \in 5..16
        BY <2>3, <3>2, UpdateSpan DEF Undo, Fault
      <4>2. receipt.update \in Journals
        BY <3>2, <4>1 DEF TInv, Equipped, Fault
      <4>3. Good(proc', receipt.update)
        BY <3>2, <4>2, RollBackGood
      <4> QED BY <1>1, <2>3, <4>3 DEF Undo
    <3> QED BY <2>3, <3>1, <3>2 DEF Undo
  <2>4. CASE Break
    <3>1. Finish \/ Leave
      BY <2>4 DEF Break
    <3>2. Good(proc', receipt'.update)
      BY <3>1, FinishGood, LeaveGood DEF Finish
    <3>3. \/ Spoil(None)
          \/ Spoil(receipt.update)
      BY <2>4 DEF Break
    <3>4. receipt' \in Receipts
      BY <1>1, <3>3 DEF Spoil, Receipts
    <3> QED BY <3>2, <3>4
  <2> QED BY <2>1, <2>2, <2>3, <2>4 DEF Fault
<1>3. UNCHANGED <<disk, login, srv, bound, data, marker, native, looked, waiting, seen,
                  archived, declined>>
  BY DEF Fault, host, docker
<1> QED BY <1>1, <1>2, <1>3, Conclude DEF TInv, TypeOK

LEMMA CrashTyped ==
    ASSUME TInv, Crash \/ Reboot
    PROVE  TInv'
<1>1. mishaps' \in 0..MaxMishaps
  <2>1. mishaps \in 0..MaxMishaps
    BY DEF TInv, TypeOK
  <2>2. mishaps < MaxMishaps /\ mishaps' = mishaps + 1
    BY DEF Crash, Reboot
  <2> QED BY <2>1, <2>2, InstallationAssumption
<1>2. Good(proc', receipt.update)
  BY FinishGood DEF Crash, Reboot
<1>3. srv' \in Compositions
  BY SetUpType DEF Crash, Reboot, docker, TInv, TypeOK
<1>4. /\ UNCHANGED <<receipt, disk, login, bound, data, marker, native, seen, archived, declined>>
      /\ waiting' \in {waiting, None} /\ looked' \in {looked, FALSE}
  BY DEF Crash, Reboot, host, docker
<1> QED BY <1>1, <1>2, <1>3, <1>4, Conclude DEF TInv, TypeOK

-----------------------------------------------------------------------------
(* The surroundings.                                                       *)

LEMMA ProcGood == ASSUME TInv PROVE Good(proc, receipt.update)
BY DEF TInv, TypeOK, Good

LEMMA SurroundingsTyped ==
    ASSUME TInv, Look \/ Supervise \/ Switch
    PROVE  TInv'
<1>1. Good(proc', receipt'.update)
  BY ProcGood DEF Look, Supervise, Switch
<1>2. TypeOK /\ srv.runner.image \in Versions \cup {None} /\ srv \in Compositions
  BY DEF TInv, TypeOK, Compositions
<1>3. srv' \in Compositions /\ data' \in Volumes
  <2>1. CASE Look
    BY <1>2, <2>1 DEF Look, docker, TypeOK
  <2>2. CASE Supervise
    BY <1>2, <2>2, SetUpType, TouchType DEF Supervise, TypeOK
  <2>3. CASE Switch
    BY <1>2, <2>3, SetUpType, TouchType DEF Switch, TypeOK
  <2> QED BY <2>1, <2>2, <2>3
<1>4. looked' \in BOOLEAN
  BY DEF Look, Supervise, Switch, world, TInv, TypeOK
<1>5. UNCHANGED <<receipt, disk, login, bound, marker, native, waiting, seen, archived,
                  declined, mishaps>>
  BY DEF Look, Supervise, Switch, host, docker, world
<1> QED BY <1>1, <1>3, <1>4, <1>5, Conclude DEF TInv, TypeOK

LEMMA TasksTyped ==
    ASSUME TInv, NEW t \in Tasks, CreateTask(t) \/ EndTask(t)
    PROVE  TInv'
<1>1. Good(proc', receipt'.update)
  BY ProcGood DEF CreateTask, EndTask
<1>2. data' \in Volumes
  BY DEF CreateTask, EndTask, TInv, TypeOK, Volumes
<1>3. seen' \subseteq Tasks
  BY DEF CreateTask, EndTask, world, TInv, TypeOK
<1>4. UNCHANGED <<receipt, disk, login, srv, bound, marker, native, looked, waiting,
                  archived, declined, mishaps>>
  BY DEF CreateTask, EndTask, host, docker, world
<1> QED BY <1>1, <1>2, <1>3, <1>4, Conclude DEF TInv, TypeOK

LEMMA NextTyped == TInv /\ [Next]_vars => TInv'
<1> SUFFICES ASSUME TInv, [Next]_vars PROVE TInv'
  OBVIOUS
<1>1. CASE UNCHANGED vars
  <2>1. Good(proc', receipt'.update)
    BY <1>1, ProcGood DEF vars
  <2> QED BY <1>1, <2>1, Conclude DEF vars, TInv, TypeOK
<1>2. CASE Work
  BY <1>2, MarkTyped, SaveTyped, ClaimTyped, LoginTyped, ContainersTyped, UpTyped,
     BindTyped, FilesTyped, VolumeTyped, CommitTyped, ForgetTyped DEF Work
<1>3. CASE Next /\ ~Work
  BY <1>3, CommandsTyped, BeginWaitingTyped, RecoveriesTyped, InstallsTyped, FaultTyped,
     CrashTyped, SurroundingsTyped, TasksTyped DEF Next
<1> QED BY <1>1, <1>2, <1>3

LEMMA Typed == Spec => []TInv
<1> QED BY InitTyped, NextTyped, PTL DEF Spec

\* Receipt, files, containers, data and the process that holds the lock keep their
\* types; in particular no operation runs past its plan, and a rollback always has its
\* journal (docker_install_update, docker_install_maintenance).
THEOREM TypeCorrect == Spec => []TypeOK
<1>1. TInv => TypeOK
  BY DEF TInv
<1> QED BY Typed, <1>1, PTL


-----------------------------------------------------------------------------
(* Whose pieces are on the host.                                           *)

\* What the receipt says while an operation runs.
Holding ==
    proc # Idle =>
        /\ proc.op \in {"undo", "update", "rollback", "setup", "stop", "uninstall", "purge"} =>
              receipt.type = "docker"
        /\ proc.op \in {"install", "native"} /\ proc.at = 1 =>
              receipt = NoReceipt /\ ~DockerEvidence /\ ~native
        /\ proc.op = "install" /\ proc.at > 1 =>
              receipt.type = "docker" /\ receipt.state = "installing"
        /\ proc.op = "undo" => receipt.state = "installing"
        /\ proc.op = "native" /\ proc.at > 1 => receipt.type = "native"
        /\ proc.op = "retire" => receipt.type = "native"
        /\ proc.op \in {"install", "undo"} => receipt.update = None
        /\ proc.op = "uninstall" /\ proc.at > 4 => receipt.state = "uninstalling"

\* What an operation that removes the installation has removed so far.
Removing ==
    proc # Idle =>
        /\ proc.op = "undo" => /\ proc.at > 1 => ~login
                               /\ proc.at > 2 => srv = NoServices
                               /\ proc.at > 3 => disk.skills = None
                               /\ proc.at > 4 => disk = NoDisk
        /\ proc.op = "uninstall" => /\ proc.at > 5 => ~login
                                    /\ proc.at > 6 => srv = NoServices
                                    /\ proc.at > 8 => disk.skills = None
                                    /\ proc.at > 10 => disk = NoDisk
        /\ proc.op = "purge" => /\ ~login /\ srv = NoServices /\ disk.profile = None
                                /\ proc.at > 1 => disk = NoDisk
        /\ proc.op = "retire" /\ proc.at > 2 => ~native

\* Without a profile nothing of the installation is outside the root; an installation
\* that works and one that can be rolled back have a profile.
Rooted ==
    /\ disk.profile = None => disk.skills = None /\ ~login
    /\ Resumable \/ Installed => disk.profile # None
    /\ proc # Idle =>
          /\ proc.op \in {"update", "rollback", "stop"} => disk.profile # None
          /\ proc.op = "setup" /\ proc.at > 2 => disk.profile # None
          /\ proc.op = "install" /\ proc.at > 4 => disk.profile # None

OInv == TInv /\ OwnedByReceipt /\ Holding /\ Removing /\ Rooted

\* A process goes to the next step of its plan, leaves its maintenance, or ends.
Moved ==
    \/ proc' = Idle
    \/ proc' # Idle /\ proc'.op = "leave"
    \/ /\ proc' # Idle
       /\ proc.at < Steps(proc.op)
       /\ proc'.op = proc.op /\ proc'.at = proc.at + 1

LEMMA LeaveMoved == (Leave \/ Finish) => Moved
<1>1. Leave => proc'.op = "leave" /\ proc'.at = 1
  BY DEF Leave, Idle
<1>2. Idle.at = 0
  BY DEF Idle
<1> QED BY <1>1, <1>2 DEF Moved, Finish

LEMMA AdvanceMoved ==
    ASSUME TypeOK, NEW step, At(step), Advance
    PROVE  Moved
<1>1. proc \in Processes /\ proc.at <= Steps(proc.op)
  BY StepPlace
<1>2. CASE proc.at < Steps(proc.op)
  <2>1. proc' = [proc EXCEPT !.at = @ + 1]
    BY <1>2 DEF Advance
  <2>2. proc'.op = proc.op /\ proc'.at = proc.at + 1 /\ proc.at \in 1..18
    BY <1>1, <2>1 DEF Processes
  <2>3. Idle.at = 0
    BY DEF Idle
  <2> QED BY <1>2, <2>2, <2>3 DEF Moved
<1>3. CASE ~(proc.at < Steps(proc.op))
  <2>1. Leave \/ Finish
    BY <1>3 DEF Advance, Leave, Finish
  <2> QED BY <2>1, LeaveMoved
<1> QED BY <1>2, <1>3

\* What a process begins.
Begun(op) == proc' # Idle /\ proc'.op = op /\ proc'.at = 1

LEMMA BeginBegun == ASSUME NEW op, NEW prof, Begin(op, prof) PROVE Begun(op)
<1>1. proc' = [op |-> op, at |-> 1, prof |-> prof, to |-> None, inside |-> FALSE,
              remove |-> FALSE, saved |-> None]
  BY DEF Begin, Idle
<1>2. proc'.op = op /\ proc'.at = 1 /\ Idle.at = 0
  BY <1>1 DEF Idle
<1> QED BY <1>2 DEF Begun

LEMMA InitOwned == Init => OInv
<1> SUFFICES ASSUME Init PROVE OInv
  OBVIOUS
<1>1. ~DockerEvidence /\ ~native
  BY DEF Init, DockerEvidence
<1>2. disk.skills = None /\ ~login /\ receipt.update = None
  BY DEF Init, NoDisk, NoReceipt
<1>3. ~Resumable /\ ~Installed
  BY DEF Init, NoReceipt, Resumable, Installed
<1> QED BY InitTyped, <1>1, <1>2, <1>3 DEF Init, OInv, OwnedByReceipt, Holding, Removing, Rooted

\* Steps that change neither the receipt nor anything a piece of evidence is made of.
LEMMA QuietOwned ==
    ASSUME OInv, TInv', UNCHANGED <<receipt, disk, srv, login, native>>,
           \/ proc' = proc
           \/ proc' = Idle \/ proc'.op = "leave"
           \/ /\ \E step : At(step) /\ step \notin {"claim", "off", "remove", "unskill", "root",
                                                    "payload", "profile", "bind"}
              /\ Moved
    PROVE  OInv'
<1>1. OwnedByReceipt'
  BY DEF OInv, OwnedByReceipt, DockerEvidence
<1>2. CASE proc' = proc
  BY <1>1, <1>2 DEF OInv, Holding, Removing, Rooted, Resumable, Installed, DockerEvidence
<1>3. CASE proc' = Idle \/ proc'.op = "leave"
  BY <1>1, <1>3 DEF OInv, Holding, Removing, Rooted, Resumable, Installed, DockerEvidence
<1>4. ASSUME NEW step, At(step), Moved, ~(proc' = Idle \/ proc'.op = "leave"),
             step \notin {"claim", "off", "remove", "unskill", "root", "payload", "profile",
                           "bind"}
      PROVE  OInv'
  <2>1. Place(proc.op, proc.at, step) /\ proc \in Processes /\ proc # Idle
    BY <1>4, StepPlace DEF OInv, TInv, At
  <2>2. /\ proc' # Idle
        /\ proc'.op = proc.op /\ proc'.at = proc.at + 1 /\ proc.at \in 1..18
    BY <1>4, <2>1 DEF Moved, Processes
  <2>3. Holding'
    BY <1>4, <2>1, <2>2 DEF OInv, Holding, Place
  <2>4. Removing'
    BY <1>4, <2>1, <2>2 DEF OInv, Removing, Place
  <2>5. Rooted'
    BY <1>4, <2>1, <2>2 DEF OInv, Rooted, Resumable, Installed, Place
  <2> QED BY <1>1, <2>3, <2>4, <2>5 DEF OInv
<1> QED BY <1>2, <1>3, <1>4


\* An operation begins: nothing has changed, and the guards give what it relies on.
LEMMA BegunOwned ==
    ASSUME OInv, TInv', UNCHANGED <<receipt, disk, srv, login, native>>, NEW op, Begun(op),
           op \in {"undo", "update", "rollback", "setup", "stop", "uninstall", "purge"} =>
              receipt.type = "docker",
           op \in {"install", "native"} => receipt = NoReceipt /\ ~DockerEvidence /\ ~native,
           op = "retire" => receipt.type = "native",
           op \in {"install", "undo"} => receipt.update = None,
           op = "undo" => receipt.state = "installing",
           op = "purge" => ~login /\ srv = NoServices /\ disk.profile = None,
           op \in {"update", "rollback", "stop"} => disk.profile # None
    PROVE  OInv'
<1>1. proc' # Idle /\ proc'.op = op /\ proc'.at = 1
  BY DEF Begun
<1>2. OwnedByReceipt'
  BY DEF OInv, OwnedByReceipt, DockerEvidence
<1>3. Holding'
  BY <1>1 DEF Holding, DockerEvidence
<1>4. Removing'
  BY <1>1 DEF Removing
<1>5. Rooted'
  BY <1>1 DEF OInv, Rooted, Resumable, Installed
<1> QED BY <1>2, <1>3, <1>4, <1>5 DEF OInv

LEMMA ResumedOwned ==
    ASSUME OInv, TInv', UNCHANGED <<receipt, disk, srv, login, native>>,
           receipt.type = "docker", proc' # Idle, proc'.op = "uninstall", proc'.at = Resume
    PROVE  OInv'
<1>1. OwnedByReceipt'
  BY DEF OInv, OwnedByReceipt, DockerEvidence
<1>2. proc'.at = 1 \/ (proc'.at = 5 /\ receipt.state = "uninstalling")
  BY DEF Resume
<1>3. Holding'
  BY <1>2 DEF Holding
<1>4. Removing'
  BY <1>2 DEF Removing
<1>5. Rooted'
  BY DEF OInv, Rooted, Resumable, Installed
<1> QED BY <1>1, <1>3, <1>4, <1>5 DEF OInv

LEMMA LaunchOwned ==
    ASSUME OInv, TInv', UNCHANGED <<receipt, disk, srv, login, native>>,
           NEW op, NEW prof, NEW same, Launch(op, prof, same)
    PROVE  OInv'
<1>1. receipt.type = "docker" /\ (op \in {"update", "stop"} => disk.profile # None)
  BY DEF Launch, Admitted, OInv, Rooted, Installed
<1>2. CASE op \in {"setup", "stop"} /\ Begin(op, prof)
  BY <1>1, <1>2, BeginBegun, BegunOwned
<1>3. ASSUME NEW v \in Versions, op = "update",
             proc' = [Idle EXCEPT !.op = op, !.at = 1, !.prof = prof, !.to = v]
      PROVE  OInv'
  <2>1. proc' = [op |-> op, at |-> 1, prof |-> prof, to |-> v, inside |-> FALSE,
                remove |-> FALSE, saved |-> None]
    BY <1>3 DEF Idle
  <2>2. proc'.op = "update" /\ proc'.at = 1 /\ Idle.at = 0
    BY <1>3, <2>1 DEF Idle
  <2>3. Begun("update")
    BY <2>2 DEF Begun
  <2> QED BY <1>1, <1>3, <2>3, BegunOwned
<1>4. ASSUME NEW r \in BOOLEAN, op = "uninstall",
             proc' = [Idle EXCEPT !.op = op, !.at = Resume, !.prof = prof, !.remove = r]
      PROVE  OInv'
  <2>1. proc' = [op |-> op, at |-> Resume, prof |-> prof, to |-> None, inside |-> FALSE,
                remove |-> r, saved |-> None]
    BY <1>4 DEF Idle
  <2>2. proc'.op = "uninstall" /\ proc'.at = Resume /\ Idle.at = 0 /\ Resume # 0
    BY <1>4, <2>1 DEF Idle, Resume
  <2> QED BY <1>1, <2>2, ResumedOwned
<1> QED BY <1>2, <1>3, <1>4 DEF Launch

LEMMA BeginsOwned ==
    ASSUME OInv, TInv',
           \/ \E op : BeginCommand(op)
           \/ BeginWaiting \/ BeginRollback \/ BeginRecovery \/ BeginNative
           \/ \E v \in Versions : BeginInstall(v)
    PROVE  OInv'
<1>1. UNCHANGED <<receipt, disk, srv, login, native>>
  BY DEF BeginCommand, BeginWaiting, BeginRollback, BeginRecovery, BeginNative, BeginInstall,
         host, docker
<1>2. ASSUME NEW op, BeginCommand(op)
      PROVE  OInv'
  BY <1>1, <1>2, LaunchOwned DEF BeginCommand
<1>3. CASE BeginWaiting
  <2>1. CASE Launch(waiting.op, waiting.prof, waiting.same)
    BY <1>1, <2>1, LaunchOwned
  <2>2. CASE proc' = Idle
    BY <1>1, <2>2, QuietOwned
  <2> QED BY <1>3, <2>1, <2>2 DEF BeginWaiting
<1>4. CASE BeginRollback
  <2>1. Begun("rollback") /\ disk.profile # None
    BY <1>4, BeginBegun DEF BeginRollback, OInv, Rooted
  <2>2. receipt.type = "docker"
    BY <2>1, <1>4 DEF OInv, Rooted, OwnedByReceipt, DockerEvidence, NoDisk
  <2> QED BY <1>1, <2>1, <2>2, BegunOwned
<1>5. CASE BeginRecovery /\ disk.profile # None
  <2>1. proc' = [op |-> "uninstall", at |-> Resume, prof |-> disk.profile, to |-> None,
                inside |-> FALSE, remove |-> FALSE, saved |-> None]
    BY <1>5 DEF BeginRecovery, Idle
  <2>2. proc'.op = "uninstall" /\ proc'.at = Resume /\ Idle.at = 0 /\ Resume # 0
    BY <2>1 DEF Idle, Resume
  <2> QED BY <1>1, <1>5, <2>2, ResumedOwned DEF BeginRecovery
<1>6. CASE BeginRecovery /\ disk.profile = None
  <2>1. Begun("purge") /\ srv = NoServices /\ receipt.type = "docker"
    BY <1>6, BeginBegun DEF BeginRecovery
  <2>2. ~login
    BY <1>6 DEF OInv, Rooted
  <2> QED BY <1>1, <1>6, <2>1, <2>2, BegunOwned
<1>7. CASE BeginNative
  <2>1. CASE receipt = NoReceipt /\ ~native /\ Begin("native", None)
    <3>1. Begun("native") /\ ~DockerEvidence
      BY <1>7, <2>1, BeginBegun DEF BeginNative
    <3> QED BY <1>1, <2>1, <3>1, BegunOwned
  <2>2. CASE receipt.type = "native" /\ Begin("retire", None)
    BY <1>1, <2>2, BeginBegun, BegunOwned
  <2> QED BY <1>7, <2>1, <2>2 DEF BeginNative
<1>8. ASSUME NEW v \in Versions, BeginInstall(v)
      PROVE  OInv'
  <2>1. Begun("install") /\ receipt = NoReceipt /\ ~DockerEvidence /\ ~native
    BY <1>8, BeginBegun DEF BeginInstall
  <2>2. receipt.update = None
    BY <2>1, Records
  <2> QED BY <1>1, <2>1, <2>2, BegunOwned
<1> QED BY <1>2, <1>3, <1>4, <1>5, <1>6, <1>7, <1>8


\* What a step that moves on relies on: the place it was at and the one it comes to.
LEMMA MovedOn ==
    ASSUME OInv, NEW step, At(step), Moved, ~(proc' = Idle \/ proc'.op = "leave")
    PROVE  /\ Place(proc.op, proc.at, step) /\ proc # Idle /\ proc.at \in 1..18
           /\ proc' # Idle /\ proc'.op = proc.op /\ proc'.at = proc.at + 1
<1>1. Place(proc.op, proc.at, step) /\ proc \in Processes /\ proc # Idle
  BY StepPlace DEF OInv, TInv, At
<1> QED BY <1>1 DEF Moved, Processes


LEMMA ClaimOwned ==
    ASSUME OInv, TInv', Claim
    PROVE  OInv'
<1>1. Place(proc.op, proc.at, "claim") /\ proc \in Processes /\ proc # Idle
  BY StepPlace DEF OInv, TInv, At, Claim
<1>2. \/ proc.op \in {"install", "native", "retire"} /\ proc.at = 1
      \/ proc.op \in {"update", "uninstall"} /\ proc.at = 4
      \/ proc.op = "setup" /\ proc.at = 5
  BY <1>1 DEF Place
<1>3. proc'.op = proc.op /\ proc'.at = proc.at + 1 /\ proc' # Idle
  <2>1. proc' = [proc EXCEPT !.at = @ + 1]
    BY <1>2, Lengths DEF Claim, Advance
  <2>2. proc.at \in 1..18 /\ Idle.at = 0
    BY <1>1 DEF Processes, Idle
  <2> QED BY <1>1, <2>1, <2>2 DEF Processes
<1>4. UNCHANGED <<disk, srv, login, native>>
  BY DEF Claim, host, docker
<1>5. receipt \in Receipts
  BY DEF OInv, TInv, TypeOK
<1>6. /\ proc.op \in {"install", "update", "setup", "uninstall"} => receipt'.type = "docker"
      /\ proc.op \in {"native", "retire"} => receipt'.type = "native"
      /\ proc.op = "install" => receipt'.state = "installing" /\ receipt'.update = None
      /\ receipt'.state # "installed"
      /\ proc.op \in {"uninstall", "retire"} => receipt'.state = "uninstalling"
      /\ proc.op \in {"native", "setup"} => receipt'.update \in {None, receipt.update}
      /\ proc.op = "setup" => receipt'.update = receipt.update
      /\ proc.op = "native" => receipt'.update = None
  <2>1. CASE proc.op \in {"install", "native"}
    BY <2>1, <1>2 DEF Claim, NoReceipt
  <2>2. CASE proc.op \in {"setup", "update", "uninstall", "retire"}
    BY <2>2, <1>1, <1>2, <1>5 DEF Claim, Receipts, OInv, Holding
  <2> QED BY <1>2, <2>1, <2>2
<1>7. OwnedByReceipt'
  BY <1>1, <1>2, <1>4, <1>6 DEF OInv, OwnedByReceipt, Holding, DockerEvidence
<1>8. Holding'
  BY <1>2, <1>3, <1>6 DEF Holding
<1>9. Removing'
  BY <1>2, <1>3, <1>4 DEF Removing
<1>10. Rooted'
  BY <1>1, <1>2, <1>3, <1>4, <1>6 DEF OInv, Rooted, Resumable, Installed
<1> QED BY <1>7, <1>8, <1>9, <1>10 DEF OInv

LEMMA LoginOwned ==
    ASSUME OInv, TInv', Login
    PROVE  OInv'
<1>1. Moved /\ \E step \in {"off", "login"} : At(step) /\ login' = (step = "login")
  BY AdvanceMoved DEF Login, OInv, TInv
<1>2. PICK step \in {"off", "login"} : At(step) /\ login' = (step = "login")
  BY <1>1
<1>3. /\ Place(proc.op, proc.at, step) /\ proc \in Processes /\ proc # Idle
      /\ proc.at \in 1..18
  BY <1>2, StepPlace DEF OInv, TInv, At, Processes
<1>4. UNCHANGED <<receipt, disk, srv, native>>
  BY DEF Login, docker
<1>5. receipt.type = "docker" /\ (step = "login" => disk.profile # None)
  BY <1>2, <1>3 DEF OInv, Holding, Rooted, Place
<1>6. OwnedByReceipt'
  BY <1>4, <1>5 DEF OInv, OwnedByReceipt
<1>7. CASE proc' = Idle \/ proc'.op = "leave"
  <2>1. Holding' /\ Removing'
    BY <1>7 DEF Holding, Removing
  <2>2. Rooted'
    BY <1>2, <1>4, <1>5, <1>7 DEF OInv, Rooted, Resumable, Installed
  <2> QED BY <1>6, <2>1, <2>2 DEF OInv
<1>8. CASE ~(proc' = Idle \/ proc'.op = "leave")
  <2>1. proc' # Idle /\ proc'.op = proc.op /\ proc'.at = proc.at + 1
    BY <1>1, <1>8 DEF Moved
  <2>2. Holding'
    BY <1>2, <1>3, <1>4, <2>1 DEF OInv, Holding, Place
  <2>3. Removing'
    <3>1. \/ step = "off" /\ ~login'
          \/ step = "login" /\ proc.op \notin {"undo", "uninstall", "purge", "retire"}
      BY <1>2, <1>3 DEF Place
    <3>2. step = "off" => \/ proc.op = "undo" /\ proc.at = 1
                          \/ proc.op = "uninstall" /\ proc.at = 5
                          \/ proc.op \in {"update", "rollback"}
      BY <1>3 DEF Place
    <3> QED BY <1>4, <2>1, <3>1, <3>2 DEF OInv, Removing
  <2>4. Rooted'
    BY <1>2, <1>3, <1>4, <1>5, <2>1 DEF OInv, Rooted, Resumable, Installed, Place
  <2> QED BY <1>6, <2>2, <2>3, <2>4 DEF OInv
<1> QED BY <1>7, <1>8


LEMMA ContainersOwned ==
    ASSUME OInv, TInv', Containers
    PROVE  OInv'
<1>1. UNCHANGED <<receipt, disk, login, native>>
  BY DEF Containers, host, world
<1>2. PICK step \in {"stop", "halt", "remove", "create", "web", "rest", "settle"} :
         At(step) /\ (step = "remove" => srv' = NoServices)
  BY DEF Containers, At
<1>3. Moved
  BY AdvanceMoved DEF Containers, OInv, TInv
<1>4. /\ Place(proc.op, proc.at, step) /\ proc \in Processes /\ proc # Idle
      /\ proc.at \in 1..18
  BY <1>2, StepPlace DEF OInv, TInv, At, Processes
<1>5. /\ proc.op \in {"undo", "uninstall"} => step = "remove"
      /\ proc.op \notin {"purge", "retire", "native", "install", "leave"}
         \/ (proc.op = "install" /\ proc.at > 1)
  BY <1>4 DEF Place
<1>6. receipt.type = "docker"
  BY <1>4, <1>5, Lengths DEF OInv, Holding, Processes
<1>7. OwnedByReceipt'
  BY <1>1, <1>6 DEF OInv, OwnedByReceipt
<1>8. CASE proc' = Idle \/ proc'.op = "leave"
  <2>1. Holding' /\ Removing'
    BY <1>8 DEF Holding, Removing
  <2>2. Rooted'
    BY <1>1, <1>8 DEF OInv, Rooted, Resumable, Installed
  <2> QED BY <1>7, <2>1, <2>2 DEF OInv
<1>9. CASE ~(proc' = Idle \/ proc'.op = "leave")
  <2>1. proc' # Idle /\ proc'.op = proc.op /\ proc'.at = proc.at + 1
    BY <1>3, <1>9 DEF Moved
  <2>2. Holding'
    BY <1>1, <1>2, <1>4, <1>5, <1>6, <2>1 DEF OInv, Holding, Place
  <2>3. Removing'
    <3>1. step = "remove" => \/ proc.op = "undo" /\ proc.at = 2
                             \/ proc.op = "uninstall" /\ proc.at = 6
      BY <1>4 DEF Place
    <3> QED BY <1>1, <1>2, <1>4, <1>5, <2>1, <3>1 DEF OInv, Removing
  <2>4. Rooted'
    BY <1>1, <1>2, <1>4, <2>1 DEF OInv, Rooted, Resumable, Installed, Place
  <2> QED BY <1>7, <2>2, <2>3, <2>4 DEF OInv
<1> QED BY <1>8, <1>9

\* The steps that start containers, write the profile or change the root belong to
\* operations under a receipt of the Docker edition.
LEMMA DockerSteps ==
    ASSUME OInv, NEW step, At(step),
           step \notin {"claim", "payload", "commit", "forget", "unmark"}
    PROVE  receipt.type = "docker"
<1>1. Place(proc.op, proc.at, step) /\ proc # Idle
  BY StepPlace DEF OInv, TInv, At
<1>2. \/ proc.op \in {"undo", "update", "rollback", "setup", "stop", "uninstall", "purge"}
      \/ proc.op = "install" /\ proc.at > 1
  BY <1>1 DEF Place
<1> QED BY <1>1, <1>2 DEF OInv, Holding

LEMMA UpOwned ==
    ASSUME OInv, TInv', Up \/ Bind
    PROVE  OInv'
<1>1. PICK step \in {"up", "bind"} : At(step)
  BY DEF Up, Bind
<1>2. Moved
  BY AdvanceMoved DEF Up, Bind, OInv, TInv
<1>3. /\ Place(proc.op, proc.at, step) /\ proc \in Processes /\ proc # Idle
      /\ proc.at \in 1..18
  BY <1>1, StepPlace DEF OInv, TInv, At, Processes
<1>4. receipt.type = "docker"
  BY <1>1, DockerSteps
<1>5. proc.prof \in Versions
  BY <1>1, ProfileKnown DEF OInv
<1>6. UNCHANGED <<receipt, login, native>>
  BY DEF Up, Bind, host, world
<1>7. disk' = disk \/ (disk'.profile # None /\ At("bind"))
  BY <1>5, InstallationAssumption DEF Up, Bind, host, OInv, TInv, TypeOK, Disks
<1>7a. step = "bind" => disk'.profile # None
  BY <1>1, <1>5, InstallationAssumption DEF Up, Bind, At, OInv, TInv, TypeOK, Disks
<1>8. OwnedByReceipt'
  BY <1>4, <1>6 DEF OInv, OwnedByReceipt
<1>9. CASE proc' = Idle \/ proc'.op = "leave"
  <2>1. Holding' /\ Removing'
    BY <1>9 DEF Holding, Removing
  <2>2. Rooted'
    BY <1>6, <1>7, <1>9 DEF OInv, Rooted, Resumable, Installed
  <2> QED BY <1>8, <2>1, <2>2 DEF OInv
<1>10. CASE ~(proc' = Idle \/ proc'.op = "leave")
  <2>1. proc' # Idle /\ proc'.op = proc.op /\ proc'.at = proc.at + 1
    BY <1>2, <1>10 DEF Moved
  <2>2. proc.op \in {"install", "update", "rollback", "setup"} /\ (proc.op = "install" => proc.at > 1)
    BY <1>3 DEF Place
  <2>3. Holding'
    BY <1>3, <1>4, <1>6, <2>1, <2>2 DEF OInv, Holding
  <2>4. Removing'
    BY <2>1, <2>2 DEF Removing
  <2>5. Rooted'
    <3>1. /\ proc.op = "setup" /\ proc.at = 2 => step = "bind"
          /\ proc.op = "install" /\ proc.at = 4 => step = "bind"
      BY <1>3 DEF Place
    <3>1a. proc.op = "install" => proc.at > 4
      BY <1>3 DEF Place
    <3> QED BY <1>3, <1>6, <1>7, <1>7a, <2>1, <2>2, <3>1, <3>1a DEF OInv, Rooted, Resumable, Installed
  <2> QED BY <1>8, <2>3, <2>4, <2>5 DEF OInv
<1> QED BY <1>9, <1>10


LEMMA FilesMoved ==
    ASSUME TypeOK, Files
    PROVE  Moved
<1>1. CASE At("bundle")
  <2>1. Place(proc.op, proc.at, "bundle") /\ proc \in Processes /\ proc.at \in 1..18
    BY <1>1, StepPlace DEF Processes
  <2>2. proc' = [proc EXCEPT !.at = @ + 1, !.prof = IF proc.op = "update" THEN proc.to ELSE proc.prof]
    BY <1>1 DEF Files, At
  <2>3. proc' = [op |-> proc.op, at |-> proc.at + 1,
                prof |-> IF proc.op = "update" THEN proc.to ELSE proc.prof, to |-> proc.to,
                inside |-> proc.inside, remove |-> proc.remove, saved |-> proc.saved]
    BY <2>1, <2>2 DEF Processes
  <2>4. proc'.op = proc.op /\ proc'.at = proc.at + 1 /\ Idle.at = 0
    BY <2>3 DEF Idle
  <2>5. proc.at < Steps(proc.op)
    BY <2>1, Lengths DEF Place
  <2> QED BY <2>1, <2>4, <2>5 DEF Moved
<1>2. CASE ~At("bundle")
  <2>1. Advance /\ \E step : At(step)
    BY <1>2 DEF Files
  <2> QED BY <2>1, AdvanceMoved
<1> QED BY <1>1, <1>2

LEMMA FilesOwned ==
    ASSUME OInv, TInv', Files
    PROVE  OInv'
<1> DEFINE FileSteps == {"bundle", "venv", "profile", "shelve", "scrap", "unshelve", "tidy",
                         "skills", "unskill", "rebundle", "reskill", "root"}
<1>1. PICK step \in FileSteps :
         /\ At(step)
         /\ step = "unskill" => disk'.skills = None
         /\ step = "root" => disk' = [NoDisk EXCEPT !.skills = disk.skills]
         /\ step = "profile" => disk'.profile # None
         /\ step \notin {"profile", "root"} => disk'.profile = disk.profile
         /\ step \notin {"skills", "unskill", "reskill"} => disk'.skills = disk.skills
  <2>1. disk \in Disks
    BY DEF OInv, TInv, TypeOK
  <2>2. PICK step \in FileSteps : At(step)
    BY DEF Files
  <2>3. CASE step = "profile"
    <3>1. proc.prof \in Versions
      BY <2>2, <2>3, ProfileKnown DEF OInv
    <3>2. disk' = [disk EXCEPT !.profile = proc.prof]
      BY <2>2, <2>3 DEF Files, At
    <3> QED BY <2>1, <2>2, <2>3, <3>1, <3>2, InstallationAssumption DEF Disks
  <2>4. CASE step = "root"
    <3>1. disk' = [NoDisk EXCEPT !.skills = disk.skills]
      BY <2>2, <2>4 DEF Files, At
    <3> QED BY <2>2, <2>4, <3>1 DEF NoDisk
  <2>5. CASE step \in {"bundle", "venv", "shelve", "scrap"}
    BY <2>1, <2>2, <2>5 DEF Files, At, Disks
  <2>6. CASE step \in {"unshelve", "tidy", "rebundle"}
    BY <2>1, <2>2, <2>6 DEF Files, At, Disks
  <2>7. CASE step \in {"skills", "unskill", "reskill"}
    BY <2>1, <2>2, <2>7 DEF Files, EntryAndSkill, RestoreSkill, At, Disks
  <2> QED BY <2>3, <2>4, <2>5, <2>6, <2>7
<1>2. /\ Place(proc.op, proc.at, step) /\ proc \in Processes /\ proc # Idle
      /\ proc.at \in 1..18
  BY <1>1, StepPlace DEF OInv, TInv, At, Processes
<1>3. receipt.type = "docker"
  BY <1>1, DockerSteps
<1>4. UNCHANGED <<receipt, srv, login, native>>
  BY DEF Files, docker
<1>5. Moved
  BY FilesMoved DEF OInv, TInv
<1>6. OwnedByReceipt'
  BY <1>3, <1>4 DEF OInv, OwnedByReceipt
<1>7. step = "root" => /\ disk' = NoDisk /\ ~login
                       /\ \/ proc.op = "undo" /\ proc.at = 4
                          \/ proc.op = "uninstall" /\ proc.at = 10
                          \/ proc.op = "purge" /\ proc.at = 1
  <2>1. step = "root" => \/ proc.op = "undo" /\ proc.at = 4
                         \/ proc.op = "uninstall" /\ proc.at = 10
                         \/ proc.op = "purge" /\ proc.at = 1
    BY <1>2 DEF Place
  <2>2. step = "root" => disk.skills = None /\ ~login
    BY <1>2, <2>1 DEF OInv, Removing, Rooted
  <2>3. step = "root" => disk' = NoDisk
    BY <1>1, <2>2 DEF NoDisk
  <2> QED BY <2>1, <2>2, <2>3
<1>8. disk'.profile = None => disk'.skills = None /\ ~login
  <2>1. CASE step \in {"skills", "reskill"}
    <3>1. disk.profile # None
      BY <1>2, <2>1 DEF OInv, Rooted, Place
    <3> QED BY <1>1, <2>1, <3>1
  <2>2. CASE step \in {"profile", "root"}
    BY <1>1, <1>7, <2>2 DEF NoDisk
  <2>3. CASE step \notin {"skills", "reskill", "profile", "root"}
    BY <1>1, <2>3 DEF OInv, Rooted
  <2> QED BY <2>1, <2>2, <2>3
<1>9. (Resumable \/ Installed)' => disk'.profile # None
  <2>1. step = "root" => ~Resumable /\ ~Installed
    <3>1. proc.op = "purge" /\ step = "root" => disk.profile = None
      BY <1>2 DEF OInv, Removing
    <3> QED BY <1>2, <1>7, <3>1 DEF OInv, Rooted, Resumable, Installed, Holding
  <2> QED BY <1>1, <1>4, <2>1 DEF OInv, Rooted, Resumable, Installed
<1>10. CASE proc' = Idle \/ proc'.op = "leave"
  <2>1. Holding' /\ Removing'
    BY <1>10 DEF Holding, Removing
  <2>2. Rooted'
    BY <1>4, <1>8, <1>9, <1>10 DEF Rooted
  <2> QED BY <1>6, <2>1, <2>2 DEF OInv
<1>11. CASE ~(proc' = Idle \/ proc'.op = "leave")
  <2>1. proc' # Idle /\ proc'.op = proc.op /\ proc'.at = proc.at + 1
    BY <1>5, <1>11 DEF Moved
  <2>2. Holding'
    BY <1>2, <1>3, <1>4, <2>1 DEF OInv, Holding, Place
  <2>3. Removing'
    <3>1. step # "root" /\ step # "unskill" => proc.op # "undo" /\ proc.op # "uninstall"
                                               /\ proc.op # "purge" /\ proc.op # "retire"
      BY <1>1, <1>2 DEF Place
    <3>2. step = "unskill" => \/ proc.op = "undo" /\ proc.at = 3
                              \/ proc.op = "uninstall" /\ proc.at = 8
      BY <1>2 DEF Place
    <3>3. CASE step = "root"
      BY <1>2, <1>4, <1>7, <2>1, <3>3 DEF OInv, Removing, NoDisk
    <3>4. CASE step = "unskill"
      BY <1>1, <1>2, <1>4, <2>1, <3>2, <3>4 DEF OInv, Removing
    <3>5. CASE step # "root" /\ step # "unskill"
      BY <2>1, <3>1, <3>5 DEF Removing
    <3> QED BY <3>3, <3>4, <3>5
  <2>4. Rooted'
    <3>1. step = "root" => proc.op \notin {"update", "rollback", "stop", "setup", "install"}
      BY <1>7
    <3>2. proc.op = "install" /\ proc.at = 4 => step = "profile"
      BY <1>2 DEF Place
    <3>3. proc.op = "setup" => step = "skills" /\ proc.at > 2
      BY <1>1, <1>2 DEF Place
    <3>4. proc.op \in {"update", "rollback", "stop"} => disk'.profile # None
      BY <1>1, <1>2, <3>1 DEF OInv, Rooted, Place
    <3>5. proc.op = "setup" => disk'.profile # None
      BY <1>1, <1>2, <3>3 DEF OInv, Rooted
    <3>6. proc.op = "install" /\ proc'.at > 4 => disk'.profile # None
      BY <1>1, <1>2, <2>1, <3>1, <3>2 DEF OInv, Rooted
    <3> QED BY <1>4, <1>8, <1>9, <2>1, <3>4, <3>5, <3>6 DEF Rooted
  <2> QED BY <1>6, <2>2, <2>3, <2>4 DEF OInv
<1> QED BY <1>10, <1>11


LEMMA QuietStepsOwned ==
    ASSUME OInv, TInv', Mark \/ RequireIdle \/ Save \/ Volume \/ Unmark
    PROVE  OInv'
<1>1. UNCHANGED <<receipt, disk, srv, login, native>>
  BY DEF Mark, RequireIdle, Save, Volume, Unmark, host, docker
<1>2. PICK step \in {"mark", "idle", "save", "wipe", "restore", "records", "unmark"} : At(step)
  BY DEF Mark, RequireIdle, Save, Volume, Unmark
<1>3. CASE Advance \/ Finish \/ Leave
  <2>1. Moved
    BY <1>2, <1>3, AdvanceMoved, LeaveMoved DEF OInv, TInv
  <2> QED BY <1>1, <1>2, <2>1, QuietOwned
<1>4. CASE ~(Advance \/ Finish \/ Leave)
  <2>1. Save
    BY <1>4 DEF Mark, RequireIdle, Volume, Unmark
  <2>2. proc' = [proc EXCEPT !.at = @ + 1,
                             !.saved = [data |-> data, bundle |-> disk.bundle,
                                        skills |-> disk.skills]]
    BY <1>4, <2>1 DEF Save
  <2>3. proc \in Processes /\ Place(proc.op, proc.at, "save") /\ proc.at \in 1..18
    BY <2>1, StepPlace DEF Save, OInv, TInv, Processes
  <2>4. proc' = [op |-> proc.op, at |-> proc.at + 1, prof |-> proc.prof, to |-> proc.to,
                inside |-> proc.inside, remove |-> proc.remove,
                saved |-> [data |-> data, bundle |-> disk.bundle, skills |-> disk.skills]]
    BY <2>2, <2>3 DEF Processes
  <2>5. proc'.op = proc.op /\ proc'.at = proc.at + 1 /\ Idle.at = 0
    BY <2>4 DEF Idle
  <2>6. proc.at < Steps(proc.op)
    BY <2>3, Lengths DEF Place
  <2>7. Moved
    BY <2>3, <2>5, <2>6 DEF Moved
  <2> QED BY <1>1, <1>2, <2>7, QuietOwned
<1> QED BY <1>3, <1>4

LEMMA PayloadOwned ==
    ASSUME OInv, TInv', Payload
    PROVE  OInv'
<1>1. /\ Place(proc.op, proc.at, "payload") /\ proc \in Processes /\ proc # Idle
      /\ proc.at \in 1..18
  BY StepPlace DEF Payload, OInv, TInv, At, Processes
<1>2. proc.op \in {"native", "retire"} /\ proc.at = 2
  BY <1>1 DEF Place
<1>3. Moved
  BY AdvanceMoved DEF Payload, OInv, TInv
<1>4. UNCHANGED <<receipt, disk, srv, login>> /\ native' = (proc.op = "native")
  BY DEF Payload, host, docker
<1>5. receipt.type = "native"
  BY <1>1, <1>2 DEF OInv, Holding
<1>6. OwnedByReceipt'
  BY <1>4, <1>5 DEF OInv, OwnedByReceipt, DockerEvidence
<1>7. proc' = Idle \/ proc'.op = "leave"
      \/ (proc' # Idle /\ proc'.op = proc.op /\ proc'.at = 3 /\ proc.op \in {"native", "retire"})
  BY <1>2, <1>3 DEF Moved
<1>8. Holding'
  BY <1>4, <1>5, <1>7 DEF Holding
<1>9. Removing'
  <2>1. proc.op = "retire" => ~native'
    BY <1>4
  <2> QED BY <1>7, <2>1 DEF Removing
<1>10. Rooted'
  BY <1>4, <1>7 DEF OInv, Rooted, Resumable, Installed
<1> QED BY <1>6, <1>8, <1>9, <1>10 DEF OInv

LEMMA CommitOwned ==
    ASSUME OInv, TInv', Commit
    PROVE  OInv'
<1>1. /\ Place(proc.op, proc.at, "commit") /\ proc \in Processes /\ proc # Idle
      /\ proc.at \in 1..18
  BY StepPlace DEF Commit, OInv, TInv, At, Processes
<1>2. Moved
  BY AdvanceMoved DEF Commit, OInv, TInv
<1>3. UNCHANGED <<disk, srv, login, native>>
  BY DEF Commit, host, docker
<1>4. receipt'.type = receipt.type /\ receipt'.state = "installed" /\ receipt'.update = None
  BY DEF Commit, OInv, TInv, TypeOK, Receipts
<1>5. OwnedByReceipt'
  BY <1>3, <1>4 DEF OInv, OwnedByReceipt, DockerEvidence
<1>6. receipt.type = "docker" => disk.profile # None
  <2>1. \/ proc.op \in {"update", "rollback"}
        \/ proc.op = "install" /\ proc.at > 4
        \/ proc.op = "setup" /\ proc.at > 2
        \/ proc.op = "native" /\ proc.at > 1
    BY <1>1 DEF Place
  <2> QED BY <1>1, <2>1 DEF OInv, Rooted, Holding
<1>7. \/ proc' = Idle \/ proc'.op = "leave"
      \/ proc' # Idle /\ proc'.op \in {"update", "setup"} /\ receipt.type = "docker"
  <2>1. proc.op \in {"install", "rollback", "native"} => proc.at = Steps(proc.op)
    BY <1>1, Lengths DEF Place
  <2>2. proc.op \in {"install", "rollback", "native", "update", "setup"}
    BY <1>1 DEF Place
  <2> QED BY <1>1, <1>2, <2>1, <2>2 DEF Moved, OInv, Holding
<1>8. Holding' /\ Removing'
  BY <1>4, <1>7 DEF Holding, Removing
<1>9. Rooted'
  BY <1>3, <1>4, <1>6, <1>7 DEF OInv, Rooted, Resumable, Installed
<1> QED BY <1>5, <1>8, <1>9 DEF OInv

LEMMA ForgetOwned ==
    ASSUME OInv, TInv', Forget
    PROVE  OInv'
<1>1. /\ Place(proc.op, proc.at, "forget") /\ proc \in Processes /\ proc # Idle
      /\ proc.at \in 1..18
  BY StepPlace DEF Forget, OInv, TInv, At, Processes
<1>2. \/ proc.op = "undo" /\ proc.at = 5
      \/ proc.op = "uninstall" /\ proc.at = 11
      \/ proc.op = "purge" /\ proc.at = 2
      \/ proc.op = "retire" /\ proc.at = 3
  BY <1>1 DEF Place
<1>3. Moved
  BY AdvanceMoved DEF Forget, OInv, TInv
<1>4. proc' = Idle \/ proc'.op = "leave"
  BY <1>2, <1>3, Lengths DEF Moved
<1>5. ~DockerEvidence /\ ~native
  <2>1. CASE proc.op = "retire"
    BY <1>1, <1>2, <2>1 DEF OInv, Holding, Removing, OwnedByReceipt
  <2>2. CASE proc.op # "retire"
    BY <1>1, <1>2, <2>2 DEF OInv, Holding, Removing, OwnedByReceipt, DockerEvidence
  <2> QED BY <2>1, <2>2
<1>6. UNCHANGED <<disk, srv, login, native>> /\ receipt' = NoReceipt
  BY DEF Forget, host, docker
<1>7. OwnedByReceipt'
  BY <1>5, <1>6 DEF OwnedByReceipt, DockerEvidence
<1>8. Holding' /\ Removing'
  BY <1>4 DEF Holding, Removing
<1>9. Rooted'
  <2>1. NoReceipt.update = None /\ NoReceipt.type = "none"
    BY DEF NoReceipt
  <2> QED BY <1>4, <1>6, <2>1 DEF OInv, Rooted, Resumable, Installed
<1> QED BY <1>7, <1>8, <1>9 DEF OInv


LEMMA FaultOwned ==
    ASSUME OInv, TInv', Fault
    PROVE  OInv'
<1>1. UNCHANGED <<disk, srv, login, native>> /\ proc # Idle
  BY DEF Fault, host, docker
<1>2. CASE Abandon \/ Withdraw
  <2>1. receipt' = receipt /\ (Finish \/ Leave)
    BY <1>2 DEF Abandon, Withdraw
  <2>2. proc' = Idle \/ proc'.op = "leave"
    BY <2>1 DEF Finish, Leave, Idle
  <2> QED BY <1>1, <2>1, <2>2, QuietOwned
<1>3. CASE Undo
  <2>1. CASE proc.op = "install" /\ Begin("undo", proc.prof)
    <3>1. proc.at # 1
      <4>1. Plan["install"][1] = "claim"
        BY DEF Plan, InstallPlan
      <4> QED BY <1>1, <1>3, <2>1, <4>1 DEF Undo, Upto, At
    <3>2. proc.at \in 1..18
      BY <1>1 DEF OInv, TInv, TypeOK, Processes
    <3>3. receipt.type = "docker" /\ receipt.state = "installing" /\ receipt.update = None
      BY <1>1, <2>1, <3>1, <3>2 DEF OInv, Holding
    <3> QED BY <1>1, <1>3, <2>1, <3>3, BeginBegun, BegunOwned DEF Undo
  <2>2. CASE proc.op = "update" /\ RollBack
    <3>1. receipt.type = "docker" /\ disk.profile # None
      BY <1>1, <2>2 DEF OInv, Holding, Rooted
    <3>2. proc' = [op |-> "rollback", at |-> 1, prof |-> receipt.update.old, to |-> None,
                  inside |-> TRUE, remove |-> FALSE, saved |-> None]
      BY <2>2 DEF RollBack, Idle
    <3>3. proc'.op = "rollback" /\ proc'.at = 1 /\ Idle.at = 0
      BY <3>2 DEF Idle
    <3>4. Begun("rollback")
      BY <3>3 DEF Begun
    <3> QED BY <1>1, <1>3, <3>1, <3>4, BegunOwned DEF Undo
  <2> QED BY <1>3, <2>1, <2>2 DEF Undo
<1>4. CASE Break
  <2>1. Finish \/ Leave
    BY <1>4 DEF Break
  <2>2. proc' = Idle \/ proc'.op = "leave"
    BY <2>1 DEF Finish, Leave, Idle
  <2>3. Spoil(None) \/ (proc.op = "rollback" /\ Spoil(receipt.update))
    BY <1>4 DEF Break
  <2>4. /\ receipt'.type = receipt.type /\ receipt'.state = "repair_required"
        /\ receipt'.update = None \/ proc.op = "rollback"
    BY <2>3 DEF Spoil, OInv, TInv, TypeOK, Receipts
  <2>5. OwnedByReceipt'
    BY <1>1, <2>4 DEF OInv, OwnedByReceipt, DockerEvidence
  <2>6. Holding' /\ Removing'
    BY <2>2 DEF Holding, Removing
  <2>7. Rooted'
    BY <1>1, <2>2, <2>4 DEF OInv, Rooted, Resumable, Installed
  <2> QED BY <2>5, <2>6, <2>7 DEF OInv
<1> QED BY <1>2, <1>3, <1>4 DEF Fault

LEMMA RebootOwned ==
    ASSUME OInv, TInv', Crash \/ Reboot
    PROVE  OInv'
<1>1. UNCHANGED <<receipt, disk, login, native>> /\ proc' = Idle
  BY DEF Crash, Reboot, host
<1>2. srv = NoServices => srv' = NoServices
  <2>1. CASE Crash
    BY <2>1 DEF Crash, docker
  <2>2. CASE Reboot
    <3>1. SetUp(Services, FALSE)
      BY <2>2 DEF Reboot
    <3>2. srv = NoServices => srv.runner = [image |-> None, up |-> FALSE]
                              /\ srv.webui = [image |-> None, up |-> FALSE]
      BY DEF NoServices, NoContainer
    <3>3. srv \in Compositions /\ srv' \in Compositions
      BY DEF OInv, TInv, TypeOK
    <3>4. /\ srv'.runner.up = FALSE /\ srv'.runner.image = srv.runner.image
          /\ srv'.webui.up = FALSE /\ srv'.webui.image = srv.webui.image
      BY <3>1, <3>3 DEF SetUp, Services, Compositions
    <3>5. srv = NoServices => /\ srv'.runner = [image |-> None, up |-> FALSE]
                              /\ srv'.webui = [image |-> None, up |-> FALSE]
      BY <3>2, <3>3, <3>4 DEF Compositions
    <3> QED BY <3>3, <3>5 DEF Compositions, NoServices, NoContainer
  <2> QED BY <2>1, <2>2
<1>3. OwnedByReceipt'
  BY <1>1, <1>2 DEF OInv, OwnedByReceipt, DockerEvidence
<1>4. Holding' /\ Removing'
  BY <1>1 DEF Holding, Removing
<1>5. Rooted'
  BY <1>1 DEF OInv, Rooted, Resumable, Installed
<1> QED BY <1>3, <1>4, <1>5 DEF OInv

LEMMA SurroundingsOwned ==
    ASSUME OInv, TInv',
           \/ \E op : Await(op)
           \/ Look \/ Supervise \/ Switch
           \/ \E t \in Tasks : CreateTask(t) \/ EndTask(t)
    PROVE  OInv'
<1>1. CASE UNCHANGED srv
  <2>1. UNCHANGED <<receipt, disk, srv, login, native, proc>>
    BY <1>1 DEF Await, Look, Supervise, Switch, CreateTask, EndTask, host, docker
  <2> QED BY <2>1, QuietOwned
<1>2. CASE (Supervise \/ Switch) /\ srv' # srv
  <2>1. UNCHANGED <<receipt, disk, login, native>> /\ proc = Idle /\ proc' = Idle
    BY <1>2 DEF Supervise, Switch, host
  <2>2. receipt.type = "docker"
    <3>1. disk.profile # None
      BY <1>2 DEF Supervise, Switch, CanRun
    <3> QED BY <3>1 DEF OInv, OwnedByReceipt, DockerEvidence, NoDisk
  <2>3. OwnedByReceipt'
    BY <2>1, <2>2 DEF OInv, OwnedByReceipt
  <2>4. Holding' /\ Removing' /\ Rooted'
    BY <2>1 DEF OInv, Holding, Removing, Rooted, Resumable, Installed
  <2> QED BY <2>3, <2>4 DEF OInv
<1>3. UNCHANGED srv \/ Supervise \/ Switch
  BY DEF Await, Look, CreateTask, EndTask, docker
<1> QED BY <1>1, <1>2, <1>3

LEMMA NextOwned == OInv /\ [Next]_vars => OInv'
<1> SUFFICES ASSUME OInv, [Next]_vars PROVE OInv'
  OBVIOUS
<1>1. TInv'
  BY NextTyped DEF OInv
<1>2. CASE UNCHANGED vars
  BY <1>1, <1>2, QuietOwned DEF vars
<1>3. CASE Work
  BY <1>1, <1>3, QuietStepsOwned, ClaimOwned, LoginOwned, ContainersOwned, UpOwned,
     FilesOwned, PayloadOwned, CommitOwned, ForgetOwned DEF Work
<1>4. CASE Next /\ ~Work
  BY <1>1, <1>4, BeginsOwned, FaultOwned, RebootOwned, SurroundingsOwned DEF Next
<1> QED BY <1>2, <1>3, <1>4

LEMMA Owned == Spec => []OInv
<1> QED BY InitOwned, NextOwned, PTL DEF Spec

\* Whatever of an installation is on the host belongs to the receipt, through every
\* error and death: the other type stays refused until the last piece is gone
\* (installation.preflight, docker_install_maintenance.uninstall).
THEOREM ReceiptOwns == Spec => []OwnedByReceipt
<1>1. OInv => OwnedByReceipt
  BY DEF OInv
<1> QED BY Owned, <1>1, PTL


-----------------------------------------------------------------------------
(* Where the records are.                                                  *)

\* Nothing of the data volume is missing.
Complete == seen \subseteq Recorded \cup archived

\* The tasks an operation has saved.
Saved == {t \in Tasks : proc.saved.data.task[t] # "none"}

\* A journal names a backup of whatever may be missing in the volume.
Journaled ==
    /\ receipt.update # None => seen \subseteq BackedUp \cup archived
    /\ receipt.type # "docker" \/ receipt.state = "installed" => receipt.update = None
    /\ receipt.type = "docker" /\ receipt.state = "uninstalling" => Recorded \subseteq receipt.kept

\* What an operation has saved before it writes its journal, and when the volume is
\* complete again before the journal goes.
Underway ==
    proc # Idle =>
        /\ proc.op = "update" /\ proc.at < 5 => receipt.update = None
        /\ proc.op = "update" /\ proc.at \in 5..16 => Resumable /\ Complete
        /\ proc.op = "rollback" => Resumable /\ (proc.at > 8 => Complete)
        /\ proc.op = "setup" => receipt.update = None
        /\ proc.op \in {"update", "uninstall"} /\ proc.at = 4 => Recorded \subseteq Saved

RInv == OInv /\ RecordsKept /\ Journaled /\ Underway

LEMMA CompleteKept == RecordsKept /\ receipt.update = None => Complete
BY DEF RecordsKept, BackedUp, Complete

LEMMA InitKept == Init => RInv
<1> SUFFICES ASSUME Init PROVE RInv
  OBVIOUS
<1>1. receipt.update = None /\ receipt.type = "none"
  BY DEF Init, NoReceipt
<1> QED BY InitOwned, <1>1 DEF Init, RInv, RecordsKept, Journaled, Underway

\* Steps that touch neither the receipt nor what is recorded.
LEMMA QuietKept ==
    ASSUME RInv, OInv', UNCHANGED <<receipt, seen, archived>>, Recorded' = Recorded,
           \/ proc' = proc
           \/ proc' = Idle \/ proc'.op = "leave"
           \/ /\ \E step : At(step) /\ step \notin {"claim", "save", "restore", "commit"}
              /\ Moved
    PROVE  RInv'
<1>1. BackedUp' = BackedUp /\ Complete' = Complete /\ Resumable' = Resumable
  BY DEF BackedUp, Complete, Resumable
<1>2. RecordsKept' /\ Journaled'
  BY <1>1 DEF RInv, RecordsKept, Journaled
<1>3. CASE proc' = proc
  <2>1. Underway'
    BY <1>1, <1>3 DEF RInv, Underway, Saved
  <2> QED BY <1>2, <2>1 DEF RInv
<1>4. CASE proc' = Idle \/ proc'.op = "leave"
  <2>1. Underway'
    BY <1>4 DEF Underway
  <2> QED BY <1>2, <2>1 DEF RInv
<1>5. ASSUME NEW step, At(step), Moved, ~(proc' = Idle \/ proc'.op = "leave"),
             step \notin {"claim", "save", "restore", "commit"}
      PROVE  RInv'
  <2>1. /\ Place(proc.op, proc.at, step) /\ proc # Idle /\ proc.at \in 1..18
        /\ proc' # Idle /\ proc'.op = proc.op /\ proc'.at = proc.at + 1
    BY <1>5, MovedOn DEF RInv
  <2>2. /\ proc.op \in {"update", "uninstall"} => proc.at # 3
        /\ proc.op = "update" => proc.at # 4
        /\ proc.op = "rollback" => proc.at # 8
    BY <1>5, <2>1 DEF Place
  <2>3. Underway'
    BY <1>1, <2>1, <2>2 DEF RInv, Underway
  <2> QED BY <1>2, <2>3 DEF RInv
<1> QED BY <1>3, <1>4, <1>5

\* An operation begins under the guards that it relies on.
LEMMA BegunKept ==
    ASSUME RInv, OInv', UNCHANGED <<receipt, data, seen, archived>>,
           proc' # Idle, proc'.at \in {1, 5},
           proc'.at = 5 => proc'.op = "uninstall",
           proc'.op \in {"update", "setup"} => receipt.update = None,
           proc'.op = "rollback" => Resumable
    PROVE  RInv'
<1>1. Recorded' = Recorded
  BY DEF Recorded
<1>2. BackedUp' = BackedUp /\ Resumable' = Resumable
  BY DEF BackedUp, Resumable
<1>3. RecordsKept' /\ Journaled'
  BY <1>1, <1>2 DEF RInv, RecordsKept, Journaled
<1>4. Underway'
  BY <1>2 DEF Underway
<1> QED BY <1>3, <1>4 DEF RInv

LEMMA LaunchKept ==
    ASSUME RInv, OInv', UNCHANGED <<receipt, data, seen, archived>>,
           NEW op, NEW prof, NEW same, Launch(op, prof, same)
    PROVE  RInv'
<1>1. op \in {"setup", "update"} => receipt.update = None
  BY DEF Launch, Admitted, RInv, Journaled
<1>2. CASE op \in {"setup", "stop"} /\ Begin(op, prof)
  <2>1. Begun(op)
    BY <1>2, BeginBegun
  <2> QED BY <1>1, <1>2, <2>1, BegunKept DEF Begun
<1>3. ASSUME NEW v \in Versions, op = "update",
             proc' = [Idle EXCEPT !.op = op, !.at = 1, !.prof = prof, !.to = v]
      PROVE  RInv'
  <2>1. proc' = [op |-> op, at |-> 1, prof |-> prof, to |-> v, inside |-> FALSE,
                remove |-> FALSE, saved |-> None]
    BY <1>3 DEF Idle
  <2>2. proc'.op = "update" /\ proc'.at = 1 /\ Idle.at = 0
    BY <1>3, <2>1 DEF Idle
  <2>3. proc' # Idle
    BY <2>2
  <2> QED BY <1>1, <1>3, <2>2, <2>3, BegunKept
<1>4. ASSUME NEW r \in BOOLEAN, op = "uninstall",
             proc' = [Idle EXCEPT !.op = op, !.at = Resume, !.prof = prof, !.remove = r]
      PROVE  RInv'
  <2>1. proc' = [op |-> op, at |-> Resume, prof |-> prof, to |-> None, inside |-> FALSE,
                remove |-> r, saved |-> None]
    BY <1>4 DEF Idle
  <2>2. proc'.op = "uninstall" /\ proc'.at = Resume /\ Idle.at = 0 /\ Resume \in {1, 5}
    BY <1>4, <2>1 DEF Idle, Resume
  <2>3. proc' # Idle
    BY <2>2
  <2> QED BY <2>2, <2>3, BegunKept
<1> QED BY <1>2, <1>3, <1>4 DEF Launch

LEMMA BeginsKept ==
    ASSUME RInv, OInv',
           \/ \E op : BeginCommand(op)
           \/ BeginWaiting \/ BeginRollback \/ BeginRecovery \/ BeginNative
           \/ \E v \in Versions : BeginInstall(v)
    PROVE  RInv'
<1>1. UNCHANGED <<receipt, data, seen, archived>>
  BY DEF BeginCommand, BeginWaiting, BeginRollback, BeginRecovery, BeginNative, BeginInstall,
         world
<1>2. Recorded' = Recorded
  BY <1>1 DEF Recorded
<1>3. ASSUME NEW op, BeginCommand(op)
      PROVE  RInv'
  BY <1>1, <1>3, LaunchKept DEF BeginCommand
<1>4. CASE BeginWaiting
  BY <1>1, <1>2, <1>4, LaunchKept, QuietKept DEF BeginWaiting
<1>5. CASE BeginRollback
  <2>1. Begun("rollback") /\ Resumable
    BY <1>5, BeginBegun DEF BeginRollback
  <2> QED BY <1>1, <2>1, BegunKept DEF Begun
<1>6. CASE BeginRecovery /\ disk.profile # None
  <2>1. proc' = [op |-> "uninstall", at |-> Resume, prof |-> disk.profile, to |-> None,
                inside |-> FALSE, remove |-> FALSE, saved |-> None]
    BY <1>6 DEF BeginRecovery, Idle
  <2>2. proc'.op = "uninstall" /\ proc'.at = Resume /\ Idle.at = 0 /\ Resume \in {1, 5}
    BY <2>1 DEF Idle, Resume
  <2>3. proc' # Idle
    BY <2>2
  <2> QED BY <1>1, <2>2, <2>3, BegunKept
<1>7. CASE BeginRecovery /\ disk.profile = None
  <2>1. Begun("purge")
    BY <1>7, BeginBegun DEF BeginRecovery
  <2> QED BY <1>1, <2>1, BegunKept DEF Begun
<1>8. CASE BeginNative
  <2>1. Begun("native") \/ Begun("retire")
    BY <1>8, BeginBegun DEF BeginNative
  <2> QED BY <1>1, <2>1, BegunKept DEF Begun
<1>9. ASSUME NEW v \in Versions, BeginInstall(v)
      PROVE  RInv'
  <2>1. Begun("install")
    BY <1>9, BeginBegun DEF BeginInstall
  <2> QED BY <1>1, <2>1, BegunKept DEF Begun
<1> QED BY <1>3, <1>4, <1>5, <1>6, <1>7, <1>8, <1>9


LEMMA StepMoved ==
    ASSUME TypeOK,
           Mark \/ RequireIdle \/ Login \/ Containers \/ Up \/ Bind \/ Files \/ Unmark \/ Payload
    PROVE  Moved
<1>1. CASE Files
  BY <1>1, FilesMoved
<1>2. CASE Mark \/ RequireIdle
  BY <1>2, AdvanceMoved, LeaveMoved DEF Mark, RequireIdle
<1>3. CASE Containers
  <2>1. Advance /\ \E step : At(step)
    BY <1>3 DEF Containers
  <2> QED BY <2>1, AdvanceMoved
<1>4. CASE Login \/ Up \/ Bind \/ Unmark \/ Payload
  <2>1. Advance /\ \E step : At(step)
    BY <1>4 DEF Login, Up, Bind, Unmark, Payload
  <2> QED BY <2>1, AdvanceMoved
<1> QED BY <1>1, <1>2, <1>3, <1>4

LEMMA QuietStepsKept ==
    ASSUME RInv, OInv',
           Mark \/ RequireIdle \/ Login \/ Containers \/ Up \/ Bind \/ Files \/ Unmark \/ Payload
    PROVE  RInv'
<1>1. UNCHANGED <<receipt, seen, archived>>
  BY DEF Mark, RequireIdle, Login, Containers, Up, Bind, Files, Unmark, Payload, host, docker,
         world
<1>2. Recorded' = Recorded
  <2>1. data.task' = data.task
    BY DEF Mark, RequireIdle, Login, Containers, Up, Touch, Bind, Files, Unmark, Payload,
           world, RInv, OInv, TInv, TypeOK, Volumes
  <2> QED BY <2>1 DEF Recorded
<1>3. \E step : At(step) /\ step \notin {"claim", "save", "restore", "commit"}
  <2>1. CASE Mark \/ RequireIdle \/ Login \/ Up \/ Bind \/ Unmark \/ Payload
    BY <2>1 DEF Mark, RequireIdle, Login, Up, Bind, Unmark, Payload
  <2>2. CASE Containers
    <3>1. \/ At("stop") \/ At("halt") \/ At("remove") \/ At("create") \/ At("web")
          \/ At("rest") \/ At("settle")
      BY <2>2 DEF Containers
    <3> QED BY <3>1
  <2>3. CASE Files
    <3>1. \/ At("bundle") \/ At("venv") \/ At("profile") \/ At("shelve") \/ At("scrap")
          \/ At("unshelve") \/ At("tidy") \/ At("skills") \/ At("unskill")
          \/ At("rebundle") \/ At("reskill") \/ At("root")
      BY <2>3 DEF Files
    <3> QED BY <3>1
  <2> QED BY <2>1, <2>2, <2>3
<1>4. Moved
  BY StepMoved DEF RInv, OInv, TInv
<1> QED BY <1>1, <1>2, <1>3, <1>4, QuietKept

LEMMA SaveKept ==
    ASSUME RInv, OInv', Save
    PROVE  RInv'
<1>1. UNCHANGED <<receipt, data, seen, archived>>
  BY DEF Save, world
<1>2. Recorded' = Recorded
  BY <1>1 DEF Recorded
<1>3. CASE Leave
  <2>1. proc'.op = "leave"
    BY <1>3 DEF Leave, Idle
  <2> QED BY <1>1, <1>2, <2>1, QuietKept
<1>4. CASE ~Leave
  <2> DEFINE copy == [data |-> data, bundle |-> disk.bundle, skills |-> disk.skills]
  <2>1. proc' = [proc EXCEPT !.at = @ + 1, !.saved = copy]
    BY <1>4 DEF Save
  <2>2. proc \in Processes /\ Place(proc.op, proc.at, "save") /\ proc.at \in 1..18 /\ proc # Idle
    BY StepPlace DEF Save, RInv, OInv, TInv, Processes, At
  <2>3. copy.data = data
    OBVIOUS
  <2> HIDE DEF copy
  <2>4. proc' = [op |-> proc.op, at |-> proc.at + 1, prof |-> proc.prof, to |-> proc.to,
                inside |-> proc.inside, remove |-> proc.remove, saved |-> copy]
    BY <2>1, <2>2 DEF Processes
  <2>5. proc'.op = proc.op /\ proc'.at = proc.at + 1 /\ proc'.saved.data = data
    BY <2>3, <2>4
  <2>6. proc.op \in {"update", "uninstall"} /\ proc.at = 3
    BY <2>2 DEF Place
  <2>7. Saved' = Recorded
    BY <2>5 DEF Saved, Recorded
  <2>8. RecordsKept' /\ Journaled'
    BY <1>1, <1>2 DEF RInv, RecordsKept, Journaled, BackedUp
  <2>9. Underway'
    BY <1>1, <1>2, <2>2, <2>5, <2>6, <2>7 DEF RInv, Underway
  <2> QED BY <2>8, <2>9 DEF RInv
<1> QED BY <1>3, <1>4

LEMMA ClaimKept ==
    ASSUME RInv, OInv', Claim
    PROVE  RInv'
<1>1. Place(proc.op, proc.at, "claim") /\ proc \in Processes /\ proc # Idle /\ At("claim")
  BY StepPlace DEF RInv, OInv, TInv, At, Claim
<1>2. \/ proc.op \in {"install", "native", "retire"} /\ proc.at = 1
      \/ proc.op \in {"update", "uninstall"} /\ proc.at = 4
      \/ proc.op = "setup" /\ proc.at = 5
  BY <1>1 DEF Place
<1>3. proc'.op = proc.op /\ proc'.at = proc.at + 1 /\ proc' # Idle
  <2>1. proc' = [proc EXCEPT !.at = @ + 1]
    BY <1>2, Lengths DEF Claim, Advance
  <2>2. proc.at \in 1..18 /\ Idle.at = 0
    BY <1>1 DEF Processes, Idle
  <2> QED BY <1>1, <2>1, <2>2 DEF Processes
<1>4. UNCHANGED <<data, seen, archived>>
  BY DEF Claim, world
<1>5. Recorded' = Recorded
  BY <1>4 DEF Recorded
<1>6. receipt \in Receipts
  BY DEF RInv, OInv, TInv, TypeOK
<1>7. CASE proc.op \in {"install", "native"}
  <2>1. receipt = NoReceipt
    BY <1>1, <1>2, <1>7 DEF RInv, OInv, Holding
  <2>2. receipt.update = None /\ receipt'.update = None /\ receipt'.state = "installing"
    BY <1>7, <2>1 DEF Claim, NoReceipt
  <2>3. RecordsKept' /\ Journaled'
    BY <1>4, <1>5, <2>2 DEF RInv, RecordsKept, Journaled, BackedUp
  <2>4. Underway'
    BY <1>3, <1>7 DEF Underway
  <2> QED BY <2>3, <2>4 DEF RInv
<1>8. CASE proc.op \in {"setup", "retire"}
  <2>1. /\ receipt'.update = receipt.update /\ receipt'.type = receipt.type
        /\ receipt'.state # "installed" /\ (proc.op = "setup" => receipt'.state = "installing")
    BY <1>6, <1>8 DEF Claim, Receipts
  <2>2. proc.op = "retire" => receipt.type = "native"
    BY <1>1 DEF RInv, OInv, Holding
  <2>3. RecordsKept' /\ Journaled'
    BY <1>4, <1>5, <1>8, <2>1, <2>2 DEF RInv, RecordsKept, Journaled, BackedUp
  <2>4. Underway'
    BY <1>1, <1>3, <1>8, <2>1 DEF RInv, Underway
  <2> QED BY <2>3, <2>4 DEF RInv
<1>9. CASE proc.op = "update"
  <2>1. receipt'.update = Journal /\ receipt'.state = "installing" /\ receipt'.type = receipt.type
    BY <1>6, <1>9 DEF Claim, Receipts
  <2>2. receipt'.update \in Journals /\ proc'.at = 5
    BY <1>2, <1>3, <1>9, <2>1 DEF OInv, TInv, Equipped
  <2>3. receipt'.update # None
    BY <2>2, JournalAssumption
  <2>4. receipt.update = None /\ Recorded \subseteq Saved
    BY <1>1, <1>2, <1>9 DEF RInv, Underway
  <2>5. Complete
    BY <2>4, CompleteKept DEF RInv
  <2>6. receipt'.update.saved = proc.saved
    BY <2>1 DEF Journal
  <2>7. BackedUp' = Saved
    BY <2>3, <2>6 DEF BackedUp, Saved
  <2>8. receipt.type = "docker"
    BY <1>1, <1>9 DEF RInv, OInv, Holding
  <2>9. RecordsKept' /\ Journaled'
    BY <1>4, <1>5, <2>1, <2>3, <2>4, <2>5, <2>7, <2>8 DEF RecordsKept, Journaled, Complete
  <2>10. Resumable' /\ Complete'
    BY <1>4, <1>5, <2>1, <2>3, <2>5 DEF Resumable, Complete
  <2>11. Underway'
    BY <1>3, <1>9, <2>2, <2>10 DEF Underway
  <2> QED BY <2>9, <2>11 DEF RInv
<1>10. CASE proc.op = "uninstall"
  <2>1. /\ receipt'.update = receipt.update /\ receipt'.type = receipt.type
        /\ receipt'.state = "uninstalling" /\ receipt'.kept = Saved
    BY <1>6, <1>10 DEF Claim, Receipts, Saved
  <2>2. Recorded \subseteq Saved /\ receipt.type = "docker"
    BY <1>1, <1>2, <1>10 DEF RInv, OInv, Holding, Underway
  <2>3. RecordsKept' /\ Journaled'
    BY <1>4, <1>5, <2>1, <2>2 DEF RInv, RecordsKept, Journaled, BackedUp
  <2>4. Underway'
    BY <1>2, <1>3, <1>10 DEF Underway
  <2> QED BY <2>3, <2>4 DEF RInv
<1> QED BY <1>2, <1>7, <1>8, <1>9, <1>10

LEMMA VolumeKept ==
    ASSUME RInv, OInv', Volume
    PROVE  RInv'
<1>1. UNCHANGED <<receipt, seen>>
  BY DEF Volume
<1>2. PICK step \in {"wipe", "restore", "records"} : At(step)
  BY DEF Volume
<1>3. /\ Place(proc.op, proc.at, step) /\ proc # Idle /\ proc \in Processes /\ proc.at \in 1..18
  BY <1>2, StepPlace DEF RInv, OInv, TInv, At, Processes
<1>4. Moved
  BY <1>2, AdvanceMoved DEF Volume, RInv, OInv, TInv
<1>5. BackedUp' = BackedUp /\ Resumable' = Resumable
  BY <1>1 DEF BackedUp, Resumable
<1>6. CASE step = "records"
  <2>1. proc.op = "uninstall" /\ proc.at = 7
    BY <1>3, <1>6 DEF Place
  <2>2. receipt.state = "uninstalling" /\ receipt.type = "docker"
    BY <1>3, <2>1 DEF RInv, OInv, Holding
  <2>3. Recorded \subseteq receipt.kept
    BY <2>2 DEF RInv, Journaled
  <2>4. \/ archived' = archived /\ Recorded' = Recorded
        \/ archived' = archived \cup receipt.kept /\ Recorded' = {}
    <3>1. CASE receipt.remove
      <4>1. data' = [data EXCEPT !.task = NoData.task] /\ archived' = archived \cup receipt.kept
        BY <1>2, <1>6, <3>1 DEF Volume, At
      <4>2. \A t \in Tasks : data'.task[t] = "none"
        BY <4>1 DEF NoData, RInv, OInv, TInv, TypeOK, Volumes
      <4> QED BY <4>1, <4>2 DEF Recorded
    <3>2. CASE ~receipt.remove
      BY <1>2, <1>6, <3>2 DEF Volume, At, Recorded
    <3> QED BY <3>1, <3>2
  <2>5. RecordsKept' /\ Journaled'
    BY <1>1, <1>5, <2>2, <2>3, <2>4 DEF RInv, RecordsKept, Journaled
  <2>6. Underway'
    BY <1>4, <2>1 DEF Moved, Underway
  <2> QED BY <2>5, <2>6 DEF RInv
<1>7. CASE step \in {"wipe", "restore"}
  <2>1. proc.op = "rollback" /\ proc.at = (IF step = "wipe" THEN 7 ELSE 8)
    BY <1>3, <1>7 DEF Place
  <2>2. Resumable /\ receipt.type = "docker"
    BY <1>3, <2>1 DEF RInv, OInv, Holding, Underway
  <2>3. seen \subseteq BackedUp \cup archived /\ receipt.update # None /\ receipt.state # "uninstalling"
    BY <2>2 DEF RInv, Journaled, Resumable
  <2>4. archived' = archived
    BY <1>2, <1>7 DEF Volume, At
  <2>5. RecordsKept' /\ Journaled'
    BY <1>1, <1>5, <2>2, <2>3, <2>4 DEF RInv, RecordsKept, Journaled
  <2>6. step = "restore" => Complete'
    <3>1. step = "restore" => data' = receipt.update.saved.data
      BY <1>2 DEF Volume, At
    <3>2. step = "restore" => Recorded' = BackedUp
      BY <2>3, <3>1 DEF Recorded, BackedUp
    <3> QED BY <1>1, <2>3, <2>4, <3>2 DEF Complete
  <2>7. Underway'
    BY <1>4, <1>5, <1>7, <2>1, <2>2, <2>6 DEF Moved, Underway
  <2> QED BY <2>5, <2>7 DEF RInv
<1> QED BY <1>6, <1>7


LEMMA CommitKept ==
    ASSUME RInv, OInv', Commit
    PROVE  RInv'
<1>1. /\ Place(proc.op, proc.at, "commit") /\ proc \in Processes /\ proc # Idle
      /\ proc.at \in 1..18 /\ At("commit")
  BY StepPlace DEF Commit, RInv, OInv, TInv, At, Processes
<1>2. Moved
  BY AdvanceMoved DEF Commit, RInv, OInv, TInv
<1>3. UNCHANGED <<data, seen, archived>>
  BY DEF Commit, world
<1>4. receipt'.type = receipt.type /\ receipt'.state = "installed" /\ receipt'.update = None
  BY DEF Commit, RInv, OInv, TInv, TypeOK, Receipts
<1>5. Complete
  <2>1. \/ proc.op = "install"
        \/ proc.op = "update" /\ proc.at = 16
        \/ proc.op = "rollback" /\ proc.at = 15
        \/ proc.op = "setup"
        \/ proc.op = "native" /\ proc.at = 3
    BY <1>1 DEF Place
  <2>2. proc.op \in {"install", "setup", "native"} => receipt.update = None
    BY <1>1, <2>1 DEF RInv, OInv, Holding, Journaled, Underway
  <2>3. proc.op \in {"update", "rollback"} => Complete
    BY <1>1, <2>1 DEF RInv, Underway
  <2> QED BY <2>1, <2>2, <2>3, CompleteKept DEF RInv
<1>6. Recorded' = Recorded
  BY <1>3 DEF Recorded
<1>7. RecordsKept' /\ Journaled'
  BY <1>3, <1>4, <1>5, <1>6 DEF Complete, RecordsKept, Journaled
<1>8. Underway'
  <2>1. proc.op = "update" => proc.at = 16
    BY <1>1 DEF Place
  <2>2. proc.op = "rollback" => proc.at = Steps(proc.op)
    BY <1>1, Lengths DEF Place
  <2>3. proc.op # "uninstall"
    BY <1>1 DEF Place
  <2> QED BY <1>1, <1>2, <1>4, <2>1, <2>2, <2>3 DEF Moved, Underway
<1> QED BY <1>7, <1>8 DEF RInv

LEMMA ForgetKept ==
    ASSUME RInv, OInv', Forget
    PROVE  RInv'
<1>1. /\ Place(proc.op, proc.at, "forget") /\ proc \in Processes /\ proc # Idle
      /\ proc.at \in 1..18
  BY StepPlace DEF Forget, RInv, OInv, TInv, At, Processes
<1>2. Moved
  BY AdvanceMoved DEF Forget, RInv, OInv, TInv
<1>3. proc' = Idle \/ proc'.op = "leave"
  <2>1. proc.at = Steps(proc.op)
    BY <1>1, Lengths DEF Place
  <2> QED BY <1>1, <1>2, <2>1 DEF Moved
<1>4. receipt' = NoReceipt /\ seen' = seen /\ receipt'.update = None /\ receipt'.type = "none"
  BY DEF Forget, NoReceipt
<1>5. RecordsKept'
  <2>1. CASE receipt.type = "docker"
    <3>1. archived' = archived \cup Recorded \cup BackedUp
      BY <2>1 DEF Forget
    <3> QED BY <1>4, <3>1 DEF RInv, RecordsKept
  <2>2. CASE receipt.type # "docker"
    <3>1. UNCHANGED <<data, archived>> /\ receipt.update = None
      BY <2>2 DEF Forget, RInv, Journaled
    <3>2. Complete /\ Recorded' = Recorded
      BY <3>1, CompleteKept DEF RInv, Recorded
    <3> QED BY <1>4, <3>1, <3>2 DEF Complete, RecordsKept
  <2> QED BY <2>1, <2>2
<1>6. Journaled'
  BY <1>4 DEF Journaled
<1>7. Underway'
  BY <1>3 DEF Underway
<1> QED BY <1>5, <1>6, <1>7 DEF RInv

LEMMA FaultKept ==
    ASSUME RInv, OInv', Fault
    PROVE  RInv'
<1>1. UNCHANGED <<data, seen, archived>> /\ proc # Idle
  BY DEF Fault
<1>2. Recorded' = Recorded
  BY <1>1 DEF Recorded
<1>3. CASE Abandon \/ Withdraw
  <2>1. receipt' = receipt /\ (Finish \/ Leave)
    BY <1>3 DEF Abandon, Withdraw
  <2>2. proc' = Idle \/ proc'.op = "leave"
    BY <2>1 DEF Finish, Leave, Idle
  <2> QED BY <1>1, <1>2, <2>1, <2>2, QuietKept
<1>4. CASE Undo
  <2>1. CASE proc.op = "install" /\ Begin("undo", proc.prof)
    <3>1. Begun("undo")
      BY <2>1, BeginBegun
    <3> QED BY <1>1, <1>4, <3>1, BegunKept DEF Undo, Begun
  <2>2. CASE proc.op = "update" /\ Upto("commit") /\ RollBack
    <3>1. proc.at \in 5..16
      BY <1>1, <1>4, <2>2, UpdateSpan DEF Undo, RInv, OInv
    <3>2. Resumable
      BY <1>1, <2>2, <3>1 DEF RInv, Underway
    <3>3. proc' = [op |-> "rollback", at |-> 1, prof |-> receipt.update.old, to |-> None,
                  inside |-> TRUE, remove |-> FALSE, saved |-> None]
      BY <2>2 DEF RollBack, Idle
    <3>4. proc'.op = "rollback" /\ proc'.at = 1 /\ Idle.at = 0
      BY <3>3 DEF Idle
    <3>5. proc' # Idle
      BY <3>4
    <3> QED BY <1>1, <1>4, <3>2, <3>4, <3>5, BegunKept DEF Undo
  <2> QED BY <1>4, <2>1, <2>2 DEF Undo
<1>5. CASE Break
  <2>1. Finish \/ Leave
    BY <1>5 DEF Break
  <2>2. proc' = Idle \/ proc'.op = "leave"
    BY <2>1 DEF Finish, Leave, Idle
  <2>3. \/ /\ Spoil(None)
           /\ \/ proc.op \in {"undo", "setup"}
              \/ proc.op = "native" /\ At("payload")
              \/ proc.op \in {"update", "rollback"} /\ At("commit")
        \/ Spoil(receipt.update)
    BY <1>5 DEF Break
  <2>4. receipt \in Receipts
    BY DEF RInv, OInv, TInv, TypeOK
  <2>5. CASE Spoil(receipt.update)
    <3>1. /\ receipt'.update = receipt.update /\ receipt'.type = receipt.type
          /\ receipt'.state = "repair_required"
      BY <2>4, <2>5 DEF Spoil, Receipts
    <3>2. RecordsKept' /\ Journaled'
      BY <1>1, <1>2, <3>1 DEF RInv, RecordsKept, Journaled, BackedUp
    <3> QED BY <2>2, <3>2 DEF RInv, Underway
  <2>6. CASE /\ Spoil(None)
             /\ \/ proc.op \in {"undo", "setup"}
                \/ proc.op = "native" /\ At("payload")
                \/ proc.op \in {"update", "rollback"} /\ At("commit")
    <3>1. receipt'.update = None /\ receipt'.state = "repair_required"
      BY <2>4, <2>6 DEF Spoil, Receipts
    <3>2. Complete
      <4>1. CASE proc.op \in {"undo", "setup"}
        <5>1. receipt.update = None
          BY <1>1, <4>1 DEF RInv, OInv, Holding, Underway
        <5> QED BY <5>1, CompleteKept DEF RInv
      <4>2. CASE proc.op = "native" /\ At("payload")
        <5>1. Place("native", proc.at, "payload")
          BY <4>2, StepPlace DEF RInv, OInv, TInv
        <5>2. receipt.type = "native"
          BY <1>1, <4>2, <5>1 DEF Place, RInv, OInv, Holding
        <5>3. receipt.update = None
          BY <5>2 DEF RInv, Journaled
        <5> QED BY <5>3, CompleteKept DEF RInv
      <4>3. CASE proc.op \in {"update", "rollback"} /\ At("commit")
        <5>1. Place(proc.op, proc.at, "commit")
          BY <4>3, StepPlace DEF RInv, OInv, TInv
        <5>2. \/ proc.op = "update" /\ proc.at = 16
              \/ proc.op = "rollback" /\ proc.at = 15
          BY <4>3, <5>1 DEF Place
        <5> QED BY <1>1, <5>2 DEF RInv, Underway
      <4> QED BY <2>6, <4>1, <4>2, <4>3
    <3>3. RecordsKept' /\ Journaled'
      BY <1>1, <1>2, <3>1, <3>2 DEF Complete, RecordsKept, Journaled
    <3> QED BY <2>2, <3>3 DEF RInv, Underway
  <2> QED BY <2>3, <2>5, <2>6
<1> QED BY <1>3, <1>4, <1>5 DEF Fault

LEMMA SurroundingsKept ==
    ASSUME RInv, OInv',
           \/ \E op : Await(op)
           \/ Crash \/ Reboot \/ Look \/ Supervise \/ Switch
    PROVE  RInv'
<1>1. UNCHANGED <<receipt, seen, archived>> /\ (proc' = proc \/ proc' = Idle)
  BY DEF Await, Crash, Reboot, Look, Supervise, Switch, world
<1>2. data.task' = data.task
  BY DEF Await, Crash, Reboot, Look, Supervise, Switch, Touch, RInv, OInv, TInv, TypeOK, Volumes
<1>3. Recorded' = Recorded
  BY <1>2 DEF Recorded
<1> QED BY <1>1, <1>3, QuietKept

LEMMA TasksKept ==
    ASSUME RInv, OInv', NEW t \in Tasks, CreateTask(t) \/ EndTask(t)
    PROVE  RInv'
<1>1. data \in Volumes
  BY DEF RInv, OInv, TInv, TypeOK
<1>2. CASE EndTask(t)
  <2>1. Recorded' = Recorded
    BY <1>1, <1>2 DEF EndTask, Recorded, Volumes
  <2>2. UNCHANGED <<receipt, seen, archived, proc>>
    BY <1>2 DEF EndTask, world
  <2> QED BY <2>1, <2>2, QuietKept
<1>3. CASE CreateTask(t)
  <2>1. Recorded' = Recorded \cup {t}
    BY <1>1, <1>3 DEF CreateTask, Recorded, Volumes
  <2>2. seen' = seen \cup {t} /\ UNCHANGED <<receipt, archived>> /\ proc = Idle /\ proc' = Idle
    BY <1>3 DEF CreateTask
  <2>3. Installed /\ receipt.update = None
    BY <1>3 DEF CreateTask, Installed, RInv, Journaled
  <2>4. RecordsKept' /\ Journaled'
    BY <2>1, <2>2, <2>3 DEF Installed, RInv, RecordsKept, Journaled, BackedUp
  <2> QED BY <2>2, <2>4 DEF RInv, Underway
<1> QED BY <1>2, <1>3

LEMMA NextKept == RInv /\ [Next]_vars => RInv'
<1> SUFFICES ASSUME RInv, [Next]_vars PROVE RInv'
  OBVIOUS
<1>1. OInv'
  BY NextOwned DEF RInv
<1>2. CASE UNCHANGED vars
  BY <1>1, <1>2, QuietKept DEF vars, Recorded
<1>3. CASE Work
  BY <1>1, <1>3, QuietStepsKept, SaveKept, ClaimKept, VolumeKept, CommitKept, ForgetKept DEF Work
<1>4. CASE Next /\ ~Work
  BY <1>1, <1>4, BeginsKept, FaultKept, SurroundingsKept, TasksKept DEF Next
<1> QED BY <1>2, <1>3, <1>4

\* No error and no death between the steps of an update, a rollback or a removal loses
\* the record of a task (docker_install_maintenance.backup, uninstall; rollback_update).
THEOREM RecordsNeverLost == Spec => []RecordsKept
<1>1. RInv => RecordsKept
  BY DEF RInv
<1> QED BY InitKept, NextKept, <1>1, PTL DEF Spec


-----------------------------------------------------------------------------
(* Of which version the pieces are.                                        *)

\* What the receipt says of the versions: a settled installation is of one, an update
\* has saved what the old one was, and the environment of the old one can be found.
Images(v) == srv.runner.image = v /\ srv.webui.image = v

Uniform ==
    Installed =>
        /\ disk.bundle = disk.profile /\ disk.venv = disk.profile
        /\ declined \/ disk.skills = disk.profile
        /\ Images(disk.profile) /\ bound /\ data.by = disk.profile

Settled ==
    receipt.update = None /\ disk.profile # None =>
        /\ disk.bundle = disk.profile /\ disk.venv = disk.profile
        /\ data.by \in {None, disk.profile}

JournalTrue ==
    receipt.update # None =>
        /\ receipt.update.saved.data.by = receipt.update.old
        /\ receipt.update.saved.bundle = receipt.update.old
        /\ declined \/ receipt.update.saved.skills = receipt.update.old

Restorable ==
    Resumable => \/ disk.prev = receipt.update.old
                 \/ disk.prev = None /\ disk.venv = receipt.update.old

Migrated ==
    receipt.update # None => \/ data.by \in {None, receipt.update.old, srv.runner.image}
                             \/ srv.runner.image = None

Bare == receipt.type # "docker" => data.by = None

Pieces == Uniform /\ Settled /\ JournalTrue /\ Restorable /\ Migrated /\ Bare

\* How far an operation has come: what is of its version already.
InstallFit ==
    proc.op = "install" =>
        /\ proc.at < 5 => disk.profile = None
        /\ proc.at < 6 => data.by = None
        /\ proc.at > 2 => disk.bundle = proc.prof
        /\ proc.at > 3 => disk.venv = proc.prof
        /\ proc.at > 4 => disk.profile = proc.prof
        /\ proc.at > 5 => Images(proc.prof) /\ data.by = proc.prof
        /\ proc.at > 6 => bound
        /\ proc.at > 7 => declined \/ disk.skills = proc.prof

SetupFit ==
    proc.op = "setup" =>
        /\ disk.profile = proc.prof
        /\ proc.at > 6 => Images(proc.prof) /\ data.by = proc.prof
        /\ proc.at > 7 => bound
        /\ proc.at > 8 => declined \/ disk.skills = proc.prof

UpdateFit ==
    proc.op = "update" =>
        /\ proc.at \notin 5..16 => Installed
        /\ proc.at < 5 => disk.profile = proc.prof
        /\ proc.at = 4 => /\ disk.prev = None
                          /\ proc.saved.data.by = proc.prof
                          /\ proc.saved.bundle = proc.prof
                          /\ declined \/ proc.saved.skills = proc.prof
        /\ proc.at \in 5..8 => data.by = receipt.update.old
        /\ proc.at \in 5..10 => disk.prev = None /\ disk.venv = receipt.update.old
        /\ proc.at \in 8..16 => disk.bundle = proc.to /\ proc.prof = proc.to
        /\ proc.at \in 9..16 => Images(proc.to) /\ data.by = proc.to
        /\ proc.at \in 10..16 => disk.profile = proc.to /\ bound
        /\ proc.at \in 11..16 => disk.prev = receipt.update.old
        /\ proc.at \in 12..16 => disk.venv = proc.to
        /\ proc.at \in 13..16 => disk.skills = proc.to

RollbackFit ==
    proc.op = "rollback" =>
        /\ proc.prof = receipt.update.old
        /\ proc.at > 4 => disk.venv = proc.prof /\ disk.prev = None
        /\ proc.at > 5 => disk.bundle = proc.prof
        /\ proc.at > 6 => declined \/ disk.skills = proc.prof
        /\ proc.at = 8 => data.by = None
        /\ proc.at > 8 => data.by = proc.prof
        /\ proc.at > 9 => Images(proc.prof)
        /\ proc.at > 10 => disk.profile = proc.prof /\ bound

Progress == InstallFit /\ SetupFit /\ UpdateFit /\ RollbackFit

VInv == RInv /\ Pieces /\ Progress

LEMMA InitVersions == Init => VInv
<1> SUFFICES ASSUME Init PROVE VInv
  OBVIOUS
<1>1. /\ receipt.update = None /\ receipt.type = "none" /\ receipt.state = "none"
      /\ disk.profile = None /\ data.by = None /\ proc.op = "none"
  BY DEF Init, NoReceipt, NoDisk, NoData, Idle
<1>2. Pieces
  BY <1>1 DEF Pieces, Uniform, Settled, JournalTrue, Restorable, Migrated, Bare, Installed,
              Resumable
<1>3. Progress
  BY <1>1 DEF Progress, InstallFit, SetupFit, UpdateFit, RollbackFit
<1> QED BY InitKept, <1>2, <1>3 DEF VInv

\* The operation is over, or goes to its next step with what it has in hand.
Ended == proc' = Idle \/ proc'.op = "leave"
On == /\ proc' # Idle /\ proc'.op = proc.op /\ proc'.at = proc.at + 1
      /\ proc'.to = proc.to /\ proc'.saved = proc.saved

LEMMA EndedProgress == ASSUME Ended PROVE Progress'
<1>1. proc'.op \in {"none", "leave"}
  BY DEF Ended, Idle
<1> QED BY <1>1 DEF Progress, InstallFit, SetupFit, UpdateFit, RollbackFit

LEMMA AdvanceOn ==
    ASSUME TypeOK, NEW step, At(step), Advance
    PROVE  Ended \/ (On /\ proc'.prof = proc.prof)
<1>1. proc \in Processes /\ proc.at <= Steps(proc.op) /\ proc.at \in 1..18
  BY StepPlace DEF Processes
<1>2. CASE proc.at < Steps(proc.op)
  <2>1. proc' = [proc EXCEPT !.at = @ + 1]
    BY <1>2 DEF Advance
  <2>2. /\ proc'.op = proc.op /\ proc'.at = proc.at + 1 /\ proc'.prof = proc.prof
        /\ proc'.to = proc.to /\ proc'.saved = proc.saved /\ Idle.at = 0
    BY <1>1, <2>1 DEF Processes, Idle
  <2>3. proc' # Idle
    BY <1>1, <2>2
  <2> QED BY <2>2, <2>3 DEF On
<1>3. CASE ~(proc.at < Steps(proc.op))
  <2>1. proc' = [Idle EXCEPT !.op = "leave", !.at = 1] \/ proc' = Idle
    BY <1>3 DEF Advance
  <2> QED BY <2>1 DEF Ended, Idle
<1> QED BY <1>2, <1>3

\* What the steps of the plans do to the pieces.
DiskAfter(step) ==
    /\ disk'.profile = IF step = "root" THEN None
                       ELSE IF step \in {"bind", "profile"} THEN proc.prof ELSE disk.profile
    /\ disk'.bundle = IF step = "root" THEN None
                      ELSE IF step = "bundle" THEN proc'.prof
                      ELSE IF step = "rebundle" THEN receipt.update.saved.bundle
                      ELSE disk.bundle
    /\ disk'.venv = IF step = "root" \/ step = "shelve" THEN None
                    ELSE IF step = "venv" THEN proc.prof
                    ELSE IF step = "scrap" /\ disk.prev # None THEN None
                    ELSE IF step = "unshelve" /\ disk.prev # None THEN disk.prev
                    ELSE disk.venv
    /\ disk'.prev = IF step \in {"root", "unshelve", "tidy"} THEN None
                    ELSE IF step = "shelve" THEN disk.venv ELSE disk.prev

\* A declined skill does not follow the environment; an update does not ask.
SkillAfter(step) ==
    /\ step = "skills" => disk'.skills = disk.venv \/ (declined' /\ proc.op # "update")
    /\ step = "unskill" => disk'.skills = None
    /\ step = "reskill" => disk'.skills = IF receipt.update.saved.skills = None THEN disk.skills
                                          ELSE receipt.update.saved.skills
    /\ step \notin {"skills", "unskill", "reskill"} => disk'.skills = disk.skills
    /\ ~(step = "skills" /\ proc.op # "update") => declined' = declined

ServicesAfter(step) ==
    /\ step \in {"up", "create"} =>
          srv'.runner.image = proc.prof /\ srv'.webui.image = proc.prof
    /\ step = "remove" => srv'.runner.image = None /\ srv'.webui.image = None
    /\ step \notin {"up", "create", "remove"} =>
          srv'.runner.image = srv.runner.image /\ srv'.webui.image = srv.webui.image
    /\ step = "bind" => bound'
    /\ step \in {"up", "create"} /\ bound /\ Images(proc.prof) => bound'
    /\ step \notin {"up", "create", "remove", "bind"} => bound' = bound

DataAfter(step) ==
    data'.by = IF step = "up" THEN proc.prof
               ELSE IF step = "wipe" THEN None
               ELSE IF step = "restore" THEN receipt.update.saved.data.by
               ELSE data.by

After(step) ==
    /\ receipt' = receipt
    /\ DiskAfter(step) /\ SkillAfter(step) /\ ServicesAfter(step) /\ DataAfter(step)
    /\ \/ Ended
       \/ On /\ proc'.prof = IF step = "bundle" /\ proc.op = "update" THEN proc.to ELSE proc.prof

Plain == {"mark", "idle", "off", "login", "stop", "halt", "remove", "create", "web", "rest",
          "settle", "up", "bind", "bundle", "venv", "profile", "shelve", "scrap", "unshelve",
          "tidy", "skills", "unskill", "rebundle", "reskill", "root", "wipe", "restore",
          "records", "unmark", "payload"}

LEMMA SwitchedImages ==
    ASSUME TypeOK, NEW services, NEW up, SetUp(services, up)
    PROVE  srv'.runner.image = srv.runner.image /\ srv'.webui.image = srv.webui.image
BY DEF TypeOK, SetUp, Compositions

\* Steps on no piece at all.
LEMMA LightAfter ==
    ASSUME TypeOK, Mark \/ RequireIdle \/ Login \/ Unmark \/ Payload
    PROVE  \E step \in Plain : At(step) /\ After(step)
<1>1. UNCHANGED <<receipt, disk, srv, bound, data, declined>>
  BY DEF Mark, RequireIdle, Login, Unmark, Payload, host, docker, world
<1>2. PICK step \in {"mark", "idle", "off", "login", "unmark", "payload"} : At(step)
  BY DEF Mark, RequireIdle, Login, Unmark, Payload
<1>3. Ended \/ (On /\ proc'.prof = proc.prof)
  <2>1. Finish \/ Leave \/ Advance
    BY DEF Mark, RequireIdle, Login, Unmark, Payload
  <2>2. Finish \/ Leave => Ended
    BY DEF Finish, Leave, Idle, Ended
  <2> QED BY <1>2, <2>1, <2>2, AdvanceOn
<1>4. After(step)
  BY <1>1, <1>2, <1>3 DEF After, DiskAfter, SkillAfter, ServicesAfter, DataAfter
<1> QED BY <1>2, <1>4 DEF Plain

LEMMA ContainersAfter ==
    ASSUME TypeOK, Containers
    PROVE  \E step \in Plain : At(step) /\ After(step)
<1>1. UNCHANGED <<receipt, disk, data, declined>> /\ srv \in Compositions
  BY DEF Containers, host, world, TypeOK
<1>2. PICK step \in {"stop", "halt", "remove", "create", "web", "rest", "settle"} : At(step)
  BY DEF Containers
<1>3. Ended \/ (On /\ proc'.prof = proc.prof)
  BY <1>2, AdvanceOn DEF Containers
<1>4. ServicesAfter(step)
  <2>1. CASE step \in {"stop", "halt"}
    <3>1. bound' = bound /\ \E services : SetUp(services, FALSE)
      BY <1>2, <2>1 DEF Containers, At
    <3> QED BY <2>1, <3>1, SwitchedImages DEF ServicesAfter
  <2>2. CASE step = "remove"
    <3>1. srv' = NoServices
      BY <1>2, <2>2 DEF Containers, At
    <3> QED BY <2>2, <3>1 DEF ServicesAfter, NoServices, NoContainer
  <2>3. CASE step = "create"
    <3>1. Create(proc.prof)
      BY <1>2, <2>3 DEF Containers, At
    <3>2. \A c \in {srv.runner, srv.webui} : Created(c, proc.prof).image = proc.prof
      BY DEF Created
    <3>3. srv'.runner.image = proc.prof /\ srv'.webui.image = proc.prof
      BY <3>1, <3>2 DEF Create
    <3>4. bound /\ Images(proc.prof) => bound'
      BY <3>1 DEF Create, Images
    <3> QED BY <2>3, <3>3, <3>4 DEF ServicesAfter
  <2>4. CASE step \in {"web", "rest", "settle"}
    <3>1. /\ bound' = bound
          /\ \E b : srv' = [srv EXCEPT !.webui.up = b] \/ srv' = [srv EXCEPT !.runner.up = b]
      BY <1>2, <2>4 DEF Containers, At
    <3>2. srv'.runner.image = srv.runner.image /\ srv'.webui.image = srv.webui.image
      BY <1>1, <3>1 DEF Compositions
    <3> QED BY <2>4, <3>1, <3>2 DEF ServicesAfter
  <2> QED BY <2>1, <2>2, <2>3, <2>4
<1>5. After(step)
  BY <1>1, <1>2, <1>3, <1>4 DEF After, DiskAfter, SkillAfter, DataAfter
<1> QED BY <1>2, <1>5 DEF Plain

LEMMA StartsAfter ==
    ASSUME TypeOK, Up \/ Bind \/ Volume
    PROVE  \E step \in Plain : At(step) /\ After(step)
<1>0. disk \in Disks /\ data \in Volumes
  BY DEF TypeOK
<1>1. CASE Up
  <2>1. UNCHANGED <<receipt, disk, declined>> /\ At("up")
    BY <1>1 DEF Up, host, world
  <2>2. Ended \/ (On /\ proc'.prof = proc.prof)
    BY <1>1, <2>1, AdvanceOn DEF Up
  <2>3. srv'.runner.image = proc.prof /\ srv'.webui.image = proc.prof
    BY <1>1 DEF Up, Created
  <2>4. bound /\ Images(proc.prof) => bound'
    BY <1>1 DEF Up, Images, Bound
  <2>5. data'.by = proc.prof
    BY <1>0, <1>1 DEF Up, Touch, Volumes
  <2>6. After("up")
    BY <2>1, <2>2, <2>3, <2>4, <2>5 DEF After, DiskAfter, SkillAfter, ServicesAfter, DataAfter
  <2> QED BY <2>1, <2>6 DEF Plain
<1>2. CASE Bind
  <2>1. UNCHANGED <<receipt, srv, data, declined>> /\ At("bind") /\ bound' = TRUE
    BY <1>2 DEF Bind
  <2>2. Ended \/ (On /\ proc'.prof = proc.prof)
    BY <1>2, <2>1, AdvanceOn DEF Bind
  <2>3. /\ disk'.profile = proc.prof /\ disk'.bundle = disk.bundle /\ disk'.venv = disk.venv
        /\ disk'.prev = disk.prev /\ disk'.skills = disk.skills
    BY <1>0, <1>2 DEF Bind, Disks
  <2>4. After("bind")
    BY <2>1, <2>2, <2>3 DEF After, DiskAfter, SkillAfter, ServicesAfter, DataAfter
  <2> QED BY <2>1, <2>4 DEF Plain
<1>3. CASE Volume
  <2>1. UNCHANGED <<receipt, disk, srv, bound, declined>>
    BY <1>3 DEF Volume, host, docker
  <2>2. PICK step \in {"wipe", "restore", "records"} : At(step)
    BY <1>3 DEF Volume
  <2>3. Ended \/ (On /\ proc'.prof = proc.prof)
    BY <1>3, <2>2, AdvanceOn DEF Volume
  <2>4. DataAfter(step)
    BY <1>0, <1>3, <2>2 DEF Volume, At, DataAfter, NoData, Volumes
  <2>5. After(step)
    BY <2>1, <2>2, <2>3, <2>4 DEF After, DiskAfter, SkillAfter, ServicesAfter
  <2> QED BY <2>2, <2>5 DEF Plain
<1> QED BY <1>1, <1>2, <1>3

LEMMA FilesAfter ==
    ASSUME TypeOK, Files
    PROVE  \E step \in Plain : At(step) /\ After(step)
<1>0. disk \in Disks
  BY DEF TypeOK
<1>1. UNCHANGED <<receipt, srv, bound, data>>
  BY DEF Files, docker
<1>2. PICK step \in {"bundle", "venv", "profile", "shelve", "scrap", "unshelve", "tidy",
                     "skills", "unskill", "rebundle", "reskill", "root"} : At(step)
  BY DEF Files
<1>3. CASE step = "bundle"
  <2> DEFINE v == IF proc.op = "update" THEN proc.to ELSE proc.prof
  <2>1. disk' = [disk EXCEPT !.bundle = v] /\ proc' = [proc EXCEPT !.at = @ + 1, !.prof = v]
    BY <1>2, <1>3 DEF Files, At
  <2>2. proc \in Processes /\ proc.at \in 1..18
    BY <1>2, StepPlace DEF Processes
  <2> HIDE DEF v
  <2>3. /\ proc'.op = proc.op /\ proc'.at = proc.at + 1 /\ proc'.prof = v
        /\ proc'.to = proc.to /\ proc'.saved = proc.saved /\ Idle.at = 0
    BY <2>1, <2>2 DEF Processes, Idle
  <2>4. On
    BY <2>2, <2>3 DEF On
  <2>5. /\ disk'.profile = disk.profile /\ disk'.bundle = v /\ disk'.venv = disk.venv
        /\ disk'.prev = disk.prev /\ disk'.skills = disk.skills
    BY <1>0, <2>1 DEF Disks
  <2>6. DiskAfter("bundle") /\ SkillAfter("bundle")
    <3>1. declined' = declined
      BY <1>2, <1>3 DEF Files, At
    <3> QED BY <2>3, <2>5, <3>1 DEF DiskAfter, SkillAfter
  <2>7. After("bundle")
    BY <1>1, <2>3, <2>4, <2>6 DEF After, ServicesAfter, DataAfter, v
  <2> QED BY <1>2, <1>3, <2>7 DEF Plain
<1>4. CASE step # "bundle"
  <2>1. Advance
    BY <1>2, <1>4 DEF Files, At
  <2>2. Ended \/ (On /\ proc'.prof = proc.prof)
    BY <1>2, <2>1, AdvanceOn
  <2>3. /\ step = "venv" => disk' = [disk EXCEPT !.venv = proc.prof]
        /\ step = "profile" => disk' = [disk EXCEPT !.profile = proc.prof]
        /\ step = "shelve" => disk' = [disk EXCEPT !.prev = disk.venv, !.venv = None]
        /\ step = "scrap" => disk' = [disk EXCEPT !.venv = IF disk.prev = None THEN @ ELSE None]
        /\ step = "unshelve" => disk' = IF disk.prev = None THEN disk
                                ELSE [disk EXCEPT !.venv = disk.prev, !.prev = None]
        /\ step = "tidy" => disk' = [disk EXCEPT !.prev = None]
    BY <1>2, <1>4 DEF Files, At
  <2>4. /\ step = "unskill" => disk' = [disk EXCEPT !.skills = None]
        /\ step = "rebundle" => disk' = [disk EXCEPT !.bundle = receipt.update.saved.bundle]
        /\ step = "root" => disk' = [NoDisk EXCEPT !.skills = disk.skills]
    BY <1>2, <1>4 DEF Files, At
  <2>7. /\ step = "skills" => EntryAndSkill
        /\ step = "reskill" => RestoreSkill
        /\ step # "skills" => declined' = declined
    BY <1>2, <1>4 DEF Files, At
  <2>8. SkillAfter(step)
    <3>1. CASE step = "skills"
      <4>1. \/ /\ disk' = [disk EXCEPT !.skills = disk.venv]
               /\ proc.op = "update" => declined' = declined
            \/ disk' = disk /\ proc.op # "update" /\ declined'
        BY <2>7, <3>1 DEF EntryAndSkill, TypeOK
      <4>2. disk'.skills = disk.venv \/ (declined' /\ proc.op # "update")
        BY <1>0, <4>1 DEF Disks
      <4> QED BY <3>1, <4>1, <4>2 DEF SkillAfter
    <3>2. CASE step = "reskill"
      BY <1>0, <2>7, <3>2 DEF SkillAfter, RestoreSkill, Disks
    <3>3. CASE step = "root"
      BY <2>4, <2>7, <3>3 DEF SkillAfter, NoDisk
    <3>4. CASE step \notin {"skills", "reskill", "root"}
      BY <1>0, <1>2, <1>4, <2>3, <2>4, <2>7, <3>4 DEF SkillAfter, Disks
    <3> QED BY <3>1, <3>2, <3>3, <3>4
  <2>5. DiskAfter(step)
    <3>1. CASE step \in {"venv", "profile", "shelve"}
      BY <1>0, <2>3, <3>1 DEF DiskAfter, Disks
    <3>2. CASE step \in {"scrap", "unshelve", "tidy"}
      BY <1>0, <2>3, <3>2 DEF DiskAfter, Disks
    <3>3. CASE step \in {"unskill", "rebundle"}
      BY <1>0, <2>4, <3>3 DEF DiskAfter, Disks
    <3>4. CASE step = "root"
      BY <2>4, <3>4 DEF DiskAfter, NoDisk
    <3>5. CASE step = "skills"
      <4>1. disk' = disk \/ disk' = [disk EXCEPT !.skills = disk.venv]
        BY <2>7, <3>5 DEF EntryAndSkill
      <4> QED BY <1>0, <3>5, <4>1 DEF DiskAfter, Disks
    <3>6. CASE step = "reskill"
      BY <1>0, <2>7, <3>6 DEF DiskAfter, RestoreSkill, Disks
    <3> QED BY <1>2, <1>4, <3>1, <3>2, <3>3, <3>4, <3>5, <3>6
  <2>6. After(step)
    BY <1>1, <1>2, <1>4, <2>2, <2>5, <2>8 DEF After, ServicesAfter, DataAfter
  <2> QED BY <1>2, <2>6 DEF Plain
<1> QED BY <1>3, <1>4

\* The pieces after a step of a plan, and how far the operation has come by it.
LEMMA StepPieces ==
    ASSUME VInv, RInv', NEW step \in Plain, At(step), After(step)
    PROVE  Pieces'
<1>1. /\ Place(proc.op, proc.at, step) /\ proc \in Processes /\ proc # Idle
      /\ proc.at \in 1..18
  BY StepPlace DEF VInv, RInv, OInv, TInv, At, Processes
<1>2. /\ receipt' = receipt
      /\ Installed' = Installed /\ Resumable' = Resumable
  BY DEF After, Installed, Resumable
<1>3. /\ disk.profile = None => ~Resumable /\ ~Installed
      /\ disk'.profile = None => ~Resumable /\ ~Installed
      /\ ~(Resumable /\ Installed)
      /\ Installed => receipt.update = None /\ receipt.type = "docker"
      /\ Resumable => receipt.update # None
  BY <1>2 DEF VInv, RInv, OInv, Rooted, Journaled, Installed, Resumable
<1>4. /\ proc.op = "install" => proc.at > 1 /\ receipt.state = "installing" /\ receipt.update = None
      /\ proc.op = "undo" => receipt.state = "installing" /\ receipt.update = None
      /\ proc.op = "uninstall" /\ proc.at > 4 => receipt.state = "uninstalling"
      /\ proc.op = "setup" => receipt.update = None
      /\ proc.op \in {"native", "retire"} => receipt.type # "docker"
    <2>1. proc.op = "install" => proc.at > 1
      BY <1>1 DEF Place, Plain
    <2>2. proc.op = "native" => proc.at > 1
      BY <1>1 DEF Place, Plain
    <2> QED BY <1>1, <2>1, <2>2 DEF VInv, RInv, OInv, Holding, Underway
<1>5. /\ proc.op = "update" /\ proc.at \in 5..16 => Resumable
      /\ proc.op = "rollback" => Resumable
      /\ proc.op = "purge" => disk.profile = None
      /\ proc.op \in {"update", "rollback"} => proc.at \in 1..18
    BY <1>1 DEF VInv, RInv, OInv, Removing, Underway
<1>6. proc.prof = None => step \in {"unmark", "root", "payload"}
  <2>1. step \notin {"unmark", "root", "payload"} => proc.prof \in Versions
    BY ProfileKnown DEF VInv, RInv, OInv, Plain
  <2> QED BY <2>1, InstallationAssumption
<1>7. receipt.update # None => receipt.update \in Journals /\ receipt.update.old # None
  <2>1. receipt.update # None => receipt.update \in Journals
    BY DEF VInv, RInv, OInv, TInv, TypeOK, Receipts
  <2> QED BY <2>1, InstallationAssumption DEF Journals
<1>8. Uniform'
  <2> SUFFICES ASSUME Installed PROVE Uniform'
    BY <1>2 DEF Uniform
  <2>1. proc.op \in {"update", "setup", "stop", "uninstall", "leave"}
    BY <1>1, <1>3, <1>4, <1>5 DEF Place, Installed
  <2>2. /\ proc.op = "update" => proc.at \notin 5..16
        /\ proc.op = "uninstall" => proc.at \notin 5..11
    BY <1>1, <1>3, <1>4, <1>5 DEF Installed
  <2>3. /\ step \in {"mark", "idle", "off", "login", "stop", "halt", "create", "web", "rest",
                      "settle", "up", "bind", "skills", "unmark", "payload", "tidy", "records"}
        /\ step \in {"create", "up", "bind", "skills"} => proc.op = "setup"
    BY <1>1, <2>1, <2>2 DEF Place, Plain
  <2>4. proc.op = "setup" => proc.prof = disk.profile
    BY DEF VInv, Progress, SetupFit
  <2>5. /\ disk.bundle = disk.profile /\ disk.venv = disk.profile
        /\ declined \/ disk.skills = disk.profile
        /\ Images(disk.profile) /\ bound /\ data.by = disk.profile
    BY DEF VInv, Pieces, Uniform
  <2>6. /\ disk'.profile = disk.profile /\ disk'.bundle = disk.profile
        /\ disk'.venv = disk.profile
    BY <2>3, <2>4, <2>5 DEF After, DiskAfter
  <2>8. declined' \/ disk'.skills = disk.profile
    BY <2>3, <2>5 DEF After, SkillAfter
  <2>7. /\ srv'.runner.image = disk.profile /\ srv'.webui.image = disk.profile /\ bound'
        /\ data'.by = disk.profile
    BY <2>3, <2>4, <2>5 DEF After, ServicesAfter, DataAfter, Images
  <2> QED BY <2>6, <2>7, <2>8 DEF Uniform, Images
<1>9. Settled'
  <2> SUFFICES ASSUME receipt.update = None, disk'.profile # None PROVE Settled'
    BY <1>2 DEF Settled
  <2>1. proc.op \notin {"rollback", "purge"} /\ (proc.op = "update" => proc.at \notin 5..16)
    BY <1>1, <1>3, <1>5 DEF After, DiskAfter, Place
  <2>2. CASE proc.op = "install"
    <3>1. /\ proc.at = 4 => step = "profile"
          /\ proc.at = 5 => step = "up"
          /\ step \in {"venv", "bundle"} => proc.at < 4
          /\ step = "bind" => proc.at = 6
          /\ step = "profile" => proc.at = 4
          /\ step = "up" => proc.at = 5
          /\ step \notin {"wipe", "restore", "shelve", "scrap", "unshelve", "rebundle", "root"}
      BY <1>1, <2>2 DEF Place, Plain
    <3>2. proc.at >= 4
      BY <1>1, <2>2, <3>1 DEF VInv, Progress, InstallFit, After, DiskAfter
    <3>3. disk'.bundle = proc.prof /\ disk'.venv = proc.prof /\ disk'.profile = proc.prof
      BY <1>1, <2>2, <3>1, <3>2 DEF VInv, Progress, InstallFit, After, DiskAfter
    <3>4. data'.by \in {None, proc.prof}
      BY <1>1, <2>2, <3>1, <3>2 DEF VInv, Progress, InstallFit, After, DataAfter
    <3> QED BY <3>3, <3>4 DEF Settled
  <2>3. CASE proc.op # "install"
    <3>1. /\ step \notin {"bundle", "venv", "profile", "shelve", "scrap", "unshelve", "rebundle",
                          "wipe", "restore"}
          /\ step \in {"up", "bind"} => proc.op = "setup"
      BY <1>1, <2>1, <2>3 DEF Place, Plain
    <3>2. proc.op = "setup" => proc.prof = disk.profile
      BY DEF VInv, Progress, SetupFit
    <3>3. disk'.profile = disk.profile /\ disk'.bundle = disk.bundle /\ disk'.venv = disk.venv
      BY <3>1, <3>2 DEF After, DiskAfter
    <3>4. data'.by = data.by \/ data'.by = disk.profile
      BY <3>1, <3>2 DEF After, DataAfter
    <3> QED BY <3>3, <3>4 DEF VInv, Pieces, Settled
  <2> QED BY <2>2, <2>3
<1>10. JournalTrue'
  <2>1. step = "skills" /\ proc.op # "update" => receipt.update = None
    BY <1>1, <1>4 DEF Place
  <2>2. receipt.update # None => declined' = declined
    BY <2>1 DEF After, SkillAfter
  <2> QED BY <1>2, <2>2 DEF VInv, Pieces, JournalTrue
<1>11. Restorable'
  <2> SUFFICES ASSUME Resumable PROVE Restorable'
    BY <1>2 DEF Restorable
  <2>0. /\ \/ disk.prev = receipt.update.old
           \/ disk.prev = None /\ disk.venv = receipt.update.old
        /\ receipt.update.old # None
    BY <1>3, <1>7 DEF VInv, Pieces, Restorable
  <2>1. /\ proc.op \notin {"install", "undo", "setup", "purge"}
        /\ proc.op = "uninstall" => proc.at < 5
    BY <1>1, <1>3, <1>4, <1>5 DEF Resumable, Place
  <2>2. CASE proc.op = "update"
    <3>1. /\ step \notin {"root", "scrap", "unshelve"}
          /\ step = "shelve" => proc.at = 10
          /\ step = "venv" => proc.at = 11
          /\ step = "tidy" => proc.at = 17
      BY <1>1, <2>2 DEF Place, Plain
    <3>2. /\ proc.at = 10 => disk.venv = receipt.update.old
          /\ proc.at = 11 => disk.prev = receipt.update.old
          /\ proc.at # 17
      <4>1. proc.at \in 5..16
        BY <1>1, <1>3, <2>2 DEF VInv, Progress, UpdateFit
      <4> QED BY <2>2, <4>1 DEF VInv, Progress, UpdateFit
    <3> QED BY <1>2, <2>0, <3>1, <3>2 DEF Restorable, After, DiskAfter
  <2>3. CASE proc.op = "rollback"
    <3>1. step \notin {"root", "venv", "shelve", "tidy"}
      BY <1>1, <2>3 DEF Place, Plain
    <3> QED BY <1>2, <2>0, <3>1 DEF Restorable, After, DiskAfter
  <2>4. CASE proc.op \notin {"update", "rollback"}
    <3>1. step \notin {"root", "venv", "scrap", "unshelve", "shelve", "tidy"}
      BY <1>1, <2>1, <2>4 DEF Place, Plain
    <3> QED BY <1>2, <2>0, <3>1 DEF Restorable, After, DiskAfter
  <2> QED BY <2>2, <2>3, <2>4
<1>12. Migrated'
  <2> SUFFICES ASSUME receipt.update # None PROVE Migrated'
    BY <1>2 DEF Migrated
  <2>1. step # "create"
    BY <1>1, <1>4 DEF Place
  <2>2. receipt.update.saved.data.by = receipt.update.old
    BY DEF VInv, Pieces, JournalTrue
  <2>3. \/ data.by \in {None, receipt.update.old, srv.runner.image}
        \/ srv.runner.image = None
    BY DEF VInv, Pieces, Migrated
  <2> QED BY <1>2, <2>1, <2>2, <2>3 DEF Migrated, After, ServicesAfter, DataAfter
<1>13. Bare'
  <2> SUFFICES ASSUME receipt.type # "docker" PROVE Bare'
    BY <1>2 DEF Bare
  <2>1. step \in {"unmark", "payload"}
    BY DockerSteps DEF VInv, RInv, Plain
  <2>2. data'.by = data.by
    BY <2>1 DEF After, DataAfter
  <2> QED BY <1>2, <2>2 DEF VInv, Pieces, Bare
<1> QED BY <1>8, <1>9, <1>10, <1>11, <1>12, <1>13 DEF Pieces

LEMMA StepProgress ==
    ASSUME VInv, RInv', NEW step \in Plain, At(step), After(step)
    PROVE  Progress'
<1>1. /\ Place(proc.op, proc.at, step) /\ proc \in Processes /\ proc # Idle
      /\ proc.at \in 1..18
  BY StepPlace DEF VInv, RInv, OInv, TInv, At, Processes
<1>2. /\ receipt' = receipt
      /\ Installed' = Installed /\ Resumable' = Resumable
  BY DEF After, Installed, Resumable
<1>3. CASE Ended
  BY <1>3, EndedProgress
<1>4. CASE ~Ended
  <2>1. /\ proc'.op = proc.op /\ proc'.at = proc.at + 1
        /\ proc'.to = proc.to /\ proc'.saved = proc.saved
        /\ proc'.prof = IF step = "bundle" /\ proc.op = "update" THEN proc.to ELSE proc.prof
    BY <1>4 DEF After, On
  <2>2. CASE proc.op = "install"
    <3>1. proc.at > 1
      BY <1>1, <2>2 DEF Place, Plain
    <3>2. InstallFit'
      BY <1>1, <2>1, <2>2, <3>1 DEF VInv, Progress, InstallFit, Images, Place, After, DiskAfter,
           SkillAfter, ServicesAfter, DataAfter
    <3> QED BY <2>1, <2>2, <3>2 DEF Progress, InstallFit, SetupFit, UpdateFit, RollbackFit
  <2>3. CASE proc.op = "setup"
    <3>1. proc.prof # None
      BY <1>1, <2>3, InstallationAssumption DEF VInv, RInv, OInv, TInv, Equipped
    <3>2. disk.profile = proc.prof /\ disk.venv = proc.prof
      BY <1>1, <2>3, <3>1 DEF VInv, RInv, Underway, Pieces, Settled, Progress, SetupFit
    <3>3. SetupFit'
      BY <1>1, <2>1, <2>3, <3>2 DEF VInv, Progress, SetupFit, Images, Place, After, DiskAfter,
           SkillAfter, ServicesAfter, DataAfter
    <3> QED BY <2>1, <2>3, <3>3 DEF Progress, InstallFit, SetupFit, UpdateFit, RollbackFit
  <2>4. CASE proc.op = "update"
    <3>1. UpdateFit'
      BY <1>1, <1>2, <2>1, <2>4 DEF VInv, Progress, UpdateFit, Images, Place, After, DiskAfter,
           SkillAfter, ServicesAfter, DataAfter, Plain
    <3> QED BY <2>1, <2>4, <3>1 DEF Progress, InstallFit, SetupFit, UpdateFit, RollbackFit
  <2>5. CASE proc.op = "rollback"
    <3>1. Resumable /\ receipt.update # None /\ receipt.update \in Journals
      BY <1>1, <2>5 DEF VInv, RInv, OInv, TInv, TypeOK, Receipts, Underway, Resumable
    <3>2. /\ \/ disk.prev = receipt.update.old
             \/ disk.prev = None /\ disk.venv = receipt.update.old
          /\ receipt.update.old # None
          /\ receipt.update.saved.data.by = receipt.update.old
          /\ receipt.update.saved.bundle = receipt.update.old
          /\ declined \/ receipt.update.saved.skills = receipt.update.old
      BY <3>1, InstallationAssumption DEF VInv, Pieces, JournalTrue, Restorable, Journals
    <3>3. RollbackFit'
      BY <1>1, <1>2, <2>1, <2>5, <3>2 DEF VInv, Progress, RollbackFit, Images, Place, After, DiskAfter,
           SkillAfter, ServicesAfter, DataAfter, Plain
    <3> QED BY <2>1, <2>5, <3>3 DEF Progress, InstallFit, SetupFit, UpdateFit, RollbackFit
  <2>6. CASE proc.op \notin {"install", "setup", "update", "rollback"}
    BY <2>1, <2>6 DEF Progress, InstallFit, SetupFit, UpdateFit, RollbackFit
  <2> QED BY <2>2, <2>3, <2>4, <2>5, <2>6
<1> QED BY <1>3, <1>4

\* Steps that change none of the pieces.
Still == /\ receipt' = receipt /\ disk' = disk /\ bound' = bound /\ declined' = declined
         /\ srv'.runner.image = srv.runner.image /\ srv'.webui.image = srv.webui.image
         /\ data'.by = data.by

LEMMA StillPieces == ASSUME VInv, Still PROVE Pieces'
<1>1. Installed' = Installed /\ Resumable' = Resumable
  BY DEF Still, Installed, Resumable
<1> QED BY <1>1 DEF Still, VInv, Pieces, Uniform, Settled, JournalTrue, Restorable, Migrated, Bare,
                    Images

LEMMA StillVersions ==
    ASSUME VInv, RInv', Still, proc' = proc \/ Ended
    PROVE  VInv'
<1>1. Pieces'
  BY StillPieces
<1>2. CASE Ended
  BY <1>1, <1>2, EndedProgress DEF VInv
<1>3. CASE proc' = proc
  <2>1. Installed' = Installed
    BY DEF Still, Installed
  <2>2. Progress'
    BY <1>3, <2>1 DEF Still, VInv, Progress, InstallFit, SetupFit, UpdateFit, RollbackFit, Images
  <2> QED BY <1>1, <2>2 DEF VInv
<1> QED BY <1>2, <1>3

\* An installation that is settled is of the version of its profile.
LEMMA Settledness ==
    ASSUME VInv
    PROVE  /\ receipt.type # "docker" => disk.profile = None
           /\ Installed => receipt.update = None /\ disk.profile # None
           /\ Resumable => receipt.update # None /\ disk.profile # None
           /\ receipt.update # None => receipt.update \in Journals /\ receipt.update.old # None
<1>1. receipt.type # "docker" => disk.profile = None
  BY DEF VInv, RInv, OInv, OwnedByReceipt, DockerEvidence, NoDisk
<1>2. /\ Installed => receipt.update = None /\ disk.profile # None
      /\ Resumable => receipt.update # None /\ disk.profile # None
  BY DEF VInv, RInv, OInv, Rooted, Journaled, Installed, Resumable
<1>3. receipt.update # None => receipt.update \in Journals
  BY DEF VInv, RInv, OInv, TInv, TypeOK, Receipts
<1> QED BY <1>1, <1>2, <1>3, InstallationAssumption DEF Journals

LEMMA SaveVersions ==
    ASSUME VInv, RInv', Save
    PROVE  VInv'
<1>1. Still
  BY DEF Save, Still, host, docker, world
<1>2. CASE Leave
  <2>1. Ended
    BY <1>2 DEF Leave, Ended, Idle
  <2> QED BY <1>1, <2>1, StillVersions
<1>3. CASE ~Leave
  <2> DEFINE copy == [data |-> data, bundle |-> disk.bundle, skills |-> disk.skills]
  <2>1. proc' = [proc EXCEPT !.at = @ + 1, !.saved = copy] /\ (proc.op = "update" => disk.prev = None)
    BY <1>3 DEF Save
  <2>2. copy.data = data /\ copy.bundle = disk.bundle /\ copy.skills = disk.skills
    OBVIOUS
  <2> HIDE DEF copy
  <2>3. /\ proc \in Processes /\ Place(proc.op, proc.at, "save") /\ proc.at \in 1..18
        /\ proc # Idle
    BY StepPlace DEF Save, VInv, RInv, OInv, TInv, Processes, At
  <2>4. proc.op \in {"update", "uninstall"} /\ proc.at = 3
    BY <2>3 DEF Place
  <2>5. /\ proc'.op = proc.op /\ proc'.at = 4 /\ proc'.prof = proc.prof /\ proc'.saved = copy
    BY <2>1, <2>3, <2>4 DEF Processes
  <2>6. proc.op = "update" => Installed /\ disk.profile = proc.prof
    BY <2>4 DEF VInv, Progress, UpdateFit
  <2>7. proc.op = "update" => /\ data.by = proc.prof /\ disk.bundle = proc.prof
                              /\ declined \/ disk.skills = proc.prof
    BY <2>6 DEF VInv, Pieces, Uniform
  <2>8. Installed' = Installed
    BY <1>1 DEF Still, Installed
  <2>9. UpdateFit'
    BY <1>1, <2>1, <2>2, <2>5, <2>6, <2>7, <2>8 DEF Still, UpdateFit
  <2>10. Progress'
    BY <2>4, <2>5, <2>9 DEF Progress, InstallFit, SetupFit, RollbackFit
  <2> QED BY <1>1, <2>10, StillPieces DEF VInv
<1> QED BY <1>2, <1>3

LEMMA ClaimVersions ==
    ASSUME VInv, RInv', Claim
    PROVE  VInv'
<1>1. Place(proc.op, proc.at, "claim") /\ proc \in Processes /\ proc # Idle
  BY StepPlace DEF VInv, RInv, OInv, TInv, At, Claim
<1>2. \/ proc.op \in {"install", "native", "retire"} /\ proc.at = 1
      \/ proc.op \in {"update", "uninstall"} /\ proc.at = 4
      \/ proc.op = "setup" /\ proc.at = 5
  BY <1>1 DEF Place
<1>3. proc'.op = proc.op /\ proc'.at = proc.at + 1 /\ proc'.prof = proc.prof
  <2>1. proc' = [proc EXCEPT !.at = @ + 1]
    BY <1>2, Lengths DEF Claim, Advance
  <2> QED BY <1>1, <2>1 DEF Processes
<1>4. UNCHANGED <<disk, srv, bound, data, declined>>
  BY DEF Claim, host, docker, world
<1>5. receipt \in Receipts /\ disk \in Disks
  BY DEF VInv, RInv, OInv, TInv, TypeOK
<1>6. CASE proc.op \in {"install", "native"}
  <2>1. receipt = NoReceipt /\ ~DockerEvidence
    BY <1>1, <1>2, <1>6 DEF VInv, RInv, OInv, Holding
  <2>2. /\ receipt'.update = None /\ receipt'.state = "installing"
        /\ receipt.type = "none" /\ receipt'.type # "none"
    BY <1>6, <2>1 DEF Claim, NoReceipt
  <2>3. disk.profile = None /\ data.by = None
    BY <2>1, <2>2 DEF DockerEvidence, NoDisk, VInv, Pieces, Bare
  <2>4. Pieces'
    BY <1>4, <2>2, <2>3 DEF Pieces, Uniform, Settled, JournalTrue, Restorable, Migrated, Bare,
                            Installed, Resumable
  <2>5. Progress'
    BY <1>2, <1>3, <1>4, <1>6, <2>3 DEF Progress, InstallFit, SetupFit, UpdateFit, RollbackFit
  <2> QED BY <2>4, <2>5 DEF VInv
<1>7. CASE proc.op \in {"setup", "uninstall", "retire"}
  <2>1. /\ receipt'.update = receipt.update /\ receipt'.type = receipt.type
        /\ receipt'.state \in {"installing", "uninstalling"}
        /\ receipt'.state = "installing" => proc.op = "setup"
    BY <1>5, <1>7 DEF Claim, Receipts
  <2>2. proc.op = "setup" => receipt.update = None
    BY <1>1 DEF VInv, RInv, Underway
  <2>3. ~Installed' /\ ~Resumable'
    BY <2>1, <2>2 DEF Installed, Resumable
  <2>4. Pieces'
    BY <1>4, <2>1, <2>3 DEF VInv, Pieces, Uniform, Settled, JournalTrue, Restorable, Migrated, Bare
  <2>5. Progress'
    BY <1>2, <1>3, <1>4, <1>7 DEF VInv, Progress, InstallFit, SetupFit, UpdateFit, RollbackFit
  <2> QED BY <2>4, <2>5 DEF VInv
<1>8. CASE proc.op = "update"
  <2>1. /\ receipt'.update = Journal /\ receipt'.state = "installing"
        /\ receipt'.type = receipt.type
    BY <1>5, <1>8 DEF Claim, Receipts
  <2>2. receipt'.update.old = proc.prof /\ receipt'.update.saved = proc.saved
    BY <2>1 DEF Journal
  <2>3. proc.at = 4 /\ proc'.at = 5
    BY <1>2, <1>3, <1>8
  <2>4. /\ disk.prev = None /\ disk.profile = proc.prof /\ Installed
        /\ proc.saved.data.by = proc.prof /\ proc.saved.bundle = proc.prof
        /\ declined \/ proc.saved.skills = proc.prof
    BY <1>8, <2>3 DEF VInv, Progress, UpdateFit
  <2>5. data.by = proc.prof /\ disk.venv = proc.prof /\ receipt.type = "docker"
    BY <2>4 DEF VInv, Pieces, Uniform, Installed
  <2>6. receipt'.update # None
    <3>1. proc' # Idle
      BY <2>3 DEF Idle
    <3>2. receipt'.update \in Journals
      BY <1>3, <1>8, <2>3, <3>1 DEF RInv, OInv, TInv, Equipped
    <3> QED BY <3>2, JournalAssumption
  <2>7. Pieces'
    BY <1>4, <2>1, <2>2, <2>4, <2>5, <2>6 DEF Pieces, Uniform, Settled, JournalTrue, Restorable,
                                               Migrated, Bare, Installed
  <2>8. Progress'
    BY <1>3, <1>4, <1>8, <2>2, <2>3, <2>4, <2>5 DEF Progress, InstallFit, SetupFit, UpdateFit,
                                                     RollbackFit
  <2> QED BY <2>7, <2>8 DEF VInv
<1> QED BY <1>2, <1>6, <1>7, <1>8

LEMMA CommitVersions ==
    ASSUME VInv, RInv', Commit
    PROVE  VInv'
<1>1. /\ Place(proc.op, proc.at, "commit") /\ proc \in Processes /\ proc # Idle
      /\ proc.at \in 1..18
  BY StepPlace DEF Commit, VInv, RInv, OInv, TInv, At, Processes
<1>2. \/ proc.op = "install" /\ proc.at = 10
      \/ proc.op = "update" /\ proc.at = 16
      \/ proc.op = "rollback" /\ proc.at = 15
      \/ proc.op = "setup" /\ proc.at = 11
      \/ proc.op = "native" /\ proc.at = 3
  BY <1>1 DEF Place
<1>3. UNCHANGED <<disk, srv, bound, data>>
  BY DEF Commit, host, docker
<1>4. receipt'.type = receipt.type /\ receipt'.state = "installed" /\ receipt'.update = None
  BY DEF Commit, VInv, RInv, OInv, TInv, TypeOK, Receipts
<1>5. Ended \/ (On /\ proc'.prof = proc.prof)
  BY AdvanceOn DEF Commit, VInv, RInv, OInv, TInv
<1>6. proc.op \in {"install", "rollback", "native"} => Ended
  <2>1. proc.op \in {"install", "rollback", "native"} => proc.at = Steps(proc.op)
    BY <1>2, Lengths
  <2>2. On => proc'.at <= Steps(proc.op)
    BY DEF On, RInv, OInv, TInv, TypeOK
  <2>3. proc.op \in {"install", "rollback", "native"} => Steps(proc.op) \in 1..18
    BY Lengths
  <2> QED BY <1>1, <1>5, <2>1, <2>2, <2>3 DEF On
<1>7. receipt.type = "docker" =>
          /\ disk.bundle = disk.profile /\ disk.venv = disk.profile
          /\ declined' \/ disk.skills = disk.profile
          /\ Images(disk.profile) /\ bound /\ data.by = disk.profile
  <2>0. declined /\ proc.op # "update" => declined'
    BY DEF Commit
  <2>1. CASE proc.op = "install"
    BY <1>2, <2>0, <2>1 DEF VInv, Progress, InstallFit
  <2>2. CASE proc.op = "update"
    BY <1>2, <2>2 DEF VInv, Progress, UpdateFit
  <2>3. CASE proc.op = "rollback"
    BY <1>2, <2>0, <2>3 DEF VInv, Progress, RollbackFit
  <2>4. CASE proc.op = "setup"
    <3>1. receipt.update = None /\ proc.prof # None
      BY <1>1, <2>4, InstallationAssumption DEF VInv, RInv, Underway, OInv, TInv, Equipped
    <3>2. proc.at = 11 /\ disk.profile = proc.prof
      BY <1>2, <2>4 DEF VInv, Progress, SetupFit
    <3>3. disk.bundle = disk.profile /\ disk.venv = disk.profile
      BY <3>1, <3>2 DEF VInv, Pieces, Settled
    <3> QED BY <2>0, <2>4, <3>2, <3>3 DEF VInv, Progress, SetupFit
  <2>5. CASE proc.op = "native"
    BY <1>1, <1>2, <2>5 DEF VInv, RInv, OInv, Holding
  <2> QED BY <1>2, <2>1, <2>2, <2>3, <2>4, <2>5
<1>8. Pieces'
  BY <1>3, <1>4, <1>7, Settledness DEF VInv, Pieces, Uniform, Settled, JournalTrue, Restorable,
                                       Migrated, Bare, Installed, Resumable, Images
<1>9. Progress'
  <2>1. CASE Ended
    BY <2>1, EndedProgress
  <2>2. CASE ~Ended
    <3>1. /\ proc'.op = proc.op /\ proc'.at = proc.at + 1 /\ proc'.prof = proc.prof
          /\ proc.op \in {"update", "setup"}
      BY <1>2, <1>5, <1>6, <2>2 DEF On
    <3>2. receipt.type = "docker"
      BY <1>1, <3>1 DEF VInv, RInv, OInv, Holding
    <3>3. declined /\ proc.op # "update" => declined'
      BY DEF Commit
    <3> QED BY <1>2, <1>3, <1>4, <3>1, <3>2, <3>3 DEF VInv, Progress, InstallFit, SetupFit, UpdateFit,
                                                      RollbackFit, Installed, Images
  <2> QED BY <2>1, <2>2
<1> QED BY <1>8, <1>9 DEF VInv

LEMMA ForgetVersions ==
    ASSUME VInv, RInv', Forget
    PROVE  VInv'
<1>1. /\ Place(proc.op, proc.at, "forget") /\ proc \in Processes /\ proc # Idle
      /\ proc.at \in 1..18
  BY StepPlace DEF Forget, VInv, RInv, OInv, TInv, At, Processes
<1>2. Ended
  <2>1. proc.at = Steps(proc.op)
    BY <1>1, Lengths DEF Place
  <2>2. Ended \/ On
    BY AdvanceOn DEF Forget, VInv, RInv, OInv, TInv
  <2>3. On => proc'.at <= Steps(proc.op)
    BY DEF On, RInv, OInv, TInv, TypeOK
  <2> QED BY <1>1, <2>1, <2>2, <2>3 DEF On
<1>3. receipt'.update = None /\ receipt'.type = "none" /\ receipt'.state = "none"
  BY DEF Forget, NoReceipt
<1>4. disk.profile = None /\ disk' = disk
  <2>1. \/ proc.op = "undo" /\ proc.at = 5
        \/ proc.op = "uninstall" /\ proc.at = 11
        \/ proc.op = "purge" /\ proc.at = 2
        \/ proc.op = "retire"
    BY <1>1 DEF Place
  <2>2. proc.op = "retire" => receipt.type = "native"
    BY <1>1 DEF VInv, RInv, OInv, Holding
  <2>3. proc.op # "retire" => disk = NoDisk
    BY <1>1, <2>1 DEF VInv, RInv, OInv, Removing
  <2> QED BY <2>1, <2>2, <2>3, Settledness DEF NoDisk, Forget, host
<1>5. data'.by = None
  BY DEF Forget, NoData, VInv, Pieces, Bare
<1>6. Pieces'
  BY <1>3, <1>4, <1>5 DEF Pieces, Uniform, Settled, JournalTrue, Restorable, Migrated, Bare,
                          Installed, Resumable
<1> QED BY <1>2, <1>6, EndedProgress DEF VInv

LEMMA WorkVersions ==
    ASSUME VInv, RInv', Work
    PROVE  VInv'
<1>1. TypeOK
  BY DEF VInv, RInv, OInv, TInv
<1>2. CASE Mark \/ RequireIdle \/ Login \/ Containers \/ Up \/ Bind \/ Files \/ Volume \/ Unmark
           \/ Payload
  <2>1. PICK step \in Plain : At(step) /\ After(step)
    BY <1>1, <1>2, LightAfter, ContainersAfter, StartsAfter, FilesAfter
  <2> QED BY <2>1, StepPieces, StepProgress DEF VInv
<1> QED BY <1>2, SaveVersions, ClaimVersions, CommitVersions, ForgetVersions DEF Work

\* Operations that begin rely on what is settled.
LEMMA LaunchVersions ==
    ASSUME VInv, RInv', Still, NEW op, NEW prof, NEW same, Launch(op, prof, same),
           op = "setup" => prof = disk.profile
    PROVE  VInv'
<1>1. Pieces'
  BY StillPieces
<1>2. CASE op \in {"setup", "stop"} /\ Begin(op, prof)
  <2>1. proc' = [op |-> op, at |-> 1, prof |-> prof, to |-> None, inside |-> FALSE,
                remove |-> FALSE, saved |-> None]
    BY <1>2 DEF Begin, Idle
  <2>2. proc'.op = op /\ proc'.at = 1 /\ proc'.prof = prof
    BY <2>1
  <2>3. Progress'
    BY <1>2, <2>2 DEF Still, Progress, InstallFit, SetupFit, UpdateFit, RollbackFit
  <2> QED BY <1>1, <2>3 DEF VInv
<1>3. ASSUME NEW v \in Versions, op = "update",
             proc' = [Idle EXCEPT !.op = op, !.at = 1, !.prof = prof, !.to = v]
      PROVE  VInv'
  <2>1. proc' = [op |-> op, at |-> 1, prof |-> prof, to |-> v, inside |-> FALSE,
                remove |-> FALSE, saved |-> None]
    BY <1>3 DEF Idle
  <2>2. proc'.op = "update" /\ proc'.at = 1 /\ proc'.prof = prof
    BY <1>3, <2>1
  <2>3. Installed /\ srv.runner.image = prof
    BY <1>3 DEF Launch, Admitted, Installed, Bound
  <2>4. disk.profile = prof
    BY <2>3 DEF VInv, Pieces, Uniform, Images
  <2>5. Installed'
    BY <2>3 DEF Still, Installed
  <2>6. Progress'
    BY <2>2, <2>4, <2>5 DEF Still, Progress, InstallFit, SetupFit, UpdateFit, RollbackFit
  <2> QED BY <1>1, <2>6 DEF VInv
<1>4. ASSUME NEW r \in BOOLEAN, op = "uninstall",
             proc' = [Idle EXCEPT !.op = op, !.at = Resume, !.prof = prof, !.remove = r]
      PROVE  VInv'
  <2>1. proc' = [op |-> op, at |-> Resume, prof |-> prof, to |-> None, inside |-> FALSE,
                remove |-> r, saved |-> None]
    BY <1>4 DEF Idle
  <2>2. proc'.op = "uninstall"
    BY <1>4, <2>1
  <2>3. Progress'
    BY <2>2 DEF Progress, InstallFit, SetupFit, UpdateFit, RollbackFit
  <2> QED BY <1>1, <2>3 DEF VInv
<1> QED BY <1>2, <1>3, <1>4 DEF Launch

LEMMA BeginsVersions ==
    ASSUME "setup" \notin Overtaken, VInv, RInv',
           \/ \E op : BeginCommand(op)
           \/ BeginWaiting \/ BeginRollback \/ BeginRecovery \/ BeginNative
           \/ \E v \in Versions : BeginInstall(v)
    PROVE  VInv'
<1>1. Still /\ proc = Idle
  BY DEF BeginCommand, BeginWaiting, BeginRollback, BeginRecovery, BeginNative, BeginInstall,
         host, docker, world, Still
<1>2. Pieces'
  BY <1>1, StillPieces
<1>3. ASSUME NEW op, BeginCommand(op)
      PROVE  VInv'
  BY <1>1, <1>3, LaunchVersions DEF BeginCommand
<1>4. CASE BeginWaiting
  <2>1. waiting.op \in Overtaken
    BY <1>4 DEF BeginWaiting, VInv, RInv, OInv, TInv, TypeOK
  <2>2. CASE Launch(waiting.op, waiting.prof, waiting.same)
    BY <1>1, <2>1, <2>2, LaunchVersions
  <2>3. CASE proc' = Idle
    BY <1>1, <2>3, StillVersions
  <2> QED BY <1>4, <2>2, <2>3 DEF BeginWaiting
<1>5. CASE BeginRollback
  <2>1. proc' = [op |-> "rollback", at |-> 1, prof |-> receipt.update.old, to |-> None,
                inside |-> FALSE, remove |-> FALSE, saved |-> None]
    BY <1>5 DEF BeginRollback, Begin, Idle
  <2>2. proc'.op = "rollback" /\ proc'.at = 1 /\ proc'.prof = receipt.update.old
    BY <2>1
  <2>3. Progress'
    BY <1>1, <2>2 DEF Still, Progress, InstallFit, SetupFit, UpdateFit, RollbackFit
  <2> QED BY <1>2, <2>3 DEF VInv
<1>6. CASE BeginRecovery \/ BeginNative
  <2>1. proc'.op \in {"uninstall", "purge", "native", "retire"}
    BY <1>6 DEF BeginRecovery, BeginNative, Begin, Idle
  <2>2. Progress'
    BY <2>1 DEF Progress, InstallFit, SetupFit, UpdateFit, RollbackFit
  <2> QED BY <1>2, <2>2 DEF VInv
<1>7. ASSUME NEW v \in Versions, BeginInstall(v)
      PROVE  VInv'
  <2>1. proc' = [op |-> "install", at |-> 1, prof |-> v, to |-> None, inside |-> FALSE,
                remove |-> FALSE, saved |-> None]
    BY <1>7 DEF BeginInstall, Begin, Idle
  <2>2. proc'.op = "install" /\ proc'.at = 1
    BY <2>1
  <2>3. disk.profile = None /\ data.by = None
    <3>1. receipt.type = "none"
      BY <1>7 DEF BeginInstall, NoReceipt
    <3> QED BY <3>1, Settledness DEF VInv, Pieces, Bare
  <2>4. Progress'
    BY <1>1, <2>2, <2>3 DEF Still, Progress, InstallFit, SetupFit, UpdateFit, RollbackFit
  <2> QED BY <1>2, <2>4 DEF VInv
<1> QED BY <1>3, <1>4, <1>5, <1>6, <1>7

LEMMA FaultVersions ==
    ASSUME VInv, RInv', Fault
    PROVE  VInv'
<1>1. UNCHANGED <<disk, srv, bound, data, declined>> /\ proc # Idle
  BY DEF Fault, host, docker
<1>2. Finish \/ Leave => Ended
  BY DEF Finish, Leave, Idle, Ended
<1>3. CASE Abandon \/ Withdraw
  <2>1. receipt' = receipt /\ Ended
    BY <1>2, <1>3 DEF Abandon, Withdraw
  <2> QED BY <1>1, <2>1, StillVersions DEF Still
<1>4. CASE Undo
  <2>1. Still
    BY <1>1, <1>4 DEF Undo, Still
  <2>2. CASE proc.op = "install" /\ Begin("undo", proc.prof)
    <3>1. proc'.op = "undo"
      BY <2>2 DEF Begin, Idle
    <3> QED BY <2>1, <3>1, StillPieces DEF VInv, Progress, InstallFit, SetupFit, UpdateFit,
                                           RollbackFit
  <2>3. CASE proc.op = "update" /\ RollBack
    <3>1. proc' = [op |-> "rollback", at |-> 1, prof |-> receipt.update.old, to |-> None,
                  inside |-> TRUE, remove |-> FALSE, saved |-> None]
      BY <2>3 DEF RollBack, Idle
    <3>2. proc'.op = "rollback" /\ proc'.at = 1 /\ proc'.prof = receipt.update.old
      BY <3>1
    <3>3. Progress'
      BY <2>1, <3>2 DEF Still, Progress, InstallFit, SetupFit, UpdateFit, RollbackFit
    <3> QED BY <2>1, <3>3, StillPieces DEF VInv
  <2> QED BY <1>4, <2>2, <2>3 DEF Undo
<1>5. CASE Break
  <2>1. Ended
    BY <1>2, <1>5 DEF Break
  <2>2. receipt \in Receipts /\ TypeOK
    BY DEF VInv, RInv, OInv, TInv, TypeOK
  <2>3. \/ /\ Spoil(None)
           /\ \/ proc.op \in {"undo", "setup"}
              \/ proc.op = "native" /\ At("payload")
              \/ proc.op \in {"update", "rollback"} /\ At("commit")
        \/ Spoil(receipt.update) /\ proc.op = "rollback"
    BY <1>5 DEF Break
  <2>4. /\ receipt'.type = receipt.type /\ receipt'.state = "repair_required"
        /\ receipt'.update \in {None, receipt.update}
    BY <2>2, <2>3 DEF Spoil, Receipts
  <2>5. Settled'
    <3> SUFFICES ASSUME receipt'.update = None, disk.profile # None PROVE Settled'
      BY <1>1 DEF Settled
    <3>1. CASE proc.op \in {"undo", "setup"}
      <4>1. receipt.update = None
        BY <1>1, <3>1 DEF VInv, RInv, OInv, Holding, Underway
      <4> QED BY <1>1, <4>1 DEF VInv, Pieces, Settled
    <3>2. CASE proc.op = "native" /\ At("payload")
      <4>1. Place("native", proc.at, "payload")
        BY <2>2, <3>2, StepPlace
      <4>2. receipt.type = "native"
        BY <1>1, <3>2, <4>1 DEF Place, VInv, RInv, OInv, Holding
      <4> QED BY <4>2, Settledness
    <3>3. CASE proc.op \in {"update", "rollback"} /\ At("commit")
      <4>1. Place(proc.op, proc.at, "commit")
        BY <2>2, <3>3, StepPlace
      <4>2. \/ proc.op = "update" /\ proc.at = 16
            \/ proc.op = "rollback" /\ proc.at = 15
        BY <3>3, <4>1 DEF Place
      <4>3. disk.bundle = disk.profile /\ disk.venv = disk.profile /\ data.by = disk.profile
        BY <4>2 DEF VInv, Progress, UpdateFit, RollbackFit
      <4> QED BY <1>1, <4>3 DEF Settled
    <3>4. CASE Spoil(receipt.update) /\ proc.op = "rollback"
      <4>1. Resumable /\ receipt'.update = receipt.update
        BY <1>1, <2>2, <3>4 DEF VInv, RInv, Underway, Spoil, Receipts
      <4> QED BY <4>1 DEF Resumable
    <3> QED BY <2>3, <3>1, <3>2, <3>3, <3>4
  <2>6. Restorable'
    <3> SUFFICES ASSUME receipt'.update # None PROVE Restorable'
      BY DEF Restorable, Resumable
    <3>1. proc.op = "rollback" /\ receipt'.update = receipt.update
      BY <2>2, <2>3, <2>4 DEF Spoil, Receipts
    <3>2. Resumable
      BY <1>1, <3>1 DEF VInv, RInv, Underway
    <3> QED BY <1>1, <3>1, <3>2 DEF VInv, Pieces, Restorable
  <2>7. Pieces'
    BY <1>1, <2>4, <2>5, <2>6 DEF VInv, Pieces, Uniform, JournalTrue, Migrated, Bare, Installed
  <2> QED BY <2>1, <2>7, EndedProgress DEF VInv
<1> QED BY <1>3, <1>4, <1>5 DEF Fault

\* The supervisor and the switches start the Runner the profile names.
Awakened == /\ proc = Idle /\ proc' = Idle
           /\ disk.profile # None /\ Bound(disk.profile)
           /\ UNCHANGED <<receipt, disk, bound, declined>>
           /\ srv'.runner.image = srv.runner.image /\ srv'.webui.image = srv.webui.image
           /\ data'.by \in {data.by, srv.runner.image}

LEMMA StartedVersions ==
    ASSUME VInv, RInv', Awakened
    PROVE  VInv'
<1>1. Installed' = Installed /\ Resumable' = Resumable
  BY DEF Awakened, Installed, Resumable
<1>2. srv.runner.image = disk.profile /\ srv.webui.image = disk.profile /\ bound
  BY DEF Awakened, Bound
<1>3. receipt.type = "docker"
  BY Settledness DEF Awakened
<1>4. Pieces'
  BY <1>1, <1>2, <1>3 DEF Awakened, VInv, Pieces, Uniform, Settled, JournalTrue, Restorable, Migrated,
                          Bare, Images
<1> QED BY <1>4, EndedProgress DEF Awakened, Ended, VInv

LEMMA SurroundingsStarted ==
    ASSUME TypeOK, Supervise \/ Switch
    PROVE  (Still /\ proc' = proc) \/ Awakened
<1>1. data \in Volumes /\ UNCHANGED <<receipt, disk, bound, declined, proc>>
  BY DEF Supervise, Switch, host, world, TypeOK
<1>2. CASE UNCHANGED <<srv, data>>
  BY <1>1, <1>2 DEF Still
<1>3. CASE ~UNCHANGED <<srv, data>>
  <2>1. proc = Idle /\ disk.profile # None /\ Bound(disk.profile)
    BY <1>3 DEF Supervise, Switch, CanRun
  <2>2. \E services : \E up : SetUp(services, up)
    BY <1>3 DEF Supervise, Switch
  <2>3. data' = data \/ Touch(srv.runner.image)
    BY <1>3 DEF Supervise, Switch
  <2>4. data'.by \in {data.by, srv.runner.image}
    BY <1>1, <2>3 DEF Touch, Volumes
  <2> QED BY <1>1, <2>1, <2>2, <2>4, SwitchedImages DEF Awakened
<1> QED BY <1>2, <1>3

LEMMA SurroundingsStill ==
    ASSUME TypeOK,
           \/ \E op : Await(op)
           \/ Crash \/ Reboot \/ Look
           \/ \E t \in Tasks : CreateTask(t) \/ EndTask(t)
    PROVE  Still /\ (proc' = proc \/ Ended)
<1>1. data \in Volumes
  BY DEF TypeOK
<1>2. CASE Reboot
  <2>1. SetUp(Services, FALSE)
    BY <1>2 DEF Reboot
  <2> QED BY <1>2, <2>1, SwitchedImages DEF Reboot, Still, Ended, host
<1>3. ASSUME NEW t \in Tasks, CreateTask(t) \/ EndTask(t)
      PROVE  Still /\ proc' = proc
  <2>1. data'.by = data.by
    BY <1>1, <1>3 DEF CreateTask, EndTask, Volumes
  <2> QED BY <1>3, <2>1 DEF CreateTask, EndTask, Still, host, docker, world
<1>4. CASE Crash \/ Look \/ \E op : Await(op)
  BY <1>4 DEF Crash, Look, Await, Still, Ended, host, docker
<1> QED BY <1>2, <1>3, <1>4

LEMMA NextVersions == "setup" \notin Overtaken /\ VInv /\ [Next]_vars => VInv'
<1> SUFFICES ASSUME "setup" \notin Overtaken, VInv, [Next]_vars PROVE VInv'
  OBVIOUS
<1>1. RInv' /\ TypeOK
  BY NextKept DEF VInv, RInv, OInv, TInv
<1>2. CASE UNCHANGED vars
  BY <1>1, <1>2, StillVersions DEF vars, Still
<1>3. CASE Work
  BY <1>1, <1>3, WorkVersions
<1>4. CASE Next /\ ~Work
  BY <1>1, <1>4, BeginsVersions, FaultVersions, SurroundingsStarted, StartedVersions,
     SurroundingsStill, StillVersions DEF Next
<1> QED BY <1>2, <1>3, <1>4

LEMMA Versioned ==
    ASSUME "setup" \notin Overtaken
    PROVE  Spec => []VInv
<1>1. VInv /\ [Next]_vars => VInv'
  BY NextVersions
<1> QED BY InitVersions, <1>1, PTL DEF Spec

\* An installation that calls itself installed is of one version, whatever died or failed
\* before (docker_install_update.update, rollback_update), as long as no setup waits for
\* the lock with the profile of a version that is replaced meanwhile: docker_install.run
\* checks for the other commands, and not for setup, that it has not been.
THEOREM OneVersion ==
    ASSUME "setup" \notin Overtaken
    PROVE  Spec => []VersionsAgree
<1>1. VInv => VersionsAgree
  <2> SUFFICES ASSUME VInv, Installed PROVE VersionsAgree
    BY DEF VersionsAgree
  <2>1. disk.profile \in Versions
    BY Settledness DEF VInv, RInv, OInv, TInv, TypeOK, Disks
  <2>2. /\ disk.bundle = disk.profile /\ disk.venv = disk.profile
        /\ declined \/ disk.skills = disk.profile
        /\ Bound(disk.profile) /\ data.by = disk.profile
    BY DEF VInv, Pieces, Uniform, Images, Bound
  <2> QED BY <2>1, <2>2 DEF VersionsAgree
<1> QED BY Versioned, <1>1, PTL

\* The step of MigratedUnderJournal.
Migration == data'.by # data.by /\ data.by # None /\ data'.by # None =>
                 receipt.update # None /\ receipt.update.saved.data.by = data.by

LEMMA StepMigrates ==
    ASSUME VInv, NEW step \in Plain, At(step), After(step)
    PROVE  Migration
<1>1. /\ Place(proc.op, proc.at, step) /\ proc \in Processes /\ proc # Idle
      /\ proc.at \in 1..18
  BY StepPlace DEF VInv, RInv, OInv, TInv, At, Processes
<1>2. CASE step = "up"
  <2>1. data'.by = proc.prof
    BY <1>2 DEF After, DataAfter
  <2>2. \/ proc.op = "install" /\ proc.at = 5
        \/ proc.op = "update" /\ proc.at = 8
        \/ proc.op = "rollback" /\ proc.at = 9
        \/ proc.op = "setup" /\ proc.at = 6
    BY <1>1, <1>2 DEF Place
  <2>3. CASE proc.op = "install"
    BY <2>2, <2>3 DEF VInv, Progress, InstallFit, Migration
  <2>4. CASE proc.op = "update"
    <3>1. receipt.update # None
      BY <1>1, <2>2, <2>4 DEF VInv, RInv, Underway, Resumable
    <3> QED BY <2>2, <2>4, <3>1 DEF VInv, Pieces, JournalTrue, Progress, UpdateFit, Migration
  <2>5. CASE proc.op = "rollback"
    BY <2>1, <2>2, <2>5 DEF VInv, Progress, RollbackFit, Migration
  <2>6. CASE proc.op = "setup"
    <3>1. receipt.update = None /\ disk.profile = proc.prof
      BY <1>1, <2>6 DEF VInv, RInv, Underway, Progress, SetupFit
    <3>2. proc.prof # None
      BY <1>1, <2>6, InstallationAssumption DEF VInv, RInv, OInv, TInv, Equipped
    <3> QED BY <2>1, <3>1, <3>2 DEF VInv, Pieces, Settled, Migration
  <2> QED BY <2>2, <2>3, <2>4, <2>5, <2>6
<1>3. CASE step = "restore"
  <2>1. proc.op = "rollback" /\ proc.at = 8
    BY <1>1, <1>3 DEF Place
  <2> QED BY <2>1 DEF VInv, Progress, RollbackFit, Migration
<1>4. CASE step \notin {"up", "restore"}
  BY <1>4 DEF After, DataAfter, Migration
<1> QED BY <1>2, <1>3, <1>4

LEMMA NextMigrates == VInv /\ [Next]_vars => Migration
<1> SUFFICES ASSUME VInv, [Next]_vars PROVE Migration
  OBVIOUS
<1>1. TypeOK
  BY DEF VInv, RInv, OInv, TInv
<1>2. CASE data'.by = data.by
  BY <1>2 DEF Migration
<1>3. CASE Mark \/ RequireIdle \/ Login \/ Containers \/ Up \/ Bind \/ Files \/ Volume \/ Unmark
           \/ Payload
  <2>1. PICK step \in Plain : At(step) /\ After(step)
    BY <1>1, <1>3, LightAfter, ContainersAfter, StartsAfter, FilesAfter
  <2> QED BY <2>1, StepMigrates
<1>4. CASE Forget
  <2>1. data' = data \/ data'.by = None
    BY <1>4 DEF Forget, NoData
  <2> QED BY <2>1 DEF Migration
<1>5. CASE Supervise \/ Switch
  <2>1. Still => data'.by = data.by
    BY DEF Still
  <2>2. CASE Awakened
    <3>1. data'.by \in {data.by, disk.profile} /\ disk.profile # None
          /\ srv.runner.image = disk.profile
      BY <2>2 DEF Awakened, Bound
    <3> QED BY <3>1 DEF VInv, Pieces, Settled, JournalTrue, Migrated, Migration
  <2> QED BY <1>1, <1>2, <1>5, <2>1, <2>2, SurroundingsStarted
<1>6. CASE \/ Save \/ Claim \/ Commit \/ Fault
           \/ BeginWaiting \/ BeginRollback \/ BeginRecovery \/ BeginNative
           \/ \E v \in Versions : BeginInstall(v)
           \/ \E op : BeginCommand(op)
  BY <1>2, <1>6 DEF Save, Claim, Commit, Fault, BeginWaiting, BeginRollback, BeginRecovery,
                    BeginNative, BeginInstall, BeginCommand, world
<1>7. CASE \/ \E op : Await(op)
           \/ Crash \/ Reboot \/ Look
           \/ \E t \in Tasks : CreateTask(t) \/ EndTask(t)
  BY <1>1, <1>2, <1>7, SurroundingsStill DEF Still
<1>8. CASE UNCHANGED vars
  BY <1>2, <1>8 DEF vars
<1> QED BY <1>3, <1>4, <1>5, <1>6, <1>7, <1>8 DEF Next, Work

\* Data are taken over by a Runner of another version only under a journal that names
\* their backup (docker_install_update.update, rollback_update; the supervisor, runner
\* start), under the same condition on a setup that waits.
THEOREM DataMigrateUnderJournal ==
    ASSUME "setup" \notin Overtaken
    PROVE  Spec => MigratedUnderJournal
<1>1. VInv /\ [Next]_vars => [Migration]_vars
  BY NextMigrates
<1> QED BY Versioned, <1>1, PTL DEF Spec, MigratedUnderJournal, Migration

-----------------------------------------------------------------------------
(* The update of a native installation.                                    *)

\* Installation goes on in the detail of NativeUpdate as it does without it.
LEMMA DetailIsNext == [NNext]_allvars => [Next]_vars
<1> SUFFICES ASSUME [NNext]_allvars PROVE Next \/ UNCHANGED vars
  OBVIOUS
<1>1. CASE UNCHANGED allvars
  BY <1>1 DEF allvars
<1>2. CASE \/ ~watched /\ Next
           \/ InstallSteps \/ InstallNative \/ BeginRetire \/ NReboot
  BY <1>2 DEF InstallSteps, InstallNative, BeginRetire, NReboot, Next, Work
<1>3. CASE RetireSteps
  BY <1>3 DEF RetireSteps, UninstallPayload, Retire, Next, Work
<1>4. CASE UpdateBegins
  BY <1>4 DEF UpdateBegins
<1>5. CASE UpdateSteps
  BY <1>5 DEF UpdateSteps, UpdatePreflight, UpdateLocks, UpdateIdentifies, Stage,
              CaptureSkills, SuspendWeb, StopRunner, SwitchLink, RefreshSkills,
              StartRunner, VerifyUpdate, ResumeWeb, RestoreLink, RestoreSkills,
              VerifyRollback, UnsuspendWeb, Scrap, UpdateFault, UpdateCrash
<1>6. CASE Surroundings
  BY <1>6 DEF Surroundings, RunnerStarts, RunnerEnds, WebSwitches, UserSetsUp, UserCleans,
              TaskRuns, Bypass, UserEdits
<1> QED BY <1>1, <1>2, <1>3, <1>4, <1>5, <1>6 DEF NNext

\* With the update, the uninstall's payload and the commands beside them spelled out,
\* the installation does nothing that Installation does not do, so that what is proved
\* of it holds of them (update.py, installation_native.guarded_update, migration.py).
THEOREM NativeIsInstallation == NSpec => Spec
<1>1. NInit => Init
  BY DEF NInit
<1> QED BY <1>1, DetailIsNext, PTL DEF NSpec, Spec

LEMMA NativeTyped == NSpec => []TypeOK
BY NativeIsInstallation, TypeCorrect, PTL

Stages == {"none", "unsuspend", "scrap"} \cup Preparing \cup Cutover \cup Undoing
Updates == [pc : Stages, old : Versions \cup {None},
            snap : [Platforms -> Packages] \cup {None}, web : BOOLEAN, ok : BOOLEAN]
Leavings == {"none", "quiet", "kill", "unskill", "unlink", "records", "uproot", "gone"}

Detail ==
    /\ link \in Versions \cup {None} /\ venvs \subseteq Versions
    /\ skills \in [Platforms -> Packages]
    /\ runner \in Versions \cup {None}
    /\ web \in BOOLEAN
    /\ board \in [marker : BOOLEAN, active : BOOLEAN]
    /\ upd \in Updates
    /\ leaving \in Leavings
    /\ said \in {"none", "refused", "updated", "restored", "incomplete"}
    /\ troubles \in 0..MaxTroubles
    /\ ~watched => Free /\ leaving = "none"

\* From the lock to its end the update is alone with the link and the environments,
\* and keeps the ones it may have to go back to.
Alone ==
    /\ Holds => proc = Idle /\ receipt.type = "native"
    /\ upd.pc # "none" => upd.old # Latest
    /\ Holds /\ upd.pc # "identify" => upd.old \in venvs
    /\ upd.pc \in {"capture"} \cup Cutover => Latest \in venvs
    /\ upd.pc \in {"stage", "capture", "suspend", "halt", "switch"} => link = upd.old
    /\ upd.pc \in Cutover \cup Undoing \cup {"unsuspend", "scrap"} =>
           upd.snap \in [Platforms -> Packages]

OneVersionLeft(v, others) ==
    /\ link = v
    /\ runner \in {None, v}
    /\ \A p \in Platforms : skills[p] \in {v, others[p], None, "edited"}

\* What was verified stays so, but for what the user does in the meantime.
Done ==
    /\ upd.pc = "resume" => OneVersionLeft(Latest, NoSkills)
    /\ upd.pc \in {"unsuspend", "scrap"} /\ upd.ok => OneVersionLeft(upd.old, upd.snap)

\* The uninstall removes the link before the environments it leads to.
Unlinked ==
    watched =>
        /\ leaving # "none" => proc.op = "retire"
        /\ leaving \in {"records", "uproot", "gone"} => link = None

UInv == Detail /\ Alone /\ Done /\ Unlinked

LEMMA NoUpdateType == NoUpdate \in Updates /\ NoUpdate.pc = "none"
BY DEF NoUpdate, Updates, Stages

LEMMA InitUpdate == NInit => UInv
<1> SUFFICES ASSUME NInit PROVE UInv
  OBVIOUS
<1>1. Detail
  <2>1. upd \in Updates /\ Free
    BY NoUpdateType DEF NInit, NativeInit, Free
  <2>2. skills \in [Platforms -> Packages] /\ board \in [marker : BOOLEAN, active : BOOLEAN]
    BY DEF NInit, NativeInit, Packages
  <2>3. troubles \in 0..MaxTroubles
    BY NativeAssumption DEF NInit, NativeInit
  <2>4. link \in Versions \cup {None} /\ venvs \subseteq Versions
        /\ runner \in Versions \cup {None} /\ web \in BOOLEAN
    BY DEF NInit, NativeInit
  <2> QED BY <2>1, <2>2, <2>3, <2>4 DEF NInit, NativeInit, Detail, Leavings
<1>2. Alone /\ Done /\ Unlinked
  BY NoUpdateType DEF NInit, NativeInit, Alone, Done, Unlinked, Holds, Preparing, Cutover, Undoing
<1> QED BY <1>1, <1>2 DEF UInv

\* Where an update goes, and what it takes along.
LEMMA GoToUpdate ==
    ASSUME Detail, NEW pc \in Stages, GoTo(pc)
    PROVE  /\ upd' \in Updates /\ said' = said
           /\ upd' = [upd EXCEPT !.pc = pc]
           /\ upd'.pc = pc /\ upd'.old = upd.old /\ upd'.snap = upd.snap /\ upd'.ok = upd.ok
BY DEF Detail, GoTo, Updates

LEMMA EndsUpdate ==
    ASSUME NEW report \in {"refused", "updated", "restored", "incomplete"}, Ends(report)
    PROVE  /\ upd' \in Updates /\ upd'.pc = "none" /\ Free'
           /\ said' \in {"refused", "updated", "restored", "incomplete"} /\ said' = report
BY NoUpdateType DEF Ends, Free

\* An update that is nowhere is no concern.
LEMMA NoneAlone == ASSUME upd'.pc = "none" PROVE Alone' /\ Done'
BY DEF Alone, Done, Holds, Preparing, Cutover, Undoing

-----------------------------------------------------------------------------
(* What goes on beside it.                                                 *)

LEMMA BesideAlone ==
    ASSUME UInv, UNCHANGED <<proc, receipt, upd, link, venvs, leaving, watched>>
    PROVE  Alone' /\ Unlinked'
BY DEF UInv, Alone, Unlinked, Holds

LEMMA SurroundingsUpdate ==
    ASSUME UInv, Surroundings, UNCHANGED watched
    PROVE  UInv' /\ UNCHANGED <<link, venvs, said>>
<1>1. UNCHANGED <<vars, upd, link, venvs, leaving, said, troubles>>
  BY DEF Surroundings, RunnerStarts, RunnerEnds, WebSwitches, UserSetsUp, UserCleans,
         TaskRuns, Bypass, UserEdits
<1>2. Alone' /\ Unlinked'
  BY <1>1, BesideAlone DEF vars
<1>3. runner' = runner \/ runner' = None \/ runner' = Started(link)
  BY DEF Surroundings, RunnerStarts, RunnerEnds, WebSwitches, UserSetsUp, UserCleans,
         TaskRuns, Bypass, UserEdits
<1>4. /\ skills' \in [Platforms -> Packages]
      /\ \A p \in Platforms : skills'[p] \in {skills[p], None, "edited", link}
  <2>1. CASE UserSetsUp
    BY <2>1 DEF UserSetsUp, UInv, Detail, Packages
  <2>2. CASE UserCleans
    BY <2>2 DEF UserCleans, UInv, Detail, Packages
  <2>3. CASE \E p \in Platforms : UserEdits(p)
    BY <2>3 DEF UserEdits, UInv, Detail, Packages
  <2>4. CASE UNCHANGED skills
    BY <2>4 DEF UInv, Detail
  <2> QED BY <2>1, <2>2, <2>3, <2>4 DEF Surroundings, RunnerStarts, RunnerEnds, WebSwitches,
                                       TaskRuns, Bypass
<1>5. web' \in BOOLEAN /\ board' \in [marker : BOOLEAN, active : BOOLEAN]
  BY DEF Surroundings, RunnerStarts, RunnerEnds, WebSwitches, UserSetsUp, UserCleans,
         TaskRuns, Bypass, UserEdits, UInv, Detail
<1>6. Detail'
  BY <1>1, <1>3, <1>4, <1>5 DEF UInv, Detail, Started, Free
<1>7. Done'
  BY <1>1, <1>3, <1>4 DEF UInv, Done, OneVersionLeft, Started, NoSkills
<1> QED BY <1>1, <1>2, <1>6, <1>7 DEF UInv

-----------------------------------------------------------------------------
(* The steps of the update.                                                *)

Dangles == Dangling' /\ ~Dangling => said' = "incomplete"

\* Steps that leave link and environments alone.
LEMMA StillDangles == UNCHANGED <<link, venvs>> => Dangles
BY DEF Dangles, Dangling

\* While the update holds the lock nobody leaves.
LEMMA HeldUnlinked ==
    ASSUME UInv, Holds, UNCHANGED <<proc, leaving, watched>>
    PROVE  Unlinked'
BY DEF UInv, Alone, Unlinked, Idle

LEMMA BeginsUpdate ==
    ASSUME UInv, native /\ UpdateBegins, watched, UNCHANGED watched
    PROVE  UInv' /\ Dangles /\ said' = "none"
<1>1. /\ UNCHANGED <<vars, leaving, link, venvs, skills, runner, web, board, troubles>>
      /\ said' = "none" /\ link # Latest /\ upd' = [NoUpdate EXCEPT !.pc = "gate", !.old = link]
  BY DEF UpdateBegins, Offered
<1>2. upd' \in Updates /\ upd'.pc = "gate" /\ upd'.old = link
  BY <1>1 DEF UInv, Detail, NoUpdate, Updates, Stages, Preparing
<1>3. Detail'
  BY <1>1, <1>2 DEF UInv, Detail, Free
<1>4. Alone' /\ Done' /\ Unlinked'
  BY <1>1, <1>2 DEF UInv, Alone, Done, Unlinked, Holds, Cutover, Undoing, vars
<1>5. Dangles
  BY <1>1, StillDangles
<1> QED BY <1>1, <1>3, <1>4, <1>5 DEF UInv

LEMMA PreparesUpdate ==
    ASSUME UInv, watched, UNCHANGED watched,
           UpdatePreflight \/ UpdateLocks \/ UpdateIdentifies \/ Stage \/ CaptureSkills
    PROVE  UInv' /\ Dangles /\ said' \in {said, "refused"}
<1>0. UNCHANGED <<proc, receipt, leaving, link, skills, runner, web, troubles>>
  BY DEF UpdatePreflight, UpdateLocks, UpdateIdentifies, Stage, CaptureSkills, vars
<1>1. board' \in [marker : BOOLEAN, active : BOOLEAN]
  BY DEF UInv, Detail, UpdatePreflight, UpdateLocks, UpdateIdentifies, Stage, CaptureSkills
<1>2. /\ venvs' \subseteq Versions /\ venvs \subseteq venvs'
      /\ Stage => Latest \in venvs' /\ upd.pc = "stage"
  BY NativeAssumption
     DEF UInv, Detail, UpdatePreflight, UpdateLocks, UpdateIdentifies, Stage, CaptureSkills
<1>3. Dangles
  BY <1>0, <1>2 DEF Dangles, Dangling
<1>4. CASE Ends("refused")
  <2>1. Detail'
    BY <1>0, <1>1, <1>2, <1>4, EndsUpdate DEF UInv, Detail
  <2>2. Alone' /\ Done' /\ Unlinked'
    BY <1>0, <1>4, EndsUpdate, NoneAlone DEF UInv, Unlinked
  <2> QED BY <1>3, <1>4, <2>1, <2>2, EndsUpdate DEF UInv
<1>5. CASE UpdatePreflight /\ GoTo("lock")
  <2>1. upd' \in Updates /\ said' = said /\ upd'.pc = "lock" /\ upd'.old = upd.old
        /\ upd.pc = "gate"
    BY <1>5, GoToUpdate DEF Stages, Preparing, UInv, UpdatePreflight
  <2>2. Detail'
    BY <1>0, <1>1, <1>2, <2>1 DEF UInv, Detail, Free
  <2>3. Alone' /\ Done' /\ Unlinked'
    BY <1>0, <2>1 DEF UInv, Alone, Done, Unlinked, Holds, Cutover, Undoing
  <2> QED BY <1>3, <2>1, <2>2, <2>3 DEF UInv
<1>6. CASE UpdateLocks /\ GoTo("identify")
  <2>1. upd' \in Updates /\ said' = said /\ upd'.pc = "identify" /\ upd'.old = upd.old
        /\ upd.pc = "lock"
    BY <1>6, GoToUpdate DEF Stages, Preparing, UInv, UpdateLocks
  <2>2. Detail'
    BY <1>0, <1>1, <1>2, <2>1 DEF UInv, Detail, Free
  <2>3. CASE receipt.type = "native" /\ proc = Idle
    <3>1. Alone'
      BY <1>0, <2>1, <2>3 DEF UInv, Alone, Holds, Cutover, Undoing
    <3>2. Done' /\ Unlinked'
      BY <1>0, <2>1 DEF UInv, Done, Unlinked
    <3> QED BY <1>3, <2>1, <2>2, <3>1, <3>2 DEF UInv
  <2>4. CASE ~(receipt.type = "native" /\ proc = Idle)
    <3>1. Ends("refused")
      BY <2>4, <1>6 DEF UpdateLocks
    <3> QED BY <3>1, <1>4
  <2> QED BY <2>3, <2>4
<1>7. CASE UpdateIdentifies /\ GoTo("stage")
  <2>1. upd' \in Updates /\ said' = said /\ upd'.pc = "stage" /\ upd'.old = upd.old
        /\ upd.pc = "identify"
    BY <1>7, GoToUpdate DEF Stages, Preparing, UInv, UpdateIdentifies
  <2>2. Detail'
    BY <1>0, <1>1, <1>2, <2>1 DEF UInv, Detail, Free
  <2>3. CASE Identity(upd.old)
    <3>1. Alone'
      BY <1>0, <1>2, <2>1, <2>3 DEF UInv, Alone, Holds, Identity, Cutover, Undoing
    <3>2. Done' /\ Unlinked'
      BY <1>0, <2>1 DEF UInv, Done, Unlinked
    <3> QED BY <1>3, <2>1, <2>2, <3>1, <3>2 DEF UInv
  <2>4. CASE ~Identity(upd.old)
    <3>1. Ends("refused")
      BY <2>4, <1>7 DEF UpdateIdentifies
    <3> QED BY <3>1, <1>4
  <2> QED BY <2>3, <2>4
<1>8. CASE Stage
  <2>1. upd' \in Updates /\ said' = said /\ upd'.pc = "capture" /\ upd'.old = upd.old
        /\ upd.pc = "stage"
    BY <1>8, GoToUpdate DEF Stages, Preparing, UInv, Stage
  <2>2. Detail'
    BY <1>0, <1>1, <1>2, <2>1 DEF UInv, Detail, Free
  <2>3. Alone' /\ Done' /\ Unlinked'
    BY <1>0, <1>2, <1>8, <2>1 DEF UInv, Alone, Done, Unlinked, Holds, Cutover, Undoing
  <2> QED BY <1>3, <2>1, <2>2, <2>3 DEF UInv
<1>9. CASE CaptureSkills
  <2>0. venvs' = venvs /\ said' = said /\ upd.pc = "capture"
    BY <1>9 DEF CaptureSkills
  <2>1. /\ upd' \in Updates /\ upd'.pc = "suspend" /\ upd'.old = upd.old
        /\ upd'.snap = skills
    BY <1>9 DEF CaptureSkills, UInv, Detail, Updates, Stages, Cutover, Snapshot
  <2>2. Detail'
    BY <1>0, <1>1, <2>0, <2>1 DEF UInv, Detail, Free
  <2>3. Alone' /\ Done' /\ Unlinked'
    BY <1>0, <2>0, <2>1 DEF UInv, Alone, Done, Unlinked, Detail, Holds, Cutover, Undoing
  <2> QED BY <1>3, <2>0, <2>2, <2>3 DEF UInv
<1> QED BY <1>4, <1>5, <1>6, <1>7, <1>8, <1>9 DEF UpdatePreflight, UpdateLocks, UpdateIdentifies

\* The rollback may begin anywhere in the cutover.
LEMMA StartsUndoingUpdate ==
    ASSUME UInv, upd.pc \in Cutover, StartsUndoing,
           UNCHANGED <<proc, receipt, venvs, leaving, watched>>
    PROVE  Alone' /\ Done' /\ upd' \in Updates /\ said' = said
<1>1. /\ upd' \in Updates /\ said' = said /\ upd'.pc = "unhalt" /\ upd'.old = upd.old
      /\ upd'.snap = upd.snap
  BY GoToUpdate DEF StartsUndoing, UInv, Stages, Undoing
<1>2. Alone'
  BY <1>1 DEF UInv, Alone, Holds, Cutover, Undoing
<1>3. Done'
  BY <1>1 DEF Done
<1> QED BY <1>1, <1>2, <1>3

LEMMA CutoverUpdate ==
    ASSUME UInv, watched, UNCHANGED watched,
           \/ SuspendWeb \/ StopRunner("halt", "switch") \/ SwitchLink \/ RefreshSkills
           \/ VerifyUpdate
           \/ StartRunner /\ upd.pc = "start"
    PROVE  UInv' /\ Dangles /\ said' = said
<1>0. /\ UNCHANGED <<proc, receipt, leaving, venvs, board, troubles>>
      /\ upd.pc \in Cutover
  BY DEF SuspendWeb, StopRunner, SwitchLink, RefreshSkills, StartRunner, VerifyUpdate, vars,
         Cutover
<1>1. Holds
  BY <1>0 DEF Holds
<1>2. Unlinked'
  BY <1>0, <1>1, HeldUnlinked
<1>3. Latest \in venvs /\ Latest \in Versions
  BY <1>0, NativeAssumption DEF UInv, Alone
<1>4. Dangles
  <2>1. CASE SwitchLink
    BY <2>1, <1>0, <1>3 DEF SwitchLink, Dangles, Dangling
  <2>2. CASE UNCHANGED link
    BY <1>0, <2>2, StillDangles
  <2> QED BY <2>1, <2>2 DEF SuspendWeb, StopRunner, RefreshSkills, StartRunner, VerifyUpdate
<1>5. /\ link' \in Versions \cup {None}
      /\ runner' \in Versions \cup {None}
      /\ web' \in BOOLEAN
  BY <1>3 DEF SuspendWeb, StopRunner, SwitchLink, RefreshSkills, StartRunner, VerifyUpdate,
              UInv, Detail, Started
<1>6. skills' \in [Platforms -> Packages]
  <2>1. CASE RefreshSkills
    BY <2>1, <1>3 DEF RefreshSkills, UInv, Detail, Refreshed, InstallSkill, Packages
  <2> QED BY <2>1 DEF SuspendWeb, StopRunner, SwitchLink, StartRunner, VerifyUpdate, UInv, Detail
<1>7. ASSUME upd' \in Updates, said' = said PROVE Detail'
  BY <1>0, <1>5, <1>6, <1>7 DEF UInv, Detail
<1>8. CASE StartsUndoing
  BY <1>0, <1>2, <1>4, <1>7, <1>8, StartsUndoingUpdate DEF UInv
<1>9. ASSUME NEW pc \in Cutover, GoTo(pc), pc \notin {"suspend", "halt", "switch", "resume"}
      PROVE  UInv' /\ Dangles /\ said' = said
  <2>1. /\ upd' \in Updates /\ said' = said /\ upd'.pc = pc /\ upd'.old = upd.old
        /\ upd'.snap = upd.snap
    BY <1>9, GoToUpdate DEF UInv, Stages
  <2>2. Alone'
    BY <1>0, <1>9, <2>1 DEF UInv, Alone, Holds, Cutover, Undoing
  <2>3. Done'
    BY <1>9, <2>1 DEF Done, Cutover
  <2> QED BY <1>2, <1>4, <1>7, <2>1, <2>2, <2>3 DEF UInv
<1>10. CASE SuspendWeb
  <2>1. /\ upd' \in Updates /\ said' = said /\ upd'.pc = "halt" /\ upd'.old = upd.old
        /\ upd'.snap = upd.snap /\ upd.pc = "suspend" /\ link' = link
    BY <1>10 DEF SuspendWeb, UInv, Detail, Updates, Stages, Cutover
  <2>2. Alone'
    BY <1>0, <2>1 DEF UInv, Alone, Holds, Cutover, Undoing
  <2>3. Done'
    BY <2>1 DEF Done
  <2> QED BY <1>2, <1>4, <1>7, <2>1, <2>2, <2>3 DEF UInv
<1>11. CASE StopRunner("halt", "switch")
  <2>1. /\ upd' \in Updates /\ said' = said /\ upd'.pc = "switch" /\ upd'.old = upd.old
        /\ upd'.snap = upd.snap /\ upd.pc = "halt" /\ link' = link
    BY <1>11, GoToUpdate DEF StopRunner, UInv, Stages, Cutover
  <2>2. Alone'
    BY <1>0, <2>1 DEF UInv, Alone, Holds, Cutover, Undoing
  <2>3. Done'
    BY <2>1 DEF Done
  <2> QED BY <1>2, <1>4, <1>7, <2>1, <2>2, <2>3 DEF UInv
<1>12. CASE VerifyUpdate /\ Identity(Latest)
  <2>1. /\ upd' \in Updates /\ said' = said /\ upd'.pc = "resume" /\ upd'.old = upd.old
        /\ upd'.snap = upd.snap /\ upd.pc = "verify"
        /\ UNCHANGED <<link, runner, skills>>
    BY <1>12, GoToUpdate DEF VerifyUpdate, UInv, Stages, Cutover
  <2>2. Alone'
    BY <1>0, <2>1 DEF UInv, Alone, Holds, Cutover, Undoing
  <2>3. \A p \in Platforms : skills[p] \in {Latest, None}
    BY <1>12 DEF Identity, Drifted, Classification
  <2>4. Done'
    BY <1>12, <2>1, <2>3 DEF Done, OneVersionLeft, Identity
  <2> QED BY <1>2, <1>4, <1>7, <2>1, <2>2, <2>4 DEF UInv
<1>13. CASE SwitchLink
  BY <1>9, <1>13 DEF SwitchLink, Cutover
<1>14. CASE RefreshSkills
  BY <1>8, <1>9, <1>14 DEF RefreshSkills, Cutover
<1>15. CASE StartRunner /\ upd.pc = "start"
  BY <1>9, <1>15 DEF StartRunner, Cutover
<1>16. CASE VerifyUpdate /\ ~Identity(Latest)
  BY <1>8, <1>16 DEF VerifyUpdate
<1> QED BY <1>10, <1>11, <1>12, <1>13, <1>14, <1>15, <1>16

\* What the end of the cutover reports is what was verified.
LEMMA ResumeUpdate ==
    ASSUME UInv, watched, UNCHANGED watched, ResumeWeb
    PROVE  UInv' /\ Dangles /\ said' = "updated" /\ OneVersionLeft(Latest, NoSkills)'
<1>0. /\ UNCHANGED <<proc, receipt, leaving, venvs, board, troubles, link, skills, runner>>
      /\ upd.pc = "resume" /\ Ends("updated") /\ web' \in BOOLEAN
  BY DEF ResumeWeb, vars, Resumed, UInv, Detail, Updates
<1>1. Holds
  BY <1>0 DEF Holds, Cutover
<1>2. Unlinked' /\ Dangles
  BY <1>0, <1>1, HeldUnlinked, StillDangles
<1>3. upd' \in Updates /\ upd'.pc = "none" /\ Free' /\ said' = "updated"
  BY <1>0, EndsUpdate
<1>4. Detail'
  BY <1>0, <1>3 DEF UInv, Detail
<1>5. OneVersionLeft(Latest, NoSkills)'
  BY <1>0 DEF UInv, Done, OneVersionLeft, NoSkills
<1> QED BY <1>2, <1>3, <1>4, <1>5, NoneAlone DEF UInv

LEMMA UndoingUpdate ==
    ASSUME UInv, watched, UNCHANGED watched,
           \/ StopRunner("unhalt", "relink") \/ RestoreLink \/ RestoreSkills
           \/ VerifyRollback \/ UnsuspendWeb
           \/ StartRunner /\ upd.pc = "restart"
    PROVE  UInv' /\ Dangles /\ said' = said
<1>0. /\ UNCHANGED <<proc, receipt, leaving, venvs, board, troubles>>
      /\ upd.pc \in Undoing \cup {"unsuspend"} /\ upd \in Updates
  BY DEF StopRunner, RestoreLink, RestoreSkills, StartRunner, VerifyRollback, UnsuspendWeb,
         vars, Undoing, UInv, Detail
<1>1. Holds
  BY <1>0 DEF Holds
<1>2. Unlinked'
  BY <1>0, <1>1, HeldUnlinked
<1>3. /\ upd.old \in venvs /\ upd.old # Latest /\ upd.snap \in [Platforms -> Packages]
      /\ proc = Idle /\ receipt.type = "native"
  BY <1>0, <1>1 DEF UInv, Alone, Undoing
<1>4. Dangles
  <2>1. CASE RestoreLink
    BY <2>1, <1>0, <1>3 DEF RestoreLink, Dangles, Dangling
  <2>2. CASE UNCHANGED link
    BY <1>0, <2>2, StillDangles
  <2> QED BY <2>1, <2>2 DEF StopRunner, RestoreSkills, StartRunner, VerifyRollback, UnsuspendWeb
<1>5. /\ link' \in Versions \cup {None}
      /\ runner' \in Versions \cup {None}
      /\ web' \in BOOLEAN
  BY <1>0, <1>3 DEF StopRunner, RestoreLink, RestoreSkills, StartRunner, VerifyRollback,
                    UnsuspendWeb, UInv, Detail, Started, Resumed, Updates
<1>6. skills' \in [Platforms -> Packages]
  BY <1>3 DEF StopRunner, RestoreLink, RestoreSkills, StartRunner, VerifyRollback,
              UnsuspendWeb, UInv, Detail
<1>7. ASSUME upd' \in Updates, said' = said PROVE Detail'
  BY <1>0, <1>5, <1>6, <1>7 DEF UInv, Detail
<1>8. ASSUME upd' \in Updates, said' = said, upd'.pc \in Undoing \cup {"unsuspend", "scrap"},
             upd'.old = upd.old, upd'.snap = upd.snap,
             upd'.pc \in {"unsuspend", "scrap"} /\ upd'.ok => Done'
      PROVE  UInv' /\ Dangles /\ said' = said
  <2>1. Alone'
    BY <1>0, <1>3, <1>8 DEF Alone, Cutover, Undoing
  <2>2. Done'
    BY <1>8 DEF Done, Undoing
  <2> QED BY <1>2, <1>4, <1>7, <1>8, <2>1, <2>2 DEF UInv
<1>9. ASSUME NEW pc \in Undoing, GoTo(pc)
      PROVE  UInv' /\ Dangles /\ said' = said
  BY <1>8, <1>9, GoToUpdate DEF UInv, Stages, Undoing
<1>10. CASE \/ StopRunner("unhalt", "relink") \/ RestoreLink \/ RestoreSkills
            \/ StartRunner /\ upd.pc = "restart"
  BY <1>9, <1>10 DEF StopRunner, RestoreLink, RestoreSkills, StartRunner, Undoing
<1>11. CASE VerifyRollback /\ GivesUp
  <2>1. /\ upd' \in Updates /\ upd'.pc = "unsuspend" /\ upd'.old = upd.old
        /\ upd'.snap = upd.snap /\ upd'.ok = FALSE /\ said' = said
    BY <1>0, <1>11 DEF GivesUp, Updates, Stages
  <2> QED BY <1>8, <2>1
<1>12. CASE VerifyRollback /\ ~GivesUp
  <2>1. GoTo("unsuspend") /\ link = upd.old /\ skills = upd.snap /\ runner = upd.old
        /\ UNCHANGED <<link, runner, skills>>
    BY <1>12 DEF VerifyRollback, Identity
  <2>2. /\ upd' \in Updates /\ upd'.pc = "unsuspend" /\ upd'.old = upd.old
        /\ upd'.snap = upd.snap /\ said' = said
    BY <2>1, GoToUpdate DEF UInv, Stages
  <2>3. Done'
    BY <2>1, <2>2 DEF Done, OneVersionLeft
  <2> QED BY <1>8, <2>2, <2>3
<1>13. CASE UnsuspendWeb
  <2>1. /\ GoTo("scrap") /\ upd.pc = "unsuspend" /\ UNCHANGED <<link, runner, skills>>
    BY <1>13 DEF UnsuspendWeb
  <2>2. /\ upd' \in Updates /\ upd'.pc = "scrap" /\ upd'.old = upd.old
        /\ upd'.snap = upd.snap /\ upd'.ok = upd.ok /\ said' = said
    BY <2>1, GoToUpdate DEF UInv, Stages
  <2>3. Done'
    BY <2>1, <2>2 DEF UInv, Done, OneVersionLeft
  <2> QED BY <1>8, <2>2, <2>3
<1> QED BY <1>10, <1>11, <1>12, <1>13

\* What the rollback reports as restored is what was verified, and the environment
\* that goes was linked at most by a rollback that did not come so far.
LEMMA ScrapUpdate ==
    ASSUME UInv, watched, UNCHANGED watched, Scrap
    PROVE  /\ UInv' /\ Dangles
           /\ UNCHANGED <<link, runner, skills>>
           /\ said' = "incomplete" \/ (said' = "restored" /\ OneVersionLeft(upd.old, upd.snap))
<1>0. /\ UNCHANGED <<proc, receipt, leaving, board, troubles, link, skills, runner, web>>
      /\ upd.pc = "scrap" /\ Ends(IF upd.ok THEN "restored" ELSE "incomplete")
      /\ venvs' = venvs \ {Latest}
  BY DEF Scrap, vars
<1>1. Holds
  BY <1>0 DEF Holds
<1>2. Unlinked'
  BY <1>0, <1>1, HeldUnlinked
<1>3. /\ upd' \in Updates /\ upd'.pc = "none" /\ Free'
      /\ said' = IF upd.ok THEN "restored" ELSE "incomplete"
  BY <1>0, EndsUpdate
<1>4. Detail'
  BY <1>0, <1>3 DEF UInv, Detail
<1>5. said' = "incomplete" \/ (said' = "restored" /\ OneVersionLeft(upd.old, upd.snap))
  BY <1>0, <1>3 DEF UInv, Done
<1>6. Dangles
  <2>1. upd.old # Latest
    BY <1>0 DEF UInv, Alone
  <2> QED BY <1>0, <1>5, <2>1 DEF Dangles, Dangling, OneVersionLeft
<1> QED BY <1>0, <1>2, <1>3, <1>4, <1>5, <1>6, NoneAlone DEF UInv

\* Where an error or a death takes it, nothing is reported as done.
LEMMA ErrorsUpdate ==
    ASSUME UInv, watched, UNCHANGED watched, UpdateFault \/ UpdateCrash
    PROVE  UInv' /\ Dangles /\ said' \in {said, "refused"}
<1>0. /\ UNCHANGED <<proc, receipt, leaving, board, link, runner, web>>
      /\ troubles' \in 0..MaxTroubles /\ upd \in Updates
  BY NativeAssumption DEF UpdateFault, UpdateCrash, vars, UInv, Detail
<1>1. Unlinked'
  BY <1>0 DEF UInv, Unlinked
<1>2. ASSUME upd' \in Updates, venvs' \subseteq Versions, skills' \in [Platforms -> Packages],
             said' \in {said, "refused"}
      PROVE  Detail'
  BY <1>0, <1>2 DEF UInv, Detail
<1>3. CASE UpdateFault /\ upd.pc \in Preparing
  <2>1. /\ skills' = skills /\ Ends("refused")
        /\ venvs' = IF upd.pc = "capture" THEN venvs \ {Latest} ELSE venvs
    BY <1>3 DEF UpdateFault, Preparing, Cutover, Undoing
  <2>2. upd' \in Updates /\ upd'.pc = "none" /\ said' = "refused"
    BY <2>1, EndsUpdate
  <2>3. Detail'
    BY <1>2, <2>1, <2>2 DEF UInv, Detail
  <2>4. Dangles
    BY <1>0, <2>1 DEF UInv, Alone, Dangles, Dangling
  <2> QED BY <1>1, <2>2, <2>3, <2>4, NoneAlone DEF UInv
<1>4. CASE UpdateFault /\ upd.pc \in Cutover
  <2>1. skills' = skills /\ venvs' = venvs /\ StartsUndoing
    BY <1>4 DEF UpdateFault, Preparing, Cutover, Undoing
  <2>2. Alone' /\ Done' /\ upd' \in Updates /\ said' = said
    BY <1>0, <1>4, <2>1, StartsUndoingUpdate
  <2>3. Detail' /\ Dangles
    BY <1>0, <1>2, <2>1, <2>2, StillDangles DEF UInv, Detail
  <2> QED BY <1>1, <2>2, <2>3 DEF UInv
<1>5. CASE UpdateFault /\ upd.pc \in Undoing \cup {"unsuspend"}
  <2>1. /\ skills' = skills /\ venvs' = venvs /\ said' = said
        /\ upd' = [upd EXCEPT !.pc = IF upd.pc = "unsuspend" THEN "scrap" ELSE "unsuspend",
                              !.ok = FALSE]
    BY <1>5 DEF UpdateFault, Preparing, Cutover, Undoing
  <2>2. /\ upd' \in Updates /\ upd'.pc \in {"unsuspend", "scrap"} /\ upd'.old = upd.old
        /\ upd'.snap = upd.snap /\ upd'.ok = FALSE
    BY <1>0, <2>1 DEF Updates, Stages
  <2>3. Detail' /\ Dangles
    BY <1>0, <1>2, <2>1, <2>2, StillDangles DEF UInv, Detail
  <2>4. Alone'
    BY <1>0, <1>5, <2>1, <2>2 DEF UInv, Alone, Holds, Cutover, Undoing
  <2>5. Done'
    BY <2>2 DEF Done
  <2> QED BY <1>1, <2>1, <2>3, <2>4, <2>5 DEF UInv
<1>6. CASE UpdateCrash
  <2>1. upd' \in Updates /\ upd'.pc = "none" /\ venvs' = venvs /\ said' = said
    BY <1>6, NoUpdateType DEF UpdateCrash
  <2>2. skills' \in [Platforms -> Packages]
    BY <1>6 DEF UpdateCrash, UInv, Detail, Torn, Packages
  <2>3. Detail' /\ Dangles
    BY <1>0, <1>2, <2>1, <2>2, StillDangles DEF UInv, Detail
  <2> QED BY <1>1, <2>1, <2>3, NoneAlone DEF UInv
<1> QED BY <1>3, <1>4, <1>5, <1>6 DEF UpdateFault

-----------------------------------------------------------------------------
(* The installation and the uninstall beside it.                           *)

\* Whoever holds the lock is not the update.
LEMMA BusyUpdate ==
    ASSUME UInv, ~Holds, UNCHANGED <<upd, watched>>
    PROVE  upd' \in Updates /\ Alone' /\ Done'
<1>1. upd.pc \in {"none", "gate", "lock"}
  BY DEF UInv, Detail, Updates, Stages, Holds, Preparing
<1> QED BY <1>1 DEF UInv, Detail, Alone, Done, Holds, Cutover, Undoing

LEMMA InstallUpdate ==
    ASSUME UInv, watched, UNCHANGED watched, InstallSteps \/ InstallNative
    PROVE  UInv' /\ Dangles /\ said' \in {said, "none"}
<1>1. CASE InstallNative
  <2>1. /\ proc # Idle /\ proc.op = "native"
        /\ UNCHANGED <<runner, web, board, upd, leaving, troubles>> /\ said' = "none"
        /\ link' \in Versions /\ venvs' = {link'}
    BY <1>1 DEF InstallNative, At
  <2>2. skills' \in [Platforms -> Packages]
    BY <1>1 DEF InstallNative, UInv, Detail, Packages
  <2>3. ~Holds
    BY <2>1 DEF UInv, Alone
  <2>4. Alone' /\ Done' /\ Detail'
    BY <2>1, <2>2, <2>3, BusyUpdate DEF UInv, Detail, Free
  <2>5. Unlinked'
    BY <2>1 DEF UInv, Unlinked
  <2> QED BY <2>1, <2>4, <2>5 DEF UInv, Dangles, Dangling
<1>2. CASE InstallSteps
  <2>1. UNCHANGED nvars
    BY <1>2 DEF InstallSteps
  <2>2. ~Holds
    BY <1>2 DEF InstallSteps, UInv, Alone, Idle, NoReceipt
  <2>3. Alone' /\ Done' /\ Detail'
    BY <2>1, <2>2, BusyUpdate DEF UInv, Detail, Free, nvars
  <2>4. leaving = "none" \/ leaving' = "none"
    BY <1>2, <2>1 DEF UInv, Unlinked, InstallSteps, BeginNative, Idle, NoReceipt
  <2>5. Unlinked'
    BY <2>1, <2>4 DEF UInv, Unlinked, nvars
  <2> QED BY <2>1, <2>3, <2>5, StillDangles DEF UInv, nvars
<1> QED BY <1>1, <1>2

LEMMA RetireUpdate ==
    ASSUME UInv, TypeOK, watched, UNCHANGED watched, ~Holds, BeginRetire \/ RetireSteps
    PROVE  UInv' /\ Dangles /\ said' \in {said, "none"}
<1>1. CASE BeginRetire
  <2>1. /\ UNCHANGED <<link, venvs, skills, runner, web, upd, said, troubles>>
        /\ board' = [board EXCEPT !.marker = TRUE] /\ leaving' = "quiet"
        /\ Begin("retire", None)
    BY <1>1 DEF BeginRetire, BeginNative, NoReceipt
  <2>2. Alone' /\ Done' /\ Detail'
    BY <2>1, BusyUpdate DEF UInv, Detail, Free, Leavings
  <2>3. proc'.op = "retire"
    BY <2>1 DEF Begin, Idle
  <2>4. Unlinked'
    BY <2>1, <2>3 DEF Unlinked
  <2> QED BY <2>1, <2>2, <2>4, StillDangles DEF UInv
<1>2. CASE UninstallPayload
  <2>1. /\ proc' = proc /\ proc.op = "retire" /\ UNCHANGED <<upd, said, troubles>>
    BY <1>2 DEF UninstallPayload, Retire, vars
  <2>2. /\ link' \in {link, None} /\ venvs' \in {venvs, {}}
        /\ skills' \in [Platforms -> Packages] /\ runner' \in {runner, None}
        /\ web' \in BOOLEAN /\ board' \in [marker : BOOLEAN, active : BOOLEAN]
        /\ leaving' \in Leavings
    <3>1. board' = board \/ \E remove \in BOOLEAN : board' = [board EXCEPT !.marker = @ /\ ~remove]
      BY <1>2 DEF UninstallPayload
    <3>2. board' \in [marker : BOOLEAN, active : BOOLEAN]
      BY <3>1 DEF UInv, Detail
    <3>3. skills' \in [Platforms -> Packages]
      BY <1>2 DEF UninstallPayload, UInv, Detail, NoSkills, Packages
    <3> QED BY <1>2, <3>2, <3>3 DEF UninstallPayload, Retire, UInv, Detail, Leavings
  <2>3. /\ venvs' = {} /\ venvs' # venvs => link' = None
        /\ leaving' \in {"records", "uproot", "gone"} => link' = None
        /\ link' = None \/ link' = link
    BY <1>2 DEF UninstallPayload, Retire, UInv, Unlinked
  <2>4. Alone' /\ Done' /\ Detail'
    BY <2>1, <2>2, BusyUpdate DEF UInv, Detail, Free
  <2>5. Unlinked'
    BY <2>1, <2>3 DEF Unlinked
  <2>6. Dangles
    BY <2>2, <2>3 DEF Dangles, Dangling
  <2> QED BY <2>1, <2>4, <2>5, <2>6 DEF UInv
<1>3. CASE RetireSteps /\ ~UninstallPayload
  <2>1. /\ UNCHANGED <<link, venvs, skills, runner, web, upd, troubles>>
        /\ said' = "none" /\ leaving' \in {leaving, "none"} /\ proc.op = "retire"
        /\ board' = board \/ board' = [board EXCEPT !.marker = FALSE]
    BY <1>3 DEF RetireSteps
  <2>2. Alone' /\ Done' /\ Detail'
    BY <2>1, BusyUpdate DEF UInv, Detail, Free, Leavings
  <2>3. leaving' = "none" \/ proc'.op = "retire"
    <3>1. CASE leaving' # "none"
      <4>1. Claim \/ Payload
        BY <1>3, <3>1 DEF RetireSteps
      <4>2. proc \in Processes /\ proc.at \in {1, 2} /\ Advance
        <5>1. CASE Claim
          BY <2>1, <5>1, StepPlace DEF Claim, Place
        <5>2. CASE Payload
          BY <2>1, <5>2, StepPlace DEF Payload, Place
        <5> QED BY <4>1, <5>1, <5>2
      <4> QED BY <2>1, <4>2, Lengths DEF Advance, Processes
    <3> QED BY <3>1
  <2>4. Unlinked'
    BY <2>1, <2>3 DEF UInv, Unlinked
  <2> QED BY <2>1, <2>2, <2>4, StillDangles DEF UInv
<1> QED BY <1>1, <1>2, <1>3

LEMMA RebootUpdate ==
    ASSUME UInv, watched, UNCHANGED watched, NReboot
    PROVE  UInv' /\ Dangles /\ said' = said
<1>1. /\ upd' \in Updates /\ upd'.pc = "none" /\ leaving' = "none" /\ runner' = None
      /\ web' = FALSE /\ UNCHANGED <<link, venvs, skills, board, said, troubles>>
  BY NoUpdateType DEF NReboot
<1>2. Detail'
  BY <1>1 DEF UInv, Detail, Leavings
<1>3. Unlinked'
  BY <1>1 DEF Unlinked
<1> QED BY <1>1, <1>2, <1>3, NoneAlone, StillDangles DEF UInv

LEMMA UnwatchedUpdate ==
    ASSUME UInv, UNCHANGED nvars, ~watched \/ UNCHANGED vars
    PROVE  UInv' /\ Dangles /\ said' = said
<1>1. Detail' /\ Done' /\ Dangles /\ said' = said
  BY StillDangles DEF UInv, Detail, Done, OneVersionLeft, Free, nvars
<1>2. Alone'
  BY DEF UInv, Detail, Free, NoUpdate, Alone, Holds, Preparing, Cutover, Undoing, nvars, vars
<1>3. Unlinked'
  BY DEF UInv, Unlinked, nvars, vars
<1> QED BY <1>1, <1>2, <1>3 DEF UInv

-----------------------------------------------------------------------------

Told ==
    /\ said' # said /\ said' = "updated" =>
          /\ link' = Latest /\ runner' \in {None, Latest}
          /\ \A p \in Platforms : skills'[p] \in {Latest, None, "edited"}
    /\ said' # said /\ said' = "restored" =>
          /\ link' = upd.old /\ runner' \in {None, upd.old}
          /\ \A p \in Platforms : skills'[p] \in {upd.old, upd.snap[p], None, "edited"}
    /\ Dangling' /\ ~Dangling => said' = "incomplete"

LEMMA NextTold == UInv /\ TypeOK /\ [NNext]_allvars => UInv' /\ [Told]_allvars
<1> SUFFICES ASSUME UInv, TypeOK, [NNext]_allvars PROVE UInv' /\ Told
  OBVIOUS
<1>1. CASE UNCHANGED allvars \/ (~watched /\ Next /\ UNCHANGED nvars)
  BY <1>1, UnwatchedUpdate DEF allvars, Told, Dangles
<1>2. CASE watched /\ UNCHANGED watched /\ ResumeWeb
  BY <1>2, ResumeUpdate DEF OneVersionLeft, NoSkills, Told, Dangles
<1>3. CASE watched /\ UNCHANGED watched /\ Scrap
  BY <1>3, ScrapUpdate DEF OneVersionLeft, Told, Dangles
<1>4. ASSUME UInv', Dangles, said' \in {said, "none", "refused"}
      PROVE  UInv' /\ Told
  BY <1>4 DEF Told, Dangles
<1>5. CASE watched /\ UNCHANGED watched /\ UpdateSteps
  <2>1. CASE \/ UpdatePreflight \/ UpdateLocks \/ UpdateIdentifies \/ Stage \/ CaptureSkills
    BY <1>4, <1>5, <2>1, PreparesUpdate
  <2>2. CASE \/ SuspendWeb \/ StopRunner("halt", "switch") \/ SwitchLink \/ RefreshSkills
             \/ VerifyUpdate
             \/ StartRunner /\ upd.pc = "start"
    BY <1>4, <1>5, <2>2, CutoverUpdate
  <2>3. CASE \/ StopRunner("unhalt", "relink") \/ RestoreLink \/ RestoreSkills
             \/ VerifyRollback \/ UnsuspendWeb
             \/ StartRunner /\ upd.pc = "restart"
    BY <1>4, <1>5, <2>3, UndoingUpdate
  <2>4. CASE UpdateFault \/ UpdateCrash
    BY <1>4, <1>5, <2>4, ErrorsUpdate
  <2>5. StartRunner => upd.pc \in {"start", "restart"}
    BY DEF StartRunner
  <2> QED BY <1>2, <1>3, <1>5, <2>1, <2>2, <2>3, <2>4, <2>5 DEF UpdateSteps
<1>6. CASE watched /\ UNCHANGED watched /\ (InstallSteps \/ InstallNative)
  BY <1>4, <1>6, InstallUpdate
<1>7. CASE watched /\ UNCHANGED watched /\ ~Holds /\ (BeginRetire \/ RetireSteps)
  BY <1>4, <1>7, RetireUpdate
<1>8. CASE watched /\ UNCHANGED watched /\ NReboot
  BY <1>4, <1>8, RebootUpdate
<1>9. CASE watched /\ UNCHANGED watched /\ native /\ UpdateBegins
  BY <1>4, <1>9, BeginsUpdate
<1>10. CASE watched /\ UNCHANGED watched /\ Surroundings
  BY <1>4, <1>10, SurroundingsUpdate, StillDangles
<1> QED BY <1>1, <1>5, <1>6, <1>7, <1>8, <1>9, <1>10 DEF NNext

LEMMA Updated == NSpec => []UInv
<1>1. UInv /\ TypeOK /\ [NNext]_allvars => UInv'
  BY NextTold
<1> QED BY <1>1, InitUpdate, NativeTyped, PTL DEF NSpec

\* The detail of a native installation keeps its types: link, environments, skills,
\* Runner, WebUI and board, and what the last update reported (update.py, migration.py).
THEOREM NativeTypeCorrect == NSpec => []NTypeOK
<1>1. UInv /\ TypeOK => NTypeOK
  BY DEF UInv, Detail, NTypeOK
<1> QED BY <1>1, Updated, NativeTyped, PTL

\* An update reports what is there: success only when link, Runner and skills are of
\* the new release, a restoration only when they are of the old one, whatever the user,
\* setup and the Runner do in between; and the link is never left without its
\* environment but by a rollback reported as incomplete
\* (_install_verified_release_payload, _rollback_update_transaction).
THEOREM UpdateTellsTheTruth == NSpec => UpdateToldTrue
<1>1. UInv /\ TypeOK /\ [NNext]_allvars => [Told]_allvars
  BY NextTold
<1> QED BY <1>1, Updated, NativeTyped, PTL DEF NSpec, UpdateToldTrue, Told

=============================================================================
