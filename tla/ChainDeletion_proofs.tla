------------------------ MODULE ChainDeletion_proofs ------------------------
(***************************************************************************)
(* What a deletion of a chain promises, for any directories, any number of *)
(* chains, iterations, crashes and faults: files are lost only under a     *)
(* receipt, a receipt stands while nothing failed, and a code is one       *)
(* chain's at a time.                                                      *)
(*                                                                         *)
(* The types hold with any number of commands.  The rest is proved for     *)
(* one command at a time: two of them can lose files without a receipt,    *)
(* as there is no lock (task_store.py stage_chain_deletion).               *)
(***************************************************************************)
EXTENDS ChainDeletion, TLAPS

-----------------------------------------------------------------------------
(* Types.                                                                  *)

Places == {"idle", "reserve", "write", "open", "stage", "move", "note", "refresh",
           "rollback", "undo", "finalize", "commit", "purge"}

Command == [pc : Places, id : Ids \cup {NoId}, work : Manifest,
            pos : 0..(Len(Targets) + 1), ok : BOOLEAN]

\* A command at work names its transaction, and its position is in the plan.
Placed(p) ==
    /\ proc[p].pc \notin {"idle", "reserve", "write"} => proc[p].id \in Ids
    /\ proc[p].pc = "stage" => proc[p].pos >= 1
    /\ proc[p].pc \in {"move", "note"} => proc[p].pos \in 1..Len(Targets)
    /\ proc[p].pc = "undo" => proc[p].pos <= Len(Targets)

TInv == TypeOK /\ \A p \in Deleters : Placed(p)

LEMMA Plans ==
    /\ Len(Targets) \in Nat \ {0}
    /\ Records \in Target
    /\ \A i \in 1..Len(Targets) : Targets[i] \in Target
    /\ \A t \in Target : \E i \in 1..Len(Targets) : t = Targets[i]
<1>1. Len(Targets) \in Nat \ {0}
  BY DeletionAssumption
<1>2. Len(Targets) \in 1..Len(Targets)
  BY <1>1
<1> QED BY <1>1, <1>2 DEF Target, Records

LEMMA Typed ==
    TypeOK <=>
        /\ source \in [Target -> SUBSET Unit]
        /\ staged \in [Ids -> [Target -> SUBSET Unit]]
        /\ manifest \in [Ids -> Manifest]
        /\ receipts \in Seq([id : Ids, units : SUBSET Unit])
        /\ active \subseteq Unit
        /\ proc \in [Deleters -> Command]
        /\ created \subseteq Unit
        /\ reopens \in 0..MaxReopens
        /\ crashes \in 0..MaxCrashes
        /\ faults \in 0..MaxFaults
BY DEF TypeOK, Command, Places

LEMMA Fresh == NoManifest \in Manifest /\ Idle \in Command /\ Idle.pc = "idle"
BY Plans DEF NoManifest, Manifest, Idle, Command, Places

\* What a step writes for its command is typed and placed, and the rest is left.
LEMMA Moves ==
    ASSUME TInv, NEW p \in Deleters, NEW c \in Command, proc' = [proc EXCEPT ![p] = c],
           c.pc \notin {"idle", "reserve", "write"} => c.id \in Ids,
           c.pc = "stage" => c.pos >= 1,
           c.pc \in {"move", "note"} => c.pos \in 1..Len(Targets),
           c.pc = "undo" => c.pos <= Len(Targets)
    PROVE  /\ proc' \in [Deleters -> Command]
           /\ proc'[p] = c
           /\ \A q \in Deleters : Placed(q)'
<1>1. /\ proc' \in [Deleters -> Command]
      /\ proc'[p] = c
      /\ \A q \in Deleters \ {p} : proc'[q] = proc[q]
  BY Typed DEF TInv
<1> QED BY <1>1 DEF TInv, Placed

LEMMA Stops ==
    ASSUME TInv, NEW p \in Deleters, Stop(p)
    PROVE  /\ proc' \in [Deleters -> Command]
           /\ proc'[p] = Idle
           /\ \A q \in Deleters : Placed(q)'
BY Fresh, Moves DEF Stop

\* A step to another place, where the position need not be in the plan.
LEMMA Goes ==
    ASSUME TInv, NEW p \in Deleters, NEW pc \in Places, Goto(p, pc),
           pc \notin {"idle", "reserve", "write"} => proc[p].id \in Ids,
           pc = "stage" => proc[p].pos >= 1,
           pc \in {"move", "note"} => proc[p].pos \in 1..Len(Targets),
           pc = "undo" => proc[p].pos <= Len(Targets)
    PROVE  /\ proc' \in [Deleters -> Command]
           /\ proc'[p] = [proc[p] EXCEPT !.pc = pc]
           /\ \A q \in Deleters : Placed(q)'
<1> DEFINE c == [proc[p] EXCEPT !.pc = pc]
<1>1. proc[p] \in Command
  BY Typed DEF TInv
<1>2. /\ c \in Command /\ c.pc = pc /\ c.id = proc[p].id /\ c.pos = proc[p].pos
      /\ proc' = [proc EXCEPT ![p] = c]
  BY <1>1 DEF Command, Goto
<1> HIDE DEF c
<1>3. /\ proc' \in [Deleters -> Command] /\ proc'[p] = c
      /\ \A q \in Deleters : Placed(q)'
  BY <1>2, Moves
<1> QED BY <1>3 DEF c

LEMMA Fails ==
    ASSUME TInv, NEW p \in Deleters, Fail(p), proc[p].id \in Ids
    PROVE  /\ proc' \in [Deleters -> Command]
           /\ proc'[p] = [proc[p] EXCEPT !.pc = "rollback"]
           /\ \A q \in Deleters : Placed(q)'
BY Goes DEF Fail, Goto, Places

LEMMA Advances ==
    ASSUME TInv, NEW p \in Deleters, Advance(p), proc[p].id \in Ids,
           proc[p].pos \in 1..Len(Targets)
    PROVE  /\ proc' \in [Deleters -> Command]
           /\ proc'[p] = [[proc[p] EXCEPT !.pos = @ + 1] EXCEPT !.pc = "stage"]
           /\ \A q \in Deleters : Placed(q)'
<1> DEFINE b == [proc[p] EXCEPT !.pos = @ + 1]
           c == [b EXCEPT !.pc = "stage"]
<1>1. proc[p] \in Command
  BY Typed DEF TInv
<1>2. b \in Command /\ b.id = proc[p].id /\ b.pos = proc[p].pos + 1
  BY <1>1, Plans DEF Command
<1>3. proc' = [proc EXCEPT ![p] = c]
  BY DEF Advance
<1> HIDE DEF b
<1>4. c \in Command /\ c.pc = "stage" /\ c.id = b.id /\ c.pos = b.pos
  BY <1>2 DEF Command, Places
<1> HIDE DEF c
<1>5. c.pos >= 1
  BY <1>2, <1>4, Plans
<1>6. /\ proc' \in [Deleters -> Command] /\ proc'[p] = c
      /\ \A q \in Deleters : Placed(q)'
  BY <1>2, <1>3, <1>4, <1>5, Moves
<1> QED BY <1>6 DEF b, c

\* The command at its target.
LEMMA AtTarget ==
    ASSUME TInv, NEW p \in Deleters, proc[p].pos \in 1..Len(Targets)
    PROVE  At(p) \in Target
BY Plans DEF At

LEMMA HasCommand ==
    ASSUME TInv, NEW p \in Deleters
    PROVE  proc[p] \in Command /\ Placed(p)
BY Typed DEF TInv

LEMMA PlanTypes ==
    ASSUME TInv, NEW p \in Deleters, Plan(p)
    PROVE  TInv'
<1>1. ASSUME NEW c \in Command, proc' = [proc EXCEPT ![p] = c],
             c.pc \in {"open", "reserve", "purge"}, c.pc # "reserve" => c.id \in Ids
      PROVE  TInv'
  <2>1. proc' \in [Deleters -> Command] /\ \A q \in Deleters : Placed(q)'
    BY <1>1, Moves
  <2> QED BY <2>1, Typed DEF TInv, TypeOK, Plan, disk, world, Command, Places
<1>2. CASE \E d \in Pending : proc' = [proc EXCEPT ![p] = [Idle EXCEPT !.pc = "open", !.id = d]]
  <2>1. PICK d \in Pending : proc' = [proc EXCEPT ![p] = [Idle EXCEPT !.pc = "open", !.id = d]]
    BY <1>2
  <2>2. d \in Ids
    BY DEF Pending
  <2>3. [Idle EXCEPT !.pc = "open", !.id = d] \in Command
    BY <2>2, Fresh DEF Command, Places
  <2>4. [Idle EXCEPT !.pc = "open", !.id = d].pc = "open" /\
        [Idle EXCEPT !.pc = "open", !.id = d].id = d
    BY DEF Idle
  <2> QED BY <1>1, <2>1, <2>2, <2>3, <2>4
<1>3. CASE Exists(Chain) /\ proc' = [proc EXCEPT ![p] =
              [Idle EXCEPT !.pc = "reserve",
                           !.work = [state |-> "reserved", units |-> Chain,
                                     targets |-> {t \in Target : Exists(source[t])}]]]
  <2> DEFINE w == [state |-> "reserved", units |-> Chain,
                   targets |-> {t \in Target : Exists(source[t])}]
             c == [Idle EXCEPT !.pc = "reserve", !.work = w]
  <2>1. Chain \subseteq Unit
    BY Plans DEF TInv, TypeOK, Chain
  <2>2. w \in Manifest
    BY <2>1 DEF Manifest
  <2> HIDE DEF w
  <2>3. c \in Command /\ c.pc = "reserve"
    BY <2>2, Fresh DEF Command, Places
  <2>4. proc' = [proc EXCEPT ![p] = c]
    BY <1>3 DEF w
  <2> HIDE DEF c
  <2> QED BY <1>1, <2>3, <2>4
<1>4. CASE receipts # <<>> /\ proc' = [proc EXCEPT ![p] =
              [Idle EXCEPT !.pc = "purge", !.id = receipts[Len(receipts)].id]]
  <2> DEFINE d == receipts[Len(receipts)].id
             c == [Idle EXCEPT !.pc = "purge", !.id = d]
  <2>1. d \in Ids
    <3> DEFINE R == [id : Ids, units : SUBSET Unit]
    <3>1. receipts \in Seq(R)
      BY DEF TInv, TypeOK
    <3> HIDE DEF R
    <3>2. receipts[Len(receipts)] \in R
      BY <1>4, <3>1
    <3> QED BY <3>2 DEF R
  <2>2. proc' = [proc EXCEPT ![p] = c]
    BY <1>4
  <2> HIDE DEF d
  <2>3. c \in Command /\ c.pc = "purge" /\ c.id = d
    BY <2>1, Fresh DEF Command, Places
  <2> HIDE DEF c
  <2> QED BY <1>1, <2>1, <2>2, <2>3
<1> QED BY <1>2, <1>3, <1>4 DEF Plan

\* A step that leaves the disk and the tasks alone.
LEMMA AsideTypes ==
    ASSUME TInv, UNCHANGED <<disk, world, crashes, faults>>,
           proc' \in [Deleters -> Command], \A q \in Deleters : Placed(q)'
    PROVE  TInv'
BY DEF TInv, TypeOK, disk, world, Command, Places

LEMMA ReserveTypes ==
    ASSUME TInv, NEW p \in Deleters, Reserve(p)
    PROVE  TInv'
<1>1. CASE Goto(p, "write")
  BY <1>1, Goes, AsideTypes DEF Reserve, Places
<1>2. CASE Stop(p)
  BY <1>2, Stops, AsideTypes DEF Reserve
<1>3. CASE \E d \in Pending : proc' = [proc EXCEPT ![p].pc = "open", ![p].id = d]
  <2>1. PICK d \in Ids : proc' = [proc EXCEPT ![p].pc = "open", ![p].id = d]
    BY <1>3 DEF Pending
  <2> DEFINE c == [proc[p] EXCEPT !.pc = "open", !.id = d]
  <2>2. c \in Command /\ c.pc = "open" /\ c.id = d
    BY HasCommand DEF Command, Places
  <2>3. proc' = [proc EXCEPT ![p] = c]
    BY <2>1
  <2> HIDE DEF c
  <2>4. proc' \in [Deleters -> Command] /\ \A q \in Deleters : Placed(q)'
    BY <2>2, <2>3, Moves
  <2> QED BY <2>4, AsideTypes DEF Reserve
<1> QED BY <1>1, <1>2, <1>3 DEF Reserve

LEMMA WriteManifestTypes ==
    ASSUME TInv, NEW p \in Deleters, WriteManifest(p)
    PROVE  TInv'
<1>1. PICK d \in Ids :
          /\ manifest' = [manifest EXCEPT ![d] = proc[p].work]
          /\ proc' = [proc EXCEPT ![p].pc = "open", ![p].id = d]
  BY DEF WriteManifest
<1> DEFINE c == [proc[p] EXCEPT !.pc = "open", !.id = d]
<1>2. c \in Command /\ c.pc = "open" /\ c.id = d /\ proc[p].work \in Manifest
  BY HasCommand DEF Command, Places
<1>3. proc' = [proc EXCEPT ![p] = c]
  BY <1>1
<1> HIDE DEF c
<1>4. proc' \in [Deleters -> Command] /\ \A q \in Deleters : Placed(q)'
  BY <1>2, <1>3, Moves
<1>5. manifest' \in [Ids -> Manifest]
  BY <1>1, <1>2 DEF TInv, TypeOK
<1> QED BY <1>4, <1>5 DEF TInv, TypeOK, WriteManifest, world, Command, Places

LEMMA OpenTypes ==
    ASSUME TInv, NEW p \in Deleters, Open(p)
    PROVE  TInv'
<1> DEFINE m == manifest[proc[p].id]
<1>1. proc[p].pc = "open" /\ UNCHANGED <<disk, world, crashes, faults>>
  BY DEF Open
<1>2. proc[p].id \in Ids /\ m \in Manifest
  BY <1>1, HasCommand DEF Placed, TInv, TypeOK
<1>3. CASE Goto(p, "refresh")
  BY <1>1, <1>2, <1>3, Goes, AsideTypes DEF Places
<1>4. CASE Stop(p)
  BY <1>1, <1>4, Stops, AsideTypes
<1>5. CASE proc' = [proc EXCEPT ![p].pc = "stage", ![p].work = m, ![p].pos = 1]
  <2> HIDE DEF m
  <2> DEFINE a == [proc[p] EXCEPT !.pc = "stage"]
             b == [a EXCEPT !.work = m]
             c == [b EXCEPT !.pos = 1]
  <2>1. proc' = [proc EXCEPT ![p] = c]
    BY <1>5
  <2>2. proc[p] \in Command /\ 1 \in 0..(Len(Targets) + 1)
    BY HasCommand, Plans
  <2>3. a \in Command /\ a.pc = "stage" /\ a.id = proc[p].id
    BY <2>2 DEF Command, Places
  <2> HIDE DEF a
  <2>4. b \in Command /\ b.pc = "stage" /\ b.id = proc[p].id
    BY <1>2, <2>3 DEF Command
  <2> HIDE DEF b
  <2>5. c \in Command /\ c.pc = "stage" /\ c.id = proc[p].id /\ c.pos = 1 /\ c.pos >= 1
    BY <2>2, <2>4 DEF Command
  <2> HIDE DEF c
  <2>6. proc' \in [Deleters -> Command] /\ \A q \in Deleters : Placed(q)'
    BY <1>2, <2>1, <2>5, Moves
  <2> QED BY <1>1, <2>6, AsideTypes
<1> QED BY <1>3, <1>4, <1>5 DEF Open

LEMMA StageCheckTypes ==
    ASSUME TInv, NEW p \in Deleters, StageCheck(p)
    PROVE  TInv'
<1>1. /\ proc[p].pc = "stage" /\ proc[p].pos <= Len(Targets)
      /\ UNCHANGED <<disk, world, crashes, faults>>
      /\ Advance(p) \/ Goto(p, "move") \/ Fail(p)
  BY DEF StageCheck
<1>2. proc[p].pos \in 1..Len(Targets) /\ proc[p].id \in Ids
  BY <1>1, HasCommand, Plans DEF Placed, Command
<1>3. proc' \in [Deleters -> Command] /\ \A q \in Deleters : Placed(q)'
  BY <1>1, <1>2, Advances, Goes, Fails DEF Places
<1> QED BY <1>1, <1>3, AsideTypes

LEMMA StageMoveTypes ==
    ASSUME TInv, NEW p \in Deleters, StageMove(p)
    PROVE  TInv'
<1> DEFINE t == At(p)
           d == proc[p].id
<1>1. /\ proc[p].pc = "move" /\ UNCHANGED <<manifest, receipts, world, crashes, faults>>
      /\ \/ /\ source' = [source EXCEPT ![t] = {}]
            /\ staged' = [staged EXCEPT ![d][t] = source[t]]
            /\ Goto(p, "note")
         \/ Fail(p) /\ UNCHANGED <<source, staged>>
  BY DEF StageMove
<1>2. proc[p].pos \in 1..Len(Targets) /\ d \in Ids
  BY <1>1, HasCommand DEF Placed
<1>3. t \in Target
  BY <1>2, AtTarget
<1>4. proc' \in [Deleters -> Command] /\ \A q \in Deleters : Placed(q)'
  BY <1>1, <1>2, Goes, Fails DEF Places
<1> HIDE DEF t, d
<1>5. source' \in [Target -> SUBSET Unit] /\ staged' \in [Ids -> [Target -> SUBSET Unit]]
  <2>1. source \in [Target -> SUBSET Unit] /\ staged \in [Ids -> [Target -> SUBSET Unit]]
    BY DEF TInv, TypeOK
  <2>2. source[t] \in SUBSET Unit /\ staged[d] \in [Target -> SUBSET Unit]
    BY <1>2, <1>3, <2>1
  <2>3. [staged[d] EXCEPT ![t] = source[t]] \in [Target -> SUBSET Unit]
    BY <1>3, <2>2
  <2>4. [staged EXCEPT ![d][t] = source[t]] \in [Ids -> [Target -> SUBSET Unit]]
    BY <2>1, <2>3
  <2>5. [source EXCEPT ![t] = {}] \in [Target -> SUBSET Unit]
    BY <2>1
  <2> QED BY <1>1, <2>1, <2>4, <2>5
<1> QED BY <1>1, <1>4, <1>5 DEF TInv, TypeOK, world, Command, Places

LEMMA SaveTypes ==
    ASSUME TInv, NEW p \in Deleters, NEW state \in {"staging", "staged", "committed",
                                                    "rollback_required"},
           Save(p, state)
    PROVE  manifest' \in [Ids -> Manifest]
<1> DEFINE m == [proc[p].work EXCEPT !.state = state]
<1>1. proc[p].work \in Manifest
  BY HasCommand DEF Command
<1>2. m \in Manifest
  BY <1>1 DEF Manifest
<1>3. manifest' = [manifest EXCEPT ![proc[p].id] = m]
  BY DEF Save
<1> QED BY <1>2, <1>3 DEF TInv, TypeOK

\* A step that writes the manifest, or the transaction, and nothing else.
LEMMA WriteTypes ==
    ASSUME TInv, proc' \in [Deleters -> Command], \A q \in Deleters : Placed(q)',
           manifest' \in [Ids -> Manifest], staged' \in [Ids -> [Target -> SUBSET Unit]],
           UNCHANGED <<source, receipts, world, crashes>>,
           faults' \in 0..MaxFaults
    PROVE  TInv'
BY DEF TInv, TypeOK, world, Command, Places

LEMMA StageNoteTypes ==
    ASSUME TInv, NEW p \in Deleters, StageNote(p)
    PROVE  TInv'
<1>1. /\ proc[p].pc = "note" /\ Save(p, "staging") /\ Advance(p)
      /\ UNCHANGED <<source, staged, receipts, world, crashes, faults>>
  BY DEF StageNote
<1>2. proc[p].pos \in 1..Len(Targets) /\ proc[p].id \in Ids
  BY <1>1, HasCommand DEF Placed
<1>3. proc' \in [Deleters -> Command] /\ \A q \in Deleters : Placed(q)'
  BY <1>1, <1>2, Advances
<1> QED BY <1>1, <1>3, SaveTypes, WriteTypes DEF TInv, TypeOK

LEMMA StageEndTypes ==
    ASSUME TInv, NEW p \in Deleters, StageEnd(p)
    PROVE  TInv'
<1>1. /\ proc[p].pc = "stage" /\ Save(p, "staged") /\ Goto(p, "refresh")
      /\ UNCHANGED <<source, staged, receipts, world, crashes, faults>>
  BY DEF StageEnd
<1>2. proc' \in [Deleters -> Command] /\ \A q \in Deleters : Placed(q)'
  BY <1>1, HasCommand, Goes DEF Placed, Places
<1> QED BY <1>1, <1>2, SaveTypes, WriteTypes DEF TInv, TypeOK

LEMMA RefreshTypes ==
    ASSUME TInv, NEW p \in Deleters, Refresh(p)
    PROVE  TInv'
<1>1. proc' \in [Deleters -> Command] /\ \A q \in Deleters : Placed(q)'
  BY HasCommand, Goes DEF Refresh, Placed, Places
<1> QED BY <1>1, AsideTypes DEF Refresh

LEMMA FaultTypes ==
    ASSUME TInv, NEW p \in Deleters, Fault(p)
    PROVE  TInv'
<1>1. /\ proc[p].pc \in {"move", "note", "refresh"} /\ faults < MaxFaults
      /\ faults' = faults + 1 /\ Fail(p) /\ UNCHANGED <<disk, world, crashes>>
  BY DEF Fault
<1>2. proc' \in [Deleters -> Command] /\ \A q \in Deleters : Placed(q)'
  BY <1>1, HasCommand, Fails DEF Placed
<1>3. faults' \in 0..MaxFaults
  BY <1>1, DeletionAssumption DEF TInv, TypeOK
<1> QED BY <1>1, <1>2, <1>3, WriteTypes DEF TInv, TypeOK, disk

LEMMA CrashTypes ==
    ASSUME TInv, NEW p \in Deleters, Crash(p)
    PROVE  TInv'
<1>1. /\ crashes < MaxCrashes /\ crashes' = crashes + 1 /\ Stop(p)
      /\ UNCHANGED <<disk, world, faults>>
  BY DEF Crash
<1>2. proc' \in [Deleters -> Command] /\ \A q \in Deleters : Placed(q)'
  BY <1>1, Stops
<1>3. crashes' \in 0..MaxCrashes
  BY <1>1, DeletionAssumption DEF TInv, TypeOK
<1> QED BY <1>1, <1>2, <1>3 DEF TInv, TypeOK, disk, world, Command, Places

LEMMA RollbackOpenTypes ==
    ASSUME TInv, NEW p \in Deleters, RollbackOpen(p)
    PROVE  TInv'
<1> DEFINE m == manifest[proc[p].id]
<1>1. proc[p].pc = "rollback" /\ UNCHANGED <<disk, world, crashes, faults>>
  BY DEF RollbackOpen
<1>2. proc[p].id \in Ids /\ m \in Manifest
  BY <1>1, HasCommand DEF Placed, TInv, TypeOK
<1>3. CASE Stop(p)
  BY <1>1, <1>3, Stops, AsideTypes
<1>4. CASE proc' = [proc EXCEPT ![p].pc = "undo", ![p].work = m,
                                ![p].pos = Len(Targets), ![p].ok = TRUE]
  <2> HIDE DEF m
  <2> DEFINE n == Len(Targets)
             a == [proc[p] EXCEPT !.pc = "undo"]
             b == [a EXCEPT !.work = m]
             c == [b EXCEPT !.pos = n]
             e == [c EXCEPT !.ok = TRUE]
  <2>1. proc' = [proc EXCEPT ![p] = e]
    BY <1>4
  <2>2. proc[p] \in Command /\ n \in 0..(Len(Targets) + 1) /\ n <= Len(Targets)
    BY HasCommand, Plans
  <2> HIDE DEF n
  <2>3. a \in Command /\ a.pc = "undo" /\ a.id = proc[p].id
    BY <2>2 DEF Command, Places
  <2> HIDE DEF a
  <2>4. b \in Command /\ b.pc = "undo" /\ b.id = proc[p].id
    BY <1>2, <2>3 DEF Command
  <2> HIDE DEF b
  <2>5. c \in Command /\ c.pc = "undo" /\ c.id = proc[p].id /\ c.pos = n
    BY <2>2, <2>4 DEF Command
  <2> HIDE DEF c
  <2>6. e \in Command /\ e.pc = "undo" /\ e.id = proc[p].id /\ e.pos = n
    BY <2>5 DEF Command
  <2> HIDE DEF e
  <2>7. proc' \in [Deleters -> Command] /\ \A q \in Deleters : Placed(q)'
    BY <1>2, <2>1, <2>2, <2>6, Moves
  <2> QED BY <1>1, <2>7, AsideTypes
<1> QED BY <1>3, <1>4 DEF RollbackOpen

LEMMA RollbackTargetTypes ==
    ASSUME TInv, NEW p \in Deleters, RollbackTarget(p)
    PROVE  TInv'
<1> DEFINE t == At(p)
           d == proc[p].id
<1>1. PICK ok \in BOOLEAN :
          /\ proc' = [proc EXCEPT ![p].pos = @ - 1, ![p].ok = @ /\ ok]
          /\ \/ UNCHANGED <<source, staged>>
             \/ /\ source' = [source EXCEPT ![t] = staged[d][t]]
                /\ staged' = [staged EXCEPT ![d][t] = {}]
          /\ faults' = faults \/ (faults < MaxFaults /\ faults' = faults + 1)
          /\ proc[p].pc = "undo" /\ proc[p].pos > 0
          /\ UNCHANGED <<manifest, receipts, world, crashes>>
  <2> DEFINE Next1(ok) == proc' = [proc EXCEPT ![p].pos = @ - 1, ![p].ok = @ /\ ok]
  <2>1. PICK ok \in BOOLEAN :
            /\ Next1(ok)
            /\ \/ UNCHANGED <<source, staged>>
               \/ /\ source' = [source EXCEPT ![t] = staged[d][t]]
                  /\ staged' = [staged EXCEPT ![d][t] = {}]
            /\ faults' = faults \/ (faults < MaxFaults /\ faults' = faults + 1)
    <3>1. Exists(source[t]) \in BOOLEAN
      BY DEF Exists
    <3> QED BY <3>1 DEF RollbackTarget
  <2> QED BY <2>1 DEF RollbackTarget
<1>2. proc[p] \in Command /\ proc[p].pos \in 1..Len(Targets) /\ d \in Ids
  BY <1>1, HasCommand, Plans DEF Placed, Command
<1>3. t \in Target
  BY <1>2, AtTarget
<1>4. proc' \in [Deleters -> Command] /\ \A q \in Deleters : Placed(q)'
  <2> DEFINE b == [proc[p] EXCEPT !.pos = @ - 1]
             c == [b EXCEPT !.ok = @ /\ ok]
  <2>1. /\ b \in Command /\ b.pos = proc[p].pos - 1 /\ b.pc = "undo" /\ b.id = d
    BY <1>1, <1>2, Plans DEF Command
  <2>2. proc' = [proc EXCEPT ![p] = c]
    <3> DEFINE first == [proc EXCEPT ![p].pos = @ - 1]
    <3>1. proc' = [first EXCEPT ![p].ok = @ /\ ok]
      BY <1>1
    <3>2. first[p] = b /\ first = [proc EXCEPT ![p] = b]
      BY <1>2 DEF TInv, TypeOK
    <3> HIDE DEF first, b
    <3> QED BY <3>1, <3>2
  <2>3. b.ok \in BOOLEAN /\ (b.ok /\ ok) \in BOOLEAN
    BY <2>1 DEF Command
  <2> HIDE DEF b
  <2>4. c \in Command /\ c.pos = b.pos /\ c.pc = "undo" /\ c.id = d
    BY <2>1, <2>3 DEF Command
  <2>5. c.pos <= Len(Targets)
    BY <1>2, <2>1, <2>4, Plans
  <2> HIDE DEF c
  <2> QED BY <1>2, <2>2, <2>4, <2>5, Moves
<1> HIDE DEF t, d
<1>5. source' \in [Target -> SUBSET Unit] /\ staged' \in [Ids -> [Target -> SUBSET Unit]]
  <2>1. source \in [Target -> SUBSET Unit] /\ staged \in [Ids -> [Target -> SUBSET Unit]]
    BY DEF TInv, TypeOK
  <2>2. staged[d][t] \in SUBSET Unit /\ staged[d] \in [Target -> SUBSET Unit]
    BY <1>2, <1>3, <2>1
  <2>3. [staged[d] EXCEPT ![t] = {}] \in [Target -> SUBSET Unit]
    BY <1>3, <2>2
  <2>4. [staged EXCEPT ![d][t] = {}] \in [Ids -> [Target -> SUBSET Unit]]
    BY <2>1, <2>3
  <2>5. [source EXCEPT ![t] = staged[d][t]] \in [Target -> SUBSET Unit]
    BY <2>1, <2>2
  <2> QED BY <1>1, <2>1, <2>4, <2>5
<1>6. faults' \in 0..MaxFaults
  BY <1>1, DeletionAssumption DEF TInv, TypeOK
<1> QED BY <1>1, <1>4, <1>5, <1>6 DEF TInv, TypeOK, world, Command, Places

LEMMA RollbackEndTypes ==
    ASSUME TInv, NEW p \in Deleters, RollbackEnd(p)
    PROVE  TInv'
<1> DEFINE d == proc[p].id
<1>1. /\ proc[p].pc = "undo" /\ Stop(p)
      /\ RemoveTransaction(d) \/ (Save(p, "rollback_required") /\ UNCHANGED staged)
      /\ UNCHANGED <<source, receipts, world, crashes, faults>>
  BY DEF RollbackEnd
<1>2. proc' \in [Deleters -> Command] /\ \A q \in Deleters : Placed(q)'
  BY <1>1, Stops
<1>3. /\ manifest \in [Ids -> Manifest] /\ staged \in [Ids -> [Target -> SUBSET Unit]]
      /\ d \in Ids
  BY <1>1, HasCommand DEF Placed, TInv, TypeOK
<1> HIDE DEF d
<1>4. CASE RemoveTransaction(d)
  <2>1. manifest' \in [Ids -> Manifest]
    BY <1>3, <1>4, Fresh DEF RemoveTransaction
  <2>2. staged[d] \in [Target -> SUBSET Unit]
    BY <1>3
  <2>3. [staged[d] EXCEPT ![Records] = {}] \in [Target -> SUBSET Unit]
    BY <2>2, Plans
  <2>4. staged' \in [Ids -> [Target -> SUBSET Unit]]
    BY <1>3, <1>4, <2>3 DEF RemoveTransaction
  <2> QED BY <1>1, <1>2, <2>1, <2>4, WriteTypes DEF TInv, TypeOK
<1>5. CASE Save(p, "rollback_required") /\ UNCHANGED staged
  BY <1>1, <1>2, <1>3, <1>5, SaveTypes, WriteTypes DEF TInv, TypeOK
<1> QED BY <1>1, <1>4, <1>5

LEMMA FinalizeTypes ==
    ASSUME TInv, NEW p \in Deleters, Finalize(p)
    PROVE  TInv'
<1> DEFINE d == proc[p].id
           m == manifest[d]
<1>1. /\ proc[p].pc = "finalize"
      /\ UNCHANGED <<source, staged, manifest, world, crashes, faults>>
  BY DEF Finalize
<1>2. d \in Ids /\ m \in Manifest
  BY <1>1, HasCommand DEF Placed, TInv, TypeOK
<1>3. CASE Goto(p, "purge") /\ UNCHANGED receipts
  <2>1. proc' \in [Deleters -> Command] /\ \A q \in Deleters : Placed(q)'
    BY <1>2, <1>3, Goes DEF Places
  <2> QED BY <1>1, <1>3, <2>1, AsideTypes DEF disk
<1>4. CASE Stop(p) /\ UNCHANGED receipts
  BY <1>1, <1>4, Stops, AsideTypes DEF disk
<1>5. CASE /\ receipts' \in {receipts, Append(receipts, [id |-> d, units |-> m.units])}
           /\ proc' = [proc EXCEPT ![p].pc = "commit", ![p].work = m]
  <2>1. [id |-> d, units |-> m.units] \in [id : Ids, units : SUBSET Unit]
    BY <1>2 DEF Manifest
  <2>2. receipts' \in Seq([id : Ids, units : SUBSET Unit])
    <3> DEFINE S == [id : Ids, units : SUBSET Unit]
    <3> HIDE DEF S
    <3>1. receipts \in Seq(S) /\ [id |-> d, units |-> m.units] \in S
      BY <2>1 DEF S, TInv, TypeOK
    <3>2. receipts' \in Seq(S)
      BY <1>5, <3>1
    <3> QED BY <3>2 DEF S
  <2> DEFINE c == [proc[p] EXCEPT !.pc = "commit", !.work = m]
  <2> HIDE DEF m
  <2>3. c \in Command /\ c.pc = "commit" /\ c.id = d
    BY <1>2, HasCommand DEF Command, Places
  <2>4. proc' = [proc EXCEPT ![p] = c]
    BY <1>5
  <2> HIDE DEF c
  <2>5. proc' \in [Deleters -> Command] /\ \A q \in Deleters : Placed(q)'
    BY <1>2, <2>3, <2>4, Moves
  <2> QED BY <1>1, <2>2, <2>5 DEF TInv, TypeOK, world, Command, Places
<1> QED BY <1>3, <1>4, <1>5 DEF Finalize

LEMMA CommitTypes ==
    ASSUME TInv, NEW p \in Deleters, Commit(p)
    PROVE  TInv'
<1>1. /\ proc[p].pc = "commit" /\ Save(p, "committed") /\ Goto(p, "purge")
      /\ UNCHANGED <<source, staged, receipts, world, crashes, faults>>
  BY DEF Commit
<1>2. proc' \in [Deleters -> Command] /\ \A q \in Deleters : Placed(q)'
  BY <1>1, HasCommand, Goes DEF Placed, Places
<1> QED BY <1>1, <1>2, SaveTypes, WriteTypes DEF TInv, TypeOK

LEMMA PurgeTypes ==
    ASSUME TInv, NEW p \in Deleters, Purge(p)
    PROVE  TInv'
<1> DEFINE d == proc[p].id
<1>1. /\ proc[p].pc = "purge" /\ Stop(p)
      /\ UNCHANGED <<source, receipts, world, crashes>>
      /\ UNCHANGED faults \/ (faults < MaxFaults /\ faults' = faults + 1)
      /\ manifest' \in {manifest, [manifest EXCEPT ![d] = NoManifest]}
      /\ \/ UNCHANGED staged
         \/ staged' = [staged EXCEPT ![d] = [u \in Target |-> {}]]
         \/ \E left \in SUBSET Target :
               staged' = [staged EXCEPT ![d] =
                             [u \in Target |-> IF u \in left THEN staged[d][u] ELSE {}]]
  BY DEF Purge
<1>2. proc' \in [Deleters -> Command] /\ \A q \in Deleters : Placed(q)'
  BY <1>1, Stops
<1>3. /\ manifest \in [Ids -> Manifest] /\ staged \in [Ids -> [Target -> SUBSET Unit]]
      /\ d \in Ids
  BY <1>1, HasCommand DEF Placed, TInv, TypeOK
<1> HIDE DEF d
<1>4. manifest' \in [Ids -> Manifest]
  BY <1>1, <1>3, Fresh
<1>5. staged' \in [Ids -> [Target -> SUBSET Unit]]
  <2>1. ASSUME NEW left \in SUBSET Target
        PROVE  [u \in Target |-> IF u \in left THEN staged[d][u] ELSE {}] \in
                  [Target -> SUBSET Unit]
    BY <1>3
  <2> QED BY <1>1, <1>3, <2>1
<1>6. faults' \in 0..MaxFaults
  BY <1>1, DeletionAssumption DEF TInv, TypeOK
<1> QED BY <1>1, <1>2, <1>4, <1>5, <1>6, WriteTypes

LEMMA PopulateTypes ==
    ASSUME TInv, NEW u \in Unit, Populate(u),
           UNCHANGED <<staged, manifest, receipts, proc, crashes, faults>>,
           reopens' \in 0..MaxReopens
    PROVE  TInv'
<1>1. source' \in [Target -> SUBSET Unit] /\ active' \subseteq Unit /\ created' \subseteq Unit
  BY DEF Populate, TInv, TypeOK
<1> QED BY <1>1 DEF TInv, TypeOK, Placed

\* A step of the chain's tasks adds one iteration, or ends one.
WorldStep == CreateChain \/ Continue \/ Reopen \/ EndTask

LEMMA Worlds ==
    ASSUME TInv, WorldStep
    PROVE  /\ UNCHANGED <<staged, manifest, receipts, proc, crashes, faults>>
           /\ reopens' \in 0..MaxReopens
           /\ \/ \E u \in Unit : /\ Populate(u)
                                 /\ \/ CodeFree /\ ChainsSoFar = 1..(u.chain - 1)
                                    \/ \E v \in Chain : u.chain = v.chain
              \/ active' \subseteq active /\ UNCHANGED <<source, created>>
<1>0. Chain \subseteq Unit
  BY Plans DEF Chain, TInv, TypeOK
<1>1. CASE CreateChain
  <2>1. PICK c \in 1..MaxChains : /\ ChainsSoFar = 1..(c - 1)
                                  /\ Populate([chain |-> c, iteration |-> 1])
    BY <1>1 DEF CreateChain
  <2>2. [chain |-> c, iteration |-> 1] \in Unit
    BY <2>1, DeletionAssumption DEF Unit
  <2> QED BY <1>1, <2>1, <2>2 DEF CreateChain, TInv, TypeOK
<1>2. CASE Continue
  <2>1. PICK v \in Chain : /\ v.iteration < MaxIterations
                           /\ Populate([v EXCEPT !.iteration = @ + 1])
    BY <1>2 DEF Continue
  <2>2. [v EXCEPT !.iteration = @ + 1] \in Unit /\ [v EXCEPT !.iteration = @ + 1].chain = v.chain
    BY <1>0, <2>1, DeletionAssumption DEF Unit
  <2> QED BY <1>2, <2>1, <2>2 DEF Continue, TInv, TypeOK
<1>3. CASE Reopen
  <2>1. PICK v \in Chain : Populate(v)
    BY <1>3 DEF Reopen
  <2>2. reopens' \in 0..MaxReopens
    BY <1>3, DeletionAssumption DEF Reopen, TInv, TypeOK
  <2> QED BY <1>0, <1>3, <2>1, <2>2 DEF Reopen
<1>4. CASE EndTask
  BY <1>4 DEF EndTask, disk, TInv, TypeOK
<1> QED BY <1>1, <1>2, <1>3, <1>4 DEF WorldStep

LEMMA WorldTypes ==
    ASSUME TInv, WorldStep
    PROVE  TInv'
<1>1. CASE \E u \in Unit : Populate(u)
  BY <1>1, Worlds, PopulateTypes
<1>2. CASE active' \subseteq active /\ UNCHANGED <<source, created>>
  BY <1>2, Worlds DEF TInv, TypeOK, Placed
<1> QED BY <1>1, <1>2, Worlds

LEMMA NextTypes ==
    ASSUME TInv, [Next]_vars
    PROVE  TInv'
<1>1. ASSUME NEW p \in Deleters, Plan(p) \/ Step(p) \/ Fault(p) \/ Crash(p)
      PROVE  TInv'
  BY <1>1, PlanTypes, ReserveTypes, WriteManifestTypes, OpenTypes, StageCheckTypes,
     StageMoveTypes, StageNoteTypes, StageEndTypes, RefreshTypes, RollbackOpenTypes,
     RollbackTargetTypes, RollbackEndTypes, FinalizeTypes, CommitTypes, PurgeTypes,
     FaultTypes, CrashTypes
     DEF Step
<1>2. CASE WorldStep
  BY <1>2, WorldTypes
<1>3. CASE UNCHANGED vars
  BY <1>3 DEF vars, TInv, TypeOK, Placed
<1> QED BY <1>1, <1>2, <1>3 DEF Next, WorldStep

LEMMA InitTypes == Init => TInv
<1> SUFFICES ASSUME Init PROVE TInv
  OBVIOUS
<1>1. proc \in [Deleters -> Command] /\ \A p \in Deleters : proc[p].pc = "idle"
  BY Fresh DEF Init
<1>2. /\ source \in [Target -> SUBSET Unit] /\ staged \in [Ids -> [Target -> SUBSET Unit]]
      /\ manifest \in [Ids -> Manifest]
  BY Fresh DEF Init
<1>3. /\ receipts \in Seq([id : Ids, units : SUBSET Unit])
      /\ active \subseteq Unit /\ created \subseteq Unit
  BY DEF Init
<1>4. reopens \in 0..MaxReopens /\ crashes \in 0..MaxCrashes /\ faults \in 0..MaxFaults
  BY DeletionAssumption DEF Init
<1>5. \A p \in Deleters : Placed(p)
  BY <1>1 DEF Placed
<1> QED BY <1>1, <1>2, <1>3, <1>4, <1>5, Typed DEF TInv

\* The store, the manifests and the commands at work on them are well formed,
\* with any number of commands (task_store.py).
THEOREM DeletionTypes == Spec => []TypeOK
<1>1. Init => TInv
  BY InitTypes
<1>2. TInv /\ [Next]_vars => TInv'
  BY NextTypes
<1>3. TInv => TypeOK
  BY DEF TInv
<1> QED BY <1>1, <1>2, <1>3, PTL DEF Spec

-----------------------------------------------------------------------------
(* The inductive invariant, for one command at a time.                     *)

OneCommand == \A p, q \in Deleters : p = q

\* Of the chain that has the code now.
Latest(u) == u \in created /\ \A c \in ChainsSoFar : c <= u.chain
AllLatest(units) == \A u \in units : Latest(u)

\* A receipt says that files of the unit's chain were deleted.
Receipted(u) == \E i \in 1..Len(receipts) : \E v \in receipts[i].units : v.chain = u.chain
LatestReceipted == \E i \in 1..Len(receipts) : \E v \in receipts[i].units : Latest(v)

Gone == \A t \in Target : ~Exists(source[t])

\* The directories hold files of one chain, and without a pending transaction
\* either all of them are there or none.
StoreSound ==
    /\ \A t \in Target : AllLatest(source[t])
    /\ \A i \in 1..Len(receipts) : receipts[i].units \subseteq created
    /\ Pending = {} => \A t \in Target : Exists(source[t]) <=> Exists(Chain)

\* What was moved aside is nothing without a manifest, is still of the code's
\* chain while the transaction is pending, and has a receipt once it is committed.
TransactionSound(d) ==
    /\ manifest[d].state = "none" => \A t \in Target : staged[d][t] = {}
    /\ manifest[d].state = "committed" => \A t \in Target : \A u \in staged[d][t] : Receipted(u)
    /\ d \in Pending =>
          /\ Pending = {d}
          /\ \A t \in Target : AllLatest(staged[d][t])
          /\ manifest[d].units # {} /\ AllLatest(manifest[d].units)
          /\ manifest[d].targets = Target
          /\ \A i \in 1..Len(receipts) :
                receipts[i].id = d => \E v \in receipts[i].units : Latest(v)

\* A manifest that plans the whole of the chain.
Planned(m) == m.units # {} /\ AllLatest(m.units) /\ m.targets = Target

Undone(p, i) == Exists(source[Targets[i]]) /\ ~Exists(staged[proc[p].id][Targets[i]])

\* A command works on the pending transaction, with a copy of its plan; a rollback
\* has put back what it passed, and a commit has a receipt.
CommandSound(p) ==
    /\ proc[p].pc \in {"reserve", "write"} =>
          /\ Pending = {} /\ Exists(Chain)
          /\ Planned(proc[p].work) /\ proc[p].work.state = "reserved"
    /\ proc[p].pc \notin {"idle", "reserve", "write", "purge"} => proc[p].id \in Pending
    /\ proc[p].pc \in {"stage", "move", "note", "undo", "commit"} => Planned(proc[p].work)
    /\ proc[p].pc = "undo" /\ proc[p].ok =>
          \A i \in (proc[p].pos + 1)..Len(Targets) : Undone(p, i)
    /\ proc[p].pc = "commit" => Gone /\ LatestReceipted

\* The places from which a receipt would be wrong.
Doubtful == {"reserve", "write", "move", "note", "rollback", "undo"}

\* While no operation has failed, a chain with a receipt is gone for good.
Unbroken ==
    faults = 0 /\ LatestReceipted =>
        /\ Gone
        /\ \A d \in Pending, t \in Target : Exists(staged[d][t])
        /\ \A p \in Deleters : proc[p].pc \notin Doubtful

IInv ==
    /\ TInv
    /\ StoreSound
    /\ \A d \in Ids : TransactionSound(d)
    /\ \A p \in Deleters : CommandSound(p)
    /\ LostOnlyWithReceipt
    /\ Unbroken

\* Units of the chain that has the code now are of one chain.
LEMMA OneLatest ==
    ASSUME TInv, NEW u, NEW v, Latest(u), Latest(v)
    PROVE  u.chain = v.chain
<1>1. u \in Unit /\ v \in Unit
  BY DEF Latest, TInv, TypeOK
<1>2. u.chain \in Nat /\ v.chain \in Nat
  BY <1>1, DeletionAssumption DEF Unit
<1>3. u.chain <= v.chain /\ v.chain <= u.chain
  BY DEF Latest, ChainsSoFar
<1> QED BY <1>2, <1>3

LEMMA PendingId ==
    ASSUME IInv, NEW d \in Pending
    PROVE  /\ d \in Ids /\ Pending = {d} /\ TransactionSound(d)
           /\ manifest[d].state \notin {"none", "committed"}
BY DEF IInv, Pending, TransactionSound

\* What a step leaves when it leaves the disk and the history.
LEMMA DiskKept ==
    ASSUME UNCHANGED <<source, staged, manifest, receipts, created>>
    PROVE  /\ \A u : Latest(u)' <=> Latest(u)
           /\ \A m : Planned(m)' <=> Planned(m)
           /\ Pending' = Pending /\ (Gone' <=> Gone) /\ Chain' = Chain
           /\ LatestReceipted' <=> LatestReceipted
           /\ StoreSound' <=> StoreSound
           /\ \A d : TransactionSound(d)' <=> TransactionSound(d)
           /\ LostOnlyWithReceipt' <=> LostOnlyWithReceipt
BY DEF Latest, Planned, AllLatest, Pending, Gone, LatestReceipted, StoreSound,
       TransactionSound, LostOnlyWithReceipt, ChainsSoFar, Chain, Receipted

\* A step of a command that leaves the disk alone.
LEMMA AsideSound ==
    ASSUME OneCommand, IInv, TInv', NEW p \in Deleters,
           UNCHANGED <<source, staged, manifest, receipts, created>>,
           faults' \in {faults, faults + 1}, CommandSound(p)',
           faults' = 0 /\ LatestReceipted => proc'[p].pc \notin Doubtful
    PROVE  IInv'
<1>1. StoreSound' /\ LostOnlyWithReceipt' /\ \A d \in Ids : TransactionSound(d)'
  BY DiskKept DEF IInv
<1>2. \A q \in Deleters : q = p
  BY DEF OneCommand
<1>3. faults \in Nat
  BY DeletionAssumption DEF IInv, TInv, TypeOK
<1>4. Unbroken'
  <2> SUFFICES ASSUME faults' = 0, LatestReceipted'
               PROVE  /\ Gone'
                      /\ \A d \in Pending', t \in Target : Exists(staged'[d][t])
                      /\ \A q \in Deleters : proc'[q].pc \notin Doubtful
    BY DEF Unbroken, Exists
  <2>1. faults = 0 /\ LatestReceipted
    BY <1>3, DiskKept
  <2>2. Gone /\ \A d \in Pending, t \in Target : Exists(staged[d][t])
    BY <2>1 DEF IInv, Unbroken
  <2> QED BY <1>2, <2>1, <2>2, DiskKept
<1> QED BY <1>1, <1>2, <1>4 DEF IInv

\* A step to another place, on the same transaction with the same plan.
LEMMA GotoSound ==
    ASSUME OneCommand, IInv, TInv', NEW p \in Deleters, NEW pc \in Places, Goto(p, pc),
           UNCHANGED <<source, staged, manifest, receipts, created>>,
           faults' \in {faults, faults + 1}, proc[p].id \in Pending,
           pc \in {"refresh", "finalize", "rollback", "move"},
           pc = "move" => Planned(proc[p].work),
           pc \in {"rollback", "move"} /\ faults' = 0 => ~LatestReceipted
    PROVE  IInv'
<1>1. proc'[p] = [proc[p] EXCEPT !.pc = pc] /\ proc[p] \in Command
  BY Typed DEF Goto, IInv, TInv
<1>2. proc'[p].pc = pc /\ proc'[p].id = proc[p].id /\ proc'[p].work = proc[p].work
  BY <1>1 DEF Command
<1>3. CommandSound(p)'
  BY <1>2, DiskKept DEF CommandSound
<1> QED BY <1>2, <1>3, AsideSound DEF Doubtful

LEMMA StopSound ==
    ASSUME OneCommand, IInv, TInv', NEW p \in Deleters, Stop(p),
           UNCHANGED <<source, staged, manifest, receipts, created, faults>>
    PROVE  IInv'
<1>1. proc'[p] = Idle /\ Idle.pc = "idle"
  BY Fresh, Stops DEF IInv
<1>2. CommandSound(p)'
  BY <1>1 DEF CommandSound
<1> QED BY <1>1, <1>2, AsideSound DEF Doubtful

-----------------------------------------------------------------------------
(* The steps of the command that leave the disk alone.                     *)

LEMMA AtSound ==
    ASSUME IInv, NEW p \in Deleters
    PROVE  /\ proc[p] \in Command /\ Placed(p) /\ CommandSound(p)
           /\ proc[p].pc \notin {"idle", "reserve", "write", "purge"} =>
                 /\ proc[p].id \in Ids /\ proc[p].id \in Pending
                 /\ TransactionSound(proc[p].id)
                 /\ manifest[proc[p].id].state \notin {"none", "committed"}
BY HasCommand, PendingId DEF IInv, CommandSound

LEMMA PlanSound ==
    ASSUME OneCommand, IInv, NEW p \in Deleters, Plan(p)
    PROVE  IInv'
<1>1. TInv'
  BY PlanTypes DEF IInv
<1>2. UNCHANGED <<source, staged, manifest, receipts, created, faults>>
  BY DEF Plan, disk, world
<1>3. CASE \E d \in Pending : proc' = [proc EXCEPT ![p] = [Idle EXCEPT !.pc = "open", !.id = d]]
  <2>1. PICK d \in Pending : proc' = [proc EXCEPT ![p] = [Idle EXCEPT !.pc = "open", !.id = d]]
    BY <1>3
  <2>2. proc'[p].pc = "open" /\ proc'[p].id = d
    BY <2>1, Typed DEF IInv, TInv, Idle
  <2>3. CommandSound(p)'
    BY <1>2, <2>2, DiskKept DEF CommandSound
  <2> QED BY <1>1, <1>2, <2>2, <2>3, AsideSound DEF Doubtful
<1>4. CASE /\ Pending = {} /\ Exists(Chain)
           /\ proc' = [proc EXCEPT ![p] =
                 [Idle EXCEPT !.pc = "reserve",
                              !.work = [state |-> "reserved", units |-> Chain,
                                        targets |-> {t \in Target : Exists(source[t])}]]]
  <2> DEFINE w == [state |-> "reserved", units |-> Chain,
                   targets |-> {t \in Target : Exists(source[t])}]
             c == [Idle EXCEPT !.pc = "reserve", !.work = w]
  <2>1. {t \in Target : Exists(source[t])} = Target /\ AllLatest(Chain)
    BY <1>4, Plans DEF IInv, StoreSound, Chain
  <2>2. Planned(w) /\ w.state = "reserved"
    BY <1>4, <2>1 DEF Planned, Exists
  <2>3. proc' = [proc EXCEPT ![p] = c]
    BY <1>4
  <2> HIDE DEF w
  <2>4. c.pc = "reserve" /\ c.work = w
    BY DEF Idle
  <2> HIDE DEF c
  <2>5. proc'[p] = c
    BY <2>3, Typed DEF IInv, TInv
  <2>6. CommandSound(p)'
    BY <1>2, <1>4, <2>2, <2>4, <2>5, DiskKept DEF CommandSound
  <2>7. ~(faults' = 0 /\ LatestReceipted)
    <3>1. ~Gone
      BY <1>4, Plans DEF Gone, Chain
    <3> QED BY <1>2, <3>1 DEF IInv, Unbroken
  <2> QED BY <1>1, <1>2, <2>6, <2>7, AsideSound
<1>5. CASE proc' = [proc EXCEPT ![p] =
              [Idle EXCEPT !.pc = "purge", !.id = receipts[Len(receipts)].id]]
  <2>1. proc'[p].pc = "purge"
    BY <1>5, Typed DEF IInv, TInv, Idle
  <2>2. CommandSound(p)'
    BY <2>1 DEF CommandSound
  <2> QED BY <1>1, <1>2, <2>1, <2>2, AsideSound DEF Doubtful
<1> QED BY <1>3, <1>4, <1>5 DEF Plan

LEMMA ReserveSound ==
    ASSUME OneCommand, IInv, NEW p \in Deleters, Reserve(p)
    PROVE  IInv'
<1>1. TInv'
  BY ReserveTypes DEF IInv
<1>2. proc[p].pc = "reserve" /\ UNCHANGED <<source, staged, manifest, receipts, created, faults>>
  BY DEF Reserve, disk, world
<1>3. /\ Pending = {} /\ Exists(Chain)
      /\ Planned(proc[p].work) /\ proc[p].work.state = "reserved"
  BY <1>2, AtSound DEF CommandSound
<1>4. Goto(p, "write")
  BY <1>3 DEF Reserve
<1>5. proc'[p].pc = "write" /\ proc'[p].work = proc[p].work
  BY <1>4, AtSound, Typed DEF Goto, IInv, TInv, Command
<1>6. CommandSound(p)'
  BY <1>2, <1>3, <1>5, DiskKept DEF CommandSound
<1>7. ~(faults' = 0 /\ LatestReceipted)
  <2>1. ~Gone
    BY <1>3, Plans DEF Gone, Chain
  <2> QED BY <1>2, <2>1 DEF IInv, Unbroken
<1> QED BY <1>1, <1>2, <1>6, <1>7, AsideSound

LEMMA OpenSound ==
    ASSUME OneCommand, IInv, NEW p \in Deleters, Open(p)
    PROVE  IInv'
<1> DEFINE m == manifest[proc[p].id]
<1>1. TInv'
  BY OpenTypes DEF IInv
<1>2. proc[p].pc = "open" /\ UNCHANGED <<source, staged, manifest, receipts, created, faults>>
  BY DEF Open, disk, world
<1>3. /\ proc[p] \in Command /\ proc[p].id \in Pending
      /\ TransactionSound(proc[p].id) /\ m.state \notin {"none", "committed"}
  BY <1>2, AtSound
<1>4. proc' = [proc EXCEPT ![p].pc = "stage", ![p].work = m, ![p].pos = 1]
  BY <1>3 DEF Open, Resumable
<1>5. Planned(m)
  BY <1>3 DEF TransactionSound, Planned
<1> HIDE DEF m
<1>6. proc'[p] = [proc[p] EXCEPT !.pc = "stage", !.work = m, !.pos = 1]
  BY <1>4, Typed DEF IInv, TInv
<1>7. proc'[p].pc = "stage" /\ proc'[p].work = m /\ proc'[p].id = proc[p].id
  BY <1>3, <1>6 DEF Command
<1>8. CommandSound(p)'
  BY <1>2, <1>3, <1>5, <1>7, DiskKept DEF CommandSound
<1> QED BY <1>1, <1>2, <1>7, <1>8, AsideSound DEF Doubtful

LEMMA StageCheckSound ==
    ASSUME OneCommand, IInv, NEW p \in Deleters, StageCheck(p)
    PROVE  IInv'
<1>1. TInv'
  BY StageCheckTypes DEF IInv
<1>2. /\ proc[p].pc = "stage" /\ proc[p].pos <= Len(Targets)
      /\ UNCHANGED <<source, staged, manifest, receipts, created, faults>>
  BY DEF StageCheck, disk, world
<1>3. /\ proc[p] \in Command /\ proc[p].id \in Pending
      /\ Planned(proc[p].work)
  BY <1>2, AtSound DEF CommandSound
<1>4. At(p) \in Target
  BY <1>2, <1>3, AtSound, AtTarget, Plans DEF Placed, Command, IInv
<1>5. faults = 0 /\ LatestReceipted =>
          ~Exists(source[At(p)]) /\ Exists(staged[proc[p].id][At(p)])
  BY <1>3, <1>4 DEF IInv, Unbroken, Gone
<1>6. CASE Advance(p)
  <2>1. proc'[p] = [proc[p] EXCEPT !.pos = @ + 1, !.pc = "stage"]
    BY <1>6, Typed DEF Advance, IInv, TInv
  <2>2. proc'[p].pc = "stage" /\ proc'[p].id = proc[p].id /\ proc'[p].work = proc[p].work
    BY <1>3, <2>1 DEF Command
  <2>3. CommandSound(p)'
    BY <1>2, <1>3, <2>2, DiskKept DEF CommandSound
  <2> QED BY <1>1, <1>2, <2>2, <2>3, AsideSound DEF Doubtful
<1>7. CASE Exists(source[At(p)]) /\ ~Exists(staged[proc[p].id][At(p)]) /\ Goto(p, "move")
  BY <1>1, <1>2, <1>3, <1>5, <1>7, GotoSound DEF Places
<1>8. CASE (Exists(source[At(p)]) <=> Exists(staged[proc[p].id][At(p)])) /\ Fail(p)
  <2>1. Goto(p, "rollback")
    BY <1>8 DEF Fail, Goto
  <2> QED BY <1>1, <1>2, <1>3, <1>5, <1>8, <2>1, GotoSound DEF Places
<1> QED BY <1>6, <1>7, <1>8 DEF StageCheck

LEMMA RefreshSound ==
    ASSUME OneCommand, IInv, NEW p \in Deleters, Refresh(p)
    PROVE  IInv'
<1>1. TInv'
  BY RefreshTypes DEF IInv
<1>2. /\ proc[p].pc = "refresh" /\ Goto(p, "finalize")
      /\ UNCHANGED <<source, staged, manifest, receipts, created, faults>>
  BY DEF Refresh, disk, world
<1>3. proc[p].id \in Pending
  BY <1>2, AtSound
<1> QED BY <1>1, <1>2, <1>3, GotoSound DEF Places

LEMMA FaultSound ==
    ASSUME OneCommand, IInv, NEW p \in Deleters, Fault(p)
    PROVE  IInv'
<1>1. TInv'
  BY FaultTypes DEF IInv
<1>2. /\ proc[p].pc \in {"move", "note", "refresh"} /\ Fail(p) /\ faults' = faults + 1
      /\ UNCHANGED <<source, staged, manifest, receipts, created>>
  BY DEF Fault, disk, world
<1>3. proc[p].id \in Pending
  BY <1>2, AtSound
<1>4. faults' # 0
  BY <1>2, DeletionAssumption DEF IInv, TInv, TypeOK
<1>5. Goto(p, "rollback")
  BY <1>2 DEF Fail, Goto
<1> QED BY <1>1, <1>2, <1>3, <1>4, <1>5, GotoSound DEF Places

LEMMA CrashSound ==
    ASSUME OneCommand, IInv, NEW p \in Deleters, Crash(p)
    PROVE  IInv'
<1>1. TInv'
  BY CrashTypes DEF IInv
<1> QED BY <1>1, StopSound DEF Crash, disk, world

LEMMA RollbackOpenSound ==
    ASSUME OneCommand, IInv, NEW p \in Deleters, RollbackOpen(p)
    PROVE  IInv'
<1> DEFINE m == manifest[proc[p].id]
<1>1. TInv'
  BY RollbackOpenTypes DEF IInv
<1>2. /\ proc[p].pc = "rollback"
      /\ UNCHANGED <<source, staged, manifest, receipts, created, faults>>
  BY DEF RollbackOpen, disk, world
<1>3. /\ proc[p] \in Command /\ proc[p].id \in Pending
      /\ TransactionSound(proc[p].id) /\ m.state \notin {"none", "committed"}
  BY <1>2, AtSound
<1>4. proc' = [proc EXCEPT ![p].pc = "undo", ![p].work = m,
                           ![p].pos = Len(Targets), ![p].ok = TRUE]
  BY <1>3 DEF RollbackOpen
<1>5. Planned(m)
  BY <1>3 DEF TransactionSound, Planned
<1> HIDE DEF m
<1> DEFINE n == Len(Targets)
<1>6. n \in Nat
  BY Plans
<1> HIDE DEF n
<1>7. proc'[p] = [proc[p] EXCEPT !.pc = "undo", !.work = m, !.pos = n, !.ok = TRUE]
  BY <1>4, Typed DEF IInv, TInv, n
<1>8. /\ proc'[p].pc = "undo" /\ proc'[p].work = m /\ proc'[p].id = proc[p].id
      /\ proc'[p].pos = n
  BY <1>3, <1>7 DEF Command
<1>9. (n + 1)..n = {}
  BY <1>6
<1>10. CommandSound(p)'
  BY <1>2, <1>3, <1>5, <1>8, <1>9, DiskKept DEF CommandSound, n
<1>11. ~(faults' = 0 /\ LatestReceipted)
  BY <1>2 DEF IInv, Unbroken, Doubtful
<1> QED BY <1>1, <1>2, <1>10, <1>11, AsideSound

-----------------------------------------------------------------------------
(* The steps that write the disk.                                          *)

\* The history of the chains and the receipts are left.
LEMMA HistoryKept ==
    ASSUME created' = created
    PROVE  /\ \A u : Latest(u)' <=> Latest(u)
           /\ \A m : Planned(m)' <=> Planned(m)
           /\ receipts' = receipts => /\ LatestReceipted' <=> LatestReceipted
                                      /\ \A u : Receipted(u)' <=> Receipted(u)
BY DEF Latest, Planned, AllLatest, LatestReceipted, ChainsSoFar, Receipted

LEMMA WriteManifestSound ==
    ASSUME OneCommand, IInv, NEW p \in Deleters, WriteManifest(p)
    PROVE  IInv'
<1> DEFINE w == proc[p].work
<1>1. TInv' /\ TInv
  BY WriteManifestTypes DEF IInv
<1>2. /\ proc[p].pc = "write"
      /\ UNCHANGED <<source, staged, receipts, created, faults>>
  BY DEF WriteManifest, world
<1>3. PICK d \in Ids :
          /\ manifest[d] = NoManifest /\ ~HasReceipt(d)
          /\ manifest' = [manifest EXCEPT ![d] = w]
          /\ proc' = [proc EXCEPT ![p].pc = "open", ![p].id = d]
  BY DEF WriteManifest
<1>4. Pending = {} /\ Exists(Chain) /\ Planned(w) /\ w.state = "reserved"
  BY <1>2, AtSound DEF CommandSound
<1>5. /\ manifest'[d] = w /\ \A e \in Ids \ {d} : manifest'[e] = manifest[e]
  BY <1>1, <1>3 DEF TInv, TypeOK
<1>6. Pending' = {d}
  BY <1>4, <1>5 DEF Pending
<1>7. proc'[p].pc = "open" /\ proc'[p].id = d
  <2>1. proc'[p] = [proc[p] EXCEPT !.pc = "open", !.id = d]
    BY <1>1, <1>3, Typed DEF TInv
  <2> QED BY <2>1, AtSound DEF Command
<1>8. ~(faults = 0 /\ LatestReceipted)
  BY <1>2 DEF IInv, Unbroken, Doubtful
<1>9. StoreSound'
  <2>1. StoreSound /\ Chain' = Chain
    BY <1>2 DEF IInv, Chain
  <2> QED BY <1>2, <1>6, <2>1, HistoryKept DEF StoreSound, AllLatest
<1>10. TransactionSound(d)'
  <2>1. \A t \in Target : staged[d][t] = {}
    BY <1>3 DEF IInv, TransactionSound, NoManifest
  <2>2. \A i \in 1..Len(receipts) : receipts[i].id # d
    BY <1>3 DEF HasReceipt
  <2> QED BY <1>2, <1>4, <1>5, <1>6, <2>1, <2>2, HistoryKept
          DEF TransactionSound, Planned, AllLatest
<1>11. ASSUME NEW e \in Ids \ {d} PROVE TransactionSound(e)'
  <2>1. TransactionSound(e)
    BY DEF IInv
  <2> QED BY <1>2, <1>5, <1>6, <2>1, HistoryKept DEF TransactionSound
<1>12. LostOnlyWithReceipt'
  BY <1>2 DEF IInv, LostOnlyWithReceipt
<1>13. Unbroken'
  BY <1>2, <1>8, HistoryKept DEF Unbroken
<1>14. CommandSound(p)'
  BY <1>6, <1>7 DEF CommandSound
<1> QED BY <1>1, <1>9, <1>10, <1>11, <1>12, <1>13, <1>14 DEF IInv, OneCommand

LEMMA StageMoveSound ==
    ASSUME OneCommand, IInv, NEW p \in Deleters, StageMove(p)
    PROVE  IInv'
<1>1. TInv' /\ TInv
  BY StageMoveTypes DEF IInv
<1>2. /\ proc[p].pc = "move"
      /\ UNCHANGED <<manifest, receipts, created, faults>>
  BY DEF StageMove, world
<1>3. PICK t \in Target, d \in Ids : t = At(p) /\ d = proc[p].id
  BY <1>1, <1>2, AtSound, AtTarget DEF Placed
<1>4. /\ proc[p] \in Command /\ d \in Pending /\ Pending = {d}
      /\ TransactionSound(d) /\ Planned(proc[p].work)
      /\ manifest[d].state \notin {"none", "committed"}
  BY <1>2, <1>3, AtSound, PendingId DEF CommandSound
<1>5. ~(faults = 0 /\ LatestReceipted)
  BY <1>2 DEF IInv, Unbroken, Doubtful
<1>6. CASE Fail(p) /\ UNCHANGED <<source, staged>>
  <2>1. Goto(p, "rollback")
    BY <1>6 DEF Fail, Goto
  <2> QED BY <1>1, <1>2, <1>4, <1>3, <1>5, <1>6, <2>1, GotoSound DEF Places
<1>7. CASE /\ ~Exists(staged[d][t])
           /\ source' = [source EXCEPT ![t] = {}]
           /\ staged' = [staged EXCEPT ![d][t] = source[t]]
           /\ Goto(p, "note")
  <2>1. /\ source'[t] = {} /\ staged'[d][t] = source[t] /\ staged[d][t] = {}
        /\ \A r \in Target \ {t} : source'[r] = source[r] /\ staged'[d][r] = staged[d][r]
        /\ \A e \in Ids \ {d} : staged'[e] = staged[e]
    BY <1>1, <1>7 DEF TInv, TypeOK, Exists
  <2>2. Pending' = {d}
    BY <1>2, <1>4 DEF Pending
  <2>3. \A r \in Target : AllLatest(source[r]) /\ AllLatest(staged[d][r])
    BY <1>4 DEF IInv, StoreSound, TransactionSound
  <2>4. StoreSound'
    <3>1. \A r \in Target : AllLatest(source[r])'
      BY <1>2, <2>1, <2>3, HistoryKept DEF AllLatest
    <3> QED BY <1>2, <2>2, <3>1 DEF StoreSound, IInv
  <2>5. TransactionSound(d)'
    <3>1. \A r \in Target : AllLatest(staged[d][r])'
      BY <1>2, <1>3, <2>1, <2>3, HistoryKept DEF AllLatest
    <3> QED BY <1>2, <1>4, <2>2, <3>1, HistoryKept DEF TransactionSound, AllLatest
  <2>6. ASSUME NEW e \in Ids \ {d} PROVE TransactionSound(e)'
    <3>1. TransactionSound(e)
      BY DEF IInv
    <3> QED BY <1>2, <2>1, <2>2, <3>1, HistoryKept DEF TransactionSound
  <2>7. LostOnlyWithReceipt'
    <3> SUFFICES ASSUME NEW u \in created, NEW r \in Target, u \notin source'[r],
                        ~\E i \in 1..Len(receipts) :
                            \E v \in receipts[i].units : v.chain = u.chain
                 PROVE  \E e \in Ids : u \in staged'[e][r]
      BY <1>2 DEF LostOnlyWithReceipt
    <3>1. u \in source[r] \/ \E e \in Ids : u \in staged[e][r]
      BY DEF IInv, LostOnlyWithReceipt
    <3>2. CASE r = t
      BY <1>4, <2>1, <3>1, <3>2
    <3>3. CASE r # t
      BY <1>4, <2>1, <3>1, <3>3
    <3> QED BY <3>2, <3>3
  <2>8. Unbroken'
    BY <1>2, <1>5, HistoryKept DEF Unbroken
  <2>9. CommandSound(p)'
    <3>1. proc'[p] = [proc[p] EXCEPT !.pc = "note"]
      BY <1>1, <1>7, Typed DEF TInv, Goto
    <3>2. proc'[p].pc = "note" /\ proc'[p].id = d /\ proc'[p].work = proc[p].work
      BY <1>4, <1>3, <3>1 DEF Command
    <3> QED BY <1>2, <1>4, <2>2, <3>2, HistoryKept DEF CommandSound
  <2> QED BY <1>1, <2>4, <2>5, <2>6, <2>7, <2>8, <2>9 DEF IInv, OneCommand
<1> QED BY <1>3, <1>6, <1>7 DEF StageMove

\* A command saves its plan under a transaction that stays pending.
LEMMA SaveSound ==
    ASSUME IInv, NEW p \in Deleters, proc[p].id \in Pending, Planned(proc[p].work),
           NEW state \in {"staging", "staged", "rollback_required"}, Save(p, state),
           UNCHANGED <<source, staged, receipts, created, faults>>
    PROVE  /\ StoreSound' /\ (\A d \in Ids : TransactionSound(d)') /\ LostOnlyWithReceipt'
           /\ Pending' = Pending
           /\ ~(faults = 0 /\ LatestReceipted) => Unbroken'
           /\ manifest'[proc[p].id].state = state
<1> DEFINE m == [proc[p].work EXCEPT !.state = state]
<1>0. PICK d \in Ids : d = proc[p].id
  BY PendingId
<1>1. /\ Pending = {d} /\ TransactionSound(d) /\ proc[p].work \in Manifest
      /\ manifest \in [Ids -> Manifest]
  BY <1>0, PendingId, HasCommand DEF IInv, Command, TInv, TypeOK
<1>2. m.state = state /\ m.units = proc[p].work.units /\ m.targets = proc[p].work.targets
  BY <1>1 DEF Manifest
<1>3. manifest' = [manifest EXCEPT ![d] = m]
  BY <1>0 DEF Save
<1> HIDE DEF m
<1>4. manifest'[d] = m /\ \A e \in Ids \ {d} : manifest'[e] = manifest[e]
  BY <1>1, <1>3
<1>5. Pending' = {d}
  BY <1>1, <1>2, <1>4 DEF Pending
<1>6. StoreSound'
  BY <1>5, HistoryKept DEF IInv, StoreSound, AllLatest
<1>7. TransactionSound(d)'
  BY <1>1, <1>2, <1>4, <1>5, HistoryKept DEF TransactionSound, Planned, AllLatest
<1>8. ASSUME NEW e \in Ids \ {d} PROVE TransactionSound(e)'
  <2>1. TransactionSound(e)
    BY DEF IInv
  <2> QED BY <1>4, <1>5, <2>1, HistoryKept DEF TransactionSound
<1>9. LostOnlyWithReceipt'
  BY DEF IInv, LostOnlyWithReceipt
<1>10. ~(faults = 0 /\ LatestReceipted) => Unbroken'
  BY HistoryKept DEF Unbroken
<1> QED BY <1>0, <1>1, <1>2, <1>4, <1>5, <1>6, <1>7, <1>8, <1>9, <1>10

LEMMA StageNoteSound ==
    ASSUME OneCommand, IInv, NEW p \in Deleters, StageNote(p)
    PROVE  IInv'
<1>1. TInv' /\ TInv
  BY StageNoteTypes DEF IInv
<1>2. /\ proc[p].pc = "note" /\ Save(p, "staging") /\ Advance(p)
      /\ UNCHANGED <<source, staged, receipts, created, faults>>
  BY DEF StageNote, world
<1>3. proc[p] \in Command /\ proc[p].id \in Pending /\ Planned(proc[p].work)
  BY <1>2, AtSound DEF CommandSound
<1>4. ~(faults = 0 /\ LatestReceipted)
  BY <1>2 DEF IInv, Unbroken, Doubtful
<1>5. /\ StoreSound' /\ (\A d \in Ids : TransactionSound(d)') /\ LostOnlyWithReceipt'
      /\ Pending' = Pending /\ Unbroken'
  BY <1>2, <1>3, <1>4, SaveSound
<1>6. proc'[p] = [proc[p] EXCEPT !.pos = @ + 1, !.pc = "stage"]
  BY <1>1, <1>2, Typed DEF Advance, TInv
<1>7. proc'[p].pc = "stage" /\ proc'[p].id = proc[p].id /\ proc'[p].work = proc[p].work
  BY <1>3, <1>6 DEF Command
<1>8. CommandSound(p)'
  BY <1>2, <1>3, <1>5, <1>7, HistoryKept DEF CommandSound
<1> QED BY <1>1, <1>5, <1>8 DEF IInv, OneCommand

LEMMA StageEndSound ==
    ASSUME OneCommand, IInv, NEW p \in Deleters, StageEnd(p)
    PROVE  IInv'
<1>1. TInv' /\ TInv
  BY StageEndTypes DEF IInv
<1>2. /\ proc[p].pc = "stage" /\ Save(p, "staged") /\ Goto(p, "refresh")
      /\ UNCHANGED <<source, staged, receipts, created, faults>>
  BY DEF StageEnd, world
<1>3. proc[p] \in Command /\ proc[p].id \in Pending /\ Planned(proc[p].work)
  BY <1>2, AtSound DEF CommandSound
<1>4. /\ StoreSound' /\ (\A d \in Ids : TransactionSound(d)') /\ LostOnlyWithReceipt'
      /\ Pending' = Pending
  BY <1>2, <1>3, SaveSound
<1>5. proc'[p] = [proc[p] EXCEPT !.pc = "refresh"]
  BY <1>1, <1>2, Typed DEF Goto, TInv
<1>6. proc'[p].pc = "refresh" /\ proc'[p].id = proc[p].id
  BY <1>3, <1>5 DEF Command
<1>7. CommandSound(p)'
  BY <1>3, <1>4, <1>6 DEF CommandSound
<1>8. Unbroken'
  <2>1. \A q \in Deleters : proc'[q].pc \notin Doubtful
    BY <1>6 DEF OneCommand, Doubtful
  <2> QED BY <1>2, <1>4, <2>1, HistoryKept DEF IInv, Unbroken, Gone
<1> QED BY <1>1, <1>4, <1>7, <1>8 DEF IInv, OneCommand

LEMMA RollbackTargetSound ==
    ASSUME OneCommand, IInv, NEW p \in Deleters, RollbackTarget(p)
    PROVE  IInv'
<1>1. TInv' /\ TInv
  BY RollbackTargetTypes DEF IInv
<1>2. /\ proc[p].pc = "undo" /\ proc[p].pos > 0
      /\ UNCHANGED <<manifest, receipts, created>>
      /\ faults' \in {faults, faults + 1}
  BY DEF RollbackTarget, world
<1>3. PICK t \in Target, d \in Ids, n \in 1..Len(Targets) :
          t = At(p) /\ d = proc[p].id /\ n = proc[p].pos
  <2>1. proc[p].pos \in 1..Len(Targets)
    BY <1>2, AtSound, Plans DEF Placed, Command
  <2> QED BY <1>1, <1>2, <2>1, AtSound, AtTarget
<1>4. /\ proc[p] \in Command /\ d \in Pending /\ Pending = {d}
      /\ TransactionSound(d) /\ Planned(proc[p].work)
      /\ manifest[d].state \notin {"none", "committed"}
      /\ proc[p].ok => \A i \in (n + 1)..Len(Targets) : Undone(p, i)
  BY <1>2, <1>3, AtSound, PendingId DEF CommandSound
<1>5. ~(faults = 0 /\ LatestReceipted)
  BY <1>2 DEF IInv, Unbroken, Doubtful
<1>6. PICK ok \in BOOLEAN :
          /\ proc' = [proc EXCEPT ![p].pos = @ - 1, ![p].ok = @ /\ ok]
          /\ \/ /\ UNCHANGED <<source, staged>>
                /\ ok => Exists(source[t]) /\ ~Exists(staged[d][t])
             \/ /\ Exists(staged[d][t]) /\ ~Exists(source[t])
                /\ source' = [source EXCEPT ![t] = staged[d][t]]
                /\ staged' = [staged EXCEPT ![d][t] = {}]
  <2>1. Exists(source[t]) \in BOOLEAN
    BY DEF Exists
  <2>2. InPlan(p)
    BY <1>3, <1>4 DEF InPlan, Planned
  <2> QED BY <1>3, <2>1, <2>2 DEF RollbackTarget
<1>7. /\ proc'[p].pc = "undo" /\ proc'[p].id = d /\ proc'[p].work = proc[p].work
      /\ proc'[p].pos = n - 1
      /\ proc'[p].ok => proc[p].ok /\ ok
  <2> DEFINE first == [proc EXCEPT ![p].pos = @ - 1]
             b == [proc[p] EXCEPT !.pos = @ - 1]
             c == [b EXCEPT !.ok = @ /\ ok]
  <2>1. proc' = [first EXCEPT ![p].ok = @ /\ ok]
    BY <1>6
  <2>2. first[p] = b /\ b \in Command
    <3>1. first[p] = b
      BY <1>1, Typed DEF TInv
    <3>2. n - 1 \in 0..(Len(Targets) + 1)
      BY <1>3, Plans
    <3>3. b \in Command
      BY <1>3, <1>4, <3>2 DEF Command
    <3> QED BY <3>1, <3>3
  <2>3. /\ b.pc = "undo" /\ b.id = d /\ b.work = proc[p].work /\ b.pos = n - 1
        /\ b.ok = proc[p].ok
    BY <1>2, <1>3, <1>4 DEF Command
  <2>6. first \in [Deleters -> Command]
    BY <1>1, <2>2, Typed DEF TInv
  <2> HIDE DEF first, b
  <2>4. proc'[p] = c
    BY <2>1, <2>2, <2>6
  <2>5. /\ c.pc = "undo" /\ c.id = d /\ c.work = proc[p].work /\ c.pos = n - 1
        /\ c.ok = (b.ok /\ ok)
    BY <2>2, <2>3 DEF Command
  <2> HIDE DEF c
  <2> QED BY <2>3, <2>4, <2>5
<1>8. /\ \A r \in Target \ {t} : source'[r] = source[r] /\ staged'[d][r] = staged[d][r]
      /\ \A e \in Ids \ {d} : staged'[e] = staged[e]
      /\ \/ source'[t] = source[t] /\ staged'[d][t] = staged[d][t]
         \/ source[t] = {} /\ source'[t] = staged[d][t] /\ staged'[d][t] = {}
      /\ ok => Exists(source'[t]) /\ ~Exists(staged'[d][t])
  <2>1. CASE /\ UNCHANGED <<source, staged>>
             /\ ok => Exists(source[t]) /\ ~Exists(staged[d][t])
    BY <2>1
  <2>2. CASE /\ Exists(staged[d][t]) /\ ~Exists(source[t])
             /\ source' = [source EXCEPT ![t] = staged[d][t]]
             /\ staged' = [staged EXCEPT ![d][t] = {}]
    BY <1>1, <2>2 DEF TInv, TypeOK, Exists
  <2> QED BY <1>6, <2>1, <2>2
<1>9. Pending' = {d}
  BY <1>2, <1>4 DEF Pending
<1>10. \A r \in Target : AllLatest(source[r]) /\ AllLatest(staged[d][r])
  BY <1>4 DEF IInv, StoreSound, TransactionSound
<1>11. \A r \in Target : AllLatest(source'[r]) /\ AllLatest(staged'[d][r])
  BY <1>8, <1>10 DEF AllLatest
<1>12. StoreSound'
  <2>1. \A r \in Target : AllLatest(source[r])'
    BY <1>2, <1>11, HistoryKept DEF AllLatest
  <2> QED BY <1>2, <1>9, <2>1 DEF StoreSound, IInv
<1>13. TransactionSound(d)'
  <2>1. \A r \in Target : AllLatest(staged[d][r])'
    BY <1>2, <1>11, HistoryKept DEF AllLatest
  <2> QED BY <1>2, <1>4, <1>9, <2>1, HistoryKept DEF TransactionSound, AllLatest
<1>14. ASSUME NEW e \in Ids \ {d} PROVE TransactionSound(e)'
  <2>1. TransactionSound(e)
    BY DEF IInv
  <2> QED BY <1>2, <1>8, <1>9, <2>1, HistoryKept DEF TransactionSound
<1>15. LostOnlyWithReceipt'
  <2> SUFFICES ASSUME NEW u \in created, NEW r \in Target,
                      ~\E i \in 1..Len(receipts) :
                          \E v \in receipts[i].units : v.chain = u.chain
               PROVE  u \in source'[r] \/ \E e \in Ids : u \in staged'[e][r]
    BY <1>2 DEF LostOnlyWithReceipt
  <2>1. u \in source[r] \/ \E e \in Ids : u \in staged[e][r]
    BY DEF IInv, LostOnlyWithReceipt
  <2>2. CASE r = t
    BY <1>8, <2>1, <2>2
  <2>3. CASE r # t
    BY <1>8, <2>1, <2>3
  <2> QED BY <2>2, <2>3
<1>16. Unbroken'
  <2>1. faults' = 0 => faults = 0
    BY <1>1, <1>2, DeletionAssumption DEF TInv, TypeOK
  <2> QED BY <1>2, <1>5, <2>1, HistoryKept DEF Unbroken
<1>17. CommandSound(p)'
  <2>1. ASSUME proc'[p].ok, NEW i \in n..Len(Targets) PROVE Undone(p, i)'
    <3>1. Targets[i] \in Target /\ t = Targets[n] /\ i \in 1..Len(Targets)
      BY <1>3, Plans DEF At
    <3>2. CASE i = n
      BY <1>7, <1>8, <2>1, <3>1, <3>2 DEF Undone, Exists
    <3>3. CASE i # n
      <4>1. Undone(p, i) /\ Targets[i] # t
        BY <1>4, <1>7, <2>1, <3>1, <3>3, Plans, DeletionAssumption
      <4> QED BY <1>3, <1>7, <1>8, <3>1, <4>1 DEF Undone, Exists
    <3> QED BY <3>2, <3>3
  <2>2. (n - 1) + 1 = n
    OBVIOUS
  <2> QED BY <1>2, <1>4, <1>7, <1>9, <2>1, <2>2, HistoryKept DEF CommandSound
<1> QED BY <1>1, <1>12, <1>13, <1>14, <1>15, <1>16, <1>17 DEF IInv, OneCommand

LEMMA RollbackEndSound ==
    ASSUME OneCommand, IInv, NEW p \in Deleters, RollbackEnd(p)
    PROVE  IInv'
<1>1. TInv' /\ TInv
  BY RollbackEndTypes DEF IInv
<1>2. /\ proc[p].pc = "undo" /\ proc[p].pos = 0 /\ Stop(p)
      /\ UNCHANGED <<source, receipts, created, faults>>
  BY DEF RollbackEnd, world
<1>3. PICK d \in Ids : d = proc[p].id
  BY <1>2, AtSound
<1>4. /\ proc[p] \in Command /\ d \in Pending /\ Pending = {d}
      /\ Planned(proc[p].work)
      /\ proc[p].ok => \A i \in (0 + 1)..Len(Targets) : Undone(p, i)
  BY <1>2, <1>3, AtSound, PendingId DEF CommandSound
<1>5. ~(faults = 0 /\ LatestReceipted)
  BY <1>2 DEF IInv, Unbroken, Doubtful
<1>6. CommandSound(p)'
  <2>1. proc'[p] = Idle /\ Idle.pc = "idle"
    BY <1>1, <1>2, Fresh, Stops
  <2> QED BY <2>1 DEF CommandSound
<1>7. CASE Save(p, "rollback_required") /\ UNCHANGED staged
  <2>1. /\ StoreSound' /\ (\A e \in Ids : TransactionSound(e)') /\ LostOnlyWithReceipt'
        /\ Unbroken'
    BY <1>2, <1>3, <1>4, <1>5, <1>7, SaveSound
  <2> QED BY <1>1, <1>6, <2>1 DEF IInv, OneCommand
<1>8. CASE RolledBack(p) /\ RemoveTransaction(d)
  <2>1. \A t \in Target : Exists(source[t]) /\ staged[d][t] = {}
    <3> SUFFICES ASSUME NEW t \in Target PROVE Exists(source[t]) /\ staged[d][t] = {}
      OBVIOUS
    <3>1. PICK i \in 1..Len(Targets) : t = Targets[i]
      BY Plans
    <3>2. Undone(p, i)
      BY <1>4, <1>8, <3>1 DEF RolledBack
    <3> QED BY <1>3, <3>1, <3>2 DEF Undone, Exists
  <2>2. staged' = staged
    <3>1. staged[d][Records] = {} /\ staged \in [Ids -> [Target -> SUBSET Unit]]
      BY <1>1, <2>1, Plans DEF TInv, TypeOK
    <3>2. staged[d] \in [Target -> SUBSET Unit]
      BY <3>1
    <3>3. [staged[d] EXCEPT ![Records] = {}] = staged[d]
      BY <3>1, <3>2
    <3>4. staged' = [staged EXCEPT ![d] = [staged[d] EXCEPT ![Records] = {}]]
      BY <1>8 DEF RemoveTransaction
    <3>5. staged' = [staged EXCEPT ![d] = staged[d]]
      BY <3>3, <3>4
    <3> QED BY <3>1, <3>5
  <2>3. /\ manifest'[d] = NoManifest /\ NoManifest.state = "none"
        /\ \A e \in Ids \ {d} : manifest'[e] = manifest[e]
    BY <1>1, <1>8 DEF RemoveTransaction, TInv, TypeOK, NoManifest
  <2>4. Pending' = {}
    BY <1>4, <2>3 DEF Pending
  <2>5. StoreSound'
    <3>1. StoreSound /\ Chain' = Chain
      BY <1>2 DEF IInv, Chain
    <3>2. \A t \in Target : Exists(source[t]) <=> Exists(Chain)
      BY <2>1, Plans DEF Chain
    <3> QED BY <1>2, <3>1, <3>2, HistoryKept DEF StoreSound, AllLatest
  <2>6. TransactionSound(d)'
    BY <2>1, <2>2, <2>3, <2>4 DEF TransactionSound
  <2>7. ASSUME NEW e \in Ids \ {d} PROVE TransactionSound(e)'
    <3>1. TransactionSound(e)
      BY DEF IInv
    <3> QED BY <1>2, <2>2, <2>3, <2>4, <3>1, HistoryKept DEF TransactionSound
  <2>8. LostOnlyWithReceipt'
    BY <1>2, <2>2 DEF IInv, LostOnlyWithReceipt
  <2>9. Unbroken'
    BY <1>2, <1>5, HistoryKept DEF Unbroken
  <2> QED BY <1>1, <1>6, <2>5, <2>6, <2>7, <2>8, <2>9 DEF IInv, OneCommand
<1> QED BY <1>3, <1>7, <1>8 DEF RollbackEnd

LEMMA FinalizeSound ==
    ASSUME OneCommand, IInv, NEW p \in Deleters, Finalize(p)
    PROVE  IInv'
<1>1. TInv' /\ TInv
  BY FinalizeTypes DEF IInv
<1>2. /\ proc[p].pc = "finalize"
      /\ UNCHANGED <<source, staged, manifest, created, faults>>
  BY DEF Finalize, world
<1>3. PICK d \in Ids : d = proc[p].id
  BY <1>2, AtSound
<1>4. /\ proc[p] \in Command /\ d \in Pending /\ Pending = {d} /\ TransactionSound(d)
      /\ manifest[d].state \notin {"none", "committed"}
  BY <1>2, <1>3, AtSound, PendingId DEF CommandSound
<1>5. CASE Stop(p) /\ UNCHANGED receipts
  BY <1>1, <1>2, <1>5, StopSound
<1>6. CASE /\ Moved(d)
           /\ receipts' = IF HasReceipt(d) THEN receipts
                          ELSE Append(receipts, [id |-> d, units |-> manifest[d].units])
           /\ proc' = [proc EXCEPT ![p].pc = "commit", ![p].work = manifest[d]]
  <2>1. PICK m : m = manifest[d]
    OBVIOUS
  <2>2. m.units # {} /\ AllLatest(m.units) /\ Planned(m)
    BY <1>4, <2>1 DEF TransactionSound, Planned
  <2>3. Gone /\ \A t \in Target : Exists(staged[d][t])
    BY <1>4, <1>6 DEF Moved, TransactionSound, Gone
  <2>4. proc'[p].pc = "commit" /\ proc'[p].work = m /\ proc'[p].id = d
    <3>1. proc'[p] = [proc[p] EXCEPT !.pc = "commit", !.work = m]
      BY <1>1, <1>6, <2>1, Typed DEF TInv
    <3> QED BY <1>3, <1>4, <3>1 DEF Command
  <2>5. Pending' = {d} /\ manifest' = manifest
    BY <1>2, <1>4 DEF Pending
  \* The receipts of before, and one for this transaction.
  <2>6. /\ Len(receipts) \in Nat /\ Len(receipts') \in Nat /\ Len(receipts) <= Len(receipts')
        /\ \A i \in 1..Len(receipts) : receipts'[i] = receipts[i]
        /\ \A i \in 1..Len(receipts') :
              \/ i \in 1..Len(receipts)
              \/ receipts'[i].id = d /\ receipts'[i].units = m.units
        /\ \E i \in 1..Len(receipts') : receipts'[i].id = d
    <3> DEFINE R == [id : Ids, units : SUBSET Unit]
    <3>1. receipts \in Seq(R)
      BY <1>1 DEF TInv, TypeOK
    <3> HIDE DEF R
    <3>2. CASE HasReceipt(d)
      BY <1>6, <3>1, <3>2 DEF HasReceipt
    <3>3. CASE ~HasReceipt(d)
      <4>1. PICK r : r = [id |-> d, units |-> m.units]
        OBVIOUS
      <4>2. receipts' = Append(receipts, r)
        BY <1>6, <2>1, <3>3, <4>1
      <4>3. /\ Len(receipts) \in Nat /\ Len(receipts') = Len(receipts) + 1
            /\ \A i \in 1..Len(receipts) : receipts'[i] = receipts[i]
            /\ receipts'[Len(receipts) + 1] = r
        BY <3>1, <4>2
      <4>4. Len(receipts) + 1 \in 1..Len(receipts')
        BY <4>3
      <4> QED BY <4>1, <4>3, <4>4
    <3> QED BY <3>2, <3>3
  <2>7. \A i \in 1..Len(receipts') :
            receipts'[i].id = d => \E v \in receipts'[i].units : Latest(v)
    BY <1>4, <2>2, <2>6 DEF TransactionSound, AllLatest
  <2>8. LatestReceipted'
    BY <1>2, <2>6, <2>7, HistoryKept DEF LatestReceipted
  <2>9. \A u : Receipted(u) => Receipted(u)'
    BY <2>6 DEF Receipted
  <2>10. StoreSound'
    <3>1. \A i \in 1..Len(receipts') : receipts'[i].units \subseteq created
      BY <2>2, <2>6 DEF IInv, StoreSound, AllLatest, Latest
    <3> QED BY <1>2, <2>5, <3>1, HistoryKept DEF IInv, StoreSound, AllLatest
  <2>11. TransactionSound(d)'
    BY <1>2, <1>4, <2>5, <2>7, HistoryKept DEF TransactionSound, AllLatest
  <2>12. ASSUME NEW e \in Ids \ {d} PROVE TransactionSound(e)'
    <3>1. TransactionSound(e)
      BY DEF IInv
    <3> QED BY <1>2, <2>5, <2>9, <3>1 DEF TransactionSound
  <2>13. LostOnlyWithReceipt'
    <3> SUFFICES ASSUME NEW u \in created, NEW t \in Target
                 PROVE  \/ u \in source[t]
                        \/ \E e \in Ids : u \in staged[e][t]
                        \/ Receipted(u)'
      BY <1>2 DEF LostOnlyWithReceipt, Receipted
    <3> QED BY <2>9 DEF IInv, LostOnlyWithReceipt, Receipted
  <2>14. Unbroken'
    BY <1>2, <2>3, <2>4, <2>5 DEF Unbroken, Gone, Exists, OneCommand, Doubtful
  <2>15. CommandSound(p)'
    BY <1>2, <2>2, <2>3, <2>4, <2>5, <2>8, HistoryKept DEF CommandSound, Gone
  <2> QED BY <1>1, <2>10, <2>11, <2>12, <2>13, <2>14, <2>15 DEF IInv, OneCommand
<1> QED BY <1>3, <1>4, <1>5, <1>6 DEF Finalize

LEMMA CommitSound ==
    ASSUME OneCommand, IInv, NEW p \in Deleters, Commit(p)
    PROVE  IInv'
<1>1. TInv' /\ TInv
  BY CommitTypes DEF IInv
<1>2. /\ proc[p].pc = "commit" /\ Save(p, "committed") /\ Goto(p, "purge")
      /\ UNCHANGED <<source, staged, receipts, created, faults>>
  BY DEF Commit, world
<1>3. PICK d \in Ids : d = proc[p].id
  BY <1>2, AtSound
<1>4. /\ proc[p] \in Command /\ d \in Pending /\ Pending = {d} /\ TransactionSound(d)
      /\ Gone /\ LatestReceipted
  BY <1>2, <1>3, AtSound, PendingId DEF CommandSound
<1>5. /\ manifest'[d].state = "committed"
      /\ \A e \in Ids \ {d} : manifest'[e] = manifest[e]
  <2> DEFINE m == [proc[p].work EXCEPT !.state = "committed"]
  <2>1. m.state = "committed"
    BY <1>4 DEF Command, Manifest
  <2>2. manifest' = [manifest EXCEPT ![d] = m]
    BY <1>2, <1>3 DEF Save
  <2> HIDE DEF m
  <2> QED BY <1>1, <2>1, <2>2 DEF TInv, TypeOK
<1>6. Pending' = {}
  BY <1>4, <1>5 DEF Pending
<1>7. proc'[p].pc = "purge"
  BY <1>1, <1>2, <1>4, Typed DEF Goto, TInv, Command
<1>8. StoreSound'
  <2>1. StoreSound /\ Chain' = Chain
    BY <1>2 DEF IInv, Chain
  <2>2. \A t \in Target : Exists(source[t]) <=> Exists(Chain)
    BY <1>4, Plans DEF Gone, Chain
  <2> QED BY <1>2, <2>1, <2>2, HistoryKept DEF StoreSound, AllLatest
<1>9. TransactionSound(d)'
  <2>1. ASSUME NEW t \in Target, NEW u \in staged[d][t] PROVE Receipted(u)
    <3>1. Latest(u)
      BY <1>4, <2>1 DEF TransactionSound, AllLatest
    <3>2. PICK i \in 1..Len(receipts) : \E v \in receipts[i].units : Latest(v)
      BY <1>4 DEF LatestReceipted
    <3>3. PICK v \in receipts[i].units : Latest(v)
      BY <3>2
    <3>4. v.chain = u.chain
      BY <1>1, <3>1, <3>3, OneLatest
    <3> QED BY <3>2, <3>4 DEF Receipted
  <2> QED BY <1>2, <1>5, <1>6, <2>1, HistoryKept DEF TransactionSound
<1>10. ASSUME NEW e \in Ids \ {d} PROVE TransactionSound(e)'
  <2>1. TransactionSound(e)
    BY DEF IInv
  <2> QED BY <1>2, <1>5, <1>6, <2>1, HistoryKept DEF TransactionSound
<1>11. LostOnlyWithReceipt'
  BY <1>2 DEF IInv, LostOnlyWithReceipt
<1>12. Unbroken'
  BY <1>2, <1>4, <1>6, <1>7 DEF Unbroken, Gone, OneCommand, Doubtful
<1>13. CommandSound(p)'
  BY <1>7 DEF CommandSound
<1> QED BY <1>1, <1>8, <1>9, <1>10, <1>11, <1>12, <1>13 DEF IInv, OneCommand

LEMMA PurgeSound ==
    ASSUME OneCommand, IInv, NEW p \in Deleters, Purge(p)
    PROVE  IInv'
<1>1. TInv' /\ TInv
  BY PurgeTypes DEF IInv
<1>2. /\ proc[p].pc = "purge" /\ Stop(p)
      /\ UNCHANGED <<source, receipts, created>>
      /\ faults' \in {faults, faults + 1}
  BY DEF Purge, world
<1>3. PICK d \in Ids : d = proc[p].id
  BY <1>1, <1>2 DEF TInv, Placed
<1>4. CASE manifest[d].state # "committed" /\ UNCHANGED <<staged, manifest, faults>>
  BY <1>1, <1>2, <1>4, StopSound
<1>5. CASE /\ manifest[d].state = "committed"
           /\ \/ /\ staged' = [staged EXCEPT ![d] = [t \in Target |-> {}]]
                 /\ manifest' = [manifest EXCEPT ![d] = NoManifest]
              \/ /\ \E left \in SUBSET Target :
                       staged' = [staged EXCEPT ![d] =
                                     [t \in Target |-> IF t \in left THEN staged[d][t] ELSE {}]]
                 /\ UNCHANGED manifest
  <2>1. /\ \A t \in Target : staged'[d][t] \subseteq staged[d][t]
        /\ \A e \in Ids \ {d} : staged'[e] = staged[e] /\ manifest'[e] = manifest[e]
        /\ \/ manifest'[d].state = "none" /\ \A t \in Target : staged'[d][t] = {}
           \/ manifest'[d] = manifest[d]
    <3>1. NoManifest.state = "none"
      BY DEF NoManifest
    <3> QED BY <1>1, <1>5, <3>1 DEF TInv, TypeOK
  <2>2. Pending' = Pending /\ d \notin Pending
    BY <1>5, <2>1 DEF Pending
  <2>3. \A t \in Target : \A u \in staged[d][t] : Receipted(u)
    BY <1>5 DEF IInv, TransactionSound
  <2>4. StoreSound'
    <3>1. StoreSound /\ Chain' = Chain
      BY <1>2 DEF IInv, Chain
    <3> QED BY <1>2, <2>2, <3>1, HistoryKept DEF StoreSound, AllLatest
  <2>5. TransactionSound(d)'
    BY <1>2, <1>5, <2>1, <2>2, <2>3, HistoryKept DEF TransactionSound
  <2>6. ASSUME NEW e \in Ids \ {d} PROVE TransactionSound(e)'
    <3>1. TransactionSound(e)
      BY DEF IInv
    <3> QED BY <1>2, <2>1, <2>2, <3>1, HistoryKept DEF TransactionSound, AllLatest
  <2>7. LostOnlyWithReceipt'
    <3> SUFFICES ASSUME NEW u \in created, NEW t \in Target, ~Receipted(u)
                 PROVE  u \in source[t] \/ \E e \in Ids : u \in staged'[e][t]
      BY <1>2 DEF LostOnlyWithReceipt, Receipted
    <3>1. u \in source[t] \/ \E e \in Ids : u \in staged[e][t]
      BY DEF IInv, LostOnlyWithReceipt, Receipted
    <3> QED BY <2>1, <2>3, <3>1
  <2>8. proc'[p].pc = "idle"
    BY <1>1, <1>2, Fresh, Stops
  <2>9. Unbroken'
    <3> SUFFICES ASSUME faults' = 0, LatestReceipted
                 PROVE  /\ Gone
                        /\ \A e \in Pending, t \in Target : Exists(staged'[e][t])
                        /\ \A q \in Deleters : proc'[q].pc \notin Doubtful
      BY <1>2, <2>2, HistoryKept DEF Unbroken, Gone, Exists
    <3>1. faults = 0
      BY <1>1, <1>2, DeletionAssumption DEF TInv, TypeOK
    <3>2. Gone /\ \A e \in Pending, t \in Target : Exists(staged[e][t])
      BY <3>1 DEF IInv, Unbroken
    <3> QED BY <2>1, <2>2, <2>8, <3>2 DEF OneCommand, Doubtful, Pending
  <2>10. CommandSound(p)'
    BY <2>8 DEF CommandSound
  <2> QED BY <1>1, <2>4, <2>5, <2>6, <2>7, <2>9, <2>10 DEF IInv, OneCommand
<1> QED BY <1>3, <1>4, <1>5 DEF Purge

-----------------------------------------------------------------------------
(* The tasks of the chain.                                                 *)

\* A chain that is not gone has no receipt yet, and a code that is free has
\* nothing left of an earlier chain.
LEMMA PopulateSound ==
    ASSUME OneCommand, IInv, TInv', NEW u \in Unit, Populate(u),
           UNCHANGED <<staged, manifest, receipts, proc, crashes, faults>>,
           \/ CodeFree /\ ChainsSoFar = 1..(u.chain - 1)
           \/ \E v \in Chain : u.chain = v.chain
    PROVE  IInv'
<1>1. TInv /\ u.chain \in Nat
  BY DeletionAssumption DEF IInv, Unit
<1>2. /\ created' = created \cup {u}
      /\ \A t \in Target : source'[t] = source[t] \cup {u}
      /\ Pending' = Pending
  BY DEF Populate, Pending
<1>3. ChainsSoFar' = ChainsSoFar \cup {u.chain}
  BY <1>2 DEF ChainsSoFar
<1>4. \A c \in ChainsSoFar : c \in Nat
  BY <1>1, DeletionAssumption DEF ChainsSoFar, TInv, TypeOK, Unit
<1>5. \A t \in Target : Exists(source'[t]) /\ Exists(Chain')
  BY <1>2, Plans DEF Exists, Chain
<1>6. \A i \in 1..Len(receipts) : receipts[i].units \subseteq created
  BY DEF IInv, StoreSound
<1>7. /\ \A t \in Target : \A w \in source[t] : Latest(w) => Latest(w)'
      /\ Latest(u)'
      /\ \A d \in Pending : TransactionSound(d)'
      /\ ~(faults = 0 /\ LatestReceipted')
      /\ \A p \in Deleters : CommandSound(p)'
  <2>1. CASE CodeFree /\ ChainsSoFar = 1..(u.chain - 1)
    <3>1. Pending = {} /\ ~Exists(Chain)
      BY <2>1 DEF CodeFree
    <3>2. \A t \in Target : source[t] = {}
      BY <3>1 DEF IInv, StoreSound, Exists
    <3>3. Latest(u)'
      BY <1>1, <1>2, <1>3, <2>1 DEF Latest
    <3>4. ~LatestReceipted'
      <4>1. ASSUME NEW w \in created PROVE ~Latest(w)'
        <5>1. w.chain \in 1..(u.chain - 1)
          BY <2>1 DEF ChainsSoFar
        <5>2. u.chain \in ChainsSoFar' /\ ~(u.chain <= w.chain)
          BY <1>1, <1>3, <5>1
        <5> QED BY <5>2 DEF Latest
      <4> QED BY <1>6, <4>1 DEF LatestReceipted
    <3>5. ASSUME NEW p \in Deleters PROVE CommandSound(p)'
      <4>1. proc[p].pc \in {"idle", "purge"}
        BY <3>1 DEF IInv, CommandSound
      <4> QED BY <4>1 DEF CommandSound
    <3> QED BY <3>1, <3>2, <3>3, <3>4, <3>5
  <2>2. CASE \E v \in Chain : u.chain = v.chain
    <3>1. PICK v \in Chain : u.chain = v.chain
      BY <2>2
    <3>2. Latest(v) /\ v \in source[Records]
      BY Plans DEF IInv, StoreSound, AllLatest, Chain
    <3>3. ChainsSoFar' = ChainsSoFar
      BY <1>3, <3>1, <3>2 DEF Latest, ChainsSoFar
    <3>4. /\ \A w \in created : Latest(w)' <=> Latest(w)
          /\ \A w : Latest(w) => Latest(w)'
      BY <1>2, <3>3 DEF Latest
    <3>5. Latest(u)'
      BY <1>2, <3>1, <3>2, <3>3 DEF Latest
    <3>6. ~Gone
      BY <3>2, Plans DEF Gone, Exists
    <3>7. ~(faults = 0 /\ LatestReceipted')
      <4>1. LatestReceipted' => LatestReceipted
        BY <1>6, <3>4 DEF LatestReceipted
      <4> QED BY <3>6, <4>1 DEF IInv, Unbroken
    <3>8. ASSUME NEW d \in Pending PROVE TransactionSound(d)'
      <4>1. TransactionSound(d) /\ manifest[d].state \notin {"none", "committed"}
        BY PendingId
      <4> QED BY <1>2, <3>4, <4>1 DEF TransactionSound, AllLatest
    <3>9. ASSUME NEW p \in Deleters PROVE CommandSound(p)'
      <4>1. CommandSound(p) /\ proc' = proc /\ Placed(p) /\ proc[p] \in Command
        BY AtSound
      <4>2. \A m : Planned(m) => Planned(m)'
        BY <3>4 DEF Planned, AllLatest
      <4>3. Exists(Chain')
        BY <1>5, Plans
      <4>4. proc[p].pc # "commit"
        BY <3>6, <4>1 DEF CommandSound
      <4>5. ASSUME proc[p].pc = "undo", NEW i \in (proc[p].pos + 1)..Len(Targets), Undone(p, i)
            PROVE  Undone(p, i)'
        <5>1. i \in 1..Len(Targets)
          BY <4>1, <4>5, Plans DEF Command
        <5> QED BY <1>2, <4>1, <4>5, <5>1, Plans DEF Undone, Exists
      <4> QED BY <1>2, <4>1, <4>2, <4>3, <4>4, <4>5 DEF CommandSound
    <3> QED BY <3>4, <3>5, <3>7, <3>8, <3>9
  <2> QED BY <2>1, <2>2
<1>8. StoreSound'
  <2>1. \A t \in Target : AllLatest(source[t])'
    BY <1>2, <1>7 DEF IInv, StoreSound, AllLatest
  <2> QED BY <1>2, <1>5, <1>6, <2>1 DEF StoreSound
<1>9. \A d \in Ids : TransactionSound(d)'
  <2> SUFFICES ASSUME NEW d \in Ids, d \notin Pending PROVE TransactionSound(d)'
    BY <1>7
  <2>1. TransactionSound(d)
    BY DEF IInv
  <2>2. \A w : Receipted(w)' <=> Receipted(w)
    BY DEF Receipted
  <2> QED BY <1>2, <2>1, <2>2 DEF TransactionSound
<1>10. LostOnlyWithReceipt'
  BY <1>2 DEF IInv, LostOnlyWithReceipt
<1>11. Unbroken'
  BY <1>7 DEF Unbroken
<1> QED BY <1>7, <1>8, <1>9, <1>10, <1>11 DEF IInv

LEMMA WorldSound ==
    ASSUME OneCommand, IInv, WorldStep
    PROVE  IInv'
<1>1. TInv' /\ TInv
  BY WorldTypes DEF IInv
<1>2. UNCHANGED <<staged, manifest, receipts, proc, crashes, faults>>
  BY <1>1, Worlds
<1>3. CASE \E u \in Unit : /\ Populate(u)
                           /\ \/ CodeFree /\ ChainsSoFar = 1..(u.chain - 1)
                              \/ \E v \in Chain : u.chain = v.chain
  BY <1>1, <1>2, <1>3, PopulateSound
<1>4. CASE UNCHANGED <<source, created>>
  <2>1. /\ StoreSound' /\ LostOnlyWithReceipt' /\ \A d \in Ids : TransactionSound(d)'
    BY <1>2, <1>4, DiskKept DEF IInv
  <2>2. Unbroken'
    BY <1>2, <1>4, DiskKept DEF IInv, Unbroken
  <2>3. ASSUME NEW p \in Deleters PROVE CommandSound(p)'
    <3>1. CommandSound(p)
      BY DEF IInv
    <3> QED BY <1>2, <1>4, <3>1, DiskKept DEF CommandSound, Undone
  <2> QED BY <1>1, <2>1, <2>2, <2>3 DEF IInv
<1> QED BY <1>1, <1>3, <1>4, Worlds

-----------------------------------------------------------------------------
(* The theorems.                                                           *)

LEMMA NextSound ==
    ASSUME OneCommand, IInv, [Next]_vars
    PROVE  IInv'
<1>1. ASSUME NEW p \in Deleters, Plan(p) \/ Step(p) \/ Fault(p) \/ Crash(p)
      PROVE  IInv'
  BY <1>1, PlanSound, ReserveSound, WriteManifestSound, OpenSound, StageCheckSound,
     StageMoveSound, StageNoteSound, StageEndSound, RefreshSound, RollbackOpenSound,
     RollbackTargetSound, RollbackEndSound, FinalizeSound, CommitSound, PurgeSound,
     FaultSound, CrashSound
     DEF Step
<1>2. CASE WorldStep
  BY <1>2, WorldSound
<1>3. CASE UNCHANGED vars
  <2>1. UNCHANGED <<source, staged, manifest, receipts, created, proc, faults>>
    BY <1>3 DEF vars
  <2>2. TInv'
    BY <1>3, NextTypes DEF IInv
  <2>3. /\ StoreSound' /\ LostOnlyWithReceipt' /\ \A d \in Ids : TransactionSound(d)'
    BY <2>1, DiskKept DEF IInv
  <2>4. Unbroken'
    BY <2>1, DiskKept DEF IInv, Unbroken
  <2>5. ASSUME NEW p \in Deleters PROVE CommandSound(p)'
    <3>1. CommandSound(p)
      BY DEF IInv
    <3> QED BY <2>1, <3>1, DiskKept DEF CommandSound, Undone
  <2> QED BY <2>2, <2>3, <2>4, <2>5 DEF IInv
<1> QED BY <1>1, <1>2, <1>3 DEF Next, WorldStep

LEMMA InitSound == Init => IInv
<1> SUFFICES ASSUME Init PROVE IInv
  OBVIOUS
<1>1. TInv
  BY InitTypes
<1>2. /\ \A t \in Target : source[t] = {}
      /\ \A d \in Ids : \A t \in Target : staged[d][t] = {}
      /\ \A d \in Ids : manifest[d].state = "none"
      /\ receipts = <<>> /\ created = {}
      /\ \A p \in Deleters : proc[p].pc = "idle"
  BY Fresh DEF Init, NoManifest
<1>3. Pending = {} /\ Len(receipts) = 0
  BY <1>2 DEF Pending
<1>4. StoreSound /\ \A d \in Ids : TransactionSound(d)
  <2>1. \A t \in Target : Exists(source[t]) <=> Exists(Chain)
    BY <1>2, Plans DEF Chain
  <2>2. StoreSound
    BY <1>2, <1>3, <2>1 DEF StoreSound, AllLatest
  <2>3. ASSUME NEW d \in Ids PROVE TransactionSound(d)
    <3>1. manifest[d].state = "none" /\ d \notin Pending /\ \A t \in Target : staged[d][t] = {}
      BY <1>2, <1>3
    <3> QED BY <3>1 DEF TransactionSound
  <2> QED BY <2>2, <2>3
<1>5. \A p \in Deleters : CommandSound(p)
  BY <1>2 DEF CommandSound
<1>6. LostOnlyWithReceipt /\ Unbroken
  BY <1>2, <1>3 DEF LostOnlyWithReceipt, Unbroken, LatestReceipted
<1> QED BY <1>1, <1>4, <1>5, <1>6 DEF IInv

\* What the disk holds is of one chain, so nothing that may be put back is of an
\* earlier one.
LEMMA SoundShared == IInv => CodeNeverShared
<1> SUFFICES ASSUME IInv PROVE CodeNeverShared
  OBVIOUS
<1>1. ASSUME NEW u \in Chain, NEW v \in Chain PROVE u.chain = v.chain
  <2>1. Latest(u) /\ Latest(v)
    BY Plans DEF IInv, StoreSound, AllLatest, Chain
  <2> QED BY <2>1, OneLatest DEF IInv
<1>2. ASSUME NEW d \in Pending, NEW t \in Target, NEW u \in staged[d][t], NEW c \in ChainsSoFar
      PROVE  c <= u.chain
  <2>1. Latest(u)
    BY PendingId DEF TransactionSound, AllLatest
  <2> QED BY <2>1 DEF Latest
<1> QED BY <1>1, <1>2 DEF CodeNeverShared

LEMMA SoundReceipts == IInv => ReceiptsTrue
<1> SUFFICES ASSUME IInv PROVE ReceiptStands
  BY DEF IInv, ReceiptsTrue
<1> SUFFICES ASSUME faults = 0, NEW i \in 1..Len(receipts), NEW t \in Target,
                    NEW u \in receipts[i].units \cap source[t]
             PROVE  FALSE
  BY DEF ReceiptStands
<1>1. Latest(u)
  BY DEF IInv, StoreSound, AllLatest
<1>2. LatestReceipted
  BY <1>1 DEF LatestReceipted
<1>3. Gone
  BY <1>2 DEF IInv, Unbroken
<1> QED BY <1>3 DEF Gone, Exists

\* No file of a chain is lost but under a receipt, whatever fails and whatever
\* dies, and what a receipt says is gone stays away while nothing failed
\* (finalize_chain_deletion, purge_committed_deletion, rollback_chain_deletion).
THEOREM DeletionReceiptsTrue ==
    ASSUME OneCommand
    PROVE  Spec => []ReceiptsTrue
<1>1. Init => IInv
  BY InitSound
<1>2. IInv /\ [Next]_vars => IInv'
  BY NextSound
<1>3. IInv => ReceiptsTrue
  BY SoundReceipts
<1> QED BY <1>1, <1>2, <1>3, PTL DEF Spec

\* A code that is given again is never shared with the chain that had it before,
\* whatever of that chain a pending deletion may still put back
\* (reserved_deletion_codes).
THEOREM DeletionCodeNeverShared ==
    ASSUME OneCommand
    PROVE  Spec => []CodeNeverShared
<1>1. Init => IInv
  BY InitSound
<1>2. IInv /\ [Next]_vars => IInv'
  BY NextSound
<1>3. IInv => CodeNeverShared
  BY SoundShared
<1> QED BY <1>1, <1>2, <1>3, PTL DEF Spec
=============================================================================
