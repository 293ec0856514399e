------------------------ MODULE ClaudeSession_proofs ------------------------
(***************************************************************************)
(* What holds of a run of an executor for every number of its requests and *)
(* faults and for outputs of any length: as a live session, as one command *)
(* and as an SDK session.                                                  *)
(*                                                                         *)
(* Several threads write the record of a run, its lease and its task, and  *)
(* each reads what it needs at another time than the others.  Each of the  *)
(* three invariants (SdkInv, CommandInv, LiveInv) says at which places of  *)
(* which thread a status, a result or a closed lease may be on record, and *)
(* what of the server, the child or the agent is true whenever it is.      *)
(***************************************************************************)
EXTENDS ClaudeSession, FiniteSetTheorems, TLAPS

Adapter == run.adapter \in Adapters \cup Commands \cup Sdks
Tasks == {"running", "waiting", "recovery"} \cup Ended
Leases == [disk : LeaseState, mem : LeaseState]
TurnOver == server.turn \in Over

-----------------------------------------------------------------------------
(* The inductive invariant of an SDK session.                              *)

WorkerTypes ==
    [pc : {"command", "asleep", "judge", "control", "beating", "leaving", "gone"},
     seen : Rec]
SdkTypes ==
    /\ sdk \in SdkThread /\ asking \in Asking /\ control \in Control
    /\ rec \in Rec /\ lease \in Leases /\ server \in Server /\ plane \in Plane
    /\ worker \in WorkerTypes
    /\ task \in Tasks /\ closing \in {"none", "reserved", "signalled"}
    /\ asks \in 0..MaxAsks

\* A call that asks, before or after its request.
Pending(c) == asking.calls[c] \in {"asked", "waiting"}

\* One call asks at a time, and the second to ask meets a plane that is dead.
OneAsks ==
    /\ \A c \in Call : c > asks => asking.calls[c] = "none"
    /\ \A c \in Call : Pending(c) => asking.active = c
    /\ asking.active # NoCall => Pending(asking.active)
    /\ \A c \in Call : asking.calls[c] = "asked" => asking.requests = 0 \/ control.dead
    /\ asking.requests <= 1
    /\ asking.requests # 0 /\ ~control.dead /\ NoneActive =>
           asking.gate \in {"ready", "active", "denied", "blocked"}
    /\ asking.gate = "safe" => asking.requests = 0 /\ NoneActive
    /\ asking.requests = 0 =>
           /\ plane = "none" /\ asking.waiter = "none"
           /\ \A c \in Call : asking.calls[c] # "waiting"

\* What the waiting thread heard is what the plane holds.
Heard ==
    /\ control.answer # "none" <=> plane = "responded"
    /\ asking.waiter \in Say => asking.waiter = control.answer
    /\ asking.waiter = "lost" => control.dead
    /\ asking.gate \in {"ready", "active"} => control.answer = "accept"

\* A request nobody waits for any more is no wait of the task.
AnswerComes ==
    /\ plane = "pending" /\ NoneActive => control.dead
    /\ (plane = "pending" /\ control.dead) \/ control.telling # "none" =>
           control.shown /\ (task # "waiting" \/ TurnOver)
    /\ control.late => asking.requests # 0

SdkSound(r) ==
    /\ r.status = "completed" => server.turn = "completed"
    /\ r.status = "failed" => TurnOver \/ ~server.up
    /\ r.result \in {"outcome", "resource"} => TurnOver
    /\ ~(r.status = "input_required" /\ r.result = "failure")

Early == {"setup", "refused", "connect"}
SdkPlaces ==
    /\ SdkSound(rec) /\ SdkSound(sdk.result) /\ SdkSound(worker.seen)
    /\ sdk.at \in Early =>
           /\ ~server.up /\ server.turn = "none" /\ asks = 0 /\ asking.requests = 0
           /\ rec.status = "running" /\ sdk.result.status # "failed"
           /\ worker.seen.status # "failed" /\ task \notin Ended
    /\ sdk.at \in {"lease", "publish", "done"} => ~server.up \/ sdk.stuck
    /\ rec.result \in {"outcome", "resource"} => sdk.at \in {"done", "dead"}
    /\ sdk.at = "dead" <=> worker.pc = "gone"
    /\ worker.pc # "gone" =>
        /\ lease.disk \in {"closed", "suspended"} => ~server.up \/ sdk.stuck
        /\ worker.seen.result \in {"outcome", "resource"} => sdk.at = "done"

SdkInv == SdkTypes /\ OneAsks /\ Heard /\ AnswerComes /\ SdkPlaces
          /\ EarnedByResult /\ OneElevation

-----------------------------------------------------------------------------
(* The inductive invariant of a command.                                   *)

Clear == ~GroupAlive /\ ~PipeHeld
CompletedSound == command.child = "zero" /\ (OpenCode => Clear)
FailedSound ==
    \/ command.child \in {"zero", "error"}
    \/ OpenCode /\ (command.child = "none" \/ (command.child = "killed" /\ command.late))
CommandSound(r) ==
    /\ r.status = "completed" => CompletedSound
    /\ r.status = "failed" => FailedSound
    /\ ~(r.status = "input_required" /\ r.result = "failure")

CommandTypes ==
    /\ command \in Command /\ rec \in Rec /\ lease \in Leases /\ worker \in Worker
    /\ task \in Tasks /\ closing \in {"none", "reserved", "signalled"}

CommandPlaces ==
    /\ command.at = "authorize" => command.child = "none" /\ command.helper = "none"
    /\ command.at \in {"wait", "terminate"} => command.child # "none"
    /\ command.at = "returned" => worker.pc # "command"
    /\ command.at # "returned" => worker.pc \in {"command", "gone"}
    /\ command.at \notin {"returned", "unwind"} => rec.status = "running"
    /\ command.at = "unwind" => rec.status = "needs_recovery"
    /\ worker.pc = "command" => worker.seen.status = "running" /\ task \notin Ended
    /\ command.at \in {"terminate", "reclaim"} => OpenCode
    /\ command.at = "terminate" => command.late
    /\ command.at \in {"reclaim", "collect"} => command.child \notin {"none", "running"}
    /\ command.child = "stuck" => OpenCode /\ command.late
    /\ command.unbound \/ command.interrupted => CodexExec
    /\ command.interrupted => Cancelled
    /\ worker.pc # "gone" /\ command.child = "killed" =>
           /\ command.at # "wait"
           /\ command.late \/ command.unbound \/ command.interrupted

CommandTold ==
    /\ CommandSound(rec) /\ CommandSound(worker.seen)
    /\ worker.pc = "result" => worker.seen.status = rec.status
    /\ task = "completed" => CompletedSound
    /\ task = "failed" => FailedSound
    /\ worker.pc # "gone" /\ lease.disk = "closed" =>
           /\ command.at \in {"returned", "refused"}
           /\ command.child # "running" /\ ~Lives /\ (OpenCode => Clear)

CommandInv == CommandTypes /\ CommandPlaces /\ CommandTold

\* The output of a run that is told to be completed says so as a whole.
SaidWhole ==
    /\ rec.status = "completed" \/ worker.seen.status = "completed" => command.told
    /\ task = "completed" => command.told

-----------------------------------------------------------------------------
(* The inductive invariant of a live session.                              *)

Said(m) == \/ \E i \in DOMAIN wire.pipe : wire.pipe[i] = m
           \/ \E i \in DOMAIN wire.buf : wire.buf[i] = m

\* A death of the server on its request, or the end of the turn.
Broken == TurnOver \/ (Codex /\ asks > 0 /\ ~server.up)

\* Nothing answers a request: the first that was asked stays.
Asks ==
    /\ asks > 0 => server.ask
    /\ Said("ask") => asks > 0
    /\ "interrupt" \notin server.due /\ plane # "responded" /\ thread.pc # "resumed"
    /\ thread.pc \in {"asking", "telling", "yielding", "deciding", "blocked"} => asks > 0

\* The places of the Codex thread.
Archives ==
    Codex =>
        /\ thread.pc \notin {"prompt", "blocked"}
        /\ Said("archived") \/ thread.pc = "archived" => server.archived
        /\ thread.pc \in {"outcome", "publish"} /\ ~run.retain => server.archived /\ ~server.up
        /\ thread.pc = "lease" => ~server.up
        /\ rec.status = "completed" /\ ~run.retain => server.archived /\ ~server.up

LiveSound(r) ==
    /\ r.status = "completed" => server.turn = "completed"
    /\ r.status = "failed" => TurnOver
    /\ r.status = "input_required" => asks > 0 \/ TurnOver
    /\ r.result # "resource"

\* Status and result are written, and read, one after the other: whoever reads
\* a failure beside a wait reads of a request whose server died.
Written ==
    /\ rec.result = "failure" =>
           /\ thread.pc \in {"failed", "finally", "lease", "done", "dead"}
           /\ Hermes => rec.status = "needs_recovery"
    /\ Hermes /\ thread.pc = "failed" => rec.status = "needs_recovery"
    /\ rec.status = "input_required" /\ worker.pc \notin {"dialog", "gone"} =>
           \/ Broken
           \/ /\ rec.result # "failure"
              /\ thread.pc \in IF Codex THEN {"telling", "yielding", "deciding"}
                               ELSE {"publish", "lease", "finally", "done", "dead"}
    /\ worker.pc = "result" /\ worker.seen.status = "input_required" =>
           Broken \/ rec.status = "input_required"
    /\ worker.pc = "act" /\ worker.seen.status = "input_required"
           /\ worker.seen.result = "failure" => Broken

\* Whoever gives the run up, a task that waits or a lease, does so at a request
\* or at the end.
GivenUp ==
    /\ task = "waiting" => asks > 0 \/ TurnOver
    /\ Codex /\ worker.pc # "gone" =>
           /\ lease.disk # "active" => asks > 0 \/ TurnOver \/ lease.disk = "closed"
           /\ lease.disk = "closed" => ~server.up /\ thread.pc # "open"

Opening == thread.pc = "open" =>
               /\ ~server.up /\ server.turn = "none" /\ asks = 0
               /\ rec.status = "running"

LiveInv ==
    /\ TypeOK /\ Opening /\ TerminalByTurn
    /\ closing = "none" =>
           Asks /\ Archives /\ LiveSound(rec) /\ LiveSound(worker.seen) /\ Written /\ GivenUp

-----------------------------------------------------------------------------
(* A run is one of the three.                                              *)

SessionInv ==
    /\ Adapter
    /\ IF Sdk THEN SdkInv
       ELSE /\ asking = NoAsking(FALSE) /\ control = NoControl /\ sdk = NoSdk
            /\ IF OneCommand THEN CommandInv ELSE LiveInv
-----------------------------------------------------------------------------
(* An SDK session: the lemma named Sdk<Action> shows that <Action> keeps   *)
(* SdkInv.                                                                 *)

LEMMA AnswerTypes ==
    ASSUME asking \in Asking, NEW c \in Call, NEW a \in Call \cup {NoCall},
           NEW state \in {"none", "asked", "waiting", "allowed", "denied", "error", "over"}
    PROVE  Answer(c, state, a) \in Asking
<1>1. [asking.calls EXCEPT ![c] = state] \in
          [Call -> {"none", "asked", "waiting", "allowed", "denied", "error", "over"}]
    BY DEF Asking
<1> QED BY <1>1 DEF Asking, Answer

LEMMA UseToolTypes ==
    ASSUME SdkInv, UseTool
    PROVE  /\ asks' \in Call /\ asks' \in 0..MaxAsks
           /\ asking' \in Asking
           /\ \E known \in BOOLEAN : asking' = Gate(asks', known)
<1>1. asks' \in Call /\ asks' \in 0..MaxAsks
    BY SessionAssumption DEF SdkInv, SdkTypes, UseTool, Call
<1>2. PICK known \in BOOLEAN : asking' = Gate(asks', known)
    BY DEF UseTool
<1>3. asking \in Asking /\ asking.active \in Call \cup {NoCall}
    BY DEF SdkInv, SdkTypes, Asking
<1>4. /\ Answer(asks', "allowed", asking.active) \in Asking
      /\ Answer(asks', "denied", asking.active) \in Asking
      /\ Answer(asks', "asked", asks') \in Asking
    BY <1>1, <1>3, AnswerTypes
<1>5. [Answer(asks', "asked", asks') EXCEPT !.gate = "pending"] \in Asking
    BY <1>4 DEF Asking
<1> QED BY <1>1, <1>2, <1>4, <1>5 DEF Gate

LEMMA SdkUseTool ==
    ASSUME SdkInv, UseTool
    PROVE  SdkInv'
<1>1. SdkTypes'
    BY UseToolTypes DEF SdkInv, SdkTypes, UseTool, Fixed, shared
<1>2. OneAsks'
  <2>1. PICK known \in BOOLEAN : asking' = Gate(asks', known)
    BY UseToolTypes
  <2>2. /\ asks' \in Call /\ asks' = asks + 1 /\ asks \in Nat
        /\ UNCHANGED <<control, plane>>
    BY UseToolTypes, SessionAssumption DEF SdkInv, SdkTypes, UseTool, Fixed, shared
  <2>3. asking.calls[asks'] = "none" /\ asking.active # asks'
    BY <2>2 DEF SdkInv, OneAsks, Pending, Call, NoCall
  <2>4. asking \in Asking /\ OneAsks
    BY DEF SdkInv, SdkTypes
  <2>5. CASE \E state \in {"allowed", "denied"} : asking' = Answer(asks', state, asking.active)
    <3>1. PICK state \in {"allowed", "denied"} : asking' = Answer(asks', state, asking.active)
      BY <2>5
    <3>2. /\ asking'.calls = [asking.calls EXCEPT ![asks'] = state]
          /\ asking'.active = asking.active /\ asking'.gate = asking.gate
          /\ asking'.requests = asking.requests /\ asking'.waiter = asking.waiter
      BY <3>1, <2>4 DEF Answer, Asking
    <3> QED BY <3>2, <2>2, <2>3, <2>4 DEF OneAsks, Asking, Call, Pending, NoneActive, NoCall
  <2>6. CASE /\ asking.gate \in {"safe", "pending"} /\ NoneActive
             /\ asking' = [Answer(asks', "asked", asks') EXCEPT !.gate = "pending"]
    <3>2. /\ asking'.calls = [asking.calls EXCEPT ![asks'] = "asked"]
          /\ asking'.active = asks' /\ asking'.gate = "pending"
          /\ asking'.requests = asking.requests /\ asking'.waiter = asking.waiter
      BY <2>6, <2>4 DEF Answer, Asking
    <3>3. asking'.requests = 0 \/ control'.dead
      BY <3>2, <2>2, <2>4, <2>6 DEF OneAsks
    <3>4. \A c \in Call : c # asks' => asking'.calls[c] = asking.calls[c] /\ ~Pending(c)
      BY <3>2, <2>4, <2>6 DEF OneAsks, Asking, Call, Pending, NoneActive, NoCall
    <3>5. asking'.calls[asks'] = "asked"
      BY <3>2, <2>2, <2>4 DEF Asking
    <3> QED BY <3>2, <3>3, <3>4, <3>5, <2>2, <2>4, <2>6
       DEF OneAsks, Asking, Call, Pending, NoneActive, NoCall
  <2> QED BY <2>1, <2>4, <2>5, <2>6 DEF Gate, Asking
<1>3. Heard'
    BY UseToolTypes
       DEF SdkInv, SdkTypes, Heard, UseTool, Gate, Answer, Asking, Fixed, shared, Say
<1>4. AnswerComes'
    BY UseToolTypes
       DEF SdkInv, SdkTypes, AnswerComes, UseTool, Gate, Answer, Asking, Call, NoCall, Fixed,
           shared, NoneActive, TurnOver
<1>5. SdkPlaces'
    BY UseToolTypes
       DEF SdkInv, SdkTypes, SdkPlaces, UseTool, TurnRuns, Gate, Answer, Asking, Fixed, shared,
           TurnOver, SdkSound
<1>6. EarnedByResult' 
    BY DEF SdkInv, EarnedByResult, UseTool, Fixed, shared
<1>7. OneElevation'
    BY UseToolTypes
       DEF SdkInv, SdkTypes, OneAsks, Heard, OneElevation, UseTool, Gate, Answer, Asking,
           NoCall, Fixed, shared
<1> QED BY <1>1, <1>2, <1>3, <1>4, <1>5, <1>6, <1>7 DEF SdkInv

LEMMA SdkFrame ==
    ASSUME SdkInv, UNCHANGED <<asking, asks, plane, control>>
    PROVE  OneAsks' /\ Heard' /\ OneElevation'
BY DEF SdkInv, OneAsks, Pending, NoneActive, Heard, OneElevation

\* The process ends, and the thread that waits in it.
LEMMA ProcessFrame ==
    ASSUME SdkInv, ProcessEnds, UNCHANGED <<asks, plane, control>>
    PROVE  OneAsks' /\ Heard' /\ OneElevation'
<1>1. /\ asking'.calls = asking.calls /\ asking'.active = asking.active
      /\ asking'.gate = asking.gate /\ asking'.waiter = "none"
      /\ asking'.requests = asking.requests /\ asking'.bypass = asking.bypass
      /\ asking'.full = asking.full /\ asking'.anchor = asking.anchor
    BY DEF SdkInv, SdkTypes, Asking, ProcessEnds
<1> QED BY <1>1 DEF SdkInv, OneAsks, Pending, NoneActive, Heard, OneElevation, Say

LEMMA CallsTypes ==
    ASSUME SdkInv, NEW c \in Call,
           NEW state \in {"none", "asked", "waiting", "allowed", "denied", "error", "over"}
    PROVE  [asking.calls EXCEPT ![c] = state] \in
               [Call -> {"none", "asked", "waiting", "allowed", "denied", "error", "over"}]
BY DEF SdkInv, SdkTypes, Asking

LEMMA SdkToolEnds ==
    ASSUME NEW c \in Call, SdkInv, ToolEnds(c)
    PROVE  SdkInv'
<1>0. PICK works \in BOOLEAN :
        asking' = [asking EXCEPT !.calls[c] = "over",
                         !.gate = IF @ = "ready" /\ asking.anchor = c /\ sdk.loop
                                  THEN IF works THEN "active" ELSE "blocked" ELSE @]
    BY DEF ToolEnds
<1>1. SdkTypes'
  <2>1. asking' \in Asking
    BY <1>0, CallsTypes DEF SdkInv, SdkTypes, Asking
  <2> QED BY <2>1 DEF SdkInv, SdkTypes, ToolEnds, Fixed, shared, bounds
<1>2. OneAsks'
    BY SessionAssumption
       DEF SdkInv, SdkTypes, OneAsks, ToolEnds, Fixed, shared, bounds, Asking,
           Call, NoCall, Say, Pending, NoneActive
<1>3. Heard'
    BY DEF SdkInv, SdkTypes, Heard, ToolEnds, Fixed, shared, Asking, Call, NoCall, Say
<1>4. AnswerComes'
    BY DEF SdkInv, SdkTypes, AnswerComes, ToolEnds, Fixed, shared, Asking, Call,
           NoCall, Say, NoneActive, TurnOver
<1>5. SdkPlaces'
    BY DEF SdkInv, SdkTypes, SdkPlaces, ToolEnds, Fixed, shared, Asking, Call,
           NoCall, Say, SdkSound, TurnOver, Early
<1>6. EarnedByResult'
    BY DEF SdkInv, EarnedByResult, ToolEnds, Fixed, shared
<1>7. OneElevation'
    BY DEF SdkInv, SdkTypes, OneElevation, ToolEnds, Fixed, shared, Asking, Call, NoCall, Say
<1> QED BY <1>1, <1>2, <1>3, <1>4, <1>5, <1>6, <1>7 DEF SdkInv

\* A request that the plane takes is the first of the run.
LEMMA SdkRequestTaken ==
    ASSUME NEW c \in Call, SdkInv, Request(c), ~Refused, plane' = "pending",
           asking' = [asking EXCEPT !.calls[c] = "waiting", !.waiter = "waits",
                                    !.requests = @ + 1],
           UNCHANGED control
    PROVE  SdkInv'
<1>a. /\ asking \in Asking /\ asking.requests \in Nat /\ MaxAsks \in Nat /\ 1 <= MaxAsks
      /\ c # NoCall /\ asks \in Nat
      /\ UNCHANGED <<asks, server, task, sdk, rec, lease, worker, closing>>
    BY SessionAssumption
       DEF SdkInv, SdkTypes, Asking, Call, NoCall, Request, Fixed, bounds
<1>b. /\ asking.calls[c] = "asked" /\ asking.active = c /\ ~control.dead
    BY DEF SdkInv, OneAsks, Pending, Request, Refused
<1>c. asking.requests = 0 /\ plane = "none" /\ control.answer = "none"
    BY <1>b DEF SdkInv, OneAsks, Heard
<1>d. /\ asking'.calls = [asking.calls EXCEPT ![c] = "waiting"]
      /\ asking'.active = c /\ asking'.gate = asking.gate /\ asking'.waiter = "waits"
      /\ asking'.requests = 1 /\ asking'.bypass = asking.bypass
      /\ asking'.full = asking.full /\ asking'.anchor = asking.anchor
    BY <1>a, <1>b, <1>c DEF Asking
<1>e. asking'.calls[c] = "waiting" /\ \A d \in Call : d # c => asking'.calls[d] = asking.calls[d]
    BY <1>a, <1>d DEF Asking
<1>f. asking.gate # "safe" /\ c <= asks /\ \A d \in Call : d # c => ~Pending(d)
    BY <1>a, <1>b DEF SdkInv, OneAsks, NoneActive, Call
<1>g. sdk.at \notin Early
    BY <1>a, <1>b DEF SdkInv, SdkPlaces, OneAsks, Call
<1>1. SdkTypes'
  <2>1. asking'.calls \in [Call -> {"none", "asked", "waiting", "allowed", "denied", "error", "over"}]
    BY <1>d, CallsTypes
  <2>3. asking' = [[[asking EXCEPT !.calls = asking'.calls] EXCEPT !.waiter = "waits"]
                      EXCEPT !.requests = 1]
    BY <1>a, <1>c, <1>d DEF Asking
  <2>4. [asking EXCEPT !.calls = asking'.calls] \in Asking
    BY <2>1, <1>a DEF Asking
  <2>5. [[asking EXCEPT !.calls = asking'.calls] EXCEPT !.waiter = "waits"] \in Asking
    BY <2>4 DEF Asking
  <2>6. 1 \in 0..MaxAsks
    BY <1>a
  <2>2. asking' \in Asking
    BY <2>3, <2>5, <2>6 DEF Asking
  <2> QED BY <2>2, <1>a DEF SdkInv, SdkTypes, Plane
<1>2. OneAsks'
    BY <1>a, <1>b, <1>d, <1>e, <1>f DEF SdkInv, OneAsks, Pending, NoneActive, Call
<1>3. Heard'
    BY <1>c, <1>d DEF SdkInv, Heard, Say
<1>4. AnswerComes'
    BY <1>a, <1>b, <1>d DEF SdkInv, AnswerComes, NoneActive, TurnOver
<1>5. SdkPlaces'
    BY <1>a, <1>g DEF SdkInv, SdkPlaces, SdkSound, TurnOver
<1>6. EarnedByResult'
    BY <1>a DEF SdkInv, EarnedByResult
<1>7. OneElevation'
    BY <1>d, <1>e DEF SdkInv, OneElevation
<1> QED BY <1>1, <1>2, <1>3, <1>4, <1>5, <1>6, <1>7 DEF SdkInv

\* A request that is refused, or cannot be recorded, is an error for the agent.
LEMMA SdkRequestFails ==
    ASSUME NEW c \in Call, SdkInv, Request(c), UNCHANGED plane,
           control' = [control EXCEPT !.dead = TRUE],
           asking' = Answer(c, "error", NoCall)
    PROVE  SdkInv'
<1>a. /\ asking \in Asking /\ asks \in Nat /\ control \in Control /\ c # NoCall
      /\ UNCHANGED <<asks, server, task, sdk, rec, lease, worker, closing>>
    BY SessionAssumption
       DEF SdkInv, SdkTypes, Asking, Call, NoCall, Request, Fixed, bounds
<1>b. asking.calls[c] = "asked" /\ asking.active = c
    BY DEF SdkInv, OneAsks, Pending, Request
<1>d. /\ asking'.calls = [asking.calls EXCEPT ![c] = "error"]
      /\ asking'.active = NoCall /\ asking'.gate = asking.gate
      /\ asking'.waiter = asking.waiter
      /\ asking'.requests = asking.requests /\ asking'.bypass = asking.bypass
      /\ asking'.full = asking.full /\ asking'.anchor = asking.anchor
    BY <1>a DEF Asking, Answer
<1>e. asking'.calls[c] = "error" /\ \A d \in Call : d # c => asking'.calls[d] = asking.calls[d]
    BY <1>a, <1>d DEF Asking
<1>f. asking.gate # "safe" /\ c <= asks /\ \A d \in Call : d # c => ~Pending(d)
    BY <1>a, <1>b DEF SdkInv, OneAsks, NoneActive, Call
<1>g. /\ control'.dead /\ control'.answer = control.answer /\ control'.late = control.late
      /\ control'.telling = control.telling /\ control'.shown = control.shown
    BY <1>a DEF Control
<1>h. plane = "pending" => control.dead
    BY <1>b DEF SdkInv, OneAsks
<1>1. SdkTypes'
  <2>1. asking' \in Asking
    BY AnswerTypes, <1>a
  <2>2. control' \in Control
    BY <1>a DEF Control
  <2> QED BY <2>1, <2>2, <1>a DEF SdkInv, SdkTypes
<1>2. OneAsks'
    BY <1>a, <1>b, <1>d, <1>e, <1>f, <1>g DEF SdkInv, OneAsks, Pending, NoneActive, Call
<1>3. Heard'
    BY <1>d, <1>g DEF SdkInv, Heard, Say
<1>4. AnswerComes'
    BY <1>a, <1>b, <1>d, <1>g, <1>h DEF SdkInv, AnswerComes, NoneActive, TurnOver
<1>5. SdkPlaces'
    BY <1>a, <1>d DEF SdkInv, SdkPlaces, SdkSound, TurnOver
<1>6. EarnedByResult'
    BY <1>a, <1>g DEF SdkInv, EarnedByResult
<1>7. OneElevation'
    BY <1>d, <1>e, <1>g DEF SdkInv, OneElevation
<1> QED BY <1>1, <1>2, <1>3, <1>4, <1>5, <1>6, <1>7 DEF SdkInv

LEMMA ContinueAsking ==
    ASSUME NEW c \in Call, SdkInv, Continue(c)
    PROVE  \E state \in {"allowed", "denied", "error"} :
             /\ asking' \in Asking
             /\ asking'.calls = [asking.calls EXCEPT ![c] = state]
             /\ asking'.active = NoCall /\ asking'.waiter = "none"
             /\ asking'.requests = asking.requests /\ asking'.full = asking.full
             /\ \/ /\ asking.waiter = "accept" /\ asking.gate = "pending"
                   /\ asking'.gate = "ready"
                \/ /\ asking.waiter = "decline" /\ asking.gate = "pending"
                   /\ asking'.gate = "denied" /\ state = "denied"
                   /\ UNCHANGED <<asking.bypass, asking.anchor>>
                \/ /\ asking.waiter = "lost" \/ asking.gate # "pending"
                   /\ asking'.gate = asking.gate /\ state = "error"
                   /\ UNCHANGED <<asking.bypass, asking.anchor>>
<1>1. asking \in Asking /\ asking.waiter \in {"lost", "accept", "decline"} /\ c # NoCall
      /\ c \in Call \cup {NoCall}
    BY DEF SdkInv, SdkTypes, Asking, Say, Call, NoCall, Continue
<1>2. PICK accepts \in BOOLEAN :
          asking' = [Resumed(c, accepts) EXCEPT !.active = NoCall, !.waiter = "none"]
    BY DEF Continue
<1>3. CASE asking.waiter = "accept" /\ StillAsking
  <2>1. Resumed(c, accepts) = [asking EXCEPT !.calls[c] = "allowed", !.gate = "ready",
                                             !.anchor = c, !.bypass = accepts]
    BY <1>3 DEF Resumed
  <2>2. [asking.calls EXCEPT ![c] = "allowed"] \in
            [Call -> {"none", "asked", "waiting", "allowed", "denied", "error", "over"}]
    BY CallsTypes
  <2>3. asking' \in Asking /\ asking'.calls = [asking.calls EXCEPT ![c] = "allowed"]
    BY <1>1, <1>2, <2>1, <2>2 DEF Asking
  <2> QED BY <1>1, <1>2, <1>3, <2>1, <2>3 DEF StillAsking, Asking
<1>4. CASE asking.waiter = "decline" /\ StillAsking
  <2>1. Resumed(c, accepts) = [asking EXCEPT !.calls[c] = "denied", !.gate = "denied"]
    BY <1>4 DEF Resumed
  <2>2. [asking.calls EXCEPT ![c] = "denied"] \in
            [Call -> {"none", "asked", "waiting", "allowed", "denied", "error", "over"}]
    BY CallsTypes
  <2>3. asking' \in Asking /\ asking'.calls = [asking.calls EXCEPT ![c] = "denied"]
    BY <1>1, <1>2, <2>1, <2>2 DEF Asking
  <2> QED BY <1>1, <1>2, <1>4, <2>1, <2>3 DEF StillAsking, Asking
<1>5. CASE ~(asking.waiter = "accept" /\ StillAsking) /\ ~(asking.waiter = "decline" /\ StillAsking)
  <2>1. Resumed(c, accepts) = [asking EXCEPT !.calls[c] = "error"]
    BY <1>5 DEF Resumed
  <2>2. [asking.calls EXCEPT ![c] = "error"] \in
            [Call -> {"none", "asked", "waiting", "allowed", "denied", "error", "over"}]
    BY CallsTypes
  <2>3. asking' \in Asking /\ asking'.calls = [asking.calls EXCEPT ![c] = "error"]
    BY <1>1, <1>2, <2>1, <2>2 DEF Asking
  <2> QED BY <1>1, <1>2, <1>5, <2>1, <2>3 DEF StillAsking, Asking
<1> QED BY <1>3, <1>4, <1>5

LEMMA SdkContinue ==
    ASSUME NEW c \in Call, SdkInv, Continue(c)
    PROVE  SdkInv'
<1>a. PICK state \in {"allowed", "denied", "error"} :
             /\ asking' \in Asking
             /\ asking'.calls = [asking.calls EXCEPT ![c] = state]
             /\ asking'.active = NoCall /\ asking'.waiter = "none"
             /\ asking'.requests = asking.requests /\ asking'.full = asking.full
             /\ \/ /\ asking.waiter = "accept" /\ asking.gate = "pending"
                   /\ asking'.gate = "ready"
                \/ /\ asking.waiter = "decline" /\ asking.gate = "pending"
                   /\ asking'.gate = "denied" /\ state = "denied"
                   /\ UNCHANGED <<asking.bypass, asking.anchor>>
                \/ /\ asking.waiter = "lost" \/ asking.gate # "pending"
                   /\ asking'.gate = asking.gate /\ state = "error"
                   /\ UNCHANGED <<asking.bypass, asking.anchor>>
    BY ContinueAsking
<1>b. /\ asking \in Asking /\ asking.calls[c] = "waiting" /\ asking.active = c
      /\ asking.waiter \in {"lost", "accept", "decline"}
      /\ asking.requests # 0 /\ asking.gate # "safe" /\ c <= asks
    BY DEF SdkInv, SdkTypes, OneAsks, Pending, Asking, Say, Continue, Call
<1>c. /\ asking'.calls[c] = state
      /\ \A d \in Call : d # c => asking'.calls[d] = asking.calls[d] /\ ~Pending(d)
    BY <1>a, <1>b DEF Asking, SdkInv, OneAsks
<1>d. UNCHANGED <<asks, faults, server, plane, task, sdk, rec, lease, worker, closing, control>>
    BY DEF Continue, Fixed, shared, bounds
<1>e. asking.waiter \in Say => asking.waiter = control.answer /\ plane = "responded"
    BY DEF SdkInv, Heard, Say
<1>1. SdkTypes'
    BY <1>a, <1>d DEF SdkInv, SdkTypes
<1>2. OneAsks'
  <2>1. asking'.gate # "safe"
    BY <1>a, <1>b
  <2>2. ~control.dead => asking'.gate \in {"ready", "active", "denied", "blocked"}
    BY <1>a, <1>b DEF SdkInv, Heard, Asking
  <2> QED BY <1>a, <1>b, <1>c, <1>d, <2>1, <2>2 DEF SdkInv, OneAsks, Pending
<1>3. Heard'
    BY <1>a, <1>d, <1>e DEF SdkInv, Heard, Say
<1>4. AnswerComes'
    BY <1>a, <1>b, <1>d, <1>e DEF SdkInv, AnswerComes, Heard, NoneActive, TurnOver, Say
<1>5. SdkPlaces'
    BY <1>a, <1>d DEF SdkInv, SdkPlaces, SdkSound, TurnOver
<1>6. EarnedByResult'
    BY <1>d DEF SdkInv, EarnedByResult
<1>7. OneElevation'
    BY <1>a, <1>c, <1>d, <1>e DEF SdkInv, OneElevation, Say
<1> QED BY <1>1, <1>2, <1>3, <1>4, <1>5, <1>6, <1>7 DEF SdkInv

LEMMA SdkHear ==
    ASSUME SdkInv, Hear
    PROVE  SdkInv'
<1>a. /\ asking \in Asking /\ control \in Control /\ asking.waiter = "waits"
      /\ UNCHANGED <<asks, server, task, sdk, rec, lease, worker, closing>>
    BY DEF SdkInv, SdkTypes, Hear, Listening, Fixed, bounds
<1>b. asking.requests # 0
    BY <1>a DEF SdkInv, OneAsks
<1>c. PICK heard \in {"lost"} \cup Say :
          /\ asking' = [asking EXCEPT !.waiter = heard]
          /\ heard \in Say => UNCHANGED <<plane, control>> /\ heard = control.answer
                              /\ plane = "responded"
          /\ heard = "lost" =>
               /\ control' = [control EXCEPT !.dead = TRUE]
               /\ (plane' = plane /\ control.dead) \/ (plane = "pending" /\ plane' = "expired")
               /\ plane # "responded"
  <2>1. control.dead => control = [control EXCEPT !.dead = TRUE]
    BY <1>a DEF Control
  <2>2. plane = "responded" => control.answer \in Say
    BY <1>a DEF SdkInv, Heard, Control
  <2>3. CASE plane = "responded" /\ asking' = [asking EXCEPT !.waiter = control.answer]
             /\ UNCHANGED <<plane, control>>
    BY <2>2, <2>3 DEF Say
  <2>4. CASE /\ plane = "pending" /\ plane' = "expired"
             /\ control' = [control EXCEPT !.dead = TRUE]
             /\ asking' = [asking EXCEPT !.waiter = "lost"]
    BY <2>4 DEF Say
  <2>5. CASE /\ plane # "responded" /\ control.dead /\ UNCHANGED <<plane, control>>
             /\ asking' = [asking EXCEPT !.waiter = "lost"]
    BY <2>1, <2>5 DEF Say
  <2> QED BY <2>3, <2>4, <2>5 DEF Hear
<1>d. /\ asking'.calls = asking.calls /\ asking'.active = asking.active
      /\ asking'.gate = asking.gate /\ asking'.waiter = heard
      /\ asking'.requests = asking.requests /\ asking'.bypass = asking.bypass
      /\ asking'.full = asking.full /\ asking'.anchor = asking.anchor
      /\ asking' \in Asking
    BY <1>a, <1>c DEF Asking
<1>e. /\ control' \in Control /\ control'.answer = control.answer
      /\ control'.telling = control.telling /\ control'.late = control.late
      /\ control'.shown = control.shown /\ (control.dead => control'.dead)
      /\ heard = "lost" => control'.dead
    BY <1>a, <1>c DEF Control, Say
<1>1. SdkTypes'
    BY <1>a, <1>c, <1>d, <1>e DEF SdkInv, SdkTypes, Plane
<1>2. OneAsks'
    BY <1>a, <1>b, <1>d, <1>e DEF SdkInv, OneAsks, Pending, NoneActive
<1>3. Heard'
    BY <1>c, <1>d, <1>e DEF SdkInv, Heard, Say
<1>4. AnswerComes'
    BY <1>a, <1>c, <1>d, <1>e DEF SdkInv, AnswerComes, NoneActive, TurnOver, Say
<1>5. SdkPlaces'
    BY <1>a, <1>d DEF SdkInv, SdkPlaces, SdkSound, TurnOver
<1>6. EarnedByResult'
    BY <1>a, <1>e DEF SdkInv, EarnedByResult
<1>7. OneElevation'
    BY <1>d, <1>e DEF SdkInv, OneElevation
<1> QED BY <1>1, <1>2, <1>3, <1>4, <1>5, <1>6, <1>7 DEF SdkInv

LEMMA SdkStreamEnds ==
    ASSUME SdkInv, StreamEnds
    PROVE  SdkInv'
<1>a. /\ sdk \in SdkThread /\ server \in Server /\ sdk.at = "stream"
      /\ server'.turn = server.turn /\ ~server'.up /\ server' \in Server
      /\ UNCHANGED <<asks, rec, lease, plane, task, worker, closing, asking, control>>
    BY DEF SdkInv, SdkTypes, StreamEnds, Doing, Down, Server, shared, bounds
<1>b. \A r \in SdkRouted :
          /\ r \in Rec
          /\ r.status = "completed" => server.turn = "completed"
          /\ r.result \in {"outcome", "resource"} => server.turn \in Over
          /\ ~(r.status = "input_required" /\ r.result = "failure")
    BY DEF SdkRouted, Rec, Over, Stored, Recovery, AtLimit
<1>c. /\ sdk'.at \in {"captured", "failed"} /\ sdk' \in SdkThread
      /\ sdk'.result \in SdkRouted \/ sdk'.result = sdk.result
    BY <1>a, <1>b DEF StreamEnds, SdkThread, Onward
<1>1. SdkTypes'
    BY <1>a, <1>c DEF SdkInv, SdkTypes
<1>2. OneAsks'
    BY <1>a DEF SdkInv, OneAsks, Pending, NoneActive
<1>3. Heard'
    BY <1>a DEF SdkInv, Heard
<1>4. AnswerComes'
    BY <1>a DEF SdkInv, AnswerComes, NoneActive, TurnOver
<1>5. SdkPlaces'
    BY <1>a, <1>b, <1>c DEF SdkInv, SdkPlaces, SdkSound, TurnOver, Early
<1>6. EarnedByResult'
    BY <1>a DEF SdkInv, EarnedByResult
<1>7. OneElevation'
    BY <1>a DEF SdkInv, OneElevation
<1> QED BY <1>1, <1>2, <1>3, <1>4, <1>5, <1>6, <1>7 DEF SdkInv

\* The worker's return ends the process, or waits for its waiting thread.
LEMMA ReturnTypes ==
    ASSUME SdkInv, Return, worker.pc # "gone"
    PROVE  /\ worker'.pc \in {"gone", "leaving"} /\ worker'.seen = worker.seen
           /\ worker' \in WorkerTypes /\ sdk' \in SdkThread /\ asking' \in Asking
           /\ worker'.pc = "gone" <=> sdk'.at = "dead"
           /\ worker'.pc # "gone" => UNCHANGED <<sdk, asking>>
           /\ sdk'.at \in {sdk.at, "dead"} /\ sdk'.stuck = sdk.stuck /\ sdk'.result = sdk.result
           /\ asking'.waiter \in {asking.waiter, "none"}
           /\ asking'.calls = asking.calls /\ asking'.active = asking.active
           /\ asking'.gate = asking.gate /\ asking'.requests = asking.requests
           /\ asking'.bypass = asking.bypass /\ asking'.full = asking.full
           /\ asking'.anchor = asking.anchor
<1>1. /\ worker \in WorkerTypes /\ sdk \in SdkThread /\ asking \in Asking
      /\ sdk.at = "dead" <=> worker.pc = "gone"
    BY DEF SdkInv, SdkTypes, SdkPlaces
<1>2. CASE Listening /\ worker' = [worker EXCEPT !.pc = "leaving"] /\ UNCHANGED <<sdk, asking>>
    BY <1>1, <1>2 DEF WorkerTypes
<1>3. CASE ProcessEnds
    BY <1>1, <1>3 DEF ProcessEnds, WorkerTypes, SdkThread, Asking
<1> QED BY <1>2, <1>3 DEF Return

\* A mark is no wait, and closes only a lease that was suspended.
LEMMA MarkTypes ==
    ASSUME SdkTypes, NEW final \in {"completed", "failed", "recovery"}, Mark(final)
    PROVE  /\ task' \in {task, final} /\ task' \in Tasks
           /\ lease' \in Leases
           /\ lease'.disk = lease.disk \/ (lease.disk = "suspended" /\ lease'.disk = "closed")
BY DEF SdkTypes, Mark, Unsuspended, Leases, LeaseState, Tasks, Ended

LEMMA SdkBlockLive ==
    ASSUME SdkInv, BlockLive
    PROVE  SdkInv'
<1>a. /\ UNCHANGED <<server, plane, rec, closing, asks>>
      /\ control \in Control /\ worker \in WorkerTypes /\ worker.pc = "judge"
    BY DEF SdkInv, SdkTypes, BlockLive, bounds, Control, WorkerTypes
<1>b. CASE /\ control.shown /\ worker' = [worker EXCEPT !.pc = "asleep"]
           /\ UNCHANGED <<task, lease, sdk, asking, control>>
  <2>1. worker' \in WorkerTypes /\ worker'.pc = "asleep" /\ worker'.seen = worker.seen
    BY <1>a, <1>b DEF WorkerTypes
  <2> QED BY <1>a, <1>b, <2>1
          DEF SdkInv, SdkTypes, OneAsks, Pending, NoneActive, Heard, AnswerComes, TurnOver,
              SdkPlaces, SdkSound, EarnedByResult, OneElevation
<1>c. CASE /\ ~control.shown /\ task' = "waiting"
           /\ control' = [control EXCEPT !.shown = TRUE]
           /\ worker' = [worker EXCEPT !.pc = "asleep"]
           /\ UNCHANGED <<lease, sdk, asking>>
  <2>1. worker' \in WorkerTypes /\ worker'.pc = "asleep" /\ worker'.seen = worker.seen
    BY <1>a, <1>c DEF WorkerTypes
  <2>2. /\ control' \in Control /\ control'.shown /\ control'.dead = control.dead
        /\ control'.answer = control.answer /\ control'.telling = control.telling
        /\ control'.late = control.late
    BY <1>a, <1>c DEF Control
  <2>3. /\ SdkTypes' /\ OneAsks' /\ Heard' /\ OneElevation'
    BY <1>a, <1>c, <2>1, <2>2
       DEF SdkInv, SdkTypes, Tasks, OneAsks, Pending, NoneActive, Heard, OneElevation
  <2>4. AnswerComes'
    BY <1>a, <1>c, <2>2 DEF SdkInv, AnswerComes, NoneActive, TurnOver
  <2>5. SdkPlaces'
    BY <1>a, <1>c, <2>1 DEF SdkInv, SdkPlaces, SdkSound, TurnOver, Ended
  <2>6. EarnedByResult'
    BY <1>c DEF EarnedByResult
  <2> QED BY <2>3, <2>4, <2>5, <2>6 DEF SdkInv
<1>d. CASE ~control.shown /\ Mark("recovery") /\ Return /\ UNCHANGED control
  <2>1. SdkTypes'
    BY <1>a, <1>d, ReturnTypes, MarkTypes DEF SdkInv, SdkTypes
  <2>2. OneAsks'
    BY <1>a, <1>d, ReturnTypes DEF SdkInv, OneAsks, Pending, NoneActive
  <2>3. Heard'
    BY <1>a, <1>d, ReturnTypes DEF SdkInv, Heard, Say
  <2>4. AnswerComes'
    BY <1>a, <1>d, ReturnTypes, MarkTypes DEF SdkInv, AnswerComes, NoneActive, TurnOver
  <2>5. SdkPlaces'
    BY <1>a, <1>d, ReturnTypes, MarkTypes
       DEF SdkInv, SdkPlaces, SdkSound, TurnOver, Ended, Early
  <2>6. EarnedByResult'
    BY <1>a, <1>d, MarkTypes DEF SdkInv, EarnedByResult
  <2>7. OneElevation'
    BY <1>a, <1>d, ReturnTypes DEF SdkInv, OneElevation
  <2> QED BY <2>1, <2>2, <2>3, <2>4, <2>5, <2>6, <2>7 DEF SdkInv
<1> QED BY <1>b, <1>c, <1>d DEF BlockLive

LEMMA SdkActOnResult ==
    ASSUME SdkInv, ActOnResult, ~Hermes
    PROVE  SdkInv'
<1>a. /\ UNCHANGED <<server, plane, rec, closing, asks, control>>
      /\ worker \in WorkerTypes /\ worker.pc = "judge" /\ lease \in Leases /\ Return
    BY DEF SdkInv, SdkTypes, ActOnResult, bounds
<1>b. /\ SdkSound(worker.seen)
      /\ worker.seen.result \in {"outcome", "resource"} => sdk.at = "done"
      /\ lease.disk \in {"closed", "suspended"} \/ worker.seen.result \in {"outcome", "resource"}
            => ~server.up \/ sdk.stuck
    BY <1>a DEF SdkInv, SdkPlaces
<1>c. \/ \E final \in {"completed", "failed", "recovery"} :
             /\ Mark(final)
             /\ final = "completed" => server.turn = "completed"
             /\ final = "failed" => worker.seen.status = "failed"
      \/ /\ task' = "waiting" /\ lease' = [lease EXCEPT !.disk = "suspended"]
         /\ worker.seen.result \in {"outcome", "resource"}
  <2>1. CASE ~Waits /\ Mark(Verdict)
    BY <1>b, <2>1 DEF Verdict, Unreceipted, Torn, Arbitrated, Status, Result, SdkSound
  <2>2. CASE Waits /\ task' = "waiting" /\ lease' = [lease EXCEPT !.disk = "suspended"]
    BY <2>2 DEF Waits, Result
  <2>3. CASE Waits /\ Mark("recovery")
    BY <2>3
  <2> QED BY <2>1, <2>2, <2>3 DEF ActOnResult
<1>d. /\ task' \in Tasks /\ lease' \in Leases
      /\ lease'.disk \in {"closed", "suspended"} =>
            lease.disk \in {"closed", "suspended"} \/ worker.seen.result \in {"outcome", "resource"}
      /\ task' = "waiting" => task = "waiting" \/ TurnOver
      /\ task' = "completed" => task = "completed" \/ server.turn = "completed"
      /\ task' = "failed" => task = "failed" \/ worker.seen.status = "failed"
  <2>1. CASE /\ task' = "waiting" /\ lease' = [lease EXCEPT !.disk = "suspended"]
             /\ worker.seen.result \in {"outcome", "resource"}
    BY <1>a, <1>b, <2>1 DEF Leases, LeaseState, Tasks, SdkSound
  <2>2. ASSUME NEW final \in {"completed", "failed", "recovery"}, Mark(final)
        PROVE  /\ task' \in {task, final} /\ task' \in Tasks /\ lease' \in Leases
               /\ lease'.disk = lease.disk \/ (lease.disk = "suspended" /\ lease'.disk = "closed")
    BY <2>2, MarkTypes DEF SdkInv
  <2> QED BY <1>c, <2>1, <2>2
<1>1. SdkTypes'
    BY <1>a, <1>d, ReturnTypes DEF SdkInv, SdkTypes
<1>2. OneAsks'
    BY <1>a, ReturnTypes DEF SdkInv, OneAsks, Pending, NoneActive
<1>3. Heard'
    BY <1>a, ReturnTypes DEF SdkInv, Heard, Say
<1>4. AnswerComes'
    BY <1>a, <1>d, ReturnTypes DEF SdkInv, AnswerComes, NoneActive, TurnOver
<1>5. SdkPlaces'
    BY <1>a, <1>b, <1>d, ReturnTypes DEF SdkInv, SdkPlaces, SdkSound, TurnOver, Ended, Early
<1>6. EarnedByResult'
    BY <1>a, <1>b, <1>d DEF SdkInv, EarnedByResult, SdkSound, TurnOver
<1>7. OneElevation'
    BY <1>a, ReturnTypes DEF SdkInv, OneElevation
<1> QED BY <1>1, <1>2, <1>3, <1>4, <1>5, <1>6, <1>7 DEF SdkInv

LEMMA SdkRefuseSession ==
    ASSUME SdkInv, RefuseSession
    PROVE  SdkInv'
<1>1. OneAsks' /\ Heard' /\ OneElevation'
    BY SdkFrame DEF RefuseSession, Fixed, shared, bounds, Onward
<1>2. SdkTypes' /\ AnswerComes' /\ SdkPlaces' /\ EarnedByResult'
    BY SessionAssumption
       DEF SdkInv, SdkTypes, AnswerComes, SdkPlaces, EarnedByResult,
           RefuseSession, Fixed, shared, bounds, Doing, Lease, Onward,
           SdkThread, Leases, LeaseState, NoneActive, TurnOver, Ended, Early,
           Over, SdkSound
<1> QED BY <1>1, <1>2 DEF SdkInv

LEMMA SdkSessionRefused ==
    ASSUME SdkInv, SessionRefused
    PROVE  SdkInv'
<1>1. OneAsks' /\ Heard' /\ OneElevation'
    BY ProcessFrame DEF SessionRefused, Fixed, shared, bounds
<1>2. SdkTypes'
    BY ZenonT(40), SessionAssumption
       DEF SdkInv, SdkTypes, SessionRefused, Fixed, shared, bounds, Doing,
           Mark, Accepted, Unsuspended, ProcessEnds, SdkThread, Asking, Call,
           NoCall, Say, Leases, LeaseState, Tasks, Ended, WorkerTypes
<1>3. AnswerComes'
    BY SessionAssumption
       DEF SdkInv, SdkTypes, AnswerComes, SessionRefused, Fixed, shared,
           bounds, Doing, Mark, Accepted, Unsuspended, ProcessEnds,
           SdkThread, Asking, Call, NoCall, Say, Leases, LeaseState, Tasks,
           Ended, WorkerTypes, NoneActive, TurnOver, Early, Over
<1>4. SdkPlaces' /\ EarnedByResult'
    BY SessionAssumption
       DEF SdkInv, SdkTypes, SdkPlaces, EarnedByResult, SessionRefused,
           Fixed, shared, bounds, Doing, Mark, Accepted, Unsuspended,
           ProcessEnds, SdkThread, Asking, Call, NoCall, Say, Leases,
           LeaseState, Tasks, Ended, WorkerTypes, SdkSound, TurnOver, Early,
           Over
<1> QED BY <1>1, <1>2, <1>3, <1>4 DEF SdkInv

LEMMA SdkStartRecovers ==
    ASSUME SdkInv, StartRecovers
    PROVE  SdkInv'
<1>1. SdkTypes' /\ OneAsks' /\ Heard' /\ AnswerComes'
    BY ZenonT(40), SessionAssumption
       DEF SdkInv, SdkTypes, OneAsks, Heard, AnswerComes, StartRecovers,
           Fixed, shared, bounds, Doing, Lease, Onward, Recovery, Stored,
           SdkThread, Rec, Leases, LeaseState, Control, Say, WorkerTypes,
           Pending, NoneActive, Call, NoCall, TurnOver, Ended, Early, Over,
           SdkPlaces
<1>2. SdkPlaces' /\ EarnedByResult' /\ OneElevation'
    BY SessionAssumption
       DEF SdkInv, SdkTypes, SdkPlaces, EarnedByResult, OneElevation,
           StartRecovers, Fixed, shared, bounds, Doing, Lease, Onward,
           Recovery, Stored, SdkThread, Rec, Leases, LeaseState, Control,
           Say, WorkerTypes, SdkSound, TurnOver, Early, Ended, Over
<1> QED BY <1>1, <1>2 DEF SdkInv

LEMMA SdkStartSession ==
    ASSUME SdkInv, StartSession
    PROVE  SdkInv'
<1>1. OneAsks' /\ Heard' /\ OneElevation'
    BY SdkFrame DEF StartSession, Fixed, shared, bounds
<1>2. SdkTypes' /\ AnswerComes' /\ SdkPlaces' /\ EarnedByResult'
    BY SessionAssumption
       DEF SdkInv, SdkTypes, AnswerComes, SdkPlaces, EarnedByResult,
           StartSession, Fixed, shared, bounds, Doing, SdkThread,
           WorkerTypes, NoneActive, TurnOver, Ended, Early, Over, SdkSound
<1> QED BY <1>1, <1>2 DEF SdkInv

LEMMA SdkResultMessage ==
    ASSUME SdkInv, ResultMessage
    PROVE  SdkInv'
<1>1. OneAsks' /\ Heard' /\ OneElevation'
    BY SdkFrame DEF ResultMessage, Fixed, shared, bounds
<1>2. SdkTypes' /\ AnswerComes' /\ SdkPlaces' /\ EarnedByResult'
    BY SessionAssumption
       DEF SdkInv, SdkTypes, AnswerComes, SdkPlaces, EarnedByResult,
           ResultMessage, Fixed, shared, bounds, TurnRuns, Server, Over,
           NoneActive, TurnOver, Ended, Early, SdkSound
<1> QED BY <1>1, <1>2 DEF SdkInv

LEMMA SdkAgentDies ==
    ASSUME SdkInv, AgentDies
    PROVE  SdkInv'
<1>1. OneAsks' /\ Heard' /\ OneElevation'
    BY SdkFrame DEF AgentDies, Fixed, shared, bounds
<1>2. SdkTypes' /\ AnswerComes'
    BY SessionAssumption
       DEF SdkInv, SdkTypes, AnswerComes, AgentDies, Fixed, shared, bounds,
           Fault, Down, Server, Over, NoneActive, TurnOver, Ended, Early
<1>3. SdkPlaces' /\ EarnedByResult'
    BY SessionAssumption
       DEF SdkInv, SdkTypes, SdkPlaces, EarnedByResult, AgentDies, Fixed,
           shared, bounds, Fault, Down, Server, Over, SdkSound, TurnOver,
           Early, Ended
<1> QED BY <1>1, <1>2, <1>3 DEF SdkInv

LEMMA SdkAgentLeft ==
    ASSUME SdkInv, AgentLeft
    PROVE  SdkInv'
<1>1. OneAsks' /\ Heard' /\ OneElevation'
    BY SdkFrame DEF AgentLeft, Fixed, shared, bounds
<1>2. SdkTypes' /\ AnswerComes'
    BY SessionAssumption
       DEF SdkInv, SdkTypes, AnswerComes, AgentLeft, Fixed, shared, bounds,
           Down, Server, Over, NoneActive, TurnOver, Ended, Early
<1>3. SdkPlaces' /\ EarnedByResult'
    BY SessionAssumption
       DEF SdkInv, SdkTypes, SdkPlaces, EarnedByResult, AgentLeft, Fixed,
           shared, bounds, Down, Server, Over, SdkSound, TurnOver, Early,
           Ended
<1> QED BY <1>1, <1>2, <1>3 DEF SdkInv

LEMMA SdkConnect ==
    ASSUME SdkInv, Connect
    PROVE  SdkInv'
<1>1. OneAsks' /\ Heard' /\ OneElevation'
    BY SdkFrame DEF Connect, Fixed, shared, bounds, Onward
<1>2. AnswerComes' /\ SdkPlaces' /\ EarnedByResult'
    BY SessionAssumption
       DEF SdkInv, SdkTypes, AnswerComes, SdkPlaces, EarnedByResult, Connect,
           Fixed, shared, bounds, Doing, Lease, Onward, Fault, Server, Over,
           SdkThread, Leases, LeaseState, NoneActive, TurnOver, Ended, Early,
           SdkSound
<1>3. SdkTypes'
  <2>1. server' \in Server
    BY DEF SdkInv, SdkTypes, Connect, Doing, Lease, Onward, Fault, Server,
           Over
  <2>2. sdk' \in SdkThread
    BY DEF SdkInv, SdkTypes, Connect, Doing, Lease, Onward, Fault, SdkThread
  <2>3. lease' \in Leases
    BY DEF SdkInv, SdkTypes, Connect, Doing, Lease, Onward, Fault, Leases,
           LeaseState
  <2> QED BY <2>1, <2>2, <2>3
         DEF SdkInv, SdkTypes, WorkerTypes, Connect, Fixed, shared, bounds
<1> QED BY <1>1, <1>2, <1>3 DEF SdkInv

LEMMA SdkSafetyTimeout ==
    ASSUME SdkInv, SafetyTimeout
    PROVE  SdkInv'
<1>1. OneAsks' /\ Heard' /\ OneElevation'
    BY SdkFrame DEF SafetyTimeout, Fixed, shared, bounds, Onward
<1>2. SdkTypes' /\ AnswerComes' /\ SdkPlaces' /\ EarnedByResult'
    BY SessionAssumption
       DEF SdkInv, SdkTypes, AnswerComes, SdkPlaces, EarnedByResult,
           SafetyTimeout, Fixed, shared, bounds, Doing, Onward, SdkThread,
           NoneActive, TurnOver, Ended, Early, Over, SdkSound
<1> QED BY <1>1, <1>2 DEF SdkInv

LEMMA SdkRecordDeath ==
    ASSUME SdkInv, RecordDeath
    PROVE  SdkInv'
<1>1. OneAsks' /\ Heard' /\ AnswerComes' /\ SdkPlaces' /\ EarnedByResult' /\ OneElevation'
    BY SessionAssumption
       DEF SdkInv, SdkTypes, OneAsks, Heard, AnswerComes, SdkPlaces,
           EarnedByResult, OneElevation, RecordDeath, Fixed, shared, bounds,
           Doing, Onward, Invalidates, SdkThread, Asking, Call, NoCall, Say,
           Control, Plane, Pending, NoneActive, TurnOver, Ended, Early, Over,
           SdkSound
<1>2. SdkTypes'
  <2>1. sdk' \in SdkThread
    BY DEF SdkInv, SdkTypes, RecordDeath, Doing, Onward, Invalidates,
           SdkThread
  <2>2. asking' \in Asking
    BY DEF SdkInv, SdkTypes, RecordDeath, Doing, Onward, Invalidates, Asking
  <2>3. control' \in Control
    BY DEF SdkInv, SdkTypes, RecordDeath, Doing, Onward, Invalidates,
           Control, Say
  <2>4. plane' \in Plane
    BY DEF SdkInv, SdkTypes, RecordDeath, Doing, Onward, Invalidates, Plane
  <2> QED BY <2>1, <2>2, <2>3, <2>4
         DEF SdkInv, SdkTypes, WorkerTypes, RecordDeath, Fixed, shared, bounds
<1> QED BY <1>1, <1>2 DEF SdkInv

LEMMA SdkMarkStale ==
    ASSUME SdkInv, MarkStale
    PROVE  SdkInv'
<1>1. OneAsks' /\ Heard' /\ OneElevation'
    BY SdkFrame DEF MarkStale, Fixed, shared, bounds
<1>2. AnswerComes' /\ SdkPlaces' /\ EarnedByResult'
    BY SessionAssumption
       DEF SdkInv, SdkTypes, AnswerComes, SdkPlaces, EarnedByResult,
           MarkStale, Fixed, shared, bounds, Doing, Lease, Recovery, Stored,
           SdkThread, Leases, LeaseState, Rec, NoneActive, TurnOver, Ended,
           Early, Over, SdkSound
<1>3. SdkTypes'
  <2>1. sdk' \in SdkThread
    BY DEF SdkInv, SdkTypes, MarkStale, Doing, Lease, Recovery, Stored,
           SdkThread, Rec
  <2>2. lease' \in Leases
    BY DEF SdkInv, SdkTypes, MarkStale, Doing, Lease, Recovery, Stored,
           Leases, LeaseState, Rec
  <2> QED BY <2>1, <2>2
         DEF SdkInv, SdkTypes, WorkerTypes, MarkStale, Fixed, shared, bounds
<1> QED BY <1>1, <1>2, <1>3 DEF SdkInv

LEMMA SdkCapture ==
    ASSUME SdkInv, Capture
    PROVE  SdkInv'
<1>1. OneAsks' /\ Heard' /\ OneElevation'
    BY SdkFrame DEF Capture, Fixed, shared, bounds, Onward
<1>2. SdkTypes' /\ AnswerComes' /\ SdkPlaces' /\ EarnedByResult'
    BY SessionAssumption
       DEF SdkInv, SdkTypes, AnswerComes, SdkPlaces, EarnedByResult, Capture,
           Fixed, shared, bounds, Doing, Lease, Onward, SdkThread, Leases,
           LeaseState, NoneActive, TurnOver, Ended, Early, Over, SdkSound
<1> QED BY <1>1, <1>2 DEF SdkInv

LEMMA SdkStopTransport ==
    ASSUME SdkInv, StopTransport
    PROVE  SdkInv'
<1>1. OneAsks' /\ Heard' /\ OneElevation'
    BY SdkFrame DEF StopTransport, Fixed, shared, bounds
<1>2. SdkTypes' /\ AnswerComes'
    BY SessionAssumption
       DEF SdkInv, SdkTypes, AnswerComes, StopTransport, Fixed, shared,
           bounds, Doing, Down, Fault, SdkThread, Server, Over, NoneActive,
           TurnOver, Ended, Early
<1>3. SdkPlaces' /\ EarnedByResult'
    BY ZenonT(40), SessionAssumption
       DEF SdkInv, SdkTypes, SdkPlaces, EarnedByResult, StopTransport, Fixed,
           shared, bounds, Doing, Down, Fault, SdkThread, Server, Over,
           SdkSound, TurnOver, Early, Ended
<1> QED BY <1>1, <1>2, <1>3 DEF SdkInv

LEMMA SdkEndLease ==
    ASSUME SdkInv, EndLease
    PROVE  SdkInv'
<1>1. OneAsks' /\ Heard' /\ OneElevation'
    BY SdkFrame DEF EndLease, Fixed, shared, bounds, Onward
<1>2. SdkTypes' /\ AnswerComes' /\ SdkPlaces' /\ EarnedByResult'
    BY SessionAssumption
       DEF SdkInv, SdkTypes, AnswerComes, SdkPlaces, EarnedByResult,
           EndLease, Fixed, shared, bounds, Doing, Lease, Onward, SdkThread,
           Leases, LeaseState, NoneActive, TurnOver, Ended, Early, Over,
           SdkSound
<1> QED BY <1>1, <1>2 DEF SdkInv

LEMMA SdkPublish ==
    ASSUME SdkInv, Publish
    PROVE  SdkInv'
<1>1. OneAsks' /\ Heard' /\ OneElevation'
    BY SdkFrame DEF Publish, Fixed, shared, bounds, Onward
<1>2. SdkTypes' /\ AnswerComes' /\ SdkPlaces' /\ EarnedByResult'
    BY SessionAssumption
       DEF SdkInv, SdkTypes, AnswerComes, SdkPlaces, EarnedByResult, Publish,
           Fixed, shared, bounds, Doing, Onward, SdkThread, Rec, NoneActive,
           TurnOver, Ended, Early, Over, SdkSound
<1> QED BY <1>1, <1>2 DEF SdkInv

LEMMA SdkPollResult ==
    ASSUME SdkInv, PollResult
    PROVE  SdkInv'
<1>1. OneAsks' /\ Heard' /\ OneElevation'
    BY SdkFrame DEF PollResult, Fixed, shared, bounds, Ordinary
<1>2. SdkTypes' /\ AnswerComes' /\ SdkPlaces' /\ EarnedByResult'
    BY SessionAssumption
       DEF SdkInv, SdkTypes, AnswerComes, SdkPlaces, EarnedByResult,
           PollResult, Fixed, shared, bounds, Sees, Ordinary, WorkerTypes,
           NoneActive, TurnOver, Ended, Early, Over, SdkSound
<1> QED BY <1>1, <1>2 DEF SdkInv

LEMMA SdkPollPlane ==
    ASSUME SdkInv, PollPlane
    PROVE  SdkInv'
<1>1. OneAsks' /\ Heard' /\ OneElevation'
    BY SdkFrame DEF PollPlane, Fixed, shared, bounds, Ordinary
<1>2. SdkTypes' /\ AnswerComes' /\ SdkPlaces' /\ EarnedByResult'
    BY SessionAssumption
       DEF SdkInv, SdkTypes, AnswerComes, SdkPlaces, EarnedByResult,
           PollPlane, Fixed, shared, bounds, Sees, Ordinary, Recovery,
           Stored, WorkerTypes, Rec, NoneActive, TurnOver, Ended, Early,
           Over, SdkSound
<1> QED BY <1>1, <1>2 DEF SdkInv

LEMMA SdkPollBeat ==
    ASSUME SdkInv, PollBeat
    PROVE  SdkInv'
<1>1. OneAsks' /\ Heard' /\ OneElevation'
    BY SdkFrame DEF PollBeat, Fixed, shared, bounds, Ordinary
<1>2. SdkTypes' /\ AnswerComes' /\ SdkPlaces' /\ EarnedByResult'
    BY SessionAssumption
       DEF SdkInv, SdkTypes, AnswerComes, SdkPlaces, EarnedByResult,
           PollBeat, Fixed, shared, bounds, Lease, Ordinary, Leases,
           LeaseState, WorkerTypes, NoneActive, TurnOver, Ended, Early, Over,
           SdkSound
<1> QED BY <1>1, <1>2 DEF SdkInv

LEMMA SdkLeaves ==
    ASSUME SdkInv, Leaves
    PROVE  SdkInv'
<1>1. OneAsks' /\ Heard' /\ OneElevation'
    BY ProcessFrame DEF Leaves, Fixed, shared, bounds
<1>2. SdkTypes' /\ AnswerComes'
    BY SessionAssumption
       DEF SdkInv, SdkTypes, AnswerComes, Leaves, Fixed, shared, bounds,
           ProcessEnds, WorkerTypes, SdkThread, Asking, Call, NoCall, Say,
           NoneActive, TurnOver, Ended, Early, Over
<1>3. SdkPlaces' /\ EarnedByResult'
    BY SessionAssumption
       DEF SdkInv, SdkTypes, SdkPlaces, EarnedByResult, Leaves, Fixed,
           shared, bounds, ProcessEnds, WorkerTypes, SdkThread, Asking, Call,
           NoCall, Say, SdkSound, TurnOver, Early, Ended, Over
<1> QED BY <1>1, <1>2, <1>3 DEF SdkInv

LEMMA SdkWorkerDies ==
    ASSUME SdkInv, WorkerDies
    PROVE  SdkInv'
<1>1. OneAsks' /\ Heard' /\ OneElevation'
    BY ProcessFrame DEF WorkerDies, Fixed, shared, bounds
<1>2. SdkTypes' /\ AnswerComes'
    BY SessionAssumption
       DEF SdkInv, SdkTypes, AnswerComes, WorkerDies, Fixed, shared, bounds,
           ProcessEnds, Fault, WorkerTypes, SdkThread, Asking, Call, NoCall,
           Say, NoneActive, TurnOver, Ended, Early, Over
<1>3. SdkPlaces' /\ EarnedByResult'
    BY SessionAssumption
       DEF SdkInv, SdkTypes, SdkPlaces, EarnedByResult, WorkerDies, Fixed,
           shared, bounds, ProcessEnds, Fault, WorkerTypes, SdkThread,
           Asking, Call, NoCall, Say, SdkSound, TurnOver, Early, Ended, Over
<1> QED BY <1>1, <1>2, <1>3 DEF SdkInv

LEMMA SdkRecordAnswer ==
    ASSUME NEW say \in Say, SdkInv, RecordAnswer(say)
    PROVE  SdkInv'
<1>1. /\ SdkTypes' /\ OneAsks' /\ Heard' /\ AnswerComes' /\ SdkPlaces'
      /\ EarnedByResult' /\ OneElevation'
    BY SessionAssumption
       DEF SdkInv, SdkTypes, OneAsks, Heard, AnswerComes, SdkPlaces,
           EarnedByResult, OneElevation, RecordAnswer, Fixed, shared, bounds,
           Tasks, Ended, Control, Say, Pending, NoneActive, Call, NoCall,
           TurnOver, Early, Over, SdkSound
<1> QED BY <1>1 DEF SdkInv

LEMMA SdkTellPlane ==
    ASSUME SdkInv, TellPlane
    PROVE  SdkInv'
<1>1. OneAsks' /\ Heard'
    BY ZenonT(40), SessionAssumption
       DEF SdkInv, SdkTypes, OneAsks, Heard, TellPlane, Fixed, shared,
           bounds, Mark, Accepted, Unsuspended, Plane, Control, Say, Tasks,
           Ended, Leases, LeaseState, Pending, NoneActive, Call, NoCall
<1>2. AnswerComes'
    BY SessionAssumption
       DEF SdkInv, SdkTypes, AnswerComes, TellPlane, Fixed, shared, bounds,
           Mark, Accepted, Unsuspended, Plane, Control, Say, Tasks, Ended,
           Leases, LeaseState, NoneActive, TurnOver, Early, Over
<1>3. SdkPlaces'
    BY SessionAssumption
       DEF SdkInv, SdkTypes, SdkPlaces, TellPlane, Fixed, shared, bounds,
           Mark, Accepted, Unsuspended, Plane, Control, Say, Tasks, Ended,
           Leases, LeaseState, SdkSound, TurnOver, Early, Over, AnswerComes
<1>4. EarnedByResult'
    BY SessionAssumption
       DEF SdkInv, SdkTypes, EarnedByResult, TellPlane, Fixed, shared,
           bounds, Mark, Accepted, Unsuspended, Plane, Control, Say, Tasks,
           Ended, Leases, LeaseState, Over, TurnOver
<1>5. OneElevation'
    BY SessionAssumption
       DEF SdkInv, SdkTypes, OneElevation, TellPlane, Fixed, shared, bounds,
           Mark, Accepted, Unsuspended, Plane, Control, Say, Tasks, Ended,
           Leases, LeaseState, Heard
<1>6. SdkTypes'
  <2>1. plane' \in Plane
    BY DEF SdkInv, SdkTypes, TellPlane, Mark, Accepted, Unsuspended, Plane
  <2>2. control' \in Control
    BY DEF SdkInv, SdkTypes, TellPlane, Mark, Accepted, Unsuspended, Control,
           Say
  <2>3. task' \in Tasks
    BY DEF SdkInv, SdkTypes, TellPlane, Mark, Accepted, Unsuspended, Tasks,
           Ended
  <2>4. lease' \in Leases
    BY DEF SdkInv, SdkTypes, TellPlane, Mark, Accepted, Unsuspended, Leases,
           LeaseState
  <2> QED BY <2>1, <2>2, <2>3, <2>4
         DEF SdkInv, SdkTypes, WorkerTypes, TellPlane, Fixed, shared, bounds
<1> QED BY <1>1, <1>2, <1>3, <1>4, <1>5, <1>6 DEF SdkInv

LEMMA SdkDeadlinePasses ==
    ASSUME SdkInv, DeadlinePasses
    PROVE  SdkInv'
<1>1. SdkTypes' /\ OneAsks' /\ Heard' /\ AnswerComes'
    BY SessionAssumption
       DEF SdkInv, SdkTypes, OneAsks, Heard, AnswerComes, DeadlinePasses,
           Fixed, shared, bounds, Control, Say, Pending, NoneActive, Call,
           NoCall, TurnOver, Ended, Early, Over
<1>2. SdkPlaces' /\ EarnedByResult' /\ OneElevation'
    BY SessionAssumption
       DEF SdkInv, SdkTypes, SdkPlaces, EarnedByResult, OneElevation,
           DeadlinePasses, Fixed, shared, bounds, Control, Say, SdkSound,
           TurnOver, Early, Ended, Over
<1> QED BY <1>1, <1>2 DEF SdkInv

LEMMA SdkExpireWait ==
    ASSUME SdkInv, ExpireWait
    PROVE  SdkInv'
<1>1. OneAsks' /\ Heard' /\ OneElevation'
    BY SdkFrame DEF ExpireWait, Fixed, shared, bounds
<1>2. SdkTypes' /\ AnswerComes' /\ SdkPlaces' /\ EarnedByResult'
    BY SessionAssumption
       DEF SdkInv, SdkTypes, AnswerComes, SdkPlaces, EarnedByResult,
           ExpireWait, Fixed, shared, bounds, Unsuspended, Tasks, Ended,
           Leases, LeaseState, NoneActive, TurnOver, Early, Over, SdkSound
<1> QED BY <1>1, <1>2 DEF SdkInv

LEMMA SdkTerminateGroup ==
    ASSUME SdkInv, TerminateGroup
    PROVE  SdkInv'
<1>1. OneAsks' /\ Heard' /\ OneElevation'
    BY ProcessFrame DEF TerminateGroup, Fixed, shared, bounds
<1>2. SdkTypes' /\ AnswerComes'
    BY SessionAssumption
       DEF SdkInv, SdkTypes, AnswerComes, TerminateGroup, Fixed, shared,
           bounds, ProcessEnds, Down, WorkerTypes, SdkThread, Asking, Call,
           NoCall, Say, Server, Over, NoneActive, TurnOver, Ended, Early
<1>3. SdkPlaces' /\ EarnedByResult'
    BY SessionAssumption
       DEF SdkInv, SdkTypes, SdkPlaces, EarnedByResult, TerminateGroup,
           Fixed, shared, bounds, ProcessEnds, Down, WorkerTypes, SdkThread,
           Asking, Call, NoCall, Say, Server, Over, SdkSound, TurnOver,
           Early, Ended
<1> QED BY <1>1, <1>2, <1>3 DEF SdkInv

LEMMA SdkReap ==
    ASSUME SdkInv, Reap, UNCHANGED <<command, sdk, asking, control>>
    PROVE  SdkInv'
<1>1. /\ UNCHANGED <<server, plane, rec, worker, closing, asks>>
      /\ worker.pc = "gone" /\ task' = "recovery" /\ lease' \in Leases
    BY DEF SdkInv, SdkTypes, Reap, bounds, Leases, LeaseState
<1>2. SdkTypes'
    BY <1>1 DEF SdkInv, SdkTypes, Tasks
<1>3. OneAsks' /\ Heard' /\ OneElevation'
    BY <1>1, SdkFrame
<1>4. AnswerComes' /\ SdkPlaces' /\ EarnedByResult'
    BY <1>1 DEF SdkInv, AnswerComes, NoneActive, TurnOver, SdkPlaces, SdkSound,
                EarnedByResult, Ended
<1> QED BY <1>2, <1>3, <1>4 DEF SdkInv

LEMMA SdkReserve ==
    ASSUME SdkInv, Reserve, UNCHANGED <<command, sdk, asking, control>>
    PROVE  SdkInv'
BY DEF Reserve, shared, bounds, SdkInv, SdkTypes, OneAsks, Pending, NoneActive, Heard,
       AnswerComes, TurnOver, SdkPlaces, SdkSound, EarnedByResult, OneElevation

LEMMA SdkStep ==
    ASSUME Sdk, SdkInv, SdkNext
    PROVE  SdkInv'
<1>1. ~Hermes
    BY SdkAssumption DEF Sdk, Hermes
<1>2. CASE UseTool \/ ResultMessage \/ AgentDies \/ AgentLeft
    BY <1>2, SdkUseTool, SdkResultMessage, SdkAgentDies, SdkAgentLeft
<1>3. CASE \E c \in Call : ToolEnds(c)
    BY <1>3, SdkToolEnds
<1>4. CASE Loop
  <2>1. ASSUME NEW c \in Call, Request(c)
        PROVE  SdkInv'
    <3>1. CASE /\ ~Refused /\ plane' = "pending"
               /\ asking' = [asking EXCEPT !.calls[c] = "waiting", !.waiter = "waits",
                                           !.requests = @ + 1]
               /\ UNCHANGED <<control, faults>>
      BY <2>1, <3>1, SdkRequestTaken
    <3>2. CASE /\ control' = [control EXCEPT !.dead = TRUE]
               /\ asking' = Answer(c, "error", NoCall) /\ UNCHANGED plane
      BY <2>1, <3>2, SdkRequestFails
    <3> QED BY <2>1, <3>1, <3>2 DEF Request
  <2> QED BY <1>4, <2>1, SdkContinue DEF Loop
<1>5. CASE Drive
    BY <1>5, SdkConnect, SdkStreamEnds, SdkSafetyTimeout, SdkRecordDeath, SdkMarkStale,
       SdkCapture, SdkStopTransport, SdkEndLease, SdkPublish DEF Drive
<1>6. CASE Main
    BY <1>1, <1>6, SdkRefuseSession, SdkSessionRefused, SdkStartRecovers, SdkStartSession,
       SdkPollResult, SdkPollPlane, SdkPollBeat, SdkBlockLive, SdkActOnResult, SdkLeaves
       DEF Main
<1>7. CASE Hear \/ WorkerDies \/ TellPlane \/ DeadlinePasses \/ ExpireWait \/ TerminateGroup
    BY <1>7, SdkHear, SdkWorkerDies, SdkTellPlane, SdkDeadlinePasses, SdkExpireWait,
       SdkTerminateGroup
<1>8. CASE \E say \in Say : RecordAnswer(say)
    BY <1>8, SdkRecordAnswer
<1>9. CASE (Reap \/ Reserve) /\ UNCHANGED <<command, sdk, asking, control>>
    BY <1>9, SdkReap, SdkReserve
<1> QED BY <1>2, <1>3, <1>4, <1>5, <1>6, <1>7, <1>8, <1>9 DEF SdkNext

LEMMA SdkRest ==
    ASSUME SdkInv, UNCHANGED svars
    PROVE  SdkInv'
BY DEF svars, cvars, vars, shared, bounds, SdkInv, SdkTypes, OneAsks, Pending, NoneActive,
       Heard, AnswerComes, TurnOver, SdkPlaces, SdkSound, EarnedByResult, OneElevation

LEMMA SdkStarts ==
    ASSUME SdkInit, NEW full \in BOOLEAN, asking = NoAsking(full), sdk = NoSdk,
           control = NoControl
    PROVE  SdkInv
<1>1. /\ asking \in Asking /\ NoneActive /\ asking.requests = 0 /\ asking.gate = "safe"
      /\ asking.waiter = "none" /\ \A c \in Call : asking.calls[c] = "none"
      /\ asking.anchor = NoCall /\ (asking.bypass => asking.full)
    BY SessionAssumption DEF NoAsking, Asking, NoneActive, NoCall, Say
<1>2. SdkTypes
    BY <1>1, SessionAssumption
       DEF SdkInit, SdkTypes, NoSdk, NoControl, SdkThread, Control, Recovery, Stored, Rec,
           Leases, LeaseState, Server, Plane, WorkerTypes, Tasks
<1>3. OneAsks /\ Heard /\ OneElevation
    BY <1>1 DEF SdkInit, OneAsks, Pending, Heard, OneElevation, NoControl, Say, NoneActive
<1>4. AnswerComes /\ SdkPlaces /\ EarnedByResult
    BY <1>1 DEF SdkInit, AnswerComes, SdkPlaces, EarnedByResult, NoControl, NoSdk, Recovery,
                Stored, SdkSound, Ended, Early
<1> QED BY <1>2, <1>3, <1>4 DEF SdkInv

-----------------------------------------------------------------------------
(* A command: Command<Action> shows that <Action> keeps CommandInv.        *)

\* The child killed, and its group.
LEMMA KilledIs ==
    ASSUME NEW c \in Command
    PROVE  /\ Killed(c) \in Command /\ GroupKilled(c) \in Command
           /\ WithoutHelper(c) \in Command
           /\ Killed(c).child = IF c.child = "running" THEN "killed" ELSE c.child
           /\ Killed(c).helper = c.helper /\ Killed(c).holds = c.holds
           /\ GroupKilled(c).child = c.child
           /\ GroupKilled(c).helper \in {c.helper, "none"} \ {"group"}
           /\ WithoutHelper(c).helper = "none" /\ WithoutHelper(c).child = c.child
           /\ \A k \in {Killed(c), GroupKilled(c), WithoutHelper(c)} :
                 /\ k.at = c.at /\ k.late = c.late /\ k.interrupted = c.interrupted
                 /\ k.unbound = c.unbound /\ k.told = c.told
<1>1. /\ WithoutHelper(c) \in Command /\ WithoutHelper(c).child = c.child
      /\ WithoutHelper(c).helper = "none" /\ WithoutHelper(c).holds = FALSE
      /\ WithoutHelper(c).at = c.at /\ WithoutHelper(c).late = c.late
      /\ WithoutHelper(c).interrupted = c.interrupted
      /\ WithoutHelper(c).unbound = c.unbound /\ WithoutHelper(c).told = c.told
    BY DEF Command, WithoutHelper
<1>2. /\ Killed(c) \in Command /\ Killed(c).helper = c.helper /\ Killed(c).holds = c.holds
      /\ Killed(c).child = IF c.child = "running" THEN "killed" ELSE c.child
      /\ Killed(c).at = c.at /\ Killed(c).late = c.late
      /\ Killed(c).interrupted = c.interrupted
      /\ Killed(c).unbound = c.unbound /\ Killed(c).told = c.told
    BY DEF Command, Killed
<1> QED BY <1>1, <1>2 DEF GroupKilled, Command

LEMMA CommandWatchdog ==
    ASSUME CommandInv, Watchdog
    PROVE  CommandInv'
<1>a. /\ UNCHANGED <<run, rec, lease, task, closing>> /\ command \in Command
      /\ worker'.pc = "gone" /\ worker'.seen = worker.seen /\ worker' \in Worker
    BY DEF CommandInv, CommandTypes, Watchdog, shared, Exit, Worker
<1>b. /\ command' \in Command
      /\ command'.at = command.at /\ command'.late = command.late
      /\ command'.interrupted = command.interrupted /\ command'.unbound = command.unbound
      /\ \/ command'.child = command.child
         \/ command.child = "running" /\ command'.child = "killed"
      /\ \/ command'.helper = command.helper /\ command'.holds = command.holds
         \/ command'.helper = "none"
    BY <1>a, KilledIs DEF Watchdog
<1>1. CommandTypes' /\ CommandPlaces'
    BY <1>a, <1>b DEF CommandInv, CommandTypes, CommandPlaces, Cancelled, CodexExec, OpenCode
<1>2. CommandTold'
    BY <1>a, <1>b
       DEF CommandInv, CommandTold, CommandSound, CompletedSound, FailedSound,
           Clear, GroupAlive, PipeHeld, Lives, OpenCode
<1> QED BY <1>1, <1>2 DEF CommandInv

LEMMA CommandTerminated ==
    ASSUME CommandInv, Terminated
    PROVE  CommandInv'
<1>a. /\ UNCHANGED <<run, rec, lease, task>> /\ closing = "reserved" /\ closing' = "signalled"
      /\ command \in Command /\ worker \in Worker /\ ~command.interrupted
    BY DEF CommandInv, CommandTypes, CommandPlaces, Cancelled, Terminated, shared
<1>b. CASE Translated
  <2>1. /\ command' = [command EXCEPT !.interrupted = Starting] /\ UNCHANGED worker
    BY <1>b DEF Terminated
  <2>2. /\ command'.at = command.at /\ command'.child = command.child
        /\ command'.helper = command.helper /\ command'.holds = command.holds
        /\ command'.late = command.late /\ command'.unbound = command.unbound
        /\ command' \in Command /\ CodexExec
    BY <1>a, <1>b, <2>1 DEF Command, Translated, Starting
  <2>3. CommandTypes' /\ CommandTold'
    BY <1>a, <2>1, <2>2
       DEF CommandInv, CommandTypes, CommandTold, CommandSound, CompletedSound, FailedSound,
           Clear, GroupAlive, PipeHeld, Lives, OpenCode
  <2>4. CommandPlaces'
    BY <1>a, <2>1, <2>2 DEF CommandInv, CommandPlaces, Cancelled, CodexExec, OpenCode
  <2> QED BY <2>3, <2>4 DEF CommandInv
<1>c. CASE ~Translated
  <2>1. /\ worker'.pc = "gone" /\ worker'.seen = worker.seen /\ worker' \in Worker
        /\ \/ command' = command
           \/ command' = GroupKilled(Killed(command)) /\ ~OpenCode
    BY <1>a, <1>c DEF Terminated, Exit, Worker
  <2>2. /\ command' \in Command
        /\ command'.at = command.at /\ command'.late = command.late
        /\ command'.interrupted = command.interrupted /\ command'.unbound = command.unbound
        /\ \/ command'.child = command.child
           \/ command.child = "running" /\ command'.child = "killed"
        /\ command'.helper \in {command.helper, "none"}
        /\ OpenCode => command' = command
    BY <1>a, <2>1, KilledIs
  <2>3. CommandTypes' /\ CommandPlaces'
    BY <1>a, <2>1, <2>2
       DEF CommandInv, CommandTypes, CommandPlaces, Cancelled, CodexExec, OpenCode
  <2>4. CommandTold'
    BY <1>a, <2>1, <2>2
       DEF CommandInv, CommandTold, CommandSound, CompletedSound, FailedSound,
           Clear, GroupAlive, PipeHeld, Lives, OpenCode
  <2> QED BY <2>3, <2>4 DEF CommandInv
<1> QED BY <1>b, <1>c

LEMMA CommandReadStatus ==
    ASSUME CommandInv, ReadStatus, UNCHANGED command
    PROVE  CommandInv'
<1>a. /\ UNCHANGED <<run, rec, lease, task, closing, command>> /\ rec \in Rec
      /\ worker.pc = "status" /\ worker'.pc = "result" /\ worker' \in Worker
      /\ worker'.seen.status = rec.status /\ worker'.seen.result = "none"
    BY DEF CommandInv, CommandTypes, ReadStatus, shared, bounds, Worker, Rec
<1>1. CommandTypes' /\ CommandPlaces'
    BY <1>a DEF CommandInv, CommandTypes, CommandPlaces, Cancelled, CodexExec, OpenCode
<1>2. CommandTold'
    BY <1>a DEF CommandInv, CommandTold, CommandSound, CompletedSound, FailedSound,
                Clear, GroupAlive, PipeHeld, Lives, OpenCode
<1> QED BY <1>1, <1>2 DEF CommandInv

LEMMA CommandReadResult ==
    ASSUME CommandInv, ReadResult, UNCHANGED command
    PROVE  CommandInv'
<1>a. /\ UNCHANGED <<run, rec, lease, task, closing, command>> /\ rec \in Rec
      /\ worker.pc = "result" /\ worker'.pc \in {"poll", "act"} /\ worker' \in Worker
      /\ worker'.seen.status = worker.seen.status /\ worker'.seen.result = rec.result
      /\ worker.seen.status = rec.status
    BY DEF CommandInv, CommandTypes, CommandTold, ReadResult, shared, bounds, Worker, Rec
<1>1. CommandTypes' /\ CommandPlaces'
    BY <1>a DEF CommandInv, CommandTypes, CommandPlaces, Cancelled, CodexExec, OpenCode
<1>2. CommandTold'
    BY <1>a DEF CommandInv, CommandTold, CommandSound, CompletedSound, FailedSound,
                Clear, GroupAlive, PipeHeld, Lives, OpenCode
<1> QED BY <1>1, <1>2 DEF CommandInv

\* What the worker makes of the result it read.
LEMMA Judged ==
    ASSUME ~Hermes, Mark(Verdict), ~(Status("input_required") /\ Result("failure"))
    PROVE  /\ task' = task \/ (task' = "completed" /\ worker.seen.status = "completed")
                  \/ (task' = "failed" /\ worker.seen.status = "failed")
                  \/ task' = "recovery"
BY DEF Mark, Verdict, Unreceipted, Torn, Arbitrated, Status, Result

LEMMA CommandAct ==
    ASSUME CommandInv, Act, UNCHANGED command, ~Hermes
    PROVE  CommandInv'
<1>a. /\ UNCHANGED <<run, rec, closing, command>> /\ worker \in Worker /\ lease \in Leases
      /\ worker.pc = "act" /\ worker'.pc = "gone" /\ worker'.seen = worker.seen
      /\ worker' \in Worker /\ lease' \in Leases
    BY DEF CommandInv, CommandTypes, Act, Exit, Worker, Mark, Unsuspended, Leases, LeaseState,
           bounds
<1>b. /\ task' = task \/ (task' = "completed" /\ worker.seen.status = "completed")
                  \/ (task' = "failed" /\ worker.seen.status = "failed")
                  \/ task' = "recovery"
    BY Judged DEF CommandInv, CommandTold, CommandSound, Status, Result, Act
<1>1. CommandTypes'
    BY <1>a, <1>b DEF CommandInv, CommandTypes, Tasks, Ended
<1>2. CommandPlaces'
    BY <1>a DEF CommandInv, CommandPlaces, Cancelled, CodexExec, OpenCode
<1>3. CommandTold'
    BY <1>a, <1>b DEF CommandInv, CommandTold, CommandSound, CompletedSound, FailedSound,
                Clear, GroupAlive, PipeHeld, Lives, OpenCode
<1> QED BY <1>1, <1>2, <1>3 DEF CommandInv

\* What the collected output makes of the run.
LEMMA RoutedIs ==
    ASSUME CommandInv, command.at = "collect", worker.pc = "command",
           NEW out, NEW r \in Routed(out)
    PROVE  /\ r \in Rec /\ r.status # "running"
           /\ ~(r.status = "input_required" /\ r.result = "failure")
           /\ r.status = "completed" =>
                 /\ command.child = "zero" /\ Declared(out) = "done"
                 /\ OpenCode => Stopped
           /\ r.status = "failed" /\ OpenCode =>
                 (command.child = "killed" => command.late) /\ command.child # "stuck"
<1>1. CASE command.child = "zero" /\ Declared(out) # "none"
  <2>1. r.status = (IF Declared(out) = "done" THEN "completed" ELSE "input_required")
        /\ r.result \in {"outcome", "none"} /\ r \in Rec
    BY <1>1 DEF Routed, Stored, Rec
  <2>2. Declared(out) = "done" /\ OpenCode => Stopped
    BY DEF Declared, Gated
  <2> QED BY <1>1, <2>1, <2>2
<1>2. CASE ~(command.child = "zero" /\ Declared(out) # "none")
  <2>1. /\ r \in {Stored("needs_recovery", "failure"), Stored("failed", "failure")} \cup AtLimit
        /\ r = Stored("failed", "failure") => ~Retryable(out)
    BY <1>2 DEF Routed, AtLimit, Stored
  <2>2. r = Stored("failed", "failure") /\ OpenCode =>
            (command.child = "killed" => command.late) /\ command.child # "stuck"
    BY <2>1 DEF Retryable, Stopped, Reaped, CommandInv, CommandPlaces, OpenCode, CodexExec
  <2>3. /\ r.status = "failed" => r = Stored("failed", "failure")
        /\ r \in Rec /\ r.status \notin {"running", "completed"}
        /\ ~(r.status = "input_required" /\ r.result = "failure")
    BY <2>1 DEF Stored, AtLimit, Rec
  <2> QED BY <2>2, <2>3
<1> QED BY <1>1, <1>2

\* What every adapter's end of executor.start has in common.
LEMMA CollectIs ==
    ASSUME CommandInv, Collect
    PROVE  /\ UNCHANGED <<run, task, closing>>
           /\ worker.pc = "command" /\ command.at = "collect"
           /\ command' \in Command /\ rec' \in Rec /\ lease' \in Leases /\ worker' \in Worker
           /\ command'.child = command.child /\ command'.helper = command.helper
           /\ command'.holds = command.holds /\ command'.late = command.late
           /\ command'.interrupted = command.interrupted /\ command'.unbound = command.unbound
           /\ worker'.seen = worker.seen
           /\ \/ command'.at = "refused" /\ worker' = worker /\ rec' = rec /\ CodexExec
              \/ command'.at = "returned" /\ worker'.pc = "start"
           /\ CommandSound(rec')
           /\ lease'.disk = "closed" /\ OpenCode => Stopped
<1>a. /\ worker.pc = "command" /\ command.at = "collect" /\ command \in Command
      /\ worker \in Worker /\ rec \in Rec /\ UNCHANGED <<run, task, closing>>
      /\ rec.status = "running"
    BY DEF CommandInv, CommandTypes, CommandPlaces, Collect, InStart, Starting, Rested
<1>b. /\ CommandSound(Stored("needs_recovery", "failure")) /\ CommandSound(rec)
      /\ Stored("needs_recovery", "failure") \in Rec
    BY DEF CommandInv, CommandTold, CommandSound, Stored, Rec
<1>c. \A state \in LeaseState : Lease(state) => lease' \in Leases /\ lease'.disk = state
    BY DEF Lease, Leases
<1>d. \A whole \in BOOLEAN : Move([command EXCEPT !.told = whole], "returned") =>
          /\ command' \in Command /\ command'.at = "returned"
          /\ command'.child = command.child /\ command'.helper = command.helper
          /\ command'.holds = command.holds /\ command'.late = command.late
          /\ command'.interrupted = command.interrupted /\ command'.unbound = command.unbound
    BY <1>a DEF Move, Command
<1>e. \A at \in {"returned", "refused"} : Move(command, at) =>
          /\ command' \in Command /\ command'.at = at
          /\ command'.child = command.child /\ command'.helper = command.helper
          /\ command'.holds = command.holds /\ command'.late = command.late
          /\ command'.interrupted = command.interrupted /\ command'.unbound = command.unbound
    BY <1>a DEF Move, Command
<1>f. Returned => worker'.pc = "start" /\ worker'.seen = worker.seen /\ worker' \in Worker
    BY <1>a DEF Returned, Worker
<1>g. PICK out \in Outputs :
          IF OpenCode THEN CollectOpenCode(out)
          ELSE IF CodexExec THEN CollectExec(out) ELSE CollectRun(out)
    BY DEF Collect
<1>h. Whole(out) \in BOOLEAN /\ (Whole(out) /\ ~PipeHeld) \in BOOLEAN
    BY DEF Whole
<1>i. ASSUME OpenCode \/ (~command.late /\ ~command.unbound /\ ~command.interrupted),
             NEW r \in Routed(out)
      PROVE  r \in Rec /\ CommandSound(r)
  <2>1. r.status = "failed" => FailedSound
    <3>1. CASE OpenCode
      BY <1>a, <3>1, RoutedIs DEF FailedSound, CommandInv, CommandPlaces, Command
    <3>2. CASE ~OpenCode
      BY <1>a, <1>i, <3>2 DEF FailedSound, CommandInv, CommandPlaces, Command
    <3> QED BY <3>1, <3>2
  <2>2. r.status = "completed" => CompletedSound
    BY <1>a, RoutedIs DEF CompletedSound, Stopped, Clear
  <2> QED BY <1>a, <2>1, <2>2, RoutedIs DEF CommandSound
<1>1. CASE OpenCode
  <2>1. CollectOpenCode(out)
    BY <1>1, <1>g
  <2>2. rec' \in Rec /\ CommandSound(rec')
    BY <1>1, <1>i, <2>1 DEF CollectOpenCode
  <2>3. lease' \in Leases /\ (lease'.disk = "closed" => Stopped)
    BY <1>c, <2>1 DEF CollectOpenCode, LeaseLeft, LeaseState
  <2> QED BY <1>a, <1>d, <1>f, <1>h, <2>1, <2>2, <2>3 DEF CollectOpenCode
<1>2. CASE ~OpenCode /\ CodexExec
  <2>1. CollectExec(out)
    BY <1>2, <1>g
  <2>2. CASE PipeHeld \/ command.unbound
    <3>1. Lease("closed") /\ Move(command, "refused") /\ UNCHANGED <<rec, worker>>
      BY <2>1, <2>2 DEF CollectExec
    <3> QED BY <1>2, <1>a, <1>b, <1>c, <1>e, <3>1 DEF LeaseState
  <2>3. CASE command.late /\ ~PipeHeld /\ ~command.unbound
    <3>1. Lease("stale") /\ Recovering /\ Move(command, "returned") /\ Returned
      BY <2>1, <2>3 DEF CollectExec
    <3> QED BY <1>2, <1>a, <1>b, <1>c, <1>e, <1>f, <3>1 DEF LeaseState, Recovering
  <2>4. CASE ~command.late /\ ~PipeHeld /\ ~command.unbound
    <3>1. /\ Lease("closed") /\ (IF command.interrupted THEN Recovering ELSE rec' \in Routed(out))
          /\ Move([command EXCEPT !.told = Whole(out)], "returned") /\ Returned
      BY <2>1, <2>4 DEF CollectExec
    <3>2. rec' \in Rec /\ CommandSound(rec')
      BY <1>b, <1>i, <2>4, <3>1 DEF Recovering
    <3> QED BY <1>2, <1>a, <1>c, <1>d, <1>f, <1>h, <3>1, <3>2 DEF LeaseState
  <2> QED BY <2>2, <2>3, <2>4
<1>3. CASE ~OpenCode /\ ~CodexExec
  <2>1. CollectRun(out)
    BY <1>3, <1>g
  <2>2. ~command.unbound /\ ~command.interrupted
    BY <1>3 DEF CommandInv, CommandPlaces
  <2>3. rec' \in Rec /\ CommandSound(rec') /\ lease' \in Leases
    BY <1>b, <1>c, <1>i, <2>1, <2>2 DEF CollectRun, Recovering, LeaseState
  <2> QED BY <1>3, <1>a, <1>d, <1>f, <1>h, <2>1, <2>3 DEF CollectRun
<1> QED BY <1>1, <1>2, <1>3

LEMMA CommandCollect ==
    ASSUME CommandInv, Collect
    PROVE  CommandInv'
<1>1. CommandTypes'
    BY CollectIs DEF CommandInv, CommandTypes
<1>2. CommandPlaces'
    BY CollectIs DEF CommandInv, CommandPlaces, CommandTypes, Cancelled, CodexExec, OpenCode
<1>a. /\ OpenCode' = OpenCode /\ Lives' = Lives /\ Clear' = Clear
      /\ CompletedSound' = CompletedSound /\ FailedSound' = FailedSound
    BY CollectIs DEF OpenCode, Lives, Clear, GroupAlive, PipeHeld, CompletedSound, FailedSound
<1>b. CommandSound(rec)' /\ CommandSound(worker.seen)'
    BY <1>a, CollectIs DEF CommandSound, CommandInv, CommandTold
<1>c. lease'.disk = "closed" => ~Lives /\ command.child # "running" /\ (OpenCode => Clear)
  <2>1. Stopped => ~Lives /\ Clear
    BY DEF Stopped, Lives, Reaped, Clear
  <2>2. command.child # "running" /\ (command.child = "stuck" => OpenCode)
    BY CollectIs DEF CommandInv, CommandPlaces
  <2> QED BY <2>1, <2>2, CollectIs DEF Lives
<1>3. CommandTold'
    BY <1>a, <1>b, <1>c, CollectIs DEF CommandTold, CommandInv, CommandPlaces, Ended
<1> QED BY <1>1, <1>2, <1>3 DEF CommandInv

LEMMA CommandRefuse ==
    ASSUME CommandInv, Refuse
    PROVE  CommandInv'
BY DEF CommandInv, CommandTypes, CommandPlaces, CommandTold, Refuse,
           InStart, Starting, Rested, Move, Lease, Command, Leases,
           LeaseState, GroupAlive, PipeHeld, Lives, OpenCode, CodexExec,
           Cancelled, Reaped, Ended, CommandSound, CompletedSound,
           FailedSound, Clear

LEMMA CommandUnfit ==
    ASSUME CommandInv, Unfit
    PROVE  CommandInv'
BY DEF CommandInv, CommandTypes, CommandPlaces, CommandTold, Unfit,
           InStart, Starting, Rested, Move, Lease, Command, Leases,
           LeaseState, GroupAlive, PipeHeld, Lives, OpenCode, CodexExec,
           Cancelled, Reaped, Ended, CommandSound, CompletedSound,
           FailedSound, Clear

LEMMA CommandUnspawned ==
    ASSUME CommandInv, Unspawned
    PROVE  CommandInv'
BY DEF CommandInv, CommandTypes, CommandPlaces, CommandTold, Unspawned,
           InStart, Starting, Rested, Move, Lease, Returned, Stored, Command,
           Leases, LeaseState, Rec, Worker, GroupAlive, PipeHeld, Lives,
           OpenCode, CodexExec, Cancelled, Reaped, Ended, CommandSound,
           CompletedSound, FailedSound, Clear

LEMMA CommandSpawn ==
    ASSUME CommandInv, Spawn
    PROVE  CommandInv'
BY DEF CommandInv, CommandTypes, CommandPlaces, CommandTold, Spawn,
           InStart, Starting, Rested, Move, Lease, vars, shared, bounds,
           Command, GroupAlive, PipeHeld, Lives, OpenCode, CodexExec,
           Cancelled, Reaped, Ended, CommandSound, CompletedSound,
           FailedSound, Clear

LEMMA CommandExited ==
    ASSUME CommandInv, Exited
    PROVE  CommandInv'
BY DEF CommandInv, CommandTypes, CommandPlaces, CommandTold, Exited,
           InStart, Starting, Rested, Move, Lease, vars, AllOver, shared,
           bounds, Command, GroupAlive, PipeHeld, Lives, OpenCode, CodexExec,
           Cancelled, Reaped, Ended, CommandSound, CompletedSound,
           FailedSound, Clear

LEMMA CommandDeadline ==
    ASSUME CommandInv, Deadline
    PROVE  CommandInv'
<1>1. CommandTypes'
    BY DEF CommandInv, CommandTypes, Deadline, InStart, Starting, Rested,
           Move, Lease, vars, Overdue, AllOver, Killed, shared, bounds,
           Command
<1>2. CommandPlaces' /\ CommandTold'
    BY ZenonT(40) DEF CommandInv, CommandTypes, CommandPlaces, Deadline, InStart,
           Starting, Rested, Move, Lease, vars, Overdue, AllOver, Killed,
           shared, bounds, Command, GroupAlive, PipeHeld, Lives, OpenCode,
           CodexExec, Cancelled, Reaped, Ended, CommandTold, CommandSound,
           CompletedSound, FailedSound, Clear
<1> QED BY <1>1, <1>2 DEF CommandInv

LEMMA CommandInterrupted ==
    ASSUME CommandInv, Interrupted
    PROVE  CommandInv'
BY DEF CommandInv, CommandTypes, CommandPlaces, CommandTold, Interrupted,
           InStart, Starting, Rested, Move, Lease, vars, Killed, GroupKilled,
           WithoutHelper, shared, bounds, Command, GroupAlive, PipeHeld,
           Lives, OpenCode, CodexExec, Cancelled, Reaped, Ended,
           CommandSound, CompletedSound, FailedSound, Clear

LEMMA CommandUnbound ==
    ASSUME CommandInv, Unbound
    PROVE  CommandInv'
BY DEF CommandInv, CommandTypes, CommandPlaces, CommandTold, Unbound,
           InStart, Starting, Rested, Move, Lease, vars, Killed, shared,
           bounds, Command, GroupAlive, PipeHeld, Lives, OpenCode, CodexExec,
           Cancelled, Reaped, Ended, CommandSound, CompletedSound,
           FailedSound, Clear

LEMMA CommandTerminate ==
    ASSUME CommandInv, Terminate
    PROVE  CommandInv'
BY ZenonT(40) DEF CommandInv, CommandTypes, CommandPlaces, CommandTold, Terminate,
           InStart, Starting, Rested, Move, Lease, Fault, Command,
           GroupAlive, PipeHeld, Lives, OpenCode, CodexExec, Cancelled,
           Reaped, Ended, CommandSound, CompletedSound, FailedSound, Clear

LEMMA CommandReclaim ==
    ASSUME CommandInv, Reclaim
    PROVE  CommandInv'
BY ZenonT(40) DEF CommandInv, CommandTypes, CommandPlaces, CommandTold, Reclaim,
           InStart, Starting, Rested, Move, Lease, Fault, GroupKilled,
           WithoutHelper, Command, GroupAlive, PipeHeld, Lives, OpenCode,
           CodexExec, Cancelled, Reaped, Ended, CommandSound, CompletedSound,
           FailedSound, Clear

LEMMA CommandUnexpected ==
    ASSUME CommandInv, Unexpected
    PROVE  CommandInv'
BY DEF CommandInv, CommandTypes, CommandPlaces, CommandTold, Unexpected,
           InStart, Starting, Rested, Move, Lease, Fault, Recovering, Stored,
           Command, Rec, Leases, LeaseState, GroupAlive, PipeHeld, Lives,
           OpenCode, CodexExec, Cancelled, Reaped, Ended, CommandSound,
           CompletedSound, FailedSound, Clear

LEMMA CommandUnwind ==
    ASSUME CommandInv, Unwind
    PROVE  CommandInv'
BY DEF CommandInv, CommandTypes, CommandPlaces, CommandTold, Unwind,
           InStart, Starting, Rested, Move, Lease, Returned, Command, Worker,
           Rec, GroupAlive, PipeHeld, Lives, OpenCode, CodexExec, Cancelled,
           Reaped, Ended, CommandSound, CompletedSound, FailedSound, Clear

LEMMA CommandHeartbeatThread ==
    ASSUME CommandInv, HeartbeatThread
    PROVE  CommandInv'
BY DEF CommandInv, CommandTypes, CommandPlaces, CommandTold,
           HeartbeatThread, InStart, Starting, Rested, Move, Lease, Leases,
           LeaseState, GroupAlive, PipeHeld, Lives, OpenCode, CodexExec,
           Cancelled, Reaped, Ended, CommandSound, CompletedSound,
           FailedSound, Clear

LEMMA CommandNotStarted ==
    ASSUME CommandInv, NotStarted
    PROVE  CommandInv'
BY DEF CommandInv, CommandTypes, CommandPlaces, CommandTold, NotStarted,
           InStart, Starting, Rested, Move, Lease, Mark, Accepted,
           Unsuspended, Exit, At, Tasks, Ended, Leases, LeaseState, Worker,
           Rec, GroupAlive, PipeHeld, Lives, OpenCode, CodexExec, Cancelled,
           Reaped, CommandSound, CompletedSound, FailedSound, Clear

LEMMA CommandChildEnds ==
    ASSUME CommandInv, ChildEnds
    PROVE  CommandInv'
BY DEF CommandInv, CommandTypes, CommandPlaces, CommandTold, ChildEnds,
           InStart, Starting, Rested, Move, Lease, vars, shared, bounds,
           Command, GroupAlive, PipeHeld, Lives, OpenCode, CodexExec,
           Cancelled, Reaped, Ended, CommandSound, CompletedSound,
           FailedSound, Clear

LEMMA CommandFork ==
    ASSUME CommandInv, Fork
    PROVE  CommandInv'
<1>1. CommandTypes'
    BY DEF CommandInv, CommandTypes, Fork, InStart, Starting, Rested, Move,
           Lease, vars, shared, bounds, Command
<1>2. CommandPlaces' /\ CommandTold'
    BY DEF CommandInv, CommandTypes, CommandPlaces, Fork, InStart, Starting,
           Rested, Move, Lease, vars, shared, bounds, Command, GroupAlive,
           PipeHeld, Lives, OpenCode, CodexExec, Cancelled, Reaped, Ended,
           CommandTold, CommandSound, CompletedSound, FailedSound, Clear
<1> QED BY <1>1, <1>2 DEF CommandInv

LEMMA CommandHelperEnds ==
    ASSUME CommandInv, HelperEnds
    PROVE  CommandInv'
<1>1. CommandTypes'
    BY DEF CommandInv, CommandTypes, HelperEnds, InStart, Starting, Rested,
           Move, Lease, vars, WithoutHelper, shared, bounds, Command
<1>2. CommandPlaces' /\ CommandTold'
    BY DEF CommandInv, CommandTypes, CommandPlaces, HelperEnds, InStart,
           Starting, Rested, Move, Lease, vars, WithoutHelper, shared,
           bounds, Command, GroupAlive, PipeHeld, Lives, OpenCode, CodexExec,
           Cancelled, Reaped, Ended, CommandTold, CommandSound,
           CompletedSound, FailedSound, Clear
<1> QED BY <1>1, <1>2 DEF CommandInv

LEMMA CommandPoll ==
    ASSUME CommandInv, Poll, UNCHANGED command, ~Hermes, ~Codex
    PROVE  CommandInv'
BY DEF CommandInv, CommandTypes, CommandPlaces, CommandTold, Poll, Step,
           Hermes, shared, bounds, Worker, Rec, GroupAlive, PipeHeld, Lives,
           OpenCode, CodexExec, Cancelled, Reaped, Ended, CommandSound,
           CompletedSound, FailedSound, Clear

LEMMA CommandBeat ==
    ASSUME CommandInv, Beat, UNCHANGED command, ~Hermes, ~Codex
    PROVE  CommandInv'
BY DEF CommandInv, CommandTypes, CommandPlaces, CommandTold, Beat, Step,
           shared, bounds, Worker, Rec, Leases, LeaseState, GroupAlive,
           PipeHeld, Lives, OpenCode, CodexExec, Cancelled, Reaped, Ended,
           CommandSound, CompletedSound, FailedSound, Clear

LEMMA CommandBlock ==
    ASSUME CommandInv, Block, UNCHANGED command, ~Hermes, ~Codex
    PROVE  CommandInv'
BY DEF CommandInv, CommandTypes, CommandPlaces, CommandTold, Block, Exit,
           At, Mark, Accepted, Unsuspended, Step, shared, bounds, Worker,
           Rec, Tasks, Ended, Leases, LeaseState, GroupAlive, PipeHeld,
           Lives, OpenCode, CodexExec, Cancelled, Reaped, CommandSound,
           CompletedSound, FailedSound, Clear

LEMMA CommandWait ==
    ASSUME CommandInv, Wait, UNCHANGED command, ~Hermes, ~Codex
    PROVE  CommandInv'
BY DEF CommandInv, CommandTypes, CommandPlaces, CommandTold, Wait, Exit,
           At, Mark, Accepted, Unsuspended, Step, Waits, Result, Arbitrated,
           Status, shared, bounds, Worker, Rec, Tasks, Ended, Leases,
           LeaseState, GroupAlive, PipeHeld, Lives, OpenCode, CodexExec,
           Cancelled, Reaped, CommandSound, CompletedSound, FailedSound,
           Clear

LEMMA CommandLeave ==
    ASSUME CommandInv, Leave, UNCHANGED command, ~Hermes, ~Codex
    PROVE  CommandInv'
BY DEF CommandInv, CommandTypes, CommandPlaces, CommandTold, Leave, Exit,
           At, shared, bounds, Worker, Rec, GroupAlive, PipeHeld, Lives,
           OpenCode, CodexExec, Cancelled, Reaped, Ended, CommandSound,
           CompletedSound, FailedSound, Clear

LEMMA CommandCrash ==
    ASSUME CommandInv, Crash, UNCHANGED command, ~Hermes, ~Codex
    PROVE  CommandInv'
BY DEF CommandInv, CommandTypes, CommandPlaces, CommandTold, Crash, Exit,
           At, Fault, shared, bounds, Worker, Rec, GroupAlive, PipeHeld,
           Lives, OpenCode, CodexExec, Cancelled, Reaped, Ended,
           CommandSound, CompletedSound, FailedSound, Clear

LEMMA CommandReap ==
    ASSUME CommandInv, Reap, UNCHANGED command, ~Hermes, ~Codex
    PROVE  CommandInv'
BY DEF CommandInv, CommandTypes, CommandPlaces, CommandTold, Reap,
           shared, bounds, Tasks, Ended, Leases, LeaseState, GroupAlive,
           PipeHeld, Lives, OpenCode, CodexExec, Cancelled, Reaped,
           CommandSound, CompletedSound, FailedSound, Clear

LEMMA CommandReserve ==
    ASSUME CommandInv, Reserve, UNCHANGED command, ~Hermes, ~Codex
    PROVE  CommandInv'
BY DEF CommandInv, CommandTypes, CommandPlaces, CommandTold, Reserve,
           shared, bounds, GroupAlive, PipeHeld, Lives, OpenCode, CodexExec,
           Cancelled, Reaped, Ended, CommandSound, CompletedSound,
           FailedSound, Clear

-----------------------------------------------------------------------------
(* Induction over a length.                                                *)

\* Induction over an interval: where the step fails, the elements below it that
\* fail have each a predecessor, which is one pigeonhole too few.
LEMMA Upward ==
    ASSUME NEW N \in Nat, NEW S, 0 \in S, \A n \in 1..N : n - 1 \in S => n \in S
    PROVE  \A n \in 0..N : n \in S
<1> SUFFICES ASSUME NEW m \in 0..N, m \notin S PROVE FALSE
    OBVIOUS
<1> DEFINE B == {n \in 0..m : n \notin S}
           C == B \ {m}
           f == [n \in B |-> n - 1]
<1>1. IsFiniteSet(B)
  <2>1. IsFiniteSet(0..m)
    BY FS_Interval
  <2> QED BY <2>1, FS_Subset
<1>2. m \in B /\ IsFiniteSet(C) /\ Cardinality(C) = Cardinality(B) - 1
    BY <1>1, FS_RemoveElement
<1>3. Cardinality(C) < Cardinality(B)
    BY <1>1, <1>2, FS_CardinalityType
<1>4. f \in [B -> C]
  <2>1. \A n \in B : n # 0 /\ n \in 1..N /\ n - 1 \in 0..m /\ n - 1 # m
    OBVIOUS
  <2>2. \A n \in B : n - 1 \notin S
    BY <2>1
  <2> QED BY <2>1, <2>2
<1>5. \E x, y \in B : x # y /\ f[x] = f[y]
  <2> HIDE DEF B, C, f
  <2> QED BY <1>1, <1>2, <1>3, <1>4, FS_PigeonHole
<1> QED BY <1>5

\* What is defined by recursion over a length exists.
Steps(N, T) == [1..N -> [T -> T]]
Unfolds(g, N, base, next) == g[0] = base /\ \A n \in 1..N : g[n] = next[n][g[n-1]]

LEMMA Recursion ==
    ASSUME NEW N \in Nat, NEW T, NEW base \in T, NEW next \in Steps(N, T)
    PROVE  \E g \in [0..N -> T] : Unfolds(g, N, base, next)
<1> USE DEF Steps
<1> DEFINE Upto(n) == \E g \in [0..n -> T] :
                          g[0] = base /\ \A k \in 1..n : g[k] = next[k][g[k-1]]
           S == {n \in 0..N : Upto(n)}
<1>1. Upto(0)
  <2> DEFINE g == [k \in 0..0 |-> base]
  <2>1. g \in [0..0 -> T] /\ g[0] = base
    OBVIOUS
  <2>2. \A k \in 1..0 : g[k] = next[k][g[k-1]]
    OBVIOUS
  <2> HIDE DEF g
  <2> QED BY <2>1, <2>2
<1>2. ASSUME NEW n \in 1..N, Upto(n-1)
      PROVE  Upto(n)
  <2>1. PICK g \in [0..n-1 -> T] : g[0] = base /\ \A k \in 1..n-1 : g[k] = next[k][g[k-1]]
    BY <1>2
  <2> DEFINE h == [k \in 0..n |-> IF k = n THEN next[n][g[n-1]] ELSE g[k]]
  <2>2. h \in [0..n -> T]
    <3>1. next[n][g[n-1]] \in T
      BY <2>1
    <3>2. \A k \in 0..n : k # n => k \in 0..n-1
      OBVIOUS
    <3> QED BY <2>1, <3>1, <3>2
  <2>3. h[0] = base
    BY <2>1
  <2>4. ASSUME NEW k \in 1..n
        PROVE  h[k] = next[k][h[k-1]]
    <3>1. h[k-1] = g[k-1] /\ k - 1 \in 0..n
      OBVIOUS
    <3>2. CASE k = n
      BY <3>1, <3>2
    <3>3. CASE k # n
      <4>1. k \in 1..n-1 /\ h[k] = g[k]
        BY <3>3
      <4> QED BY <2>1, <3>1, <4>1
    <3> QED BY <3>2, <3>3
  <2> HIDE DEF h
  <2> QED BY <2>2, <2>3, <2>4
<1> HIDE DEF Upto
<1>3. 0 \in S /\ \A n \in 1..N : n - 1 \in S => n \in S
    BY <1>1, <1>2
<1>4. N \in S
  <2> HIDE DEF S
  <2>1. \A n \in 0..N : n \in S
    BY <1>3, Upward
  <2> QED BY <2>1
<1> QED BY <1>4 DEF Upto, Unfolds

-----------------------------------------------------------------------------
(* What a command says on its output.                                      *)

TurnState == [marked : BOOLEAN, open : BOOLEAN, stopped : BOOLEAN]
NoTurn == [marked |-> FALSE, open |-> FALSE, stopped |-> FALSE]

LEMMA OutputIs ==
    ASSUME NEW out \in Outputs
    PROVE  out \in Seq(Kinds) /\ DOMAIN out = 1..Len(out)
BY CommandAssumption DEF Outputs

LEMMA TurnIs ==
    ASSUME NEW out \in Outputs
    PROVE  \E turn \in [0..Len(out) -> TurnState] :
               /\ LastTurn(out) = turn[Len(out)]
               /\ turn[0] = NoTurn
               /\ \A n \in 1..Len(out) : turn[n] = Turn(turn[n-1], out[n])
<1> DEFINE N == Len(out)
           After == [n \in 1..N |-> [t \in TurnState |-> Turn(t, out[n])]]
           Recurs(f) == f = [n \in 0..N |-> IF n = 0 THEN NoTurn ELSE Turn(f[n-1], out[n])]
<1>1. N \in Nat /\ NoTurn \in TurnState
    BY OutputIs DEF NoTurn, TurnState
<1>2. \A t \in TurnState : \A kind : Turn(t, kind) \in TurnState
    BY DEF Turn, TurnState
<1>3. After \in [1..N -> [TurnState -> TurnState]]
    BY <1>2
<1>4. PICK g \in [0..N -> TurnState] : g[0] = NoTurn /\ \A n \in 1..N : g[n] = After[n][g[n-1]]
  <2>1. After \in Steps(N, TurnState)
    BY <1>3 DEF Steps
  <2> HIDE DEF After, N
  <2>2. \E g \in [0..N -> TurnState] : Unfolds(g, N, NoTurn, After)
    BY <1>1, <2>1, Recursion
  <2> QED BY <2>2 DEF Unfolds
<1>5. \A n \in 1..N : n - 1 \in 0..N /\ g[n] = Turn(g[n-1], out[n])
  <2>1. \A n \in 1..N, t \in TurnState : After[n][t] = Turn(t, out[n])
    OBVIOUS
  <2>2. \A n \in 1..N : n - 1 \in 0..N /\ g[n-1] \in TurnState
    BY <1>1
  <2> HIDE DEF After
  <2> QED BY <1>4, <2>1, <2>2
<1>6. Recurs(g)
  <2>1. \A n \in 0..N : g[n] = IF n = 0 THEN NoTurn ELSE Turn(g[n-1], out[n])
    BY <1>1, <1>4, <1>5
  <2> QED BY <1>4, <2>1
<1> DEFINE turn == CHOOSE f : Recurs(f)
<1>7. Recurs(turn)
  <2> HIDE DEF Recurs
  <2> QED BY <1>6
<1>8. LastTurn(out) = turn[N]
    BY DEF LastTurn, NoTurn
<1> HIDE DEF turn
<1>9. turn[0] = NoTurn /\ \A n \in 1..N : turn[n] = Turn(turn[n-1], out[n])
    BY <1>1, <1>7
<1>10. \A n \in 0..N : turn[n] \in TurnState
  <2> DEFINE S == {n \in 0..N : turn[n] \in TurnState}
  <2>1. 0 \in S /\ \A n \in 1..N : n - 1 \in S => n \in S
    BY <1>1, <1>2, <1>9
  <2> HIDE DEF S
  <2>2. \A n \in 0..N : n \in S
    BY <1>1, <2>1, Upward
  <2> QED BY <2>2 DEF S
<1>11. turn \in [0..N -> TurnState]
    BY <1>7, <1>10
<1> QED BY <1>8, <1>9, <1>11

LEMMA PendingIs ==
    ASSUME NEW out \in Outputs
    PROVE  \E pending \in [0..Len(out) -> SUBSET Nat] :
               /\ PendingError(out) <=> pending[Len(out)] # {}
               /\ \A n \in 1..Len(out) :
                      /\ out[n] = "error" => n \in pending[n]
                      /\ out[n] # "retried" => pending[n-1] \subseteq pending[n]
<1> DEFINE N == Len(out)
           Goes(n, p) == IF n = 0 \/ out[n] = "retried" THEN {}
                         ELSE IF out[n] = "error" THEN p \cup {n} ELSE p
           After == [n \in 1..N |-> [p \in SUBSET Nat |-> Goes(n, p)]]
           Recurs(f) == f = [n \in 0..N |-> Goes(n, f[n-1])]
<1>1. N \in Nat /\ {} \in SUBSET Nat
    BY OutputIs
<1>2. \A n \in 0..N : n = 0 \/ (n \in 1..N /\ n - 1 \in 0..N)
    BY <1>1
<1>3. \A n \in Nat, p \in SUBSET Nat : Goes(n, p) \in SUBSET Nat
    OBVIOUS
<1>4. \A p : Goes(0, p) = {}
    OBVIOUS
<1>5. \A n \in 1..N : \A p : /\ out[n] = "error" => n \in Goes(n, p)
                             /\ out[n] # "retried" => p \subseteq Goes(n, p)
  <2> SUFFICES ASSUME NEW n \in 1..N, NEW p
               PROVE  /\ out[n] = "error" => n \in Goes(n, p)
                      /\ out[n] # "retried" => p \subseteq Goes(n, p)
    OBVIOUS
  <2>1. n # 0
    BY <1>1
  <2> QED BY <2>1
<1> HIDE DEF Goes
<1>6. After \in [1..N -> [SUBSET Nat -> SUBSET Nat]]
  <2>1. \A n \in 1..N : n \in Nat
    BY <1>1
  <2> QED BY <1>3, <2>1
<1>7. PICK g \in [0..N -> SUBSET Nat] : g[0] = {} /\ \A n \in 1..N : g[n] = After[n][g[n-1]]
  <2>1. After \in Steps(N, SUBSET Nat)
    BY <1>6 DEF Steps
  <2> HIDE DEF After, N
  <2>2. \E g \in [0..N -> SUBSET Nat] : Unfolds(g, N, {}, After)
    BY <1>1, <2>1, Recursion
  <2> QED BY <2>2 DEF Unfolds
<1>8. \A n \in 1..N : g[n] = Goes(n, g[n-1])
  <2>1. \A n \in 1..N, p \in SUBSET Nat : After[n][p] = Goes(n, p)
    OBVIOUS
  <2>2. \A n \in 1..N : n - 1 \in 0..N /\ g[n-1] \in SUBSET Nat
    BY <1>1
  <2> HIDE DEF After
  <2> QED BY <1>7, <2>1, <2>2
<1>9. Recurs(g)
  <2>1. \A n \in 0..N : g[n] = Goes(n, g[n-1])
    BY <1>2, <1>4, <1>7, <1>8
  <2> QED BY <1>7, <2>1
<1> DEFINE pending == CHOOSE f : Recurs(f)
<1>10. Recurs(pending)
  <2> HIDE DEF Recurs
  <2> QED BY <1>9
<1>11. PendingError(out) <=> pending[N] # {}
    BY DEF PendingError, Goes
<1> HIDE DEF pending
<1>12. \A n \in 0..N : pending[n] = Goes(n, pending[n-1])
    BY <1>10
<1>13. \A n \in 0..N : pending[n] \in SUBSET Nat
  <2> DEFINE S == {n \in 0..N : pending[n] \in SUBSET Nat}
  <2>1. 0 \in S
    BY <1>1, <1>12, <1>4
  <2>2. \A n \in 1..N : n - 1 \in S => n \in S
    BY <1>1, <1>12, <1>3
  <2> HIDE DEF S
  <2>3. \A n \in 0..N : n \in S
    BY <1>1, <2>1, <2>2, Upward
  <2> QED BY <2>3 DEF S
<1>14. pending \in [0..N -> SUBSET Nat]
    BY <1>10, <1>13
<1>15. \A n \in 1..N : /\ out[n] = "error" => n \in pending[n]
                       /\ out[n] # "retried" => pending[n-1] \subseteq pending[n]
  <2> SUFFICES ASSUME NEW n \in 1..N
               PROVE  /\ out[n] = "error" => n \in pending[n]
                      /\ out[n] # "retried" => pending[n-1] \subseteq pending[n]
    OBVIOUS
  <2>1. n \in 0..N
    BY <1>1
  <2>2. pending[n] = Goes(n, pending[n-1])
    BY <1>12, <2>1
  <2>3. /\ out[n] = "error" => n \in Goes(n, pending[n-1])
        /\ out[n] # "retried" => pending[n-1] \subseteq Goes(n, pending[n-1])
    BY <1>5
  <2> QED BY <2>2, <2>3
<1> QED BY <1>11, <1>14, <1>15

\* A normal stop is final if it ends the turn of a callback, and none follows.
LEMMA FinalStopIs ==
    ASSUME NEW out \in Outputs, FinalStop(out)
    PROVE  \E k \in DOMAIN out :
               /\ out[k] = "stop"
               /\ \E i \in 1..k-1 : /\ out[i] \in Markers
                                    /\ \A j \in i+1..k-1 : out[j] \notin Finishes
               /\ \A j \in k+1..Len(out) :
                      out[j] \notin Markers \cup Finishes \cup {"error", "retried", "stranger"}
<1> DEFINE N == Len(out)
           Held(n, i) == out[i] \in Markers /\ \A j \in i+1..n : out[j] \notin Finishes
           Last(n, k) == /\ out[k] = "stop"
                         /\ \E i \in 1..k-1 : Held(k-1, i)
                         /\ \A j \in k+1..n : out[j] \notin Finishes
           Quiets(n, k) == \A j \in k+1..n :
                             out[j] \notin Markers \cup {"error", "retried", "stranger"}
<1>1. PICK turn \in [0..N -> TurnState] :
               /\ LastTurn(out) = turn[N]
               /\ turn[0] = NoTurn
               /\ \A n \in 1..N : turn[n] = Turn(turn[n-1], out[n])
    BY TurnIs
<1>2. N \in Nat /\ DOMAIN out = 1..N
    BY OutputIs
<1> DEFINE Sound(n) ==
             /\ turn[n].marked => \E i \in 1..n : Held(n, i)
             /\ turn[n].stopped => \E k \in 1..n :
                    Last(n, k) /\ (~turn[n].open => Quiets(n, k))
           S == {n \in 0..N : Sound(n)}
<1>3. Sound(0)
    BY <1>1 DEF NoTurn
<1>4. ASSUME NEW n \in 1..N, Sound(n-1)
      PROVE  Sound(n)
  <2>0. /\ n \in Nat /\ n - 1 \in 0..N
        /\ turn[n-1] \in TurnState /\ turn[n] = Turn(turn[n-1], out[n])
        /\ 1..n-1 \subseteq 1..n /\ n \in 1..n /\ \A i \in 1..n : i \in 1..n-1 \/ i = n
        /\ \A i \in 1..n : \A j \in i+1..n : j \in i+1..n-1 \/ j = n
    BY <1>1, <1>2
  <2>1. CASE out[n] \in Markers
    <3>1. turn[n] = [turn[n-1] EXCEPT !.marked = TRUE, !.open = TRUE] /\ out[n] \notin Finishes
      BY <2>0, <2>1 DEF Turn, Markers, Finishes
    <3>2. turn[n].open = TRUE /\ turn[n].stopped = turn[n-1].stopped
      BY <2>0, <3>1 DEF TurnState
    <3>3. Held(n, n)
      BY <2>0, <2>1
    <3>4. \A k \in 1..n-1 : Last(n-1, k) => Last(n, k)
      BY <2>0, <3>1
    <3> HIDE DEF Held, Last, Quiets
    <3> QED BY <1>4, <2>0, <3>2, <3>3, <3>4
  <2>2. CASE out[n] \in {"error", "retried", "stranger"}
    <3>1. turn[n] = [turn[n-1] EXCEPT !.open = TRUE] /\ out[n] \notin Finishes
      BY <2>0, <2>2 DEF Turn, Markers, Finishes
    <3>2. turn[n].open = TRUE /\ turn[n].stopped = turn[n-1].stopped
          /\ turn[n].marked = turn[n-1].marked
      BY <2>0, <3>1 DEF TurnState
    <3>3. \A i \in 1..n-1 : Held(n-1, i) => Held(n, i)
      BY <2>0, <3>1
    <3>4. \A k \in 1..n-1 : Last(n-1, k) => Last(n, k)
      BY <2>0, <3>1
    <3> HIDE DEF Held, Last, Quiets
    <3> QED BY <1>4, <2>0, <3>2, <3>3, <3>4
  <2>3. CASE out[n] \in Finishes
    <3>1. turn[n] = [marked |-> FALSE, open |-> FALSE,
                     stopped |-> turn[n-1].marked /\ out[n] = "stop"]
      BY <2>0, <2>3 DEF Turn, Markers, Finishes
    <3>2. /\ ~turn[n].marked
          /\ turn[n].stopped <=> turn[n-1].marked /\ out[n] = "stop"
      BY <3>1
    <3>3. \A j \in n+1..n : FALSE
      BY <2>0
    <3>4. turn[n-1].marked /\ out[n] = "stop" => Last(n, n) /\ Quiets(n, n)
      <4>1. turn[n-1].marked => \E i \in 1..n-1 : Held(n-1, i)
        BY <1>4
      <4> HIDE DEF Held
      <4> QED BY <3>3, <4>1
    <3> HIDE DEF Held, Last, Quiets
    <3> QED BY <2>0, <3>2, <3>4
  <2>4. CASE out[n] \notin Markers \cup {"error", "retried", "stranger"} \cup Finishes
    <3>1. turn[n] = turn[n-1]
      BY <2>0, <2>4 DEF Turn
    <3>2. \A i \in 1..n-1 : Held(n-1, i) => Held(n, i)
      BY <2>0, <2>4
    <3>3. \A k \in 1..n-1 : (Last(n-1, k) => Last(n, k)) /\ (Quiets(n-1, k) => Quiets(n, k))
      BY <2>0, <2>4
    <3> HIDE DEF Held, Last, Quiets
    <3> QED BY <1>4, <2>0, <3>1, <3>2, <3>3
  <2> QED BY <2>1, <2>2, <2>3, <2>4
<1>5. Sound(N)
  <2> HIDE DEF Sound
  <2>1. 0 \in S /\ \A n \in 1..N : n - 1 \in S => n \in S
    BY <1>2, <1>3, <1>4
  <2> HIDE DEF S
  <2>2. \A n \in 0..N : n \in S
    BY <1>2, <2>1, Upward
  <2> QED BY <1>2, <2>2 DEF S
<1>6. PICK k \in 1..N : Last(N, k) /\ Quiets(N, k)
    BY <1>1, <1>5 DEF FinalStop
<1> QED BY <1>2, <1>6

\* An error that is never retried is pending.
LEMMA PendingErrorIs ==
    ASSUME NEW out \in Outputs, ~PendingError(out), NEW i \in DOMAIN out, out[i] = "error"
    PROVE  \E j \in i+1..Len(out) : out[j] = "retried"
<1> DEFINE N == Len(out)
<1>1. PICK pending \in [0..N -> SUBSET Nat] :
               /\ PendingError(out) <=> pending[N] # {}
               /\ \A n \in 1..N :
                      /\ out[n] = "error" => n \in pending[n]
                      /\ out[n] # "retried" => pending[n-1] \subseteq pending[n]
    BY PendingIs
<1>2. N \in Nat /\ i \in 1..N
    BY OutputIs
<1> SUFFICES ASSUME \A j \in i+1..N : out[j] # "retried"
             PROVE  FALSE
    OBVIOUS
<1> DEFINE S == {n \in 0..N : n >= i => i \in pending[n]}
<1>3. 0 \in S
    BY <1>2
<1>4. ASSUME NEW n \in 1..N, n - 1 \in S
      PROVE  n \in S
    BY <1>1, <1>2, <1>4
<1>5. \A n \in 0..N : n \in S
  <2> HIDE DEF S
  <2> QED BY <1>2, <1>3, <1>4, Upward
<1> QED BY <1>1, <1>2, <1>5

\* What the extraction and the gate take for a completion is whole: exactly one
\* valid callback and, of OpenCode, a normal stop after it with no event of
\* another turn, and neither a foreign session, garbage, a flood nor an error
\* that was not recovered - for any length of the output
\* (extract_callback_validation_from_output, collect_protocol_events,
\* _gate_protocol).
THEOREM DeclaredWhole ==
    ASSUME NEW out \in Outputs, Declared(out) = "done"
    PROVE  Whole(out)
<1>1. Marker(out) = "done"
    BY DEF Declared, Gated
<1>2. PICK i \in DOMAIN out : Marks(out) = {i} /\ out[i] = "done"
    BY <1>1 DEF Marker, Marks
<1>3. \A j \in DOMAIN out \ {i} : out[j] \notin Markers
    BY <1>2 DEF Marks
<1>4. ASSUME OpenCode
      PROVE  /\ \E k \in DOMAIN out :
                    /\ k > i /\ out[k] = "stop"
                    /\ \A j \in i+1 .. k-1 : out[j] \notin Finishes
                    /\ \A j \in k+1 .. Len(out) : out[j] = "transport"
             /\ \A j \in DOMAIN out : out[j] \notin {"garbage", "stranger", "flood"}
             /\ \A j \in DOMAIN out : out[j] = "error" =>
                    \E l \in j+1 .. Len(out) : out[l] = "retried"
  <2>1. /\ ~Has(out, "stranger") /\ ~Has(out, "flood") /\ ~Has(out, "garbage")
        /\ FinalStop(out) /\ ~PendingError(out)
    BY <1>1, <1>4 DEF Declared, Gated
  <2>2. \A j \in DOMAIN out : out[j] \notin {"garbage", "stranger", "flood"}
    BY <2>1 DEF Has
  <2>3. PICK k \in DOMAIN out :
               /\ out[k] = "stop"
               /\ \E m \in 1..k-1 : /\ out[m] \in Markers
                                    /\ \A j \in m+1..k-1 : out[j] \notin Finishes
               /\ \A j \in k+1..Len(out) :
                      out[j] \notin Markers \cup Finishes \cup {"error", "retried", "stranger"}
    BY <2>1, FinalStopIs
  <2>4. PICK m \in 1..k-1 : out[m] \in Markers /\ \A j \in m+1..k-1 : out[j] \notin Finishes
    BY <2>3
  <2>5. Len(out) \in Nat /\ DOMAIN out = 1..Len(out)
    BY OutputIs
  <2>6. m = i /\ k > i
    BY <1>3, <2>4, <2>5
  <2>7. ASSUME NEW j \in k+1..Len(out)
        PROVE  out[j] = "transport"
    <3>1. j \in DOMAIN out
      BY <2>5
    <3>2. out[j] \in Kinds
      BY <3>1, OutputIs
    <3> QED BY <1>4, <2>2, <2>3, <3>1, <3>2 DEF Kinds, Markers, Finishes
  <2> QED BY <2>1, <2>2, <2>3, <2>4, <2>6, <2>7, PendingErrorIs
<1> QED BY <1>2, <1>3, <1>4 DEF Whole

-----------------------------------------------------------------------------
(* Every step of a command.                                                *)

\* A command of the adapters that are none of a live session's.
LEMMA CommandKinds ==
    ASSUME OneCommand
    PROVE  ~Codex /\ ~Hermes /\ ~Sdk
BY CommandAssumption, SdkAssumption DEF OneCommand, Codex, Hermes, Sdk

LEMMA CommandStep ==
    ASSUME OneCommand, CommandInv, CNext
    PROVE  CommandInv'
<1>1. ~Codex /\ ~Hermes
    BY CommandKinds
<1>2. CASE Proceed
    BY <1>2, CommandRefuse, CommandUnfit, CommandUnspawned, CommandSpawn, CommandExited,
       CommandDeadline, CommandInterrupted, CommandTerminate, CommandReclaim, CommandCollect,
       CommandUnwind, CommandNotStarted DEF Proceed
<1>3. CASE Unbound \/ Unexpected \/ HeartbeatThread \/ ChildEnds \/ Fork \/ HelperEnds
    BY <1>3, CommandUnbound, CommandUnexpected, CommandHeartbeatThread, CommandChildEnds,
       CommandFork, CommandHelperEnds
<1>4. CASE Terminated \/ Watchdog
    BY <1>4, CommandTerminated, CommandWatchdog
<1>5. CASE Work /\ UNCHANGED command
  <2>1. ~Arbitrate
    BY <1>1 DEF Arbitrate, Arbitrated
  <2> QED BY <1>1, <1>5, <2>1, CommandPoll, CommandBeat, CommandReadStatus, CommandReadResult,
             CommandAct, CommandBlock, CommandWait, CommandLeave DEF Work
<1>6. CASE (Crash \/ Reap \/ Reserve) /\ UNCHANGED command
    BY <1>1, <1>6, CommandCrash, CommandReap, CommandReserve
<1> QED BY <1>2, <1>3, <1>4, <1>5, <1>6 DEF CNext

LEMMA CommandRest ==
    ASSUME CommandInv, UNCHANGED cvars
    PROVE  CommandInv'
BY DEF cvars, vars, shared, bounds, CommandInv, CommandTypes, CommandPlaces, CommandTold,
       CommandSound, CompletedSound, FailedSound, Clear, GroupAlive, PipeHeld, Lives,
       OpenCode, CodexExec, Cancelled

LEMMA CommandStarts ==
    ASSUME CommandInit, command = NoCommand
    PROVE  CommandInv
<1>1. CommandTypes
    BY DEF CommandInit, CommandTypes, NoCommand, Command, Rec, Leases, LeaseState, Worker, Tasks
<1>2. CommandPlaces /\ CommandTold
    BY DEF CommandInit, NoCommand, CommandPlaces, CommandTold, CommandSound, Ended, OpenCode,
           CodexExec, Lives
<1> QED BY <1>1, <1>2 DEF CommandInv

\* What is told of the output is what was collected of it.
LEMMA SaidWholeStep ==
    ASSUME OneCommand, CommandInv, SaidWhole, CNext
    PROVE  SaidWhole'
<1>1. ~Codex /\ ~Hermes
    BY CommandKinds
<1>0. /\ command \in Command /\ worker \in Worker /\ rec \in Rec
      /\ worker.pc = "command" => worker.seen.status = "running" /\ task \notin Ended
      /\ worker.pc = "result" => worker.seen.status = rec.status
      /\ command.at # "returned" => worker.pc \in {"command", "gone"}
    BY DEF CommandInv, CommandTypes, CommandPlaces, CommandTold
<1>2. CASE Collect
  <2>1. PICK out \in Outputs :
          IF OpenCode THEN CollectOpenCode(out)
          ELSE IF CodexExec THEN CollectExec(out) ELSE CollectRun(out)
    BY <1>2 DEF Collect
  <2>2. worker.pc = "command" /\ command.at = "collect" /\ worker'.seen = worker.seen
        /\ task' = task
    BY <1>2, CollectIs
  <2>3. rec' \in Routed(out) /\ rec'.status = "completed" => Whole(out) /\ (OpenCode => ~PipeHeld)
    BY <2>2, RoutedIs, DeclaredWhole DEF Stopped
  <2>4. (rec.status # "completed" /\ ~Recovering) \/ rec'.status # "completed"
    BY <2>2 DEF CommandInv, CommandPlaces, Recovering, Stored
  <2>5. \A whole \in BOOLEAN : Move([command EXCEPT !.told = whole], "returned") =>
            command'.told = whole
    BY <1>0 DEF Move, Command
  <2>6. Whole(out) \in BOOLEAN /\ (Whole(out) /\ ~PipeHeld) \in BOOLEAN
    BY DEF Whole
  <2>7. rec'.status = "completed" => command'.told
    <3>1. CASE OpenCode
      BY <2>1, <2>3, <2>5, <2>6, <3>1 DEF CollectOpenCode
    <3>2. CASE ~OpenCode /\ CodexExec
      <4>1. CollectExec(out)
        BY <2>1, <3>2
      <4>2. rec'.status = "completed" => rec' \in Routed(out)
                /\ Move([command EXCEPT !.told = Whole(out)], "returned")
        BY <2>2, <2>4, <4>1 DEF CollectExec, CommandInv, CommandPlaces
      <4> QED BY <2>3, <2>5, <2>6, <4>2
    <3>3. CASE ~OpenCode /\ ~CodexExec
      BY <2>1, <2>3, <2>4, <2>5, <2>6, <3>3 DEF CollectRun
    <3> QED BY <3>1, <3>2, <3>3
  <2> QED BY <1>0, <2>2, <2>7 DEF SaidWhole, Ended
<1>3. ASSUME command'.told = command.told, UNCHANGED task, worker'.seen = worker.seen,
             rec' = rec \/ rec'.status # "completed"
      PROVE  SaidWhole'
    BY <1>3 DEF SaidWhole
<1>4. CASE Proceed /\ ~Collect
  <2>1. CASE NotStarted
    BY <1>0, <2>1, <1>3 DEF NotStarted, Exit, Mark, SaidWhole, InStart, Starting, Worker
  <2>2. CASE Refuse \/ Unfit \/ Unspawned \/ Unwind
    BY <1>0, <1>3, <2>2
       DEF Refuse, Unfit, Unspawned, Unwind, Move, Command, Returned, Stored, Rested, Worker
  <2>3. CASE Spawn \/ Exited \/ Deadline
    BY <1>0, <1>3, <2>3
       DEF Spawn, Exited, Deadline, Move, Command, Killed, vars, shared
  <2>4. CASE Interrupted
    <3>1. command'.told = command.told
      BY <1>0, <2>4, KilledIs DEF Interrupted, Move, Command
    <3> QED BY <1>3, <2>4, <3>1 DEF Interrupted, vars, shared
  <2>5. CASE Terminate \/ Reclaim
    <3>1. command'.told = command.told
      <4>1. CASE Terminate
        BY <1>0, <4>1 DEF Terminate, Move, Command
      <4>2. CASE Reclaim
        BY <1>0, <4>2, KilledIs DEF Reclaim, Move, Command
      <4> QED BY <2>5, <4>1, <4>2
    <3> QED BY <1>3, <2>5, <3>1 DEF Terminate, Reclaim, Rested
  <2> QED BY <1>4, <2>1, <2>2, <2>3, <2>4, <2>5 DEF Proceed
<1>5. CASE Unbound \/ ChildEnds \/ Fork \/ HelperEnds
    BY <1>0, <1>3, <1>5
      
          DEF Unbound, ChildEnds, Fork, HelperEnds, Killed, WithoutHelper, Move, Command, vars,
              shared
<1>6. CASE Unexpected \/ HeartbeatThread
    BY <1>0, <1>3, <1>6
       DEF Unexpected, HeartbeatThread, Move, Command, Recovering, Stored, Rested
<1>7. CASE Terminated \/ Watchdog
  <2>1. command'.told = command.told
    <3>1. Killed(command) \in Command
      BY <1>0, KilledIs
    <3> QED BY <1>0, <1>7, <3>1, KilledIs DEF Terminated, Watchdog, Command
  <2> QED BY <1>0, <1>3, <1>7, <2>1 DEF Terminated, Watchdog, Exit, shared, Worker
<1>8. CASE Work /\ UNCHANGED command
  <2>1. CASE Act
    BY <1>0, <1>1, <1>8, <2>1, Judged
       DEF CommandInv, CommandTold, CommandSound, Status, Result, Act, Exit, SaidWhole, Worker
  <2>2. CASE ReadStatus \/ ReadResult
    BY <1>0, <1>8, <2>2 DEF ReadStatus, ReadResult, SaidWhole, shared, Rec, Worker
  <2>3. CASE Poll \/ Beat \/ Leave
    BY <1>0, <1>3, <1>8, <2>3 DEF Poll, Beat, Leave, Step, Exit, shared, Worker
  <2>4. CASE Block \/ Wait
    BY <1>0, <1>8, <2>4 DEF Block, Wait, Step, Exit, Mark, SaidWhole, Worker
  <2>5. ~Arbitrate
    BY <1>1 DEF Arbitrate, Arbitrated
  <2> QED BY <1>8, <2>1, <2>2, <2>3, <2>4, <2>5 DEF Work
<1>9. CASE (Crash \/ Reap \/ Reserve) /\ UNCHANGED command
    BY <1>0, <1>9 DEF Crash, Exit, Reap, Reserve, SaidWhole, shared, Worker
<1> QED BY <1>2, <1>4, <1>5, <1>6, <1>7, <1>8, <1>9 DEF CNext, OneCommand

-----------------------------------------------------------------------------
(* The pipe of a live session.                                             *)

Wire == [pipe : Seq(Messages), buf : Seq(Messages)]

\* What is said is what was said, and what is put.
LEMMA PutIs ==
    ASSUME wire \in Wire, NEW msgs \in Seq(Messages), Put(msgs)
    PROVE  /\ wire' \in Wire
           /\ \A m : Said(m)' => Said(m) \/ \E i \in DOMAIN msgs : msgs[i] = m
<1>1. /\ wire'.pipe = wire.pipe \o msgs /\ wire'.buf = wire.buf
      /\ wire' \in Wire
  <2>1. wire' = [pipe |-> wire.pipe \o msgs, buf |-> wire.buf]
    BY DEF Wire, Put
  <2>2. wire.pipe \o msgs \in Seq(Messages) /\ wire.buf \in Seq(Messages)
    BY DEF Wire
  <2> QED BY <2>1, <2>2 DEF Wire
<1>2. ASSUME NEW i \in DOMAIN (wire.pipe \o msgs)
      PROVE  \/ i \in DOMAIN wire.pipe /\ (wire.pipe \o msgs)[i] = wire.pipe[i]
             \/ \E j \in DOMAIN msgs : (wire.pipe \o msgs)[i] = msgs[j]
  <2>1. wire.pipe \in Seq(Messages)
    BY DEF Wire
  <2>2. i \in 1..Len(wire.pipe) + Len(msgs)
    BY <2>1
  <2>3. CASE i <= Len(wire.pipe)
    BY <2>1, <2>2, <2>3
  <2>4. CASE i > Len(wire.pipe)
    <3>1. i - Len(wire.pipe) \in DOMAIN msgs /\ (wire.pipe \o msgs)[i] = msgs[i - Len(wire.pipe)]
      BY <2>1, <2>2, <2>4
    <3> QED BY <3>1
  <2> QED BY <2>1, <2>2, <2>3, <2>4
<1> QED BY <1>1, <1>2 DEF Said

LEMMA PutOne ==
    ASSUME wire \in Wire, NEW msg \in Messages, Put(<<msg>>)
    PROVE  /\ wire' \in Wire
           /\ \A m : Said(m)' => Said(m) \/ m = msg
<1>1. /\ <<msg>> \in Seq(Messages)
      /\ \A i \in DOMAIN <<msg>> : <<msg>>[i] = msg
    OBVIOUS
<1> QED BY <1>1, PutIs

LEMMA PutTwo ==
    ASSUME wire \in Wire, NEW one \in Messages, NEW two \in Messages, Put(<<one, two>>)
    PROVE  /\ wire' \in Wire
           /\ \A m : Said(m)' => Said(m) \/ m = one \/ m = two
<1>1. /\ <<one, two>> \in Seq(Messages)
      /\ \A i \in DOMAIN <<one, two>> : <<one, two>>[i] \in {one, two}
    OBVIOUS
<1> QED BY <1>1, PutIs

\* A receive takes a line that was said.
LEMMA RestIs ==
    ASSUME wire \in Wire, Unread, wire' = Rest
    PROVE  /\ wire' \in Wire /\ Said(Line)
           /\ \A m : Said(m)' => Said(m)
<1>0. wire.pipe \in Seq(Messages) /\ wire.buf \in Seq(Messages)
    BY DEF Wire
<1>1. \A s \in Seq(Messages) : s # <<>> =>
          /\ Tail(s) \in Seq(Messages) /\ Head(s) = s[1] /\ 1 \in DOMAIN s
          /\ \A i \in DOMAIN Tail(s) : i + 1 \in DOMAIN s /\ Tail(s)[i] = s[i + 1]
    OBVIOUS
<1>2. CASE wire.buf # <<>>
  <2>1. wire'.buf = Tail(wire.buf) /\ wire'.pipe = wire.pipe /\ wire' \in Wire
    BY <1>0, <1>1, <1>2 DEF Rest, Wire
  <2>2. Line = wire.buf[1]
    <3>1. \A t, u \in Seq(Messages) : t # <<>> => Head(t \o u) = t[1]
      OBVIOUS
    <3> QED BY <1>0, <1>2, <3>1 DEF Line
  <2> QED BY <1>0, <1>1, <1>2, <2>1, <2>2 DEF Said
<1>3. CASE wire.buf = <<>>
  <2>1. /\ wire'.buf = Tail(wire.pipe) /\ wire'.pipe = <<>> /\ wire.pipe # <<>>
        /\ wire' \in Wire
    BY <1>0, <1>1, <1>3 DEF Rest, Wire, Unread
  <2>2. Line = wire.pipe[1]
    BY <1>0, <1>3, <2>1 DEF Line
  <2> QED BY <1>0, <1>1, <1>3, <2>1, <2>2 DEF Said
<1> QED BY <1>2, <1>3

\* A response nobody waits for is a late one.
LEMMA ForgottenIs ==
    ASSUME NEW s \in Seq(Messages)
    PROVE  /\ Forgotten(s) \in Seq(Messages) /\ DOMAIN Forgotten(s) = DOMAIN s
           /\ \A i \in DOMAIN s : Forgotten(s)[i] \in {s[i], "late"}
<1>0. DOMAIN s = 1..Len(s) /\ \A i \in 1..Len(s) : s[i] \in Messages
    OBVIOUS
<1>1. /\ DOMAIN Forgotten(s) = 1..Len(s)
      /\ \A i \in 1..Len(s) : Forgotten(s)[i] \in {s[i], "late"} \cap Messages
    BY <1>0 DEF Forgotten, Messages
<1>2. Forgotten(s) \in [1..Len(s) -> Messages]
    BY <1>1 DEF Forgotten
<1>3. Len(s) \in Nat
    OBVIOUS
<1> QED BY <1>0, <1>1, <1>2, <1>3

-----------------------------------------------------------------------------
(* A live session: Live<Action> shows that <Action> keeps LiveInv.         *)

LEMMA LiveReply ==
    ASSUME NEW q \in Requests, LiveInv, Reply(q)
    PROVE  LiveInv'
<1>0. /\ server \in Server /\ wire \in Wire /\ faults \in 0..MaxFaults /\ MaxFaults \in Nat
      /\ q \in server.due /\ server.up
      /\ UNCHANGED <<run, thread, worker, closing, plane, rec, lease, task, asks>>
    BY SessionAssumption DEF LiveInv, TypeOK, Wire, Reply, shared
<1> DEFINE s == [server EXCEPT !.due = @ \ {q}]
<1>1. /\ s \in Server /\ s.up = server.up /\ s.turn = server.turn /\ s.ask = server.ask
      /\ s.archived = server.archived /\ s.due = server.due \ {q}
    BY <1>0 DEF Server
<1> DEFINE Same == /\ server'.turn = server.turn /\ server'.ask = server.ask
                   /\ (server.archived => server'.archived)
                   /\ (Said("ask")' => Said("ask"))
                   /\ (Said("archived")' => Said("archived") \/ server'.archived)
<1>2. /\ server' \in Server /\ wire' \in Wire /\ faults' \in 0..MaxFaults
      /\ server'.up = server.up /\ server'.due \subseteq server.due
      /\ server'.turn = server.turn \/ server.turn = "running"
      /\ q # "interrupt" => Same
  <2>1. CASE q = "start"
    <3>1. server' = s /\ Put(<<"started">>) /\ UNCHANGED faults
      BY <2>1 DEF Reply
    <3> QED BY <1>0, <1>1, <3>1, PutOne DEF Messages
  <2>2. CASE q = "read"
    <3>1. server' = s /\ UNCHANGED faults
          /\ \E m \in {"over", "running"} : Put(<<m>>)
      BY <2>2 DEF Reply
    <3> QED BY <1>0, <1>1, <3>1, PutOne DEF Messages
  <2>3. CASE q = "late"
    <3>1. server' = s /\ Put(<<"late">>) /\ UNCHANGED faults
      BY <2>3 DEF Reply
    <3> QED BY <1>0, <1>1, <3>1, PutOne DEF Messages
  <2>4. CASE q = "archive"
    <3>1. server' = [s EXCEPT !.archived = TRUE] /\ Put(<<"archived">>) /\ UNCHANGED faults
      BY <2>4 DEF Reply
    <3>2. /\ server' \in Server /\ server'.up = s.up /\ server'.turn = s.turn
          /\ server'.ask = s.ask /\ server'.archived = TRUE /\ server'.due = s.due
      BY <1>1, <3>1 DEF Server
    <3> QED BY <1>0, <1>1, <3>1, <3>2, PutOne DEF Messages
  <2>5. CASE q = "interrupt" /\ s.turn = "running"
    <3>1. /\ server' = [s EXCEPT !.turn = "interrupted", !.ask = FALSE]
          /\ \/ Put(<<"interrupted", "done">>) /\ UNCHANGED faults
             \/ Put(<<"interrupted">>) /\ Fault
      BY <2>5 DEF Reply
    <3>2. /\ server' \in Server /\ server'.up = s.up /\ server'.due = s.due
      BY <1>1, <3>1 DEF Server, Over
    <3>3. wire' \in Wire /\ faults' \in 0..MaxFaults
      BY <1>0, <3>1, PutOne, PutTwo DEF Messages, Fault
    <3> QED BY <1>1, <2>5, <3>2, <3>3
  <2>6. CASE q \notin {"start", "read", "late", "archive"}
             /\ ~(q = "interrupt" /\ s.turn = "running")
    <3>1. server' = s /\ Put(<<"interrupted">>) /\ UNCHANGED faults
      BY <2>6 DEF Reply
    <3> QED BY <1>0, <1>1, <3>1, PutOne DEF Messages
  <2> QED BY <2>1, <2>2, <2>3, <2>4, <2>5, <2>6
<1>3. TypeOK'
    BY <1>0, <1>2 DEF LiveInv, TypeOK, Wire
<1>4. Opening' /\ TerminalByTurn'
    BY <1>0, <1>2 DEF LiveInv, Opening, TerminalByTurn, Over, Codex
<1>5. closing = "none" => Same /\ Asks
    BY <1>0, <1>2 DEF LiveInv, Asks
<1>6. closing = "none" => Asks' /\ Archives' /\ GivenUp'
    BY <1>0, <1>2, <1>5 DEF LiveInv, Asks, Archives, GivenUp, TurnOver, Codex
<1>7. closing = "none" => LiveSound(rec)' /\ LiveSound(worker.seen)' /\ Written'
    BY <1>0, <1>2, <1>5 DEF LiveInv, LiveSound, Written, Broken, TurnOver, Codex, Hermes
<1> QED BY <1>0, <1>3, <1>4, <1>6, <1>7 DEF LiveInv

LEMMA LiveBegin ==
    ASSUME LiveInv, Begin
    PROVE  LiveInv'
<1>1. TypeOK'
    BY SessionAssumption
      DEF LiveInv, TypeOK, Begin, Server, Requests, Over, Codex, Hermes,
             shared, bounds
<1>2. Opening' /\ TerminalByTurn'
    BY SessionAssumption
      DEF LiveInv, TypeOK, Opening, TerminalByTurn, Begin, shared, bounds,
             Server, Requests, Over, Codex, Hermes, Ended
<1>3. closing' = "none" => closing = "none"
    BY DEF Begin, shared, bounds
<1>4. closing = "none" => /\ Asks' /\ Archives' /\ LiveSound(rec)'
                           /\ LiveSound(worker.seen)' /\ Written' /\ GivenUp'
    BY SessionAssumption
      DEF LiveInv, Asks, Said, Archives, LiveSound, TurnOver, Over,
             Written, Broken, GivenUp, Ended, Codex, Hermes, Begin, shared,
             bounds, TypeOK, Server, Requests
<1> QED BY <1>1, <1>2, <1>3, <1>4 DEF LiveInv

LEMMA LiveEndTurn ==
    ASSUME LiveInv, EndTurn
    PROVE  LiveInv'
<1>w. /\ wire' \in [pipe : Seq(Messages), buf : Seq(Messages)]
      /\ Said("ask")' => Said("ask")
      /\ Said("archived")' => Said("archived")
  <2>1. CASE Put(<<"done">>)
    BY <2>1, PutOne DEF Wire, LiveInv, TypeOK, Messages
  <2>2. CASE UNCHANGED wire
    BY <2>2 DEF LiveInv, TypeOK, Said
  <2> QED BY <2>1, <2>2 DEF EndTurn
<1>1. TypeOK'
  <2>1. server' \in Server
      BY <1>w, SessionAssumption
      DEF LiveInv, TypeOK, EndTurn, Fault, Server, Requests, Over, Codex,
             Hermes
  <2>2. faults' \in 0..MaxFaults
      BY <1>w, SessionAssumption
      DEF LiveInv, TypeOK, EndTurn, Fault, Codex, Hermes
  <2>3. UNCHANGED <<run, plane, thread, rec, lease, worker, task, closing, asks>>
      BY DEF EndTurn, shared, bounds
  <2> QED BY <1>w, <2>1, <2>2, <2>3 DEF LiveInv, TypeOK
<1>2. Opening' /\ TerminalByTurn'
    BY <1>w, SessionAssumption
      DEF LiveInv, TypeOK, Opening, TerminalByTurn, EndTurn, Fault,
             shared, bounds, Server, Requests, Over, Codex, Hermes, Ended
<1>3. closing' = "none" => closing = "none"
    BY DEF EndTurn, shared, bounds
<1>4. closing = "none" => /\ Asks' /\ Archives' /\ LiveSound(rec)'
                           /\ LiveSound(worker.seen)' /\ Written' /\ GivenUp'
    BY <1>w, SessionAssumption
      DEF LiveInv, Asks, Archives, LiveSound, TurnOver, Over, Written,
             Broken, GivenUp, Ended, Codex, Hermes, EndTurn, shared, bounds,
             TypeOK, Fault, Server, Requests
<1> QED BY <1>1, <1>2, <1>3, <1>4 DEF LiveInv

LEMMA LiveAsk ==
    ASSUME LiveInv, Ask
    PROVE  LiveInv'
<1>w. /\ wire' \in [pipe : Seq(Messages), buf : Seq(Messages)]
      /\ Said("archived")' => Said("archived")
    BY PutOne DEF Ask, Wire, LiveInv, TypeOK, Messages
<1>1. TypeOK'
  <2>1. server' \in Server
      BY <1>w, SessionAssumption
      DEF LiveInv, TypeOK, Ask, Server, Requests, Over, Codex, Hermes
  <2>2. asks' \in 0..MaxAsks
      BY <1>w, SessionAssumption
      DEF LiveInv, TypeOK, Ask, Codex, Hermes
  <2>3. UNCHANGED <<run, plane, thread, rec, lease, worker, task, closing, faults>>
      BY DEF Ask, shared, bounds
  <2> QED BY <1>w, <2>1, <2>2, <2>3 DEF LiveInv, TypeOK
<1>2. Opening' /\ TerminalByTurn'
    BY <1>w, SessionAssumption
      DEF LiveInv, TypeOK, Opening, TerminalByTurn, Ask, shared, bounds,
             Server, Requests, Over, Codex, Hermes, Ended
<1>3. closing' = "none" => closing = "none"
    BY DEF Ask, shared, bounds
<1>4. closing = "none" => /\ Asks' /\ Archives' /\ LiveSound(rec)'
                           /\ LiveSound(worker.seen)' /\ Written' /\ GivenUp'
    BY <1>w, SessionAssumption
      DEF LiveInv, Asks, Archives, LiveSound, TurnOver, Over, Written,
             Broken, GivenUp, Ended, Codex, Hermes, Ask, shared, bounds,
             TypeOK, Server, Requests
<1> QED BY <1>1, <1>2, <1>3, <1>4 DEF LiveInv

LEMMA LiveDie ==
    ASSUME LiveInv, Die
    PROVE  LiveInv'
<1>1. TypeOK'
  <2>1. server' \in Server
      BY SessionAssumption
      DEF LiveInv, TypeOK, Die, Fault, Down, Server, Requests, Over,
             Codex, Hermes
  <2>2. faults' \in 0..MaxFaults
      BY SessionAssumption
      DEF LiveInv, TypeOK, Die, Fault, Down, Codex, Hermes
  <2>3. UNCHANGED <<run, plane, thread, wire, rec, lease, worker, task, closing, asks>>
      BY DEF Die, shared, bounds
  <2> QED BY <2>1, <2>2, <2>3 DEF LiveInv, TypeOK
<1>2. Opening' /\ TerminalByTurn'
    BY SessionAssumption
      DEF LiveInv, TypeOK, Opening, TerminalByTurn, Die, Fault, Down,
             shared, bounds, Server, Requests, Over, Codex, Hermes, Ended
<1>3. closing' = "none" => closing = "none"
    BY DEF Die, shared, bounds
<1>4. closing = "none" => /\ Asks' /\ Archives' /\ LiveSound(rec)'
                           /\ LiveSound(worker.seen)' /\ Written' /\ GivenUp'
    BY SessionAssumption
      DEF LiveInv, Asks, Said, Archives, LiveSound, TurnOver, Over,
             Written, Broken, GivenUp, Ended, Codex, Hermes, Die, shared,
             bounds, TypeOK, Fault, Down, Server, Requests
<1> QED BY <1>1, <1>2, <1>3, <1>4 DEF LiveInv

LEMMA LiveOrphaned ==
    ASSUME LiveInv, Orphaned
    PROVE  LiveInv'
<1>1. TypeOK'
    BY SessionAssumption
      DEF LiveInv, TypeOK, Orphaned, Down, Server, Requests, Over, Codex,
             Hermes, shared, bounds
<1>2. Opening' /\ TerminalByTurn'
    BY SessionAssumption
      DEF LiveInv, TypeOK, Opening, TerminalByTurn, Orphaned, Down,
             shared, bounds, Server, Requests, Over, Codex, Hermes, Ended
<1>3. closing' = "none" => closing = "none"
    BY DEF Orphaned, shared, bounds
<1>4. closing = "none" => /\ Asks' /\ Archives' /\ LiveSound(rec)'
                           /\ LiveSound(worker.seen)' /\ Written' /\ GivenUp'
    BY SessionAssumption
      DEF LiveInv, Asks, Said, Archives, LiveSound, TurnOver, Over,
             Written, Broken, GivenUp, Ended, Codex, Hermes, Orphaned,
             shared, bounds, TypeOK, Down, Server, Requests
<1> QED BY <1>1, <1>2, <1>3, <1>4 DEF LiveInv

LEMMA LiveOpen ==
    ASSUME LiveInv, Open
    PROVE  LiveInv'
<1>0. /\ server \in Server /\ thread \in Thread /\ server.turn = "none" /\ thread.pc = "open"
      /\ {"start"} \in SUBSET (Requests \ {"none"}) /\ "start" \in Requests
    BY DEF LiveInv, TypeOK, Opening, Open, At, Requests
<1>w. /\ server' \in Server /\ thread' \in Thread
      /\ server'.turn = "none" /\ server'.ask = server.ask
      /\ server'.archived = server.archived
      /\ "interrupt" \in server'.due => "interrupt" \in server.due
      /\ thread'.pc = (IF Codex THEN "rpc" ELSE "prompt") \/ thread'.pc = "fail"
      /\ thread.pc = "open"
  <2>1. CASE /\ server' = [server EXCEPT !.up = TRUE, !.due = {"start"}]
             /\ thread' = IF Codex THEN [thread EXCEPT !.pc = "rpc", !.awaits = "start"]
                          ELSE [thread EXCEPT !.pc = "prompt"]
    <3>1. server' \in Server /\ server'.turn = "none" /\ server'.ask = server.ask
          /\ server'.archived = server.archived /\ server'.due = {"start"}
      BY <1>0, <2>1 DEF Server
    <3>2. thread' \in Thread /\ thread'.pc = (IF Codex THEN "rpc" ELSE "prompt")
      BY <1>0, <2>1 DEF Thread
    <3> QED BY <1>0, <3>1, <3>2
  <2>2. CASE (\E up \in BOOLEAN : server' = [server EXCEPT !.up = up]) /\ Goto("fail")
    BY <1>0, <2>2 DEF Server, Thread, Goto
  <2> QED BY <2>1, <2>2 DEF Open
<1>1. TypeOK'
    BY <1>w, SessionAssumption
      DEF LiveInv, TypeOK, Open, Fault, At, Goto, Server, Requests, Over,
             Thread, Codex, Hermes, shared, bounds
<1>2. Opening' /\ TerminalByTurn'
    BY <1>w, SessionAssumption
      DEF LiveInv, TypeOK, Opening, TerminalByTurn, Open, Fault, At, Goto,
             shared, bounds, Server, Requests, Over, Thread, Codex, Hermes,
             Ended
<1>3. closing' = "none" => closing = "none"
    BY DEF Open, shared, bounds
<1>4. closing = "none" => /\ Asks' /\ Archives' /\ LiveSound(rec)'
                           /\ LiveSound(worker.seen)' /\ Written' /\ GivenUp'
    BY <1>w, SessionAssumption
      DEF LiveInv, Asks, Said, Archives, Opening, LiveSound, TurnOver,
             Over, Written, Broken, GivenUp, Ended, Codex, Hermes, Open,
             shared, bounds, TypeOK, Fault, At, Goto, Server, Requests,
             Thread
<1> QED BY <1>1, <1>2, <1>3, <1>4 DEF LiveInv

LEMMA LiveReceive ==
    ASSUME LiveInv, Receive
    PROVE  LiveInv'
<1>0. wire \in Wire /\ thread \in Thread /\ Line = Line /\ "none" \in Requests
      /\ Codex /\ thread.pc \in {"rpc", "loop"} /\ plane \in Plane
    BY DEF LiveInv, TypeOK, Wire, Requests, Receive, Receiving, At
<1>w. /\ wire' \in [pipe : Seq(Messages), buf : Seq(Messages)] /\ Said(Line)
      /\ (Said("ask")' => Said("ask")) /\ (Said("archived")' => Said("archived"))
      /\ thread' \in Thread /\ Codex /\ thread.pc \in {"rpc", "loop"}
      /\ thread'.pc \in {"rpc", "loop", "asking", "fail", "ended", "archived"}
      /\ (thread'.pc = "asking" => Line = "ask")
      /\ (thread'.pc = "archived" => Line = "archived")
      /\ plane' \in Plane /\ (plane' = plane \/ plane' = "pending")
  <2>1. /\ wire' \in Wire /\ Said(Line)
        /\ (Said("ask")' => Said("ask")) /\ (Said("archived")' => Said("archived"))
    BY <1>0, RestIs DEF Receive, Readable
  <2>2. CASE Line = "ask" /\ plane # "pending" /\ plane' = "pending" /\ Goto("asking")
    BY <1>0, <2>1, <2>2 DEF Goto, Thread, Wire, Plane
  <2>3. CASE Goto("fail") /\ UNCHANGED plane
    BY <1>0, <2>1, <2>3 DEF Goto, Thread, Wire
  <2>4. CASE thread' = NoteCompletion(thread) /\ UNCHANGED plane
    <3>1. thread' \in Thread /\ thread'.pc \in {thread.pc, "ended"}
      BY <1>0, <2>4 DEF NoteCompletion, Thread
    <3> QED BY <1>0, <2>1, <2>4, <3>1 DEF Wire
  <2>5. CASE thread' = Responded(Line) /\ UNCHANGED plane
    <3>1. /\ thread' \in Thread /\ thread'.pc \in {"ended", "archived", "loop"}
          /\ (thread'.pc = "archived" => Line = "archived")
      BY <1>0, <2>5 DEF Responded, Thread
    <3> QED BY <1>0, <2>1, <2>5, <3>1 DEF Wire
  <2>6. CASE UNCHANGED <<thread, plane>>
    BY <1>0, <2>1, <2>6 DEF Wire
  <2> QED BY <2>2, <2>3, <2>4, <2>5, <2>6 DEF Receive
<1>1. TypeOK'
    BY <1>w, SessionAssumption
      DEF LiveInv, TypeOK, Receive, At, Goto, Receiving, Thread, Requests,
             Plane, Codex, Hermes, shared, bounds
<1>2. Opening' /\ TerminalByTurn'
    BY <1>w, SessionAssumption
      DEF LiveInv, TypeOK, Opening, TerminalByTurn, Receive, At, Goto,
             Receiving, shared, bounds, Thread, Requests, Plane, Codex,
             Hermes, Over, Ended
<1>3. closing' = "none" => closing = "none"
    BY DEF Receive, shared, bounds
<1>4. closing = "none" => /\ Asks' /\ Archives' /\ LiveSound(rec)'
                           /\ LiveSound(worker.seen)' /\ Written' /\ GivenUp'
    BY <1>w, SessionAssumption
      DEF LiveInv, Asks, Archives, LiveSound, TurnOver, Over, Written,
             Broken, GivenUp, Ended, Codex, Hermes, Receive, shared, bounds,
             TypeOK, At, Goto, Receiving, Thread, Requests, Plane
<1> QED BY <1>1, <1>2, <1>3, <1>4 DEF LiveInv

LEMMA LiveClosed ==
    ASSUME LiveInv, Closed
    PROVE  LiveInv'
<1>1. TypeOK'
    BY SessionAssumption
      DEF LiveInv, TypeOK, Closed, At, Goto, Receiving, Eof, Thread,
             Requests, Codex, Hermes, shared, bounds
<1>2. Opening' /\ TerminalByTurn'
    BY SessionAssumption
      DEF LiveInv, TypeOK, Opening, TerminalByTurn, Closed, At, Goto,
             Receiving, Eof, shared, bounds, Thread, Requests, Codex, Hermes,
             Over, Ended
<1>3. closing' = "none" => closing = "none"
    BY DEF Closed, shared, bounds
<1>4. closing = "none" => /\ Asks' /\ Archives' /\ LiveSound(rec)'
                           /\ LiveSound(worker.seen)' /\ Written' /\ GivenUp'
    BY SessionAssumption
      DEF LiveInv, Asks, Said, Archives, LiveSound, TurnOver, Over,
             Written, Broken, GivenUp, Ended, Codex, Hermes, Closed, shared,
             bounds, TypeOK, At, Goto, Receiving, Eof, Thread, Requests
<1> QED BY <1>1, <1>2, <1>3, <1>4 DEF LiveInv

LEMMA LiveNotice ==
    ASSUME LiveInv, Notice
    PROVE  LiveInv'
<1>1. TypeOK'
    BY SessionAssumption
      DEF LiveInv, TypeOK, Notice, At, Goto, Thread, Requests, Codex,
             Hermes, shared, bounds
<1>2. Opening' /\ TerminalByTurn'
    BY SessionAssumption
      DEF LiveInv, TypeOK, Opening, TerminalByTurn, Notice, At, Goto,
             shared, bounds, Thread, Requests, Codex, Hermes, Over, Ended
<1>3. closing' = "none" => closing = "none"
    BY DEF Notice, shared, bounds
<1>4. closing = "none" => /\ Asks' /\ Archives' /\ LiveSound(rec)'
                           /\ LiveSound(worker.seen)' /\ Written' /\ GivenUp'
    BY SessionAssumption
      DEF LiveInv, Asks, Said, Archives, LiveSound, TurnOver, Over,
             Written, Broken, GivenUp, Ended, Codex, Hermes, Notice, shared,
             bounds, TypeOK, At, Goto, Thread, Requests
<1> QED BY <1>1, <1>2, <1>3, <1>4 DEF LiveInv

LEMMA LiveInterrupt ==
    ASSUME LiveInv, Interrupt
    PROVE  LiveInv'
<1>1. TypeOK'
  <2>1. server' \in Server
      BY SMTT(20), SessionAssumption
      DEF LiveInv, TypeOK, Interrupt, At, Goto, Send, MustInterrupt,
             Cancelled, Server, Requests, Over, Codex, Hermes
  <2>2. thread' \in Thread
      BY ZenonT(40), SessionAssumption
      DEF LiveInv, TypeOK, Interrupt, At, Goto, Send, MustInterrupt,
             Cancelled, Thread, Requests, Codex, Hermes
  <2>3. UNCHANGED <<run, plane, wire, rec, lease, worker, task, closing, asks, faults>>
      BY DEF Interrupt, shared, bounds
  <2> QED BY <2>1, <2>2, <2>3 DEF LiveInv, TypeOK
<1>2. Opening' /\ TerminalByTurn'
    BY SessionAssumption
      DEF LiveInv, TypeOK, Opening, TerminalByTurn, Interrupt, At, Goto,
             Send, MustInterrupt, Cancelled, shared, bounds, Server,
             Requests, Over, Thread, Codex, Hermes, Ended
<1>3. closing' # "none"
    BY SessionAssumption
      DEF Interrupt, At, Goto, Send, MustInterrupt, Cancelled, shared,
             bounds
<1> QED BY <1>1, <1>2, <1>3 DEF LiveInv

LEMMA LiveReadTurn ==
    ASSUME LiveInv, ReadTurn
    PROVE  LiveInv'
<1>1. TypeOK'
    BY SessionAssumption
      DEF LiveInv, TypeOK, ReadTurn, At, Send, MayRead, Server, Requests,
             Over, Thread, Codex, Hermes, shared, bounds
<1>2. Opening' /\ TerminalByTurn'
    BY SessionAssumption
      DEF LiveInv, TypeOK, Opening, TerminalByTurn, ReadTurn, At, Send,
             MayRead, shared, bounds, Server, Requests, Over, Thread, Codex,
             Hermes, Ended
<1>3. closing' = "none" => closing = "none"
    BY DEF ReadTurn, shared, bounds
<1>4. closing = "none" => /\ Asks' /\ Archives' /\ LiveSound(rec)'
                           /\ LiveSound(worker.seen)' /\ Written' /\ GivenUp'
    BY SessionAssumption
      DEF LiveInv, Asks, Said, Archives, LiveSound, TurnOver, Over,
             Written, Broken, GivenUp, Ended, Codex, Hermes, ReadTurn,
             shared, bounds, TypeOK, At, Send, MayRead, Server, Requests,
             Thread
<1> QED BY <1>1, <1>2, <1>3, <1>4 DEF LiveInv

LEMMA LiveGiveUp ==
    ASSUME LiveInv, GiveUp
    PROVE  LiveInv'
<1>w. /\ wire' \in [pipe : Seq(Messages), buf : Seq(Messages)]
      /\ Said("ask")' => Said("ask")
      /\ Said("archived")' => Said("archived")
    BY ForgottenIs DEF Wire, GiveUp, LiveInv, TypeOK, Said
<1>1. TypeOK'
  <2>1. thread' \in Thread
      BY <1>w, SessionAssumption
      DEF LiveInv, TypeOK, GiveUp, At, Fault, Thread, Requests, Codex,
             Hermes
  <2>2. server' \in Server
      BY <1>w, SessionAssumption
      DEF LiveInv, TypeOK, GiveUp, At, Fault, Server, Requests, Over,
             Codex, Hermes
  <2>3. faults' \in 0..MaxFaults
      BY <1>w, SessionAssumption
      DEF LiveInv, TypeOK, GiveUp, At, Fault, Codex, Hermes
  <2>4. UNCHANGED <<run, plane, rec, lease, worker, task, closing, asks>>
      BY DEF GiveUp, shared, bounds
  <2> QED BY <1>w, <2>1, <2>2, <2>3, <2>4 DEF LiveInv, TypeOK
<1>2. Opening' /\ TerminalByTurn'
    BY <1>w, SessionAssumption
      DEF LiveInv, TypeOK, Opening, TerminalByTurn, GiveUp, At, Fault,
             shared, bounds, Thread, Requests, Server, Over, Codex, Hermes,
             Ended
<1>3. closing' = "none" => closing = "none"
    BY DEF GiveUp, shared, bounds
<1>4. closing = "none" => /\ Asks' /\ Archives' /\ LiveSound(rec)'
                           /\ LiveSound(worker.seen)' /\ Written' /\ GivenUp'
    BY <1>w, SessionAssumption
      DEF LiveInv, Asks, Archives, LiveSound, TurnOver, Over, Written,
             Broken, GivenUp, Ended, Codex, Hermes, GiveUp, shared, bounds,
             TypeOK, At, Fault, Thread, Requests, Server
<1> QED BY <1>1, <1>2, <1>3, <1>4 DEF LiveInv

LEMMA LiveUnseen ==
    ASSUME LiveInv, Unseen
    PROVE  LiveInv'
<1>0. server \in Server /\ thread \in Thread /\ "none" \in Requests /\ wire \in Wire
    BY DEF LiveInv, TypeOK, Requests, Wire
<1>w. /\ wire' \in [pipe : Seq(Messages), buf : Seq(Messages)]
      /\ (Said("ask")' => Said("ask")) /\ (Said("archived")' => Said("archived"))
      /\ thread' \in Thread /\ thread.pc = "rpc" /\ thread'.pc \in {"loop", "fail"}
  <2>1. /\ wire'.pipe = wire.pipe /\ wire'.buf = Forgotten(wire.buf)
        /\ wire.buf \in Seq(Messages) /\ wire.pipe \in Seq(Messages)
    BY <1>0 DEF Unseen, Wire
  <2>2. wire' \in [pipe : Seq(Messages), buf : Seq(Messages)]
    BY <1>0, <2>1, ForgottenIs DEF Unseen, Wire
  <2>3. (Said("ask")' => Said("ask")) /\ (Said("archived")' => Said("archived"))
    BY <2>1, ForgottenIs DEF Said
  <2>4. thread' \in Thread /\ thread.pc = "rpc" /\ thread'.pc \in {"loop", "fail"}
    <3>1. CASE thread.awaits = "read"
      BY <1>0, <3>1 DEF Unseen, At, Thread
    <3>2. CASE thread.awaits # "read"
      BY <1>0, <3>2 DEF Unseen, At, Thread, Goto
    <3> QED BY <3>1, <3>2
  <2> QED BY <2>2, <2>3, <2>4
<1>1. TypeOK'
    BY <1>w, SessionAssumption
      DEF LiveInv, TypeOK, Unseen, At, Goto, Thread, Requests, Codex,
             Hermes, shared, bounds
<1>2. Opening' /\ TerminalByTurn'
    BY <1>w, SessionAssumption
      DEF LiveInv, TypeOK, Opening, TerminalByTurn, Unseen, At, Goto,
             shared, bounds, Thread, Requests, Codex, Hermes, Over, Ended
<1>3. closing' = "none" => closing = "none"
    BY DEF Unseen, shared, bounds
<1>4. closing = "none" => /\ Asks' /\ Archives' /\ LiveSound(rec)'
                           /\ LiveSound(worker.seen)' /\ Written' /\ GivenUp'
    BY <1>w, SessionAssumption
      DEF LiveInv, Asks, Archives, LiveSound, TurnOver, Over, Written,
             Broken, GivenUp, Ended, Codex, Hermes, Unseen, shared, bounds,
             TypeOK, At, Goto, Thread, Requests
<1> QED BY <1>1, <1>2, <1>3, <1>4 DEF LiveInv

LEMMA LiveTimeout ==
    ASSUME LiveInv, Timeout
    PROVE  LiveInv'
<1>1. TypeOK'
    BY SMTT(20), SessionAssumption
      DEF LiveInv, TypeOK, Timeout, At, Goto, Fault, Thread, Requests,
             Codex, Hermes, shared, bounds
<1>2. Opening' /\ TerminalByTurn'
    BY SessionAssumption
      DEF LiveInv, TypeOK, Opening, TerminalByTurn, Timeout, At, Goto,
             Fault, shared, bounds, Thread, Requests, Codex, Hermes, Over,
             Ended
<1>3. closing' = "none" => closing = "none"
    BY DEF Timeout, shared, bounds
<1>4. closing = "none" => /\ Asks' /\ Archives' /\ LiveSound(rec)'
                           /\ LiveSound(worker.seen)' /\ Written' /\ GivenUp'
    BY SessionAssumption
      DEF LiveInv, Asks, Said, Archives, LiveSound, TurnOver, Over,
             Written, Broken, GivenUp, Ended, Codex, Hermes, Timeout, shared,
             bounds, TypeOK, At, Goto, Fault, Thread, Requests
<1> QED BY <1>1, <1>2, <1>3, <1>4 DEF LiveInv

LEMMA LiveTellStatus ==
    ASSUME LiveInv, TellStatus
    PROVE  LiveInv'
<1>1. TypeOK'
    BY SessionAssumption
      DEF LiveInv, TypeOK, TellStatus, At, Goto, Rec, Thread, Requests,
             Codex, Hermes, shared, bounds
<1>2. Opening' /\ TerminalByTurn'
    BY SessionAssumption
      DEF LiveInv, TypeOK, Opening, TerminalByTurn, TellStatus, At, Goto,
             shared, bounds, Rec, Thread, Requests, Codex, Hermes, Over,
             Ended
<1>3. closing' = "none" => closing = "none"
    BY DEF TellStatus, shared, bounds
<1>4. closing = "none" => /\ Asks' /\ Archives' /\ LiveSound(rec)'
                           /\ LiveSound(worker.seen)' /\ Written' /\ GivenUp'
    BY SessionAssumption
      DEF LiveInv, Asks, Said, Archives, LiveSound, TurnOver, Over,
             Written, Broken, GivenUp, Ended, Codex, Hermes, TellStatus,
             shared, bounds, TypeOK, At, Goto, Rec, Thread, Requests
<1> QED BY <1>1, <1>2, <1>3, <1>4 DEF LiveInv

LEMMA LiveTellResult ==
    ASSUME LiveInv, TellResult
    PROVE  LiveInv'
<1>1. TypeOK'
    BY SessionAssumption
      DEF LiveInv, TypeOK, TellResult, At, Goto, Rec, Thread, Requests,
             Codex, Hermes, shared, bounds
<1>2. Opening' /\ TerminalByTurn'
    BY SessionAssumption
      DEF LiveInv, TypeOK, Opening, TerminalByTurn, TellResult, At, Goto,
             shared, bounds, Rec, Thread, Requests, Codex, Hermes, Over,
             Ended
<1>3. closing' = "none" => closing = "none"
    BY DEF TellResult, shared, bounds
<1>4. closing = "none" => /\ Asks' /\ Archives' /\ LiveSound(rec)'
                           /\ LiveSound(worker.seen)' /\ Written' /\ GivenUp'
    BY SessionAssumption
      DEF LiveInv, Asks, Said, Archives, LiveSound, TurnOver, Over,
             Written, Broken, GivenUp, Ended, Codex, Hermes, TellResult,
             shared, bounds, TypeOK, At, Goto, Rec, Thread, Requests
<1> QED BY <1>1, <1>2, <1>3, <1>4 DEF LiveInv

LEMMA LiveYield ==
    ASSUME LiveInv, Yield
    PROVE  LiveInv'
<1>1. TypeOK'
    BY SessionAssumption
      DEF LiveInv, TypeOK, Yield, At, Goto, Suspended, LeaseState, Thread,
             Requests, Codex, Hermes, shared, bounds
<1>2. Opening' /\ TerminalByTurn'
    BY SessionAssumption
      DEF LiveInv, TypeOK, Opening, TerminalByTurn, Yield, At, Goto,
             Suspended, shared, bounds, LeaseState, Thread, Requests, Codex,
             Hermes, Over, Ended
<1>3. closing' = "none" => closing = "none"
    BY DEF Yield, shared, bounds
<1>4. closing = "none" => /\ Asks' /\ Archives' /\ LiveSound(rec)'
                           /\ LiveSound(worker.seen)' /\ Written' /\ GivenUp'
    BY SessionAssumption
      DEF LiveInv, Asks, Said, Archives, LiveSound, TurnOver, Over,
             Written, Broken, GivenUp, Ended, Codex, Hermes, Yield, shared,
             bounds, TypeOK, At, Goto, Suspended, LeaseState, Thread,
             Requests
<1> QED BY <1>1, <1>2, <1>3, <1>4 DEF LiveInv

LEMMA LiveExpire ==
    ASSUME LiveInv, Expire
    PROVE  LiveInv'
<1>1. TypeOK'
    BY SessionAssumption
      DEF LiveInv, TypeOK, Expire, At, Goto, Plane, Thread, Requests,
             Codex, Hermes, shared, bounds
<1>2. Opening' /\ TerminalByTurn'
    BY SessionAssumption
      DEF LiveInv, TypeOK, Opening, TerminalByTurn, Expire, At, Goto,
             shared, bounds, Plane, Thread, Requests, Codex, Hermes, Over,
             Ended
<1>3. closing' = "none" => closing = "none"
    BY DEF Expire, shared, bounds
<1>4. closing = "none" => /\ Asks' /\ Archives' /\ LiveSound(rec)'
                           /\ LiveSound(worker.seen)' /\ Written' /\ GivenUp'
    BY SessionAssumption
      DEF LiveInv, Asks, Said, Archives, LiveSound, TurnOver, Over,
             Written, Broken, GivenUp, Ended, Codex, Hermes, Expire, shared,
             bounds, TypeOK, At, Goto, Plane, Thread, Requests
<1> QED BY <1>1, <1>2, <1>3, <1>4 DEF LiveInv

LEMMA LiveResume ==
    ASSUME LiveInv, Resume
    PROVE  LiveInv'
<1>1. TypeOK'
    BY SessionAssumption
      DEF LiveInv, TypeOK, Resume, At, Goto, Decided, LeaseState, Thread,
             Requests, Codex, Hermes, shared, bounds
<1>2. Opening' /\ TerminalByTurn'
    BY SessionAssumption
      DEF LiveInv, TypeOK, Opening, TerminalByTurn, Resume, At, Goto,
             Decided, shared, bounds, LeaseState, Thread, Requests, Codex,
             Hermes, Over, Ended
<1>3. closing' = "none" => closing = "none"
    BY DEF Resume, shared, bounds
<1>4. closing = "none" => /\ Asks' /\ Archives' /\ LiveSound(rec)'
                           /\ LiveSound(worker.seen)' /\ Written' /\ GivenUp'
    BY SessionAssumption
      DEF LiveInv, Asks, Said, Archives, LiveSound, TurnOver, Over,
             Written, Broken, GivenUp, Ended, Codex, Hermes, Resume, shared,
             bounds, TypeOK, At, Goto, Decided, LeaseState, Thread, Requests
<1> QED BY <1>1, <1>2, <1>3, <1>4 DEF LiveInv

LEMMA LiveSendAnswer ==
    ASSUME LiveInv, SendAnswer
    PROVE  LiveInv'
<1>1. TypeOK'
    BY SessionAssumption
      DEF LiveInv, TypeOK, SendAnswer, At, Goto, Back, Rec, Server,
             Requests, Over, Thread, Codex, Hermes, shared, bounds
<1>2. Opening' /\ TerminalByTurn'
    BY SessionAssumption
      DEF LiveInv, TypeOK, Opening, TerminalByTurn, SendAnswer, At, Goto,
             Back, shared, bounds, Rec, Server, Requests, Over, Thread,
             Codex, Hermes, Ended
<1>3. closing' = "none" => closing = "none"
    BY DEF SendAnswer, shared, bounds
<1>4. closing = "none" => /\ Asks' /\ Archives' /\ LiveSound(rec)'
                           /\ LiveSound(worker.seen)' /\ Written' /\ GivenUp'
    BY SessionAssumption
      DEF LiveInv, Asks, Said, Archives, LiveSound, TurnOver, Over,
             Written, Broken, GivenUp, Ended, Codex, Hermes, SendAnswer,
             shared, bounds, TypeOK, At, Goto, Back, Rec, Server, Requests,
             Thread
<1> QED BY <1>1, <1>2, <1>3, <1>4 DEF LiveInv

LEMMA LiveConclude ==
    ASSUME LiveInv, Conclude
    PROVE  LiveInv'
<1>0. /\ server \in Server /\ thread \in Thread
      /\ server.due \cup {"archive"} \in SUBSET (Requests \ {"none"})
    BY DEF LiveInv, TypeOK, Server, Requests
<1>w. /\ server' \in Server /\ thread' \in Thread
      /\ server'.up = server.up /\ server'.turn = server.turn /\ server'.ask = server.ask
      /\ server'.archived = server.archived /\ server'.due \subseteq server.due \cup {"archive"}
      /\ thread'.pc \in {"outcome", "rpc", "fail"}
      /\ thread'.pc = "outcome" => run.retain
  <2>1. CASE run.retain
    BY <1>0, <2>1 DEF Thread, Conclude, Goto
  <2>2. CASE ~run.retain /\ server.up
    <3>1. /\ server' = [server EXCEPT !.due = @ \cup {"archive"}]
          /\ thread' = [thread EXCEPT !.pc = "rpc", !.awaits = "archive"]
      BY <2>2 DEF Conclude, Send
    <3> QED BY <1>0, <2>2, <3>1 DEF Server, Thread, Requests
  <2>3. CASE ~run.retain /\ ~server.up
    BY <1>0, <2>3 DEF Thread, Conclude, Goto
  <2> QED BY <2>1, <2>2, <2>3
<1>1. TypeOK'
    BY <1>w, SessionAssumption
      DEF LiveInv, TypeOK, Conclude, At, Goto, Send, Server, Requests,
             Over, Thread, Codex, Hermes, shared, bounds
<1>2. Opening' /\ TerminalByTurn'
    BY <1>w, SessionAssumption
      DEF LiveInv, TypeOK, Opening, TerminalByTurn, Conclude, At, Goto,
             Send, shared, bounds, Server, Requests, Over, Thread, Codex,
             Hermes, Ended
<1>3. closing' = "none" => closing = "none"
    BY DEF Conclude, shared, bounds
<1>4. closing = "none" => /\ Asks' /\ Archives' /\ LiveSound(rec)'
                           /\ LiveSound(worker.seen)' /\ Written' /\ GivenUp'
    BY <1>w, SessionAssumption
      DEF LiveInv, Asks, Said, Archives, LiveSound, TurnOver, Over,
             Written, Broken, GivenUp, Ended, Codex, Hermes, Conclude,
             shared, bounds, TypeOK, At, Goto, Send, Server, Requests, Thread
<1> QED BY <1>1, <1>2, <1>3, <1>4 DEF LiveInv

LEMMA LiveDisconnect ==
    ASSUME LiveInv, Disconnect
    PROVE  LiveInv'
<1>1. TypeOK'
    BY SessionAssumption
      DEF LiveInv, TypeOK, Disconnect, At, Goto, Down, Server, Requests,
             Over, Thread, Codex, Hermes, shared, bounds
<1>2. Opening' /\ TerminalByTurn'
    BY SessionAssumption
      DEF LiveInv, TypeOK, Opening, TerminalByTurn, Disconnect, At, Goto,
             Down, shared, bounds, Server, Requests, Over, Thread, Codex,
             Hermes, Ended
<1>3. closing' = "none" => closing = "none"
    BY DEF Disconnect, shared, bounds
<1>4. closing = "none" => /\ Asks' /\ Archives' /\ LiveSound(rec)'
                           /\ LiveSound(worker.seen)' /\ Written' /\ GivenUp'
    BY SessionAssumption
      DEF LiveInv, Asks, Said, Archives, LiveSound, TurnOver, Over,
             Written, Broken, GivenUp, Ended, Codex, Hermes, Disconnect,
             shared, bounds, TypeOK, At, Goto, Down, Server, Requests, Thread
<1> QED BY <1>1, <1>2, <1>3, <1>4 DEF LiveInv

LEMMA LiveReceiveFrame ==
    ASSUME LiveInv, ReceiveFrame
    PROVE  LiveInv'
<1>w. /\ wire' \in [pipe : Seq(Messages), buf : Seq(Messages)] /\ Said(Line)
      /\ Said("ask")' => Said("ask")
      /\ Said("archived")' => Said("archived")
    BY RestIs DEF Wire, ReceiveFrame, Readable, LiveInv, TypeOK
<1>1. TypeOK'
    BY <1>w, SessionAssumption
      DEF LiveInv, TypeOK, ReceiveFrame, At, Goto, Ended, Thread,
             Requests, Codex, Hermes, shared, bounds
<1>2. Opening' /\ TerminalByTurn'
    BY <1>w, SessionAssumption
      DEF LiveInv, TypeOK, Opening, TerminalByTurn, ReceiveFrame, At,
             Goto, shared, bounds, Ended, Thread, Requests, Codex, Hermes,
             Over
<1>3. closing' = "none" => closing = "none"
    BY DEF ReceiveFrame, shared, bounds
<1>4. closing = "none" => /\ Asks' /\ Archives' /\ LiveSound(rec)'
                           /\ LiveSound(worker.seen)' /\ Written' /\ GivenUp'
    BY <1>w, SessionAssumption
      DEF LiveInv, Asks, Archives, LiveSound, TurnOver, Over, Written,
             Broken, GivenUp, Ended, Codex, Hermes, ReceiveFrame, shared,
             bounds, TypeOK, At, Goto, Thread, Requests
<1> QED BY <1>1, <1>2, <1>3, <1>4 DEF LiveInv

LEMMA LiveSuspendWait ==
    ASSUME LiveInv, SuspendWait
    PROVE  LiveInv'
<1>0. lease' \in [disk : LeaseState, mem : LeaseState]
    BY DEF LiveInv, TypeOK, SuspendWait, LeaseState
<1>1. TypeOK'
    BY <1>0, SessionAssumption
      DEF LiveInv, TypeOK, SuspendWait, At, Goto, Fault,
             Thread, Requests, Codex, Hermes, shared, bounds
<1>2. Opening' /\ TerminalByTurn'
    BY SessionAssumption
      DEF LiveInv, TypeOK, Opening, TerminalByTurn, SuspendWait, At, Goto,
             Fault, shared, bounds, LeaseState, Thread, Requests, Codex,
             Hermes, Over, Ended
<1>3. closing' = "none" => closing = "none"
    BY DEF SuspendWait, shared, bounds
<1>4. closing = "none" => /\ Asks' /\ Archives' /\ LiveSound(rec)'
                           /\ LiveSound(worker.seen)' /\ Written' /\ GivenUp'
    BY SessionAssumption
      DEF LiveInv, Asks, Said, Archives, LiveSound, TurnOver, Over,
             Written, Broken, GivenUp, Ended, Codex, Hermes, SuspendWait,
             shared, bounds, TypeOK, At, Goto, Fault, LeaseState, Thread,
             Requests
<1> QED BY <1>1, <1>2, <1>3, <1>4 DEF LiveInv

LEMMA LiveOutcome ==
    ASSUME LiveInv, Outcome
    PROVE  LiveInv'
<1>1. TypeOK'
    BY SMTT(20), SessionAssumption
      DEF LiveInv, TypeOK, Outcome, At, Goto, Report, StatusOf,
             LeaseFirst, Rec, Thread, Requests, Codex, Hermes, shared, bounds
<1>2. Opening' /\ TerminalByTurn'
    BY SessionAssumption
      DEF LiveInv, TypeOK, Opening, TerminalByTurn, Outcome, At, Goto,
             Report, StatusOf, LeaseFirst, shared, bounds, Rec, Thread,
             Requests, Codex, Hermes, Over, Ended
<1>3. closing' = "none" => closing = "none"
    BY DEF Outcome, shared, bounds
<1>4. closing = "none" => /\ Asks' /\ Archives' /\ LiveSound(rec)'
                           /\ LiveSound(worker.seen)' /\ Written' /\ GivenUp'
    BY SessionAssumption
      DEF LiveInv, Asks, Said, Archives, LiveSound, TurnOver, Over,
             Written, Broken, GivenUp, Ended, Codex, Hermes, Outcome, shared,
             bounds, TypeOK, At, Goto, Report, StatusOf, LeaseFirst, Rec,
             Thread, Requests
<1> QED BY <1>1, <1>2, <1>3, <1>4 DEF LiveInv

LEMMA LiveFail ==
    ASSUME LiveInv, Fail
    PROVE  LiveInv'
<1>1. TypeOK'
    BY SessionAssumption
      DEF LiveInv, TypeOK, Fail, At, Goto, Report, StatusOf, LeaseFirst,
             Rec, Thread, Requests, Plane, Codex, Hermes, shared, bounds
<1>2. Opening' /\ TerminalByTurn'
    BY SessionAssumption
      DEF LiveInv, TypeOK, Opening, TerminalByTurn, Fail, At, Goto,
             Report, StatusOf, LeaseFirst, shared, bounds, Rec, Thread,
             Requests, Plane, Codex, Hermes, Over, Ended
<1>3. closing' = "none" => closing = "none"
    BY DEF Fail, shared, bounds
<1>4. closing = "none" => /\ Asks' /\ Archives' /\ LiveSound(rec)'
                           /\ LiveSound(worker.seen)' /\ Written' /\ GivenUp'
    BY SessionAssumption
      DEF LiveInv, Asks, Said, Archives, LiveSound, TurnOver, Over,
             Written, Broken, GivenUp, Ended, Codex, Hermes, Fail, shared,
             bounds, TypeOK, At, Goto, Report, StatusOf, LeaseFirst, Rec,
             Thread, Requests, Plane
<1> QED BY <1>1, <1>2, <1>3, <1>4 DEF LiveInv

LEMMA LiveCloseTransport ==
    ASSUME LiveInv, CloseTransport
    PROVE  LiveInv'
<1>1. TypeOK'
    BY SessionAssumption
      DEF LiveInv, TypeOK, CloseTransport, At, Goto, Down, LeaseFirst,
             Server, Requests, Over, Thread, Codex, Hermes, shared, bounds
<1>2. Opening' /\ TerminalByTurn'
    BY SessionAssumption
      DEF LiveInv, TypeOK, Opening, TerminalByTurn, CloseTransport, At,
             Goto, Down, LeaseFirst, shared, bounds, Server, Requests, Over,
             Thread, Codex, Hermes, Ended
<1>3. closing' = "none" => closing = "none"
    BY DEF CloseTransport, shared, bounds
<1>4. closing = "none" => /\ Asks' /\ Archives' /\ LiveSound(rec)'
                           /\ LiveSound(worker.seen)' /\ Written' /\ GivenUp'
    BY SessionAssumption
      DEF LiveInv, Asks, Said, Archives, LiveSound, TurnOver, Over,
             Written, Broken, GivenUp, Ended, Codex, Hermes, CloseTransport,
             shared, bounds, TypeOK, At, Goto, Down, LeaseFirst, Server,
             Requests, Thread
<1> QED BY <1>1, <1>2, <1>3, <1>4 DEF LiveInv

LEMMA LiveCloseLease ==
    ASSUME LiveInv, CloseLease
    PROVE  LiveInv'
<1>1. TypeOK'
    BY SessionAssumption
      DEF LiveInv, TypeOK, CloseLease, At, Goto, LeaseFirst, LeaseState,
             Thread, Requests, Codex, Hermes, shared, bounds
<1>2. Opening' /\ TerminalByTurn'
    BY SessionAssumption
      DEF LiveInv, TypeOK, Opening, TerminalByTurn, CloseLease, At, Goto,
             LeaseFirst, shared, bounds, LeaseState, Thread, Requests, Codex,
             Hermes, Over, Ended
<1>3. closing' = "none" => closing = "none"
    BY DEF CloseLease, shared, bounds
<1>4. closing = "none" => /\ Asks' /\ Archives' /\ LiveSound(rec)'
                           /\ LiveSound(worker.seen)' /\ Written' /\ GivenUp'
    BY SessionAssumption
      DEF LiveInv, Asks, Said, Archives, LiveSound, TurnOver, Over,
             Written, Broken, GivenUp, Ended, Codex, Hermes, CloseLease,
             shared, bounds, TypeOK, At, Goto, LeaseFirst, LeaseState,
             Thread, Requests
<1> QED BY <1>1, <1>2, <1>3, <1>4 DEF LiveInv

LEMMA LivePoll ==
    ASSUME LiveInv, Poll
    PROVE  LiveInv'
<1>1. TypeOK'
    BY SessionAssumption
      DEF LiveInv, TypeOK, Poll, Step, Worker, Rec, Codex, Hermes, shared,
             bounds
<1>2. Opening' /\ TerminalByTurn'
    BY SessionAssumption
      DEF LiveInv, TypeOK, Opening, TerminalByTurn, Poll, Step, shared,
             bounds, Worker, Rec, Codex, Hermes, Over, Ended
<1>3. closing' = "none" => closing = "none"
    BY DEF Poll, shared, bounds
<1>4. closing = "none" => /\ Asks' /\ Archives' /\ LiveSound(rec)'
                           /\ LiveSound(worker.seen)' /\ Written' /\ GivenUp'
    BY SessionAssumption
      DEF LiveInv, Asks, Said, Archives, LiveSound, TurnOver, Over,
             Written, Broken, GivenUp, Ended, Codex, Hermes, Poll, shared,
             bounds, TypeOK, Step, Worker, Rec
<1> QED BY <1>1, <1>2, <1>3, <1>4 DEF LiveInv

LEMMA LiveBeat ==
    ASSUME LiveInv, Beat
    PROVE  LiveInv'
<1>1. TypeOK'
    BY SessionAssumption
      DEF LiveInv, TypeOK, Beat, Step, LeaseState, Worker, Rec, Codex,
             Hermes, shared, bounds
<1>2. Opening' /\ TerminalByTurn'
    BY SessionAssumption
      DEF LiveInv, TypeOK, Opening, TerminalByTurn, Beat, Step, shared,
             bounds, LeaseState, Worker, Rec, Codex, Hermes, Over, Ended
<1>3. closing' = "none" => closing = "none"
    BY DEF Beat, shared, bounds
<1>4. closing = "none" => /\ Asks' /\ Archives' /\ LiveSound(rec)'
                           /\ LiveSound(worker.seen)' /\ Written' /\ GivenUp'
    BY SessionAssumption
      DEF LiveInv, Asks, Said, Archives, LiveSound, TurnOver, Over,
             Written, Broken, GivenUp, Ended, Codex, Hermes, Beat, shared,
             bounds, TypeOK, Step, LeaseState, Worker, Rec
<1> QED BY <1>1, <1>2, <1>3, <1>4 DEF LiveInv

LEMMA LiveReadStatus ==
    ASSUME LiveInv, ReadStatus
    PROVE  LiveInv'
<1>1. TypeOK'
    BY SessionAssumption
      DEF LiveInv, TypeOK, ReadStatus, Worker, Rec, Codex, Hermes, shared,
             bounds
<1>2. Opening' /\ TerminalByTurn'
    BY SessionAssumption
      DEF LiveInv, TypeOK, Opening, TerminalByTurn, ReadStatus, shared,
             bounds, Worker, Rec, Codex, Hermes, Over, Ended
<1>3. closing' = "none" => closing = "none"
    BY DEF ReadStatus, shared, bounds
<1>4. closing = "none" => /\ Asks' /\ Archives' /\ LiveSound(rec)'
                           /\ LiveSound(worker.seen)' /\ Written' /\ GivenUp'
    BY SessionAssumption
      DEF LiveInv, Asks, Said, Archives, LiveSound, TurnOver, Over,
             Written, Broken, GivenUp, Ended, Codex, Hermes, ReadStatus,
             shared, bounds, TypeOK, Worker, Rec
<1> QED BY <1>1, <1>2, <1>3, <1>4 DEF LiveInv

LEMMA LiveReadResult ==
    ASSUME LiveInv, ReadResult
    PROVE  LiveInv'
<1>1. TypeOK'
    BY SessionAssumption
      DEF LiveInv, TypeOK, ReadResult, Worker, Rec, Codex, Hermes, shared,
             bounds
<1>2. Opening' /\ TerminalByTurn'
    BY SessionAssumption
      DEF LiveInv, TypeOK, Opening, TerminalByTurn, ReadResult, shared,
             bounds, Worker, Rec, Codex, Hermes, Over, Ended
<1>3. closing' = "none" => closing = "none"
    BY DEF ReadResult, shared, bounds
<1>4. closing = "none" => /\ Asks' /\ Archives' /\ LiveSound(rec)'
                           /\ LiveSound(worker.seen)' /\ Written' /\ GivenUp'
    BY SessionAssumption
      DEF LiveInv, Asks, Said, Archives, LiveSound, TurnOver, Over,
             Written, Broken, GivenUp, Ended, Codex, Hermes, ReadResult,
             shared, bounds, TypeOK, Worker, Rec
<1> QED BY <1>1, <1>2, <1>3, <1>4 DEF LiveInv

LEMMA LiveAct ==
    ASSUME LiveInv, Act
    PROVE  LiveInv'
<1>1. TypeOK'
  <2>1. task' \in ({"running", "waiting", "recovery"} \cup Ended)
      BY SessionAssumption
      DEF LiveInv, TypeOK, Act, Exit, At, Mark, Accepted, Unsuspended,
             Verdict, Unreceipted, Torn, Asked, Waits, Arbitrated, Status,
             Result, Ended, Codex, Hermes
  <2>2. lease' \in [disk : LeaseState, mem : LeaseState]
      BY SessionAssumption
      DEF LiveInv, TypeOK, Act, Exit, At, Mark, Accepted, Unsuspended,
             Verdict, Unreceipted, Torn, Asked, Waits, Arbitrated, Status,
             Result, LeaseState, Codex, Hermes
  <2>3. worker' \in Worker
      BY SessionAssumption
      DEF LiveInv, TypeOK, Act, Exit, At, Mark, Accepted, Unsuspended,
             Verdict, Unreceipted, Torn, Asked, Waits, Arbitrated, Status,
             Result, Worker, Rec, Codex, Hermes
  <2>4. thread' \in Thread
      BY SessionAssumption
      DEF LiveInv, TypeOK, Act, Exit, At, Mark, Accepted, Unsuspended,
             Verdict, Unreceipted, Torn, Asked, Waits, Arbitrated, Status,
             Result, Thread, Requests, Codex, Hermes
  <2>5. UNCHANGED <<run, server, plane, wire, rec, closing, asks, faults>>
      BY DEF Act, shared, bounds
  <2> QED BY <2>1, <2>2, <2>3, <2>4, <2>5 DEF LiveInv, TypeOK
<1>2. Opening' /\ TerminalByTurn'
    BY SessionAssumption
      DEF LiveInv, TypeOK, Opening, TerminalByTurn, Act, Exit, At, Mark,
             Accepted, Unsuspended, Verdict, Unreceipted, Torn, Asked, Waits,
             Arbitrated, Status, Result, shared, bounds, Ended, LeaseState,
             Worker, Rec, Thread, Requests, Codex, Hermes, Over, LiveSound,
             Written, Broken, TurnOver
<1>3. closing' = "none" => closing = "none"
    BY DEF Act, shared, bounds
<1>4. closing = "none" => /\ Asks' /\ Archives' /\ LiveSound(rec)'
                           /\ LiveSound(worker.seen)' /\ Written' /\ GivenUp'
    BY SessionAssumption
      DEF LiveInv, Asks, Said, Archives, LiveSound, TurnOver, Over,
             Written, Broken, GivenUp, Ended, Codex, Hermes, Act, shared,
             bounds, TypeOK, Exit, At, Mark, Accepted, Unsuspended, Verdict,
             Unreceipted, Torn, Asked, Waits, Arbitrated, Status, Result,
             LeaseState, Worker, Rec, Thread, Requests
<1> QED BY <1>1, <1>2, <1>3, <1>4 DEF LiveInv

LEMMA LiveArbitrate ==
    ASSUME LiveInv, Arbitrate
    PROVE  LiveInv'
<1>1. TypeOK'
    BY SessionAssumption
      DEF LiveInv, TypeOK, Arbitrate, Step, Worker, Rec, Codex, Hermes,
             shared, bounds
<1>2. Opening' /\ TerminalByTurn'
    BY SessionAssumption
      DEF LiveInv, TypeOK, Opening, TerminalByTurn, Arbitrate, Step,
             shared, bounds, Worker, Rec, Codex, Hermes, Over, Ended
<1>3. closing' = "none" => closing = "none"
    BY DEF Arbitrate, shared, bounds
<1>4. closing = "none" => /\ Asks' /\ Archives' /\ LiveSound(rec)'
                           /\ LiveSound(worker.seen)' /\ Written' /\ GivenUp'
    BY SessionAssumption
      DEF LiveInv, Asks, Said, Archives, LiveSound, TurnOver, Over,
             Written, Broken, GivenUp, Ended, Codex, Hermes, Arbitrate,
             shared, bounds, TypeOK, Step, Worker, Rec
<1> QED BY <1>1, <1>2, <1>3, <1>4 DEF LiveInv

LEMMA LiveBlock ==
    ASSUME LiveInv, Block
    PROVE  LiveInv'
<1>1. TypeOK'
    BY SessionAssumption
      DEF LiveInv, TypeOK, Block, Exit, At, Mark, Accepted, Unsuspended,
             Step, Asked, Arbitrated, Status, Result, Ended, LeaseState,
             Worker, Rec, Thread, Requests, Codex, Hermes, shared, bounds
<1>2. Opening' /\ TerminalByTurn'
    BY SessionAssumption
      DEF LiveInv, TypeOK, Opening, TerminalByTurn, Block, Exit, At, Mark,
             Accepted, Unsuspended, Step, Asked, Arbitrated, Status, Result,
             shared, bounds, Ended, LeaseState, Worker, Rec, Thread,
             Requests, Codex, Hermes, Over
<1>3. closing' = "none" => closing = "none"
    BY DEF Block, shared, bounds
<1>4. closing = "none" => /\ Asks' /\ Archives' /\ LiveSound(rec)'
                           /\ LiveSound(worker.seen)' /\ Written' /\ GivenUp'
    BY SessionAssumption
      DEF LiveInv, Asks, Said, Archives, LiveSound, TurnOver, Over,
             Written, Broken, GivenUp, Ended, Codex, Hermes, Block, shared,
             bounds, TypeOK, Exit, At, Mark, Accepted, Unsuspended, Step,
             Asked, Arbitrated, Status, Result, LeaseState, Worker, Rec,
             Thread, Requests
<1> QED BY <1>1, <1>2, <1>3, <1>4 DEF LiveInv

LEMMA LiveWait ==
    ASSUME LiveInv, Wait
    PROVE  LiveInv'
<1>1. TypeOK'
    BY SessionAssumption
      DEF LiveInv, TypeOK, Wait, Exit, At, Mark, Accepted, Unsuspended,
             Step, Waits, Result, Arbitrated, Status, Ended, LeaseState,
             Worker, Rec, Thread, Requests, Codex, Hermes, shared, bounds
<1>2. Opening' /\ TerminalByTurn'
    BY SessionAssumption
      DEF LiveInv, TypeOK, Opening, TerminalByTurn, Wait, Exit, At, Mark,
             Accepted, Unsuspended, Step, Waits, Result, Arbitrated, Status,
             shared, bounds, Ended, LeaseState, Worker, Rec, Thread,
             Requests, Codex, Hermes, Over
<1>3. closing' = "none" => closing = "none"
    BY DEF Wait, shared, bounds
<1>4. closing = "none" => /\ Asks' /\ Archives' /\ LiveSound(rec)'
                           /\ LiveSound(worker.seen)' /\ Written' /\ GivenUp'
    BY SessionAssumption
      DEF LiveInv, Asks, Said, Archives, LiveSound, TurnOver, Over,
             Written, Broken, GivenUp, Ended, Codex, Hermes, Wait, shared,
             bounds, TypeOK, Exit, At, Mark, Accepted, Unsuspended, Step,
             Waits, Result, Arbitrated, Status, LeaseState, Worker, Rec,
             Thread, Requests
<1> QED BY <1>1, <1>2, <1>3, <1>4 DEF LiveInv

LEMMA LiveLeave ==
    ASSUME LiveInv, Leave
    PROVE  LiveInv'
<1>1. TypeOK'
    BY SMTT(20), SessionAssumption
      DEF LiveInv, TypeOK, Leave, Exit, At, Worker, Rec, Thread, Requests,
             Codex, Hermes, shared, bounds
<1>2. Opening' /\ TerminalByTurn'
    BY SessionAssumption
      DEF LiveInv, TypeOK, Opening, TerminalByTurn, Leave, Exit, At,
             shared, bounds, Worker, Rec, Thread, Requests, Codex, Hermes,
             Over, Ended
<1>3. closing' = "none" => closing = "none"
    BY DEF Leave, shared, bounds
<1>4. closing = "none" => /\ Asks' /\ Archives' /\ LiveSound(rec)'
                           /\ LiveSound(worker.seen)' /\ Written' /\ GivenUp'
    BY SessionAssumption
      DEF LiveInv, Asks, Said, Archives, LiveSound, TurnOver, Over,
             Written, Broken, GivenUp, Ended, Codex, Hermes, Leave, shared,
             bounds, TypeOK, Exit, At, Worker, Rec, Thread, Requests
<1> QED BY <1>1, <1>2, <1>3, <1>4 DEF LiveInv

LEMMA LiveCrash ==
    ASSUME LiveInv, Crash
    PROVE  LiveInv'
<1>1. TypeOK'
  <2>1. worker' \in Worker
      BY SessionAssumption
      DEF LiveInv, TypeOK, Crash, Exit, At, Fault, Worker, Rec, Codex,
             Hermes
  <2>2. thread' \in Thread
      BY SessionAssumption
      DEF LiveInv, TypeOK, Crash, Exit, At, Fault, Thread, Requests,
             Codex, Hermes
  <2>3. faults' \in 0..MaxFaults
      BY SessionAssumption
      DEF LiveInv, TypeOK, Crash, Exit, At, Fault, Codex, Hermes
  <2>4. UNCHANGED <<run, server, plane, wire, rec, lease, task, closing, asks>>
      BY DEF Crash, shared, bounds
  <2> QED BY <2>1, <2>2, <2>3, <2>4 DEF LiveInv, TypeOK
<1>2. Opening' /\ TerminalByTurn'
    BY SessionAssumption
      DEF LiveInv, TypeOK, Opening, TerminalByTurn, Crash, Exit, At,
             Fault, shared, bounds, Worker, Rec, Thread, Requests, Codex,
             Hermes, Over, Ended
<1>3. closing' = "none" => closing = "none"
    BY DEF Crash, shared, bounds
<1>4. closing = "none" => /\ Asks' /\ Archives' /\ LiveSound(rec)'
                           /\ LiveSound(worker.seen)' /\ Written' /\ GivenUp'
    BY SessionAssumption
      DEF LiveInv, Asks, Said, Archives, LiveSound, TurnOver, Over,
             Written, Broken, GivenUp, Ended, Codex, Hermes, Crash, shared,
             bounds, TypeOK, Exit, At, Fault, Worker, Rec, Thread, Requests
<1> QED BY <1>1, <1>2, <1>3, <1>4 DEF LiveInv

LEMMA LiveReap ==
    ASSUME LiveInv, Reap
    PROVE  LiveInv'
<1>1. TypeOK'
    BY SessionAssumption
      DEF LiveInv, TypeOK, Reap, OrdinaryWait, Ended, LeaseState, Codex,
             Hermes, shared, bounds
<1>2. Opening' /\ TerminalByTurn'
    BY SessionAssumption
      DEF LiveInv, TypeOK, Opening, TerminalByTurn, Reap, OrdinaryWait,
             shared, bounds, Ended, LeaseState, Codex, Hermes, Over
<1>3. closing' = "none" => closing = "none"
    BY DEF Reap, shared, bounds
<1>4. closing = "none" => /\ Asks' /\ Archives' /\ LiveSound(rec)'
                           /\ LiveSound(worker.seen)' /\ Written' /\ GivenUp'
    BY SessionAssumption
      DEF LiveInv, Asks, Said, Archives, LiveSound, TurnOver, Over,
             Written, Broken, GivenUp, Ended, Codex, Hermes, Reap, shared,
             bounds, TypeOK, OrdinaryWait, LeaseState
<1> QED BY <1>1, <1>2, <1>3, <1>4 DEF LiveInv

LEMMA LiveReserve ==
    ASSUME LiveInv, Reserve
    PROVE  LiveInv'
<1>1. TypeOK'
    BY SessionAssumption
      DEF LiveInv, TypeOK, Reserve, Codex, Hermes, shared, bounds
<1>2. Opening' /\ TerminalByTurn'
    BY SessionAssumption
      DEF LiveInv, TypeOK, Opening, TerminalByTurn, Reserve, shared,
             bounds, Codex, Hermes, Over, Ended
<1>3. closing' # "none"
    BY DEF Reserve
<1> QED BY <1>1, <1>2, <1>3 DEF LiveInv

LEMMA LiveSignal ==
    ASSUME LiveInv, Signal
    PROVE  LiveInv'
<1>1. TypeOK'
    BY SMTT(20), SessionAssumption
      DEF LiveInv, TypeOK, Signal, Exit, At, Worker, Rec, Thread,
             Requests, Plane, Codex, Hermes, shared, bounds
<1>2. Opening' /\ TerminalByTurn'
    BY SessionAssumption
      DEF LiveInv, TypeOK, Opening, TerminalByTurn, Signal, Exit, At,
             shared, bounds, Worker, Rec, Thread, Requests, Plane, Codex,
             Hermes, Over, Ended
<1>3. closing' # "none"
    BY DEF Signal
<1> QED BY <1>1, <1>2, <1>3 DEF LiveInv

LEMMA LiveKill ==
    ASSUME LiveInv, Kill
    PROVE  LiveInv'
<1>1. TypeOK'
    BY ZenonT(40), SessionAssumption
      DEF LiveInv, TypeOK, Kill, Exit, At, Down, Cancelled, Worker, Rec,
             Thread, Requests, Server, Over, Codex, Hermes, shared, bounds
<1>2. Opening' /\ TerminalByTurn'
    BY SessionAssumption
      DEF LiveInv, TypeOK, Opening, TerminalByTurn, Kill, Exit, At, Down,
             Cancelled, shared, bounds, Worker, Rec, Thread, Requests,
             Server, Over, Codex, Hermes, Ended
<1>3. closing' # "none"
    BY SessionAssumption
      DEF Kill, Exit, At, Down, Cancelled, shared, bounds
<1> QED BY <1>1, <1>2, <1>3 DEF LiveInv

LEMMA LiveStep ==
    ASSUME LiveInv, Next
    PROVE  LiveInv'
<1>1. CASE Native
    BY <1>1, LiveBegin, LiveReply, LiveOrphaned DEF Native
<1>2. CASE EndTurn \/ Ask \/ Die \/ GiveUp \/ Timeout
    BY <1>2, LiveEndTurn, LiveAsk, LiveDie, LiveGiveUp, LiveTimeout
<1>3. CASE Talk
    BY <1>3, LiveOpen, LiveReceive, LiveClosed, LiveNotice, LiveInterrupt, LiveReadTurn,
       LiveUnseen, LiveTellStatus, LiveTellResult, LiveYield, LiveExpire, LiveResume,
       LiveSendAnswer, LiveConclude, LiveDisconnect, LiveReceiveFrame, LiveSuspendWait,
       LiveOutcome, LiveFail, LiveCloseTransport, LiveCloseLease DEF Talk
<1>4. CASE Work
    BY <1>4, LivePoll, LiveBeat, LiveReadStatus, LiveReadResult, LiveAct, LiveArbitrate,
       LiveBlock, LiveWait, LiveLeave DEF Work
<1>5. CASE Crash \/ Reap \/ Reserve \/ Signal \/ Kill
    BY <1>5, LiveCrash, LiveReap, LiveReserve, LiveSignal, LiveKill
<1> QED BY <1>1, <1>2, <1>3, <1>4, <1>5 DEF Next

LEMMA LiveRest ==
    ASSUME LiveInv, UNCHANGED vars
    PROVE  LiveInv'
BY DEF vars, shared, bounds, LiveInv, TypeOK, Opening, TerminalByTurn, Asks, Said, Archives,
       LiveSound, Written, Broken, GivenUp, TurnOver, Codex, Hermes

LEMMA LiveStarts ==
    ASSUME Init
    PROVE  LiveInv
<1>1. TypeOK
    BY SessionAssumption
       DEF Init, TypeOK, Run, Server, Requests, Plane, Thread, Rec, LeaseState, Worker, Messages
<1>2. Opening /\ TerminalByTurn
    BY DEF Init, Opening, TerminalByTurn
<1>3. Asks /\ Archives /\ GivenUp
    BY DEF Init, Asks, Said, Archives, GivenUp
<1>4. LiveSound(rec) /\ LiveSound(worker.seen) /\ Written
    BY DEF Init, LiveSound, Written
<1> QED BY <1>1, <1>2, <1>3, <1>4 DEF LiveInv

\* What the run's properties ask of a live session.
LEMMA LiveShows ==
    ASSUME LiveInv, Codex \/ Hermes
    PROVE  NoActiveWriter
<1>1. QuietWhileWaiting
    BY DEF LiveInv, Asks, GivenUp, TurnOver, Over, QuietWhileWaiting, Quiet
<1>2. WriterGoneFirst
    BY
       DEF LiveInv, TypeOK, Server, Asks, Archives, GivenUp, TurnOver, Over, WriterGoneFirst,
           Quiet
<1> QED BY <1>1, <1>2 DEF NoActiveWriter

-----------------------------------------------------------------------------
(* A run of any executor.                                                  *)

\* The executors are told apart.
LEMMA Apart ==
    ASSUME Adapter
    PROVE  /\ Sdk => ~OneCommand
           /\ ~Sdk /\ ~OneCommand => run.adapter \in Adapters /\ (Codex \/ Hermes)
BY SessionAssumption, CommandAssumption, SdkAssumption
   DEF Adapter, Sdk, OneCommand, Codex, Hermes

\* A run keeps its executor.
LEMMA RunStays ==
    ASSUME SNext
    PROVE  run' = run
<1>1. CASE SdkNext
  <2>1. CASE UseTool \/ ResultMessage \/ AgentDies \/ AgentLeft \/ \E c \in Call : ToolEnds(c)
    BY <2>1 DEF UseTool, ResultMessage, AgentDies, AgentLeft, ToolEnds, Fixed
  <2>2. CASE Loop \/ Hear
    BY <2>2 DEF Loop, Continue, Request, Hear, Fixed
  <2>3. CASE Drive
    BY <2>3 DEF Drive, Connect, StreamEnds, SafetyTimeout, RecordDeath, MarkStale, Capture,
                StopTransport, EndLease, Publish, Fixed
  <2>4. CASE Main
    BY <2>4 DEF Main, RefuseSession, SessionRefused, StartRecovers, StartSession, PollResult,
                PollPlane, PollBeat, BlockLive, ActOnResult, Leaves, Fixed
  <2>5. CASE WorkerDies \/ (\E say \in Say : RecordAnswer(say)) \/ TellPlane
             \/ DeadlinePasses \/ ExpireWait \/ TerminateGroup \/ Reap \/ Reserve
    BY <2>5 DEF WorkerDies, RecordAnswer, TellPlane, DeadlinePasses, ExpireWait,
                TerminateGroup, Reap, Reserve, Fixed
  <2> QED BY <1>1, <2>1, <2>2, <2>3, <2>4, <2>5 DEF SdkNext
<1>2. CASE CNext
  <2>1. CASE Proceed
    BY <2>1 DEF Proceed, Refuse, Unfit, Unspawned, Spawn, Exited, Deadline, Interrupted,
                Terminate, Reclaim, Collect, Unwind, NotStarted, Rested, vars
  <2>2. CASE Unbound \/ Unexpected \/ HeartbeatThread \/ ChildEnds \/ Fork \/ HelperEnds
             \/ Terminated \/ Watchdog
    BY <2>2 DEF Unbound, Unexpected, HeartbeatThread, ChildEnds, Fork, HelperEnds, Terminated,
                Watchdog, Rested, vars
  <2>3. CASE Work \/ Crash \/ Reap \/ Reserve
    BY <2>3 DEF Work, Poll, Beat, ReadStatus, ReadResult, Act, Arbitrate, Block, Wait, Leave,
                Crash, Reap, Reserve
  <2>4. CASE Next
    <3>1. CASE Native \/ EndTurn \/ Ask \/ Die \/ GiveUp \/ Timeout \/ Signal \/ Kill
      BY <3>1 DEF Native, Begin, Reply, Orphaned, EndTurn, Ask, Die, GiveUp, Timeout, Signal,
                  Kill
    <3>2. CASE Talk
      BY <3>2 DEF Talk, Open, Receive, Closed, Notice, Interrupt, ReadTurn, Unseen, TellStatus,
                  TellResult, Yield, Expire, Resume, SendAnswer, Conclude, Disconnect,
                  ReceiveFrame, SuspendWait, Outcome, Fail, CloseTransport, CloseLease
    <3> QED BY <2>3, <2>4, <3>1, <3>2 DEF Next
  <2> QED BY <1>2, <2>1, <2>2, <2>3, <2>4 DEF CNext
<1> QED BY <1>1, <1>2 DEF SNext

LEMMA SessionStarts ==
    ASSUME SInit
    PROVE  SessionInv
<1>1. CASE Init /\ command = NoCommand /\ asking = NoAsking(FALSE)
  <2>1. run.adapter \in Adapters
    BY <1>1 DEF Init, Run
  <2>2. ~Sdk /\ ~OneCommand
    BY <2>1, SessionAssumption, CommandAssumption, SdkAssumption DEF Sdk, OneCommand
  <2> QED BY <1>1, <2>1, <2>2, LiveStarts DEF SInit, SessionInv, Adapter
<1>2. CASE CommandInit /\ command = NoCommand /\ asking = NoAsking(FALSE)
  <2>1. OneCommand
    BY <1>2 DEF CommandInit, OneCommand
  <2> QED BY <1>2, <2>1, CommandKinds, CommandStarts DEF SInit, SessionInv, Adapter, OneCommand
<1>3. CASE SdkInit /\ \E full \in BOOLEAN : asking = NoAsking(full)
  <2>1. Sdk
    BY <1>3 DEF SdkInit, Sdk
  <2> QED BY <1>3, <2>1, SdkStarts DEF SInit, SessionInv, Adapter, Sdk
<1> QED BY <1>1, <1>2, <1>3 DEF SInit, CInit

LEMMA SessionStep ==
    ASSUME SessionInv, [SNext]_svars
    PROVE  SessionInv'
<1>1. run' = run
    BY RunStays DEF svars, cvars, vars
<1>2. Adapter' /\ Sdk' = Sdk /\ OneCommand' = OneCommand
    BY <1>1 DEF SessionInv, Adapter, Sdk, OneCommand
<1>3. CASE Sdk
    BY <1>2, <1>3, SdkStep, SdkRest DEF SessionInv, SNext
<1>4. CASE ~Sdk
  <2>1. UNCHANGED <<asking, control, sdk>>
    BY <1>4 DEF SNext, svars
  <2>2. asking' = NoAsking(FALSE) /\ control' = NoControl /\ sdk' = NoSdk
    BY <1>4, <2>1 DEF SessionInv
  <2>3. CASE OneCommand
    BY <1>2, <1>4, <2>2, <2>3, CommandStep, CommandRest DEF SessionInv, SNext, svars
  <2>4. CASE ~OneCommand
    BY <1>2, <1>4, <2>2, <2>4, LiveStep, LiveRest DEF SessionInv, SNext, CNext, svars, cvars
  <2> QED BY <2>3, <2>4
<1> QED BY <1>3, <1>4

LEMMA SessionInvariant == SSpec => []SessionInv
BY SessionStarts, SessionStep, PTL DEF SSpec

\* One run asks its user once, whatever tools the agent tries at a time and
\* however the answer, the deadline and the transport's death interleave; no
\* tool gets permission, and no session its full mode, without the accept
\* (can_use_tool, _request_and_wait, request_approval).
THEOREM AsksOnce == SSpec => []OneElevation
<1>1. SessionInv => OneElevation
  <2>1. CASE Sdk
    BY <2>1 DEF SessionInv, SdkInv
  <2>2. ASSUME SessionInv, ~Sdk
        PROVE  OneElevation
    BY <2>2 DEF SessionInv, OneElevation, NoAsking
  <2> QED BY <2>1, <2>2
<1> QED BY <1>1, SessionInvariant, PTL

\* Whoever takes over - the user, a continuation, the cleanup - does not meet
\* an active native writer: a lease is not closed over a server, a child or an
\* agent that still writes, and while a task waits its turn stands still.
THEOREM WriterDoneFirst == SSpec => []NoWriterInSession
<1>1. ASSUME SessionInv
      PROVE  NoWriterInSession
  <2>1. CASE Sdk
    BY <1>1, <2>1 DEF SessionInv, SdkInv, SdkTypes, SdkPlaces, AnswerComes, TurnOver, Over,
       NoWriterInSession, LeaseAfterAgent, TurnRuns, NoneActive
  <2>2. CASE ~Sdk /\ OneCommand
    BY <1>1, <2>2 DEF SessionInv, CommandInv, CommandTypes, CommandTold, CompletedSound, Clear,
       NoWriterInSession, NoWriterLeft, LeaseAfterChild
  <2>3. CASE ~Sdk /\ ~OneCommand
    <3>1. Codex \/ Hermes
      BY <1>1, <2>3, Apart DEF SessionInv
    <3> QED BY <1>1, <2>3, <3>1, LiveShows DEF SessionInv, NoWriterInSession, NoWriterLeft
  <2> QED BY <2>1, <2>2, <2>3
<1> QED BY <1>1, SessionInvariant, PTL


\* A command says of its task what its output said as a whole.
LEMMA CommandSaid == SSpec => [](OneCommand => SaidWhole)
<1>1. ASSUME SInit, OneCommand
      PROVE  SaidWhole
  <2>1. run.adapter \in Commands
    BY <1>1 DEF OneCommand
  <2>2. CommandInit
    BY <1>1, <2>1, SessionAssumption, CommandAssumption, SdkAssumption
       DEF SInit, CInit, Init, SdkInit, Run
  <2> QED BY <2>2 DEF CommandInit, SaidWhole
<1>2. ASSUME SessionInv, OneCommand => SaidWhole, [SNext]_svars
      PROVE  (OneCommand => SaidWhole)'
  <2>1. OneCommand' = OneCommand /\ (OneCommand => ~Sdk /\ CommandInv)
    BY <1>2, RunStays, CommandKinds DEF SessionInv, OneCommand, svars, cvars, vars
  <2>2. CASE OneCommand /\ CNext
    BY <1>2, <2>1, <2>2, SaidWholeStep
  <2>3. CASE ~OneCommand
    BY <2>1, <2>3
  <2>4. CASE UNCHANGED cvars
    BY <1>2, <2>1, <2>4 DEF cvars, vars, shared, SaidWhole
  <2> QED BY <1>2, <2>1, <2>2, <2>3, <2>4 DEF SNext, svars
<1> QED BY <1>1, <1>2, SessionInvariant, PTL DEF SSpec

\* A run completes its task by what ended it and by nothing less: a live
\* session by a completed native turn, a command by an exit of its own and an
\* output that says so as a whole, an SDK session by the agent's result. It
\* fails it by an end as well; a timeout, a cancel or a lost transport is
\* recovery (route_executor_terminal, _gate_protocol, _run_sdk_session).
THEOREM StatusIsEarned == SSpec => []EarnedInSession
<1>1. ASSUME SessionInv, OneCommand => SaidWhole
      PROVE  EarnedInSession
  <2>1. CASE Sdk
    BY <1>1, <2>1 DEF SessionInv, SdkInv, EarnedInSession
  <2>2. CASE ~Sdk /\ OneCommand
    BY <1>1, <2>2
       DEF SessionInv, CommandInv, CommandTold, CompletedSound, FailedSound, SaidWhole,
       EarnedInSession, EarnedOutcome, EarnedByExit
  <2>3. CASE ~Sdk /\ ~OneCommand
    BY <1>1, <2>3 DEF SessionInv, LiveInv, EarnedInSession, EarnedOutcome
  <2> QED BY <2>1, <2>2, <2>3
<1> QED BY <1>1, SessionInvariant, CommandSaid, PTL

\* Threads, records, wire and processes of a run of any kind keep their types,
\* whoever writes them (the adapters' threads, the worker's loop, Runner).
THEOREM SessionTypes == SSpec => []STypeOK
<1> DEFINE NoneRun == ~Sdk /\ ~OneCommand => command = NoCommand
<1>1. SInit => NoneRun
    BY DEF SInit, CInit
<1>2. ASSUME SessionInv, NoneRun, [SNext]_svars
      PROVE  NoneRun'
  <2>1. Sdk' = Sdk /\ OneCommand' = OneCommand
    BY <1>2, RunStays DEF Sdk, OneCommand, svars, cvars, vars
  <2>2. ~Sdk /\ ~OneCommand => command' = command
    BY <1>2 DEF SNext, CNext, svars, cvars
  <2> QED BY <1>2, <2>1, <2>2
<1>3. ASSUME SessionInv, NoneRun
      PROVE  STypeOK
  <2>1. NoAsking(FALSE) \in Asking /\ NoControl \in Control /\ NoSdk \in SdkThread
    <3>1. NoAsking(FALSE) \in Asking
      BY SessionAssumption DEF NoAsking, Asking
    <3>2. NoControl \in Control
      BY DEF NoControl, Control
    <3>3. NoSdk \in SdkThread
      BY DEF NoSdk, SdkThread, Recovery, Stored, Rec
    <3> QED BY <3>1, <3>2, <3>3
  <2>2. NoCommand \in Command
    BY DEF NoCommand, Command
  <2>3. CASE Sdk
    BY <1>3, <2>3 DEF SessionInv, SdkInv, SdkTypes, STypeOK
  <2>4. CASE ~Sdk /\ OneCommand
    BY <1>3, <2>1, <2>4 DEF SessionInv, CommandInv, CommandTypes, STypeOK, CTypeOK
  <2>5. CASE ~Sdk /\ ~OneCommand
    BY <1>3, <2>1, <2>2, <2>5 DEF SessionInv, LiveInv, STypeOK, CTypeOK
  <2> QED BY <2>3, <2>4, <2>5
<1> HIDE DEF NoneRun
<1> QED BY <1>1, <1>2, <1>3, SessionInvariant, PTL DEF SSpec

=============================================================================
