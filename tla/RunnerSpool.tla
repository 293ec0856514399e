----------------------------- MODULE RunnerSpool -----------------------------
(***************************************************************************)
(* The spool between commands and the Runner (runner_ipc.py): a command    *)
(* writes a request file and polls for the response until its deadline;    *)
(* the Runner takes the requests of a listing one after the other, by      *)
(* moving each to its processing directory.  Which process is the Runner   *)
(* is decided by two pid files, that of the state and that of the spool.   *)
(*                                                                         *)
(* A step is one file operation or one reading of a file; a release of the *)
(* pid files is one step, and so are the response and the removal of what  *)
(* was processed.  All have the same token and the same channel.           *)
(***************************************************************************)
EXTENDS Naturals

CONSTANTS
    Calls,          \* calls of commands, each with a request of its own
    NoCall,
    MaxStarts,      \* bound: Runner processes that are started
    MaxSignals,     \* bound: SIGTERMs
    MaxDeaths       \* bound: processes that die, Runners and commands

ASSUME SpoolAssumption ==
    /\ NoCall \notin Calls
    /\ MaxStarts \in Nat \ {0}
    /\ MaxSignals \in Nat
    /\ MaxDeaths \in Nat

Runner == 1..MaxStarts
Former == 0                 \* a Runner that died before
Path == 1..2                \* pid_paths, in the order they are gone through

Following(k) == IF k = 1 THEN 2 ELSE 1

VARIABLES
    pid,        \* the pid files: who created it, and whether its pid is in it
    runner,     \* the Runner processes
    call,       \* the calls, with their files
    signals, deaths

spoolVars == <<pid, runner, call, signals, deaths>>

NoFile == [by |-> Former, there |-> FALSE, written |-> FALSE]
PidFile == [by : Runner \cup {Former}, there : BOOLEAN, written : BOOLEAN]

Starting == {"create", "look", "unlink", "write"}
Serving == {"list", "take", "admit", "execute", "respond"}
Off == [pc |-> "off", at |-> 1, owned |-> {}, todo |-> {}, now |-> NoCall,
        result |-> "none", stop |-> FALSE]
Results == {"ok", "failed", "refused"}
Process == [pc : {"new", "off", "identity"} \cup Starting \cup Serving, at : Path,
            owned : SUBSET Path, todo : SUBSET Calls, now : Calls \cup {NoCall},
            result : Results \cup {"none"}, stop : BOOLEAN]

\* client: what the command knows.  late: expires_at has passed.
Call == [client : {"new", "waiting", "gave up", "dead"} \cup Results,
         late : BOOLEAN, request : {"none", "spooled", "taken"},
         response : Results \cup {"none"}, admitted : BOOLEAN, runs : 0..2]

PidAlive(r) == r # Former /\ runner[r].pc \notin {"new", "off"}
Is(r, pc) == runner[r].pc = pc
Goto(r, pc) == runner' = [runner EXCEPT ![r].pc = pc]

SpoolInit ==
    /\ \/ pid = [k \in Path |-> NoFile]
       \/ pid = [k \in Path |-> [by |-> Former, there |-> TRUE, written |-> TRUE]]
    /\ runner = [r \in Runner |-> [Off EXCEPT !.pc = "new"]]
    /\ call = [q \in Calls |-> [client |-> "new", late |-> FALSE, request |-> "none",
                                response |-> "none", admitted |-> FALSE, runs |-> 0]]
    /\ signals = 0 /\ deaths = 0

-----------------------------------------------------------------------------
(* Which process is the Runner.                                            *)

Start(r) ==
    /\ Is(r, "new")
    /\ Goto(r, "create")
    /\ UNCHANGED <<pid, call, signals, deaths>>

\* _acquire_singleton_pid: O_CREAT | O_EXCL, for one path after the other.
Create(r) ==
    LET k == runner[r].at IN
    /\ Is(r, "create")
    /\ IF pid[k].there
       THEN Goto(r, "look") /\ UNCHANGED pid
       ELSE /\ pid' = [pid EXCEPT ![k] = [by |-> r, there |-> TRUE, written |-> FALSE]]
            /\ Goto(r, "write")
    /\ UNCHANGED <<call, signals, deaths>>

\* The pid goes into the file that was opened, which another may have removed.
Write(r) ==
    LET k == runner[r].at IN
    /\ Is(r, "write")
    /\ pid' = IF pid[k].by = r THEN [pid EXCEPT ![k].written = TRUE] ELSE pid
    /\ runner' = [runner EXCEPT ![r].owned = @ \cup {k},
                                ![r].at = Following(k),
                                ![r].pc = IF k = 1 THEN "create" ELSE "identity"]
    /\ UNCHANGED <<call, signals, deaths>>

Mine(r, k) == pid[k].there /\ pid[k].written /\ pid[k].by = r

\* _release_singleton_pid, of the paths this process created.
Released(r) == [k \in Path |-> IF k \in runner[r].owned /\ Mine(r, k) THEN NoFile ELSE pid[k]]
Leave(r) == pid' = Released(r) /\ runner' = [runner EXCEPT ![r] = Off]

\* The pid of a file is alive, or the file may go.  What is not written yet is no pid.
Look(r) ==
    LET k == runner[r].at IN
    /\ Is(r, "look")
    /\ IF pid[k].there /\ pid[k].written /\ PidAlive(pid[k].by)
       THEN Leave(r)
       ELSE Goto(r, "unlink") /\ UNCHANGED pid
    /\ UNCHANGED <<call, signals, deaths>>

Unlink(r) ==
    /\ Is(r, "unlink")
    /\ pid' = [pid EXCEPT ![runner[r].at] = NoFile]
    /\ Goto(r, "create")
    /\ UNCHANGED <<call, signals, deaths>>

\* _identity_is_current, before each listing; a stopped Runner leaves.
Identity(r) ==
    LET k == runner[r].at IN
    /\ Is(r, "identity")
    /\ IF ~Mine(r, k) \/ (k = 1 /\ runner[r].stop)
       THEN Leave(r)
       ELSE /\ runner' = [runner EXCEPT ![r].at = Following(k),
                                        ![r].pc = IF k = 1 THEN "identity" ELSE "list"]
            /\ UNCHANGED pid
    /\ UNCHANGED <<call, signals, deaths>>

\* SIGTERM: shutdown releases the pid files and ends the loop after the listing.
Signal(r) ==
    /\ runner[r].pc \in Serving \cup {"identity"} /\ ~runner[r].stop
    /\ signals < MaxSignals
    /\ signals' = signals + 1
    /\ pid' = Released(r)
    /\ runner' = [runner EXCEPT ![r].stop = TRUE, ![r].owned = {}]
    /\ UNCHANGED <<call, deaths>>

CrashRunner(r) ==
    /\ PidAlive(r)
    /\ deaths < MaxDeaths
    /\ deaths' = deaths + 1
    /\ runner' = [runner EXCEPT ![r] = Off]
    /\ UNCHANGED <<pid, call, signals>>

-----------------------------------------------------------------------------
(* Serving: serve_once.                                                    *)

\* (Mutation: requests whose client has given up are passed over.)
ListedInTime(q) == call[q].request = "spooled" /\ ~call[q].late
Listed(q) == call[q].request = "spooled"

List(r) ==
    /\ Is(r, "list")
    /\ runner' = [runner EXCEPT ![r].todo = {q \in Calls : Listed(q)}, ![r].pc = "take"]
    /\ UNCHANGED <<pid, call, signals, deaths>>

\* (Mutation: the request is read where it is.)
LeftInSpool == "spooled"
MovedAway == "taken"

\* os.replace to the processing directory; another may have been faster.
Take(r) ==
    /\ Is(r, "take")
    /\ IF runner[r].todo = {}
       THEN Goto(r, "identity") /\ UNCHANGED call
       ELSE \E q \in runner[r].todo :
              IF call[q].request = "spooled"
              THEN /\ call' = [call EXCEPT ![q].request = MovedAway]
                   /\ runner' = [runner EXCEPT ![r].todo = @ \ {q}, ![r].now = q,
                                               ![r].pc = "admit"]
              ELSE runner' = [runner EXCEPT ![r].todo = @ \ {q}] /\ UNCHANGED call
    /\ UNCHANGED <<pid, signals, deaths>>

\* (Mutation: expires_at is not looked at.)
Any(q) == TRUE
InTime(q) == ~call[q].late

Admit(r) ==
    LET q == runner[r].now IN
    /\ Is(r, "admit")
    /\ IF InTime(q)
       THEN Goto(r, "execute") /\ call' = [call EXCEPT ![q].admitted = TRUE]
       ELSE /\ runner' = [runner EXCEPT ![r].pc = "respond", ![r].result = "refused"]
            /\ UNCHANGED call
    /\ UNCHANGED <<pid, signals, deaths>>

\* _dispatch_request: the handler of the operation, which may fail.
Execute(r) ==
    LET q == runner[r].now IN
    /\ Is(r, "execute")
    /\ call[q].runs < 2
    /\ call' = [call EXCEPT ![q].runs = @ + 1]
    /\ \E result \in {"ok", "failed"} :
          runner' = [runner EXCEPT ![r].pc = "respond", ![r].result = result]
    /\ UNCHANGED <<pid, signals, deaths>>

WriteResponse(r) ==
    LET q == runner[r].now IN
    /\ Is(r, "respond")
    /\ call' = [call EXCEPT ![q].response = runner[r].result,
                            ![q].request = IF @ = "taken" THEN "none" ELSE @]
    /\ runner' = [runner EXCEPT ![r].pc = "take", ![r].now = NoCall, ![r].result = "none"]
    /\ UNCHANGED <<pid, signals, deaths>>

-----------------------------------------------------------------------------
(* A command: RunnerClient._request.                                       *)

Request(q) ==
    /\ call[q].client = "new"
    /\ call' = [call EXCEPT ![q].client = "waiting", ![q].request = "spooled"]
    /\ UNCHANGED <<pid, runner, signals, deaths>>

Receive(q) ==
    /\ call[q].client = "waiting" /\ call[q].response # "none"
    /\ call' = [call EXCEPT ![q].client = call[q].response, ![q].response = "none"]
    /\ UNCHANGED <<pid, runner, signals, deaths>>

RequestExpires(q) ==
    /\ call[q].client # "new" /\ ~call[q].late
    /\ call' = [call EXCEPT ![q].late = TRUE]
    /\ UNCHANGED <<pid, runner, signals, deaths>>

\* The deadline of the command is after that of its request.  The response is
\* not looked for again.
GiveUp(q) ==
    /\ call[q].client = "waiting" /\ call[q].late
    /\ call' = [call EXCEPT ![q].client = "gave up",
                            ![q].request = IF @ = "spooled" THEN "none" ELSE @]
    /\ UNCHANGED <<pid, runner, signals, deaths>>

CrashClient(q) ==
    /\ call[q].client = "waiting"
    /\ deaths < MaxDeaths
    /\ deaths' = deaths + 1
    /\ call' = [call EXCEPT ![q].client = "dead"]
    /\ UNCHANGED <<pid, runner, signals>>

-----------------------------------------------------------------------------
Serve(r) == List(r) \/ Take(r) \/ Admit(r) \/ Execute(r) \/ WriteResponse(r)
Acquire(r) == Create(r) \/ Write(r) \/ Look(r) \/ Unlink(r) \/ Identity(r)

SpoolNext ==
    \/ \E r \in Runner : Start(r) \/ Acquire(r) \/ Serve(r) \/ Signal(r) \/ CrashRunner(r)
    \/ \E q \in Calls : Request(q) \/ Receive(q) \/ RequestExpires(q) \/ GiveUp(q) \/ CrashClient(q)

SpoolSpec == SpoolInit /\ [][SpoolNext]_spoolVars

\* A Runner that was started goes on.  Nobody has to start one or to wait.
SpoolFairness == \A r \in Runner : WF_spoolVars(Acquire(r) \/ Serve(r))

SpoolFairSpec == SpoolSpec /\ SpoolFairness

-----------------------------------------------------------------------------
(* Properties.                                                             *)

\* The pid files, the Runner processes and the calls with their files are well
\* formed (runner_ipc.py).
SpoolTypeOK ==
    /\ pid \in [Path -> PidFile]
    /\ runner \in [Runner -> Process]
    /\ call \in [Calls -> Call]
    /\ signals \in 0..MaxSignals /\ deaths \in 0..MaxDeaths

\* A request is executed at most once, however Runners start, stop and die over
\* it, and the command is told the truth: accepted means executed, refused as
\* expired means that it was not (serve_once, _request).
ExecutedAsAnswered ==
    \A q \in Calls :
        /\ call[q].runs <= 1
        /\ call[q].client = "ok" => call[q].runs = 1
        /\ call[q].client = "refused" => call[q].runs = 0

\* A call that was given up before the Runner admitted it is never executed
\* later, so a user may repeat it: the removed request and the expiry of a taken
\* one leave no gap between them.
GivenUpStaysUndone ==
    [][\A q \in Calls : call[q].client = "gave up" /\ ~call[q].admitted =>
            call'[q].runs = call[q].runs /\ ~call'[q].admitted]_spoolVars

\* While there is a Runner no request stays in the spool, not even that of a
\* command that died.
SpoolDrains ==
    \A q \in Calls : call[q].request = "spooled" ~>
        \/ call[q].request # "spooled"
        \/ \A r \in Runner : runner[r].pc \notin Serving \cup {"identity"}

=============================================================================
