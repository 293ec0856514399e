---------------------------- MODULE CodexCleanup ----------------------------
(***************************************************************************)
(* What happens inside one cleanup call of the Codex executor              *)
(* (executors/codex.py, codex_session_cleanup.py, codex_desktop_archive.py *)
(* and container_session_cleanup.py), under the passes of SessionCleanup.  *)
(*                                                                         *)
(* A thread is deleted only after somebody acknowledged that it was        *)
(* archived: Codex Desktop, over the route a broker in the Runner's memory *)
(* keeps, or the user's Codex app, or, in a container, the server itself.  *)
(* Then one connection to the app server sends thread/delete, and a second *)
(* one reads the thread back.  Every request can be lost, refused or time  *)
(* out, with or without its effect, and a pass that retries begins again   *)
(* at the archive.                                                         *)
(*                                                                         *)
(* The Runner serves its requests and its maintenance in one loop, so a    *)
(* registration never falls into a call: the broker's generations and its  *)
(* events for a second caller have nothing to do here.  Requests are       *)
(* assumed to carry a bound receipt (_codex_cleanup_request_error).        *)
(***************************************************************************)
EXTENDS SessionCleanup

CONSTANT Followed   \* the kinds of task whose calls are followed inside

ASSUME FollowedAssumption ==
    Followed \subseteq [codex : {Session}, keep : SUBSET Session]

VARIABLES
    opened,     \* the calls of this task are followed inside
    archived,   \* the threads Codex has archived at some time
    broker,     \* the Runner's CodexDesktopArchiveBroker
    wake,       \* a registration's forced maintenance is still to be run
    exec        \* the call under way

inside == <<archived, broker, wake, exec>>
codexVars == <<vars, opened, inside>>

-----------------------------------------------------------------------------
(* The answers of a call.                                                  *)

Succeeded == [state |-> "succeeded", retry |-> FALSE, error |-> "none"]
Failed(retry, error) == [state |-> "failed", retry |-> retry, error |-> error]
NoAnswer == Failed(FALSE, "other")

\* codex_session_delete_failed, which an acknowledgement overrides when Desktop
\* had acknowledged the archive.
DeleteFailed == Failed(FALSE, IF Container THEN "other" ELSE "desktop")

\* A connection lost or a request timed out.
Lost == Failed(TRUE, "other")

NoExec == [at |-> "none", answer |-> NoAnswer]
GoTo(step) == exec' = [at |-> step, answer |-> NoAnswer]
Tell(answer) == exec' = [at |-> "told", answer |-> answer]

Inside(p, step) == proc[p].pc = "calling" /\ exec.at = step

-----------------------------------------------------------------------------
(* The broker.                                                             *)

Capability == {"unavailable", "unknown", "supported", "unsupported"}
Cached == {"none", "acknowledged", "rejected", "unsupported"}

Fresh(capability) ==
    [capability |-> capability, results |-> [s \in Session |-> "none"]]

\* route_available
Available(b) == b.capability \in {"unknown", "supported"}

SetBroker(b) == broker' = b /\ route' = Available(b)

\* register: the context is invalid, its tools could not be read, or they hold
\* the archive tool or not.  What the last route answered is forgotten.
Register(p, capability) ==
    /\ ~Container
    /\ "maintain" \in Modes[p]
    /\ proc[p].pc = "idle"
    /\ ~wake
    /\ SetBroker(Fresh(capability))
    /\ wake' = TRUE
    /\ UNCHANGED <<task, lease, popup, lock, proc, gone, run, kind, crashes, acks,
                   calls, archived, exec>>

\* The answer is the same to whoever asks again on this route.
Remember(s, answer, capability) ==
    SetBroker([broker EXCEPT !.capability = capability, !.results[s] = answer])

\* What the adapter makes of the broker's answer.
AfterDesktop(answer) ==
    CASE answer = "acknowledged" -> GoTo("connect")
      [] answer = "unsupported" -> Tell(Failed(TRUE, "other"))
      [] OTHER -> Tell(Failed(TRUE, "desktop"))

\* The facade or the relay closes, times out or answers with an error, before or
\* after Codex archived the thread.
LoseRoute(s) ==
    /\ SetBroker([broker EXCEPT !.capability = "unknown"])
    /\ AfterDesktop("lost")
    /\ archived' \in {archived, archived \cup ({s} \ gone)}

\* _archive_on_route, where the tool list is read unless it is known.
ArchiveOnRoute(s) ==
    \/ /\ broker.capability # "supported"
       /\ Remember(s, "unsupported", "unsupported")
       /\ AfterDesktop("unsupported")
       /\ UNCHANGED archived
    \/ /\ Remember(s, "rejected", broker.capability)
       /\ AfterDesktop("rejected")
       /\ UNCHANGED archived
    \/ /\ s \notin gone
       /\ Remember(s, "acknowledged", "supported")
       /\ AfterDesktop("acknowledged")
       /\ archived' = archived \cup {s}
    \/ LoseRoute(s)

AcknowledgedForAll(p, s) == "acknowledged"

\* AcknowledgedCodexDesktopArchiveBroker answers for the one session it was
\* made for.
AcknowledgedAnswer(p, s) == IF s = proc[p].ack THEN "acknowledged" ELSE "rejected"

AskDesktop(p) ==
    LET s == proc[p].target
        cached == broker.results[s] IN
    /\ Inside(p, "archive")
    /\ ~Container
    /\ IF proc[p].mode = "ack"
       THEN AfterDesktop(AcknowledgedAnswer(p, s)) /\ UNCHANGED <<archived, broker, route>>
       ELSE IF cached # "none"
            THEN AfterDesktop(cached) /\ UNCHANGED <<archived, broker, route>>
            ELSE ArchiveOnRoute(s)
    /\ UNCHANGED <<task, lease, popup, lock, proc, gone, run, kind, crashes, acks,
                   calls, wake>>

-----------------------------------------------------------------------------
(* The app server.                                                         *)

\* A container's launcher is checked before anything is asked.
CheckScope(p) ==
    /\ Inside(p, "archive")
    /\ Container
    /\ GoTo("connect") \/ Tell(Failed(FALSE, "scope"))
    /\ UNCHANGED <<vars, archived, broker, wake>>

\* A recovery has parked the task's own session: the receipt says it is archived.
Prearchived(p) == ~Container \/ (Parked /\ proc[p].target = Primary)

\* The first connection is made and initialized.
Connect(p) ==
    /\ Inside(p, "connect")
    /\ \/ GoTo(IF Prearchived(p) THEN "delete" ELSE "gate")
       \/ Tell(Lost)
       \/ Tell(DeleteFailed)
    /\ UNCHANGED <<vars, archived, broker, wake>>

\* _wait_archive: no deletion without the server's acknowledgement.
ArchiveOnServer(p) ==
    LET s == proc[p].target IN
    /\ Inside(p, "gate")
    /\ \/ s \notin gone /\ archived' = archived \cup {s} /\ GoTo("delete")
       \/ archived' \in {archived, archived \cup ({s} \ gone)} /\ Tell(Lost)
       \/ UNCHANGED archived /\ Tell(Failed(FALSE, "other"))
    /\ UNCHANGED <<vars, broker, wake>>

\* The server deletes the thread while the connection that asked is open.
ServerDeletes(p) ==
    /\ Inside(p, "delete")
    /\ ExecutorDeletes(p)
    /\ UNCHANGED inside

\* _wait_delete: an error is an answer as well, the reading that follows decides.
AnswerDelete(p) ==
    /\ Inside(p, "delete")
    /\ GoTo("read") \/ Tell(Lost)
    /\ UNCHANGED <<vars, archived, broker, wake>>

JudgedByCommands(cli) == Succeeded

\* What the second connection finds (_read_absence), and the verdict on it.
Judge(cli) == IF cli = "absent" THEN Succeeded ELSE Failed(FALSE, "other")

ReadBack(p) ==
    LET s == proc[p].target IN
    /\ Inside(p, "read")
    /\ \/ Tell(Judge(IF s \in gone THEN "absent" ELSE "present"))
       \/ Tell(Lost)
       \/ Tell(DeleteFailed)
    /\ UNCHANGED <<vars, archived, broker, wake>>

-----------------------------------------------------------------------------
(* The passes over a task that has ended and is not run again.             *)

\* A registration is followed by its forced maintenance before the Runner turns to
\* anything else.  An acknowledgement says that the user's Codex app archived
\* the thread.
BeginFollowed(p, mode, ack) ==
    /\ BeginPass(p, mode, ack)
    /\ "maintain" \in Modes[p] => (mode = "wake" <=> wake)
    /\ wake' = (wake /\ "maintain" \notin Modes[p])
    /\ archived' = archived \cup ({ack} \cap Session)
    /\ UNCHANGED <<broker, exec>>

HandleFollowed(p) == HandleSession(p) /\ UNCHANGED inside

CallFollowed(p) ==
    /\ Call(p)
    /\ IF proc'[p].pc = "calling" THEN GoTo("archive") ELSE UNCHANGED exec
    /\ UNCHANGED <<archived, broker, wake>>

ApplyFollowed(p) ==
    /\ Inside(p, "told")
    /\ Apply(p, exec.answer)
    /\ exec' = NoExec
    /\ UNCHANGED <<archived, broker, wake>>

\* A crash of the Runner takes the broker with it.
CrashFollowed(p) ==
    /\ Crash(p)
    /\ exec' = NoExec
    /\ broker' = IF "maintain" \in Modes[p] THEN Fresh("unavailable") ELSE broker
    /\ wake' = (wake /\ "maintain" \notin Modes[p])
    /\ UNCHANGED archived

StepFollowed(p) ==
    \/ HandleFollowed(p)
    \/ CallFollowed(p)
    \/ AskDesktop(p)
    \/ CheckScope(p)
    \/ Connect(p)
    \/ ArchiveOnServer(p)
    \/ AnswerDelete(p)
    \/ ReadBack(p)
    \/ ApplyFollowed(p)

NextFollowed ==
    \/ \E p \in Processes :
          \/ \E m \in Mode, a \in Session \cup {NoSession} : BeginFollowed(p, m, a)
          \/ StepFollowed(p)
          \/ ServerDeletes(p)
          \/ CrashFollowed(p)
          \/ \E c \in Capability : Register(p, c)
    \/ Tick /\ UNCHANGED inside

\* A followed task has ended, and its dialog was shown.
InitFollowed ==
    /\ task = [status |-> "completed", shown |-> TRUE,
               receipt |-> [s \in Session |-> NewReceipt]]
    /\ lease = "closed"
    /\ popup = TRUE
    /\ route = FALSE
    /\ lock = NoProcess
    /\ proc = [p \in Processes |-> Idle]
    /\ gone = {}
    /\ run = 1
    /\ kind \in Followed
    /\ crashes = 0
    /\ acks = 0
    /\ calls = [s \in Session |-> 0]

CodexInit ==
    /\ opened \in BOOLEAN
    /\ IF opened THEN InitFollowed ELSE Init
    /\ archived = IF Parked THEN {Primary} ELSE {}
    /\ broker = Fresh("unavailable")
    /\ wake = FALSE
    /\ exec = NoExec

CodexNext ==
    /\ IF opened THEN NextFollowed ELSE Next /\ UNCHANGED inside
    /\ UNCHANGED opened

CodexSpec == CodexInit /\ [][CodexNext]_codexVars
-----------------------------------------------------------------------------
(* Properties.                                                             *)

\* No thread is deleted that Codex, the user's app or the server did not archive
\* first, whatever was lost, cached or acknowledged for another session, and a
\* receipt that says succeeded is true: the session is gone (codex.py
\* _cleanup_session_app_server, codex_session_cleanup.py delete_and_verify).
DeletionEarned ==
    [][opened =>
        /\ gone' \ gone \subseteq archived
        /\ \A s \in Session : Deleted(task'.receipt[s]) => s \in gone']_codexVars

\* Runner maintenance comes round again and again and waits for the lock; a
\* process that holds it goes on, and executors answer within their timeouts;
\* time passes.
Progress(p) ==
    /\ IF opened THEN StepFollowed(p) ELSE PassStep(p) /\ UNCHANGED inside
    /\ UNCHANGED opened

Maintain(p) ==
    /\ IF opened THEN BeginFollowed(p, "maintain", NoSession)
                 ELSE BeginPass(p, "maintain", NoSession) /\ UNCHANGED inside
    /\ UNCHANGED opened

CodexFairness ==
    /\ \A p \in Processes : WF_codexVars(Progress(p))
    /\ \A p \in Processes : "maintain" \in Modes[p] => SF_codexVars(Maintain(p))
    /\ SF_codexVars(Tick /\ UNCHANGED <<opened, inside>>)

CodexFairSpec == CodexSpec /\ CodexFairness
=============================================================================
