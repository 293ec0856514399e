------------------------ MODULE SessionCleanup_proofs ------------------------
(***************************************************************************)
(* Proofs about SessionCleanup and CodexCleanup, for any sessions, kinds   *)
(* of task, processes, runs, crashes, acknowledgements and limits.         *)
(***************************************************************************)
EXTENDS CodexCleanup, TLAPS

Passes == [pc : {"idle", "primary", "aux", "requested", "calling"}, mode : Mode,
           ack : Session \cup {NoSession}, todo : Seq(Aux),
           target : Session \cup {NoSession}, snap : TaskRecord]

\* TypeOK, for tasks of any kind.
TInv ==
    /\ task \in TaskRecord
    /\ lease \in {"open", "closed"}
    /\ popup \in BOOLEAN
    /\ route \in BOOLEAN
    /\ lock \in Processes \cup {NoProcess}
    /\ proc \in [Processes -> Passes]
    /\ gone \subseteq Session
    /\ run \in Nat
    /\ kind \in [codex : SUBSET Session, keep : SUBSET Session]
    /\ crashes \in Nat
    /\ acks \in Nat
    /\ calls \in [Session -> Nat]

\* The next attempt has begun, and nothing of it was shown yet.
Renewed == task.status \in {"pending", "running"} /\ ~task.shown /\ ~popup

AuxDeleted(receipt) == \A a \in Aux : Deleted(receipt[a])

\* What a pass has left of the list, and that in a family it has deleted the rest.
OnList(todo, receipt) ==
    /\ Len(todo) \in 1..Len(AuxOrder)
    /\ \A j \in 1..Len(todo) : todo[j] = AuxOrder[Len(AuxOrder) - Len(todo) + j]
    /\ Family => \A i \in 1..(Len(AuxOrder) - Len(todo)) : Deleted(receipt[AuxOrder[i]])

\* The record a pass carries is the one on disk, or a retry came in between and the
\* pass has nothing left to write.
Carried(t) ==
    \/ t.receipt = task.receipt
    \/ Renewed /\ \A a \in Aux : Resolved(t.receipt[a])

ReceiptSound(s) ==
    LET r == task.receipt[s] IN
    /\ r.state = "not_requested" => r.attempts = 0
    /\ Resolved(r) => r.wait = 0
    /\ s \notin Codex => r.attempts <= MaxAttempts /\ calls[s] <= r.attempts

\* What a process that holds the lock relies on.
PassSound(p) ==
    LET pr == proc[p] IN
    pr.pc # "idle" =>
        /\ lock = p
        /\ pr.mode = "ack" => pr.ack \in Codex
        /\ pr.pc = "primary" /\ Family => AuxDeleted(task.receipt) \/ Renewed
        /\ pr.pc = "aux" => OnList(pr.todo, pr.snap.receipt) /\ Carried(pr.snap)
        /\ pr.pc \in {"requested", "calling"} =>
              /\ pr.target \in Session
              /\ task.receipt[pr.target].state = "pending"
              /\ pr.target = Primary /\ Family => AuxDeleted(task.receipt)
              /\ pr.target # Primary => /\ OnList(pr.todo, pr.snap.receipt)
                                        /\ pr.target = Head(pr.todo)
                                        /\ pr.snap.receipt = task.receipt
        /\ pr.pc = "requested" /\ pr.target \notin Codex =>
              calls[pr.target] < task.receipt[pr.target].attempts

SInv == TInv /\ (\A s \in Session : ReceiptSound(s)) /\ (\A p \in Processes : PassSound(p))

-----------------------------------------------------------------------------
(* Sessions, receipts and lists.                                           *)

LEMMA Sessions ==
    /\ Primary \in Session /\ Primary \notin Aux /\ Aux \subseteq Session
    /\ Session = {Primary} \cup Aux
    /\ AuxOrder \in Seq(Aux) /\ Len(AuxOrder) \in Nat
    /\ \A i \in 1..Len(AuxOrder) : AuxOrder[i] \in Aux
    /\ NoSession \notin Session
    /\ MaxAttempts \in Nat \ {0} /\ ShortBackoff \in Nat /\ LongBackoff \in Nat
    /\ ShortBackoff <= LongBackoff
<1>1. AuxOrder \in Seq(STRING) /\ Primary \notin Aux
  BY CleanupAssumption
<1>2. \A i \in 1..Len(AuxOrder) : AuxOrder[i] \in Aux
  BY DEF Aux
<1>3. AuxOrder \in Seq(Aux) /\ Len(AuxOrder) \in Nat
  BY <1>1, <1>2
<1>4. NoSession \notin Session /\ MaxAttempts \in Nat \ {0} /\ ShortBackoff \in Nat
      /\ LongBackoff \in Nat /\ ShortBackoff <= LongBackoff
  BY CleanupAssumption
<1> QED BY <1>1, <1>2, <1>3, <1>4 DEF Session

WithOutcome(r, st, b, w, e) ==
    [r EXCEPT !.state = st, !.retryable = b, !.wait = w, !.error = e]

\* A receipt whose outcome is written keeps its attempts.
LEMMA Outcome ==
    ASSUME NEW r \in Receipt, NEW st \in CleanupState, NEW b \in BOOLEAN,
           NEW w \in 0..LongBackoff, NEW e \in Error
    PROVE  LET q == WithOutcome(r, st, b, w, e) IN
               /\ q \in Receipt
               /\ q.state = st /\ q.retryable = b /\ q.wait = w /\ q.attempts = r.attempts
<1> DEFINE q1 == [r EXCEPT !.state = st]
           q2 == [q1 EXCEPT !.retryable = b]
           q3 == [q2 EXCEPT !.wait = w]
           q4 == [q3 EXCEPT !.error = e]
<1>1. WithOutcome(r, st, b, w, e) = q4
  BY DEF WithOutcome
<1>2. q1 \in Receipt /\ q1.state = st /\ q1.attempts = r.attempts
  BY DEF Receipt
<1> HIDE DEF q1
<1>3. q2 \in Receipt /\ q2.state = st /\ q2.retryable = b /\ q2.attempts = r.attempts
  BY <1>2 DEF Receipt
<1> HIDE DEF q2
<1>4. q3 \in Receipt /\ q3.state = st /\ q3.retryable = b /\ q3.wait = w
      /\ q3.attempts = r.attempts
  BY <1>3 DEF Receipt
<1> HIDE DEF q3
<1>5. q4 \in Receipt /\ q4.state = st /\ q4.retryable = b /\ q4.wait = w
      /\ q4.attempts = r.attempts
  BY <1>4 DEF Receipt
<1> QED BY <1>1, <1>5

\* An intent counts an attempt.
LEMMA PendingReceipt ==
    ASSUME NEW r \in Receipt
    PROVE  /\ ToPending(r) \in Receipt /\ ToPending(r).state = "pending"
           /\ ToPending(r).attempts = r.attempts + 1 /\ ToPending(r).wait = 0
<1> DEFINE q1 == [r EXCEPT !.state = "pending"]
           q2 == [q1 EXCEPT !.attempts = r.attempts + 1]
           q3 == [q2 EXCEPT !.retryable = FALSE]
           q4 == [q3 EXCEPT !.wait = 0]
           q5 == [q4 EXCEPT !.error = "none"]
<1>1. ToPending(r) = q5
  BY DEF ToPending
<1>2. q1 \in Receipt /\ q1.state = "pending"
  BY DEF Receipt, CleanupState
<1>3. r.attempts + 1 \in Nat
  BY DEF Receipt
<1> HIDE DEF q1
<1>4. q2 \in Receipt /\ q2.state = "pending" /\ q2.attempts = r.attempts + 1
  BY <1>2, <1>3 DEF Receipt
<1> HIDE DEF q2
<1>5. q3 \in Receipt /\ q3.state = "pending" /\ q3.attempts = r.attempts + 1
  BY <1>4 DEF Receipt
<1> HIDE DEF q3
<1>6. q4 \in Receipt /\ q4.state = "pending" /\ q4.attempts = r.attempts + 1 /\ q4.wait = 0
  BY <1>5, Sessions DEF Receipt
<1> HIDE DEF q4
<1>7. q5 \in Receipt /\ q5.state = "pending" /\ q5.attempts = r.attempts + 1 /\ q5.wait = 0
  BY <1>6 DEF Receipt, Error
<1> QED BY <1>1, <1>7

LEMMA ResolvedReceipt ==
    ASSUME NEW r \in Receipt, NEW st \in ResolvedStates
    PROVE  /\ ToResolved(r, st) \in Receipt /\ ToResolved(r, st).state = st
           /\ ToResolved(r, st).attempts = r.attempts /\ ToResolved(r, st).wait = 0
<1> DEFINE f == FALSE
           n == 0
<1>1. st \in CleanupState /\ f \in BOOLEAN /\ n \in 0..LongBackoff /\ "none" \in Error
  BY Sessions DEF ResolvedStates, CleanupState, Error
<1>2. ToResolved(r, st) = WithOutcome(r, st, f, n, "none") /\ n = 0
  BY DEF ToResolved, WithOutcome
<1> HIDE DEF f, n
<1> QED BY <1>1, <1>2, Outcome

LEMMA FailedReceipt ==
    ASSUME NEW r \in Receipt, NEW b \in BOOLEAN, NEW e \in Error
    PROVE  /\ ToFailed(r, b, e) \in Receipt /\ ToFailed(r, b, e).state = "failed"
           /\ ToFailed(r, b, e).attempts = r.attempts
<1> DEFINE w == IF b THEN NextWait(r.attempts) ELSE 0
           f == b /\ Retryable(r.attempts)
<1>1. w \in 0..LongBackoff
  BY Sessions DEF NextWait
<1>2. f \in BOOLEAN /\ "failed" \in CleanupState
  BY DEF Retryable, CleanupState
<1>3. ToFailed(r, b, e) = WithOutcome(r, "failed", f, w, e)
  BY DEF ToFailed, WithOutcome
<1> HIDE DEF w, f
<1> QED BY <1>1, <1>2, <1>3, Outcome

LEMMA SettledReceipt ==
    ASSUME NEW r \in Receipt, NEW result \in Result
    PROVE  /\ Settle(r, result) \in Receipt /\ Settle(r, result).state = result.state
           /\ Settle(r, result).attempts = r.attempts
           /\ Resolved(Settle(r, result)) => Settle(r, result).wait = 0
<1>1. CASE result.state = "failed"
  <2>1. result.retry \in BOOLEAN /\ result.error \in Error
    BY DEF Result, Error
  <2> HIDE DEF Result
  <2>2. Settle(r, result) = ToFailed(r, result.retry, result.error)
    BY <1>1 DEF Settle
  <2>3. ~Resolved(Settle(r, result))
    BY <2>1, <2>2, FailedReceipt DEF Resolved, ResolvedStates
  <2> QED BY <1>1, <2>1, <2>2, <2>3, FailedReceipt
<1>2. CASE result.state # "failed"
  <2>1. result.state \in ResolvedStates
    BY <1>2 DEF Result, ResolvedStates
  <2>2. Settle(r, result) = ToResolved(r, result.state)
    BY <1>2 DEF Settle
  <2> QED BY <2>1, <2>2, ResolvedReceipt
<1> QED BY <1>1, <1>2

LEMMA ElapsedReceipt ==
    ASSUME NEW r \in Receipt
    PROVE  /\ Elapse(r) \in Receipt /\ Elapse(r).state = r.state
           /\ Elapse(r).attempts = r.attempts
           /\ (r.wait = 0 => Elapse(r) = r)
<1>1. /\ Elapse(r) \in Receipt /\ Elapse(r).state = r.state
      /\ Elapse(r).attempts = r.attempts
  BY Sessions DEF Elapse, Receipt
<1>2. ASSUME r.wait = 0 PROVE Elapse(r) = r
  BY <1>2 DEF Elapse, Receipt
<1> QED BY <1>1, <1>2

LEMMA NewTypes == NewReceipt \in Receipt /\ NoSnap \in TaskRecord /\ Idle \in Passes
<1>1. NewReceipt \in Receipt
  BY Sessions DEF NewReceipt, Receipt, CleanupState, Error
<1>2. NoSnap \in TaskRecord
  BY <1>1 DEF NoSnap, TaskRecord, Status
<1>3. Idle \in Passes
  BY <1>2 DEF Idle, Passes, Mode
<1> QED BY <1>1, <1>2, <1>3

LEMMA WithType ==
    ASSUME NEW t \in TaskRecord, NEW s \in Session, NEW r \in Receipt
    PROVE  /\ WithReceipt(t, s, r) \in TaskRecord
           /\ WithReceipt(t, s, r).status = t.status /\ WithReceipt(t, s, r).shown = t.shown
           /\ WithReceipt(t, s, r).receipt = [t.receipt EXCEPT ![s] = r]
BY DEF WithReceipt, TaskRecord

\* The list goes on behind its head.
LEMMA ListAdvances ==
    ASSUME NEW todo \in Seq(Aux), NEW receipt, OnList(todo, receipt),
           Family => Deleted(receipt[Head(todo)])
    PROVE  /\ Head(todo) \in Aux /\ Tail(todo) \in Seq(Aux)
           /\ Tail(todo) # <<>> => OnList(Tail(todo), receipt)
           /\ Tail(todo) = <<>> => (Family => AuxDeleted(receipt))
<1> DEFINE n == Len(AuxOrder)
           m == Len(todo)
<1>1. n \in Nat /\ m \in 1..n
  BY Sessions DEF OnList
<1>2. todo # <<>> /\ Head(todo) = todo[1] /\ todo[1] = AuxOrder[n - m + 1]
  BY <1>1 DEF OnList
<1>3. Head(todo) \in Aux /\ Tail(todo) \in Seq(Aux) /\ Len(Tail(todo)) = m - 1
      /\ \A j \in 1..(m - 1) : Tail(todo)[j] = todo[j + 1]
  BY <1>1, <1>2
<1>4. Family => \A i \in 1..(n - m + 1) : Deleted(receipt[AuxOrder[i]])
  BY <1>1, <1>2 DEF OnList
<1>5. Tail(todo) # <<>> => OnList(Tail(todo), receipt)
  <2> SUFFICES ASSUME Tail(todo) # <<>> PROVE OnList(Tail(todo), receipt)
    OBVIOUS
  <2>1. Len(Tail(todo)) \in 1..n
    BY <1>1, <1>3
  <2>2. \A j \in 1..(m - 1) : Tail(todo)[j] = AuxOrder[n - (m - 1) + j]
    BY <1>1, <1>3 DEF OnList
  <2> QED BY <1>1, <1>3, <1>4, <2>1, <2>2 DEF OnList
<1>6. Tail(todo) = <<>> => (Family => AuxDeleted(receipt))
  <2> SUFFICES ASSUME Tail(todo) = <<>>, Family, NEW a \in Aux PROVE Deleted(receipt[a])
    BY DEF AuxDeleted
  <2>1. n - m + 1 = n
    BY <1>1, <1>3
  <2>2. \A i \in 1..n : Deleted(receipt[AuxOrder[i]])
    BY <1>4, <2>1
  <2> HIDE DEF Deleted
  <2> QED BY <2>2 DEF Aux
<1> QED BY <1>3, <1>5, <1>6

LEMMA ListBegins == ASSUME NEW receipt, AuxOrder # <<>> PROVE OnList(AuxOrder, receipt)
BY Sessions DEF OnList

-----------------------------------------------------------------------------
(* How a pass moves.                                                       *)

Moved(p, pc, todo, snap) ==
    [proc EXCEPT ![p].pc = pc, ![p].todo = todo, ![p].target = NoSession, ![p].snap = snap]
Asked(p, s, snap) ==
    [proc EXCEPT ![p].pc = "requested", ![p].target = s, ![p].snap = snap]

LEMMA MovedPass ==
    ASSUME proc \in [Processes -> Passes], NEW p \in Processes,
           NEW pc \in {"primary", "aux"}, NEW todo \in Seq(Aux), NEW snap \in TaskRecord,
           proc' = Moved(p, pc, todo, snap)
    PROVE  /\ proc' \in [Processes -> Passes]
           /\ proc'[p].pc = pc /\ proc'[p].todo = todo /\ proc'[p].snap = snap
           /\ proc'[p].mode = proc[p].mode /\ proc'[p].ack = proc[p].ack
           /\ \A q \in Processes \ {p} : proc'[q] = proc[q]
<1> DEFINE q1 == [proc EXCEPT ![p].pc = pc]
           q2 == [q1 EXCEPT ![p].todo = todo]
           q3 == [q2 EXCEPT ![p].target = NoSession]
           q4 == [q3 EXCEPT ![p].snap = snap]
<1>1. Moved(p, pc, todo, snap) = q4
  BY DEF Moved
<1>2. /\ q1 \in [Processes -> Passes] /\ q1[p].pc = pc
      /\ q1[p].mode = proc[p].mode /\ q1[p].ack = proc[p].ack
      /\ \A q \in Processes \ {p} : q1[q] = proc[q]
  BY DEF Passes
<1> HIDE DEF q1
<1>3. /\ q2 \in [Processes -> Passes] /\ q2[p].pc = pc /\ q2[p].todo = todo
      /\ q2[p].mode = proc[p].mode /\ q2[p].ack = proc[p].ack
      /\ \A q \in Processes \ {p} : q2[q] = proc[q]
  BY <1>2 DEF Passes
<1> HIDE DEF q2
<1>4. /\ q3 \in [Processes -> Passes] /\ q3[p].pc = pc /\ q3[p].todo = todo
      /\ q3[p].mode = proc[p].mode /\ q3[p].ack = proc[p].ack
      /\ \A q \in Processes \ {p} : q3[q] = proc[q]
  BY <1>3 DEF Passes
<1> HIDE DEF q3
<1>5. /\ q4 \in [Processes -> Passes] /\ q4[p].pc = pc /\ q4[p].todo = todo
      /\ q4[p].snap = snap
      /\ q4[p].mode = proc[p].mode /\ q4[p].ack = proc[p].ack
      /\ \A q \in Processes \ {p} : q4[q] = proc[q]
  BY <1>4 DEF Passes
<1> QED BY <1>1, <1>5

LEMMA AskedPass ==
    ASSUME proc \in [Processes -> Passes], NEW p \in Processes,
           NEW s \in Session, NEW snap \in TaskRecord,
           proc' = Asked(p, s, snap)
    PROVE  /\ proc' \in [Processes -> Passes]
           /\ proc'[p].pc = "requested" /\ proc'[p].target = s /\ proc'[p].snap = snap
           /\ proc'[p].mode = proc[p].mode /\ proc'[p].ack = proc[p].ack
           /\ proc'[p].todo = proc[p].todo
           /\ \A q \in Processes \ {p} : proc'[q] = proc[q]
<1> DEFINE q1 == [proc EXCEPT ![p].pc = "requested"]
           q2 == [q1 EXCEPT ![p].target = s]
           q3 == [q2 EXCEPT ![p].snap = snap]
<1>1. Asked(p, s, snap) = q3
  BY DEF Asked
<1>2. /\ q1 \in [Processes -> Passes] /\ q1[p].pc = "requested"
      /\ q1[p].mode = proc[p].mode /\ q1[p].ack = proc[p].ack /\ q1[p].todo = proc[p].todo
      /\ \A q \in Processes \ {p} : q1[q] = proc[q]
  BY DEF Passes
<1> HIDE DEF q1
<1>3. /\ q2 \in [Processes -> Passes] /\ q2[p].pc = "requested" /\ q2[p].target = s
      /\ q2[p].mode = proc[p].mode /\ q2[p].ack = proc[p].ack /\ q2[p].todo = proc[p].todo
      /\ \A q \in Processes \ {p} : q2[q] = proc[q]
  BY <1>2 DEF Passes
<1> HIDE DEF q2
<1>4. /\ q3 \in [Processes -> Passes] /\ q3[p].pc = "requested" /\ q3[p].target = s
      /\ q3[p].snap = snap
      /\ q3[p].mode = proc[p].mode /\ q3[p].ack = proc[p].ack /\ q3[p].todo = proc[p].todo
      /\ \A q \in Processes \ {p} : q3[q] = proc[q]
  BY <1>3 DEF Passes
<1> QED BY <1>1, <1>4

\* A process inside a pass is alone with its lock.
LEMMA PassAlone ==
    ASSUME SInv, NEW p \in Processes, proc[p].pc # "idle"
    PROVE  /\ lock = p /\ proc[p] \in Passes
           /\ \A q \in Processes \ {p} : proc[q].pc = "idle"
BY DEF SInv, TInv, PassSound

LEMMA FreeLock ==
    ASSUME SInv, lock = NoProcess
    PROVE  \A q \in Processes : proc[q].pc = "idle"
BY CleanupAssumption DEF SInv, TInv, PassSound

\* The only pass under way decides about all of them.
LEMMA OnePass ==
    ASSUME NEW p \in Processes, \A q \in Processes \ {p} : proc[q].pc = "idle",
           \A q \in Processes \ {p} : proc'[q] = proc[q], PassSound(p)'
    PROVE  \A q \in Processes : PassSound(q)'
<1> SUFFICES ASSUME NEW q \in Processes \ {p}
             PROVE  PassSound(q)'
  OBVIOUS
<1>1. proc'[q].pc = "idle"
  OBVIOUS
<1> QED BY <1>1 DEF PassSound


\* The pass of p is the only one, and knows what it was begun for.
Keeps(p) ==
    /\ proc'[p].pc # "calling"
    /\ proc'[p].pc # "idle" => proc'[p].mode = proc[p].mode /\ proc'[p].ack = proc[p].ack
    /\ \A q \in Processes \ {p} : proc'[q].pc = "idle"

\* A pass that ends leaves the lock to the others.
LEMMA Ends ==
    ASSUME SInv, NEW p \in Processes, proc[p].pc # "idle", Finish(p)
    PROVE  /\ proc' \in [Processes -> Passes] /\ lock' = NoProcess
           /\ \A q \in Processes : PassSound(q)'
           /\ Keeps(p)
<1>1. proc' = [proc EXCEPT ![p] = Idle] /\ lock' = NoProcess
  BY DEF Finish
<1>2. proc' \in [Processes -> Passes]
  BY <1>1, NewTypes DEF SInv, TInv
<1>3. \A q \in Processes : proc'[q].pc = "idle"
  BY <1>1, PassAlone DEF SInv, TInv, Idle
<1> QED BY <1>1, <1>2, <1>3 DEF PassSound, Keeps

\* The session a pass has come to, and the record it handles it on.
Coming(p, s, t) ==
    /\ s \in Session
    /\ t \in TaskRecord
    /\ s # Primary => OnList(proc[p].todo, t.receipt) /\ s = Head(proc[p].todo)

\* An unresolved receipt is handled on the record on disk, and in a family the
\* parent comes when its descendants are deleted.
LEMMA Comes ==
    ASSUME SInv, NEW p \in Processes, NEW s, NEW t, At(p, s, t)
    PROVE  /\ proc[p].pc # "idle" /\ Coming(p, s, t) /\ Carried(t)
           /\ ~Resolved(t.receipt[s]) => t.receipt = task.receipt
           /\ s = Primary /\ Family /\ ~Blocked(t, s) => AuxDeleted(task.receipt)
<1>1. CASE proc[p].pc = "primary" /\ s = Primary /\ t = task
  <2>1. Coming(p, s, t) /\ Carried(t)
    BY <1>1, Sessions DEF Coming, Carried, SInv, TInv
  <2>2. ASSUME Family, ~Blocked(t, s)
        PROVE  AuxDeleted(task.receipt)
    BY <1>1, <2>2 DEF SInv, PassSound, Blocked, PrimaryBlocked, DialogDelivered, Renewed
  <2> QED BY <1>1, <2>1, <2>2
<1>2. CASE proc[p].pc = "aux" /\ s = Head(proc[p].todo) /\ t = proc[p].snap
  <2>1. OnList(proc[p].todo, t.receipt) /\ Carried(t)
    BY <1>2 DEF SInv, PassSound
  <2>2. proc[p].todo \in Seq(Aux) /\ t \in TaskRecord
    BY <1>2 DEF SInv, TInv, Passes
  <2>3. s \in Aux
    BY <1>2, <2>1, <2>2 DEF OnList
  <2>4. Coming(p, s, t) /\ s # Primary
    BY <1>2, <2>1, <2>2, <2>3, Sessions DEF Coming
  <2> QED BY <1>2, <2>1, <2>3, <2>4 DEF Carried
<1> QED BY <1>1, <1>2 DEF At

\* What Continue does, case by case.
LEMMA ContinueCases ==
    ASSUME NEW p \in Processes, NEW s, NEW t, Continue(p, s, t)
    PROVE  \/ Finish(p)
           \/ /\ lock' = lock /\ s = Primary /\ ~Family /\ AuxOrder # <<>>
              /\ proc' = Moved(p, "aux", AuxOrder, t)
           \/ /\ lock' = lock /\ s # Primary /\ (Family => Deleted(t.receipt[s]))
              /\ Tail(proc[p].todo) # <<>>
              /\ proc' = Moved(p, "aux", Tail(proc[p].todo), t)
           \/ /\ lock' = lock /\ s # Primary /\ Family /\ Deleted(t.receipt[s])
              /\ Tail(proc[p].todo) = <<>>
              /\ proc' = Moved(p, "primary", <<>>, NoSnap)
<1> HIDE DEF Finish, Family, Deleted
<1> USE DEF Moved
<1>1. CASE s = Primary
  BY <1>1 DEF Continue
<1>2. CASE s # Primary
  BY <1>2 DEF Continue
<1> QED BY <1>1, <1>2

\* A pass that goes on with a record that is on disk, or that has nothing left to
\* be written, is sound.
LEMMA GoesOn ==
    ASSUME SInv, NEW p \in Processes, proc[p].pc # "idle", NEW s, NEW t,
           Coming(p, s, t), Continue(p, s, t), kind' = kind, Carried(t)'
    PROVE  /\ proc' \in [Processes -> Passes] /\ lock' \in Processes \cup {NoProcess}
           /\ \A q \in Processes : PassSound(q)'
           /\ Keeps(p)
<1> DEFINE todo == proc[p].todo
<1>1. /\ lock = p /\ proc \in [Processes -> Passes] /\ todo \in Seq(Aux)
      /\ \A q \in Processes \ {p} : proc[q].pc = "idle"
      /\ proc[p].mode = "ack" => proc[p].ack \in Codex
      /\ t \in TaskRecord
  BY PassAlone DEF SInv, TInv, PassSound, Coming, Passes
<1>2. (Family' <=> Family) /\ Codex' = Codex
  BY DEF Family, Codex, Kept
<1>3. CASE Finish(p)
  BY <1>3, Ends
<1>4. CASE /\ lock' = lock /\ s = Primary /\ ~Family /\ AuxOrder # <<>>
           /\ proc' = Moved(p, "aux", AuxOrder, t)
  <2>1. OnList(AuxOrder, t.receipt)'
    BY <1>2, <1>4, Sessions DEF OnList
  <2>2. /\ proc' \in [Processes -> Passes]
        /\ proc'[p].pc = "aux" /\ proc'[p].todo = AuxOrder /\ proc'[p].snap = t
        /\ proc'[p].mode = proc[p].mode /\ proc'[p].ack = proc[p].ack
        /\ \A q \in Processes \ {p} : proc'[q] = proc[q]
    BY <1>1, <1>4, MovedPass, Sessions
  <2>3. PassSound(p)'
    BY <1>1, <1>2, <1>4, <2>1, <2>2 DEF PassSound
  <2> QED BY <1>1, <1>4, <2>2, <2>3, OnePass DEF Keeps
<1>5. CASE /\ lock' = lock /\ s # Primary /\ (Family => Deleted(t.receipt[s]))
           /\ Tail(todo) # <<>> /\ proc' = Moved(p, "aux", Tail(todo), t)
  <2>1. PICK rest \in Seq(Aux) : rest = Tail(todo) /\ OnList(rest, t.receipt)
    BY <1>1, <1>5, ListAdvances DEF Coming
  <2>2. OnList(rest, t.receipt)'
    BY <1>2, <2>1 DEF OnList
  <2>3. /\ proc' \in [Processes -> Passes]
        /\ proc'[p].pc = "aux" /\ proc'[p].todo = rest /\ proc'[p].snap = t
        /\ proc'[p].mode = proc[p].mode /\ proc'[p].ack = proc[p].ack
        /\ \A q \in Processes \ {p} : proc'[q] = proc[q]
    <3>1. proc' = Moved(p, "aux", rest, t)
      BY <1>5, <2>1
    <3>2. /\ proc \in [Processes -> Passes] /\ t \in TaskRecord /\ rest \in Seq(Aux)
          /\ "aux" \in {"primary", "aux"}
      BY <1>1
    <3> QED BY <3>1, <3>2, MovedPass
  <2>4. PassSound(p)'
    BY <1>1, <1>2, <1>5, <2>2, <2>3 DEF PassSound
  <2> QED BY <1>1, <1>5, <2>3, <2>4, OnePass DEF Keeps
<1>6. CASE /\ lock' = lock /\ s # Primary /\ Family /\ Deleted(t.receipt[s])
           /\ Tail(todo) = <<>> /\ proc' = Moved(p, "primary", <<>>, NoSnap)
  <2>1. AuxDeleted(t.receipt)
    BY <1>1, <1>6, ListAdvances DEF Coming
  <2>2. AuxDeleted(task'.receipt) \/ Renewed'
    BY <2>1 DEF Carried
  <2>3. /\ proc' \in [Processes -> Passes]
        /\ proc'[p].pc = "primary"
        /\ proc'[p].mode = proc[p].mode /\ proc'[p].ack = proc[p].ack
        /\ \A q \in Processes \ {p} : proc'[q] = proc[q]
    <3>1. <<>> \in Seq(Aux) /\ NoSnap \in TaskRecord
      BY NewTypes
    <3> HIDE DEF todo
    <3> QED BY <1>1, <1>6, <3>1, MovedPass
  <2>4. PassSound(p)'
    BY <1>1, <1>2, <1>6, <2>2, <2>3 DEF PassSound, AuxDeleted
  <2> QED BY <1>1, <1>6, <2>3, <2>4, OnePass DEF Keeps
<1> QED BY <1>3, <1>4, <1>5, <1>6, ContinueCases

-----------------------------------------------------------------------------
(* What a pass writes.                                                     *)

\* An intent or an outcome is written for a receipt that is not resolved.
Moves(s, old, new) ==
    /\ new \in Receipt
    /\ ~Resolved(old)
    /\ new.state # "not_requested"
    /\ Resolved(new) => new.wait = 0
    /\ \/ /\ new.state = "pending" /\ new.attempts = old.attempts + 1
          /\ s \notin Codex => new.attempts <= MaxAttempts
       \/ new.attempts = old.attempts

Written(s, new) ==
    /\ Moves(s, task.receipt[s], new)
    /\ task'.receipt = [task.receipt EXCEPT ![s] = new]
    /\ calls' = calls
    /\ kind' = kind

ResolvedStay ==
    \A s \in Session : Resolved(task.receipt[s]) => task'.receipt[s] = task.receipt[s]

LEMMA SessionTypes ==
    ASSUME SInv, NEW s \in Session
    PROVE  /\ task.receipt \in [Session -> Receipt] /\ task.receipt[s] \in Receipt
           /\ task.receipt[s].attempts \in Nat /\ calls[s] \in Nat
           /\ calls \in [Session -> Nat]
<1>1. task.receipt \in [Session -> Receipt] /\ calls \in [Session -> Nat]
  BY DEF SInv, TInv, TaskRecord
<1> QED BY <1>1 DEF Receipt

LEMMA WriteSound ==
    ASSUME SInv, NEW s \in Session, NEW new, Written(s, new)
    PROVE  \A x \in Session : ReceiptSound(x)'
<1>1. Codex' = Codex
  BY DEF Written, Codex
<1>2. CASE \A x \in Session : ReceiptSound(x)
  <2> SUFFICES ASSUME NEW x \in Session
               PROVE  ReceiptSound(x)'
    OBVIOUS
  <2>1. CASE x # s
    <3>1. task'.receipt[x] = task.receipt[x] /\ calls' = calls
      BY <2>1, SessionTypes DEF Written
    <3> QED BY <1>1, <1>2, <3>1 DEF ReceiptSound
  <2>2. CASE x = s
    <3>1. task'.receipt[s] = new /\ calls' = calls
      BY SessionTypes DEF Written
    <3>2. new \in Receipt /\ new.attempts \in Nat
      BY DEF Written, Moves, Receipt
    <3>3. s \notin Codex => new.attempts <= MaxAttempts /\ calls[s] <= new.attempts
      BY <1>2, <3>2, SessionTypes DEF ReceiptSound, Written, Moves
    <3> QED BY <1>1, <2>2, <3>1, <3>3 DEF ReceiptSound, Written, Moves
  <2> QED BY <2>1, <2>2
<1> QED BY <1>2 DEF SInv

LEMMA WriteKeepsResolved ==
    ASSUME SInv, NEW s \in Session, NEW new, Written(s, new)
    PROVE  ResolvedStay
BY SessionTypes DEF ResolvedStay, Written, Moves

\* The ledger of the sessions that are not Codex's.
Intents == [s \in Session |-> IF s \in Codex THEN 0 ELSE task.receipt[s].attempts]
Calls == [s \in Session |-> IF s \in Codex THEN 0 ELSE calls[s]]
Closed == {s \in Session : s \in Codex \/ Resolved(task.receipt[s])}
LedgerStep == [Ledger!Next]_Ledger!ledger

LEMMA LedgerStutters ==
    ASSUME Intents' = Intents, Calls' = Calls, Closed' = Closed
    PROVE  LedgerStep
BY DEF LedgerStep, Ledger!ledger, Intents, Calls, Closed

LEMMA LedgerIntends ==
    ASSUME NEW s \in Session, s \notin Closed, Intents[s] < MaxAttempts,
           Intents' = [Intents EXCEPT ![s] = Intents[s] + 1], Calls' = Calls, Closed' = Closed
    PROVE  LedgerStep
BY DEF LedgerStep, Ledger!Next, Ledger!Intend, Intents, Calls, Closed

LEMMA LedgerCalls ==
    ASSUME NEW s \in Session, s \notin Closed, Calls[s] < Intents[s],
           Calls' = [Calls EXCEPT ![s] = Calls[s] + 1], Intents' = Intents, Closed' = Closed
    PROVE  LedgerStep
BY DEF LedgerStep, Ledger!Next, Ledger!Call, Intents, Calls, Closed

LEMMA LedgerCloses ==
    ASSUME NEW s \in Session, s \notin Closed,
           Closed' = Closed \cup {s}, Intents' = Intents, Calls' = Calls
    PROVE  LedgerStep
BY DEF LedgerStep, Ledger!Next, Ledger!Close, Intents, Calls, Closed

LEMMA LedgerRenews ==
    ASSUME Closed = Session, Closed' \subseteq Session,
           Intents' = [s \in Session |-> 0], Calls' = [s \in Session |-> 0]
    PROVE  LedgerStep
BY DEF LedgerStep, Ledger!Next, Ledger!Renew, Ledger!None, Intents, Calls, Closed

\* Every write is a step of the ledger.
LEMMA WriteRefines ==
    ASSUME SInv, NEW s \in Session, NEW new, Written(s, new)
    PROVE  LedgerStep
<1>1. Codex' = Codex /\ calls' = calls
  BY DEF Written, Codex
<1>2. /\ task'.receipt[s] = new
      /\ \A x \in Session \ {s} : task'.receipt[x] = task.receipt[x]
      /\ ~Resolved(task.receipt[s])
  BY SessionTypes DEF Written, Moves
<1>3. Calls' = Calls
  BY <1>1 DEF Calls
<1>4. CASE s \in Codex
  <2>1. Intents' = Intents /\ Closed' = Closed
    BY <1>1, <1>2, <1>4 DEF Intents, Closed
  <2> QED BY <1>3, <2>1, LedgerStutters
<1>5. CASE s \notin Codex /\ new.attempts = task.receipt[s].attempts
  <2>1. Intents' = Intents
    BY <1>1, <1>2, <1>5 DEF Intents
  <2>2. CASE Resolved(new)
    <3>1. Closed' = Closed \cup {s} /\ s \notin Closed
      BY <1>1, <1>2, <1>5, <2>2 DEF Closed
    <3> QED BY <1>3, <2>1, <3>1, LedgerCloses
  <2>3. CASE ~Resolved(new)
    <3>1. Closed' = Closed
      BY <1>1, <1>2, <1>5, <2>3 DEF Closed
    <3> QED BY <1>3, <2>1, <3>1, LedgerStutters
  <2> QED BY <2>2, <2>3
<1>6. CASE s \notin Codex /\ new.attempts # task.receipt[s].attempts
  <2>1. /\ new.state = "pending" /\ new.attempts = task.receipt[s].attempts + 1
        /\ new.attempts <= MaxAttempts /\ ~Resolved(new)
    BY <1>6 DEF Written, Moves, Resolved, ResolvedStates
  <2>2. Intents[s] = task.receipt[s].attempts /\ Intents[s] \in Nat /\ Intents[s] < MaxAttempts
    BY <1>6, <2>1, SessionTypes, Sessions DEF Intents
  <2>3. Intents' = [Intents EXCEPT ![s] = Intents[s] + 1]
    BY <1>1, <1>2, <1>6, <2>1, <2>2 DEF Intents
  <2>4. Closed' = Closed /\ s \notin Closed
    BY <1>1, <1>2, <1>6, <2>1 DEF Closed
  <2> QED BY <1>3, <2>2, <2>3, <2>4, LedgerIntends
<1> QED BY <1>4, <1>5, <1>6

-----------------------------------------------------------------------------
(* One step of a pass.                                                     *)

Rest == <<world, gone, crashes, acks, calls>>

Good == SInv' /\ LedgerStep /\ ResolvedStay

\* What is left to show when the processes and the receipts are sound.
LEMMA Assembles ==
    ASSUME SInv, UNCHANGED Rest, task' \in TaskRecord,
           proc' \in [Processes -> Passes], lock' \in Processes \cup {NoProcess},
           \A x \in Session : ReceiptSound(x)',
           \A q \in Processes : PassSound(q)'
    PROVE  SInv'
<1>1. TInv'
  BY DEF SInv, TInv, Rest, world
<1> QED BY <1>1 DEF SInv

LEMMA SameReceipts ==
    ASSUME SInv, task'.receipt = task.receipt, calls' = calls, kind' = kind
    PROVE  (\A x \in Session : ReceiptSound(x)') /\ LedgerStep /\ ResolvedStay
<1>1. Codex' = Codex
  BY DEF Codex
<1>2. \A x \in Session : ReceiptSound(x)'
  BY <1>1 DEF SInv, ReceiptSound
<1>3. LedgerStep
  BY <1>1, LedgerStutters DEF Intents, Calls, Closed
<1> QED BY <1>2, <1>3 DEF ResolvedStay

\* A pass that writes nothing.
LEMMA StaysSound ==
    ASSUME SInv, NEW p \in Processes, proc[p].pc # "idle", NEW s, NEW t,
           Coming(p, s, t), Carried(t), UNCHANGED task, UNCHANGED Rest,
           Continue(p, s, t) \/ Finish(p)
    PROVE  Good /\ Keeps(p)
<1>1. /\ task' = task /\ calls' = calls /\ kind' = kind /\ popup' = popup
  BY DEF Rest, world
<1>2. /\ \A x \in Session : ReceiptSound(x)'
      /\ LedgerStep /\ ResolvedStay
  BY <1>1, SameReceipts
<1>3. Carried(t)'
  BY <1>1 DEF Carried, Renewed
<1>4. /\ proc' \in [Processes -> Passes] /\ lock' \in Processes \cup {NoProcess}
      /\ \A q \in Processes : PassSound(q)'
      /\ Keeps(p)
  BY <1>1, <1>3, GoesOn, Ends
<1>5. task' \in TaskRecord
  BY <1>1 DEF SInv, TInv
<1> QED BY <1>2, <1>4, <1>5, Assembles DEF Good

LEMMA WriteTypes ==
    ASSUME SInv, NEW s \in Session, NEW t \in TaskRecord, NEW new \in Receipt,
           t.receipt = task.receipt, task' = WithReceipt(t, s, new), UNCHANGED Rest,
           Moves(s, task.receipt[s], new)
    PROVE  task' \in TaskRecord /\ Written(s, new) /\ task'.receipt[s] = new
<1>1. task' \in TaskRecord /\ task'.receipt = [task.receipt EXCEPT ![s] = new]
  BY WithType
<1>2. Written(s, new)
  BY <1>1 DEF Written, Rest, world
<1> QED BY <1>1, <1>2, SessionTypes

\* The record a pass has written is the one it goes on with.
LEMMA ComesWritten ==
    ASSUME NEW p, NEW s, NEW t, Coming(p, s, t), NEW new \in Receipt,
           ~Resolved(t.receipt[s])
    PROVE  Coming(p, s, WithReceipt(t, s, new))
<1> DEFINE t2 == WithReceipt(t, s, new)
<1>1. /\ s \in Session /\ t \in TaskRecord /\ t2 \in TaskRecord
      /\ t2.receipt = [t.receipt EXCEPT ![s] = new] /\ t.receipt \in [Session -> Receipt]
  BY WithType DEF Coming, TaskRecord
<1> HIDE DEF t2
<1>2. \A x \in Session : Deleted(t.receipt[x]) => t2.receipt[x] = t.receipt[x]
  BY <1>1 DEF Deleted, Resolved, ResolvedStates
<1>3. ASSUME s # Primary PROVE OnList(proc[p].todo, t2.receipt)
  <2>1. OnList(proc[p].todo, t.receipt) /\ Len(AuxOrder) \in Nat
        /\ \A i \in 1..Len(AuxOrder) : AuxOrder[i] \in Session
    BY <1>3, Sessions DEF Coming
  <2>2. \A i \in 1..(Len(AuxOrder) - Len(proc[p].todo)) : AuxOrder[i] \in Session
    BY <2>1 DEF OnList
  <2> HIDE DEF Deleted
  <2> QED BY <1>2, <2>1, <2>2 DEF OnList
<1> QED BY <1>1, <1>3 DEF Coming, t2

\* A pass that writes a receipt and goes on.
LEMMA WritesSound ==
    ASSUME SInv, NEW p \in Processes, proc[p].pc # "idle", NEW s, NEW t,
           Coming(p, s, t), t.receipt = task.receipt, UNCHANGED Rest,
           NEW new \in Receipt, Moves(s, task.receipt[s], new),
           task' = WithReceipt(t, s, new),
           Continue(p, s, WithReceipt(t, s, new)) \/ Finish(p)
    PROVE  Good /\ Keeps(p)
<1>1. PICK t2 : t2 = WithReceipt(t, s, new)
  OBVIOUS
<1>2. s \in Session /\ t \in TaskRecord
  BY DEF Coming
<1>3. task' \in TaskRecord /\ Written(s, new)
  BY <1>2, WriteTypes
<1>4. /\ \A x \in Session : ReceiptSound(x)'
      /\ LedgerStep /\ ResolvedStay
  BY <1>2, <1>3, WriteSound, WriteRefines, WriteKeepsResolved
<1>5. Coming(p, s, t2)
  BY <1>1, ComesWritten DEF Moves
<1>6. Carried(t2)' /\ kind' = kind
  BY <1>1 DEF Carried, Rest, world
<1>7. /\ proc' \in [Processes -> Passes] /\ lock' \in Processes \cup {NoProcess}
      /\ \A q \in Processes : PassSound(q)'
      /\ Keeps(p)
  BY <1>1, <1>5, <1>6, GoesOn, Ends
<1> QED BY <1>3, <1>4, <1>7, Assembles DEF Good

\* A pass that is about to call the executor.
LEMMA AsksSound ==
    ASSUME SInv, NEW p \in Processes, proc[p].pc # "idle", NEW s \in Session,
           NEW t \in TaskRecord, NEW todo, todo = proc[p].todo, UNCHANGED Rest, lock' = lock,
           proc' = Asked(p, s, IF s = Primary THEN NoSnap ELSE t),
           task'.receipt[s].state = "pending", t.receipt = task'.receipt,
           s = Primary /\ Family => AuxDeleted(t.receipt),
           s # Primary => OnList(todo, t.receipt) /\ s = Head(todo),
           s \notin Codex => calls[s] < task'.receipt[s].attempts
    PROVE  /\ proc' \in [Processes -> Passes] /\ lock' \in Processes \cup {NoProcess}
           /\ \A q \in Processes : PassSound(q)'
           /\ Keeps(p)
<1>1. /\ lock = p /\ proc \in [Processes -> Passes]
      /\ \A q \in Processes \ {p} : proc[q].pc = "idle"
      /\ proc[p].mode = "ack" => proc[p].ack \in Codex
  BY PassAlone DEF SInv, TInv, PassSound
<1>2. (Family' <=> Family) /\ Codex' = Codex /\ calls' = calls
  BY DEF Family, Codex, Kept, Rest, world
<1>3. PICK snap \in TaskRecord : snap = IF s = Primary THEN NoSnap ELSE t
  BY NewTypes
<1>4. proc' = Asked(p, s, snap)
  BY <1>3
<1>5. /\ proc' \in [Processes -> Passes]
      /\ proc'[p].pc = "requested" /\ proc'[p].target = s /\ proc'[p].snap = snap
      /\ proc'[p].mode = proc[p].mode /\ proc'[p].ack = proc[p].ack
      /\ proc'[p].todo = todo
      /\ \A q \in Processes \ {p} : proc'[q] = proc[q]
  BY <1>1, <1>4, AskedPass
<1>6. s # Primary => OnList(todo, snap.receipt)' /\ s = Head(todo) /\ snap.receipt = task'.receipt
  BY <1>2, <1>3 DEF OnList
<1>7. s = Primary /\ Family' => AuxDeleted(task'.receipt)
  BY <1>2
<1>8. PassSound(p)'
  BY <1>1, <1>2, <1>5, <1>6, <1>7 DEF PassSound, AuxDeleted
<1> QED BY <1>1, <1>5, <1>8, OnePass DEF Keeps

LEMMA KeptStable ==
    ASSUME kind' = kind
    PROVE  Codex' = Codex /\ Kept' = Kept
BY DEF Codex, Kept

LEMMA PassOverSound ==
    ASSUME SInv, NEW p \in Processes, NEW s, NEW t, PassOver(p, s, t)
    PROVE  Good /\ Keeps(p)
<1>1. At(p, s, t) /\ UNCHANGED task /\ UNCHANGED Rest /\ (Continue(p, s, t) \/ Finish(p))
  BY DEF PassOver, Skip, Rest, Resolved
<1>2. proc[p].pc # "idle" /\ Coming(p, s, t) /\ Carried(t)
  BY <1>1, Comes
<1> QED BY <1>1, <1>2, StaysSound

LEMMA KeepFamilySound ==
    ASSUME SInv, NEW p \in Processes, NEW s, NEW t, KeepFamily(p, s, t)
    PROVE  Good /\ Keeps(p)
<1>1. At(p, s, t) /\ UNCHANGED task /\ UNCHANGED Rest /\ Finish(p)
  BY DEF KeepFamily, Rest
<1>2. proc[p].pc # "idle" /\ Coming(p, s, t) /\ Carried(t)
  BY <1>1, Comes
<1> QED BY <1>1, <1>2, StaysSound

\* The receipt of a session that is come to, on the record it is handled on.
LEMMA ReceiptAt ==
    ASSUME SInv, NEW p \in Processes, NEW s, NEW t, Coming(p, s, t), t.receipt = task.receipt
    PROVE  /\ s \in Session /\ t.receipt[s] = task.receipt[s] /\ t.receipt[s] \in Receipt
           /\ t \in TaskRecord
BY SessionTypes DEF Coming

LEMMA MarkRetainedSound ==
    ASSUME SInv, NEW p \in Processes, NEW s, NEW t, MarkRetained(p, s, t)
    PROVE  Good /\ Keeps(p)
<1> DEFINE r == t.receipt[s]
           new == ToResolved(r, "retained")
<1>1. /\ At(p, s, t) /\ r.state = "not_requested" /\ UNCHANGED Rest
      /\ task' = WithReceipt(t, s, new) /\ Continue(p, s, WithReceipt(t, s, new))
  BY DEF MarkRetained, Rest, Persist
<1>2. ~Resolved(r)
  BY <1>1 DEF Resolved, ResolvedStates
<1>3. proc[p].pc # "idle" /\ Coming(p, s, t) /\ t.receipt = task.receipt
  BY <1>1, <1>2, Comes
<1>4. s \in Session /\ r = task.receipt[s] /\ r \in Receipt /\ "retained" \in ResolvedStates
  BY <1>3, ReceiptAt DEF ResolvedStates
<1>5. new \in Receipt /\ new.state = "retained" /\ new.attempts = r.attempts /\ new.wait = 0
  BY <1>4, ResolvedReceipt
<1> HIDE DEF new
<1>6. Moves(s, task.receipt[s], new)
  BY <1>2, <1>4, <1>5 DEF Moves
<1> QED BY <1>1, <1>3, <1>5, <1>6, WritesSound

LEMMA InterruptSound ==
    ASSUME SInv, NEW p \in Processes, NEW s, NEW t, Interrupt(p, s, t)
    PROVE  Good /\ Keeps(p)
<1> DEFINE r == t.receipt[s]
           new == ToFailed(r, TRUE, "other")
<1>1. /\ At(p, s, t) /\ r.state = "pending" /\ UNCHANGED Rest
      /\ task' = WithReceipt(t, s, new) /\ Continue(p, s, WithReceipt(t, s, new))
  BY DEF Interrupt, Rest, Persist
<1>2. ~Resolved(r)
  BY <1>1 DEF Resolved, ResolvedStates
<1>3. proc[p].pc # "idle" /\ Coming(p, s, t) /\ t.receipt = task.receipt
  BY <1>1, <1>2, Comes
<1>4. s \in Session /\ r = task.receipt[s] /\ r \in Receipt
  BY <1>3, ReceiptAt
<1>5. new \in Receipt /\ new.state = "failed" /\ new.attempts = r.attempts
  <2>1. PICK b \in BOOLEAN, e \in Error : b = TRUE /\ e = "other"
    BY DEF Error
  <2> QED BY <1>4, <2>1, FailedReceipt
<1> HIDE DEF new
<1>6. Moves(s, task.receipt[s], new)
  BY <1>2, <1>4, <1>5 DEF Moves, Resolved, ResolvedStates
<1> QED BY <1>1, <1>3, <1>5, <1>6, WritesSound

\* The limit of the attempts is kept for every executor but Codex's, whose receipt
\* an acknowledgement or a repaired scope may take up again.
LEMMA RequestMoves ==
    ASSUME SInv, NEW p \in Processes, NEW s, NEW t, Request(p, s, t),
           Coming(p, s, t), t.receipt = task.receipt, proc[p].pc # "idle"
    PROVE  /\ Moves(s, task.receipt[s], ToPending(task.receipt[s]))
           /\ s \notin Codex => calls[s] < task.receipt[s].attempts + 1
<1> DEFINE r == task.receipt[s]
<1>1. s \in Session /\ r \in Receipt /\ r.attempts \in Nat /\ calls[s] \in Nat
  BY ReceiptAt, SessionTypes
<1>2. /\ ToPending(r) \in Receipt /\ ToPending(r).state = "pending"
      /\ ToPending(r).attempts = r.attempts + 1
  BY <1>1, PendingReceipt
<1>3. r.state = "not_requested" \/ (r.state = "failed" /\ Due(p, s, r))
  BY DEF Request
<1>4. ReceiptSound(s) /\ PassSound(p)
  BY <1>1 DEF SInv
<1>5. ASSUME s \notin Codex
      PROVE  r.attempts + 1 <= MaxAttempts /\ calls[s] < r.attempts + 1
  <2>1. calls[s] <= r.attempts
    BY <1>4, <1>5 DEF ReceiptSound
  <2>2. CASE r.state = "not_requested"
    BY <1>1, <1>4, <2>1, <2>2, Sessions DEF ReceiptSound
  <2>3. CASE r.state = "failed" /\ Due(p, s, r)
    <3>1. ~Acknowledged(p, s, r)
      BY <1>4, <1>5 DEF PassSound, Acknowledged
    <3>2. TRUE \notin ScopeRepaired(s, r)
      BY <1>5 DEF ScopeRepaired
    <3>3. r.attempts < MaxAttempts
      BY <2>3, <3>1, <3>2 DEF Due
    <3> QED BY <1>1, <2>1, <3>3, Sessions
  <2> QED BY <1>3, <2>2, <2>3
<1>6. ~Resolved(r) /\ ~Resolved(ToPending(r))
  BY <1>2, <1>3 DEF Resolved, ResolvedStates
<1> QED BY <1>2, <1>5, <1>6 DEF Moves

LEMMA RequestSound ==
    ASSUME SInv, NEW p \in Processes, NEW s, NEW t, Request(p, s, t)
    PROVE  Good /\ Keeps(p)
<1>0. PICK r, new, t2 : /\ r = t.receipt[s] /\ new = ToPending(r)
                        /\ t2 = WithReceipt(t, s, new)
  OBVIOUS
<1>1. /\ At(p, s, t) /\ UNCHANGED Rest /\ ~Blocked(t, s) /\ task' = t2
      /\ r.state \in {"not_requested", "failed"}
      /\ \/ Continue(p, s, t2)
         \/ /\ lock' = lock
            /\ proc' = Asked(p, s, IF s = Primary THEN NoSnap ELSE t2)
  BY <1>0 DEF Request, Rest, Persist, Asked
<1>2. ~Resolved(r)
  BY <1>1 DEF Resolved, ResolvedStates
<1>3. /\ proc[p].pc # "idle" /\ Coming(p, s, t) /\ t.receipt = task.receipt
      /\ s = Primary /\ Family => AuxDeleted(task.receipt)
  BY <1>0, <1>1, <1>2, Comes
<1>4. s \in Session /\ r = task.receipt[s] /\ r \in Receipt /\ t \in TaskRecord
  BY <1>0, <1>3, ReceiptAt
<1>5. /\ Moves(s, task.receipt[s], new)
      /\ s \notin Codex => calls[s] < r.attempts + 1
  BY <1>0, <1>3, <1>4, RequestMoves
<1>6. new \in Receipt /\ new.state = "pending" /\ new.attempts = r.attempts + 1
  BY <1>0, <1>4, PendingReceipt
<1>7. CASE Continue(p, s, t2)
  BY <1>0, <1>1, <1>3, <1>5, <1>6, <1>7, WritesSound
<1>8. CASE lock' = lock /\ proc' = Asked(p, s, IF s = Primary THEN NoSnap ELSE t2)
  <2>1. task' \in TaskRecord /\ Written(s, new) /\ task'.receipt[s] = new
    BY <1>0, <1>1, <1>3, <1>4, <1>5, <1>6, WriteTypes
  <2>2. /\ \A x \in Session : ReceiptSound(x)'
        /\ LedgerStep /\ ResolvedStay
    BY <1>4, <2>1, WriteSound, WriteRefines, WriteKeepsResolved
  <2>3. Coming(p, s, t2) /\ t2 \in TaskRecord
    BY <1>0, <1>2, <1>3, <1>6, ComesWritten DEF Coming
  <2>4. s = Primary /\ Family => AuxDeleted(t2.receipt)
    BY <1>1, <1>3, <2>1, Sessions, SessionTypes DEF AuxDeleted, Written
  <2>5. PICK todo : todo = proc[p].todo
    OBVIOUS
  <2>6. s # Primary => OnList(todo, t2.receipt) /\ s = Head(todo)
    BY <2>3, <2>5 DEF Coming
  <2>7. /\ task'.receipt[s].state = "pending" /\ t2.receipt = task'.receipt
        /\ s \notin Codex => calls[s] < task'.receipt[s].attempts
    BY <1>1, <1>5, <1>6, <2>1
  <2>8. /\ proc' \in [Processes -> Passes] /\ lock' \in Processes \cup {NoProcess}
        /\ \A q \in Processes : PassSound(q)'
        /\ Keeps(p)
    BY <1>1, <1>3, <1>4, <1>8, <2>3, <2>4, <2>5, <2>6, <2>7, AsksSound
  <2> QED BY <1>1, <2>1, <2>2, <2>8, Assembles DEF Good
<1> QED BY <1>1, <1>7, <1>8

LEMMA ReplaySound ==
    ASSUME SInv, NEW p \in Processes, NEW s, NEW t, Replay(p, s, t)
    PROVE  Good /\ Keeps(p)
<1>1. /\ At(p, s, t) /\ UNCHANGED task /\ UNCHANGED Rest /\ lock' = lock
      /\ ~Blocked(t, s) /\ s \in Codex
      /\ t.receipt[s].state = "pending"
      /\ proc' = Asked(p, s, IF s = Primary THEN NoSnap ELSE t)
  BY DEF Replay, Rest, Asked, Replayable
<1>2. ~Resolved(t.receipt[s])
  BY <1>1 DEF Resolved, ResolvedStates
<1>3. /\ proc[p].pc # "idle" /\ Coming(p, s, t) /\ t.receipt = task.receipt
      /\ s = Primary /\ Family => AuxDeleted(task.receipt)
  BY <1>1, <1>2, Comes
<1>4. s \in Session /\ t \in TaskRecord
  BY <1>3 DEF Coming
<1>5. task' = task /\ calls' = calls /\ kind' = kind
  BY <1>1 DEF Rest, world
<1>6. PICK todo : todo = proc[p].todo
  OBVIOUS
<1>7. s # Primary => OnList(todo, t.receipt) /\ s = Head(todo)
  BY <1>3, <1>6 DEF Coming
<1>8. /\ proc' \in [Processes -> Passes] /\ lock' \in Processes \cup {NoProcess}
      /\ \A q \in Processes : PassSound(q)'
      /\ Keeps(p)
  BY <1>1, <1>3, <1>4, <1>5, <1>6, <1>7, AsksSound
<1>9. /\ \A x \in Session : ReceiptSound(x)'
      /\ LedgerStep /\ ResolvedStay
  BY <1>5, SameReceipts
<1>10. task' \in TaskRecord
  BY <1>5 DEF SInv, TInv
<1> QED BY <1>1, <1>8, <1>9, <1>10, Assembles DEF Good

LEMMA HandleSound ==
    ASSUME SInv, NEW p \in Processes, HandleSession(p)
    PROVE  Good /\ Keeps(p)
BY PassOverSound, KeepFamilySound, MarkRetainedSound, RequestSound, ReplaySound,
   InterruptSound DEF HandleSession

-----------------------------------------------------------------------------
(* The call and its answer.                                                *)

\* The primary of a family is called when its descendants are deleted.
ParentLast ==
    Family /\ calls'[Primary] > calls[Primary] =>
        \A a \in Aux : task.receipt[a].state = "succeeded"

LEMMA CallSound ==
    ASSUME SInv, NEW p \in Processes, Call(p)
    PROVE  Good /\ ParentLast /\ popup' = popup
<1> DEFINE s == proc[p].target
<1>1. /\ proc[p].pc = "requested" /\ UNCHANGED <<task, world, gone, crashes, acks>>
      /\ \/ Finish(p) /\ calls' = calls
         \/ /\ proc' = [proc EXCEPT ![p].pc = "calling"]
            /\ calls' = [calls EXCEPT ![s] = calls[s] + 1]
            /\ lock' = lock
  BY DEF Call
<1>2. /\ lock = p /\ s \in Session /\ task.receipt[s].state = "pending"
      /\ s = Primary /\ Family => AuxDeleted(task.receipt)
      /\ s \notin Codex => calls[s] < task.receipt[s].attempts
      /\ \A q \in Processes \ {p} : proc[q].pc = "idle"
  BY <1>1, PassAlone DEF SInv, PassSound
<1>3. /\ task' = task /\ kind' = kind /\ popup' = popup /\ Codex' = Codex
      /\ (Family' <=> Family)
  BY <1>1 DEF world, Codex, Kept, Family
<1>4. CASE Finish(p) /\ calls' = calls
  <2>1. UNCHANGED Rest
    BY <1>1, <1>4 DEF Rest
  <2>2. /\ \A x \in Session : ReceiptSound(x)'
        /\ LedgerStep /\ ResolvedStay
    BY <1>3, <1>4, SameReceipts
  <2>3. /\ proc' \in [Processes -> Passes] /\ lock' \in Processes \cup {NoProcess}
        /\ \A q \in Processes : PassSound(q)'
    BY <1>1, <1>4, Ends
  <2>4. task' \in TaskRecord
    BY <1>3 DEF SInv, TInv
  <2>5. ParentLast
    BY <1>4, SessionTypes, Sessions DEF ParentLast
  <2> QED BY <1>3, <2>1, <2>2, <2>3, <2>4, <2>5, Assembles DEF Good
<1>5. CASE /\ proc' = [proc EXCEPT ![p].pc = "calling"]
           /\ calls' = [calls EXCEPT ![s] = calls[s] + 1]
           /\ lock' = lock
  <2>1. calls \in [Session -> Nat] /\ calls' \in [Session -> Nat]
    BY <1>2, <1>5, SessionTypes
  <2>2. proc \in [Processes -> Passes]
    BY DEF SInv, TInv
  <2>3. /\ proc' \in [Processes -> Passes]
        /\ proc'[p].pc = "calling" /\ proc'[p].target = s /\ proc'[p].snap = proc[p].snap
        /\ proc'[p].mode = proc[p].mode /\ proc'[p].ack = proc[p].ack
        /\ proc'[p].todo = proc[p].todo
        /\ \A q \in Processes \ {p} : proc'[q] = proc[q]
    BY <1>5, <2>2 DEF Passes
  <2>4. TInv'
    BY <1>1, <1>3, <1>5, <2>1, <2>3 DEF SInv, TInv, world
  <2>5. ASSUME NEW x \in Session PROVE ReceiptSound(x)'
    <3>1. ReceiptSound(x)
      BY DEF SInv
    <3>2. CASE x # s
      BY <1>3, <1>5, <2>1, <3>1, <3>2 DEF ReceiptSound
    <3>3. CASE x = s
      <4>1. x \notin Codex => calls'[x] <= task.receipt[x].attempts
        BY <1>2, <1>5, <2>1, <3>3, SessionTypes
      <4> QED BY <1>3, <3>1, <4>1 DEF ReceiptSound
    <3> QED BY <3>2, <3>3
  <2>6. PassSound(p)'
    <3>1. PICK todo, snap, target : /\ todo = proc[p].todo /\ snap = proc[p].snap
                                    /\ target = s
      OBVIOUS
    <3>2. /\ proc[p].mode = "ack" => proc[p].ack \in Codex
          /\ target # Primary => /\ OnList(todo, snap.receipt) /\ target = Head(todo)
                                 /\ snap.receipt = task.receipt
      BY <1>1, <3>1 DEF SInv, PassSound
    <3>3. target # Primary => OnList(todo, snap.receipt)'
      BY <1>3, <3>2 DEF OnList
    <3> HIDE DEF s
    <3> QED BY <1>2, <1>3, <1>5, <2>3, <3>1, <3>2, <3>3 DEF PassSound, AuxDeleted
  <2>7. \A q \in Processes : PassSound(q)'
    BY <1>2, <2>3, <2>6, OnePass
  <2>8. LedgerStep
    <3>1. Intents' = Intents /\ Closed' = Closed
      BY <1>3 DEF Intents, Closed
    <3>2. CASE s \in Codex
      <4>1. Calls' = Calls
        BY <1>3, <1>5, <2>1, <3>2 DEF Calls
      <4> QED BY <3>1, <4>1, LedgerStutters
    <3>3. CASE s \notin Codex
      <4>1. s \notin Closed
        BY <1>2, <3>3 DEF Closed, Resolved, ResolvedStates
      <4>2. Calls[s] = calls[s] /\ Calls[s] < Intents[s]
        BY <1>2, <3>3 DEF Calls, Intents
      <4>3. Calls' = [Calls EXCEPT ![s] = Calls[s] + 1]
        BY <1>2, <1>3, <1>5, <2>1, <3>3, <4>2 DEF Calls
      <4> QED BY <1>2, <3>1, <4>1, <4>2, <4>3, LedgerCalls
    <3> QED BY <3>2, <3>3
  <2>9. ResolvedStay
    BY <1>3 DEF ResolvedStay
  <2>10. ParentLast
    <3>1. CASE s = Primary
      BY <1>2, <3>1 DEF ParentLast, AuxDeleted, Deleted
    <3>2. CASE s # Primary
      BY <1>5, <2>1, <3>2, Sessions DEF ParentLast
    <3> QED BY <3>1, <3>2
  <2> QED BY <1>3, <2>4, <2>5, <2>7, <2>8, <2>9, <2>10 DEF Good, SInv
<1> QED BY <1>1, <1>4, <1>5

LEMMA ApplySound ==
    ASSUME SInv, NEW p \in Processes, NEW result \in Result, Apply(p, result)
    PROVE  Good /\ Keeps(p)
<1>1. PICK s, t, r, new :
          /\ s = proc[p].target
          /\ t = IF s = Primary THEN task ELSE proc[p].snap
          /\ r = t.receipt[s] /\ new = Settle(r, result)
  OBVIOUS
<1>2. /\ proc[p].pc = "calling" /\ UNCHANGED Rest
      /\ \/ r.state # "pending"
         \/ Finish(p) /\ UNCHANGED task
         \/ task' = WithReceipt(t, s, new) /\ Continue(p, s, WithReceipt(t, s, new))
  BY <1>1 DEF Apply, Rest, Persist
<1>3. PassSound(p) /\ proc[p] \in Passes /\ task \in TaskRecord
  BY PassAlone, <1>2 DEF SInv, TInv
<1>4. /\ s \in Session /\ t \in TaskRecord /\ t.receipt = task.receipt
      /\ r = task.receipt[s] /\ r.state = "pending"
      /\ s # Primary => OnList(proc[p].todo, t.receipt) /\ s = Head(proc[p].todo)
  BY <1>1, <1>2, <1>3 DEF PassSound, Passes
<1>5. Coming(p, s, t) /\ Carried(t) /\ proc[p].pc # "idle"
  BY <1>2, <1>4 DEF Coming, Carried
<1>6. CASE Finish(p) /\ UNCHANGED task
  BY <1>2, <1>5, <1>6, StaysSound
<1>7. CASE task' = WithReceipt(t, s, new) /\ Continue(p, s, WithReceipt(t, s, new))
  <2>1. r \in Receipt /\ ~Resolved(r)
    BY <1>4, SessionTypes DEF Resolved, ResolvedStates
  <2>2. /\ new \in Receipt /\ new.state = result.state /\ new.attempts = r.attempts
        /\ Resolved(new) => new.wait = 0
    BY <1>1, <2>1, SettledReceipt
  <2>3. result.state # "not_requested"
    BY DEF Result
  <2>4. Moves(s, task.receipt[s], new)
    BY <1>4, <2>1, <2>2, <2>3 DEF Moves
  <2> QED BY <1>2, <1>4, <1>5, <1>7, <2>2, <2>4, WritesSound
<1> QED BY <1>2, <1>4, <1>6, <1>7

LEMMA DeletesSound ==
    ASSUME SInv, NEW p \in Processes, ExecutorDeletes(p)
    PROVE  Good /\ calls' = calls /\ popup' = popup
<1>1. /\ proc[p].pc = "calling" /\ gone' = gone \cup {proc[p].target}
      /\ UNCHANGED <<task, world, lock, proc, crashes, acks, calls>>
  BY DEF ExecutorDeletes
<1>2. /\ task' = task /\ proc' = proc /\ lock' = lock /\ calls' = calls /\ kind' = kind
      /\ popup' = popup /\ (Family' <=> Family) /\ Codex' = Codex
  BY <1>1 DEF world, Family, Codex, Kept
<1>3. proc[p].target \in Session
  BY <1>1 DEF SInv, PassSound
<1>4. TInv'
  BY <1>1, <1>2, <1>3 DEF SInv, TInv, world
<1>5. /\ \A x \in Session : ReceiptSound(x)'
      /\ LedgerStep /\ ResolvedStay
  BY <1>2, SameReceipts
<1>6. \A q \in Processes : PassSound(q)'
  BY <1>2 DEF SInv, PassSound, OnList, Carried, Renewed, AuxDeleted
<1> QED BY <1>2, <1>4, <1>5, <1>6 DEF Good, SInv

-----------------------------------------------------------------------------
(* What begins and ends a pass, and what goes on around it.                *)

LEMMA BeginSound ==
    ASSUME SInv, NEW p \in Processes, NEW mode \in Mode,
           NEW ack \in Session \cup {NoSession}, BeginPass(p, mode, ack)
    PROVE  Good /\ calls' = calls /\ popup' = popup
<1>3. PICK pc \in {"aux", "primary"}, todo \in Seq(Aux), snap \in TaskRecord :
          /\ pc = IF Family THEN "aux" ELSE "primary"
          /\ todo = IF Family THEN AuxOrder ELSE <<>>
          /\ snap = IF Family THEN task ELSE NoSnap
  <2>1. AuxOrder \in Seq(Aux) /\ <<>> \in Seq(Aux)
    BY Sessions
  <2>2. task \in TaskRecord /\ NoSnap \in TaskRecord
    BY NewTypes DEF SInv, TInv
  <2> HIDE DEF Family
  <2>3. CASE Family
    BY <2>1, <2>2, <2>3
  <2>4. CASE ~Family
    BY <2>1, <2>2, <2>4
  <2> QED BY <2>3, <2>4
<1> DEFINE q1 == [Idle EXCEPT !.pc = pc]
           q2 == [q1 EXCEPT !.mode = mode]
           q3 == [q2 EXCEPT !.ack = ack]
           q4 == [q3 EXCEPT !.todo = todo]
           pass == [q4 EXCEPT !.snap = snap]
<1>1. /\ lock = NoProcess /\ lock' = p /\ proc' = [proc EXCEPT ![p] = pass]
      /\ UNCHANGED <<task, world, gone, crashes, calls>> /\ acks' \in {acks, acks + 1}
      /\ mode = "ack" => CanAcknowledge(ack)
  BY <1>3 DEF BeginPass, LockFree
<1>2. /\ task' = task /\ kind' = kind /\ popup' = popup /\ Codex' = Codex /\ calls' = calls
      /\ (Family' <=> Family)
  BY <1>1 DEF world, Codex, Kept, Family
<1>4a. q1 \in Passes /\ q1.pc = pc
  BY NewTypes DEF Passes
<1> HIDE DEF q1
<1>4b. q2 \in Passes /\ q2.pc = pc /\ q2.mode = mode
  BY <1>4a DEF Passes
<1> HIDE DEF q2
<1>4c. q3 \in Passes /\ q3.pc = pc /\ q3.mode = mode /\ q3.ack = ack
  BY <1>4b DEF Passes
<1> HIDE DEF q3
<1>4d. q4 \in Passes /\ q4.pc = pc /\ q4.mode = mode /\ q4.ack = ack /\ q4.todo = todo
  BY <1>4c DEF Passes
<1> HIDE DEF q4
<1>5. /\ pass \in Passes /\ pass.pc = pc
      /\ pass.mode = mode /\ pass.ack = ack /\ pass.todo = todo /\ pass.snap = snap
  BY <1>4d DEF Passes
<1> HIDE DEF pass
<1>6. /\ proc' \in [Processes -> Passes] /\ proc'[p] = pass
      /\ \A q \in Processes \ {p} : proc'[q] = proc[q]
  BY <1>1, <1>5 DEF SInv, TInv
<1>7. \A q \in Processes : proc[q].pc = "idle"
  BY <1>1, FreeLock
<1>8. mode = "ack" => ack \in Codex
  BY <1>1 DEF CanAcknowledge
<1>9. Family => OnList(todo, snap.receipt)' /\ snap = task
  <2> SUFFICES ASSUME Family PROVE OnList(todo, snap.receipt)' /\ snap = task
    OBVIOUS
  <2>1. AuxOrder # <<>>
    <3> SUFFICES ASSUME AuxOrder = <<>> PROVE FALSE
      OBVIOUS
    <3>1. Aux = {}
      BY DEF Aux
    <3> QED BY <3>1 DEF Family
  <2>2. OnList(AuxOrder, snap.receipt)
    BY <2>1, ListBegins
  <2> QED BY <1>2, <1>3, <2>2 DEF OnList
<1>10. PassSound(p)'
  <2>1. CASE Family
    BY <1>1, <1>2, <1>3, <1>5, <1>6, <1>8, <1>9, <2>1 DEF PassSound, Carried
  <2>2. CASE ~Family
    BY <1>1, <1>2, <1>3, <1>5, <1>6, <1>8, <2>2 DEF PassSound
  <2> QED BY <2>1, <2>2
<1>11. \A q \in Processes : PassSound(q)'
  BY <1>6, <1>7, <1>10, OnePass
<1>12. TInv'
  BY <1>1, <1>2, <1>6 DEF SInv, TInv, world
<1>13. /\ \A x \in Session : ReceiptSound(x)'
       /\ LedgerStep /\ ResolvedStay
  BY <1>2, SameReceipts
<1> QED BY <1>2, <1>11, <1>12, <1>13 DEF Good, SInv

LEMMA CrashSound ==
    ASSUME SInv, NEW p \in Processes, Crash(p)
    PROVE  Good /\ calls' = calls /\ popup' = popup
<1>1. /\ proc[p].pc # "idle" /\ Finish(p) /\ crashes' = crashes + 1
      /\ route' = (route /\ "maintain" \notin Modes[p])
      /\ UNCHANGED <<task, lease, popup, run, kind, gone, acks, calls>>
  BY DEF Crash
<1>2. /\ proc' \in [Processes -> Passes] /\ lock' = NoProcess
      /\ \A q \in Processes : PassSound(q)'
  BY <1>1, Ends
<1>3. TInv'
  BY <1>1, <1>2 DEF SInv, TInv
<1>4. /\ \A x \in Session : ReceiptSound(x)'
      /\ LedgerStep /\ ResolvedStay
  BY <1>1, SameReceipts
<1> QED BY <1>1, <1>2, <1>3, <1>4 DEF Good, SInv

\* A step that leaves the passes and the receipts alone, and takes nothing back
\* that a pass under way relies on.
LEMMA AsideSound ==
    ASSUME SInv, task' \in TaskRecord, task'.receipt = task.receipt,
           UNCHANGED <<lock, proc, kind, calls>>,
           Renewed => Renewed' \/ \A q \in Processes : proc[q].pc \in {"idle", "calling"}
    PROVE  /\ \A x \in Session : ReceiptSound(x)'
           /\ \A q \in Processes : PassSound(q)'
           /\ LedgerStep /\ ResolvedStay
<1>1. proc' = proc /\ lock' = lock /\ kind' = kind /\ calls' = calls
  OBVIOUS
<1>2. (Family' <=> Family) /\ Codex' = Codex
  BY <1>1 DEF Family, Codex, Kept
<1>3. /\ \A x \in Session : ReceiptSound(x)'
      /\ LedgerStep /\ ResolvedStay
  BY <1>1, SameReceipts
<1>4. ASSUME NEW q \in Processes PROVE PassSound(q)'
  <2>1. PassSound(q)
    BY DEF SInv
  <2>2. ASSUME Renewed, ~Renewed' PROVE proc[q].pc \in {"idle", "calling"}
    BY <2>2
  <2>3. ASSUME NEW t, Carried(t), proc[q].pc = "aux" PROVE Carried(t)'
    BY <2>2, <2>3 DEF Carried
  <2>4. ASSUME NEW todo, NEW r, OnList(todo, r) PROVE OnList(todo, r)'
    BY <1>2, <2>4 DEF OnList
  <2>5. PICK todo, snap : todo = proc[q].todo /\ snap = proc[q].snap
    OBVIOUS
  <2>6. proc[q].pc = "aux" => OnList(todo, snap.receipt)' /\ Carried(snap)'
    BY <2>1, <2>3, <2>4, <2>5 DEF PassSound
  <2>7. proc[q].pc \in {"requested", "calling"} /\ proc[q].target # Primary =>
            OnList(todo, snap.receipt)'
    BY <2>1, <2>4, <2>5 DEF PassSound
  <2>8. proc[q].pc = "primary" /\ Family => AuxDeleted(task.receipt) \/ Renewed'
    BY <2>1, <2>2 DEF PassSound
  <2> HIDE DEF Renewed, Carried, OnList, Family, Codex
  <2> QED BY <1>1, <1>2, <2>1, <2>5, <2>6, <2>7, <2>8 DEF PassSound, AuxDeleted
<1> QED BY <1>3, <1>4

RouteStep ==
    /\ route' \in BOOLEAN
    /\ UNCHANGED <<task, lease, popup, kind, lock, proc, gone, run, crashes, acks, calls>>

\* Everything but a retry and the clock.
Aside ==
    \/ \E outcome \in Ended : EndRun(outcome)
    \/ Requeue \/ ClaimTask \/ OpenLease \/ ShowDialog \/ RouteStep

LEMMA AsidesSound ==
    ASSUME SInv, Aside
    PROVE  Good /\ calls' = calls /\ (popup => popup')
<1>1. task \in TaskRecord
  BY DEF SInv, TInv
<1>2. ASSUME NEW outcome \in Ended, EndRun(outcome)
      PROVE  Good /\ calls' = calls /\ popup' = popup
  <2>1. task' \in TaskRecord /\ task'.receipt = task.receipt
    BY <1>1, <1>2 DEF EndRun, TaskRecord, Status
  <2>2. TInv'
    BY <1>2, <2>1 DEF EndRun, SInv, TInv
  <2>3. \A q \in Processes : proc[q].pc \in {"idle", "calling"}
    BY <1>2 DEF EndRun
  <2>4. UNCHANGED <<lock, proc, kind, calls>> /\ popup' = popup
    BY <1>2 DEF EndRun
  <2> QED BY <2>1, <2>2, <2>3, <2>4, AsideSound DEF Good, SInv
<1>3. CASE Requeue
  <2>1. task' \in TaskRecord /\ task'.receipt = task.receipt /\ ~Renewed
    BY <1>1, <1>3 DEF Requeue, TaskRecord, Status, Renewed
  <2>2. TInv'
    BY <1>3, <2>1 DEF Requeue, SInv, TInv
  <2>3. UNCHANGED <<lock, proc, kind, calls>> /\ popup' = popup
    BY <1>3 DEF Requeue
  <2> QED BY <2>1, <2>2, <2>3, AsideSound DEF Good, SInv
<1>4. CASE ClaimTask
  <2>1. task' \in TaskRecord /\ task'.receipt = task.receipt
    BY <1>1, <1>4 DEF ClaimTask, TaskRecord, Status
  <2>2. Renewed => Renewed'
    BY <1>1, <1>4 DEF ClaimTask, TaskRecord, Renewed, world
  <2>3. TInv'
    BY <1>4, <2>1 DEF ClaimTask, SInv, TInv, world
  <2>4. UNCHANGED <<lock, proc, kind, calls>> /\ popup' = popup
    BY <1>4 DEF ClaimTask, world
  <2> QED BY <2>1, <2>2, <2>3, <2>4, AsideSound DEF Good, SInv
<1>5. CASE OpenLease
  <2>1. task' = task /\ popup' = popup /\ UNCHANGED <<lock, proc, kind, calls>>
    BY <1>5 DEF OpenLease
  <2>2. Renewed => Renewed'
    BY <2>1 DEF Renewed
  <2>3. TInv'
    BY <1>5, <2>1 DEF OpenLease, SInv, TInv
  <2> QED BY <1>1, <2>1, <2>2, <2>3, AsideSound DEF Good, SInv
<1>6. CASE ShowDialog
  <2>1. task' \in TaskRecord /\ task'.receipt = task.receipt /\ ~Renewed
    BY <1>1, <1>6 DEF ShowDialog, TaskRecord, Ended, Renewed
  <2>2. TInv'
    BY <1>6, <2>1 DEF ShowDialog, SInv, TInv
  <2>3. UNCHANGED <<lock, proc, kind, calls>> /\ popup' = TRUE
    BY <1>6 DEF ShowDialog
  <2> QED BY <2>1, <2>2, <2>3, AsideSound DEF Good, SInv
<1>7. CASE RouteStep
  <2>1. task' = task /\ popup' = popup /\ UNCHANGED <<lock, proc, kind, calls>>
    BY <1>7 DEF RouteStep
  <2>2. Renewed => Renewed'
    BY <2>1 DEF Renewed
  <2>3. TInv'
    BY <1>7, <2>1 DEF RouteStep, SInv, TInv
  <2> QED BY <1>1, <2>1, <2>2, <2>3, AsideSound DEF Good, SInv
<1> QED BY <1>2, <1>3, <1>4, <1>5, <1>6, <1>7 DEF Aside

\* A session that a retry may leave behind is resolved.
LEMMA ReadyResolved ==
    ASSUME NEW s, NEW r, CleanupReady(s, r)
    PROVE  Resolved(r)
BY DEF CleanupReady, Resolved, ResolvedStates

\* While a retry is allowed nobody is about to call an executor.
LEMMA RetryAlone ==
    ASSUME SInv, RetryReady(task), NEW q \in Processes
    PROVE  proc[q].pc \notin {"requested", "calling"}
<1>1. \A a \in Aux : Resolved(task.receipt[a])
  BY ReadyResolved DEF RetryReady
<1>2. Resolved(task.receipt[Primary]) \/ task.receipt[Primary].state = "not_requested"
  BY ReadyResolved DEF RetryReady, IsParked
<1>3. \A s \in Session : task.receipt[s].state # "pending"
  BY <1>1, <1>2, Sessions DEF Resolved, ResolvedStates
<1> QED BY <1>3 DEF SInv, PassSound

LEMMA RetrySound ==
    ASSUME SInv, Retry
    PROVE  SInv' /\ LedgerStep
<1>1. /\ task.status \in {"failed", "needs_recovery"} /\ RetryReady(task)
      /\ task' = [status |-> "pending", shown |-> FALSE,
                  receipt |-> [s \in Session |-> NewReceipt]]
      /\ popup' = FALSE /\ run' = run + 1 /\ gone' = {}
      /\ calls' = [s \in Session |-> 0]
      /\ UNCHANGED <<lease, route, kind, lock, proc, crashes, acks>>
  BY DEF Retry
<1>2. task' \in TaskRecord /\ Renewed' /\ ~Renewed
  BY <1>1, NewTypes DEF TaskRecord, Status, Renewed
<1>3. TInv'
  <2>1. calls' \in [Session -> Nat] /\ run' \in Nat /\ popup' \in BOOLEAN /\ gone' \subseteq Session
    <3>1. run \in Nat
      BY DEF SInv, TInv
    <3>2. run' \in Nat
      BY <1>1, <3>1
    <3>3. calls' \in [Session -> Nat]
      BY <1>1
    <3>4. popup' \in BOOLEAN /\ gone' \subseteq Session
      BY <1>1
    <3> QED BY <3>2, <3>3, <3>4
  <2> QED BY <1>1, <1>2, <2>1 DEF SInv, TInv
<1>4. /\ proc' = proc /\ lock' = lock /\ kind' = kind
      /\ (Family' <=> Family) /\ Codex' = Codex
  BY <1>1 DEF Family, Codex, Kept
<1>5. \A a \in Aux : Resolved(task.receipt[a])
  BY <1>1, ReadyResolved DEF RetryReady
<1>6. ASSUME NEW q \in Processes PROVE PassSound(q)'
  <2>1. PassSound(q) /\ proc[q].pc \notin {"requested", "calling"}
    BY <1>1, RetryAlone DEF SInv
  <2>2. ASSUME NEW t, Carried(t) PROVE Carried(t)'
    BY <1>2, <1>5, <2>2 DEF Carried
  <2>3. ASSUME NEW todo, NEW r, OnList(todo, r) PROVE OnList(todo, r)'
    BY <1>4, <2>3 DEF OnList
  <2>4. PICK todo, snap : todo = proc[q].todo /\ snap = proc[q].snap
    OBVIOUS
  <2>5. proc[q].pc = "aux" => OnList(todo, snap.receipt)' /\ Carried(snap)'
    BY <2>1, <2>2, <2>3, <2>4 DEF PassSound
  <2> HIDE DEF Renewed, Carried, OnList, Family, Codex
  <2> QED BY <1>2, <1>4, <2>1, <2>4, <2>5 DEF PassSound
<1>7. ASSUME NEW s \in Session PROVE ReceiptSound(s)'
  <2>1. task'.receipt[s] = NewReceipt /\ calls'[s] = 0
    BY <1>1
  <2> QED BY <2>1, Sessions DEF ReceiptSound, NewReceipt, Resolved, ResolvedStates
<1>8. LedgerStep
  <2>1. Closed = Session
    <3>1. Primary \in Codex \/ Resolved(task.receipt[Primary])
      BY <1>1, ReadyResolved DEF RetryReady, IsParked
    <3> HIDE DEF Resolved, Codex
    <3> QED BY <1>5, <3>1, Sessions DEF Closed
  <2>2. Closed' \subseteq Session
    BY DEF Closed
  <2>3. Intents' = [s \in Session |-> 0] /\ Calls' = [s \in Session |-> 0]
    BY <1>1 DEF Intents, Calls, NewReceipt
  <2> QED BY <2>1, <2>2, <2>3, LedgerRenews
<1> QED BY <1>3, <1>6, <1>7, <1>8 DEF SInv

LEMMA TickSound ==
    ASSUME SInv, Tick
    PROVE  Good /\ calls' = calls /\ popup' = popup
<1>1. /\ lock = NoProcess
      /\ task' = [task EXCEPT !.receipt = [s \in Session |-> Elapse(task.receipt[s])]]
      /\ UNCHANGED <<world, lock, proc, gone, crashes, acks, calls>>
  BY DEF Tick
<1>2. /\ proc' = proc /\ lock' = lock /\ kind' = kind /\ calls' = calls /\ popup' = popup
      /\ Codex' = Codex
  BY <1>1 DEF world, Codex
<1>3. \A s \in Session :
          /\ Elapse(task.receipt[s]) \in Receipt
          /\ Elapse(task.receipt[s]).state = task.receipt[s].state
          /\ Elapse(task.receipt[s]).attempts = task.receipt[s].attempts
          /\ task.receipt[s].wait = 0 => Elapse(task.receipt[s]) = task.receipt[s]
  BY SessionTypes, ElapsedReceipt
<1>4. /\ task' \in TaskRecord
      /\ \A s \in Session : task'.receipt[s] = Elapse(task.receipt[s])
  <2> DEFINE new == [s \in Session |-> Elapse(task.receipt[s])]
  <2>1. new \in [Session -> Receipt] /\ task \in TaskRecord
    BY <1>3 DEF SInv, TInv
  <2>2. \A s \in Session : new[s] = Elapse(task.receipt[s])
    OBVIOUS
  <2> HIDE DEF new
  <2>3. task' = [task EXCEPT !.receipt = new]
    BY <1>1 DEF new
  <2> QED BY <2>1, <2>2, <2>3 DEF TaskRecord
<1>5. TInv'
  BY <1>1, <1>2, <1>4 DEF SInv, TInv, world
<1>6. \A q \in Processes : PassSound(q)'
  BY <1>1, <1>2, FreeLock DEF PassSound
<1>7. ASSUME NEW s \in Session, Resolved(task.receipt[s])
      PROVE  task'.receipt[s] = task.receipt[s]
  BY <1>3, <1>4, <1>7 DEF SInv, ReceiptSound
<1>8. ASSUME NEW s \in Session
      PROVE  /\ task'.receipt[s].state = task.receipt[s].state
             /\ task'.receipt[s].attempts = task.receipt[s].attempts
             /\ Resolved(task'.receipt[s]) <=> Resolved(task.receipt[s])
  BY <1>3, <1>4 DEF Resolved
<1>9. ASSUME NEW s \in Session PROVE ReceiptSound(s)'
  <2>1. ReceiptSound(s)
    BY DEF SInv
  <2> HIDE DEF Resolved
  <2> QED BY <1>2, <1>7, <1>8, <2>1 DEF ReceiptSound
<1>10. LedgerStep
  <2>1. Intents' = Intents /\ Calls' = Calls /\ Closed' = Closed
    BY <1>2, <1>8 DEF Intents, Calls, Closed
  <2> QED BY <2>1, LedgerStutters
<1>11. ResolvedStay
  BY <1>7 DEF ResolvedStay
<1> QED BY <1>2, <1>5, <1>6, <1>9, <1>10, <1>11 DEF Good, SInv

-----------------------------------------------------------------------------
(* One step, whichever it is.                                              *)

\* A step of the passes and of what goes on around them, whatever an executor may
\* answer and however the route changes.
Step ==
    \/ \E p \in Processes :
          \/ Begin(p) \/ HandleSession(p) \/ Call(p)
          \/ \E result \in Result : Apply(p, result)
          \/ ExecutorDeletes(p) \/ Crash(p)
    \/ Retry \/ Tick \/ Aside
    \/ UNCHANGED vars

OnlyRetryReopens ==
    \A s \in Session :
        Resolved(task.receipt[s]) /\ task'.receipt[s] # task.receipt[s]
            => RetryReady(task) /\ task'.status = "pending"

RetryWaits ==
    popup /\ ~popup' =>
        \A p \in Processes : proc[p].pc \notin {"requested", "calling"}

LEMMA StepSound ==
    ASSUME SInv, Step
    PROVE  SInv' /\ LedgerStep /\ OnlyRetryReopens /\ RetryWaits /\ ParentLast
<1> DEFINE Goal == SInv' /\ LedgerStep /\ OnlyRetryReopens /\ RetryWaits /\ ParentLast
<1>0. ASSUME Good, popup => popup', calls' = calls \/ ParentLast
      PROVE  Goal
  <2>1. OnlyRetryReopens
    BY <1>0 DEF Good, ResolvedStay, OnlyRetryReopens
  <2>2. RetryWaits
    BY <1>0 DEF RetryWaits
  <2>3. ParentLast
    BY <1>0, SessionTypes, Sessions DEF ParentLast
  <2> QED BY <1>0, <2>1, <2>2, <2>3 DEF Good
<1>1. ASSUME NEW p \in Processes, Begin(p) PROVE Goal
  <2>1. Good /\ calls' = calls /\ popup' = popup
    BY <1>1, BeginSound DEF Begin
  <2> QED BY <1>0, <2>1
<1>2. ASSUME NEW p \in Processes, HandleSession(p) PROVE Goal
  <2>1. Good
    BY <1>2, HandleSound
  <2>2. calls' = calls /\ popup' = popup
    <3>1. PICK s, t : \/ PassOver(p, s, t) \/ KeepFamily(p, s, t) \/ MarkRetained(p, s, t)
                      \/ Request(p, s, t) \/ Replay(p, s, t) \/ Interrupt(p, s, t)
      BY <1>2 DEF HandleSession
    <3>2. UNCHANGED world /\ UNCHANGED calls
      <4>1. CASE PassOver(p, s, t) \/ KeepFamily(p, s, t) \/ MarkRetained(p, s, t)
        BY <4>1 DEF PassOver, KeepFamily, MarkRetained
      <4>2. CASE Request(p, s, t) \/ Replay(p, s, t) \/ Interrupt(p, s, t)
        BY <4>2 DEF Request, Replay, Interrupt
      <4> QED BY <3>1, <4>1, <4>2
    <3> QED BY <3>2 DEF world
  <2> QED BY <1>0, <2>1, <2>2
<1>3. ASSUME NEW p \in Processes, Call(p) PROVE Goal
  BY <1>0, <1>3, CallSound
<1>4. ASSUME NEW p \in Processes, NEW result \in Result, Apply(p, result) PROVE Goal
  <2>1. Good
    BY <1>4, ApplySound
  <2>2. calls' = calls /\ popup' = popup
    BY <1>4 DEF Apply, world
  <2> QED BY <1>0, <2>1, <2>2
<1>5. ASSUME NEW p \in Processes, ExecutorDeletes(p) PROVE Goal
  BY <1>0, <1>5, DeletesSound
<1>6. ASSUME NEW p \in Processes, Crash(p) PROVE Goal
  BY <1>0, <1>6, CrashSound
<1>7. CASE Retry
  <2>1. SInv' /\ LedgerStep
    BY <1>7, RetrySound
  <2>2. RetryReady(task) /\ task'.status = "pending" /\ calls' = [s \in Session |-> 0]
    BY <1>7 DEF Retry
  <2>3. OnlyRetryReopens
    BY <2>2 DEF OnlyRetryReopens
  <2>4. RetryWaits
    BY <2>2, RetryAlone DEF RetryWaits
  <2>5. ParentLast
    <3>1. calls[Primary] \in Nat /\ calls'[Primary] = 0
      BY <2>2, SessionTypes, Sessions
    <3> QED BY <3>1 DEF ParentLast
  <2> QED BY <2>1, <2>3, <2>4, <2>5
<1>8. CASE Tick
  BY <1>0, <1>8, TickSound
<1>9. CASE Aside
  BY <1>0, <1>9, AsidesSound
<1>10. CASE UNCHANGED vars
  <2>1. /\ task' = task /\ calls' = calls /\ kind' = kind /\ popup' = popup
        /\ proc' = proc /\ lock' = lock /\ UNCHANGED Rest /\ Codex' = Codex
        /\ (Family' <=> Family)
    BY <1>10 DEF vars, world, Rest, Codex, Kept, Family
  <2>2. /\ \A x \in Session : ReceiptSound(x)'
        /\ LedgerStep /\ ResolvedStay
    BY <2>1, SameReceipts
  <2>3. \A q \in Processes : PassSound(q)'
    BY <2>1 DEF SInv, PassSound, OnList, Carried, Renewed, AuxDeleted
  <2>4. SInv'
    BY <2>1, <2>2, <2>3, Assembles DEF SInv, TInv
  <2> QED BY <1>0, <2>1, <2>2, <2>4 DEF Good
<1> QED BY <1>1, <1>2, <1>3, <1>4, <1>5, <1>6, <1>7, <1>8, <1>9, <1>10 DEF Step

LEMMA StepKind ==
    ASSUME Step
    PROVE  kind' = kind
<1>1. ASSUME NEW p \in Processes, Begin(p) \/ Call(p) \/ ExecutorDeletes(p) \/ Crash(p)
      PROVE  kind' = kind
  BY <1>1 DEF Begin, BeginPass, Call, ExecutorDeletes, Crash, world
<1>2. ASSUME NEW p \in Processes, HandleSession(p)
      PROVE  kind' = kind
  <2>1. PICK s, t : \/ PassOver(p, s, t) \/ KeepFamily(p, s, t) \/ MarkRetained(p, s, t)
                    \/ Request(p, s, t) \/ Replay(p, s, t) \/ Interrupt(p, s, t)
    BY <1>2 DEF HandleSession
  <2>2. CASE PassOver(p, s, t) \/ KeepFamily(p, s, t) \/ MarkRetained(p, s, t)
    BY <2>2 DEF PassOver, KeepFamily, MarkRetained, world
  <2>3. CASE Request(p, s, t) \/ Replay(p, s, t) \/ Interrupt(p, s, t)
    BY <2>3 DEF Request, Replay, Interrupt, world
  <2> QED BY <2>1, <2>2, <2>3
<1>3. ASSUME NEW p \in Processes, NEW result \in Result, Apply(p, result)
      PROVE  kind' = kind
  BY <1>3 DEF Apply, world
<1>4. CASE Retry \/ Tick
  BY <1>4 DEF Retry, Tick, world
<1>5. CASE Aside
  BY <1>5 DEF Aside, EndRun, Requeue, ClaimTask, OpenLease, ShowDialog, RouteStep, world
<1>6. CASE UNCHANGED vars
  BY <1>6 DEF vars
<1> QED BY <1>1, <1>2, <1>3, <1>4, <1>5, <1>6 DEF Step

-----------------------------------------------------------------------------
(* The steps of the two specifications.                                    *)

\* What SInv says, and that the answer of the call under way is one.
CInv == SInv /\ exec.answer \in Result

LEMMA InitReceipts ==
    ASSUME task.receipt = [s \in Session |-> NewReceipt], calls = [s \in Session |-> 0]
    PROVE  \A s \in Session : ReceiptSound(s)
BY Sessions DEF ReceiptSound, NewReceipt, Resolved, ResolvedStates

LEMMA InitSInv ==
    ASSUME Init \/ InitFollowed
    PROVE  SInv
<1>1. /\ task \in TaskRecord /\ task.receipt = [s \in Session |-> NewReceipt]
      /\ calls = [s \in Session |-> 0] /\ proc = [p \in Processes |-> Idle]
      /\ kind \in Kinds \cup Followed
  <2>1. /\ \/ task = [status |-> "running", shown |-> FALSE,
                       receipt |-> [s \in Session |-> NewReceipt]]
           \/ task = [status |-> "completed", shown |-> TRUE,
                       receipt |-> [s \in Session |-> NewReceipt]]
        /\ calls = [s \in Session |-> 0] /\ proc = [p \in Processes |-> Idle]
        /\ kind \in Kinds \cup Followed
    <3>1. CASE Init
      BY <3>1 DEF Init
    <3>2. CASE InitFollowed
      BY <3>2 DEF InitFollowed
    <3> QED BY <3>1, <3>2
  <2>2. [s \in Session |-> NewReceipt] \in [Session -> Receipt]
    BY NewTypes
  <2>3. \A st \in Status, b \in BOOLEAN, rc \in [Session -> Receipt] :
            LET t == [status |-> st, shown |-> b, receipt |-> rc]
            IN  t \in TaskRecord /\ t.receipt = rc
    BY DEF TaskRecord
  <2>4. "running" \in Status /\ "completed" \in Status
    BY DEF Status, Ended
  <2>5. task \in TaskRecord /\ task.receipt = [s \in Session |-> NewReceipt]
    BY <2>1, <2>2, <2>3, <2>4, ZenonT(40)
  <2> QED BY <2>1, <2>5
<1>2. \A s \in Session : ReceiptSound(s)
  BY <1>1, InitReceipts
<1>3. \A p \in Processes : PassSound(p)
  BY <1>1 DEF PassSound, Idle
<1>4. kind \in [codex : SUBSET Session, keep : SUBSET Session]
  <2>1. CASE kind \in Kinds
    BY <2>1, CleanupAssumption
  <2>2. CASE kind \in Followed
    <3>1. kind \in [codex : {Session}, keep : SUBSET Session]
      BY <2>2, FollowedAssumption
    <3> QED BY <3>1
  <2> QED BY <1>1, <2>1, <2>2
<1>5. proc \in [Processes -> Passes] /\ calls \in [Session -> Nat]
  BY <1>1, NewTypes
<1>6. /\ lease \in {"open", "closed"} /\ popup \in BOOLEAN /\ route \in BOOLEAN
      /\ lock = NoProcess /\ gone = {} /\ run = 1 /\ crashes = 0 /\ acks = 0
  BY DEF Init, InitFollowed
<1>7. TInv
  BY <1>1, <1>4, <1>5, <1>6 DEF TInv
<1> QED BY <1>2, <1>3, <1>7 DEF SInv

\* A step of SessionCleanup is a Step.
LEMMA NextIsStep ==
    ASSUME SInv, Next
    PROVE  Step
<1>1. ASSUME NEW p \in Processes, PassStep(p) PROVE Step
  BY <1>1 DEF PassStep, Answer, Step
<1>2. CASE RunStep
  BY <1>2 DEF RunStep, Step, Aside
<1>3. CASE RouteChanges
  <2>1. RouteStep
    BY <1>3 DEF RouteChanges, RouteStep, SInv, TInv
  <2> QED BY <2>1 DEF Step, Aside
<1>4. CASE ShowDialog
  BY <1>4 DEF Step, Aside
<1>5. CASE Tick
  BY <1>5 DEF Step
<1>6. ASSUME NEW p \in Processes, Begin(p) \/ ExecutorDeletes(p) \/ Crash(p) PROVE Step
  BY <1>6 DEF Step
<1> QED BY <1>1, <1>2, <1>3, <1>4, <1>5, <1>6 DEF Next

LEMMA Answers ==
    /\ Succeeded \in Result /\ NoAnswer \in Result /\ Lost \in Result /\ DeleteFailed \in Result
    /\ \A b \in BOOLEAN, e \in Error \ {"none"} : Failed(b, e) \in Result
    /\ \A cli : Judge(cli) \in Result
<1>1. \A b \in BOOLEAN, e \in Error \ {"none"} : Failed(b, e) \in Result
  BY DEF Failed, Result
<1>2. Succeeded \in Result
  BY DEF Succeeded, Result
<1>3. {"desktop", "scope", "other"} \subseteq Error \ {"none"}
  BY DEF Error
<1>4. Failed(TRUE, "other") \in Result /\ Failed(FALSE, "other") \in Result
      /\ Failed(FALSE, "desktop") \in Result
  BY <1>1, <1>3
<1>5. NoAnswer \in Result /\ Lost \in Result
  BY <1>4 DEF NoAnswer, Lost
<1>6. DeleteFailed \in Result
  BY <1>4 DEF DeleteFailed
<1>7. \A cli : Judge(cli) \in Result
  BY <1>2, <1>4 DEF Judge
<1> QED BY <1>1, <1>2, <1>5, <1>6, <1>7

BrokerStep ==
    /\ UNCHANGED <<task, lease, popup, lock, proc, gone, run, kind, crashes, acks, calls>>
    /\ route' \in BOOLEAN
    /\ exec'.answer \in Result

LEMMA GoesAndTells ==
    /\ \A step : GoTo(step) => exec'.answer \in Result
    /\ \A answer \in Result : Tell(answer) => exec'.answer \in Result
    /\ \A answer : AfterDesktop(answer) => exec'.answer \in Result
<1>1. \A step : GoTo(step) => exec'.answer \in Result
  BY Answers DEF GoTo
<1>2. \A answer \in Result : Tell(answer) => exec'.answer \in Result
  BY DEF Tell
<1>3. Failed(TRUE, "other") \in Result /\ Failed(TRUE, "desktop") \in Result
  BY Answers DEF Error
<1>4. \A answer : AfterDesktop(answer) => exec'.answer \in Result
  BY <1>1, <1>2, <1>3 DEF AfterDesktop
<1> QED BY <1>1, <1>2, <1>4

\* Every step inside a call leaves the record, the passes and the lock alone.
LEMMA InsideAside ==
    ASSUME CInv, NEW p \in Processes,
           \/ AskDesktop(p) \/ CheckScope(p) \/ Connect(p) \/ ArchiveOnServer(p)
           \/ AnswerDelete(p) \/ ReadBack(p)
    PROVE  BrokerStep
<1>1. \A b : SetBroker(b) => route' \in BOOLEAN
  BY DEF SetBroker, Available
<1>2. ASSUME NEW s, ArchiveOnRoute(s)
      PROVE  route' \in BOOLEAN /\ exec'.answer \in Result
  BY <1>1, <1>2, GoesAndTells DEF ArchiveOnRoute, LoseRoute, Remember
<1>3. route \in BOOLEAN
  BY DEF CInv, SInv, TInv
<1>4. CASE AskDesktop(p)
  <2>1. UNCHANGED <<task, lease, popup, lock, proc, gone, run, kind, crashes, acks, calls>>
    BY <1>4 DEF AskDesktop
  <2>2. route' \in BOOLEAN /\ exec'.answer \in Result
    BY <1>2, <1>3, <1>4, GoesAndTells DEF AskDesktop
  <2> QED BY <2>1, <2>2 DEF BrokerStep
<1>5. CASE CheckScope(p) \/ Connect(p)
  <2>1. Failed(FALSE, "scope") \in Result
    BY Answers DEF Error
  <2>2. UNCHANGED vars /\ exec'.answer \in Result
    BY <1>5, <2>1, Answers, GoesAndTells DEF CheckScope, Connect
  <2> QED BY <1>3, <2>2 DEF BrokerStep, vars
<1>6. CASE ArchiveOnServer(p)
  <2>1. Failed(FALSE, "other") \in Result
    BY Answers DEF Error
  <2>2. UNCHANGED vars /\ exec'.answer \in Result
    BY <1>6, <2>1, Answers, GoesAndTells DEF ArchiveOnServer
  <2> QED BY <1>3, <2>2 DEF BrokerStep, vars
<1>7. CASE AnswerDelete(p) \/ ReadBack(p)
  <2>1. UNCHANGED vars /\ exec'.answer \in Result
    BY <1>7, Answers, GoesAndTells DEF AnswerDelete, ReadBack
  <2> QED BY <1>3, <2>1 DEF BrokerStep, vars
<1> QED BY <1>4, <1>5, <1>6, <1>7

LEMMA CodexNextIsStep ==
    ASSUME CInv, [CodexNext]_codexVars
    PROVE  Step /\ exec'.answer \in Result
<1>1. exec.answer \in Result /\ NoExec.answer \in Result
  BY Answers DEF CInv, NoExec
<1>2. ASSUME BrokerStep PROVE Step /\ exec'.answer \in Result
  BY <1>2 DEF BrokerStep, Step, Aside, RouteStep
<1>3. ASSUME NEW p \in Processes, StepFollowed(p) PROVE Step /\ exec'.answer \in Result
  <2>1. CASE HandleFollowed(p)
    BY <1>1, <2>1 DEF HandleFollowed, inside, Step
  <2>2. CASE CallFollowed(p)
    BY <1>1, <2>2, GoesAndTells DEF CallFollowed, Step
  <2>3. CASE ApplyFollowed(p)
    BY <1>1, <2>3 DEF ApplyFollowed, Step
  <2>4. CASE \/ AskDesktop(p) \/ CheckScope(p) \/ Connect(p) \/ ArchiveOnServer(p)
             \/ AnswerDelete(p) \/ ReadBack(p)
    BY <1>2, <2>4, InsideAside
  <2> QED BY <1>3, <2>1, <2>2, <2>3, <2>4 DEF StepFollowed
<1>4. ASSUME NEW p \in Processes, NEW m \in Mode, NEW a \in Session \cup {NoSession},
             BeginFollowed(p, m, a)
      PROVE  Step /\ exec'.answer \in Result
  BY <1>1, <1>4 DEF BeginFollowed, Begin, Step
<1>5. ASSUME NEW p \in Processes, ServerDeletes(p) PROVE Step /\ exec'.answer \in Result
  BY <1>1, <1>5 DEF ServerDeletes, inside, Step
<1>6. ASSUME NEW p \in Processes, CrashFollowed(p) PROVE Step /\ exec'.answer \in Result
  BY <1>1, <1>6 DEF CrashFollowed, Step
<1>7. ASSUME NEW p \in Processes, NEW c \in Capability, Register(p, c)
      PROVE  Step /\ exec'.answer \in Result
  <2>1. BrokerStep
    BY <1>1, <1>7 DEF Register, SetBroker, Available, BrokerStep
  <2> QED BY <1>2, <2>1
<1>8. CASE Tick /\ UNCHANGED inside
  BY <1>1, <1>8 DEF inside, Step
<1>9. CASE Next /\ UNCHANGED inside
  BY <1>1, <1>9, NextIsStep DEF inside, CInv
<1>10. CASE UNCHANGED codexVars
  BY <1>1, <1>10 DEF codexVars, inside, Step
<1>11. CASE NextFollowed
  BY <1>3, <1>4, <1>5, <1>6, <1>7, <1>8, <1>11 DEF NextFollowed
<1> QED BY <1>9, <1>10, <1>11 DEF CodexNext

-----------------------------------------------------------------------------
(* What a deletion rests on, in the tasks whose calls are followed inside. *)

Broker == [capability : Capability, results : [Session -> Cached]]

\* How far the call of a process has come.
CallEarned(p) ==
    LET s == proc[p].target IN
    /\ exec.at = "connect" /\ ~Container => s \in archived
    /\ exec.at = "delete" => s \in archived
    /\ exec.at = "told" /\ exec.answer.state = "succeeded" => s \in gone

PassEarned(p) ==
    /\ proc[p].pc # "idle" /\ proc[p].mode = "ack" => proc[p].ack \in archived
    /\ proc[p].pc = "calling" => CallEarned(p)

Earned ==
    /\ broker \in Broker
    /\ \A s \in Session : broker.results[s] = "acknowledged" => s \in archived
    /\ Parked => Primary \in archived
    /\ \A s \in Session : Deleted(task.receipt[s]) => s \in gone
    /\ \A p \in Processes : PassEarned(p)

EInv == CInv /\ (opened => Earned)

\* A step inside the call of p.
LEMMA InCall ==
    ASSUME CInv, Earned, NEW p \in Processes, proc[p].pc = "calling",
           UNCHANGED <<task, proc, gone>>, archived \subseteq archived',
           broker' \in Broker,
           \A s \in Session : broker'.results[s] = "acknowledged" => s \in archived',
           CallEarned(p)'
    PROVE  Earned'
<1>1. proc' = proc /\ task' = task /\ gone' = gone
  OBVIOUS
<1>2. \A q \in Processes \ {p} : proc[q].pc = "idle"
  BY PassAlone DEF CInv
<1>3. \A q \in Processes : PassEarned(q)'
  <2>1. PassEarned(p)'
    BY <1>1 DEF Earned, PassEarned
  <2>2. \A q \in Processes \ {p} : PassEarned(q)'
    BY <1>1, <1>2 DEF PassEarned
  <2> QED BY <2>1, <2>2
<1> QED BY <1>1, <1>3 DEF Earned

LEMMA TellsFailure ==
    /\ \A b, e : Tell(Failed(b, e)) =>
           exec'.at = "told" /\ exec'.answer.state = "failed"
    /\ Tell(Lost) \/ Tell(DeleteFailed) =>
           exec'.at = "told" /\ exec'.answer.state = "failed"
BY DEF Tell, Failed, Lost, DeleteFailed

LEMMA GoesTo == \A step : GoTo(step) => exec'.at = step
BY DEF GoTo

\* Only an acknowledgement lets the call go on to the server.
LEMMA AskEarned ==
    ASSUME CInv, Earned, NEW p \in Processes, AskDesktop(p)
    PROVE  Earned'
<1>1. PICK s \in Session : s = proc[p].target
  BY DEF AskDesktop, Inside, CInv, SInv, PassSound
<1>2. /\ proc[p].pc = "calling" /\ ~Container
      /\ UNCHANGED <<task, proc, gone>>
  BY DEF AskDesktop, Inside
<1>3. \A answer : AfterDesktop(answer) /\ (answer = "acknowledged" => s \in archived')
                      => CallEarned(p)'
  <2> SUFFICES ASSUME NEW answer, AfterDesktop(answer),
                      answer = "acknowledged" => s \in archived'
               PROVE  CallEarned(p)'
    OBVIOUS
  <2>1. CASE answer = "acknowledged"
    <3>1. exec'.at = "connect"
      BY <2>1, GoesTo DEF AfterDesktop
    <3> QED BY <1>1, <1>2, <2>1, <3>1 DEF CallEarned
  <2>2. CASE answer # "acknowledged"
    <3>1. exec'.at = "told" /\ exec'.answer.state = "failed"
      BY <2>2, TellsFailure DEF AfterDesktop
    <3> QED BY <3>1 DEF CallEarned
  <2> QED BY <2>1, <2>2
<1>4. broker \in Broker
  BY DEF Earned
<1>5. ASSUME NEW answer, AfterDesktop(answer), UNCHANGED <<archived, broker, route>>,
             answer = "acknowledged" => s \in archived
      PROVE  Earned'
  <2>1. CallEarned(p)'
    BY <1>3, <1>5
  <2> QED BY <1>2, <1>5, <2>1, InCall DEF Earned
<1>6. CASE proc[p].mode = "ack"
  <2>1. /\ AfterDesktop(AcknowledgedAnswer(p, s)) /\ UNCHANGED <<archived, broker, route>>
    BY <1>1, <1>6 DEF AskDesktop
  <2>2. proc[p].ack \in archived
    BY <1>2, <1>6 DEF Earned, PassEarned
  <2>3. AcknowledgedAnswer(p, s) = "acknowledged" => s \in archived
    BY <2>2 DEF AcknowledgedAnswer
  <2> QED BY <1>5, <2>1, <2>3
<1>7. CASE proc[p].mode # "ack" /\ broker.results[s] # "none"
  <2>1. AfterDesktop(broker.results[s]) /\ UNCHANGED <<archived, broker, route>>
    BY <1>1, <1>7 DEF AskDesktop
  <2>2. broker.results[s] = "acknowledged" => s \in archived
    BY <1>1 DEF Earned
  <2> QED BY <1>5, <2>1, <2>2
<1>8. CASE proc[p].mode # "ack" /\ broker.results[s] = "none"
  <2>1. ArchiveOnRoute(s)
    BY <1>1, <1>8 DEF AskDesktop
  <2>2. ASSUME NEW answer \in Cached \ {"none"}, NEW c \in Capability, Remember(s, answer, c),
               AfterDesktop(answer), archived \subseteq archived',
               answer = "acknowledged" => s \in archived'
        PROVE  Earned'
    <3> DEFINE b == [broker EXCEPT !.capability = c]
    <3>1. b \in Broker /\ b.results = broker.results
      BY <1>4, <2>2 DEF Broker
    <3>2. broker' = [b EXCEPT !.results[s] = answer]
      BY <2>2 DEF Remember, SetBroker
    <3> HIDE DEF b
    <3>3. broker' \in Broker /\ broker'.results = [broker.results EXCEPT ![s] = answer]
      BY <1>1, <2>2, <3>1, <3>2 DEF Broker
    <3>4. broker.results \in [Session -> Cached]
      BY <1>4 DEF Broker
    <3>5. \A x \in Session : broker'.results[x] = "acknowledged" => x \in archived'
      BY <1>1, <2>2, <3>3, <3>4 DEF Earned
    <3>6. CallEarned(p)'
      BY <1>3, <2>2
    <3> QED BY <1>2, <2>2, <3>3, <3>5, <3>6, InCall
  <2>3. broker.capability \in Capability
    BY <1>4 DEF Broker
  <2>4. CASE LoseRoute(s)
    <3>1. AfterDesktop("lost") /\ archived \subseteq archived'
          /\ broker' = [broker EXCEPT !.capability = "unknown"]
      BY <2>4 DEF LoseRoute, SetBroker
    <3>2. broker' \in Broker /\ broker'.results = broker.results
      BY <1>4, <3>1 DEF Broker, Capability
    <3>3. CallEarned(p)'
      BY <1>3, <3>1
    <3>4. \A x \in Session : broker'.results[x] = "acknowledged" => x \in archived'
      BY <3>1, <3>2 DEF Earned
    <3> QED BY <1>2, <3>1, <3>2, <3>3, <3>4, InCall
  <2>5. {"unsupported", "rejected", "acknowledged"} \subseteq Cached \ {"none"}
        /\ {"unsupported", "supported"} \subseteq Capability
    BY DEF Cached, Capability
  <2>6. CASE Remember(s, "unsupported", "unsupported") /\ AfterDesktop("unsupported")
             /\ UNCHANGED archived
    BY <2>2, <2>5, <2>6
  <2>7. CASE Remember(s, "rejected", broker.capability) /\ AfterDesktop("rejected")
             /\ UNCHANGED archived
    BY <2>2, <2>3, <2>5, <2>7
  <2>8. CASE Remember(s, "acknowledged", "supported") /\ AfterDesktop("acknowledged")
             /\ archived' = archived \cup {s}
    BY <2>2, <2>5, <2>8
  <2> QED BY <2>1, <2>4, <2>6, <2>7, <2>8 DEF ArchiveOnRoute
<1> QED BY <1>6, <1>7, <1>8

\* A step inside the call that asks no Desktop.
LEMMA ServerEarned ==
    ASSUME CInv, Earned, NEW p \in Processes,
           \/ CheckScope(p) \/ Connect(p) \/ ArchiveOnServer(p)
           \/ AnswerDelete(p) \/ ReadBack(p)
    PROVE  Earned'
<1>1. proc[p].pc = "calling" /\ UNCHANGED <<task, proc, gone, broker>>
  <2>1. CASE CheckScope(p) \/ Connect(p)
    BY <2>1 DEF CheckScope, Connect, Inside, vars
  <2>2. CASE ArchiveOnServer(p)
    BY <2>2 DEF ArchiveOnServer, Inside, vars
  <2>3. CASE AnswerDelete(p) \/ ReadBack(p)
    BY <2>3 DEF AnswerDelete, ReadBack, Inside, vars
  <2> QED BY <2>1, <2>2, <2>3
<1>2. PICK s \in Session : s = proc[p].target
  BY <1>1 DEF CInv, SInv, PassSound
<1>3. CallEarned(p)
  BY <1>1 DEF Earned, PassEarned
<1>4. ASSUME archived \subseteq archived', CallEarned(p)'
      PROVE  Earned'
  <2>1. /\ broker' \in Broker
        /\ \A x \in Session : broker'.results[x] = "acknowledged" => x \in archived'
    BY <1>1, <1>4 DEF Earned
  <2> QED BY <1>1, <1>4, <2>1, InCall
<1>5. ASSUME exec'.at = "told", exec'.answer.state = "failed"
      PROVE  CallEarned(p)'
  BY <1>5 DEF CallEarned
<1>6. CASE CheckScope(p)
  <2>1. Container /\ archived' = archived
        /\ (GoTo("connect") \/ Tell(Failed(FALSE, "scope")))
    BY <1>6 DEF CheckScope
  <2>2. CASE GoTo("connect")
    BY <1>4, <2>1, <2>2, GoesTo DEF CallEarned
  <2>3. CASE Tell(Failed(FALSE, "scope"))
    BY <1>4, <1>5, <2>1, <2>3, TellsFailure
  <2> QED BY <2>1, <2>2, <2>3
<1>7. CASE Connect(p)
  <2>1. archived' = archived /\ exec.at = "connect"
        /\ \/ GoTo(IF Prearchived(p) THEN "delete" ELSE "gate")
           \/ Tell(Lost) \/ Tell(DeleteFailed)
    BY <1>7 DEF Connect, Inside
  <2>2. CASE GoTo(IF Prearchived(p) THEN "delete" ELSE "gate")
    <3>1. CASE Prearchived(p)
      <4>1. exec'.at = "delete"
        BY <2>2, <3>1, GoesTo
      <4>2. s \in archived
        BY <1>2, <1>3, <2>1, <3>1 DEF Prearchived, CallEarned, Earned
      <4>3. CallEarned(p)'
        BY <1>1, <1>2, <2>1, <4>1, <4>2 DEF CallEarned
      <4> QED BY <1>4, <2>1, <4>3
    <3>2. CASE ~Prearchived(p)
      <4>1. exec'.at = "gate"
        BY <2>2, <3>2, GoesTo
      <4>2. CallEarned(p)'
        BY <4>1 DEF CallEarned
      <4> QED BY <1>4, <2>1, <4>2
    <3> QED BY <3>1, <3>2
  <2>3. CASE Tell(Lost) \/ Tell(DeleteFailed)
    BY <1>4, <1>5, <2>1, <2>3, TellsFailure
  <2> QED BY <2>1, <2>2, <2>3
<1>8. CASE ArchiveOnServer(p)
  <2>1. \/ archived' = archived \cup {s} /\ GoTo("delete")
        \/ archived' \in {archived, archived \cup ({s} \ gone)} /\ Tell(Lost)
        \/ archived' = archived /\ Tell(Failed(FALSE, "other"))
    BY <1>2, <1>8 DEF ArchiveOnServer
  <2>2. CASE archived' = archived \cup {s} /\ GoTo("delete")
    <3>1. exec'.at = "delete"
      BY <2>2, GoesTo
    <3>2. CallEarned(p)'
      BY <1>1, <1>2, <2>2, <3>1 DEF CallEarned
    <3> QED BY <1>4, <2>2, <3>2
  <2>3. CASE archived' \in {archived, archived \cup ({s} \ gone)} /\ Tell(Lost)
    BY <1>4, <1>5, <2>3, TellsFailure
  <2>4. CASE archived' = archived /\ Tell(Failed(FALSE, "other"))
    BY <1>4, <1>5, <2>4, TellsFailure
  <2> QED BY <2>1, <2>2, <2>3, <2>4
<1>9. CASE AnswerDelete(p)
  <2>1. archived' = archived /\ (GoTo("read") \/ Tell(Lost))
    BY <1>9 DEF AnswerDelete
  <2>2. CASE GoTo("read")
    BY <1>4, <2>1, <2>2, GoesTo DEF CallEarned
  <2>3. CASE Tell(Lost)
    BY <1>4, <1>5, <2>1, <2>3, TellsFailure
  <2> QED BY <2>1, <2>2, <2>3
<1>10. CASE ReadBack(p)
  <2>1. archived' = archived
        /\ \/ Tell(Judge(IF s \in gone THEN "absent" ELSE "present"))
           \/ Tell(Lost) \/ Tell(DeleteFailed)
    BY <1>2, <1>10 DEF ReadBack
  <2>2. CASE Tell(Judge(IF s \in gone THEN "absent" ELSE "present"))
    <3>1. CASE s \in gone
      <4>1. exec'.at = "told"
        BY <2>2 DEF Tell
      <4>2. CallEarned(p)'
        BY <1>1, <1>2, <3>1, <4>1 DEF CallEarned
      <4> QED BY <1>4, <2>1, <4>2
    <3>2. CASE s \notin gone
      <4>1. exec'.at = "told" /\ exec'.answer.state = "failed"
        BY <2>2, <3>2 DEF Tell, Judge, Failed
      <4> QED BY <1>4, <1>5, <2>1, <4>1
    <3> QED BY <3>1, <3>2
  <2>3. CASE Tell(Lost) \/ Tell(DeleteFailed)
    BY <1>4, <1>5, <2>1, <2>3, TellsFailure
  <2> QED BY <2>1, <2>2, <2>3
<1> QED BY <1>6, <1>7, <1>8, <1>9, <1>10

\* A pass writes "succeeded" for no session but the one the executor answered for.
LEMMA HandleDeletesNothing ==
    ASSUME SInv, NEW p \in Processes, HandleSession(p), NEW x \in Session,
           Deleted(task'.receipt[x])
    PROVE  Deleted(task.receipt[x])
<1>1. PICK s, t : \/ PassOver(p, s, t) \/ KeepFamily(p, s, t) \/ MarkRetained(p, s, t)
                  \/ Request(p, s, t) \/ Replay(p, s, t) \/ Interrupt(p, s, t)
  BY DEF HandleSession
<1>2. ASSUME NEW new \in Receipt, task' = WithReceipt(t, s, new), new.state # "succeeded",
             At(p, s, t), ~Resolved(t.receipt[s])
      PROVE  Deleted(task.receipt[x])
  <2>1. Coming(p, s, t) /\ t.receipt = task.receipt
    BY <1>2, Comes
  <2>2. s \in Session /\ t \in TaskRecord
    BY <2>1 DEF Coming
  <2>3. task'.receipt = [task.receipt EXCEPT ![s] = new]
    BY <1>2, <2>1, <2>2, WithType
  <2> QED BY <1>2, <2>2, <2>3, SessionTypes DEF Deleted
<1>3. CASE PassOver(p, s, t) \/ KeepFamily(p, s, t) \/ Replay(p, s, t)
  <2>1. task' = task
    BY <1>3 DEF PassOver, KeepFamily, Replay
  <2> QED BY <2>1
<1>4. ASSUME At(p, s, t), ~Resolved(t.receipt[s])
      PROVE  t.receipt[s] \in Receipt
  BY <1>4, Comes, ReceiptAt
<1>5. CASE MarkRetained(p, s, t)
  <2>1. /\ At(p, s, t) /\ ~Resolved(t.receipt[s])
        /\ task' = WithReceipt(t, s, ToResolved(t.receipt[s], "retained"))
    BY <1>5 DEF MarkRetained, Persist, Resolved, ResolvedStates
  <2>2. "retained" \in ResolvedStates
    BY DEF ResolvedStates
  <2> QED BY <1>2, <1>4, <2>1, <2>2, ResolvedReceipt
<1>6. CASE Request(p, s, t)
  <2>1. /\ At(p, s, t) /\ ~Resolved(t.receipt[s])
        /\ task' = WithReceipt(t, s, ToPending(t.receipt[s]))
    BY <1>6 DEF Request, Persist, Resolved, ResolvedStates
  <2> QED BY <1>2, <1>4, <2>1, PendingReceipt
<1>7. CASE Interrupt(p, s, t)
  <2>1. /\ At(p, s, t) /\ ~Resolved(t.receipt[s])
        /\ task' = WithReceipt(t, s, ToFailed(t.receipt[s], TRUE, "other"))
    BY <1>7 DEF Interrupt, Persist, Resolved, ResolvedStates
  <2>2. PICK b \in BOOLEAN, e \in Error : b = TRUE /\ e = "other"
    BY DEF Error
  <2>3. task' = WithReceipt(t, s, ToFailed(t.receipt[s], b, e))
    BY <2>1, <2>2
  <2> QED BY <1>2, <1>4, <2>1, <2>3, FailedReceipt
<1> QED BY <1>1, <1>3, <1>5, <1>6, <1>7

\* A step after which nobody is inside a call.
LEMMA OutsideEarned ==
    ASSUME Earned, gone \subseteq gone', archived \subseteq archived', broker' \in Broker,
           \A s \in Session : broker'.results[s] = "acknowledged" => s \in archived',
           \A s \in Session : Deleted(task'.receipt[s]) => s \in gone',
           \A q \in Processes : proc'[q].pc # "calling",
           \A q \in Processes : proc'[q].pc # "idle" /\ proc'[q].mode = "ack"
                                    => proc'[q].ack \in archived'
    PROVE  Earned'
<1>1. \A q \in Processes : PassEarned(q)'
  BY DEF PassEarned
<1>2. Parked => Primary \in archived'
  BY DEF Earned
<1> QED BY <1>1, <1>2 DEF Earned

LEMMA KeepsEarned ==
    ASSUME Earned, NEW p \in Processes, proc[p].pc # "idle", Keeps(p),
           UNCHANGED <<gone, archived, broker>>,
           \A s \in Session : Deleted(task'.receipt[s]) => s \in gone
    PROVE  Earned'
<1>1. \A q \in Processes : proc'[q].pc # "calling"
  BY DEF Keeps
<1>2. \A q \in Processes : proc'[q].pc # "idle" /\ proc'[q].mode = "ack"
                               => proc'[q].ack \in archived'
  BY DEF Keeps, Earned, PassEarned
<1> QED BY <1>1, <1>2, OutsideEarned DEF Earned

LEMMA HandleEarned ==
    ASSUME CInv, Earned, NEW p \in Processes, HandleFollowed(p)
    PROVE  Earned'
<1>1. HandleSession(p) /\ UNCHANGED <<archived, broker>>
  BY DEF HandleFollowed, inside
<1>2. Keeps(p)
  BY <1>1, HandleSound DEF CInv
<1>3. PICK s, t : \/ PassOver(p, s, t) \/ KeepFamily(p, s, t) \/ MarkRetained(p, s, t)
                  \/ Request(p, s, t) \/ Replay(p, s, t) \/ Interrupt(p, s, t)
  BY <1>1 DEF HandleSession
<1>4. gone' = gone /\ proc[p].pc # "idle"
  <2>1. CASE PassOver(p, s, t) \/ KeepFamily(p, s, t) \/ MarkRetained(p, s, t)
    BY <2>1 DEF PassOver, KeepFamily, MarkRetained, At
  <2>2. CASE Request(p, s, t) \/ Replay(p, s, t) \/ Interrupt(p, s, t)
    BY <2>2 DEF Request, Replay, Interrupt, At
  <2> QED BY <1>3, <2>1, <2>2
<1>5. \A x \in Session : Deleted(task'.receipt[x]) => x \in gone
  BY <1>1, HandleDeletesNothing DEF CInv, Earned
<1> QED BY <1>1, <1>2, <1>4, <1>5, KeepsEarned

LEMMA CallEarns ==
    ASSUME CInv, Earned, NEW p \in Processes, CallFollowed(p)
    PROVE  Earned'
<1>1. /\ proc[p].pc = "requested" /\ task' = task /\ gone' = gone
      /\ UNCHANGED <<archived, broker>>
      /\ \/ Finish(p)
         \/ proc' = [proc EXCEPT ![p].pc = "calling"]
      /\ proc'[p].pc = "calling" => GoTo("archive")
  BY DEF CallFollowed, Call
<1>2. CASE Finish(p)
  <2>1. Keeps(p)
    BY <1>1, <1>2, Ends DEF CInv
  <2> QED BY <1>1, <2>1, KeepsEarned DEF Earned
<1>3. CASE proc' = [proc EXCEPT ![p].pc = "calling"]
  <2>1. /\ proc'[p].pc = "calling"
        /\ proc'[p].mode = proc[p].mode /\ proc'[p].ack = proc[p].ack
        /\ \A q \in Processes \ {p} : proc'[q] = proc[q]
    BY <1>3 DEF CInv, SInv, TInv, Passes
  <2>2. exec'.at = "archive"
    BY <1>1, <2>1, GoesTo
  <2>3. PassEarned(p)'
    BY <1>1, <2>1, <2>2 DEF PassEarned, CallEarned, Earned
  <2>4. \A q \in Processes \ {p} : PassEarned(q)'
    BY <1>1, <2>1, PassAlone DEF CInv, PassEarned
  <2> QED BY <1>1, <2>3, <2>4 DEF Earned
<1> QED BY <1>1, <1>2, <1>3

LEMMA ApplyEarned ==
    ASSUME CInv, Earned, NEW p \in Processes, ApplyFollowed(p)
    PROVE  Earned'
<1>1. /\ exec.at = "told" /\ Apply(p, exec.answer) /\ UNCHANGED <<archived, broker>>
      /\ proc[p].pc = "calling" /\ exec.answer \in Result
  BY DEF ApplyFollowed, Inside, CInv
<1>2. Keeps(p) /\ gone' = gone
  BY <1>1, ApplySound DEF CInv, Apply
<1>3. PICK s, t, new : /\ s = proc[p].target
                       /\ t = IF s = Primary THEN task ELSE proc[p].snap
                       /\ new = Settle(t.receipt[s], exec.answer)
  OBVIOUS
<1>4. task' = task \/ task' = WithReceipt(t, s, new)
  BY <1>1, <1>3 DEF Apply, Persist
<1>5. /\ PassSound(p) /\ proc[p] \in Passes /\ task \in TaskRecord
  BY <1>1, PassAlone DEF CInv, SInv, TInv
<1>6. /\ s \in Session /\ t \in TaskRecord /\ t.receipt = task.receipt
      /\ t.receipt[s] \in Receipt
  BY <1>1, <1>3, <1>5, SessionTypes DEF CInv, PassSound, Passes
<1>7. new \in Receipt /\ new.state = exec.answer.state
  BY <1>1, <1>3, <1>6, SettledReceipt
<1>8. exec.answer.state = "succeeded" => s \in gone
  BY <1>1, <1>3 DEF Earned, PassEarned, CallEarned
<1>9. ASSUME NEW x \in Session, Deleted(task'.receipt[x]) PROVE x \in gone
  <2>1. CASE task' = task
    BY <1>9, <2>1 DEF Earned
  <2>2. CASE task' = WithReceipt(t, s, new)
    <3>1. task'.receipt = [task.receipt EXCEPT ![s] = new]
      BY <1>6, <1>7, <2>2, WithType
    <3> QED BY <1>6, <1>7, <1>8, <1>9, <3>1, SessionTypes DEF CInv, Earned, Deleted
  <2> QED BY <1>4, <2>1, <2>2
<1> QED BY <1>1, <1>2, <1>9, KeepsEarned

LEMMA FreshBroker ==
    ASSUME NEW c \in Capability
    PROVE  /\ Fresh(c) \in Broker
           /\ \A s \in Session : Fresh(c).results[s] # "acknowledged"
BY DEF Fresh, Broker, Cached

\* An acknowledgement says that its session was archived.
LEMMA BeginEarned ==
    ASSUME CInv, Earned, NEW p \in Processes, NEW m \in Mode,
           NEW a \in Session \cup {NoSession}, BeginFollowed(p, m, a)
    PROVE  Earned'
<1>1. /\ BeginPass(p, m, a) /\ archived' = archived \cup ({a} \cap Session) /\ broker' = broker
      /\ task' = task /\ gone' = gone /\ lock = NoProcess
      /\ m = "ack" => a \in Session
  BY DEF BeginFollowed, BeginPass, LockFree
<1>2. \A q \in Processes : proc[q].pc = "idle"
  BY <1>1, FreeLock DEF CInv
<1>3. PICK pass : /\ proc' = [proc EXCEPT ![p] = pass] /\ pass.pc \in {"aux", "primary"}
                  /\ pass.mode = m /\ pass.ack = a
  <2> DEFINE q1 == [Idle EXCEPT !.pc = IF Family THEN "aux" ELSE "primary"]
             q2 == [q1 EXCEPT !.mode = m]
             q3 == [q2 EXCEPT !.ack = a]
             q4 == [q3 EXCEPT !.todo = IF Family THEN AuxOrder ELSE <<>>]
             q5 == [q4 EXCEPT !.snap = IF Family THEN task ELSE NoSnap]
             D == {"pc", "mode", "ack", "todo", "target", "snap"}
  <2>1. proc' = [proc EXCEPT ![p] = q5]
    BY <1>1 DEF BeginPass
  <2>2. DOMAIN q1 = D /\ q1.pc \in {"aux", "primary"}
    BY DEF Idle
  <2> HIDE DEF q1
  <2>3. DOMAIN q2 = D /\ q2.pc \in {"aux", "primary"} /\ q2.mode = m
    BY <2>2
  <2> HIDE DEF q2
  <2>4. DOMAIN q3 = D /\ q3.pc \in {"aux", "primary"} /\ q3.mode = m /\ q3.ack = a
    BY <2>3
  <2> HIDE DEF q3
  <2>5. DOMAIN q4 = D /\ q4.pc \in {"aux", "primary"} /\ q4.mode = m /\ q4.ack = a
    BY <2>4
  <2> HIDE DEF q4
  <2>6. q5.pc \in {"aux", "primary"} /\ q5.mode = m /\ q5.ack = a
    BY <2>5
  <2> HIDE DEF q5
  <2> QED BY <2>1, <2>6
<1>4. proc'[p] = pass /\ \A q \in Processes \ {p} : proc'[q] = proc[q]
  BY <1>3 DEF CInv, SInv, TInv
<1>5. \A q \in Processes : proc'[q].pc # "calling"
  BY <1>2, <1>3, <1>4
<1>6. \A q \in Processes : proc'[q].pc # "idle" /\ proc'[q].mode = "ack"
                               => proc'[q].ack \in archived'
  BY <1>1, <1>2, <1>3, <1>4
<1>7. /\ broker' \in Broker
      /\ \A s \in Session : broker'.results[s] = "acknowledged" => s \in archived'
      /\ \A s \in Session : Deleted(task'.receipt[s]) => s \in gone'
  BY <1>1 DEF Earned
<1> QED BY <1>1, <1>5, <1>6, <1>7, OutsideEarned

LEMMA CrashEarned ==
    ASSUME CInv, Earned, NEW p \in Processes, CrashFollowed(p)
    PROVE  Earned'
<1>1. /\ proc[p].pc # "idle" /\ Finish(p) /\ task' = task /\ gone' = gone
      /\ archived' = archived
      /\ broker' = broker \/ broker' = Fresh("unavailable")
  BY DEF CrashFollowed, Crash
<1>2. Keeps(p)
  BY <1>1, Ends DEF CInv
<1>3. "unavailable" \in Capability
  BY DEF Capability
<1>4. /\ broker' \in Broker
      /\ \A s \in Session : broker'.results[s] = "acknowledged" => s \in archived'
  BY <1>1, <1>3, FreshBroker DEF Earned
<1>5. \A q \in Processes : proc'[q].pc # "calling"
  BY <1>2 DEF Keeps
<1>6. \A q \in Processes : proc'[q].pc # "idle" /\ proc'[q].mode = "ack"
                               => proc'[q].ack \in archived'
  BY <1>1, <1>2 DEF Keeps, Earned, PassEarned
<1>7. \A s \in Session : Deleted(task'.receipt[s]) => s \in gone'
  BY <1>1 DEF Earned
<1> QED BY <1>1, <1>4, <1>5, <1>6, <1>7, OutsideEarned

LEMMA RegisterEarned ==
    ASSUME CInv, Earned, NEW p \in Processes, NEW c \in Capability, Register(p, c)
    PROVE  Earned'
<1>1. /\ UNCHANGED <<task, proc, gone, archived, exec>> /\ broker' = Fresh(c)
  BY DEF Register, SetBroker
<1>2. /\ broker' \in Broker
      /\ \A s \in Session : broker'.results[s] = "acknowledged" => s \in archived'
  BY <1>1, FreshBroker
<1>3. \A q \in Processes : PassEarned(q)'
  BY <1>1 DEF Earned, PassEarned, CallEarned
<1> QED BY <1>1, <1>2, <1>3 DEF Earned

LEMMA TickEarned ==
    ASSUME CInv, Earned, Tick, UNCHANGED inside
    PROVE  Earned'
<1>1. UNCHANGED <<proc, gone, archived, broker, exec>>
  BY DEF Tick, inside
<1>2. \A s \in Session : task'.receipt[s].state = task.receipt[s].state
  <2> DEFINE new == [s \in Session |-> Elapse(task.receipt[s])]
  <2>1. task' = [task EXCEPT !.receipt = new] /\ task \in TaskRecord
    BY DEF Tick, CInv, SInv, TInv
  <2>2. \A s \in Session : new[s].state = task.receipt[s].state
    BY SessionTypes, ElapsedReceipt DEF CInv
  <2> HIDE DEF new
  <2> QED BY <2>1, <2>2 DEF TaskRecord
<1>3. \A q \in Processes : PassEarned(q)'
  BY <1>1 DEF Earned, PassEarned, CallEarned
<1> QED BY <1>1, <1>2, <1>3 DEF Earned, Deleted

LEMMA DeleteEarned ==
    ASSUME CInv, Earned, NEW p \in Processes, ServerDeletes(p)
    PROVE  Earned' /\ gone' \ gone \subseteq archived
<1>1. /\ proc[p].pc = "calling" /\ exec.at = "delete" /\ gone' = gone \cup {proc[p].target}
      /\ UNCHANGED <<task, proc, archived, broker, exec>>
  BY DEF ServerDeletes, ExecutorDeletes, Inside, inside
<1>2. proc[p].target \in archived
  BY <1>1 DEF Earned, PassEarned, CallEarned
<1>3. \A q \in Processes : PassEarned(q)'
  BY <1>1 DEF Earned, PassEarned, CallEarned
<1> QED BY <1>1, <1>2, <1>3 DEF Earned

\* What every followed step keeps, and what it may delete.
LEMMA FollowedEarned ==
    ASSUME CInv, Earned, NextFollowed
    PROVE  Earned' /\ gone' \ gone \subseteq archived
<1>1. ASSUME NEW p \in Processes, NEW m \in Mode, NEW a \in Session \cup {NoSession},
             BeginFollowed(p, m, a)
      PROVE  Earned' /\ gone' = gone
  BY <1>1, BeginEarned DEF BeginFollowed, BeginPass
<1>2. ASSUME NEW p \in Processes, StepFollowed(p)
      PROVE  Earned' /\ gone' = gone
  <2>1. CASE HandleFollowed(p)
    <3>1. PICK s, t : \/ PassOver(p, s, t) \/ KeepFamily(p, s, t) \/ MarkRetained(p, s, t)
                      \/ Request(p, s, t) \/ Replay(p, s, t) \/ Interrupt(p, s, t)
      BY <2>1 DEF HandleFollowed, HandleSession
    <3>2. gone' = gone
      <4>1. CASE PassOver(p, s, t) \/ KeepFamily(p, s, t) \/ MarkRetained(p, s, t)
        BY <4>1 DEF PassOver, KeepFamily, MarkRetained
      <4>2. CASE Request(p, s, t) \/ Replay(p, s, t) \/ Interrupt(p, s, t)
        BY <4>2 DEF Request, Replay, Interrupt
      <4> QED BY <3>1, <4>1, <4>2
    <3> QED BY <2>1, <3>2, HandleEarned
  <2>2. CASE CallFollowed(p)
    BY <2>2, CallEarns DEF CallFollowed, Call
  <2>3. CASE ApplyFollowed(p)
    BY <2>3, ApplyEarned DEF ApplyFollowed, Apply
  <2>4. CASE AskDesktop(p)
    BY <2>4, AskEarned DEF AskDesktop
  <2>5. CASE \/ CheckScope(p) \/ Connect(p) \/ ArchiveOnServer(p)
             \/ AnswerDelete(p) \/ ReadBack(p)
    <3>1. BrokerStep
      BY <2>5, InsideAside
    <3> QED BY <2>5, <3>1, ServerEarned DEF BrokerStep
  <2> QED BY <1>2, <2>1, <2>2, <2>3, <2>4, <2>5 DEF StepFollowed
<1>3. ASSUME NEW p \in Processes, ServerDeletes(p)
      PROVE  Earned' /\ gone' \ gone \subseteq archived
  BY <1>3, DeleteEarned
<1>4. ASSUME NEW p \in Processes, CrashFollowed(p)
      PROVE  Earned' /\ gone' = gone
  BY <1>4, CrashEarned DEF CrashFollowed, Crash
<1>5. ASSUME NEW p \in Processes, NEW c \in Capability, Register(p, c)
      PROVE  Earned' /\ gone' = gone
  BY <1>5, RegisterEarned DEF Register
<1>6. CASE Tick /\ UNCHANGED inside
  BY <1>6, TickEarned DEF Tick
<1> QED BY <1>1, <1>2, <1>3, <1>4, <1>5, <1>6 DEF NextFollowed

-----------------------------------------------------------------------------
(* The theorems.                                                           *)

LEMMA InitEInv == CodexInit => EInv
<1> SUFFICES ASSUME CodexInit PROVE EInv
  OBVIOUS
<1>1. Init \/ InitFollowed
  BY DEF CodexInit
<1>2. CInv
  BY <1>1, InitSInv, Answers DEF CodexInit, CInv, NoExec
<1>3. Earned
  <2>1. "unavailable" \in Capability /\ broker = Fresh("unavailable")
    BY DEF CodexInit, Capability
  <2>2. /\ broker \in Broker
        /\ \A s \in Session : broker.results[s] = "acknowledged" => s \in archived
    BY <2>1, FreshBroker
  <2>3. Parked => Primary \in archived
    BY DEF CodexInit
  <2>4. /\ task.receipt = [s \in Session |-> NewReceipt]
        /\ proc = [p \in Processes |-> Idle]
    BY <1>1 DEF Init, InitFollowed
  <2>5. \A s \in Session : ~Deleted(task.receipt[s])
    BY <2>4 DEF NewReceipt, Deleted
  <2>6. \A p \in Processes : PassEarned(p)
    BY <2>4 DEF PassEarned, Idle
  <2> QED BY <2>2, <2>3, <2>5, <2>6 DEF Earned
<1> QED BY <1>2, <1>3 DEF EInv

DeletionStep ==
    opened =>
        /\ gone' \ gone \subseteq archived
        /\ \A s \in Session : Deleted(task'.receipt[s]) => s \in gone'

LEMMA NextEInv ==
    ASSUME EInv, [CodexNext]_codexVars
    PROVE  EInv' /\ DeletionStep
<1>1. CInv' /\ opened' = opened
  <2>1. Step /\ exec'.answer \in Result
    BY CodexNextIsStep DEF EInv
  <2>2. SInv'
    BY <2>1, StepSound DEF EInv, CInv
  <2>3. opened' = opened
    BY DEF CodexNext, codexVars
  <2> QED BY <2>1, <2>2, <2>3 DEF CInv
<1>2. ASSUME opened PROVE Earned' /\ gone' \ gone \subseteq archived
  <2>1. CASE CodexNext
    BY <1>2, <2>1, FollowedEarned DEF CodexNext, EInv
  <2>2. CASE UNCHANGED codexVars
    <3>1. UNCHANGED <<task, proc, gone, archived, broker, exec>>
      BY <2>2 DEF codexVars, vars, inside
    <3> QED BY <1>2, <3>1 DEF EInv, Earned, PassEarned, CallEarned
  <2> QED BY <2>1, <2>2
<1>3. DeletionStep
  BY <1>2 DEF DeletionStep, Earned
<1> QED BY <1>1, <1>2, <1>3 DEF EInv

LEMMA InitLedger ==
    ASSUME Init \/ InitFollowed
    PROVE  Ledger!Init
<1>1. /\ task.receipt = [s \in Session |-> NewReceipt]
      /\ calls = [s \in Session |-> 0]
  BY DEF Init, InitFollowed
<1>2. Intents = [s \in Session |-> 0] /\ Calls = [s \in Session |-> 0] /\ Closed \subseteq Session
  BY <1>1 DEF Intents, Calls, Closed, NewReceipt
<1> QED BY <1>2 DEF Ledger!Init, Ledger!None, Intents, Calls, Closed

\* The task record, its receipts and the passes at work on them are well formed
\* (session_cleanup.py).
THEOREM CleanupTypes == Spec => []TypeOK
<1> DEFINE I == SInv /\ kind \in Kinds
<1>1. Init => I
  BY InitSInv DEF Init
<1>2. I /\ [Next]_vars => I'
  <2> SUFFICES ASSUME I, [Next]_vars PROVE I'
    OBVIOUS
  <2>1. Step
    BY NextIsStep DEF Step
  <2>2. SInv'
    BY <2>1, StepSound
  <2>3. kind' = kind
    BY <2>1, StepKind
  <2> QED BY <2>2, <2>3
<1>3. I => TypeOK
  BY DEF SInv, TInv, TypeOK, Passes
<1> QED BY <1>1, <1>2, <1>3, PTL DEF Spec

\* The receipts of the sessions that are not Codex's are a ledger of intents: one
\* call for every intent on disk, none after the outcome is known, and a new
\* generation of sessions only when all of the old one is closed
\* (session_cleanup.py _request_primary, retry_flow.py preflight).
THEOREM CleanupIsLedger == CodexSpec => KeepsLedger
<1>1. CodexInit => Ledger!Init
  BY InitLedger DEF CodexInit
<1>2. EInv /\ [CodexNext]_codexVars => [Ledger!Next]_Ledger!ledger
  <2> SUFFICES ASSUME EInv, [CodexNext]_codexVars PROVE LedgerStep
    BY DEF LedgerStep
  <2>1. Step
    BY CodexNextIsStep DEF EInv
  <2> QED BY <2>1, StepSound DEF EInv, CInv
<1>3. EInv /\ [CodexNext]_codexVars => EInv'
  BY NextEInv
<1>4. CodexInit => EInv
  BY InitEInv
<1> QED BY <1>1, <1>2, <1>3, <1>4, PTL DEF CodexSpec, KeepsLedger, Ledger!Spec

-----------------------------------------------------------------------------
(* What a ledger promises, and so what the cleanup owes to it.             *)

LEMMA LedgerSteps ==
    ASSUME LedgerStep
    PROVE  \/ \E s \in Session :
              /\ s \notin Closed
              /\ \/ /\ Intents[s] < MaxAttempts
                    /\ Intents' = [Intents EXCEPT ![s] = @ + 1]
                    /\ Calls' = Calls /\ Closed' = Closed
                 \/ /\ Calls[s] < Intents[s]
                    /\ Calls' = [Calls EXCEPT ![s] = @ + 1]
                    /\ Intents' = Intents /\ Closed' = Closed
                 \/ /\ Closed' = Closed \cup {s}
                    /\ Intents' = Intents /\ Calls' = Calls
           \/ /\ Closed = Session
              /\ Closed' \in SUBSET Session
              /\ Intents' = [s \in Session |-> 0] /\ Calls' = [s \in Session |-> 0]
           \/ UNCHANGED <<Intents, Calls, Closed>>
BY DEF LedgerStep, Ledger!Next, Ledger!Intend, Ledger!Call, Ledger!Close, Ledger!Renew,
       Ledger!None, Ledger!ledger, Intents, Calls, Closed

LInv ==
    /\ Intents \in [Session -> 0..MaxAttempts]
    /\ Calls \in [Session -> 0..MaxAttempts]
    /\ Closed \subseteq Session
    /\ \A s \in Session : Calls[s] <= Intents[s] /\ Intents[s] <= MaxAttempts

LEMMA LedgerInv == LInv <=> Ledger!TypeOK /\ Ledger!Bounded
BY DEF LInv, Ledger!TypeOK, Ledger!Bounded, Intents, Calls, Closed

LEMMA LedgerInit ==
    ASSUME Ledger!Init
    PROVE  LInv
<1>1. /\ Intents = [s \in Session |-> 0] /\ Calls = [s \in Session |-> 0]
      /\ Closed \subseteq Session
  BY DEF Ledger!Init, Ledger!None, Intents, Calls, Closed
<1> QED BY <1>1, Sessions DEF LInv

LEMMA LedgerNext ==
    ASSUME LInv, LedgerStep
    PROVE  LInv'
<1>1. MaxAttempts \in Nat
  BY Sessions
<1>2. CASE \E s \in Session :
              /\ Intents[s] < MaxAttempts
              /\ Intents' = [Intents EXCEPT ![s] = @ + 1]
              /\ Calls' = Calls /\ Closed' = Closed
  BY <1>1, <1>2 DEF LInv
<1>3. CASE \E s \in Session :
              /\ Calls[s] < Intents[s]
              /\ Calls' = [Calls EXCEPT ![s] = @ + 1]
              /\ Intents' = Intents /\ Closed' = Closed
  BY <1>1, <1>3 DEF LInv
<1>4. CASE \E s \in Session :
              Closed' = Closed \cup {s} /\ Intents' = Intents /\ Calls' = Calls
  BY <1>4 DEF LInv
<1>5. CASE /\ Closed' \in SUBSET Session
           /\ Intents' = [s \in Session |-> 0] /\ Calls' = [s \in Session |-> 0]
  BY <1>1, <1>5 DEF LInv
<1>6. CASE UNCHANGED <<Intents, Calls, Closed>>
  BY <1>6 DEF LInv
<1> QED BY <1>2, <1>3, <1>4, <1>5, <1>6, LedgerSteps

\* A system that keeps the ledger makes at most Limit calls for an item of one
\* generation, and none without an intent on record (MAX_SESSION_CLEANUP_ATTEMPTS,
\* session_cleanup.py).
THEOREM LedgerBounded == KeepsLedger => [](Ledger!TypeOK /\ Ledger!Bounded)
<1>1. Ledger!Init => LInv
  BY LedgerInit
<1>2. LInv /\ [Ledger!Next]_Ledger!ledger => LInv'
  BY LedgerNext DEF LedgerStep
<1>3. LInv => Ledger!TypeOK /\ Ledger!Bounded
  BY LedgerInv
<1> QED BY <1>1, <1>2, <1>3, PTL DEF KeepsLedger, Ledger!Spec

\* In a system that keeps the ledger an item whose outcome is known is not called
\* again before the next generation (RESOLVED_CLEANUP_STATES).
THEOREM LedgerClosedIsFinal == KeepsLedger => Ledger!ClosedIsFinal
<1>1. LInv /\ [Ledger!Next]_Ledger!ledger => LInv' /\ [Ledger!ClosedStays]_Ledger!ledger
  <2> SUFFICES ASSUME LInv, LedgerStep PROVE LInv' /\ Ledger!ClosedStays
    BY DEF LedgerStep
  <2>1. \A s \in Session : s \in Closed /\ Closed # Session =>
            s \in Closed' /\ Calls'[s] = Calls[s]
    BY LedgerSteps DEF LInv
  <2> QED BY <2>1, LedgerNext DEF Ledger!ClosedStays, Calls, Closed
<1>2. Ledger!Init => LInv
  BY LedgerInit
<1> QED BY <1>1, <1>2, PTL DEF KeepsLedger, Ledger!Spec, Ledger!ClosedIsFinal

\* An executor other than Codex's is asked to delete a session at most once for every
\* intent on disk, and MAX_SESSION_CLEANUP_ATTEMPTS times in an attempt
\* (session_cleanup.py _request_primary).
THEOREM CleanupCallsBounded == CodexSpec => [](Ledger!TypeOK /\ Ledger!Bounded)
BY CleanupIsLedger, LedgerBounded, PTL

\* A session of theirs whose outcome is known is not asked for again before a retry
\* has begun the next attempt (RESOLVED_CLEANUP_STATES).
THEOREM CleanupClosedIsFinal == CodexSpec => Ledger!ClosedIsFinal
BY CleanupIsLedger, LedgerClosedIsFinal, PTL

\* A resolved receipt is final until a retry begins the next attempt, although
\* passes write whole records they read long ago (RESOLVED_CLEANUP_STATES).
THEOREM CleanupResolvedIsFinal == CodexSpec => ResolvedIsFinal
<1>1. EInv /\ [CodexNext]_codexVars => EInv' /\ [OnlyRetryReopens]_vars
  <2> SUFFICES ASSUME EInv, [CodexNext]_codexVars PROVE EInv' /\ OnlyRetryReopens
    OBVIOUS
  <2>1. Step
    BY CodexNextIsStep DEF EInv
  <2> QED BY <2>1, StepSound, NextEInv DEF EInv, CInv
<1>2. CodexInit => EInv
  BY InitEInv
<1>3. CodexSpec => [][OnlyRetryReopens]_vars
  BY <1>1, <1>2, PTL DEF CodexSpec
<1> QED BY <1>3 DEF ResolvedIsFinal, OnlyRetryReopens

\* A retry rotates the sessions only when no executor call on them is under way
\* (retry_flow.py preflight).
THEOREM CleanupRetryWaits == CodexSpec => RetryWaitsForCleanup
<1>1. EInv /\ [CodexNext]_codexVars => EInv' /\ [RetryWaits]_vars
  <2> SUFFICES ASSUME EInv, [CodexNext]_codexVars PROVE EInv' /\ RetryWaits
    OBVIOUS
  <2>1. Step
    BY CodexNextIsStep DEF EInv
  <2> QED BY <2>1, StepSound, NextEInv DEF EInv, CInv
<1>2. CodexInit => EInv
  BY InitEInv
<1>3. CodexSpec => [][RetryWaits]_vars
  BY <1>1, <1>2, PTL DEF CodexSpec
<1> QED BY <1>3 DEF RetryWaitsForCleanup, RetryWaits

\* A container's Codex parent is never asked to be deleted while a descendant's own
\* deletion is unconfirmed (_request_container_family).
THEOREM CleanupDescendantsFirst == CodexSpec => DescendantsFirst
<1>1. EInv /\ [CodexNext]_codexVars => EInv' /\ [ParentLast]_vars
  <2> SUFFICES ASSUME EInv, [CodexNext]_codexVars PROVE EInv' /\ ParentLast
    OBVIOUS
  <2>1. Step
    BY CodexNextIsStep DEF EInv
  <2> QED BY <2>1, StepSound, NextEInv DEF EInv, CInv
<1>2. CodexInit => EInv
  BY InitEInv
<1>3. CodexSpec => [][ParentLast]_vars
  BY <1>1, <1>2, PTL DEF CodexSpec
<1> QED BY <1>3 DEF DescendantsFirst, ParentLast

\* No thread is deleted that Codex, the user's app or the server did not archive
\* first, and a receipt that says succeeded is true (codex.py
\* _cleanup_session_app_server, codex_session_cleanup.py delete_and_verify).
THEOREM CodexDeletionEarned == CodexSpec => DeletionEarned
<1>1. EInv /\ [CodexNext]_codexVars => EInv' /\ [DeletionStep]_codexVars
  BY NextEInv
<1>2. CodexInit => EInv
  BY InitEInv
<1>3. CodexSpec => [][DeletionStep]_codexVars
  BY <1>1, <1>2, PTL DEF CodexSpec
<1> QED BY <1>3 DEF DeletionEarned, DeletionStep

=============================================================================
