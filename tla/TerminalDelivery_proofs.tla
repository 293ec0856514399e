----------------------- MODULE TerminalDelivery_proofs -----------------------
(***************************************************************************)
(* Theorems about TerminalDelivery for any set of actors, any stage order, *)
(* any attempt limit and any number of outcomes and crashes: a stage that  *)
(* the receipt on disk calls confirmed was delivered for that receipt, and *)
(* no reservation ever reaches the disk, whatever passes race.             *)
(*                                                                         *)
(* Neither is inductive alone: a pass writes back a copy it read earlier,  *)
(* so the same facts must hold of every working copy.  They survive the    *)
(* unlocked races because the delivery history only grows.                 *)
(*                                                                         *)
(* What the races do break is proved of the behaviours in which passes do  *)
(* not overlap (OneAtATime): the receipt is that of the outcome, attempts  *)
(* bound the handler runs, and what was confirmed is not delivered again.  *)
(***************************************************************************)
EXTENDS TerminalDelivery, TLAPS

\* What every copy of a receipt satisfies, on disk or in a pass.
Sound(r) ==
    \A s \in Stage :
        /\ r.stage[s].state # "in_progress"
        /\ r.id # 0 /\ Resolved(r.stage[s]) => acks[r.id][s] > 0

\* A receipt exists from the first outcome on, and passes only work on one.
ReceiptExists ==
    /\ receipt.kind \in Outcome => receipt.id # 0
    /\ status \in Outcome => receipt.id # 0
    /\ \A a \in Actors : pc[a] # "idle" => receipt.id # 0
    /\ \A a \in Actors : pc[a] \in {"core", "deliver"} => work[a].id # 0

IInv ==
    /\ TypeOK
    /\ ReceiptExists
    /\ Sound(receipt)
    /\ \A a \in Actors : Sound(work[a])

-----------------------------------------------------------------------------
(* What the pure stage operators return.                                   *)

\* A new receipt has every stage pending.
LEMMA NewReceiptFacts ==
    ASSUME NEW id \in 0..MaxOutcomes, NEW k \in Outcome \cup {"open"}
    PROVE  /\ NewReceipt(id, k) \in Receipt
           /\ Sound(NewReceipt(id, k))
<1>1. NewEntry \in Entry
  BY DeliveryAssumption DEF NewEntry, Entry, StageState
<1>. QED
  BY <1>1 DEF NewReceipt, Receipt, Sound, Resolved, NewEntry

\* The backoff schedule stays within its cap.
LEMMA BackoffBounded ==
    ASSUME NEW n \in Nat
    PROVE  Backoff(n) \in 0..LongBackoff
BY DeliveryAssumption DEF Backoff

\* The handler of a stage that may be reserved leaves a typed entry that is
\* not a reservation, and a confirmed one only if it succeeded.
LEMMA SettleFacts ==
    ASSUME NEW s \in Stage, NEW e \in Entry, NEW result \in {"ok", "failed"},
           e.state # "in_progress", Reservable(e)
    PROVE  LET f == Settle(s, Reserved(e), result)
           IN /\ f \in Entry
              /\ f.state # "in_progress"
              /\ Resolved(f) => result = "ok"
<1>. DEFINE r == Reserve(e)
<1>1. /\ r \in Entry
      /\ r.attempts \in 1..MaxAttempts
      /\ Reserved(e) = r
  BY DeliveryAssumption DEF Reserved, Reservable, Reserve, Entry, StageState
<1>2. CASE result = "ok"
  <2>1. Settle(s, r, result) = Succeed(r)
    BY <1>2 DEF Settle
  <2>. HIDE DEF r
  <2>2. Succeed(r) \in Entry /\ Succeed(r).state = "succeeded"
    BY <1>1, DeliveryAssumption DEF Succeed, Entry, StageState
  <2>. QED
    BY <1>1, <1>2, <2>1, <2>2
<1>3. CASE result = "failed" /\ s \in UncertainStages
  <2>1. Settle(s, r, result) = RetryUncertain(r)
    BY <1>3 DEF Settle
  <2>2. r.attempts # 0
    BY <1>1
  <2>. QED
    BY <1>1, <2>1, <2>2, DeliveryAssumption
    DEF RetryUncertain, Resolved, Entry, StageState
<1>4. CASE result = "failed" /\ s \notin UncertainStages
  <2>1. Settle(s, r, result) = RetryLater(r)
    BY <1>4 DEF Settle
  <2>2. Backoff(r.attempts) \in 0..LongBackoff
    BY <1>1, BackoffBounded
  <2>. HIDE DEF r
  <2>. QED
    BY <1>1, <2>1, <2>2 DEF RetryLater, Resolved, Entry, StageState
<1>. QED
  BY <1>2, <1>3, <1>4

\* Reconciling a receipt without reservations changes nothing.
LEMMA ReconcileFacts ==
    ASSUME NEW r \in Receipt, Sound(r)
    PROVE  Reconcile(r) = r
BY DEF Reconcile, Receipt, Sound

\* Soundness of a copy only depends on the deliveries recorded, which grow.
LEMMA SoundGrows ==
    ASSUME NEW r \in Receipt, Sound(r),
           acks \in [1..MaxOutcomes -> [Stage -> Nat]],
           acks' \in [1..MaxOutcomes -> [Stage -> Nat]],
           \A i \in 1..MaxOutcomes : \A s \in Stage : acks'[i][s] >= acks[i][s]
    PROVE  \A s \in Stage :
             /\ r.stage[s].state # "in_progress"
             /\ r.id # 0 /\ Resolved(r.stage[s]) => acks'[r.id][s] > 0
<1>. TAKE s \in Stage
<1>1. r.stage[s].state # "in_progress"
  BY DEF Sound
<1>2. ASSUME r.id # 0, Resolved(r.stage[s])
      PROVE  acks'[r.id][s] > 0
  <2>1. r.id \in 1..MaxOutcomes
    BY <1>2, DeliveryAssumption DEF Receipt
  <2>2. acks[r.id][s] > 0
    BY <1>2 DEF Sound
  <2>. QED
    BY <2>1, <2>2
<1>. QED
  BY <1>1, <1>2

\* A step that leaves the history alone keeps every copy sound.
LEMMA SoundStutter ==
    ASSUME NEW r, Sound(r), UNCHANGED acks
    PROVE  Sound(r)'
BY DEF Sound

-----------------------------------------------------------------------------
LEMMA InitIInv == Init => IInv
<1>. SUFFICES ASSUME Init PROVE IInv
  OBVIOUS
<1>1. NoReceipt \in Receipt /\ Sound(NoReceipt)
  BY NewReceiptFacts, DeliveryAssumption DEF NoReceipt
<1>2. TypeOK
  BY <1>1, DeliveryAssumption DEF Init, TypeOK
<1>3. ReceiptExists
  BY DEF Init, ReceiptExists, NoReceipt, NewReceipt, Outcome
<1>. QED
  BY <1>1, <1>2, <1>3 DEF IInv, Init

\* The current stage of a pass is a stage.
LEMMA CurrentStageIsStage ==
    ASSUME TypeOK, NEW a \in Actors, InPass(a)
    PROVE  CurrentStage(a) \in Stage
BY DEF TypeOK, InPass, CurrentStage, Stage

\* Counting one more execution keeps the type of the history and loses none.
LEMMA CountOne ==
    ASSUME NEW c \in [1..MaxOutcomes -> [Stage -> Nat]],
           NEW i \in 1..MaxOutcomes, NEW s \in Stage,
           NEW d, d = [c EXCEPT ![i][s] = @ + 1]
    PROVE  /\ d \in [1..MaxOutcomes -> [Stage -> Nat]]
           /\ \A j \in 1..MaxOutcomes : \A t \in Stage : d[j][t] >= c[j][t]
           /\ d[i][s] > 0
<1>1. c[i] \in [Stage -> Nat] /\ c[i][s] \in Nat
  OBVIOUS
<1>2. d = [c EXCEPT ![i] = [c[i] EXCEPT ![s] = c[i][s] + 1]]
  OBVIOUS
<1>3. [c[i] EXCEPT ![s] = c[i][s] + 1] \in [Stage -> Nat]
  BY <1>1
<1>4. d \in [1..MaxOutcomes -> [Stage -> Nat]]
  BY <1>2, <1>3
<1>5. d[i][s] = c[i][s] + 1
  BY <1>2
<1>6. ASSUME NEW j \in 1..MaxOutcomes, NEW t \in Stage
      PROVE  d[j][t] >= c[j][t]
  <2>1. c[j][t] \in Nat
    OBVIOUS
  <2>2. d[j][t] = c[j][t] \/ (j = i /\ t = s)
    BY <1>1, <1>2
  <2>. QED
    BY <1>1, <1>5, <2>1, <2>2
<1>. QED
  BY <1>1, <1>4, <1>5, <1>6

LEMMA StageRunIInv ==
    ASSUME IInv, NEW a \in Actors, NEW result \in {"ok", "failed"},
           StageRun(a, result)
    PROVE  IInv'
<1>. USE DEF IInv
<1>. DEFINE s == CurrentStage(a)
           i == work[a].id
           e == work[a].stage[s]
           f == Settle(s, Reserved(e), result)
<1>1. s \in Stage /\ i \in 1..MaxOutcomes /\ e \in Entry
  <2>1. s \in Stage
    BY CurrentStageIsStage DEF StageRun
  <2>2. i # 0 /\ work[a] \in Receipt
    BY DEF StageRun, InPass, ReceiptExists, TypeOK
  <2>. QED
    BY <2>1, <2>2, DeliveryAssumption DEF Receipt
<1>2. e.state # "in_progress" /\ Reservable(e)
  BY <1>1 DEF Sound, StageRun, Runs, CurrentEntry
<1>3. /\ f \in Entry
      /\ f.state # "in_progress"
      /\ Resolved(f) => result = "ok"
  <2>. HIDE DEF s, e
  <2>. QED
    BY <1>1, <1>2, SettleFacts
<1>4. work' = [work EXCEPT ![a].stage[s] = f]
  BY DEF StageRun
<1>5. /\ runs' = [runs EXCEPT ![i][s] = @ + 1]
      /\ acks' = IF result = "ok" THEN [acks EXCEPT ![i][s] = @ + 1] ELSE acks
  BY DEF StageRun
<1>6. /\ runs' \in [1..MaxOutcomes -> [Stage -> Nat]]
      /\ acks' \in [1..MaxOutcomes -> [Stage -> Nat]]
      /\ \A j \in 1..MaxOutcomes : \A t \in Stage : acks'[j][t] >= acks[j][t]
      /\ result = "ok" => acks'[i][s] > 0
  <2>. HIDE DEF s, i
  <2>0. runs' \in [1..MaxOutcomes -> [Stage -> Nat]]
    BY <1>1, <1>5, CountOne DEF TypeOK
  <2>1. CASE result = "ok"
    BY <1>1, <1>5, <2>0, <2>1, CountOne DEF TypeOK
  <2>2. CASE result # "ok"
    <3>1. acks' = acks
      BY <1>5, <2>2
    <3>2. \A j \in 1..MaxOutcomes : \A t \in Stage : acks[j][t] \in Nat
      BY DEF TypeOK
    <3>. QED
      BY <2>0, <2>2, <3>1, <3>2 DEF TypeOK
  <2>. QED
    BY <2>1, <2>2
<1>7. /\ work' \in [Actors -> Receipt]
      /\ work'[a].id = i
      /\ \A t \in Stage : work'[a].stage[t] = IF t = s THEN f ELSE work[a].stage[t]
      /\ \A b \in Actors : b # a => work'[b] = work[b]
  <2>. HIDE DEF s, f
  <2>. QED
    BY <1>1, <1>3, <1>4 DEF TypeOK, Receipt
<1>8. TypeOK'
  <2>1. pos' \in [Actors -> 1..(Len(StageOrder) + 1)]
    BY DeliveryAssumption DEF StageRun, InPass, TypeOK
  <2>. QED
    BY <1>6, <1>7, <2>1 DEF TypeOK, StageRun, disk
<1>9. ReceiptExists'
  BY <1>1, <1>7 DEF ReceiptExists, StageRun, disk
<1>10. Sound(receipt)'
  <2>1. receipt \in Receipt
    BY DEF TypeOK
  <2>2. receipt' = receipt
    BY DEF StageRun, disk
  <2>. QED
    BY <1>6, <2>1, <2>2, SoundGrows DEF TypeOK, Sound
<1>11. ASSUME NEW b \in Actors
       PROVE  Sound(work[b])'
  <2>1. work[b] \in Receipt /\ Sound(work[b])
    BY DEF TypeOK
  <2>2. \A t \in Stage :
          /\ work[b].stage[t].state # "in_progress"
          /\ work[b].id # 0 /\ Resolved(work[b].stage[t]) => acks'[work[b].id][t] > 0
    BY <1>6, <2>1, SoundGrows DEF TypeOK
  <2>3. CASE b # a
    BY <1>7, <2>2, <2>3 DEF Sound, Resolved
  <2>4. CASE b = a
    <3>. HIDE DEF f, s
    <3>. SUFFICES ASSUME NEW t \in Stage
                  PROVE  /\ work'[a].stage[t].state # "in_progress"
                         /\ work'[a].id # 0 /\ Resolved(work'[a].stage[t])
                              => acks'[work'[a].id][t] > 0
      BY <2>4 DEF Sound, Resolved
    <3>1. CASE t = s
      BY <1>3, <1>6, <1>7, <3>1
    <3>2. CASE t # s
      BY <1>7, <2>2, <2>4, <3>2
    <3>. QED
      BY <3>1, <3>2
  <2>. QED
    BY <2>3, <2>4
<1>. QED
  BY <1>8, <1>9, <1>10, <1>11

\* Writing a working copy back puts a sound, typed receipt on disk.
LEMMA PersistIInv ==
    ASSUME IInv, NEW a \in Actors, pc[a] \in {"core", "deliver"}, Persist(a)
    PROVE  /\ receipt' \in Receipt
           /\ receipt'.id # 0
           /\ Sound(receipt')
           /\ confirmed' \in [1..MaxOutcomes -> SUBSET Stage]
<1>1. work[a] \in Receipt /\ work[a].id # 0 /\ Sound(work[a])
  BY DEF IInv, TypeOK, ReceiptExists
<1>2. CASE ran[a]
  <2>1. receipt' = work[a]
    BY <1>2 DEF Persist
  <2>2. confirmed' = [confirmed EXCEPT ![work[a].id] =
                @ \cup {s \in Stage : Resolved(work[a].stage[s])}]
    BY <1>2 DEF Persist
  <2>. QED
    BY <1>1, <2>1, <2>2 DEF IInv, TypeOK
<1>3. CASE ~ran[a]
  BY <1>3 DEF Persist, IInv, TypeOK, ReceiptExists
<1>. QED
  BY <1>2, <1>3

LEMMA NextIInv == IInv /\ [Next]_vars => IInv'
<1>. SUFFICES ASSUME IInv, [Next]_vars PROVE IInv'
  OBVIOUS
<1>. USE DEF IInv
<1>1. ASSUME NEW a \in Actors, NEW k \in Outcome, EndTask(a, k)
      PROVE  IInv'
  <2>1. /\ receipt' \in Receipt /\ receipt'.id # 0
        /\ Sound(receipt')
        /\ outcomes' \in 0..MaxOutcomes
    <3>1. outcomes + 1 \in 1..MaxOutcomes
      BY <1>1, DeliveryAssumption DEF EndTask, TypeOK
    <3>2. NewReceipt(outcomes + 1, k) \in Receipt
          /\ Sound(NewReceipt(outcomes + 1, k))
          /\ NewReceipt(outcomes + 1, k).id = outcomes + 1
      BY <3>1, NewReceiptFacts DEF NewReceipt
    <3>3. \/ receipt' = receipt /\ receipt.id # 0
          \/ receipt' = NewReceipt(outcomes + 1, k)
      BY <1>1 DEF EndTask, ReceiptOf, ReceiptExists, Outcome
    <3>. QED
      BY <1>1, <3>1, <3>2, <3>3 DEF EndTask, TypeOK
  <2>2. TypeOK'
    BY <1>1, <2>1 DEF EndTask, TypeOK, history
  <2>3. ReceiptExists'
    BY <1>1, <2>1 DEF EndTask, ReceiptExists, TypeOK
  <2>. QED
    BY <1>1, <2>1, <2>2, <2>3 DEF EndTask, history, Sound
<1>2. CASE Requeue
  <2>1. TypeOK' /\ ReceiptExists'
    BY <1>2 DEF Requeue, TypeOK, history, ReceiptExists, Outcome
  <2>. QED
    BY <1>2, <2>1 DEF Requeue, history, Sound
<1>3. CASE Tick
  <2>1. \A s \in Stage : /\ Aged(receipt.stage[s]) \in Entry
                         /\ Aged(receipt.stage[s]).state = receipt.stage[s].state
    BY DeliveryAssumption DEF TypeOK, Receipt, Entry, Aged
  <2>2. receipt' = [receipt EXCEPT !.stage = [s \in Stage |-> Aged(receipt.stage[s])]]
    BY <1>3 DEF Tick
  <2>3. /\ receipt' \in Receipt
        /\ receipt'.id = receipt.id /\ receipt'.kind = receipt.kind
        /\ \A s \in Stage : receipt'.stage[s].state = receipt.stage[s].state
    BY <2>1, <2>2 DEF TypeOK, Receipt
  <2>4. TypeOK' /\ ReceiptExists'
    BY <1>3, <2>3 DEF Tick, TypeOK, history, ReceiptExists
  <2>5. Sound(receipt')
    BY <2>3 DEF Sound, Resolved
  <2>. QED
    BY <1>3, <2>4, <2>5 DEF Tick, history, Sound
<1>4. ASSUME NEW a \in Actors, Crash(a)
      PROVE  IInv'
  <2>1. TypeOK'
    BY <1>4, DeliveryAssumption DEF Crash, TypeOK, disk, history
  <2>2. ReceiptExists'
    BY <1>4 DEF Crash, TypeOK, disk, ReceiptExists
  <2>. QED
    BY <1>4, <2>1, <2>2 DEF Crash, disk, history, Sound
<1>5. ASSUME NEW a \in Actors, CoreBegin(a)
      PROVE  IInv'
  <2>1. TypeOK'
    BY <1>5, DeliveryAssumption DEF CoreBegin, Enter, TypeOK, disk, history
  <2>2. ReceiptExists'
    BY <1>5 DEF CoreBegin, Enter, TypeOK, disk, ReceiptExists
  <2>. QED
    BY <1>5, <2>1, <2>2 DEF CoreBegin, Enter, TypeOK, disk, history, Sound
<1>6. ASSUME NEW a \in Actors, DeliverBegin(a)
      PROVE  IInv'
  <2>1. receipt \in Receipt /\ Reconcile(receipt) = receipt
    BY ReconcileFacts DEF TypeOK
  <2>2. receipt' = receipt /\ work' = [work EXCEPT ![a] = receipt]
    BY <1>6, <2>1 DEF DeliverBegin, Enter
  <2>3. TypeOK'
    BY <1>6, <2>1, <2>2, DeliveryAssumption
    DEF DeliverBegin, Enter, TypeOK, history
  <2>4. ReceiptExists'
    BY <1>6, <2>2 DEF DeliverBegin, Enter, TypeOK, ReceiptExists
  <2>. QED
    BY <1>6, <2>2, <2>3, <2>4
    DEF DeliverBegin, TypeOK, history, Sound
<1>7. ASSUME NEW a \in Actors, DeliverSkip(a)
      PROVE  IInv'
  <2>1. TypeOK' /\ ReceiptExists'
    BY <1>7 DEF DeliverSkip, TypeOK, disk, history, ReceiptExists
  <2>. QED
    BY <1>7, <2>1 DEF DeliverSkip, disk, history, Sound
<1>8. ASSUME NEW a \in Actors, StageSkip(a)
      PROVE  IInv'
  <2>1. TypeOK' /\ ReceiptExists'
    BY <1>8, DeliveryAssumption
    DEF StageSkip, InPass, TypeOK, disk, history, ReceiptExists
  <2>. QED
    BY <1>8, <2>1 DEF StageSkip, disk, history, Sound
<1>9. ASSUME NEW a \in Actors, StageDefer(a)
      PROVE  IInv'
  <2>1. TypeOK' /\ ReceiptExists'
    BY <1>9, DeliveryAssumption
    DEF StageDefer, InPass, TypeOK, disk, history, ReceiptExists
  <2>. QED
    BY <1>9, <2>1 DEF StageDefer, disk, history, Sound
<1>10. ASSUME NEW a \in Actors, NEW result \in {"ok", "failed"}, StageRun(a, result)
       PROVE  IInv'
  BY <1>10, StageRunIInv
<1>11. ASSUME NEW a \in Actors, CoreEnd(a)
       PROVE  IInv'
  <2>1. receipt' \in Receipt /\ receipt'.id # 0 /\ Sound(receipt')
        /\ confirmed' \in [1..MaxOutcomes -> SUBSET Stage]
    BY <1>11, PersistIInv DEF CoreEnd
  <2>2. TypeOK' /\ ReceiptExists'
    BY <1>11, <2>1 DEF CoreEnd, TypeOK, ReceiptExists
  <2>. QED
    BY <1>11, <2>1, <2>2 DEF CoreEnd, Sound
<1>12. ASSUME NEW a \in Actors, DeliverEnd(a)
       PROVE  IInv'
  <2>1. receipt' \in Receipt /\ receipt'.id # 0 /\ Sound(receipt')
        /\ confirmed' \in [1..MaxOutcomes -> SUBSET Stage]
    BY <1>12, PersistIInv DEF DeliverEnd
  <2>2. TypeOK' /\ ReceiptExists'
    BY <1>12, <2>1 DEF DeliverEnd, TypeOK, ReceiptExists
  <2>. QED
    BY <1>12, <2>1, <2>2 DEF DeliverEnd, Sound
<1>13. CASE UNCHANGED vars
  BY <1>13 DEF vars, TypeOK, ReceiptExists, Sound, Resolved
<1>. QED
  BY <1>1, <1>2, <1>3, <1>4, <1>5, <1>6, <1>7, <1>8, <1>9, <1>10, <1>11,
     <1>12, <1>13 DEF Next, Advance

-----------------------------------------------------------------------------
LEMMA SpecIInv == Spec => []IInv
BY InitIInv, NextIInv, PTL DEF Spec

\* The receipt, the lock and every pass keep their types: in particular no
\* stage's attempts exceed TERMINAL_DELIVERY_MAX_ATTEMPTS.
THEOREM TypeCorrect == Spec => []TypeOK
BY SpecIInv, PTL DEF IInv

\* A stage that the receipt on disk calls succeeded was delivered for that
\* very receipt, whatever Core and coordinator passes raced or died.
THEOREM NoFalseConfirmation == Spec => []ConfirmedWasDelivered
<1>1. IInv => ConfirmedWasDelivered
  BY DEF IInv, Sound, ConfirmedWasDelivered
<1>. QED
  BY <1>1, SpecIInv, PTL

\* The in_progress reservation of a stage handler is never on disk, so
\* reconcile_interrupted_stages never finds one.
THEOREM ReservationNeverDurable == Spec => []NoReservationOnDisk
<1>1. IInv => NoReservationOnDisk
  BY DEF IInv, Sound, NoReservationOnDisk
<1>. QED
  BY <1>1, SpecIInv, PTL

-----------------------------------------------------------------------------
(***************************************************************************)
(* One process at a time.  The Core pass takes no lock, so what a receipt  *)
(* promises beyond ConfirmedWasDelivered rests on no other process being   *)
(* busy with the task.  Then a pass works on the receipt that is on disk   *)
(* (Following): its copy differs by the stages it has been through, each   *)
(* with one more attempt at most, which a crash can lose.                  *)
(***************************************************************************)

\* No two processes are busy with the task at once: what the code relies on
\* where the Core pass takes no lock.
OneAtATime == \A a, b \in Actors : pc[a] # "idle" /\ pc[b] # "idle" => a = b

Passing(a) == pc[a] \in {"core", "deliver"}

\* What a pass, and what it left on disk before it, say of the handlers that ran.
Following(a) ==
    /\ work[a].id = receipt.id /\ work[a].kind = receipt.kind
    /\ ~ran[a] => work[a].stage = receipt.stage
    /\ \A i \in 1..Len(StageOrder) : i >= pos[a] =>
          work[a].stage[StageOrder[i]] = receipt.stage[StageOrder[i]]
    /\ \A s \in Stage :
          /\ work[a].stage[s].attempts <= receipt.stage[s].attempts + 1
          /\ runs[receipt.id][s] <= work[a].stage[s].attempts + crashes
          /\ Resolved(receipt.stage[s]) => Resolved(work[a].stage[s])

\* The counts of the receipt on disk, when no pass runs.
Accounted ==
    receipt.id # 0 => \A s \in Stage :
        runs[receipt.id][s] <= receipt.stage[s].attempts + crashes

\* What was confirmed for the receipt on disk stays so.
Remembered ==
    receipt.id # 0 => \A s \in confirmed[receipt.id] : Resolved(receipt.stage[s])

\* Receipts are numbered by the outcomes, and an old one has had its attempts.
Numbered ==
    /\ receipt.id <= outcomes
    /\ \A i \in 1..MaxOutcomes : i > outcomes =>
          confirmed[i] = {} /\ \A s \in Stage : runs[i][s] = 0
    /\ \A i \in 1..MaxOutcomes : i # receipt.id =>
          \A s \in Stage : runs[i][s] <= MaxAttempts + crashes

SoleInv == /\ Numbered /\ Remembered /\ ReceiptMatchesOutcome
           /\ (\A a \in Actors : ~Passing(a)) => Accounted
           /\ \A a \in Actors : Passing(a) => Following(a)

\* Counts are numbers, and attempts within their limit.
LEMMA CountsTyped ==
    ASSUME TypeOK
    PROVE  /\ receipt.id \in 0..MaxOutcomes /\ MaxAttempts \in Nat /\ crashes \in Nat
           /\ outcomes \in 0..MaxOutcomes /\ MaxOutcomes \in Nat
           /\ \A i \in 1..MaxOutcomes : /\ confirmed[i] \subseteq Stage
                                        /\ \A s \in Stage : runs[i][s] \in Nat
           /\ \A s \in Stage : receipt.stage[s].attempts \in 0..MaxAttempts
           /\ \A a \in Actors : \A s \in Stage :
                 work[a].stage[s].attempts \in 0..MaxAttempts
BY DeliveryAssumption DEF TypeOK, Receipt, Entry

LEMMA InitSole == Init => SoleInv
<1> SUFFICES ASSUME Init
             PROVE  SoleInv
  OBVIOUS
<1>1. receipt.id = 0 /\ status = "open" /\ outcomes = 0 /\ crashes = 0
  BY DEF Init, NoReceipt, NewReceipt
<1>2. \A a \in Actors : ~Passing(a)
  BY DEF Init, Passing
<1>3. Numbered
  BY <1>1, DeliveryAssumption DEF Init, Numbered
<1> QED BY <1>1, <1>2, <1>3 DEF SoleInv, ReceiptMatchesOutcome, Outcome, Accounted, Remembered

\* A terminal write finds nobody busy, so the receipt it replaces is accounted
\* for, and the one it writes is new or of the outcome's kind.
LEMMA EndTaskSole ==
    ASSUME IInv, SoleInv, OneAtATime', NEW a \in Actors, NEW k \in Outcome, EndTask(a, k)
    PROVE  SoleInv'
<1>0. TypeOK
  BY DEF IInv
<1>1. /\ pc' = [pc EXCEPT ![a] = "ended"] /\ pc[a] = "idle" /\ outcomes < MaxOutcomes
      /\ UNCHANGED <<work, ran, pos, crashes, runs, confirmed>>
      /\ status' = k /\ outcomes' = outcomes + 1
  BY DEF EndTask, history
<1>2. \A b \in Actors : ~Passing(b) /\ ~Passing(b)'
  BY <1>0, <1>1 DEF OneAtATime, Passing, TypeOK
<1>3. Accounted /\ Numbered /\ Remembered
  BY <1>2 DEF SoleInv
<1>4. CASE receipt' = receipt /\ receipt.kind = k
  <2>1. Numbered' /\ Accounted' /\ Remembered'
    BY <1>0, <1>1, <1>3, <1>4, CountsTyped DEF Numbered, Accounted, Remembered
  <2> QED BY <1>1, <1>2, <1>4, <2>1 DEF SoleInv, ReceiptMatchesOutcome
<1>5. CASE receipt' = NewReceipt(outcomes + 1, k)
  <2>1. receipt'.id = outcomes + 1 /\ receipt'.kind = k
    BY <1>5 DEF NewReceipt
  <2>2. /\ \A s \in Stage : receipt'.stage[s].attempts = 0
        /\ outcomes + 1 \in 1..MaxOutcomes /\ outcomes + 1 > outcomes
    BY <1>0, <1>1, <1>5, CountsTyped DEF NewReceipt, NewEntry
  <2>3. Accounted' /\ Remembered'
    BY <1>0, <1>1, <1>3, <2>1, <2>2, CountsTyped DEF Accounted, Remembered, Numbered
  <2>4. ASSUME NEW i \in 1..MaxOutcomes, NEW s \in Stage, i # receipt'.id
        PROVE  runs[i][s] <= MaxAttempts + crashes
    <3>1. CASE i = receipt.id
      <4>1. runs[i][s] <= receipt.stage[s].attempts + crashes
        BY <1>3, <3>1 DEF Accounted
      <4> QED BY <1>0, <4>1, CountsTyped
    <3>2. CASE i # receipt.id
      BY <1>3, <3>2 DEF Numbered
    <3> QED BY <3>1, <3>2
  <2>5. /\ receipt'.id <= outcomes'
        /\ \A i \in 1..MaxOutcomes : i > outcomes' => i > outcomes
    BY <1>0, <1>1, <2>1, CountsTyped
  <2>6. Numbered'
    BY <1>1, <1>3, <2>4, <2>5 DEF Numbered
  <2> QED BY <1>1, <1>2, <2>1, <2>3, <2>6 DEF SoleInv, ReceiptMatchesOutcome
<1>6. \/ receipt' = receipt /\ receipt.kind = k
      \/ receipt' = NewReceipt(outcomes + 1, k)
  BY DEF EndTask, ReceiptOf
<1> QED BY <1>4, <1>5, <1>6

\* A pass begins with what is on disk.
LEMMA EnterSole ==
    ASSUME IInv, SoleInv, OneAtATime', NEW a \in Actors, NEW kind \in {"core", "deliver"},
           Enter(a, kind, receipt), ~Passing(a), receipt.id # 0,
           UNCHANGED <<disk, crashes, history>>
    PROVE  SoleInv'
<1>0. TypeOK
  BY DEF IInv
<1>1. /\ pc' = [pc EXCEPT ![a] = kind]
      /\ work'[a] = receipt /\ ran'[a] = FALSE
      /\ UNCHANGED <<status, receipt, outcomes, crashes, runs, confirmed>>
  BY <1>0 DEF Enter, disk, history, TypeOK
<1>2. \A b \in Actors : ~Passing(b) /\ (Passing(b)' => b = a)
  BY <1>0, <1>1 DEF OneAtATime, Passing, TypeOK
<1>3. Following(a)'
  <2>1. Accounted
    BY <1>2 DEF SoleInv
  <2>2. \A s \in Stage : receipt.stage[s].attempts <= receipt.stage[s].attempts + 1
    BY <1>0, CountsTyped
  <2> QED BY <1>1, <2>1, <2>2 DEF Following, Accounted
<1>4. Numbered' /\ Remembered' /\ ReceiptMatchesOutcome'
  BY <1>1 DEF SoleInv, Numbered, Remembered, ReceiptMatchesOutcome
<1>5. Passing(a)'
  BY <1>0, <1>1 DEF Passing, TypeOK
<1> QED BY <1>2, <1>3, <1>4, <1>5 DEF SoleInv

\* A stage that is skipped or deferred leaves the copy as it is.
LEMMA SkipSole ==
    ASSUME IInv, SoleInv, NEW a \in Actors, StageSkip(a) \/ StageDefer(a)
    PROVE  SoleInv'
<1>0. TypeOK
  BY DEF IInv
<1>1. /\ UNCHANGED <<status, receipt, outcomes, crashes, runs, confirmed, pc, work>>
      /\ pos' = [pos EXCEPT ![a] = @ + 1] /\ (ran' = ran \/ ran' = [ran EXCEPT ![a] = TRUE])
  BY DEF StageSkip, StageDefer, disk, history
<1>2. \A b \in Actors : Passing(b)' = Passing(b)
  BY <1>1 DEF Passing
<1>3. ASSUME NEW b \in Actors, Following(b)
      PROVE  Following(b)'
  <2>1. /\ \A i \in 1..Len(StageOrder) : i >= pos'[b] => i >= pos[b]
        /\ ~ran'[b] => ~ran[b]
    BY <1>0, <1>1, DeliveryAssumption DEF TypeOK
  <2> QED BY <1>1, <1>3, <2>1 DEF Following
<1>4. Numbered' /\ Remembered' /\ ReceiptMatchesOutcome' /\ (Accounted => Accounted')
  BY <1>1 DEF SoleInv, Numbered, Remembered, ReceiptMatchesOutcome, Accounted
<1> QED BY <1>2, <1>3, <1>4 DEF SoleInv

\* A handler that runs is counted by one attempt.
LEMMA SettleCounts ==
    ASSUME NEW s \in Stage, NEW e \in Entry, NEW result \in {"ok", "failed"},
           e.state # "in_progress"
    PROVE  Settle(s, Reserved(e), result).attempts = e.attempts + 1
<1>1. e.attempts \in Nat /\ Reserved(e) = Reserve(e)
  BY DeliveryAssumption DEF Entry, Reserved
<1>2. Reserve(e).attempts = e.attempts + 1 /\ Reserve(e).attempts # 0
  BY <1>1 DEF Reserve
<1> QED BY <1>1, <1>2 DEF Settle, Succeed, RetryUncertain, RetryLater

\* One more run, one more attempt in the copy; a confirmed stage is not run.
LEMMA StageRunSole ==
    ASSUME IInv, SoleInv, OneAtATime', NEW a \in Actors, NEW result \in {"ok", "failed"},
           StageRun(a, result)
    PROVE  /\ SoleInv'
           /\ \A i \in 1..MaxOutcomes : \A t \in Stage :
                 runs'[i][t] > runs[i][t] => t \notin confirmed[i]
<1> DEFINE s == CurrentStage(a)
           e == work[a].stage[s]
           f == Settle(s, Reserved(e), result)
<1>0. TypeOK /\ InPass(a) /\ Runs(a) /\ Passing(a)
  BY DEF IInv, StageRun, InPass, Passing
<1>1. Following(a) /\ Numbered /\ Remembered /\ ReceiptMatchesOutcome
  BY <1>0 DEF SoleInv
<1>2. s \in Stage /\ e \in Entry /\ receipt.id \in 1..MaxOutcomes
  <2>1. s \in Stage
    BY <1>0, CurrentStageIsStage
  <2>2. work[a].id # 0 /\ work[a] \in Receipt
    BY <1>0 DEF IInv, ReceiptExists, Passing, TypeOK
  <2> QED BY <1>1, <2>1, <2>2, DeliveryAssumption DEF Following, Receipt
<1>3. f.attempts = e.attempts + 1
  <2>1. e.state # "in_progress"
    BY <1>2 DEF IInv, Sound
  <2> HIDE DEF s, e
  <2> QED BY <1>2, <2>1, SettleCounts
<1>4. ~Resolved(e)
  BY <1>0 DEF Runs, CurrentEntry
<1>5. /\ UNCHANGED <<status, receipt, outcomes, crashes, confirmed, pc>>
      /\ runs' = [runs EXCEPT ![receipt.id][s] = @ + 1]
      /\ pos' = [pos EXCEPT ![a] = @ + 1] /\ ran' = [ran EXCEPT ![a] = TRUE]
  BY <1>1 DEF StageRun, disk, Following
<1>6. work' = [work EXCEPT ![a].stage[s] = f]
  BY DEF StageRun
<1>7. /\ work'[a].id = work[a].id /\ work'[a].kind = work[a].kind
      /\ \A t \in Stage : work'[a].stage[t] = IF t = s THEN f ELSE work[a].stage[t]
  <2> HIDE DEF f, s
  <2> QED BY <1>0, <1>2, <1>6 DEF TypeOK, Receipt
<1>8. \A i \in 1..MaxOutcomes : \A t \in Stage :
        runs'[i][t] = IF i = receipt.id /\ t = s THEN runs[i][t] + 1 ELSE runs[i][t]
  <2>1. runs \in [1..MaxOutcomes -> [Stage -> Nat]]
    BY <1>0 DEF TypeOK
  <2> HIDE DEF s
  <2> QED BY <1>2, <1>5, <2>1
<1>9. ~Resolved(receipt.stage[s]) /\ s \notin confirmed[receipt.id]
  BY <1>1, <1>2, <1>4 DEF Following, Remembered
<1> HIDE DEF s, f
<1>10. \A i \in 1..MaxOutcomes : \A t \in Stage :
         runs'[i][t] > runs[i][t] => t \notin confirmed[i]
  BY <1>0, <1>8, <1>9, CountsTyped
<1>11. Following(a)'
  <2>1. ran'[a] = TRUE /\ pos'[a] = pos[a] + 1 /\ pos[a] \in 1..Len(StageOrder)
    BY <1>0, <1>5, DeliveryAssumption DEF InPass, TypeOK
  <2>2. \A i \in 1..Len(StageOrder) : i >= pos'[a] =>
           work'[a].stage[StageOrder[i]] = receipt.stage[StageOrder[i]]
    <3>1. \A i \in 1..Len(StageOrder) : i >= pos'[a] =>
            /\ i >= pos[a] /\ StageOrder[i] \in Stage /\ StageOrder[i] # s
      BY <2>1, DeliveryAssumption DEF Stage, s, CurrentStage
    <3> QED BY <1>1, <1>7, <3>1 DEF Following
  <2>3. e.attempts <= receipt.stage[s].attempts /\ e.attempts \in Nat
    <3>1. e = receipt.stage[s]
      BY <1>1, <2>1 DEF Following, s, CurrentStage
    <3> QED BY <1>0, <1>2, <3>1, CountsTyped
  <2>4. ASSUME NEW t \in Stage
        PROVE  /\ work'[a].stage[t].attempts <= receipt.stage[t].attempts + 1
               /\ runs'[receipt.id][t] <= work'[a].stage[t].attempts + crashes
               /\ Resolved(receipt.stage[t]) => Resolved(work'[a].stage[t])
    <3>1. CASE t = s
      <4>1. runs[receipt.id][s] <= e.attempts + crashes
        BY <1>1, <1>2 DEF Following
      <4> HIDE DEF e
      <4> QED BY <1>0, <1>2, <1>3, <1>7, <1>8, <1>9, <2>3, <3>1, <4>1, CountsTyped
    <3>2. CASE t # s
      BY <1>1, <1>2, <1>7, <1>8, <3>2 DEF Following
    <3> QED BY <3>1, <3>2
  <2> QED BY <1>1, <1>5, <1>7, <2>1, <2>2, <2>4 DEF Following
<1>12. Numbered'
  <2>1. \A i \in 1..MaxOutcomes : i # receipt.id => \A t \in Stage : runs'[i][t] = runs[i][t]
    BY <1>8
  <2>2. \A i \in 1..MaxOutcomes : i > outcomes => i # receipt.id
    BY <1>0, <1>1, CountsTyped DEF Numbered
  <2> QED BY <1>1, <1>5, <2>1, <2>2 DEF Numbered
<1>13. Remembered' /\ ReceiptMatchesOutcome'
  BY <1>1, <1>5 DEF Remembered, ReceiptMatchesOutcome
<1>14. \A b \in Actors : (b # a => ~Passing(b)') /\ Passing(a)'
  BY <1>0, <1>5 DEF OneAtATime, Passing
<1> QED BY <1>10, <1>11, <1>12, <1>13, <1>14 DEF SoleInv

\* The copy that replaces the receipt is one of the same receipt.
LEMMA EndPassSole ==
    ASSUME IInv, SoleInv, OneAtATime, NEW a \in Actors, Passing(a), Persist(a),
           NEW next \in {"told", "idle"}, pc' = [pc EXCEPT ![a] = next],
           UNCHANGED <<status, outcomes, crashes, runs>>
    PROVE  SoleInv'
<1>0. TypeOK /\ work[a].id # 0
  BY DEF IInv, ReceiptExists, Passing
<1>1. Following(a) /\ Numbered /\ Remembered /\ ReceiptMatchesOutcome
  BY DEF SoleInv
<1>2. \A b \in Actors : ~Passing(b)'
  BY <1>0 DEF OneAtATime, Passing, TypeOK
<1>3. receipt.id \in 1..MaxOutcomes /\ work[a].id = receipt.id
  BY <1>0, <1>1, CountsTyped DEF Following
<1>4. CASE ~ran[a]
  <2>1. receipt' = receipt /\ confirmed' = confirmed
    BY <1>4 DEF Persist
  <2>2. Accounted
    BY <1>1, <1>4 DEF Following, Accounted
  <2> QED BY <1>1, <1>2, <2>1, <2>2
          DEF SoleInv, Numbered, Remembered, ReceiptMatchesOutcome, Accounted
<1>5. CASE ran[a]
  <2>1. /\ receipt' = work[a]
        /\ confirmed' = [confirmed EXCEPT ![receipt.id] =
                @ \cup {s \in Stage : Resolved(work[a].stage[s])}]
    BY <1>3, <1>5 DEF Persist
  <2>2. Accounted'
    BY <1>1, <1>3, <2>1 DEF Following, Accounted
  <2>3. Remembered'
    <3>1. confirmed'[receipt.id] = confirmed[receipt.id]
                                     \cup {s \in Stage : Resolved(work[a].stage[s])}
      BY <1>0, <1>3, <2>1 DEF TypeOK
    <3>2. \A s \in confirmed[receipt.id] : s \in Stage /\ Resolved(work[a].stage[s])
      BY <1>0, <1>1, <1>3, CountsTyped DEF Following, Remembered
    <3> QED BY <1>3, <2>1, <3>1, <3>2 DEF Remembered
  <2>4. Numbered'
    <3>1. \A i \in 1..MaxOutcomes : i > outcomes => i # receipt.id
      BY <1>0, <1>1, CountsTyped DEF Numbered
    <3>2. \A i \in 1..MaxOutcomes : i # receipt.id => confirmed'[i] = confirmed[i]
      BY <1>0, <2>1 DEF TypeOK
    <3> QED BY <1>1, <1>3, <2>1, <3>1, <3>2 DEF Numbered
  <2>5. ReceiptMatchesOutcome'
    BY <1>1, <2>1 DEF Following, ReceiptMatchesOutcome
  <2> QED BY <1>2, <2>2, <2>3, <2>4, <2>5 DEF SoleInv
<1> QED BY <1>4, <1>5

\* A pass that dies loses the attempt it was making, and is one crash more.
LEMMA CrashSole ==
    ASSUME IInv, SoleInv, OneAtATime, NEW a \in Actors, Crash(a)
    PROVE  SoleInv'
<1>0. TypeOK
  BY DEF IInv
<1>1. /\ UNCHANGED <<status, receipt, outcomes, runs, confirmed, work, pos, ran>>
      /\ crashes' = crashes + 1 /\ pc' = [pc EXCEPT ![a] = "idle"] /\ pc[a] # "idle"
  BY DEF Crash, disk, history
<1>2. \A b \in Actors : (b # a => ~Passing(b)) /\ ~Passing(b)'
  BY <1>0, <1>1 DEF OneAtATime, Passing, TypeOK
<1>3. Accounted'
  <2>1. CASE Passing(a)
    <3>1. ASSUME NEW s \in Stage, receipt.id # 0
          PROVE  runs[receipt.id][s] <= receipt.stage[s].attempts + (crashes + 1)
      <4>1. /\ runs[receipt.id][s] <= work[a].stage[s].attempts + crashes
            /\ work[a].stage[s].attempts <= receipt.stage[s].attempts + 1
        BY <2>1 DEF SoleInv, Following
      <4> QED BY <1>0, <3>1, <4>1, CountsTyped
    <3> QED BY <1>1, <3>1 DEF Accounted
  <2>2. CASE ~Passing(a)
    <3>1. Accounted
      BY <1>2, <2>2 DEF SoleInv
    <3> QED BY <1>0, <1>1, <3>1, CountsTyped DEF Accounted
  <2> QED BY <2>1, <2>2
<1>4. Numbered'
  <2>1. \A i \in 1..MaxOutcomes : i # receipt.id =>
          \A s \in Stage : runs[i][s] <= MaxAttempts + (crashes + 1)
    <3>1. Numbered
      BY DEF SoleInv
    <3> QED BY <1>0, <3>1, CountsTyped DEF Numbered
  <2> QED BY <1>1, <2>1 DEF SoleInv, Numbered
<1> QED BY <1>1, <1>2, <1>3, <1>4 DEF SoleInv, Remembered, ReceiptMatchesOutcome

\* Time, requeues and passes that are called off touch no count.
LEMMA QuietSole ==
    ASSUME IInv, SoleInv,
           \/ UNCHANGED vars \/ Requeue \/ Tick \/ \E a \in Actors : DeliverSkip(a)
    PROVE  SoleInv'
<1>0. TypeOK
  BY DEF IInv
<1>1. CASE Tick
  <2>1. \A a \in Actors : ~Passing(a) /\ ~Passing(a)'
    BY <1>1 DEF Tick, Passing
  <2>2. /\ receipt'.id = receipt.id /\ receipt'.kind = receipt.kind
        /\ \A s \in Stage : /\ receipt'.stage[s].state = receipt.stage[s].state
                            /\ receipt'.stage[s].attempts = receipt.stage[s].attempts
    BY <1>0, <1>1 DEF Tick, Aged, TypeOK, Receipt
  <2>3. UNCHANGED <<status, outcomes, crashes, runs, confirmed>>
    BY <1>1 DEF Tick, history
  <2>4. Accounted
    BY <2>1 DEF SoleInv
  <2>5. Accounted'
    BY <2>2, <2>3, <2>4 DEF Accounted
  <2>6. Numbered' /\ ReceiptMatchesOutcome'
    BY <2>2, <2>3 DEF SoleInv, Numbered, ReceiptMatchesOutcome
  <2>7. Remembered'
    BY <1>0, <2>2, <2>3, CountsTyped DEF SoleInv, Remembered, Resolved
  <2> QED BY <2>1, <2>5, <2>6, <2>7 DEF SoleInv
<1>2. CASE UNCHANGED vars \/ Requeue \/ \E a \in Actors : DeliverSkip(a)
  <2>1. /\ UNCHANGED <<receipt, outcomes, crashes, runs, confirmed, work, pos, ran>>
        /\ status' = status \/ status' = "open"
        /\ \A b \in Actors : Passing(b)' = Passing(b)
    BY <1>0, <1>2 DEF vars, Requeue, DeliverSkip, disk, history, Passing, TypeOK
  <2>2. Numbered' /\ Remembered' /\ ReceiptMatchesOutcome' /\ (Accounted => Accounted')
    BY <2>1 DEF SoleInv, Numbered, Remembered, ReceiptMatchesOutcome, Accounted, Outcome
  <2>3. \A b \in Actors : Following(b) => Following(b)'
    BY <2>1 DEF Following
  <2> QED BY <2>1, <2>2, <2>3 DEF SoleInv
<1> QED BY <1>1, <1>2

\* Only StageRun counts runs.
LEMMA NextSole ==
    IInv /\ SoleInv /\ OneAtATime /\ OneAtATime' /\ [Next]_vars =>
        /\ SoleInv'
        /\ \A i \in 1..MaxOutcomes : \A s \in Stage :
              runs'[i][s] > runs[i][s] => s \notin confirmed[i]
<1> SUFFICES ASSUME IInv, SoleInv, OneAtATime, OneAtATime', [Next]_vars
             PROVE  /\ SoleInv'
                    /\ \A i \in 1..MaxOutcomes : \A s \in Stage :
                          runs'[i][s] > runs[i][s] => s \notin confirmed[i]
  OBVIOUS
<1>0. TypeOK /\ \A i \in 1..MaxOutcomes : \A s \in Stage : ~(runs[i][s] > runs[i][s])
  BY CountsTyped DEF IInv
<1>1. ASSUME NEW a \in Actors, NEW result \in {"ok", "failed"}, StageRun(a, result)
      PROVE  /\ SoleInv'
             /\ \A i \in 1..MaxOutcomes : \A s \in Stage :
                   runs'[i][s] > runs[i][s] => s \notin confirmed[i]
  BY <1>1, StageRunSole
<1>2. ASSUME NEW a \in Actors, NEW k \in Outcome, EndTask(a, k)
      PROVE  SoleInv' /\ runs' = runs
  BY <1>2, EndTaskSole DEF EndTask, history
<1>3. ASSUME NEW a \in Actors, CoreBegin(a)
      PROVE  SoleInv' /\ runs' = runs
  <2>1. /\ Enter(a, "core", receipt) /\ ~Passing(a) /\ receipt.id # 0
        /\ UNCHANGED <<disk, crashes, history>>
    BY <1>3 DEF CoreBegin, Passing, IInv, ReceiptExists
  <2> QED BY <2>1, EnterSole DEF history
<1>4. ASSUME NEW a \in Actors, DeliverBegin(a)
      PROVE  SoleInv' /\ runs' = runs
  <2>1. receipt' = receipt /\ Enter(a, "deliver", receipt)
    BY <1>0, <1>4, ReconcileFacts DEF DeliverBegin, IInv, TypeOK
  <2>2. ~Passing(a) /\ receipt.id # 0 /\ UNCHANGED <<disk, crashes, history>>
    BY <1>4, <2>1 DEF DeliverBegin, WantsPass, Passing, IInv, ReceiptExists, disk
  <2> QED BY <2>1, <2>2, EnterSole DEF history
<1>5. ASSUME NEW a \in Actors, StageSkip(a) \/ StageDefer(a)
      PROVE  SoleInv' /\ runs' = runs
  BY <1>5, SkipSole DEF StageSkip, StageDefer, history
<1>6. ASSUME NEW a \in Actors, CoreEnd(a) \/ DeliverEnd(a)
      PROVE  SoleInv' /\ runs' = runs
  <2>1. /\ Passing(a) /\ Persist(a) /\ UNCHANGED <<status, outcomes, crashes, runs>>
        /\ \E next \in {"told", "idle"} : pc' = [pc EXCEPT ![a] = next]
    BY <1>6 DEF CoreEnd, DeliverEnd, Passing
  <2> QED BY <2>1, EndPassSole
<1>7. ASSUME NEW a \in Actors, Crash(a)
      PROVE  SoleInv' /\ runs' = runs
  BY <1>7, CrashSole DEF Crash, history
<1>8. ASSUME \/ UNCHANGED vars \/ Requeue \/ Tick \/ \E a \in Actors : DeliverSkip(a)
      PROVE  SoleInv' /\ runs' = runs
  BY <1>8, QuietSole DEF vars, Requeue, Tick, DeliverSkip, history
<1> QED BY <1>0, <1>1, <1>2, <1>3, <1>4, <1>5, <1>6, <1>7, <1>8 DEF Next, Advance

\* With everyone's attempts accounted for, the limit bounds the runs.
LEMMA SoleTrue == IInv /\ SoleInv => ReceiptTrue
<1> SUFFICES ASSUME IInv, SoleInv, NEW i \in 1..MaxOutcomes, NEW s \in Stage
             PROVE  runs[i][s] <= MaxAttempts + crashes
  BY DEF ReceiptTrue, RunsBounded, SoleInv
<1>0. TypeOK
  BY DEF IInv
<1>1. CASE i # receipt.id
  BY <1>1 DEF SoleInv, Numbered
<1>2. CASE i = receipt.id /\ \A a \in Actors : ~Passing(a)
  <2>1. runs[i][s] <= receipt.stage[s].attempts + crashes
    BY <1>2 DEF SoleInv, Accounted
  <2> QED BY <1>0, <2>1, CountsTyped
<1>3. ASSUME i = receipt.id, NEW a \in Actors, Passing(a)
      PROVE  runs[i][s] <= MaxAttempts + crashes
  <2>1. runs[i][s] <= work[a].stage[s].attempts + crashes
    BY <1>3 DEF SoleInv, Following
  <2> QED BY <1>0, <2>1, CountsTyped
<1> QED BY <1>1, <1>2, <1>3

-----------------------------------------------------------------------------
\* As long as no two processes are busy with a task at once, its receipt is that
\* of its outcome, and the attempts it counts bound the handlers that really ran,
\* up to one per crash (terminal_write, deliver_stages, persist).
THEOREM SoleReceiptTrue == Spec /\ []OneAtATime => []ReceiptTrue
<1>1. Spec /\ []OneAtATime => []SoleInv
  <2>1. IInv /\ SoleInv /\ OneAtATime /\ OneAtATime' /\ [Next]_vars => SoleInv'
    BY NextSole
  <2> QED BY <2>1, InitSole, SpecIInv, PTL DEF Spec
<1> QED BY <1>1, SpecIInv, SoleTrue, PTL

\* And no handler runs again for a stage that was confirmed on disk, however often
\* the passes are repeated and interrupted (deliver_stages).
THEOREM SoleNeverRepeats == Spec /\ []OneAtATime => ConfirmedNeverRepeated
<1> DEFINE Repeats == \A i \in 1..MaxOutcomes : \A s \in Stage :
              runs'[i][s] > runs[i][s] => s \notin confirmed[i]
<1>1. Spec /\ []OneAtATime => []SoleInv
  <2>1. IInv /\ SoleInv /\ OneAtATime /\ OneAtATime' /\ [Next]_vars => SoleInv'
    BY NextSole
  <2> QED BY <2>1, InitSole, SpecIInv, PTL DEF Spec
<1>2. IInv /\ SoleInv /\ OneAtATime /\ OneAtATime' /\ [Next]_vars => [Repeats]_vars
  BY NextSole
<1> QED BY <1>1, <1>2, SpecIInv, PTL DEF Spec, ConfirmedNeverRepeated

=============================================================================
