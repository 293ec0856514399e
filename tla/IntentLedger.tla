---------------------------- MODULE IntentLedger ----------------------------
(***************************************************************************)
(* What a durable ledger of intents promises about calls whose effect      *)
(* cannot be undone and may be unknown: an intent is on record before its  *)
(* call, there is at most one call for every intent and a limit to the     *)
(* intents, an item whose outcome is known is never called again, and a    *)
(* new generation of items begins only when all of the old one is closed.  *)
(***************************************************************************)
EXTENDS Naturals

CONSTANTS
    Item,
    Limit       \* intents per item, a natural number

VARIABLES
    intents,    \* intents on record, per item
    calls,      \* calls made
    closed      \* items whose outcome is known, or that are nobody's to call

ledger == <<intents, calls, closed>>

None == [i \in Item |-> 0]

Init == intents = None /\ calls = None /\ closed \in SUBSET Item

Intend(i) ==
    /\ i \notin closed
    /\ intents[i] < Limit
    /\ intents' = [intents EXCEPT ![i] = @ + 1]
    /\ UNCHANGED <<calls, closed>>

Call(i) ==
    /\ i \notin closed
    /\ calls[i] < intents[i]
    /\ calls' = [calls EXCEPT ![i] = @ + 1]
    /\ UNCHANGED <<intents, closed>>

Close(i) ==
    /\ i \notin closed
    /\ closed' = closed \cup {i}
    /\ UNCHANGED <<intents, calls>>

Renew ==
    /\ closed = Item
    /\ closed' \in SUBSET Item
    /\ intents' = None
    /\ calls' = None

Next == Renew \/ \E i \in Item : Intend(i) \/ Call(i) \/ Close(i)

Spec == Init /\ [][Next]_ledger

-----------------------------------------------------------------------------
\* Intents and calls stay within the limit, per item.
TypeOK ==
    /\ intents \in [Item -> 0..Limit]
    /\ calls \in [Item -> 0..Limit]
    /\ closed \subseteq Item

\* No more calls than intents, no more intents than the limit.
Bounded == \A i \in Item : calls[i] <= intents[i] /\ intents[i] <= Limit

\* An item that is closed stays closed and is not called, while some item of
\* its generation is open.
ClosedStays ==
    \A i \in Item : i \in closed /\ closed # Item => i \in closed' /\ calls'[i] = calls[i]

ClosedIsFinal == [][ClosedStays]_ledger
=============================================================================
