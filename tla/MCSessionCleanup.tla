-------------------------- MODULE MCSessionCleanup --------------------------
(* Instances of SessionCleanup.  "runner" is the Runner's maintenance        *)
(* thread, "cli" the command line of task cancel.                            *)
EXTENDS CodexCleanup

MCOneAux == <<"a">>
MCTwoAux == <<"b", "a">>

Kind(codex, keep) == [codex |-> codex, keep |-> keep]
MCMixed == {Kind({"a"}, {}), Kind({"p"}, {}), Kind({"a"}, {"p"})}
MCClaude == {Kind({}, {})}
MCFamily == {Kind({"p", "a", "b"}, {}), Kind({"p", "a", "b"}, {"a"})}

MCFollowed == {Kind({"p", "a"}, {})}
MCFollowedFamily == {Kind({"p", "a", "b"}, {})}

MCModes == [p \in Processes |->
               IF p = "runner" THEN {"maintain", "wake", "ack"} ELSE {"cli"}]
=============================================================================
