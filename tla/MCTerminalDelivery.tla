------------------------- MODULE MCTerminalDelivery -------------------------
(* Instances of TerminalDelivery.  "worker" is the contained worker process *)
(* that finalizes its own task, "cli" another process that ends it, and     *)
(* "runner" the maintenance thread.                                         *)
EXTENDS TerminalDelivery

MCStageOrder == <<"report", "index", "ui_notification">>
MCTwoStages == <<"report", "ui_notification">>
MCIndexStages == <<"index", "ui_notification">>

MCUncertainStages == {"ui_notification"}

\* Core refreshes the index everywhere but in a worker.
MCCoreStages ==
    [a \in Actors |-> (Stage \ MCUncertainStages) \
                         (IF a = "worker" THEN {"index"} ELSE {})]

\* WORKER_DEFERRED_TERMINAL_STAGES
MCDeferred ==
    [a \in Actors |-> IF a = "worker" THEN {"index"} \cap Stage ELSE {}]
=============================================================================
