--------------------------- MODULE MCEventQueues ---------------------------
(* Instances of EventQueues for TLC. *)
EXTENDS EventQueuesLog

OnlySmall     == [q \in Queues |-> {2}]
SmallAndLarge == [q \in Queues |-> {2, 4}]

OneCause == {13}
LastAndStop == {"last", "stop"}
OnlyLast == {"last"}

CONSTANTS v0, v1

(* All units share a vector, or the fault queue has one of its own. *)
Shared   == [u \in Units |-> v0]
Separate == [u \in Units |-> IF u = "FQ" THEN v1 ELSE v0]
BothMaps == {Shared, Separate}
SharedMap == {Shared}

TwoVectors == {v0, v1}
OneVector == {v0}

OnlyPageRequests == {"PRI"}
FaultsCommandsCounters == {"XLAT", "CQ", "PM"}

EitherIe == BOOLEAN
AlwaysIe == {TRUE}

AckAllOrNone == {{}, {"mf", "of"}}
=============================================================================
