--------------------------- MODULE EventQueuesLog ---------------------------
(***************************************************************************)
(* The fault queue and the page-request queue implement EventLog: between  *)
(* head and tail lies what software has not read, and an error bit is what *)
(* tells it that the log was broken.                                       *)
(***************************************************************************)
EXTENDS EventQueues, Sequences

(* The log a queue in memory stands for. *)
Log(q) ==
  IF q.on
  THEN [i \in 1 .. (q.tail - q.head) % q.size |-> q.mem[(q.head + i - 1) % q.size]]
  ELSE <<>>

FaultLog == INSTANCE EventLog WITH
  Records <- CauseCodes, log <- Log(queue["FQ"]), on <- queue["FQ"].on,
  broken <- queue["FQ"].mf \/ queue["FQ"].of

PageLog == INSTANCE EventLog WITH
  Records <- RequestKinds, log <- Log(queue["PQ"]), on <- queue["PQ"].on,
  broken <- queue["PQ"].mf \/ queue["PQ"].of

(* Software that reads at the head finds the fault records in the order     *)
(* they were reported, without an unwritten one among them, and none is     *)
(* missing in front of the point where an error bit was set; so also when   *)
(* one call stores several records, and however the queue is turned off,    *)
(* resized and turned on again.                                             *)
KeepsFaultLog == FaultLog!Spec

(* The same for page requests. *)
KeepsPageLog == PageLog!Spec
=============================================================================
