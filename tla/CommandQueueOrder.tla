-------------------------- MODULE CommandQueueOrder -------------------------
(* CommandQueue implements FenceOrder as long as a timeout is final.        *)
EXTENDS CommandQueue, Sequences

(* The commands between head and tail while the queue is on. *)
Todo ==
  IF cqcsr.cqon
  THEN [i \in 1 .. (cqt + cqb - cqh) % cqb |-> mem[(cqh + i - 1) % cqb]]
  ELSE << >>

(* An ATS.INVAL that is stalled was taken, and counts as outstanding. *)
Outstanding ==
  [d \in Requesters |->
     Cardinality({a \in answers : a.dev = d /\ ~a.late}) +
     (IF command_queue_stall_for_itag /\ pending_inval_req = d THEN 1 ELSE 0)]

Promise == INSTANCE FenceOrder
             WITH Commands <- Commands \cup {Blank},
                  todo <- Todo, outstanding <- Outstanding, missed <- unreported

(* Commands run in order, none is skipped or run twice, and a fence is      *)
(* passed only over requests that are settled and reported: no ring         *)
(* arithmetic, stall, disable or retry changes what software observes.      *)
KeepsFenceOrder == Promise!Spec
=============================================================================
