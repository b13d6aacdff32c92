------------------------------ MODULE EventLog ------------------------------
(***************************************************************************)
(* What the fault queue and the page-request queue promise to software: a  *)
(* log that grows at its end and is read at its front.  A record that does *)
(* not fit breaks the log, visibly; a broken log does not grow until       *)
(* software repairs it, so what software reads is always the events in the *)
(* order they happened, without a gap it was not told of.                  *)
(***************************************************************************)
EXTENDS Naturals, Sequences

CONSTANT Records   \* the records a queue can hold

VARIABLES
  log,      \* the records software has not read
  on,       \* the queue is on
  broken    \* an error bit is set

Init == log = <<>> /\ on = FALSE /\ broken = FALSE

(* One call of the model reports one or more events; the first that cannot  *)
(* be stored is lost, breaks the log and ends the growth.                   *)
Report ==
  /\ on /\ ~broken
  /\ Len(log) <= Len(log') /\ log = SubSeq(log', 1, Len(log))
  /\ \A i \in 1 .. Len(log') : log'[i] \in Records
  /\ log' # log \/ broken'
  /\ UNCHANGED on

Take ==
  /\ on /\ log # <<>>
  /\ log' = Tail(log)
  /\ UNCHANGED <<on, broken>>

Repair == broken /\ ~broken' /\ UNCHANGED <<log, on>>

TurnOn == ~on /\ on' /\ log' = <<>> /\ ~broken'

(* Records that are unread when the queue goes off are no longer promised;  *)
(* the same write may acknowledge the errors.                               *)
TurnOff == on /\ ~on' /\ log' = <<>> /\ (broken' => broken)

Next == Report \/ Take \/ Repair \/ TurnOn \/ TurnOff

Spec == Init /\ [][Next]_<<log, on, broken>>
=============================================================================
