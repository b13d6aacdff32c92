----------------------------- MODULE FenceOrder -----------------------------
(***************************************************************************)
(* What the command queue promises software, without registers, trackers   *)
(* or a ring: commands are taken in the order they were queued; an         *)
(* ATS.INVAL that was taken is outstanding until its device answered it or *)
(* it timed out; an IOFENCE.C is passed only when nothing is outstanding   *)
(* and no timeout is left unreported.                                      *)
(***************************************************************************)
EXTENDS Naturals, Sequences

CONSTANTS
  Commands,    \* commands: records with the fields op and dev
  Requesters   \* the devices ATS.INVAL names

VARIABLES
  todo,         \* the queued commands, oldest first
  outstanding,  \* outstanding[d]: requests to d neither answered nor given up
  missed        \* a timeout was not reported yet

vars == <<todo, outstanding, missed>>

None == [d \in Requesters |-> 0]

Init ==
  /\ todo = << >>
  /\ outstanding = None
  /\ missed = FALSE

Queue(c) ==
  /\ todo' = Append(todo, c)
  /\ UNCHANGED <<outstanding, missed>>

(* Any command but a fence. *)
Take ==
  /\ todo # << >> /\ Head(todo).op # "IOFENCE"
  /\ todo' = Tail(todo)
  /\ outstanding' = IF Head(todo).op = "ATS_INVAL"
                    THEN [outstanding EXCEPT ![Head(todo).dev] = @ + 1]
                    ELSE outstanding
  /\ UNCHANGED missed

(* Requests are answered or, when lost, time out. *)
Settle(lost) ==
  /\ outstanding' \in [Requesters -> Nat]
  /\ \A d \in Requesters : outstanding'[d] <= outstanding[d]
  /\ missed' = (missed \/ lost)
  /\ UNCHANGED todo

(* A fence ends, perhaps in the step that settles the last request it       *)
(* waited for: it is passed, or it reports the timeouts and stays.          *)
PassFence ==
  /\ todo # << >> /\ Head(todo).op = "IOFENCE"
  /\ outstanding' = None
  /\ ~missed /\ UNCHANGED missed
  /\ todo' = Tail(todo)

ReportTimeout ==
  /\ todo # << >> /\ Head(todo).op = "IOFENCE"
  /\ outstanding' = None
  /\ missed' = FALSE
  /\ UNCHANGED todo

(* Software switches the queue off, which drops what it holds; a fence that *)
(* waits ends first, so that the queue may also go off in its step.         *)
Off ==
  /\ todo' = << >>
  /\ \/ UNCHANGED <<outstanding, missed>>
     \/ outstanding' = None /\ missed' = FALSE

(* Software switches the queue on, with whatever the memory holds. *)
On ==
  /\ todo = << >>
  /\ todo' \in Seq(Commands)
  /\ UNCHANGED <<outstanding, missed>>

Next ==
  \/ \E c \in Commands : Queue(c)
  \/ Take
  \/ \E lost \in BOOLEAN : Settle(lost)
  \/ PassFence \/ ReportTimeout
  \/ Off \/ On

Spec == Init /\ [][Next]_vars
=============================================================================
