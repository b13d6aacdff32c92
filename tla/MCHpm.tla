------------------------------- MODULE MCHpm -------------------------------
(* Instance of Hpm for TLC: two counters that take writes and one that does *)
(* not, of two bits with halves of one; identifiers of three bits.          *)
EXTENDS Hpm

(* Events of a device and of a process, of a walk for a guest, and one of   *)
(* a guest without a process.                                               *)
Request(did, pv, pid) ==
  [eventID |-> 1, PV |-> pv, PID |-> pid, PSCV |-> FALSE, PSCID |-> 0,
   DID |-> did, GSCV |-> FALSE, GSCID |-> 0]
WalkFor(did, pscv, gscv, gscid) ==
  [eventID |-> 2, PV |-> FALSE, PID |-> 0, PSCV |-> pscv, PSCID |-> 1,
   DID |-> did, GSCV |-> gscv, GSCID |-> gscid]

SomeEvents ==
  {Request(1, FALSE, 0), Request(3, TRUE, 1), Request(5, TRUE, 0),
   WalkFor(1, TRUE, TRUE, 2), WalkFor(3, FALSE, TRUE, 3), WalkFor(3, TRUE, FALSE, 0)}

(* A block of devices, a process of one device, a process of a guest, an    *)
(* event the IOMMU does not have that also writes OF.                       *)
Sel == [eventID |-> 1, dmask |-> FALSE, pid_pscid |-> 0, did_gscid |-> 0,
        pv_pscv |-> FALSE, dv_gscv |-> FALSE, idt |-> FALSE, of |-> FALSE]
SomeSelectors ==
  {[Sel EXCEPT !.dv_gscv = TRUE, !.dmask = TRUE, !.did_gscid = 1],
   [Sel EXCEPT !.pv_pscv = TRUE, !.pid_pscid = 1],
   [Sel EXCEPT !.eventID = 2, !.idt = TRUE, !.dv_gscv = TRUE,
               !.dmask = TRUE, !.did_gscid = 2, !.pv_pscv = TRUE, !.pid_pscid = 1],
   [Sel EXCEPT !.eventID = 3, !.of = TRUE]}

BothKinds == BOOLEAN
=============================================================================
