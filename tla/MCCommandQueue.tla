--------------------------- MODULE MCCommandQueue ---------------------------
(* Instances of CommandQueue for TLC. *)
EXTENDS CommandQueueOrder

(* Two functions whose requester ids differ only in the segment. *)
DevA == [dsv |-> 0, dseg |-> 0, rid |-> 1]
DevB == [dsv |-> 1, dseg |-> 1, rid |-> 1]
DevC == [dsv |-> 1, dseg |-> 0, rid |-> 1]

MCRequesters == {DevB, DevC}
(* One device answers once per request, the other RspWrap times (cc = 0). *)
MCResponses  == [d \in MCRequesters |-> IF d = DevB THEN 1 ELSE RspWrap]

OneResponse  == [d \in MCRequesters |-> 1]

Cmd(op, dev, av, wsi) == [op |-> op, dev |-> dev, av |-> av, wsi |-> wsi]

InvalAndFence ==
  {Cmd("ATS_INVAL", d, FALSE, FALSE) : d \in MCRequesters} \cup
  {Cmd("IOFENCE", DevB, FALSE, FALSE)}

OneInvalAndFence ==
  {Cmd("ATS_INVAL", DevB, FALSE, FALSE), Cmd("IOFENCE", DevB, FALSE, FALSE)}

AllKinds ==
  {Cmd("ATS_INVAL", d, FALSE, FALSE) : d \in MCRequesters} \cup
  {Cmd("IOFENCE", DevB, TRUE, FALSE), Cmd("IOFENCE", DevB, FALSE, TRUE), Cmd("IOTINVAL", DevB, FALSE, FALSE),
   Cmd("RESERVED", DevB, FALSE, FALSE)}

AckAllOrNone == {{}, AckBits}
AckAll == {AckBits}
EitherCie == BOOLEAN
AlwaysCie == {TRUE}

SmallAndLarge == {2, 4}
OnlySmall == {2}
=============================================================================
