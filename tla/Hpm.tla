-------------------------------- MODULE Hpm --------------------------------
(***************************************************************************)
(* The hardware performance monitor: count_events and its filters, the     *)
(* counter, selector and inhibit registers, iocountovf, and the pending    *)
(* bit and the message that announce an overflow.                          *)
(*                                                                         *)
(* Two threads of software run beside the events.  The driver selects      *)
(* events and loads a counter in two halves; it inhibits the counter       *)
(* meanwhile.  The handler answers the interrupt: it clears ipsr.pmip,     *)
(* reads iocountovf, and clears OF in each selector it found.              *)
(*                                                                         *)
(* Counters have their index in iohpmctr: number i here is iohpmctr(i+1).  *)
(***************************************************************************)
EXTENDS Integers, FiniteSets

CONSTANTS
  NumHpm,        \* num_hpm of reset_iommu
  Wrap,          \* 2^hpmctr_bits
  Half,          \* 2^32: what the lower half of a register holds
  EventLimit,    \* eventID_limit
  IdBits,        \* width of DID_GSCID, 24 in the code
  Events,        \* the arguments of the calls of count_events
  Selectors,     \* what the driver writes to a selector
  Loads,         \* what it loads into a counter
  Wsi,           \* values of fctl.wsi
  NoLoad         \* the driver is not loading a counter

Indices == 0 .. NumHpm - 1

(* The last counter takes no writes: iohpmctr1 to iohpmctr(num_hpm - 1) do. *)
Writable == {i \in Indices : i < NumHpm - 1}

Pow2[k \in Nat] == IF k = 0 THEN 1 ELSE 2 * Pow2[k - 1]

Ids == 0 .. Pow2[IdBits] - 1

EventArgs ==
  [eventID : Nat, PV : BOOLEAN, PID : Nat, PSCV : BOOLEAN, PSCID : Nat,
   DID : Nat, GSCV : BOOLEAN, GSCID : Nat]

Evts ==
  [eventID : Nat, dmask : BOOLEAN, pid_pscid : Nat, did_gscid : Nat,
   pv_pscv : BOOLEAN, dv_gscv : BOOLEAN, idt : BOOLEAN, of : BOOLEAN]

LoadStates == [counter : Indices, value : Loads, next : {"low", "high", "release"}]

ASSUME ConstantsAssumption ==
  /\ NumHpm \in Nat \ {0}
  /\ Wrap \in Nat \ {0, 1}
  /\ Half \in Nat \ {0}
  /\ Wrap % Half = 0 \/ Half % Wrap = 0      \* both are powers of two
  /\ EventLimit \in Nat
  /\ IdBits \in Nat
  /\ Events \subseteq EventArgs
  /\ \A t \in Events : t.eventID > 0 /\ t.DID \in Ids /\ t.GSCID \in Ids
  /\ Selectors \subseteq Evts
  /\ \A e \in Selectors : e.did_gscid \in Ids
  /\ Loads \subseteq Nat
  /\ Wsi \subseteq BOOLEAN
  /\ NoLoad \notin LoadStates

VARIABLES
  iohpmctr,      \* the counters
  iohpmevt,      \* their selectors
  iocountinh,    \* the counters that are inhibited
  pmip,          \* ipsr.pmip
  wsi,           \* fctl.wsi
  masked,        \* the mask bit of the vector icvec.pmiv
  msi_pending,   \* a message withheld for that vector
  message,       \* a message on its way to the handler
  handler,       \* what the handler does next
  found,         \* the counters whose OF it has still to clear
  load,          \* the load of a counter under way
  expected,      \* what each counter should read, by the rules of the filters
  raised         \* the counters whose OF went from 0 to 1 by an overflow and
                 \*   was not written since

registers == <<iohpmctr, iohpmevt, iocountinh>>
interrupt == <<pmip, masked, msi_pending, message>>
vars == <<registers, interrupt, wsi, handler, found, load, expected, raised>>

Zero == [eventID |-> 0, dmask |-> FALSE, pid_pscid |-> 0, did_gscid |-> 0,
         pv_pscv |-> FALSE, dv_gscv |-> FALSE, idt |-> FALSE, of |-> FALSE]

Init ==
  /\ iohpmctr = [i \in Indices |-> 0]
  /\ iohpmevt = [i \in Indices |-> Zero]
  /\ iocountinh = {}
  /\ pmip = FALSE
  /\ wsi \in Wsi
  /\ masked = FALSE
  /\ msi_pending = FALSE
  /\ message = FALSE
  /\ handler = "idle"
  /\ found = {}
  /\ load = NoLoad
  /\ expected = [i \in Indices |-> 0]
  /\ raised = {}

----------------------------------------------------------------------------
(* A number as the set of its bits; those above the identifiers are left    *)
(* out, as no identifier has one of them.                                   *)
BitsOf(n) == {k \in 0 .. IdBits - 1 : (n \div Pow2[k]) % 2 = 1}

(* Mutant: the first bit that is 0 is compared too. *)
MaskOfOnes(x) ==
  (0 .. IdBits - 1) \ (BitsOf(x) \cap ((BitsOf(x) \ BitsOf(x + 1)) \cup (BitsOf(x + 1) \ BitsOf(x))))

(* ~((x + 1) ^ x) *)
Mask(x) ==
  (0 .. IdBits - 1) \ ((BitsOf(x) \ BitsOf(x + 1)) \cup (BitsOf(x + 1) \ BitsOf(x)))

SameId(e, id) ==
  LET mask == IF e.dmask THEN Mask(e.did_gscid) ELSE 0 .. IdBits - 1 IN
  BitsOf(e.did_gscid) \cap mask = BitsOf(id) \cap mask

Selects(e, t) ==
  /\ e.eventID = t.eventID
  /\ e.pv_pscv => IF e.idt THEN t.PSCV /\ e.pid_pscid = t.PSCID
                           ELSE t.PV /\ e.pid_pscid = t.PID
  /\ e.dv_gscv => IF e.idt THEN t.GSCV /\ SameId(e, t.GSCID)
                           ELSE SameId(e, t.DID)

(* What the specification of a selector says: the process, the guest and    *)
(* the devices it names.  With DMASK, they are the aligned block of         *)
(* identifiers in the middle of whose first half the number of the block    *)
(* ends: yy011 names yy000 to yy111.                                        *)
Block(x) ==
  LET size == CHOOSE b \in {Pow2[k] : k \in 1 .. IdBits + 1} : x % b = (b \div 2) - 1
  IN {id \in Ids : id \div size = x \div size}

Named(e) == IF e.dmask THEN Block(e.did_gscid) ELSE {e.did_gscid}

Counted(e, t) ==
  LET process == IF e.idt THEN [valid |-> t.PSCV, id |-> t.PSCID]
                          ELSE [valid |-> t.PV, id |-> t.PID]
      device  == IF e.idt THEN [valid |-> t.GSCV, id |-> t.GSCID]
                          ELSE [valid |-> TRUE, id |-> t.DID]
  IN /\ t.eventID = e.eventID
     /\ ~e.pv_pscv \/ process = [valid |-> TRUE, id |-> e.pid_pscid]
     /\ ~e.dv_gscv \/ (device.valid /\ device.id \in Named(e))

----------------------------------------------------------------------------
(* generate_interrupt(iommu, HPM): the message is withheld while its vector *)
(* is masked.                                                               *)
generate_interrupt ==
  /\ pmip' = TRUE
  /\ msi_pending' = (msi_pending \/ (~pmip /\ ~wsi /\ masked))
  /\ message' = (message \/ (~pmip /\ ~wsi /\ ~masked))
  /\ UNCHANGED masked

(* Mutant: the interrupt comes for the first of several counters only. *)
NewOverflowsOfQuiet(over) ==
  IF \E i \in Indices : iohpmevt[i].of THEN {} ELSE over

(* The overflows that interrupt: those of counters whose OF was clear. *)
NewOverflows(over) == {i \in over : ~iohpmevt[i].of}

(* One call of count_events. *)
count_events(t) ==
  LET hit  == {i \in Indices : i \notin iocountinh /\ Selects(iohpmevt[i], t)}
      over == {i \in hit : (iohpmctr[i] + 1) % Wrap < iohpmctr[i]}
  IN /\ iohpmctr' = [i \in Indices |-> IF i \in hit THEN (iohpmctr[i] + 1) % Wrap
                                                    ELSE iohpmctr[i]]
     /\ iohpmevt' = [i \in Indices |-> [iohpmevt[i] EXCEPT !.of = @ \/ i \in over]]
     /\ IF NewOverflows(over) # {} THEN generate_interrupt ELSE UNCHANGED interrupt
     /\ raised' = raised \cup {i \in over : ~iohpmevt[i].of}
     /\ expected' = [i \in Indices |->
                      IF i \notin iocountinh /\ Counted(iohpmevt[i], t)
                      THEN (expected[i] + 1) % Wrap ELSE expected[i]]
     /\ UNCHANGED <<iocountinh, wsi, handler, found, load>>

----------------------------------------------------------------------------
(* Writes of registers.  A write of four bytes to a register of eight is    *)
(* merged with the half it leaves alone, as it is now.                      *)
WriteLow(old, value)  == (old - (old % Half)) + (value % Half)
WriteHigh(old, value) == (old % Half) + (Half * (value \div Half))

WriteCounter(i, value) ==
  iohpmctr' = IF i \in Writable THEN [iohpmctr EXCEPT ![i] = value % Wrap]
              ELSE iohpmctr

(* Mutant: the limit is not looked at. *)
AnyEvent(old, new) == new

(* An event that the IOMMU does not implement leaves the old one selected;  *)
(* the other fields are written, OF among them.                             *)
Legal(old, new) ==
  [new EXCEPT !.eventID = IF @ > EventLimit THEN old.eventID ELSE @]

WriteSelector(i, e) ==
  /\ iohpmevt' = IF i \in Writable THEN [iohpmevt EXCEPT ![i] = Legal(@, e)]
                 ELSE iohpmevt
  /\ raised' = IF i \in Writable THEN raised \ {i} ELSE raised

WriteInhibit(set) == iocountinh' = set \cap Indices

----------------------------------------------------------------------------
(* The driver. *)
Select(i, e) ==
  /\ WriteSelector(i, e)
  /\ UNCHANGED <<iohpmctr, iocountinh, interrupt, wsi, handler, found, load, expected>>

StartLoad(i, value) ==
  /\ load = NoLoad
  /\ WriteInhibit(iocountinh \cup {i})
  /\ load' = [counter |-> i, value |-> value, next |-> "low"]
  /\ UNCHANGED <<iohpmctr, iohpmevt, interrupt, wsi, handler, found, expected, raised>>

LoadLow ==
  /\ load # NoLoad /\ load.next = "low"
  /\ WriteCounter(load.counter, WriteLow(iohpmctr[load.counter], load.value))
  /\ load' = [load EXCEPT !.next = "high"]
  /\ UNCHANGED <<iohpmevt, iocountinh, interrupt, wsi, handler, found, expected, raised>>

LoadHigh ==
  /\ load # NoLoad /\ load.next = "high"
  /\ WriteCounter(load.counter, WriteHigh(iohpmctr[load.counter], load.value))
  /\ load' = [load EXCEPT !.next = "release"]
  /\ expected' = IF load.counter \in Writable
                 THEN [expected EXCEPT ![load.counter] = load.value % Wrap]
                 ELSE expected
  /\ UNCHANGED <<iohpmevt, iocountinh, interrupt, wsi, handler, found, raised>>

EndLoad ==
  /\ load # NoLoad /\ load.next = "release"
  /\ WriteInhibit(iocountinh \ {load.counter})
  /\ load' = NoLoad
  /\ UNCHANGED <<iohpmctr, iohpmevt, interrupt, wsi, handler, found, expected, raised>>

(* The mask bit of the vector; the message that was withheld goes out. *)
WriteVecCtrl(m) ==
  /\ ~wsi
  /\ masked' = m
  /\ LET release == masked /\ ~m /\ msi_pending IN
     /\ message' = (message \/ release)
     /\ msi_pending' = (msi_pending /\ ~release)
  /\ UNCHANGED <<registers, pmip, wsi, handler, found, load, expected, raised>>

----------------------------------------------------------------------------
(* The handler. *)
Enter ==
  /\ handler = "idle"
  /\ IF wsi THEN pmip ELSE message
  /\ message' = FALSE
  /\ handler' = "entered"
  /\ UNCHANGED <<registers, pmip, masked, msi_pending, wsi, found, load, expected, raised>>

(* ipsr.pmip is cleared by writing 1 and not pended again. *)
Acknowledge ==
  /\ handler = "entered"
  /\ pmip' = FALSE
  /\ handler' = "acknowledged"
  /\ UNCHANGED <<registers, masked, msi_pending, message, wsi, found, load, expected, raised>>

get_iocountovf == {i \in Writable : iohpmevt[i].of}

ReadOverflows ==
  /\ handler = "acknowledged"
  /\ found' = get_iocountovf
  /\ handler' = IF get_iocountovf = {} THEN "idle" ELSE "clearing"
  /\ UNCHANGED <<registers, interrupt, wsi, load, expected, raised>>

ClearOverflow(i) ==
  /\ handler = "clearing" /\ i \in found
  /\ WriteSelector(i, [iohpmevt[i] EXCEPT !.of = FALSE])
  /\ found' = found \ {i}
  /\ handler' = IF found = {i} THEN "idle" ELSE "clearing"
  /\ UNCHANGED <<iohpmctr, iocountinh, interrupt, wsi, load, expected>>

----------------------------------------------------------------------------
Driver ==
  \/ \E i \in Indices, e \in Selectors : Select(i, e)
  \/ \E i \in Indices, value \in Loads : StartLoad(i, value)
  \/ LoadLow \/ LoadHigh \/ EndLoad
  \/ \E m \in BOOLEAN : WriteVecCtrl(m)

Handler ==
  \/ Enter \/ Acknowledge \/ ReadOverflows
  \/ \E i \in Indices : ClearOverflow(i)

Next ==
  \/ \E t \in Events : count_events(t)
  \/ Driver
  \/ Handler

Spec == Init /\ [][Next]_vars

----------------------------------------------------------------------------
(* Counters stay below 2^hpmctr_bits (hpm.c:79), the event selected within  *)
(* the limit (iommu_reg.c:645), and the counter that takes no writes never  *)
(* counts, although count_events goes over it.                              *)
TypeOK ==
  /\ iohpmctr \in [Indices -> {n \in Nat : n < Wrap}]
  /\ iohpmevt \in [Indices -> {e \in Evts : e.eventID \in 0 .. EventLimit}]
  /\ \A i \in Indices \ Writable : iohpmctr[i] = 0 /\ iohpmevt[i] = Zero
  /\ iocountinh \subseteq Indices
  /\ pmip \in BOOLEAN /\ wsi \in BOOLEAN
  /\ masked \in BOOLEAN /\ msi_pending \in BOOLEAN /\ message \in BOOLEAN
  /\ handler \in {"idle", "entered", "acknowledged", "clearing"}
  /\ found \subseteq Writable
  /\ load \in LoadStates \cup {NoLoad}
  /\ raised \subseteq Writable

(* The overflow of a counter whose OF was clear reaches the handler: until  *)
(* OF is written, the handler is about to read iocountovf, or has found the *)
(* counter there, or an interrupt is on its way to it or withheld by the    *)
(* mask (hpm.c:95-98, iommu_interrupt.c:73-77, 91-107).  Overflows while    *)
(* the handler runs, and while the bit is pending, included.                *)
Attended(i) ==
  \/ handler \in {"entered", "acknowledged"}
  \/ i \in found
  \/ pmip /\ (wsi \/ message \/ msi_pending)

OverflowIsNoticed == \A i \in raised : iohpmevt[i].of /\ Attended(i)

(* A counter reads what software loaded into it plus the events its         *)
(* selector names since, modulo 2^hpmctr_bits: inhibited counters do not    *)
(* count, a load in two halves takes nothing of the old value, and DMASK    *)
(* selects whole blocks of devices (hpm.c:17-107, iommu_reg.c:92-104).      *)
Loading(i) == load # NoLoad /\ load.counter = i /\ load.next # "release"

CountsAreExact ==
  \A i \in Indices : Loading(i) \/ iohpmctr[i] = expected[i]
=============================================================================
