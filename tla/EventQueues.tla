----------------------------- MODULE EventQueues -----------------------------
(***************************************************************************)
(* The fault queue, the page-request queue and the interrupts of the IOMMU *)
(* (iommu_faults.c, iommu_interrupt.c, handle_page_request of iommu_ats.c, *)
(* and the FQ, PQ, IPSR, ICVEC and MSI registers of iommu_reg.c).          *)
(*                                                                         *)
(* The three parts call each other: a fault record raises an interrupt, an *)
(* interrupt is an MSI write, and an MSI write that faults is a fault      *)
(* record.  One call of the model runs all of that to its end.  The        *)
(* operators below pass the state such a call works on, a record s, from   *)
(* one function to the next, and every action installs the result.         *)
(***************************************************************************)
EXTENDS Integers

CONSTANTS
  Vectors,      \* interrupt vectors (16 in the code)
  Sizes,        \* the sizes software may write to the base of each queue
  Slots,        \* entries the memory of each queue holds
  Causes,       \* the causes of faults found by translation
  Requests,     \* the page requests devices send
  Wired,        \* fctl.wsi: interrupts are wires, not MSIs
  Active,       \* sources of events in use: {"XLAT", "PRI", "CQ", "PM"}
  MemoryFaults, \* stores to the queues and of MSIs may fault
  Maps,         \* values software writes to icvec
  IeWrites,     \* values software writes to fie, pie and cie
  AckWrites,    \* sets of error bits software writes 1 to at once
  Blank         \* queue memory without a record

Queues == {"FQ", "PQ"}
Units  == {"FQ", "PQ", "CQ", "PM"}

(* A page request says whether more of its group follow, whether it is the  *)
(* last and asks for a response, or whether it is a stop marker.            *)
RequestKinds == {"more", "last", "stop"}

MsiWriteFault == 273

(* A cause is a field of 12 bits. *)
CauseCodes == 0 .. 4095

(* The causes that DC.tc.DTF does not silence. *)
AlwaysReported == {256, 257, 258, 259, 268, 272, MsiWriteFault}

None  == "none"
Told  == "told"
Responses == {"success", "invalid", "failure"}

ASSUME ConstantsAssumption ==
  /\ Vectors # {} /\ None \notin Vectors /\ Told \notin Vectors
  /\ Blank \notin CauseCodes /\ Blank \notin RequestKinds
  /\ Slots \in Nat
  /\ Sizes \in [Queues -> SUBSET (2 .. Slots)]
  /\ \A q \in Queues : 2 \in Sizes[q]
  /\ Causes \subseteq CauseCodes
  /\ Requests \subseteq RequestKinds
  /\ Wired \in BOOLEAN /\ MemoryFaults \in BOOLEAN
  /\ Active \subseteq {"XLAT", "PRI", "CQ", "PM"}
  /\ Maps \subseteq [Units -> Vectors] /\ Maps # {}
  /\ IeWrites \subseteq BOOLEAN
  /\ AckWrites \subseteq SUBSET {"mf", "of"}

VARIABLES
  queue,        \* the two queues and their registers
  ipsr,         \* units whose pending bit is set
  msi_pending,  \* vectors with a message withheld by their mask
  masked,       \* vectors whose msi_vec_ctrl.m is set
  icvec,        \* the vector of each unit
  cqcsr,        \* cie, and whether an error or a completion is unacknowledged
  claim,        \* history: how software was told of a pending bit
  exchange      \* history: the page request of the last step, the response to it

vars == <<queue, ipsr, msi_pending, masked, icvec, cqcsr, claim, exchange>>

-----------------------------------------------------------------------------
Entries(q) == IF q = "FQ" THEN CauseCodes ELSE RequestKinds

QueueState(q) ==
  [size : Sizes[q], head : 0 .. Slots - 1, tail : 0 .. Slots - 1,
   on : BOOLEAN, ie : BOOLEAN, mf : BOOLEAN, of : BOOLEAN,
   mem : [0 .. Slots - 1 -> Entries(q) \cup {Blank}]]

TypeOK ==
  /\ queue \in [Queues -> QueueState("FQ") \cup QueueState("PQ")]
  /\ \A q \in Queues :
       /\ queue[q] \in QueueState(q)
       /\ queue[q].head < queue[q].size
       /\ queue[q].on => queue[q].tail < queue[q].size
  /\ ipsr \subseteq Units
  /\ msi_pending \subseteq Vectors
  /\ masked \subseteq Vectors
  /\ icvec \in [Units -> Vectors]
  /\ cqcsr \in [cie : BOOLEAN, err : BOOLEAN]
  /\ claim \in [Units -> Vectors \cup {None, Told}]
  /\ exchange \in [request : Requests \cup {None}, response : Responses \cup {None}]

NoEntries == [i \in 0 .. Slots - 1 |-> Blank]

Quiet == [request |-> None, response |-> None]

Init ==
  /\ queue = [q \in Queues |->
                [size |-> 2, head |-> 0, tail |-> 0, on |-> FALSE, ie |-> FALSE,
                 mf |-> FALSE, of |-> FALSE, mem |-> NoEntries]]
  /\ ipsr = {} /\ msi_pending = {} /\ masked = {}
  /\ icvec \in Maps
  /\ cqcsr = [cie |-> FALSE, err |-> FALSE]
  /\ claim = [u \in Units |-> None]
  /\ exchange = Quiet

-----------------------------------------------------------------------------
(* The state a call works on, and its installation at the end. *)

Now == [queue |-> queue, ipsr |-> ipsr, pend |-> msi_pending, claim |-> claim]

Install(s) ==
  /\ queue' = s.queue /\ ipsr' = s.ipsr /\ msi_pending' = s.pend
  /\ claim' = s.claim

(* The addresses at which stores fault during a call: vectors whose MSI     *)
(* address faults, and at most one free slot of each queue the call may     *)
(* store to, since a queue takes no record behind one that faulted.         *)
Faults(names) ==
  LET Slot(q) == {{}} \cup
        {{i} : i \in {j \in 0 .. queue[q].size - 1 :
                       /\ MemoryFaults /\ q \in names /\ queue[q].on
                       /\ queue[q].mem[j] = Blank}}
  IN [vec : IF MemoryFaults /\ ~Wired THEN SUBSET Vectors ELSE {{}},
      FQ : Slot("FQ"), PQ : Slot("PQ")]

-----------------------------------------------------------------------------
(* The queues. *)

(* Mutant: the index does not wrap. *)
FollowingNoWrap(q, i) == i + 1
Following(q, i) == (i + 1) % q.size

Full(q) == Following(q, q.tail) = q.head

Accepts(q) == q.on /\ ~q.mf /\ ~q.of

(* Mutant: the tail moves although the store faulted. *)
PutOverFault(s, name, entry, bad) ==
  LET q == s.queue[name] IN
  [s EXCEPT !.queue[name] =
     IF Full(q) THEN [q EXCEPT !.of = TRUE]
     ELSE IF q.tail \in bad[name]
     THEN [q EXCEPT !.mf = TRUE, !.tail = Following(q, q.tail)]
     ELSE [q EXCEPT !.mem[q.tail] = entry, !.tail = Following(q, q.tail)]]

(* Storing a record: a full queue overflows, a store that faults sets mf.   *)
Put(s, name, entry, bad) ==
  LET q == s.queue[name] IN
  [s EXCEPT !.queue[name] =
     IF Full(q) THEN [q EXCEPT !.of = TRUE]
     ELSE IF q.tail \in bad[name] THEN [q EXCEPT !.mf = TRUE]
     ELSE [q EXCEPT !.mem[q.tail] = entry, !.tail = Following(q, q.tail)]]

-----------------------------------------------------------------------------
(* Interrupts. *)

Enabled(s, unit) ==
  CASE unit \in Queues -> s.queue[unit].ie
    [] unit = "CQ"     -> cqcsr.cie
    [] unit = "PM"     -> TRUE

Raises(s, unit) == unit \notin s.ipsr /\ Enabled(s, unit)

(* Mutant: a masked vector is not remembered. *)
RaiseForgets(s, unit) ==
  LET vec == icvec[unit] IN
  IF ~Wired /\ vec \in masked
  THEN [s EXCEPT !.ipsr = @ \cup {unit}, !.claim[unit] = vec]
  ELSE [s EXCEPT !.ipsr = @ \cup {unit}, !.claim[unit] = Told]

(* generate_interrupt up to its MSI write. *)
Raise(s, unit) ==
  LET vec == icvec[unit] IN
  IF ~Wired /\ vec \in masked
  THEN [s EXCEPT !.ipsr = @ \cup {unit}, !.pend = @ \cup {vec},
                 !.claim[unit] = vec]
  ELSE [s EXCEPT !.ipsr = @ \cup {unit}, !.claim[unit] = Told]

MsiFaults(unit, bad) ==
  ~Wired /\ icvec[unit] \notin masked /\ icvec[unit] \in bad.vec

(* generate_interrupt(FAULT_QUEUE): when its MSI faults, that is one more   *)
(* fault record, but fip is set by now, and no further interrupt.           *)
Announce(s, bad) ==
  IF ~Raises(s, "FQ") THEN s
  ELSE LET r == Raise(s, "FQ") IN
       IF MsiFaults("FQ", bad) /\ Accepts(r.queue["FQ"])
       THEN Put(r, "FQ", MsiWriteFault, bad)
       ELSE r

(* Mutant: a stored record raises no interrupt. *)
report_faultQuietly(s, cause, dtf, bad) ==
  IF Accepts(s.queue["FQ"]) /\ (dtf => cause \in AlwaysReported)
  THEN Put(s, "FQ", cause, bad)
  ELSE s

report_fault(s, cause, dtf, bad) ==
  IF Accepts(s.queue["FQ"]) /\ (dtf => cause \in AlwaysReported)
  THEN Announce(Put(s, "FQ", cause, bad), bad)
  ELSE s

generate_interrupt(s, unit, bad) ==
  IF unit = "FQ" THEN Announce(s, bad)
  ELSE IF ~Raises(s, unit) THEN s
  ELSE IF MsiFaults(unit, bad)
  THEN report_fault(Raise(s, unit), MsiWriteFault, FALSE, bad)
  ELSE Raise(s, unit)

(* release_pending_interrupt: the message is written, its fault reported,   *)
(* and then the vector is no longer pending, whatever the report withheld.  *)
release_pending_interrupt(s, vec, bad) ==
  IF vec \notin s.pend THEN s
  ELSE LET sent == [s EXCEPT !.claim = [u \in Units |-> IF @[u] = vec THEN Told
                                                        ELSE @[u]]]
           told == IF vec \in bad.vec
                   THEN report_fault(sent, MsiWriteFault, FALSE, bad)
                   ELSE sent
       IN [told EXCEPT !.pend = @ \ {vec}]

-----------------------------------------------------------------------------
(* Events. *)

(* A transaction fails in translation. *)
TranslationFault ==
  /\ "XLAT" \in Active
  /\ \E cause \in Causes, dtf \in BOOLEAN, bad \in Faults({"FQ"}) :
       Install(report_fault(Now, cause, dtf, bad))
  /\ exchange' = Quiet
  /\ UNCHANGED <<masked, icvec, cqcsr>>

Exchanged(request, response) ==
  exchange' = [request |-> request,
               response |-> IF request = "last" THEN response ELSE None]

(* How handle_page_request refuses a request before it gets to the queue:   *)
(* the device directory is off or the device context does not load (256     *)
(* stands for 256 to 259), the directory is bare or too small for the       *)
(* device, or EN_PRI is 0 and DTF may silence the fault.                    *)
Refusals ==
  {[cause |-> 256, dtf |-> FALSE, code |-> "failure"],
   [cause |-> 260, dtf |-> FALSE, code |-> "invalid"],
   [cause |-> 260, dtf |-> TRUE,  code |-> "invalid"]}

RefusePageRequest ==
  /\ "PRI" \in Active
  /\ \E request \in Requests, refusal \in Refusals, bad \in Faults({"FQ"}) :
       /\ Install(report_fault(Now, refusal.cause, refusal.dtf, bad))
       /\ Exchanged(request, refusal.code)
  /\ UNCHANGED <<masked, icvec, cqcsr>>

(* Mutant: a request whose store faulted gets no response. *)
QueueResponseSilentFault(q, stored) ==
  IF ~q.on \/ q.mf THEN "failure" ELSE IF q.of \/ Full(q) THEN "success" ELSE None

(* The response to a request that got as far as the queue: q is the queue   *)
(* before it, stored the queue after the attempt to store it.               *)
QueueResponse(q, stored) ==
  IF ~q.on \/ q.mf THEN "failure"
  ELSE IF q.of \/ stored.of THEN "success"
  ELSE IF stored.mf THEN "failure"
  ELSE None

QueuePageRequest ==
  /\ "PRI" \in Active
  /\ \E request \in Requests, bad \in Faults(Queues) :
       LET q == queue["PQ"]
           s == IF Accepts(q)
                THEN generate_interrupt(Put(Now, "PQ", request, bad), "PQ", bad)
                ELSE Now
       IN /\ Install(s)
          /\ Exchanged(request, QueueResponse(q, s.queue["PQ"]))
  /\ UNCHANGED <<masked, icvec, cqcsr>>

(* process_commands reports an error or a completion of the command queue.  *)
CommandEvent ==
  /\ "CQ" \in Active
  /\ cqcsr' = [cqcsr EXCEPT !.err = TRUE]
  /\ \E bad \in Faults({"FQ"}) : Install(generate_interrupt(Now, "CQ", bad))
  /\ exchange' = Quiet
  /\ UNCHANGED <<masked, icvec>>

(* count_events: a counter overflows while its OF bit is 0. *)
CounterOverflow ==
  /\ "PM" \in Active
  /\ \E bad \in Faults({"FQ"}) : Install(generate_interrupt(Now, "PM", bad))
  /\ exchange' = Quiet
  /\ UNCHANGED <<masked, icvec, cqcsr>>

handle_page_request == RefusePageRequest \/ QueuePageRequest

-----------------------------------------------------------------------------
(* Register writes. *)

(* FQB and PQB: dropped while the queue is on.  The tail stays. *)
WriteBase(name, size) ==
  /\ ~queue[name].on
  /\ queue' = [queue EXCEPT ![name].size = size, ![name].head = 0]
  /\ exchange' = Quiet
  /\ UNCHANGED <<ipsr, msi_pending, masked, icvec, cqcsr, claim>>

(* FQH and PQH: software has processed the record at the head.  A record    *)
(* software is done with is shown as Blank, here and when the queue goes    *)
(* off; the code leaves it in memory and never reads it.                    *)
WriteHead(name) ==
  LET q == queue[name] IN
  /\ q.on /\ q.head # q.tail
  /\ queue' = [queue EXCEPT ![name].head = Following(q, q.head),
                            ![name].mem[q.head] = Blank]
  /\ exchange' = Quiet
  /\ UNCHANGED <<ipsr, msi_pending, masked, icvec, cqcsr, claim>>

(* Mutant: enabling the queue leaves the tail where it was. *)
WriteCsrKeepsTail(name, enable, ie, ack) ==
  LET q   == queue[name]
      new == enable /\ ~q.on
  IN /\ new => q.head = 0
     /\ queue' = [queue EXCEPT ![name] =
          [q EXCEPT !.on = enable, !.ie = ie,
                    !.mf = @ /\ ~new /\ "mf" \notin ack,
                    !.of = @ /\ ~new /\ "of" \notin ack,
                    !.mem = IF enable THEN @ ELSE NoEntries]]
     /\ exchange' = Quiet
     /\ UNCHANGED <<ipsr, msi_pending, masked, icvec, cqcsr, claim>>

(* FQCSR and PQCSR.  Enabling a queue resets its tail and not its head:     *)
(* software writes the base first, as enable_fq and enable_pq of the tests  *)
(* do, and that resets the head.                                            *)
WriteCsr(name, enable, ie, ack) ==
  LET q   == queue[name]
      new == enable /\ ~q.on
  IN /\ new => q.head = 0
     /\ queue' = [queue EXCEPT ![name] =
          [q EXCEPT !.on = enable, !.ie = ie,
                    !.tail = IF new THEN 0 ELSE @,
                    !.mf = @ /\ ~new /\ "mf" \notin ack,
                    !.of = @ /\ ~new /\ "of" \notin ack,
                    !.mem = IF enable THEN @ ELSE NoEntries]]
     /\ exchange' = Quiet
     /\ UNCHANGED <<ipsr, msi_pending, masked, icvec, cqcsr, claim>>

(* CQCSR, as far as interrupts see it. *)
WriteCqcsr(cie, ack) ==
  /\ cqcsr' = [cie |-> cie, err |-> cqcsr.err /\ ~ack]
  /\ exchange' = Quiet
  /\ UNCHANGED <<queue, ipsr, msi_pending, masked, icvec, claim>>

(* Mutant: only an overflow pends the unit again. *)
UnacknowledgedOverflow(s, unit) ==
  CASE unit \in Queues -> s.queue[unit].of
    [] unit = "CQ"     -> cqcsr.err
    [] unit = "PM"     -> FALSE

(* What pends a unit again when software clears its bit; pmip is pended by  *)
(* a counter overflow only.                                                 *)
Unacknowledged(s, unit) ==
  CASE unit \in Queues -> s.queue[unit].mf \/ s.queue[unit].of
    [] unit = "CQ"     -> cqcsr.err
    [] unit = "PM"     -> FALSE

Acknowledge(s, unit, bad) ==
  LET clear == [s EXCEPT !.ipsr = @ \ {unit}, !.claim[unit] = None] IN
  IF Unacknowledged(s, unit) THEN generate_interrupt(clear, unit, bad) ELSE clear

(* IPSR: software writes 1 to bits it read as 1.  The bits are treated in   *)
(* the order cip, fip, pip, pmip, and a bit set by one of the earlier ones  *)
(* is cleared again.                                                        *)
WriteIpsr(ack, bad) ==
  LET Ack(s, unit) == IF unit \in ack THEN Acknowledge(s, unit, bad) ELSE s
  IN /\ ack \subseteq ipsr
     /\ Install(Ack(Ack(Ack(Ack(Now, "CQ"), "FQ"), "PQ"), "PM"))
     /\ exchange' = Quiet
     /\ UNCHANGED <<masked, icvec, cqcsr>>

(* MSI_VEC_CTRL: the mask bit is written after the pending message went out.*)
WriteVecCtrl(vec, m, bad) ==
  /\ Install(IF ~m /\ vec \in masked
             THEN release_pending_interrupt(Now, vec, bad) ELSE Now)
  /\ masked' = IF m THEN masked \cup {vec} ELSE masked \ {vec}
  /\ exchange' = Quiet
  /\ UNCHANGED <<icvec, cqcsr>>

WriteIcvec(map) ==
  /\ icvec' = map
  /\ exchange' = Quiet
  /\ UNCHANGED <<queue, ipsr, msi_pending, masked, cqcsr, claim>>

(* The queues software programs: the page-request queue only for page       *)
(* requests.                                                                *)
InUse == {"FQ"} \cup (IF "PRI" \in Active THEN {"PQ"} ELSE {})

Software ==
  \/ \E name \in InUse : \E size \in Sizes[name] : WriteBase(name, size)
  \/ \E name \in InUse : WriteHead(name)
  \/ \E name \in InUse, enable \in BOOLEAN, ie \in IeWrites,
        ack \in AckWrites : WriteCsr(name, enable, ie, ack)
  \/ \E cie \in IeWrites, ack \in BOOLEAN : "CQ" \in Active /\ WriteCqcsr(cie, ack)
  \/ \E ack \in SUBSET ipsr, bad \in Faults({"FQ"}) : WriteIpsr(ack, bad)
  \/ \E vec \in Vectors, m \in BOOLEAN, bad \in Faults({"FQ"}) :
       ~Wired /\ WriteVecCtrl(vec, m, bad)
  \/ \E map \in Maps : WriteIcvec(map)

Next ==
  \/ TranslationFault \/ handle_page_request \/ CommandEvent \/ CounterOverflow
  \/ Software

Spec == Init /\ [][Next]_vars

-----------------------------------------------------------------------------
(* Safety. *)

(* A record that is stored, or an error bit that rises, pends the interrupt *)
(* of its queue if interrupts are enabled; the one exception is a step in   *)
(* which software clears that very bit.                                     *)
News(q, r) == \/ q.on /\ r.on /\ q.tail # r.tail
              \/ ~q.mf /\ r.mf
              \/ ~q.of /\ r.of

NewsArePended ==
  \A q \in Queues :
    News(queue[q], queue'[q]) /\ queue'[q].ie => q \in ipsr' \/ q \in ipsr

NewsPends == [][NewsArePended]_vars

(* An unacknowledged error shows in ipsr as long as interrupts are enabled, *)
(* however often software clears the bit; the one way around it is to       *)
(* enable the interrupt only after the fact.                                *)
Silent(q, pending) == (q.mf \/ q.of) /\ q.ie /\ ~pending

SilenceIsLateEnabling ==
  \A u \in Queues :
    Silent(queue'[u], u \in ipsr') =>
      Silent(queue[u], u \in ipsr) \/ (~queue[u].ie /\ queue'[u].ie)

SilentOnlyByLateEnable == [][SilenceIsLateEnabling]_vars

Withheld(unit) == unit \in ipsr /\ claim[unit] \in Vectors

(* The message of a pending interrupt that a mask withheld is not lost: it  *)
(* stays pending for its vector until the mask is cleared, and is then sent.*)
(* Not so for the fault queue, whose own record can be the one that a       *)
(* released message leads to.                                               *)
OthersWithheldArePending ==
  \A u \in Units \ {"FQ"} : Withheld(u) => claim[u] \in msi_pending

(* Every page request that asks for a response gets exactly one: it is      *)
(* either stored for software to answer, or answered at once.  The IOMMU    *)
(* answers success only for a request it dropped from a full queue.         *)
AnsweredOnce ==
  [][/\ exchange'.request = "last" =>
          (queue'["PQ"].tail = queue["PQ"].tail) = (exchange'.response # None)
     /\ exchange'.response = "success" =>
          queue'["PQ"].on /\ queue'["PQ"].of /\ ~queue'["PQ"].mf]_vars

=============================================================================
