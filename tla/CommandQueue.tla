---------------------------- MODULE CommandQueue ----------------------------
(***************************************************************************)
(* The command queue of the IOMMU, the ITAG tracker of its ATS             *)
(* invalidation requests and the IOFENCE.C command that waits for them     *)
(* (iommu_command_queue.c, iommu_ats.c, the CQB, CQT, CQCSR and IPSR       *)
(* registers of iommu_reg.c).                                              *)
(*                                                                         *)
(* Four actors take steps: software writes commands and registers, the     *)
(* test bench clocks process_commands, devices answer the invalidation     *)
(* requests sent to them, and the ATS timer expires.  Every C function of  *)
(* the model runs to its end before the next one is called, so each call   *)
(* is one action.                                                          *)
(***************************************************************************)
EXTENDS Integers, FiniteSets

CONSTANTS
  Requesters,   \* devices that can be invalidated: [dsv, dseg, rid] records
  Responses,    \* Responses[d]: completions device d sends for one request
  RspWrap,      \* num_rsp_rcvd counts modulo RspWrap (8 in the code)
  MaxItags,     \* number of ITAG trackers (2 in the code)
  Sizes,        \* queue sizes software may write to cqb (powers of two)
  Slots,        \* command slots the queue memory holds
  Commands,     \* the commands software submits
  CapATS,       \* capabilities.ats
  Wired,        \* fctl.wsi: interrupts are wires, IOFENCE.C may ask for one
  MemoryFaults, \* accesses to the queue or to an IOFENCE.C address may fault
  Coalesce,     \* a device may answer several requests in one completion
  MaxLate,      \* late answers under way at a time (0: a timeout is final)
  ResetInUse,   \* reset_iommu may be called while commands are under way
  CieWrites,    \* the values software writes to cqcsr.cie
  AckWrites     \* the sets of RW1C bits software writes 1 to at once

Ops == {"IOTINVAL", "IODIR", "IOFENCE", "ATS_INVAL", "ATS_PRGR", "RESERVED"}

Command == [op : Ops, dev : Requesters, av : BOOLEAN, wsi : BOOLEAN]

AnyRequester == CHOOSE d \in Requesters : TRUE

(* A zeroed queue entry: opcode 0 is reserved. *)
Blank == [op |-> "RESERVED", dev |-> AnyRequester, av |-> FALSE, wsi |-> FALSE]

Itags == 0 .. MaxItags - 1

(* The error and completion bits of cqcsr that software acknowledges. *)
AckBits == {"cqmf", "cmd_to", "cmd_ill", "fence_w_ip"}

ASSUME ConstantsAssumption ==
  /\ Requesters # {}
  /\ RspWrap \in Nat \ {0}
  /\ Responses \in [Requesters -> 1 .. RspWrap]
  /\ MaxItags \in Nat \ {0}
  /\ Slots \in Nat
  /\ Sizes \subseteq 2 .. Slots
  /\ 2 \in Sizes
  /\ Commands \subseteq Command
  /\ CapATS \in BOOLEAN /\ Wired \in BOOLEAN /\ MemoryFaults \in BOOLEAN
  /\ Coalesce \in BOOLEAN /\ ResetInUse \in BOOLEAN
  /\ MaxLate \in Nat
  /\ CieWrites \subseteq BOOLEAN
  /\ AckWrites \subseteq SUBSET AckBits

VARIABLES
  mem,                          \* the queue in memory
  cqb,                          \* its number of entries, 2^(log2szm1 + 1)
  cqh, cqt,                     \* head and tail registers
  cqcsr,                        \* control and status register
  cip,                          \* ipsr.cip
  command_queue_stall_for_itag,
  pending_inval_req,            \* device of the stalled ATS.INVAL
  ats_inv_req_timeout,
  iofence_wait_pending_inv,
  iofence_pending,              \* operands of the waiting IOFENCE.C
  itag_tracker,
  answers,                      \* completions the devices still owe
  expired,                      \* history: devices a request to which timed out
  unreported                    \* history: a timeout no cmd_to reported yet

regs   == <<cqb, cqt>>
fence  == <<iofence_wait_pending_inv, iofence_pending>>
inval  == <<command_queue_stall_for_itag, pending_inval_req>>
tags   == <<itag_tracker, answers>>
vars   == <<mem, regs, cqh, cqcsr, cip, inval, ats_inv_req_timeout, fence, tags,
            expired, unreported>>

-----------------------------------------------------------------------------
(* Types. *)

Cqcsr == [cqen : BOOLEAN, cqon : BOOLEAN, busy : BOOLEAN, cie : BOOLEAN,
          cqmf : BOOLEAN, cmd_to : BOOLEAN, cmd_ill : BOOLEAN,
          fence_w_ip : BOOLEAN]

Tracker == [busy : BOOLEAN, dev : Requesters, num_rsp_rcvd : 0 .. RspWrap - 1]

Answer == [itag : Itags, dev : Requesters, left : 1 .. RspWrap, late : BOOLEAN]

(* A free tracker.  The code leaves the old fields in place and never reads *)
(* them before allocate_itag overwrites them; the operands kept for a parked*)
(* command are reset here in the same way once nothing reads them.          *)
Free == [busy |-> FALSE, dev |-> AnyRequester, num_rsp_rcvd |-> 0]

TypeOK ==
  /\ mem \in [0 .. Slots - 1 -> Commands \cup {Blank}]
  /\ cqb \in Sizes
  /\ cqh \in 0 .. Slots - 1
  /\ cqt \in 0 .. cqb - 1
  /\ cqcsr \in Cqcsr
  /\ cip \in BOOLEAN
  /\ command_queue_stall_for_itag \in BOOLEAN
  /\ pending_inval_req \in Requesters
  /\ ats_inv_req_timeout \in BOOLEAN
  /\ iofence_wait_pending_inv \in BOOLEAN
  /\ iofence_pending \in Commands \cup {Blank}
  /\ itag_tracker \in [Itags -> Tracker]
  /\ answers \subseteq Answer
  /\ expired \subseteq Requesters
  /\ unreported \in BOOLEAN

Init ==
  /\ mem = [i \in 0 .. Slots - 1 |-> Blank]
  /\ cqb = 2 /\ cqh = 0 /\ cqt = 0
  /\ cqcsr = [cqen |-> FALSE, cqon |-> FALSE, busy |-> FALSE, cie |-> FALSE,
              cqmf |-> FALSE, cmd_to |-> FALSE, cmd_ill |-> FALSE,
              fence_w_ip |-> FALSE]
  /\ cip = FALSE
  /\ command_queue_stall_for_itag = FALSE
  /\ pending_inval_req = AnyRequester
  /\ ats_inv_req_timeout = FALSE
  /\ iofence_wait_pending_inv = FALSE
  /\ iofence_pending = Blank
  /\ itag_tracker = [i \in Itags |-> Free]
  /\ answers = {} /\ expired = {} /\ unreported = FALSE

-----------------------------------------------------------------------------
(* Pieces shared by the handlers. *)

(* Mutant: the index wraps where the memory ends, not where the queue ends. *)
SuccIgnoresCqb(i) == (i + 1) % Slots
Succ(i) == (i + 1) % cqb

Failed(csr) == csr.cqmf \/ csr.cmd_to \/ csr.cmd_ill

(* Mutant: the scan of the trackers stops one short. *)
BusyTagsButLast(t) == {i \in Itags \ {MaxItags - 1} : t[i].busy}
BusyTags(t) == {i \in Itags : t[i].busy}

(* generate_interrupt(COMMAND_QUEUE), called by whoever turned a bit of     *)
(* cqcsr on; cip stays set until software clears it.                        *)
Interrupt(csr) == cip' = (cip \/ (cqcsr.cie /\ csr # cqcsr))

(* allocate_itag takes the first free tracker; do_ats_msg sends the request *)
(* and the device owes its completions from then on.                        *)
SendInval(t, owed, dev) ==
  LET i == CHOOSE i \in Itags \ BusyTags(t) :
             \A j \in Itags \ BusyTags(t) : i <= j
  IN /\ itag_tracker' = [t EXCEPT ![i] = [busy |-> TRUE, dev |-> dev,
                                          num_rsp_rcvd |-> 0]]
     /\ answers' = owed \cup {[itag |-> i, dev |-> dev,
                               left |-> Responses[dev], late |-> FALSE]}

(* What do_iofence_c can come to once no tracker is busy: a timeout is      *)
(* reported first, then the store of an AV command may fault.               *)
FenceOutcomes(c, timedOut) ==
  IF timedOut THEN {"timeout"}
  ELSE {"done"} \cup (IF c.av /\ MemoryFaults THEN {"fault"} ELSE {})

FenceCsr(c, outcome) ==
  [cqcsr EXCEPT !.cmd_to     = @ \/ outcome = "timeout",
                !.cqmf       = @ \/ outcome = "fault",
                !.fence_w_ip = @ \/ (outcome = "done" /\ c.wsi)]

(* Mutant: a timeout that was reported is not forgotten. *)
FenceEndsKeepsTimeout(c, outcome, missed) ==
  /\ Interrupt(FenceCsr(c, outcome))
  /\ iofence_wait_pending_inv' = FALSE /\ iofence_pending' = Blank
  /\ UNCHANGED ats_inv_req_timeout
  /\ unreported' = (missed /\ outcome # "timeout")
  /\ cqh' = IF outcome = "done" THEN Succ(cqh) ELSE cqh

(* Mutant: the head moves on over a fence whose store faulted. *)
FenceEndsOverFault(c, outcome, missed) ==
  /\ Interrupt(FenceCsr(c, outcome))
  /\ iofence_wait_pending_inv' = FALSE /\ iofence_pending' = Blank
  /\ ats_inv_req_timeout' = FALSE
  /\ unreported' = (missed /\ outcome # "timeout")
  /\ cqh' = IF outcome \in {"done", "fault"} THEN Succ(cqh) ELSE cqh

(* The part of do_iofence_c behind its wait, and the head it leaves. *)
FenceEnds(c, outcome, missed) ==
  /\ Interrupt(FenceCsr(c, outcome))
  /\ iofence_wait_pending_inv' = FALSE
  /\ iofence_pending' = Blank
  /\ ats_inv_req_timeout' = FALSE
  /\ unreported' = (missed /\ outcome # "timeout")
  /\ cqh' = IF outcome = "done" THEN Succ(cqh) ELSE cqh

-----------------------------------------------------------------------------
(* process_commands: one call takes at most one command. *)

CanFetch ==
  /\ cqcsr.cqon /\ cqcsr.cqen /\ ~Failed(cqcsr)
  /\ ~command_queue_stall_for_itag
  /\ ~iofence_wait_pending_inv
  /\ cqh # cqt

Illegal(c) ==
  \/ c.op = "RESERVED"
  \/ c.op = "IOFENCE" /\ c.wsi /\ ~Wired
  \/ c.op \in {"ATS_INVAL", "ATS_PRGR"} /\ ~CapATS

FetchFault ==
  /\ CanFetch /\ MemoryFaults
  /\ cqcsr' = [cqcsr EXCEPT !.cqmf = TRUE]
  /\ Interrupt(cqcsr')
  /\ UNCHANGED <<mem, regs, cqh, inval, ats_inv_req_timeout, fence, tags,
                 expired, unreported>>

RejectCommand ==
  /\ CanFetch /\ Illegal(mem[cqh])
  /\ cqcsr' = [cqcsr EXCEPT !.cmd_ill = TRUE]
  /\ Interrupt(cqcsr')
  /\ UNCHANGED <<mem, regs, cqh, inval, ats_inv_req_timeout, fence, tags,
                 expired, unreported>>

(* IOTINVAL, IODIR and ATS.PRGR change nothing of this component but the    *)
(* head: what they do to the caches and the message they send is elsewhere. *)
RunSimple ==
  /\ CanFetch /\ ~Illegal(mem[cqh])
  /\ mem[cqh].op \in {"IOTINVAL", "IODIR", "ATS_PRGR"}
  /\ cqh' = Succ(cqh)
  /\ UNCHANGED <<mem, regs, cqcsr, cip, inval, ats_inv_req_timeout, fence, tags,
                 expired, unreported>>

(* ATS.INVAL: without a free tracker the operands are kept, the queue       *)
(* stalls, and the head moves on all the same.                              *)
RunInval ==
  /\ CanFetch /\ ~Illegal(mem[cqh]) /\ mem[cqh].op = "ATS_INVAL"
  /\ IF BusyTags(itag_tracker) = Itags
     THEN /\ command_queue_stall_for_itag' = TRUE
          /\ pending_inval_req' = mem[cqh].dev
          /\ UNCHANGED tags
     ELSE SendInval(itag_tracker, answers, mem[cqh].dev) /\ UNCHANGED inval
  /\ cqh' = Succ(cqh)
  /\ UNCHANGED <<mem, regs, cqcsr, cip, ats_inv_req_timeout, fence, expired,
                 unreported>>

(* IOFENCE.C with requests outstanding: keep the operands and the head. *)
BlockFence ==
  /\ CanFetch /\ ~Illegal(mem[cqh]) /\ mem[cqh].op = "IOFENCE"
  /\ BusyTags(itag_tracker) # {}
  /\ iofence_wait_pending_inv' = TRUE
  /\ iofence_pending' = mem[cqh]
  /\ UNCHANGED <<mem, regs, cqh, cqcsr, cip, inval, ats_inv_req_timeout, tags,
                 expired, unreported>>

RunFence ==
  /\ CanFetch /\ ~Illegal(mem[cqh]) /\ mem[cqh].op = "IOFENCE"
  /\ BusyTags(itag_tracker) = {}
  /\ \E outcome \in FenceOutcomes(mem[cqh], ats_inv_req_timeout) :
       /\ FenceEnds(mem[cqh], outcome, unreported)
       /\ cqcsr' = FenceCsr(mem[cqh], outcome)
  /\ UNCHANGED <<mem, regs, inval, tags, expired>>

process_commands ==
  FetchFault \/ RejectCommand \/ RunSimple \/ RunInval \/ BlockFence \/ RunFence

-----------------------------------------------------------------------------
(* do_pending_iofence_inval_reqs, called after t and owed replaced the      *)
(* trackers and the answers and timedOut is ats_inv_req_timeout: first the  *)
(* waiting IOFENCE.C (do_pending_iofence, which also finishes a disable of  *)
(* the queue), then the stalled ATS.INVAL.                                  *)

(* Mutant: the queue goes off but stays busy. *)
FinishDisableStaysBusy(csr) == [csr EXCEPT !.cqon = csr.cqen]
FinishDisable(csr) == [csr EXCEPT !.cqon = csr.cqen, !.busy = FALSE]

ResumeFence(t, timedOut, missed) ==
  IF iofence_wait_pending_inv /\ BusyTags(t) = {}
  THEN \E outcome \in FenceOutcomes(iofence_pending, timedOut) :
         /\ FenceEnds(iofence_pending, outcome, missed)
         /\ cqcsr' = FinishDisable(FenceCsr(iofence_pending, outcome))
  ELSE /\ ats_inv_req_timeout' = timedOut
       /\ unreported' = missed
       /\ UNCHANGED <<fence, cqh, cqcsr, cip>>

ResumeInval(t, owed) ==
  IF /\ ~iofence_wait_pending_inv'
     /\ command_queue_stall_for_itag
     /\ BusyTags(t) # Itags
  THEN /\ SendInval(t, owed, pending_inval_req)
       /\ command_queue_stall_for_itag' = FALSE
       /\ pending_inval_req' = AnyRequester
  ELSE /\ itag_tracker' = t
       /\ answers' = owed
       /\ UNCHANGED inval

(* Mutant: the stalled ATS.INVAL is forgotten. *)
ResumeFenceOnly(t, owed, timedOut, missed) ==
  /\ ResumeFence(t, timedOut, missed)
  /\ itag_tracker' = t /\ answers' = owed /\ UNCHANGED inval

(* Mutant: the waiting IOFENCE.C is forgotten. *)
ResumeInvalOnly(t, owed, timedOut, missed) ==
  /\ ats_inv_req_timeout' = timedOut /\ unreported' = missed
  /\ UNCHANGED <<fence, cqh, cqcsr, cip>>
  /\ ResumeInval(t, owed)

Resume(t, owed, timedOut, missed) ==
  /\ ResumeFence(t, timedOut, missed)
  /\ ResumeInval(t, owed)

-----------------------------------------------------------------------------
(* handle_invalidation_completion: trackers are visited in order, and the   *)
(* first one the completion does not fit ends the call: the trackers before *)
(* it keep their count, and nothing is resumed.                             *)

(* Mutant: the segment is not compared. *)
MatchesRidOnly(asked, dev) == asked.rid = dev.rid

Matches(asked, dev) ==
  /\ asked.dsv = 1 => dev.dsv = 1 /\ dev.dseg = asked.dseg
  /\ asked.rid = dev.rid

Unexpected(vector, dev) ==
  {i \in vector : ~(itag_tracker[i].busy /\ Matches(itag_tracker[i].dev, dev))}

(* The trackers the loop reaches before it meets an unexpected one. *)
Reached(vector, dev) ==
  {i \in vector : \A j \in Unexpected(vector, dev) : i < j}

(* Mutant: the count is not cut to its width. *)
CountedUnmasked(tracker, cc) ==
  LET received == tracker.num_rsp_rcvd + 1 IN
  IF received = cc THEN Free ELSE [tracker EXCEPT !.num_rsp_rcvd = received]

Counted(tracker, cc) ==
  LET received == (tracker.num_rsp_rcvd + 1) % RspWrap IN
  IF received = cc THEN Free ELSE [tracker EXCEPT !.num_rsp_rcvd = received]

handle_invalidation_completion(vector, cc, dev, owed) ==
  LET t == [i \in Itags |-> IF i \in Reached(vector, dev)
                            THEN Counted(itag_tracker[i], cc)
                            ELSE itag_tracker[i]]
  IN IF Unexpected(vector, dev) # {}
     THEN /\ itag_tracker' = t
          /\ answers' = owed
          /\ UNCHANGED <<cqh, cqcsr, cip, ats_inv_req_timeout, inval,
                         fence, unreported>>
     ELSE /\ Resume(t, owed, ats_inv_req_timeout, unreported)

(* A device sends one of the completions it owes, for one request or, when  *)
(* Coalesce, for several at once.  Every completion carries in cc how many  *)
(* the request gets, modulo RspWrap.                                        *)
DeviceAnswers ==
  \E S \in (SUBSET answers) \ {{}} :
    /\ Coalesce \/ \A a, b \in S : a = b
    /\ \A a, b \in S : a.dev = b.dev /\ (a.itag = b.itag => a = b)
    /\ LET dev  == (CHOOSE a \in S : TRUE).dev
           owed == (answers \ S) \cup
                     {[a EXCEPT !.left = @ - 1] : a \in {b \in S : b.left > 1}}
       IN handle_invalidation_completion({a.itag : a \in S},
                                         Responses[dev] % RspWrap, dev, owed)
    /\ UNCHANGED <<mem, regs, expired>>

(* The requests a timer gives up on; a device that is merely slow may still *)
(* answer them, up to MaxLate late answers at a time.                       *)
do_ats_timer_expiry(vector) ==
  LET given_up == {a \in answers : /\ a.itag \in vector /\ ~a.late
                                   /\ itag_tracker[a.itag].busy
                                   /\ itag_tracker[a.itag].dev = a.dev}
      late     == {a \in answers : a.late}
  IN \E slow \in SUBSET given_up :
       /\ Cardinality(late) + Cardinality(slow) <= MaxLate \/ slow = {}
       /\ Resume([i \in Itags |-> IF i \in vector THEN Free ELSE itag_tracker[i]],
                 (answers \ given_up) \cup {[a EXCEPT !.late = TRUE] : a \in slow},
                 TRUE,
                 unreported \/ \E i \in vector : itag_tracker[i].busy)
       /\ expired' = expired \cup
                       {itag_tracker[i].dev : i \in vector \cap BusyTags(itag_tracker)}
       /\ UNCHANGED <<mem, regs>>

TimerExpires ==
  \E vector \in (SUBSET BusyTags(itag_tracker)) \ {{}} : do_ats_timer_expiry(vector)

-----------------------------------------------------------------------------
(* Register writes.  A write the code drops is a stuttering step. *)

internals == <<ats_inv_req_timeout, inval, fence, tags, expired, unreported>>

(* Software stores a command behind the tail and writes cqt; it never lets  *)
(* the tail run into the head.                                              *)
Submit(c) ==
  /\ cqcsr.cqon
  /\ Succ(cqt) # cqh
  /\ mem' = [mem EXCEPT ![cqt] = c]
  /\ cqt' = Succ(cqt)
  /\ UNCHANGED <<cqb, cqh, cqcsr, cip, internals>>

(* Mutant: the queue is moved while it is on. *)
WriteCqbWhileOn(size) ==
  /\ ~cqcsr.busy
  /\ cqb' = size /\ cqt' = 0
  /\ UNCHANGED <<mem, cqh, cqcsr, cip, internals>>

WriteCqb(size) ==
  /\ ~cqcsr.busy /\ ~cqcsr.cqon
  /\ cqb' = size /\ cqt' = 0
  /\ UNCHANGED <<mem, cqh, cqcsr, cip, internals>>

WriteCqcsr(cqen, cie, ack) ==
  LET enable  == cqen /\ ~cqcsr.cqen
      disable == ~cqen /\ cqcsr.cqen
      on      == \/ enable
                 \/ cqcsr.cqon /\ (disable => iofence_wait_pending_inv)
      keep(b) == cqcsr[b] /\ ~enable /\ b \notin ack
  IN /\ ~cqcsr.busy
     /\ cqh' = IF enable THEN 0 ELSE cqh
     /\ cqcsr' = [cqen |-> cqen, cqon |-> on, busy |-> cqen # on, cie |-> cie,
                  cqmf |-> keep("cqmf"), cmd_to |-> keep("cmd_to"),
                  cmd_ill |-> keep("cmd_ill"), fence_w_ip |-> keep("fence_w_ip")]
     /\ UNCHANGED <<mem, regs, cip, internals>>

(* Mutant: cip is cleared whatever is still unacknowledged. *)
WriteIpsrClears ==
  cip' = FALSE /\ UNCHANGED <<mem, regs, cqh, cqcsr, internals>>

(* Writing 1 to ipsr.cip clears it, and pends it again when an error or a   *)
(* completion is still unacknowledged and interrupts are enabled.           *)
WriteIpsr ==
  /\ cip' = (cqcsr.cie /\ (Failed(cqcsr) \/ cqcsr.fence_w_ip))
  /\ UNCHANGED <<mem, regs, cqh, cqcsr, internals>>

(* reset_iommu zeroes the register file and nothing else.  The test bench   *)
(* calls it before it uses the model, which is when nothing is under way.   *)
Reset ==
  /\ ResetInUse \/ /\ ~command_queue_stall_for_itag
                   /\ ~iofence_wait_pending_inv
                   /\ ~ats_inv_req_timeout
                   /\ BusyTags(itag_tracker) = {}
  /\ cqb' = 2 /\ cqh' = 0 /\ cqt' = 0
  /\ cqcsr' = [cqen |-> FALSE, cqon |-> FALSE, busy |-> FALSE, cie |-> FALSE,
               cqmf |-> FALSE, cmd_to |-> FALSE, cmd_ill |-> FALSE,
               fence_w_ip |-> FALSE]
  /\ cip' = FALSE
  /\ UNCHANGED <<mem, internals>>

Software ==
  \/ \E c \in Commands : Submit(c)
  \/ \E size \in Sizes : WriteCqb(size)
  \/ \E cqen \in BOOLEAN, cie \in CieWrites, ack \in AckWrites :
       WriteCqcsr(cqen, cie, ack)
  \/ WriteIpsr
  \/ Reset

Next == process_commands \/ DeviceAnswers \/ TimerExpires \/ Software

Spec == Init /\ [][Next]_vars

(* The harness keeps clocking process_commands, and the ATS timer of a      *)
(* request that stays unanswered expires in the end.                        *)
FairSpec == Spec /\ WF_vars(process_commands) /\ WF_vars(TimerExpires)

-----------------------------------------------------------------------------
(* Safety. *)

(* cqcsr.busy is on exactly while the queue was disabled under a waiting    *)
(* IOFENCE.C: then cqon outlives cqen, and in every other state the three   *)
(* agree, so that software polling busy never waits for nothing.            *)
BusyOnlyBehindFence ==
  /\ cqcsr.busy <=> cqcsr.cqen # cqcsr.cqon
  /\ cqcsr.busy => cqcsr.cqon /\ iofence_wait_pending_inv

(* The operands kept for a waiting IOFENCE.C are those of the command the   *)
(* head still points at, and that command lies in front of the tail: the    *)
(* head that do_pending_iofence advances later passes this very command,    *)
(* whatever software did to the registers in between.                       *)
WaitingFenceIsAtHead ==
  iofence_wait_pending_inv =>
    /\ cqcsr.cqon
    /\ cqh < cqb /\ cqh # cqt
    /\ mem[cqh] = iofence_pending

(* Nothing waits without a cause: an IOFENCE.C waits only while a request   *)
(* is outstanding, and an ATS.INVAL is stalled only while no tracker is     *)
(* free.  Every path that frees a tracker must therefore resume them.       *)
FenceWaitsForBusyTag == iofence_wait_pending_inv => BusyTags(itag_tracker) # {}
StallMeansNoFreeTag  == command_queue_stall_for_itag => BusyTags(itag_tracker) = Itags
WaitHasCause == FenceWaitsForBusyTag /\ StallMeansNoFreeTag

(* A step in which the head passes an IOFENCE.C. *)
FencePasses == cqh' = Succ(cqh) /\ mem[cqh].op = "IOFENCE" /\ cqcsr.cqon

(* IOFENCE.C guarantees that every earlier invalidation is complete: when   *)
(* the head passes it, every request still unanswered had timed out, and    *)
(* no timeout is left that cmd_to did not report.                           *)
FenceGuarantee ==
  [][FencePasses => (\A a \in answers' : a.late) /\ ~unreported']_vars

(* ats_inv_req_timeout stands for a timeout that did happen and was not yet *)
(* reported, however often the queue was disabled and enabled since: cmd_to *)
(* is neither raised for nothing nor withheld.                              *)
TimeoutFlagIsReal == ats_inv_req_timeout <=> unreported

(* A request that is treated as complete while its device still owes        *)
(* completions has only one explanation: a late answer of a device the      *)
(* tracker cannot tell from it, to a request that timed out before.         *)
SameFunction(d, e) ==
  d.rid = e.rid /\ (d.dsv = 1 => e.dsv = 1 /\ e.dseg = d.dseg)

PrematureOnlyByLateAnswer ==
  \A a \in answers :
    ~a.late /\ ~itag_tracker[a.itag].busy =>
      \E d \in expired : SameFunction(a.dev, d)

(* A command that fails stays at the head: no step moves the head while an  *)
(* error bit is set, or while it sets one, except enabling the queue anew   *)
(* or a reset; and the head never moves over the tail.                                  *)
HeadMovesOverDoneCommands ==
  [][cqh' # cqh =>
       \/ cqh' = 0 /\ (~cqcsr.cqen /\ cqcsr'.cqen)
       \/ cqh' = 0 /\ cqt' = 0 /\ ~cqcsr'.cqen
       \/ /\ cqh' = Succ(cqh) /\ cqh # cqt
          /\ ~Failed(cqcsr')]_vars

(* An error or a completed IOFENCE.C that software has not acknowledged     *)
(* shows in ipsr.cip as long as interrupts are enabled; the one way around  *)
(* it is to enable them only after the fact.                                *)
Silent(csr, ip) == (Failed(csr) \/ csr.fence_w_ip) /\ csr.cie /\ ~ip
SilentOnlyByLateEnable ==
  [][Silent(cqcsr', cip') => Silent(cqcsr, cip) \/ (~cqcsr.cie /\ cqcsr'.cie)]_vars

(* What a parked command waits for shrinks only, and each expiry of the     *)
(* timer takes from it: while an IOFENCE.C waits no tracker is taken, and a *)
(* timer that expires frees one or ends the wait; it always sends a stalled *)
(* ATS.INVAL.                                                               *)
WaitsShrink ==
  [][/\ iofence_wait_pending_inv /\ iofence_wait_pending_inv' =>
          /\ BusyTags(itag_tracker') \subseteq BusyTags(itag_tracker)
          /\ TimerExpires => BusyTags(itag_tracker') # BusyTags(itag_tracker)
     /\ command_queue_stall_for_itag /\ TimerExpires =>
          ~command_queue_stall_for_itag']_vars

-----------------------------------------------------------------------------
(* Liveness, under FairSpec. *)

(* A waiting IOFENCE.C completes or is rejected for a timeout or a fault    *)
(* in the end.                                                              *)
FenceResolves == iofence_wait_pending_inv ~> ~iofence_wait_pending_inv

(* A stalled ATS.INVAL is sent in the end. *)
StallResolves == command_queue_stall_for_itag ~> ~command_queue_stall_for_itag

(* Software that disables the queue sees busy go to 0 in the end. *)
DisableCompletes == cqcsr.busy ~> ~cqcsr.busy

=============================================================================
