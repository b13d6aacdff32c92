------------------------- MODULE CommandQueueProofs -------------------------
(***************************************************************************)
(* Proofs about CommandQueue for every choice of its constants.            *)
(***************************************************************************)
EXTENDS CommandQueue, TLAPS, WellFoundedInduction, FiniteSetTheorems

-----------------------------------------------------------------------------
(* Lemmas about the operators. *)

(* The first free tracker exists whenever one is free (allocate_itag).      *)
LEMMA FirstTag ==
  ASSUME NEW S \in SUBSET Itags, S # {}
  PROVE  (CHOOSE i \in S : \A j \in S : i <= j) \in S
<1>1. S \subseteq Nat
  BY ConstantsAssumption DEF Itags
<1>2. IsWellFoundedOn(OpToRel(<, Nat), Nat)
  BY NatLessThanWellFounded
<1>3. PICK m \in S : \A j \in S : ~(<<j, m>> \in OpToRel(<, Nat))
  BY <1>1, <1>2, WFMin
<1>4. \A j \in S : ~(j < m)
  <2> SUFFICES ASSUME NEW j \in S, j < m PROVE FALSE
    OBVIOUS
  <2>1. j \in Nat /\ m \in Nat
    BY <1>1
  <2>2. <<j, m>> \in OpToRel(<, Nat)
    BY <2>1, Zenon DEF OpToRel
  <2>3. QED
    BY <1>3, <2>2
<1>5. \A j \in S : m <= j
  BY <1>1, <1>4
<1>6. QED
  BY <1>5

(* The head and the tail stay inside the queue they index. *)
LEMMA SuccType ==
  ASSUME cqb \in Sizes, NEW i \in 0 .. Slots - 1
  PROVE  Succ(i) \in 0 .. cqb - 1 /\ Succ(i) \in 0 .. Slots - 1
<1>1. cqb \in 2 .. Slots /\ Slots \in Nat
  BY ConstantsAssumption
<1>2. QED
  BY <1>1 DEF Succ

LEMMA RequesterExists == AnyRequester \in Requesters
BY ConstantsAssumption DEF AnyRequester

LEMMA FreeIsTracker == Free \in Tracker
BY RequesterExists, ConstantsAssumption DEF Free, Tracker

LEMMA QueuedIsCommand == Commands \cup {Blank} \subseteq Command
<1>1. "RESERVED" \in Ops
  BY DEF Ops
<1>2. Blank \in Command
  BY <1>1, RequesterExists DEF Blank, Command
<1>3. QED
  BY <1>2, ConstantsAssumption

(* A request goes to a tracker that was free, and to no other.              *)
LEMMA SendInvalType ==
  ASSUME NEW t \in [Itags -> Tracker], NEW owed \in SUBSET Answer,
         NEW dev \in Requesters, BusyTags(t) # Itags,
         SendInval(t, owed, dev)
  PROVE  itag_tracker' \in [Itags -> Tracker] /\ answers' \in SUBSET Answer
<1> DEFINE free == Itags \ BusyTags(t)
           i == CHOOSE i \in free : \A j \in free : i <= j
<1>1. free \in SUBSET Itags /\ free # {}
  BY DEF BusyTags
<1>2. i \in Itags
  BY <1>1, FirstTag
<1>3. [busy |-> TRUE, dev |-> dev, num_rsp_rcvd |-> 0] \in Tracker
  BY ConstantsAssumption DEF Tracker
<1>4. [itag |-> i, dev |-> dev, left |-> Responses[dev], late |-> FALSE] \in Answer
  BY <1>2, ConstantsAssumption DEF Answer
<1>5. /\ itag_tracker' = [t EXCEPT ![i] = [busy |-> TRUE, dev |-> dev,
                                          num_rsp_rcvd |-> 0]]
      /\ answers' = owed \cup {[itag |-> i, dev |-> dev,
                               left |-> Responses[dev], late |-> FALSE]}
  BY DEF SendInval
<1>6. QED
  BY <1>2, <1>3, <1>4, <1>5

LEMMA FenceCsrType ==
  ASSUME cqcsr \in Cqcsr, NEW c, NEW outcome
  PROVE  FenceCsr(c, outcome) \in Cqcsr
BY DEF FenceCsr, Cqcsr

LEMMA FinishDisableType ==
  ASSUME NEW csr \in Cqcsr
  PROVE  FinishDisable(csr) \in Cqcsr
BY DEF FinishDisable, Cqcsr

LEMMA InterruptType ==
  ASSUME NEW csr, cip \in BOOLEAN, cqcsr \in Cqcsr, Interrupt(csr)
  PROVE  cip' \in BOOLEAN
BY DEF Interrupt

LEMMA FenceEndsType ==
  ASSUME TypeOK, NEW c, NEW outcome, NEW missed \in BOOLEAN,
         FenceEnds(c, outcome, missed)
  PROVE  /\ cip' \in BOOLEAN /\ cqh' \in 0 .. Slots - 1
         /\ iofence_wait_pending_inv' \in BOOLEAN
         /\ iofence_pending' \in Commands \cup {Blank}
         /\ ats_inv_req_timeout' \in BOOLEAN
         /\ unreported' \in BOOLEAN
<1>1. cip' \in BOOLEAN
  BY InterruptType DEF FenceEnds, TypeOK
<1>2. cqh' \in 0 .. Slots - 1
  <2>1. cqh' = Succ(cqh) \/ cqh' = cqh
    BY DEF FenceEnds
  <2>2. QED
    BY <2>1, SuccType DEF TypeOK
<1>3. /\ iofence_wait_pending_inv' = FALSE
      /\ iofence_pending' = Blank
      /\ ats_inv_req_timeout' = FALSE
      /\ unreported' = (missed /\ outcome # "timeout")
  BY DEF FenceEnds
<1>4. unreported' \in BOOLEAN
  BY <1>3
<1>5. QED
  BY <1>1, <1>2, <1>3, <1>4

(* Resuming what waits keeps the types, whatever the trackers and answers   *)
(* the event left.                                                          *)
LEMMA ResumeType ==
  ASSUME TypeOK, NEW t \in [Itags -> Tracker], NEW owed \in SUBSET Answer,
         NEW timedOut \in BOOLEAN, NEW missed \in BOOLEAN,
         Resume(t, owed, timedOut, missed),
         UNCHANGED <<mem, regs>>, expired' \subseteq Requesters
  PROVE  TypeOK'
<1>1. /\ cip' \in BOOLEAN /\ cqh' \in 0 .. Slots - 1 /\ cqcsr' \in Cqcsr
      /\ iofence_wait_pending_inv' \in BOOLEAN
      /\ iofence_pending' \in Commands \cup {Blank}
      /\ ats_inv_req_timeout' \in BOOLEAN
      /\ unreported' \in BOOLEAN
  <2>1. CASE iofence_wait_pending_inv /\ BusyTags(t) = {}
    <3>1. PICK outcome \in FenceOutcomes(iofence_pending, timedOut) :
            /\ FenceEnds(iofence_pending, outcome, missed)
            /\ cqcsr' = FinishDisable(FenceCsr(iofence_pending, outcome))
      BY <2>1 DEF Resume, ResumeFence
    <3>2. cqcsr' \in Cqcsr
      BY <3>1, FenceCsrType, FinishDisableType DEF TypeOK
    <3>3. QED
      BY <3>1, <3>2, FenceEndsType
  <2>2. CASE ~(iofence_wait_pending_inv /\ BusyTags(t) = {})
    BY <2>2 DEF Resume, ResumeFence, TypeOK, fence
  <2>3. QED
    BY <2>1, <2>2
<1>2. /\ itag_tracker' \in [Itags -> Tracker] /\ answers' \in SUBSET Answer
      /\ command_queue_stall_for_itag' \in BOOLEAN
      /\ pending_inval_req' \in Requesters
  <2>1. CASE /\ ~iofence_wait_pending_inv'
             /\ command_queue_stall_for_itag
             /\ BusyTags(t) # Itags
    <3>1. /\ SendInval(t, owed, pending_inval_req)
          /\ command_queue_stall_for_itag' = FALSE
          /\ pending_inval_req' = AnyRequester
      BY <2>1 DEF Resume, ResumeInval
    <3>2. QED
      BY <2>1, <3>1, SendInvalType, RequesterExists DEF TypeOK
  <2>2. CASE ~ /\ ~iofence_wait_pending_inv'
               /\ command_queue_stall_for_itag
               /\ BusyTags(t) # Itags
    BY <2>2 DEF Resume, ResumeInval, TypeOK, inval
  <2>3. QED
    BY <2>1, <2>2
<1>3. QED
  BY <1>1, <1>2 DEF TypeOK, regs

-----------------------------------------------------------------------------
(* Type correctness. *)

LEMMA InitType == Init => TypeOK
<1> SUFFICES ASSUME Init PROVE TypeOK
  OBVIOUS
<1>1. Blank \in Commands \cup {Blank} /\ AnyRequester \in Requesters
  BY RequesterExists
<1>2. cqb \in Sizes /\ cqh \in 0 .. Slots - 1 /\ cqt \in 0 .. cqb - 1
  BY ConstantsAssumption DEF Init
<1>3. cqcsr \in Cqcsr
  BY DEF Init, Cqcsr
<1>4. itag_tracker \in [Itags -> Tracker]
  BY FreeIsTracker DEF Init
<1>5. QED
  BY <1>1, <1>2, <1>3, <1>4 DEF Init, TypeOK

(* A completion leaves trackers and answers of the right type. *)
LEMMA CountedType ==
  ASSUME NEW tracker \in Tracker, NEW cc
  PROVE  Counted(tracker, cc) \in Tracker
<1>1. (tracker.num_rsp_rcvd + 1) % RspWrap \in 0 .. RspWrap - 1
  BY ConstantsAssumption DEF Tracker
<1>2. QED
  BY <1>1, FreeIsTracker DEF Counted, Tracker

LEMMA OwedType ==
  ASSUME answers \in SUBSET Answer, NEW S \in SUBSET answers
  PROVE  (answers \ S) \cup
           {[a EXCEPT !.left = @ - 1] : a \in {b \in S : b.left > 1}}
         \in SUBSET Answer
<1>1. ASSUME NEW a \in S, a.left > 1
      PROVE  [a EXCEPT !.left = @ - 1] \in Answer
  <2>1. a \in Answer /\ a.left - 1 \in 1 .. RspWrap
    BY <1>1, ConstantsAssumption DEF Answer
  <2>2. QED
    BY <2>1 DEF Answer
<1>2. QED
  BY <1>1

(* What a timeout leaves of the answers. *)
LEMMA LateType ==
  ASSUME NEW rest \in SUBSET Answer, NEW slow \in SUBSET Answer
  PROVE  rest \cup {[a EXCEPT !.late = TRUE] : a \in slow} \in SUBSET Answer
BY DEF Answer

LEMMA DeviceAnswersType == TypeOK /\ DeviceAnswers => TypeOK'
<1> SUFFICES ASSUME TypeOK, DeviceAnswers PROVE TypeOK'
  OBVIOUS
<1>1. PICK S \in (SUBSET answers) \ {{}} :
        /\ LET dev  == (CHOOSE a \in S : TRUE).dev
               owed == (answers \ S) \cup
                         {[a EXCEPT !.left = @ - 1] : a \in {b \in S : b.left > 1}}
           IN handle_invalidation_completion({a.itag : a \in S},
                                             Responses[dev] % RspWrap, dev, owed)
        /\ UNCHANGED <<mem, regs, expired>>
  BY DEF DeviceAnswers
<1> DEFINE dev    == (CHOOSE a \in S : TRUE).dev
           owed   == (answers \ S) \cup
                       {[a EXCEPT !.left = @ - 1] : a \in {b \in S : b.left > 1}}
           vector == {a.itag : a \in S}
           cc     == Responses[dev] % RspWrap
           t      == [i \in Itags |-> IF i \in Reached(vector, dev)
                                      THEN Counted(itag_tracker[i], cc)
                                      ELSE itag_tracker[i]]
<1>2. owed \in SUBSET Answer
  BY OwedType DEF TypeOK
<1>3. t \in [Itags -> Tracker]
  BY CountedType DEF TypeOK
<1>4. CASE Unexpected(vector, dev) # {}
  <2>1. /\ itag_tracker' = t
        /\ answers' = owed
        /\ UNCHANGED <<cqh, cqcsr, cip, ats_inv_req_timeout, inval, fence, unreported>>
    BY <1>1, <1>4 DEF handle_invalidation_completion
  <2> HIDE DEF owed, t
  <2>2. QED
    BY <1>1, <1>2, <1>3, <2>1 DEF TypeOK, regs, inval, fence
<1>5. CASE Unexpected(vector, dev) = {}
  <2>1. Resume(t, owed, ats_inv_req_timeout, unreported)
    BY <1>1, <1>5 DEF handle_invalidation_completion
  <2> HIDE DEF owed, t
  <2>2. UNCHANGED <<mem, regs>> /\ expired' \subseteq Requesters
    BY <1>1 DEF TypeOK
  <2>3. ats_inv_req_timeout \in BOOLEAN /\ unreported \in BOOLEAN
    BY DEF TypeOK
  <2>4. QED
    BY <1>2, <1>3, <2>1, <2>2, <2>3, ResumeType
<1>6. QED
  BY <1>4, <1>5

LEMMA TimerExpiresType == TypeOK /\ TimerExpires => TypeOK'
<1> SUFFICES ASSUME TypeOK, TimerExpires PROVE TypeOK'
  OBVIOUS
<1>1. PICK vector \in (SUBSET BusyTags(itag_tracker)) \ {{}} :
        do_ats_timer_expiry(vector)
  BY DEF TimerExpires
<1> DEFINE given_up == {a \in answers : /\ a.itag \in vector /\ ~a.late
                                        /\ itag_tracker[a.itag].busy
                                        /\ itag_tracker[a.itag].dev = a.dev}
           t == [i \in Itags |-> IF i \in vector THEN Free ELSE itag_tracker[i]]
           missed == unreported \/ \E i \in vector : itag_tracker[i].busy
           gone == {itag_tracker[i].dev : i \in vector \cap BusyTags(itag_tracker)}
<1>2. PICK slow \in SUBSET given_up :
        /\ Resume(t, (answers \ given_up) \cup
                       {[a EXCEPT !.late = TRUE] : a \in slow}, TRUE, missed)
        /\ expired' = expired \cup gone
        /\ UNCHANGED <<mem, regs>>
  BY <1>1 DEF do_ats_timer_expiry
<1> DEFINE owed == (answers \ given_up) \cup {[a EXCEPT !.late = TRUE] : a \in slow}
<1>3. owed \in SUBSET Answer
  <2>1. answers \ given_up \in SUBSET Answer /\ slow \in SUBSET Answer
    BY DEF TypeOK
  <2> HIDE DEF given_up
  <2>2. QED
    BY <2>1, LateType
<1>4. t \in [Itags -> Tracker]
  BY FreeIsTracker DEF TypeOK
<1>5. missed \in BOOLEAN
  BY DEF TypeOK
<1>6. expired' \subseteq Requesters
  BY <1>2 DEF TypeOK, BusyTags, Tracker
<1>7. Resume(t, owed, TRUE, missed) /\ UNCHANGED <<mem, regs>>
  BY <1>2
<1> HIDE DEF t, owed, missed
<1>8. QED
  BY <1>3, <1>4, <1>5, <1>6, <1>7, ResumeType

LEMMA CommandsType == TypeOK /\ process_commands => TypeOK'
<1> SUFFICES ASSUME TypeOK, process_commands PROVE TypeOK'
  OBVIOUS
<1>1. CASE FetchFault
  <2>1. cqcsr' \in Cqcsr
    BY <1>1 DEF FetchFault, TypeOK, Cqcsr
  <2>2. cip' \in BOOLEAN
    BY <1>1, InterruptType DEF FetchFault, TypeOK
  <2>3. QED
    BY <1>1, <2>1, <2>2 DEF FetchFault, TypeOK, regs, inval, fence, tags
<1>2. CASE RejectCommand
  <2>1. cqcsr' \in Cqcsr
    BY <1>2 DEF RejectCommand, TypeOK, Cqcsr
  <2>2. cip' \in BOOLEAN
    BY <1>2, InterruptType DEF RejectCommand, TypeOK
  <2>3. QED
    BY <1>2, <2>1, <2>2 DEF RejectCommand, TypeOK, regs, inval, fence, tags
<1>3. CASE RunSimple
  BY <1>3, SuccType DEF RunSimple, TypeOK, regs, inval, fence, tags
<1>4. CASE RunInval
  <2>1. mem[cqh].dev \in Requesters
    BY QueuedIsCommand DEF TypeOK, Command
  <2>2. cqh' \in 0 .. Slots - 1
    BY <1>4, SuccType DEF RunInval, TypeOK
  <2>3. /\ itag_tracker' \in [Itags -> Tracker] /\ answers' \in SUBSET Answer
        /\ command_queue_stall_for_itag' \in BOOLEAN
        /\ pending_inval_req' \in Requesters
    <3>1. CASE BusyTags(itag_tracker) = Itags
      BY <1>4, <2>1, <3>1 DEF RunInval, TypeOK, tags
    <3>2. CASE BusyTags(itag_tracker) # Itags
      <4>1. SendInval(itag_tracker, answers, mem[cqh].dev) /\ UNCHANGED inval
        BY <1>4, <3>2 DEF RunInval
      <4>2. QED
        BY <2>1, <3>2, <4>1, SendInvalType DEF TypeOK, inval
    <3>3. QED
      BY <3>1, <3>2
  <2>4. QED
    BY <1>4, <2>2, <2>3 DEF RunInval, TypeOK, regs, fence
<1>5. CASE BlockFence
  BY <1>5 DEF BlockFence, TypeOK, regs, inval, tags
<1>6. CASE RunFence
  <2>1. PICK outcome \in FenceOutcomes(mem[cqh], ats_inv_req_timeout) :
          /\ FenceEnds(mem[cqh], outcome, unreported)
          /\ cqcsr' = FenceCsr(mem[cqh], outcome)
    BY <1>6 DEF RunFence
  <2>2. cqcsr' \in Cqcsr
    BY <2>1, FenceCsrType DEF TypeOK
  <2>3. unreported \in BOOLEAN
    BY DEF TypeOK
  <2>4. QED
    BY <1>6, <2>1, <2>2, <2>3, FenceEndsType DEF RunFence, TypeOK, regs, inval, tags
<1>7. QED
  BY <1>1, <1>2, <1>3, <1>4, <1>5, <1>6 DEF process_commands

LEMMA SoftwareType == TypeOK /\ Software => TypeOK'
<1> SUFFICES ASSUME TypeOK, Software PROVE TypeOK'
  OBVIOUS
<1> USE DEF internals, inval, fence, tags
<1>1. ASSUME NEW c \in Commands, Submit(c) PROVE TypeOK'
  <2>1. cqt \in 0 .. Slots - 1
    BY ConstantsAssumption DEF TypeOK
  <2>2. Succ(cqt) \in 0 .. cqb - 1
    BY <2>1, SuccType DEF TypeOK
  <2>3. QED
    BY <1>1, <2>1, <2>2 DEF Submit, TypeOK
<1>2. ASSUME NEW size \in Sizes, WriteCqb(size) PROVE TypeOK'
  <2>1. 0 \in 0 .. size - 1
    BY ConstantsAssumption
  <2>2. QED
    BY <1>2, <2>1 DEF WriteCqb, TypeOK
<1>3. ASSUME NEW cqen \in BOOLEAN, NEW cie \in CieWrites, NEW ack \in AckWrites,
             WriteCqcsr(cqen, cie, ack)
      PROVE  TypeOK'
  <2>1. cqcsr' \in Cqcsr
    BY <1>3, ConstantsAssumption DEF WriteCqcsr, TypeOK, Cqcsr
  <2>2. cqh' \in 0 .. Slots - 1
    BY <1>3, ConstantsAssumption DEF WriteCqcsr, TypeOK
  <2>3. QED
    BY <1>3, <2>1, <2>2 DEF WriteCqcsr, TypeOK, regs
<1>4. CASE WriteIpsr
  <2>1. cip' \in BOOLEAN
    BY <1>4 DEF WriteIpsr
  <2>2. QED
    BY <1>4, <2>1 DEF WriteIpsr, TypeOK, regs
<1>5. CASE Reset
  <2>1. 2 \in Sizes /\ 0 \in 0 .. Slots - 1 /\ 0 \in 0 .. 2 - 1
    BY ConstantsAssumption
  <2>2. cqcsr' \in Cqcsr
    BY <1>5 DEF Reset, Cqcsr
  <2>3. QED
    BY <1>5, <2>1, <2>2 DEF Reset, TypeOK
<1>6. QED
  BY <1>1, <1>2, <1>3, <1>4, <1>5 DEF Software

LEMMA StutterType == TypeOK /\ UNCHANGED vars => TypeOK'
BY DEF TypeOK, vars, regs, inval, fence, tags

(* Every variable keeps its type: in particular head and tail never leave   *)
(* the queue, whatever sizes software gives it, and the 3-bit response      *)
(* counters never leave their width.                                        *)
THEOREM TypeCorrect == Spec => []TypeOK
<1>1. Init => TypeOK
  BY InitType
<1>2. TypeOK /\ [Next]_vars => TypeOK'
  BY CommandsType, DeviceAnswersType, TimerExpiresType, SoftwareType, StutterType
     DEF Next
<1>3. QED
  BY <1>1, <1>2, PTL DEF Spec

-----------------------------------------------------------------------------
(* Parked commands.  A fence is parked by BlockFence and leaves by Resume,  *)
(* an ATS.INVAL is parked by RunInval; both are fetched only while nothing  *)
(* is parked and cqen and cqon are on, which is why busy is off then.       *)

(* An IOFENCE.C that waits and an ATS.INVAL that is stalled exclude each    *)
(* other: process_commands fetches nothing behind either, so at most one    *)
(* command is ever parked (iommu_command_queue.c:43-50).                    *)
OneParkedCommand == ~(command_queue_stall_for_itag /\ iofence_wait_pending_inv)

(* While an IOFENCE.C waits no error bit is set: it was fetched without     *)
(* one, and nothing is fetched behind it.                                   *)
WaitsWithoutError == iofence_wait_pending_inv => ~Failed(cqcsr)

ParkedInv ==
  /\ TypeOK
  /\ OneParkedCommand
  /\ BusyOnlyBehindFence
  /\ WaitsWithoutError

LEMMA ResumeParked ==
  ASSUME ParkedInv, NEW t, NEW owed, NEW timedOut, NEW missed,
         Resume(t, owed, timedOut, missed)
  PROVE  OneParkedCommand' /\ BusyOnlyBehindFence' /\ WaitsWithoutError'
<1>1. command_queue_stall_for_itag' => command_queue_stall_for_itag
  BY DEF Resume, ResumeInval, inval
<1>2. CASE iofence_wait_pending_inv /\ BusyTags(t) = {}
  <2>1. PICK outcome \in FenceOutcomes(iofence_pending, timedOut) :
          /\ FenceEnds(iofence_pending, outcome, missed)
          /\ cqcsr' = FinishDisable(FenceCsr(iofence_pending, outcome))
    BY <1>2 DEF Resume, ResumeFence
  <2>2. ~iofence_wait_pending_inv'
    BY <2>1 DEF FenceEnds
  <2>3. ~cqcsr'.busy /\ cqcsr'.cqon = cqcsr'.cqen
    BY <2>1 DEF FinishDisable, FenceCsr, ParkedInv, TypeOK, Cqcsr
  <2>4. QED
    BY <2>2, <2>3 DEF OneParkedCommand, BusyOnlyBehindFence, WaitsWithoutError
<1>3. CASE ~(iofence_wait_pending_inv /\ BusyTags(t) = {})
  <2>1. UNCHANGED <<iofence_wait_pending_inv, cqcsr>>
    BY <1>3 DEF Resume, ResumeFence, fence
  <2>2. OneParkedCommand'
    BY <1>1, <2>1 DEF ParkedInv, OneParkedCommand
  <2>3. BusyOnlyBehindFence' /\ WaitsWithoutError'
    BY <2>1 DEF ParkedInv, BusyOnlyBehindFence, WaitsWithoutError, Failed
  <2>4. QED
    BY <2>2, <2>3
<1>4. QED
  BY <1>2, <1>3

(* A completion or a timeout resumes, or leaves what is parked alone. *)
LEMMA AnswersResume ==
  ASSUME DeviceAnswers
  PROVE  \/ \E t, owed : Resume(t, owed, ats_inv_req_timeout, unreported)
         \/ UNCHANGED <<cqh, cqcsr, cip, ats_inv_req_timeout, inval, fence, unreported>>
BY DEF DeviceAnswers, handle_invalidation_completion

LEMMA TimerResumes ==
  ASSUME TimerExpires
  PROVE  \E t, owed, missed : Resume(t, owed, TRUE, missed)
BY DEF TimerExpires, do_ats_timer_expiry

LEMMA CommandsParked ==
  ASSUME ParkedInv, process_commands
  PROVE  OneParkedCommand' /\ BusyOnlyBehindFence' /\ WaitsWithoutError'
<1> USE DEF ParkedInv, CanFetch, inval, fence
<1>1. CanFetch /\ ~cqcsr.busy
  BY DEF process_commands, FetchFault, RejectCommand, RunSimple, RunInval,
         BlockFence, RunFence, BusyOnlyBehindFence, TypeOK, Cqcsr
<1>2. CASE FetchFault \/ RejectCommand
  <2>1. /\ cqcsr'.busy = cqcsr.busy /\ cqcsr'.cqon = cqcsr.cqon
        /\ cqcsr'.cqen = cqcsr.cqen
    BY <1>2 DEF FetchFault, RejectCommand, TypeOK, Cqcsr
  <2>2. ~iofence_wait_pending_inv' /\ ~command_queue_stall_for_itag'
    BY <1>1, <1>2 DEF FetchFault, RejectCommand
  <2>3. QED
    BY <1>1, <2>1, <2>2 DEF OneParkedCommand, BusyOnlyBehindFence, WaitsWithoutError
<1>3. CASE RunSimple \/ RunInval \/ BlockFence
  <2>1. cqcsr' = cqcsr
    BY <1>3 DEF RunSimple, RunInval, BlockFence
  <2>2. ~iofence_wait_pending_inv' \/ ~command_queue_stall_for_itag'
    BY <1>1, <1>3 DEF RunSimple, RunInval, BlockFence
  <2>3. QED
    BY <1>1, <2>1, <2>2 DEF OneParkedCommand, BusyOnlyBehindFence,
                            WaitsWithoutError, Failed
<1>4. CASE RunFence
  <2>1. PICK outcome : /\ FenceEnds(mem[cqh], outcome, unreported)
                       /\ cqcsr' = FenceCsr(mem[cqh], outcome)
    BY <1>4 DEF RunFence
  <2>2. ~iofence_wait_pending_inv'
    BY <2>1 DEF FenceEnds
  <2>3. /\ cqcsr'.busy = cqcsr.busy /\ cqcsr'.cqon = cqcsr.cqon
        /\ cqcsr'.cqen = cqcsr.cqen
    BY <2>1 DEF FenceCsr, TypeOK, Cqcsr
  <2>4. QED
    BY <1>1, <2>2, <2>3 DEF OneParkedCommand, BusyOnlyBehindFence, WaitsWithoutError
<1>5. QED
  BY <1>2, <1>3, <1>4 DEF process_commands

LEMMA SoftwareParked ==
  ASSUME ParkedInv, Software
  PROVE  OneParkedCommand' /\ BusyOnlyBehindFence' /\ WaitsWithoutError'
<1> USE DEF ParkedInv, internals, inval, fence
<1>1. UNCHANGED <<command_queue_stall_for_itag, iofence_wait_pending_inv>>
  BY DEF Software, Submit, WriteCqb, WriteCqcsr, WriteIpsr, Reset
<1>2. CASE UNCHANGED cqcsr
  BY <1>1, <1>2 DEF OneParkedCommand, BusyOnlyBehindFence, WaitsWithoutError, Failed
<1>3. CASE Reset
  BY <1>1, <1>3 DEF Reset, OneParkedCommand, BusyOnlyBehindFence,
                    WaitsWithoutError, Failed
<1>4. ASSUME NEW cqen \in BOOLEAN, NEW cie \in CieWrites, NEW ack \in AckWrites,
             WriteCqcsr(cqen, cie, ack)
      PROVE  OneParkedCommand' /\ BusyOnlyBehindFence' /\ WaitsWithoutError'
  <2> DEFINE on == \/ cqen /\ ~cqcsr.cqen
                   \/ cqcsr.cqon /\ ((~cqen /\ cqcsr.cqen) => iofence_wait_pending_inv)
  <2>1. /\ ~cqcsr.busy
        /\ cqcsr'.cqen = cqen /\ cqcsr'.cqon = on /\ cqcsr'.busy = (cqen # on)
        /\ cqcsr'.cqmf => cqcsr.cqmf
        /\ cqcsr'.cmd_to => cqcsr.cmd_to
        /\ cqcsr'.cmd_ill => cqcsr.cmd_ill
    BY <1>4 DEF WriteCqcsr
  <2>2. cqcsr.cqen = cqcsr.cqon
    BY <2>1 DEF BusyOnlyBehindFence
  <2>3. cqen # on => on /\ iofence_wait_pending_inv
    BY <2>2 DEF TypeOK, Cqcsr
  <2>4. QED
    BY <1>1, <2>1, <2>3 DEF OneParkedCommand, BusyOnlyBehindFence,
                            WaitsWithoutError, Failed, TypeOK
<1>5. QED
  BY <1>2, <1>3, <1>4 DEF Software, Submit, WriteCqb, WriteIpsr

LEMMA ParkedStep == ParkedInv /\ [Next]_vars => ParkedInv'
<1> SUFFICES ASSUME ParkedInv, [Next]_vars PROVE ParkedInv'
  OBVIOUS
<1>1. TypeOK'
  BY CommandsType, DeviceAnswersType, TimerExpiresType, SoftwareType, StutterType
     DEF Next, ParkedInv
<1>2. CASE UNCHANGED <<cqcsr, inval, fence>>
  BY <1>1, <1>2 DEF ParkedInv, OneParkedCommand, BusyOnlyBehindFence,
                    WaitsWithoutError, Failed, inval, fence
<1>3. CASE process_commands
  BY <1>1, <1>3, CommandsParked DEF ParkedInv
<1>4. CASE DeviceAnswers
  <2>1. CASE \E t, owed : Resume(t, owed, ats_inv_req_timeout, unreported)
    BY <1>1, <2>1, ResumeParked DEF ParkedInv
  <2>2. QED
    BY <1>2, <1>4, <2>1, AnswersResume
<1>5. CASE TimerExpires
  BY <1>1, <1>5, TimerResumes, ResumeParked DEF ParkedInv
<1>6. CASE Software
  BY <1>1, <1>6, SoftwareParked DEF ParkedInv
<1>7. QED
  BY <1>2, <1>3, <1>4, <1>5, <1>6 DEF Next, vars

LEMMA ParkedHolds == Spec => []ParkedInv
<1>1. Init => ParkedInv
  BY InitType DEF Init, ParkedInv, OneParkedCommand, BusyOnlyBehindFence,
                  WaitsWithoutError
<1>2. QED
  BY <1>1, ParkedStep, PTL DEF Spec

(* At most one command is parked at the head, a fence or an invalidation,   *)
(* whatever devices, timer and software do.                                 *)
THEOREM ParkedCorrect == Spec => []OneParkedCommand
<1>1. ParkedInv => OneParkedCommand
  BY DEF ParkedInv
<1>2. QED
  BY <1>1, ParkedHolds, PTL

(* Software that polls cqcsr.busy polls a parked IOFENCE.C, and never one   *)
(* that was resumed, failed or reset.                                       *)
THEOREM BusyBehindFence == Spec => []BusyOnlyBehindFence
<1>1. ParkedInv => BusyOnlyBehindFence
  BY DEF ParkedInv
<1>2. QED
  BY <1>1, ParkedHolds, PTL

-----------------------------------------------------------------------------
(* Nothing waits without a cause.  Resuming establishes it whatever held    *)
(* before; what is left is that the one path which does not resume leaves   *)
(* the trackers alone, and that is so when a completion names one tracker:  *)
(* the run CommandQueueCoalescedLate shows the path where it names two.     *)

LEMMA ResumeCause ==
  ASSUME ParkedInv, NEW t, NEW owed, NEW timedOut, NEW missed,
         Resume(t, owed, timedOut, missed)
  PROVE  WaitHasCause'
<1>1. OneParkedCommand'
  BY ResumeParked
<1>2. FenceWaitsForBusyTag'
  <2>1. SUFFICES ASSUME iofence_wait_pending_inv' PROVE BusyTags(itag_tracker') # {}
    BY DEF FenceWaitsForBusyTag, BusyTags
  <2>2. ~(iofence_wait_pending_inv /\ BusyTags(t) = {})
    BY <2>1 DEF Resume, ResumeFence, FenceEnds
  <2>3. iofence_wait_pending_inv
    BY <2>1, <2>2 DEF Resume, ResumeFence, fence
  <2>4. itag_tracker' = t
    BY <2>1 DEF Resume, ResumeInval
  <2>5. QED
    BY <2>2, <2>3, <2>4
<1>3. StallMeansNoFreeTag'
  <2>1. SUFFICES ASSUME command_queue_stall_for_itag'
                 PROVE  BusyTags(itag_tracker') = Itags
    BY DEF StallMeansNoFreeTag, BusyTags
  <2>2. ~iofence_wait_pending_inv'
    BY <1>1, <2>1 DEF OneParkedCommand
  <2>3. /\ ~(command_queue_stall_for_itag /\ BusyTags(t) # Itags)
        /\ command_queue_stall_for_itag
        /\ itag_tracker' = t
    BY <2>1, <2>2 DEF Resume, ResumeInval, inval
  <2>4. QED
    BY <2>3
<1>4. QED
  BY <1>2, <1>3 DEF WaitHasCause

LEMMA UnexpectedLeavesTrackers ==
  ASSUME ~Coalesce, TypeOK, DeviceAnswers,
         \A t, owed : ~Resume(t, owed, ats_inv_req_timeout, unreported)
  PROVE  UNCHANGED <<itag_tracker, inval, fence>>
<1>1. PICK S \in (SUBSET answers) \ {{}} :
        /\ \A a, b \in S : a = b
        /\ LET dev  == (CHOOSE a \in S : TRUE).dev
               owed == (answers \ S) \cup
                         {[a EXCEPT !.left = @ - 1] : a \in {b \in S : b.left > 1}}
           IN handle_invalidation_completion({a.itag : a \in S},
                                             Responses[dev] % RspWrap, dev, owed)
  BY DEF DeviceAnswers
<1> DEFINE dev    == (CHOOSE a \in S : TRUE).dev
           vector == {a.itag : a \in S}
           cc     == Responses[dev] % RspWrap
           t      == [i \in Itags |-> IF i \in Reached(vector, dev)
                                      THEN Counted(itag_tracker[i], cc)
                                      ELSE itag_tracker[i]]
<1>2. Unexpected(vector, dev) # {} /\ itag_tracker' = t /\ UNCHANGED <<inval, fence>>
  BY <1>1 DEF handle_invalidation_completion
<1>3. vector \subseteq Itags /\ \A i, j \in vector : i = j
  BY <1>1 DEF TypeOK, Answer
<1>4. \A i \in Itags : ~(i < i)
  BY ConstantsAssumption DEF Itags
<1>5. Reached(vector, dev) = {}
  <2> HIDE DEF vector, dev
  <2>1. Unexpected(vector, dev) \subseteq vector
    BY DEF Unexpected
  <2>2. QED
    BY <1>2, <1>3, <1>4, <2>1 DEF Reached
<1>6. itag_tracker' = itag_tracker
  <2>1. t = [i \in Itags |-> itag_tracker[i]]
    BY <1>5
  <2>2. QED
    BY <1>2, <2>1 DEF TypeOK
<1>7. QED
  BY <1>2, <1>6

LEMMA CommandsCause ==
  ASSUME ParkedInv, WaitHasCause, process_commands
  PROVE  WaitHasCause'
<1> USE DEF inval, fence, tags, CanFetch, WaitHasCause,
            FenceWaitsForBusyTag, StallMeansNoFreeTag
<1>1. CASE FetchFault \/ RejectCommand \/ RunSimple
  BY <1>1 DEF FetchFault, RejectCommand, RunSimple
<1>2. CASE RunInval
  <2>1. CASE BusyTags(itag_tracker) = Itags
    BY <1>2, <2>1 DEF RunInval
  <2>2. CASE BusyTags(itag_tracker) # Itags
    BY <1>2, <2>2 DEF RunInval
  <2>3. QED
    BY <2>1, <2>2
<1>3. CASE BlockFence
  BY <1>3 DEF BlockFence
<1>4. CASE RunFence
  BY <1>4 DEF RunFence, FenceEnds
<1>5. QED
  BY <1>1, <1>2, <1>3, <1>4 DEF process_commands

LEMMA CauseStep ==
  ~Coalesce /\ ParkedInv /\ WaitHasCause /\ [Next]_vars => WaitHasCause'
<1> SUFFICES ASSUME ~Coalesce, ParkedInv, WaitHasCause, [Next]_vars
             PROVE  WaitHasCause'
  OBVIOUS
<1>1. CASE UNCHANGED <<itag_tracker, inval, fence>>
  BY <1>1 DEF WaitHasCause, FenceWaitsForBusyTag, StallMeansNoFreeTag, inval, fence
<1>2. CASE process_commands
  BY <1>2, CommandsCause
<1>3. CASE DeviceAnswers
  <2>1. CASE \E t, owed : Resume(t, owed, ats_inv_req_timeout, unreported)
    BY <2>1, ResumeCause
  <2>2. CASE ~ \E t, owed : Resume(t, owed, ats_inv_req_timeout, unreported)
    BY <1>1, <1>3, <2>2, UnexpectedLeavesTrackers DEF ParkedInv
  <2>3. QED
    BY <2>1, <2>2
<1>4. CASE TimerExpires
  BY <1>4, TimerResumes, ResumeCause
<1>5. CASE Software
  BY <1>1, <1>5 DEF Software, Submit, WriteCqb, WriteCqcsr, WriteIpsr, Reset,
                    internals, tags
<1>6. QED
  BY <1>1, <1>2, <1>3, <1>4, <1>5 DEF Next, vars, tags

(* While every completion names one request, a parked command is resumed by *)
(* the very step that removes its cause: late answers, timeouts, disabling  *)
(* the queue and even a reset change nothing about it.                      *)
THEOREM WaitsHaveCauses ==
  ASSUME ~Coalesce
  PROVE  Spec => []WaitHasCause
<1>1. Init => ParkedInv /\ WaitHasCause
  BY InitType DEF Init, ParkedInv, OneParkedCommand, BusyOnlyBehindFence,
                  WaitsWithoutError, WaitHasCause, FenceWaitsForBusyTag,
                  StallMeansNoFreeTag
<1>2. ParkedInv /\ WaitHasCause /\ [Next]_vars => ParkedInv' /\ WaitHasCause'
  BY ParkedStep, CauseStep
<1>3. QED
  BY <1>1, <1>2, PTL DEF Spec

-----------------------------------------------------------------------------
(* The head.  A waiting IOFENCE.C keeps the head on it because the queue    *)
(* stays on meanwhile, and a queue that is on can neither be moved nor have *)
(* the entry at its head overwritten.                                       *)

HeadInQueue == cqcsr.cqon => cqh < cqb

HeadInv == ParkedInv /\ HeadInQueue /\ WaitingFenceIsAtHead

LEMMA ResumeHead ==
  ASSUME HeadInv, NEW t, NEW owed, NEW timedOut, NEW missed,
         Resume(t, owed, timedOut, missed), UNCHANGED <<mem, regs>>
  PROVE  HeadInQueue' /\ WaitingFenceIsAtHead'
<1>1. CASE iofence_wait_pending_inv /\ BusyTags(t) = {}
  <2>1. PICK outcome : FenceEnds(iofence_pending, outcome, missed)
    BY <1>1 DEF Resume, ResumeFence
  <2>2. ~iofence_wait_pending_inv' /\ cqh' \in {cqh, Succ(cqh)}
    BY <2>1 DEF FenceEnds
  <2>3. cqh < cqb /\ cqb' = cqb
    BY <1>1 DEF HeadInv, WaitingFenceIsAtHead, regs
  <2>4. Succ(cqh) < cqb
    <3>1. Succ(cqh) \in 0 .. cqb - 1 /\ cqb \in 2 .. Slots
      BY SuccType, ConstantsAssumption DEF HeadInv, ParkedInv, TypeOK
    <3>2. QED
      BY <3>1, ConstantsAssumption
  <2>5. cqh' < cqb'
    BY <2>2, <2>3, <2>4
  <2>6. QED
    BY <2>2, <2>5 DEF HeadInQueue, WaitingFenceIsAtHead
<1>2. CASE ~(iofence_wait_pending_inv /\ BusyTags(t) = {})
  <2>1. UNCHANGED <<cqh, cqcsr, fence, mem, regs>>
    BY <1>2 DEF Resume, ResumeFence
  <2>2. QED
    BY <2>1 DEF HeadInv, HeadInQueue, WaitingFenceIsAtHead, fence, regs
<1>3. QED
  BY <1>1, <1>2

LEMMA CommandsHead ==
  ASSUME HeadInv, process_commands
  PROVE  HeadInQueue' /\ WaitingFenceIsAtHead'
<1> USE DEF inval, fence, regs, CanFetch
<1>1. /\ CanFetch /\ UNCHANGED <<mem, regs>>
      /\ cqcsr.cqon /\ cqh < cqb
  BY DEF process_commands, FetchFault, RejectCommand, RunSimple, RunInval,
         BlockFence, RunFence, HeadInv, HeadInQueue
<1>2. Succ(cqh) < cqb
  <2>1. Succ(cqh) \in 0 .. cqb - 1 /\ cqb \in 2 .. Slots
    BY SuccType, ConstantsAssumption DEF HeadInv, ParkedInv, TypeOK
  <2>2. QED
    BY <2>1, ConstantsAssumption
<1>3. cqh' \in {cqh, Succ(cqh)}
  BY DEF process_commands, FetchFault, RejectCommand, RunSimple, RunInval,
         BlockFence, RunFence, FenceEnds
<1>4. HeadInQueue'
  BY <1>1, <1>2, <1>3 DEF HeadInQueue
<1>5. WaitingFenceIsAtHead'
  <2>1. CASE BlockFence
    BY <1>1, <2>1 DEF BlockFence, WaitingFenceIsAtHead
  <2>2. CASE FetchFault \/ RejectCommand \/ RunSimple \/ RunInval \/ RunFence
    <3>1. ~iofence_wait_pending_inv'
      BY <1>1, <2>2 DEF FetchFault, RejectCommand, RunSimple, RunInval, RunFence,
                        FenceEnds
    <3>2. QED
      BY <3>1 DEF WaitingFenceIsAtHead
  <2>3. QED
    BY <2>1, <2>2 DEF process_commands
<1>6. QED
  BY <1>4, <1>5

LEMMA SoftwareHead ==
  ASSUME ~ResetInUse, HeadInv, Software
  PROVE  HeadInQueue' /\ WaitingFenceIsAtHead'
<1> USE DEF internals, inval, fence, HeadInQueue, WaitingFenceIsAtHead, HeadInv
<1>1. ASSUME NEW c \in Commands, Submit(c)
      PROVE  HeadInQueue' /\ WaitingFenceIsAtHead'
  <2>1. /\ UNCHANGED <<cqb, cqh, cqcsr, iofence_wait_pending_inv, iofence_pending>>
        /\ cqt' # cqh /\ mem' = [mem EXCEPT ![cqt] = c]
    BY <1>1 DEF Submit
  <2>2. ASSUME cqh # cqt PROVE mem'[cqh] = mem[cqh]
    BY <2>1, <2>2 DEF ParkedInv, TypeOK
  <2>3. QED
    BY <2>1, <2>2
<1>2. ASSUME NEW size \in Sizes, WriteCqb(size)
      PROVE  HeadInQueue' /\ WaitingFenceIsAtHead'
  BY <1>2 DEF WriteCqb
<1>3. ASSUME NEW cqen \in BOOLEAN, NEW cie \in CieWrites, NEW ack \in AckWrites,
             WriteCqcsr(cqen, cie, ack)
      PROVE  HeadInQueue' /\ WaitingFenceIsAtHead'
  <2>1. /\ ~cqcsr.busy
        /\ UNCHANGED <<mem, cqb, cqt, iofence_wait_pending_inv, iofence_pending>>
    BY <1>3 DEF WriteCqcsr, regs
  <2>2. cqcsr.cqen = cqcsr.cqon
    BY <2>1 DEF ParkedInv, BusyOnlyBehindFence
  <2>3. CASE cqen /\ ~cqcsr.cqen
    <3>1. cqh' = 0 /\ ~iofence_wait_pending_inv
      BY <1>3, <2>2, <2>3 DEF WriteCqcsr
    <3>2. 0 < cqb
      BY ConstantsAssumption DEF ParkedInv, TypeOK
    <3>3. QED
      BY <2>1, <3>1, <3>2
  <2>4. CASE ~(cqen /\ ~cqcsr.cqen)
    <3>1. cqh' = cqh
      BY <1>3, <2>4 DEF WriteCqcsr
    <3>2. /\ cqcsr'.cqon => cqcsr.cqon
          /\ iofence_wait_pending_inv /\ cqcsr.cqon => cqcsr'.cqon
      BY <1>3, <2>4 DEF WriteCqcsr
    <3>3. QED
      BY <2>1, <3>1, <3>2
  <2>5. QED
    BY <2>3, <2>4
<1>4. CASE WriteIpsr
  BY <1>4 DEF WriteIpsr, regs
<1>5. CASE Reset
  <2>1. ~iofence_wait_pending_inv' /\ ~cqcsr'.cqon
    BY <1>5 DEF Reset
  <2>2. QED
    BY <2>1
<1>6. QED
  BY <1>1, <1>2, <1>3, <1>4, <1>5 DEF Software

LEMMA HeadStep == ~ResetInUse /\ HeadInv /\ [Next]_vars => HeadInv'
<1> SUFFICES ASSUME ~ResetInUse, HeadInv, [Next]_vars PROVE HeadInv'
  OBVIOUS
<1>1. ParkedInv'
  BY ParkedStep DEF HeadInv
<1>2. CASE UNCHANGED <<mem, regs, cqh, cqcsr, fence>>
  BY <1>1, <1>2 DEF HeadInv, HeadInQueue, WaitingFenceIsAtHead, regs, fence
<1>3. CASE process_commands
  BY <1>1, <1>3, CommandsHead DEF HeadInv
<1>4. CASE DeviceAnswers
  <2>1. UNCHANGED <<mem, regs>>
    BY <1>4 DEF DeviceAnswers
  <2>2. CASE \E t, owed : Resume(t, owed, ats_inv_req_timeout, unreported)
    BY <1>1, <2>1, <2>2, ResumeHead DEF HeadInv
  <2>3. QED
    BY <1>2, <1>4, <2>1, <2>2, AnswersResume
<1>5. CASE TimerExpires
  <2>1. UNCHANGED <<mem, regs>>
    BY <1>5 DEF TimerExpires, do_ats_timer_expiry
  <2>2. QED
    BY <1>1, <1>5, <2>1, TimerResumes, ResumeHead DEF HeadInv
<1>6. CASE Software
  BY <1>1, <1>6, SoftwareHead DEF HeadInv
<1>7. QED
  BY <1>2, <1>3, <1>4, <1>5, <1>6 DEF Next, vars

LEMMA HeadInit == Init => HeadInv
BY InitType DEF Init, HeadInv, ParkedInv, OneParkedCommand, BusyOnlyBehindFence,
                WaitsWithoutError, HeadInQueue, WaitingFenceIsAtHead

(* The command a waiting IOFENCE.C resumes with is the one at the head, in  *)
(* front of the tail, for as long as reset_iommu is not called in use.      *)
THEOREM WaitingFenceStaysAtHead ==
  ASSUME ~ResetInUse
  PROVE  Spec => []WaitingFenceIsAtHead
<1>1. HeadInv /\ [Next]_vars => HeadInv'
  BY HeadStep
<1>2. HeadInv => WaitingFenceIsAtHead
  BY DEF HeadInv
<1>3. QED
  BY <1>1, <1>2, HeadInit, PTL DEF Spec

-----------------------------------------------------------------------------
(* Which steps move the head, and how. *)

HeadMoves ==
  cqh' # cqh =>
    \/ cqh' = 0 /\ (~cqcsr.cqen /\ cqcsr'.cqen)
    \/ cqh' = 0 /\ cqt' = 0 /\ ~cqcsr'.cqen
    \/ /\ cqh' = Succ(cqh) /\ cqh # cqt
       /\ ~Failed(cqcsr')

(* A fence that moves the head was not timed out and its store did not      *)
(* fault, so that it sets no error bit.                                     *)
LEMMA DoneSetsNoError ==
  ASSUME cqcsr \in Cqcsr, NEW c, ~Failed(cqcsr)
  PROVE  /\ ~Failed(FenceCsr(c, "done"))
         /\ ~Failed(FinishDisable(FenceCsr(c, "done")))
BY DEF Failed, FenceCsr, FinishDisable, Cqcsr

LEMMA ResumeMovesHead ==
  ASSUME HeadInv, NEW t, NEW owed, NEW timedOut, NEW missed,
         Resume(t, owed, timedOut, missed)
  PROVE  HeadMoves
<1>1. CASE iofence_wait_pending_inv /\ BusyTags(t) = {}
  <2>1. PICK outcome :
          /\ FenceEnds(iofence_pending, outcome, missed)
          /\ cqcsr' = FinishDisable(FenceCsr(iofence_pending, outcome))
    BY <1>1 DEF Resume, ResumeFence
  <2>2. CASE outcome = "done"
    <3>1. cqh' = Succ(cqh) /\ cqh # cqt
      BY <1>1, <2>1, <2>2 DEF FenceEnds, HeadInv, WaitingFenceIsAtHead
    <3>2. cqcsr \in Cqcsr /\ ~Failed(cqcsr)
      BY <1>1 DEF HeadInv, ParkedInv, TypeOK, WaitsWithoutError
    <3>3. ~Failed(cqcsr')
      BY <2>1, <2>2, <3>2, DoneSetsNoError
    <3>4. QED
      BY <3>1, <3>3 DEF HeadMoves
  <2>3. CASE outcome # "done"
    BY <2>1, <2>3 DEF FenceEnds, HeadMoves
  <2>4. QED
    BY <2>2, <2>3
<1>2. CASE ~(iofence_wait_pending_inv /\ BusyTags(t) = {})
  BY <1>2 DEF Resume, ResumeFence, HeadMoves
<1>3. QED
  BY <1>1, <1>2

LEMMA CommandsMoveHead ==
  ASSUME HeadInv, process_commands
  PROVE  HeadMoves
<1>1. CASE FetchFault \/ RejectCommand \/ BlockFence
  BY <1>1 DEF FetchFault, RejectCommand, BlockFence, HeadMoves
<1>2. CASE RunSimple \/ RunInval
  BY <1>2 DEF RunSimple, RunInval, CanFetch, HeadMoves
<1>3. CASE RunFence
  <2>1. PICK outcome : /\ FenceEnds(mem[cqh], outcome, unreported)
                       /\ cqcsr' = FenceCsr(mem[cqh], outcome)
    BY <1>3 DEF RunFence
  <2>2. cqcsr \in Cqcsr /\ ~Failed(cqcsr) /\ cqh # cqt
    BY <1>3 DEF RunFence, CanFetch, HeadInv, ParkedInv, TypeOK
  <2>3. CASE outcome = "done"
    <3>1. ~Failed(cqcsr')
      BY <2>1, <2>2, <2>3, DoneSetsNoError
    <3>2. cqh' = Succ(cqh)
      BY <2>1, <2>3 DEF FenceEnds
    <3>3. QED
      BY <2>2, <3>1, <3>2 DEF HeadMoves
  <2>4. CASE outcome # "done"
    BY <2>1, <2>4 DEF FenceEnds, HeadMoves
  <2>5. QED
    BY <2>3, <2>4
<1>4. QED
  BY <1>1, <1>2, <1>3 DEF process_commands

LEMMA MovesStep == HeadInv /\ [Next]_vars => [HeadMoves]_vars
<1> SUFFICES ASSUME HeadInv, [Next]_vars PROVE HeadMoves
  OBVIOUS
<1>1. CASE cqh' = cqh
  BY <1>1 DEF HeadMoves
<1>2. CASE process_commands
  BY <1>2, CommandsMoveHead
<1>3. CASE DeviceAnswers
  BY <1>1, <1>3, AnswersResume, ResumeMovesHead
<1>4. CASE TimerExpires
  BY <1>4, TimerResumes, ResumeMovesHead
<1>5. CASE Software
  <2>1. ASSUME NEW cqen \in BOOLEAN, NEW cie \in CieWrites, NEW ack \in AckWrites,
               WriteCqcsr(cqen, cie, ack)
        PROVE  HeadMoves
    BY <2>1 DEF WriteCqcsr, HeadMoves
  <2>2. CASE Reset
    BY <2>2 DEF Reset, HeadMoves
  <2>3. QED
    BY <1>1, <1>5, <2>1, <2>2 DEF Software, Submit, WriteCqb, WriteIpsr
<1>6. QED
  BY <1>1, <1>2, <1>3, <1>4, <1>5 DEF Next, vars

(* The head passes only commands that did their work without an error, one  *)
(* at a time and never the tail; otherwise it only restarts at 0.           *)
THEOREM HeadOnlyPassesDone ==
  ASSUME ~ResetInUse
  PROVE  Spec => HeadMovesOverDoneCommands
<1>1. HeadInv /\ [Next]_vars => HeadInv'
  BY HeadStep
<1>2. HeadInv /\ [Next]_vars => [HeadMoves]_vars
  BY MovesStep
<1>3. Spec => [][HeadMoves]_vars
  BY <1>1, <1>2, HeadInit, PTL DEF Spec
<1>4. QED
  BY <1>3 DEF HeadMovesOverDoneCommands, HeadMoves

-----------------------------------------------------------------------------
(* Timeouts and errors.  A fence looks at ats_inv_req_timeout and nothing   *)
(* else ends or begins a timeout, so the flag and the history agree.        *)

LEMMA FenceEndsReal ==
  ASSUME NEW timedOut, NEW missed, timedOut <=> missed, NEW c,
         NEW outcome \in FenceOutcomes(c, timedOut),
         FenceEnds(c, outcome, missed)
  PROVE  ~ats_inv_req_timeout' /\ ~unreported'
<1>1. ~ats_inv_req_timeout' /\ unreported' = (missed /\ outcome # "timeout")
  BY DEF FenceEnds
<1>2. CASE timedOut
  BY <1>1, <1>2 DEF FenceOutcomes
<1>3. CASE ~timedOut
  BY <1>1, <1>3
<1>4. QED
  BY <1>2, <1>3

LEMMA ResumeReal ==
  ASSUME NEW t, NEW owed, NEW timedOut, NEW missed, timedOut <=> missed,
         Resume(t, owed, timedOut, missed)
  PROVE  TimeoutFlagIsReal'
<1>1. CASE iofence_wait_pending_inv /\ BusyTags(t) = {}
  BY <1>1, FenceEndsReal DEF Resume, ResumeFence, TimeoutFlagIsReal
<1>2. CASE ~(iofence_wait_pending_inv /\ BusyTags(t) = {})
  BY <1>2 DEF Resume, ResumeFence, TimeoutFlagIsReal
<1>3. QED
  BY <1>1, <1>2

(* A timer gives up on trackers that are busy, so it makes a timeout.       *)
LEMMA TimerIsReal ==
  ASSUME TimerExpires
  PROVE  \E t, owed : Resume(t, owed, TRUE, TRUE)
<1>1. PICK vector \in (SUBSET BusyTags(itag_tracker)) \ {{}} :
        do_ats_timer_expiry(vector)
  BY DEF TimerExpires
<1>2. (unreported \/ \E i \in vector : itag_tracker[i].busy) = TRUE
  BY DEF BusyTags
<1>3. QED
  BY <1>1, <1>2 DEF do_ats_timer_expiry

LEMMA RealStep == TimeoutFlagIsReal /\ [Next]_vars => TimeoutFlagIsReal'
<1> SUFFICES ASSUME TimeoutFlagIsReal, [Next]_vars PROVE TimeoutFlagIsReal'
  OBVIOUS
<1>1. CASE UNCHANGED <<ats_inv_req_timeout, unreported>>
  BY <1>1 DEF TimeoutFlagIsReal
<1>2. CASE RunFence
  BY <1>2, FenceEndsReal DEF RunFence, TimeoutFlagIsReal
<1>3. CASE process_commands /\ ~RunFence
  BY <1>1, <1>3 DEF process_commands, FetchFault, RejectCommand, RunSimple,
                    RunInval, BlockFence
<1>4. CASE DeviceAnswers
  BY <1>1, <1>4, AnswersResume, ResumeReal DEF TimeoutFlagIsReal
<1>5. CASE TimerExpires
  BY <1>5, TimerIsReal, ResumeReal
<1>6. CASE Software
  BY <1>1, <1>6 DEF Software, Submit, WriteCqb, WriteCqcsr, WriteIpsr, Reset,
                    internals
<1>7. QED
  BY <1>1, <1>2, <1>3, <1>4, <1>5, <1>6 DEF Next, vars

LEMMA RealInit == Init => TimeoutFlagIsReal
BY DEF Init, TimeoutFlagIsReal

(* cmd_to is raised for every timeout once and for nothing else: the flag   *)
(* do_iofence_c looks at is on exactly while a timeout is unreported.       *)
THEOREM TimeoutsAreReal == Spec => []TimeoutFlagIsReal
BY RealInit, RealStep, PTL DEF Spec

(* Errors are seen: a step that turns an error on pends cip.                *)
SilentStep ==
  Silent(cqcsr', cip') => Silent(cqcsr, cip) \/ (~cqcsr.cie /\ cqcsr'.cie)

(* An error that is not pended was there before, whatever the step does to  *)
(* the bits that are no errors.                                             *)
LEMMA InterruptIsHeard ==
  ASSUME cqcsr \in Cqcsr, NEW csr, Interrupt(csr), csr.cie = cqcsr.cie,
         cqcsr'.cie = csr.cie,
         Failed(cqcsr') \/ cqcsr'.fence_w_ip => Failed(csr) \/ csr.fence_w_ip
  PROVE  SilentStep
<1> SUFFICES ASSUME Silent(cqcsr', cip') PROVE Silent(cqcsr, cip)
  BY DEF SilentStep
<1>1. ~cip' /\ csr.cie /\ (Failed(csr) \/ csr.fence_w_ip)
  BY DEF Silent
<1>2. ~cip /\ csr = cqcsr
  BY <1>1 DEF Interrupt
<1>3. QED
  BY <1>1, <1>2 DEF Silent

LEMMA FenceCsrKeeps ==
  ASSUME cqcsr \in Cqcsr, NEW c, NEW outcome
  PROVE  /\ FenceCsr(c, outcome).cie = cqcsr.cie
         /\ FinishDisable(FenceCsr(c, outcome)).cie = cqcsr.cie
         /\ LET csr == FenceCsr(c, outcome)
            IN  (Failed(FinishDisable(csr)) \/ FinishDisable(csr).fence_w_ip)
                  => (Failed(csr) \/ csr.fence_w_ip)
BY DEF FenceCsr, FinishDisable, Failed, Cqcsr

LEMMA ResumeIsHeard ==
  ASSUME TypeOK, NEW t, NEW owed, NEW timedOut, NEW missed,
         Resume(t, owed, timedOut, missed)
  PROVE  SilentStep
<1>1. CASE iofence_wait_pending_inv /\ BusyTags(t) = {}
  <2>1. PICK outcome :
          /\ FenceEnds(iofence_pending, outcome, missed)
          /\ cqcsr' = FinishDisable(FenceCsr(iofence_pending, outcome))
    BY <1>1 DEF Resume, ResumeFence
  <2>2. Interrupt(FenceCsr(iofence_pending, outcome))
    BY <2>1 DEF FenceEnds
  <2>3. QED
    BY <2>1, <2>2, FenceCsrKeeps, InterruptIsHeard DEF TypeOK
<1>2. CASE ~(iofence_wait_pending_inv /\ BusyTags(t) = {})
  BY <1>2 DEF Resume, ResumeFence, SilentStep
<1>3. QED
  BY <1>1, <1>2

LEMMA CommandsAreHeard ==
  ASSUME TypeOK, process_commands
  PROVE  SilentStep
<1>1. cqcsr \in Cqcsr
  BY DEF TypeOK
<1>2. CASE FetchFault \/ RejectCommand
  <2>1. Interrupt(cqcsr') /\ cqcsr'.cie = cqcsr.cie
    BY <1>1, <1>2 DEF FetchFault, RejectCommand, Cqcsr
  <2>2. QED
    BY <1>1, <2>1, InterruptIsHeard
<1>3. CASE RunSimple \/ RunInval \/ BlockFence
  BY <1>3 DEF RunSimple, RunInval, BlockFence, SilentStep
<1>4. CASE RunFence
  <2>1. PICK outcome : /\ FenceEnds(mem[cqh], outcome, unreported)
                       /\ cqcsr' = FenceCsr(mem[cqh], outcome)
    BY <1>4 DEF RunFence
  <2>2. Interrupt(cqcsr') /\ cqcsr'.cie = cqcsr.cie
    BY <1>1, <2>1, FenceCsrKeeps DEF FenceEnds
  <2>3. QED
    BY <1>1, <2>2, InterruptIsHeard
<1>5. QED
  BY <1>2, <1>3, <1>4 DEF process_commands

LEMMA SoftwareIsHeard ==
  ASSUME TypeOK, Software
  PROVE  SilentStep
<1>1. CASE UNCHANGED <<cqcsr, cip>>
  BY <1>1 DEF SilentStep
<1>2. ASSUME NEW cqen \in BOOLEAN, NEW cie \in CieWrites, NEW ack \in AckWrites,
             WriteCqcsr(cqen, cie, ack)
      PROVE  SilentStep
  <2>1. /\ UNCHANGED cip
        /\ cqcsr'.cqmf => cqcsr.cqmf
        /\ cqcsr'.cmd_to => cqcsr.cmd_to
        /\ cqcsr'.cmd_ill => cqcsr.cmd_ill
        /\ cqcsr'.fence_w_ip => cqcsr.fence_w_ip
    BY <1>2 DEF WriteCqcsr
  <2>2. QED
    BY <2>1 DEF SilentStep, Silent, Failed
<1>3. CASE WriteIpsr
  BY <1>3 DEF WriteIpsr, SilentStep, Silent
<1>4. CASE Reset
  BY <1>4 DEF Reset, SilentStep, Silent, Failed
<1>5. QED
  BY <1>1, <1>2, <1>3, <1>4 DEF Software, Submit, WriteCqb

LEMMA HeardStep == TypeOK /\ [Next]_vars => [SilentStep]_vars
<1> SUFFICES ASSUME TypeOK, [Next]_vars PROVE SilentStep
  OBVIOUS
<1>1. CASE UNCHANGED <<cqcsr, cip>>
  BY <1>1 DEF SilentStep
<1>2. CASE DeviceAnswers
  BY <1>1, <1>2, AnswersResume, ResumeIsHeard
<1>3. CASE TimerExpires
  BY <1>3, TimerResumes, ResumeIsHeard
<1>4. QED
  BY <1>1, <1>2, <1>3, CommandsAreHeard, SoftwareIsHeard DEF Next, vars

(* An error or a completed fence that software has not acknowledged is in   *)
(* ipsr.cip, unless interrupts were enabled only after it happened.         *)
THEOREM ErrorsAreHeard == Spec => SilentOnlyByLateEnable
<1>1. Spec => [][SilentStep]_vars
  BY TypeCorrect, HeardStep, PTL DEF Spec
<1>2. QED
  BY <1>1 DEF SilentOnlyByLateEnable, SilentStep

-----------------------------------------------------------------------------
(* IOFENCE.C covers what precedes it.  While a timeout is final, trackers   *)
(* and completions tell one story: a completion that is owed has its busy   *)
(* tracker, and the tracker counts those the device already sent.           *)

Owed(t, owed) ==
  /\ t \in [Itags -> Tracker]
  /\ owed \in SUBSET Answer /\ IsFiniteSet(owed)
  /\ \A a \in owed : /\ ~a.late
                     /\ t[a.itag].busy /\ t[a.itag].dev = a.dev
                     /\ t[a.itag].num_rsp_rcvd + a.left = Responses[a.dev]
  /\ \A a, b \in owed : a.itag = b.itag => a = b

LEMMA SmallMod ==
  ASSUME NEW n \in Nat \ {0}, NEW k \in 0 .. n
  PROVE  k % n = IF k = n THEN 0 ELSE k
<1>1. k % n \in 0 .. n - 1 /\ k = n * (k \div n) + (k % n)
  OBVIOUS
<1> DEFINE q == k \div n
           r == k % n
<1>2. q \in Int /\ r \in 0 .. n - 1 /\ k = n * q + r
  BY <1>1
<1> HIDE DEF q, r
<1>3. CASE q <= -1
  <2>1. n * q <= -n
    BY <1>2, <1>3
  <2>2. QED
    BY <1>2, <2>1
<1>4. CASE q = 0
  BY <1>2, <1>4 DEF r
<1>5. CASE q = 1
  BY <1>2, <1>5 DEF r
<1>6. CASE q >= 2
  <2>1. n * q >= n + n
    BY <1>2, <1>6
  <2>2. QED
    BY <1>2, <2>1
<1>7. QED
  BY <1>2, <1>3, <1>4, <1>5, <1>6

(* A new request starts with all its completions owed. *)
LEMMA SendOwes ==
  ASSUME NEW t, NEW owed, Owed(t, owed), NEW dev \in Requesters,
         BusyTags(t) # Itags, SendInval(t, owed, dev)
  PROVE  Owed(itag_tracker', answers')
<1> DEFINE free == Itags \ BusyTags(t)
           i == CHOOSE i \in free : \A j \in free : i <= j
           new == [itag |-> i, dev |-> dev, left |-> Responses[dev], late |-> FALSE]
<1>1. /\ itag_tracker' = [t EXCEPT ![i] = [busy |-> TRUE, dev |-> dev,
                                          num_rsp_rcvd |-> 0]]
      /\ answers' = owed \cup {new}
  BY DEF SendInval
<1>2. i \in Itags /\ ~t[i].busy
  <2>1. free \in SUBSET Itags /\ free # {}
    BY DEF BusyTags
  <2>2. i \in free
    BY <2>1, FirstTag
  <2>3. QED
    BY <2>2 DEF BusyTags
<1>3. itag_tracker' \in [Itags -> Tracker] /\ answers' \in SUBSET Answer
  BY SendInvalType DEF Owed
<1>4. IsFiniteSet(answers')
  BY <1>1, FS_AddElement DEF Owed
<1>5. \A a \in owed : a.itag # i
  BY <1>2 DEF Owed
<1>6. ASSUME NEW a \in answers'
      PROVE  /\ ~a.late
             /\ itag_tracker'[a.itag].busy /\ itag_tracker'[a.itag].dev = a.dev
             /\ itag_tracker'[a.itag].num_rsp_rcvd + a.left = Responses[a.dev]
  <2>1. CASE a \in owed
    <3>1. a.itag \in Itags
      BY <2>1 DEF Owed, Answer
    <3>2. itag_tracker'[a.itag] = t[a.itag]
      BY <1>1, <1>5, <2>1, <3>1 DEF Owed
    <3>3. QED
      BY <2>1, <3>2 DEF Owed
  <2>2. CASE a = new
    <3>1. itag_tracker'[i] = [busy |-> TRUE, dev |-> dev, num_rsp_rcvd |-> 0]
      BY <1>1, <1>2 DEF Owed
    <3>2. 0 + Responses[dev] = Responses[dev]
      BY ConstantsAssumption
    <3>3. QED
      BY <2>2, <3>1, <3>2
  <2>3. QED
    BY <1>1, <2>1, <2>2
<1>7. \A a, b \in answers' : a.itag = b.itag => a = b
  <2> HIDE DEF i
  <2>1. new.itag = i
    OBVIOUS
  <2>2. QED
    BY <1>1, <1>5, <2>1 DEF Owed
<1>8. QED
  BY <1>3, <1>4, <1>6, <1>7 DEF Owed

LEMMA ResumeOwes ==
  ASSUME TypeOK, NEW t, NEW owed, Owed(t, owed), NEW timedOut, NEW missed,
         Resume(t, owed, timedOut, missed)
  PROVE  Owed(itag_tracker', answers')
<1>1. CASE /\ ~iofence_wait_pending_inv'
           /\ command_queue_stall_for_itag
           /\ BusyTags(t) # Itags
  <2>1. SendInval(t, owed, pending_inval_req)
    BY <1>1 DEF Resume, ResumeInval
  <2>2. QED
    BY <1>1, <2>1, SendOwes DEF TypeOK
<1>2. CASE ~ /\ ~iofence_wait_pending_inv'
             /\ command_queue_stall_for_itag
             /\ BusyTags(t) # Itags
  BY <1>2 DEF Resume, ResumeInval
<1>3. QED
  BY <1>1, <1>2

(* The count reaches its end with the last completion, whether the number   *)
(* of completions fits the counter or wraps to 0 with it.                   *)
LEMMA LastOneFrees ==
  ASSUME NEW tracker \in Tracker, NEW n \in 1 .. RspWrap, NEW left \in 1 .. RspWrap,
         tracker.num_rsp_rcvd + left = n
  PROVE  /\ left = 1 => Counted(tracker, n % RspWrap) = Free
         /\ left > 1 =>
              Counted(tracker, n % RspWrap)
                = [tracker EXCEPT !.num_rsp_rcvd = tracker.num_rsp_rcvd + 1]
<1> DEFINE k == tracker.num_rsp_rcvd
<1>1. RspWrap \in Nat \ {0} /\ k \in 0 .. RspWrap - 1
  BY ConstantsAssumption DEF Tracker
<1>2. k + 1 \in 0 .. RspWrap /\ n \in 0 .. RspWrap
  BY <1>1
<1>3. /\ (k + 1) % RspWrap = IF k + 1 = RspWrap THEN 0 ELSE k + 1
      /\ n % RspWrap = IF n = RspWrap THEN 0 ELSE n
  BY <1>1, <1>2, SmallMod
<1>4. left = 1 => (k + 1) % RspWrap = n % RspWrap
  BY <1>1
<1>5. left > 1 => (k + 1) % RspWrap = k + 1 /\ k + 1 # n % RspWrap
  BY <1>1, <1>3
<1>6. QED
  BY <1>4, <1>5 DEF Counted

(* A completion that names requests of its device finds every one of them.  *)
LEMMA NothingUnexpected ==
  ASSUME Owed(itag_tracker, answers), NEW S \in SUBSET answers, NEW dev,
         \A a \in S : a.dev = dev
  PROVE  Unexpected({a.itag : a \in S}, dev) = {}
BY DEF Owed, Unexpected, Matches

LEMMA CountingOwes ==
  ASSUME Owed(itag_tracker, answers), NEW S \in SUBSET answers,
         NEW dev \in Requesters, \A a \in S : a.dev = dev
  PROVE  LET t == [i \in Itags |-> IF i \in {a.itag : a \in S}
                                   THEN Counted(itag_tracker[i], Responses[dev] % RspWrap)
                                   ELSE itag_tracker[i]]
             owed == (answers \ S) \cup
                       {[a EXCEPT !.left = @ - 1] : a \in {b \in S : b.left > 1}}
         IN  Owed(t, owed)
<1> DEFINE cc == Responses[dev] % RspWrap
           t == [i \in Itags |-> IF i \in {a.itag : a \in S}
                                 THEN Counted(itag_tracker[i], cc)
                                 ELSE itag_tracker[i]]
           more == {b \in S : b.left > 1}
           next(a) == [a EXCEPT !.left = @ - 1]
           owed == (answers \ S) \cup {next(a) : a \in more}
<1>1. answers \in SUBSET Answer /\ itag_tracker \in [Itags -> Tracker]
  BY DEF Owed
<1>2. t \in [Itags -> Tracker]
  BY <1>1, CountedType
<1>3. owed \in SUBSET Answer
  BY <1>1, OwedType
<1>4. IsFiniteSet(owed)
  <2>1. IsFiniteSet(answers \ S) /\ IsFiniteSet(more)
    BY FS_Subset DEF Owed
  <2>2. IsFiniteSet({next(a) : a \in more})
    <3> DEFINE all == {next(a) : a \in more}
               f == [a \in more |-> next(a)]
    <3>1. f \in [more -> all] /\ \A x \in all : \E a \in more : f[a] = x
      <4> HIDE DEF more, next
      <4>1. QED
        OBVIOUS
    <3>2. f \in Surjection(more, all)
      <4> HIDE DEF more, all, f
      <4>1. QED
        BY <3>1, Zenon DEF Surjection
    <3> HIDE DEF more, all, f
    <3>3. IsFiniteSet(all)
      BY <2>1, <3>2, FS_Surjection
    <3>4. QED
      BY <3>3 DEF all
  <2>3. QED
    BY <2>1, <2>2, FS_Union
<1>5. ASSUME NEW a \in more
      PROVE  /\ next(a).itag = a.itag /\ next(a).dev = a.dev
             /\ next(a).late = a.late /\ next(a).left = a.left - 1
  BY <1>1 DEF Answer
<1>6. ASSUME NEW a \in answers \ S
      PROVE  a.itag \in Itags /\ t[a.itag] = itag_tracker[a.itag]
  <2>1. a.itag \in Itags /\ a.itag \notin {b.itag : b \in S}
    BY <1>1 DEF Owed, Answer
  <2>2. QED
    BY <2>1
<1>7. ASSUME NEW a \in more
      PROVE  /\ a.itag \in Itags
             /\ t[a.itag] = [itag_tracker[a.itag] EXCEPT
                               !.num_rsp_rcvd = itag_tracker[a.itag].num_rsp_rcvd + 1]
  <2>1. /\ a.itag \in Itags /\ a.dev = dev /\ a.left \in 1 .. RspWrap /\ a.left > 1
        /\ itag_tracker[a.itag].num_rsp_rcvd + a.left = Responses[dev]
        /\ itag_tracker[a.itag] \in Tracker
        /\ Responses[dev] \in 1 .. RspWrap
    BY <1>1, ConstantsAssumption DEF Owed, Answer
  <2>2. t[a.itag] = Counted(itag_tracker[a.itag], cc)
    BY <2>1
  <2>3. QED
    BY <2>1, <2>2, LastOneFrees
<1>8. ASSUME NEW a \in owed
      PROVE  /\ ~a.late
             /\ t[a.itag].busy /\ t[a.itag].dev = a.dev
             /\ t[a.itag].num_rsp_rcvd + a.left = Responses[a.dev]
  <2>1. CASE a \in answers \ S
    BY <1>6, <2>1 DEF Owed
  <2>2. CASE a \notin answers \ S
    <3>1. PICK b \in more : a = next(b)
      BY <2>2
    <3> DEFINE old == itag_tracker[b.itag]
    <3>2. /\ old \in Tracker /\ old.busy /\ old.dev = b.dev /\ ~b.late
          /\ old.num_rsp_rcvd + b.left = Responses[b.dev]
          /\ b.left \in 1 .. RspWrap /\ b.itag \in Itags
      BY <1>1 DEF Owed, Answer
    <3>3. t[b.itag] = [old EXCEPT !.num_rsp_rcvd = old.num_rsp_rcvd + 1]
      BY <1>7
    <3>4. /\ t[b.itag].busy = old.busy /\ t[b.itag].dev = old.dev
          /\ t[b.itag].num_rsp_rcvd = old.num_rsp_rcvd + 1
      BY <3>2, <3>3 DEF Tracker
    <3>5. /\ a.itag = b.itag /\ a.dev = b.dev /\ a.late = b.late
          /\ a.left = b.left - 1
      BY <1>5, <3>1
    <3>6. old.num_rsp_rcvd \in Nat
      BY <3>2, ConstantsAssumption DEF Tracker
    <3> HIDE DEF t, old
    <3>7. t[b.itag].num_rsp_rcvd + a.left = Responses[b.dev]
      BY <3>2, <3>4, <3>5, <3>6, ConstantsAssumption
    <3>8. QED
      BY <3>2, <3>4, <3>5, <3>7
  <2>3. QED
    BY <2>1, <2>2
<1>9. ASSUME NEW a \in owed, NEW b \in owed, a.itag = b.itag
      PROVE  a = b
  <2>1. ASSUME NEW x \in owed
        PROVE  \E y \in answers : /\ y.itag = x.itag
                                  /\ x = IF y \in S THEN next(y) ELSE y
    <3>1. CASE x \in answers \ S
      BY <3>1
    <3>2. CASE x \notin answers \ S
      <4>1. PICK y \in more : x = next(y)
        BY <3>2
      <4>2. QED
        BY <4>1, <1>5
    <3>3. QED
      BY <3>1, <3>2
  <2> HIDE DEF owed, next
  <2>2. PICK y \in answers : y.itag = a.itag /\ a = IF y \in S THEN next(y) ELSE y
    BY <2>1
  <2>3. PICK z \in answers : z.itag = b.itag /\ b = IF z \in S THEN next(z) ELSE z
    BY <2>1
  <2>4. y = z
    BY <1>9, <2>2, <2>3 DEF Owed
  <2>5. QED
    BY <2>2, <2>3, <2>4
<1> HIDE DEF t, owed
<1>10. Owed(t, owed)
  BY <1>2, <1>3, <1>4, <1>8, <1>9 DEF Owed
<1>11. QED
  BY <1>10 DEF t, owed

(* A completion, whichever requests it names, and a timeout, whichever      *)
(* trackers it gives up, resume with trackers and answers that agree, and   *)
(* with no answer to a request there was none for.                          *)
NoNewRequest(owed) == \A a \in owed : \E b \in answers : b.itag = a.itag /\ b.dev = a.dev

LEMMA AnswersOwe ==
  ASSUME TypeOK, Owed(itag_tracker, answers), DeviceAnswers
  PROVE  \E t, owed : /\ Owed(t, owed) /\ NoNewRequest(owed)
                      /\ Resume(t, owed, ats_inv_req_timeout, unreported)
<1>1. PICK S \in (SUBSET answers) \ {{}} :
        /\ \A a, b \in S : a.dev = b.dev /\ (a.itag = b.itag => a = b)
        /\ LET dev  == (CHOOSE a \in S : TRUE).dev
               owed == (answers \ S) \cup
                         {[a EXCEPT !.left = @ - 1] : a \in {b \in S : b.left > 1}}
           IN handle_invalidation_completion({a.itag : a \in S},
                                             Responses[dev] % RspWrap, dev, owed)
  BY DEF DeviceAnswers
<1> DEFINE dev    == (CHOOSE a \in S : TRUE).dev
           owed   == (answers \ S) \cup
                       {[a EXCEPT !.left = @ - 1] : a \in {b \in S : b.left > 1}}
           vector == {a.itag : a \in S}
           cc     == Responses[dev] % RspWrap
           t      == [i \in Itags |-> IF i \in Reached(vector, dev)
                                      THEN Counted(itag_tracker[i], cc)
                                      ELSE itag_tracker[i]]
           u      == [i \in Itags |-> IF i \in vector
                                      THEN Counted(itag_tracker[i], cc)
                                      ELSE itag_tracker[i]]
<1>2. S \in SUBSET answers /\ dev \in Requesters /\ \A a \in S : a.dev = dev
  BY <1>1 DEF TypeOK, Answer
<1>3. Unexpected(vector, dev) = {}
  <2> HIDE DEF dev
  <2>1. QED
    BY <1>2, NothingUnexpected
<1>4. Owed(u, owed)
  <2> HIDE DEF dev
  <2>1. QED
    BY <1>2, CountingOwes
<1>5. t = u
  <2>1. Reached(vector, dev) = vector
    BY <1>3 DEF Reached
  <2>2. QED
    BY <2>1
<1>6. Resume(t, owed, ats_inv_req_timeout, unreported)
  BY <1>1, <1>3 DEF handle_invalidation_completion
<1>7. NoNewRequest(owed)
  <2>1. ASSUME NEW a \in S, a.left > 1
        PROVE  [a EXCEPT !.left = @ - 1].itag = a.itag /\ [a EXCEPT !.left = @ - 1].dev = a.dev
    BY <1>2 DEF Owed, Answer
  <2>2. QED
    BY <1>2, <2>1 DEF NoNewRequest
<1> HIDE DEF t, u, owed
<1>8. QED
  BY <1>4, <1>5, <1>6, <1>7

LEMMA TimerOwes ==
  ASSUME MaxLate = 0, Owed(itag_tracker, answers), TimerExpires
  PROVE  \E t, owed : Owed(t, owed) /\ NoNewRequest(owed) /\ Resume(t, owed, TRUE, TRUE)
<1>1. PICK vector \in (SUBSET BusyTags(itag_tracker)) \ {{}} :
        do_ats_timer_expiry(vector)
  BY DEF TimerExpires
<1> DEFINE given_up == {a \in answers : /\ a.itag \in vector /\ ~a.late
                                        /\ itag_tracker[a.itag].busy
                                        /\ itag_tracker[a.itag].dev = a.dev}
           late == {a \in answers : a.late}
           t == [i \in Itags |-> IF i \in vector THEN Free ELSE itag_tracker[i]]
           missed == unreported \/ \E i \in vector : itag_tracker[i].busy
<1>2. PICK slow \in SUBSET given_up :
        /\ Cardinality(late) + Cardinality(slow) <= MaxLate \/ slow = {}
        /\ Resume(t, (answers \ given_up) \cup
                       {[a EXCEPT !.late = TRUE] : a \in slow}, TRUE, missed)
  BY <1>1 DEF do_ats_timer_expiry
<1>3. slow = {}
  <2>1. late = {} /\ IsFiniteSet(slow)
    BY FS_Subset DEF Owed
  <2> HIDE DEF late
  <2>2. Cardinality(late) = 0 /\ Cardinality(slow) \in Nat
    BY <2>1, FS_EmptySet, FS_CardinalityType
  <2>3. CASE Cardinality(slow) = 0
    BY <2>1, <2>3, FS_EmptySet
  <2>4. CASE Cardinality(slow) # 0
    BY <1>2, <2>2, <2>4
  <2>5. QED
    BY <2>3, <2>4
<1>4. (answers \ given_up) \cup {[a EXCEPT !.late = TRUE] : a \in slow}
        = answers \ given_up
  BY <1>3
<1>5. missed = TRUE
  BY <1>1 DEF BusyTags
<1>6. Resume(t, answers \ given_up, TRUE, TRUE)
  <2> HIDE DEF t, given_up, missed
  <2>1. QED
    BY <1>2, <1>4, <1>5
<1>7. Owed(t, answers \ given_up)
  <2>1. t \in [Itags -> Tracker]
    BY FreeIsTracker DEF Owed
  <2>2. IsFiniteSet(answers \ given_up)
    BY FS_Subset DEF Owed
  <2>3. ASSUME NEW a \in answers \ given_up
        PROVE  a.itag \in Itags /\ t[a.itag] = itag_tracker[a.itag]
    BY DEF Owed, Answer
  <2>4. QED
    BY <2>1, <2>2, <2>3 DEF Owed
<1>8. NoNewRequest(answers \ given_up)
  BY DEF NoNewRequest
<1>9. QED
  BY <1>6, <1>7, <1>8

LEMMA OwedStep ==
  ASSUME MaxLate = 0, TypeOK, Owed(itag_tracker, answers), [Next]_vars
  PROVE  Owed(itag_tracker', answers')
<1>1. CASE UNCHANGED tags
  BY <1>1 DEF tags
<1>2. CASE RunInval
  <2>1. CASE BusyTags(itag_tracker) = Itags
    BY <1>1, <1>2, <2>1 DEF RunInval
  <2>2. CASE BusyTags(itag_tracker) # Itags
    <3>1. mem[cqh].dev \in Requesters
      BY QueuedIsCommand DEF TypeOK, Command
    <3>2. SendInval(itag_tracker, answers, mem[cqh].dev)
      BY <1>2, <2>2 DEF RunInval
    <3>3. QED
      BY <2>2, <3>1, <3>2, SendOwes
  <2>3. QED
    BY <2>1, <2>2
<1>3. CASE process_commands /\ ~RunInval
  BY <1>1, <1>3 DEF process_commands, FetchFault, RejectCommand, RunSimple,
                    BlockFence, RunFence
<1>4. CASE DeviceAnswers
  BY <1>4, AnswersOwe, ResumeOwes
<1>5. CASE TimerExpires
  BY <1>5, TimerOwes, ResumeOwes
<1>6. CASE Software
  BY <1>1, <1>6 DEF Software, Submit, WriteCqb, WriteCqcsr, WriteIpsr, Reset,
                    internals
<1>7. QED
  BY <1>1, <1>2, <1>3, <1>4, <1>5, <1>6 DEF Next, vars

FenceInv == HeadInv /\ TimeoutFlagIsReal /\ Owed(itag_tracker, answers)

LEMMA FenceInit == Init => FenceInv
<1> SUFFICES ASSUME Init PROVE FenceInv
  OBVIOUS
<1>1. TypeOK /\ answers = {}
  BY InitType DEF Init
<1>2. Owed(itag_tracker, answers)
  BY <1>1, FS_EmptySet DEF Owed, TypeOK
<1>3. QED
  BY <1>2, HeadInit, RealInit DEF FenceInv

(* The step of a fence that is passed. *)
Covered == FencePasses => (\A a \in answers' : a.late) /\ ~unreported'

LEMMA HeadLeaves ==
  ASSUME HeadInv, cqcsr.cqon
  PROVE  Succ(cqh) # cqh
<1>1. cqb \in 2 .. Slots /\ Slots \in Nat /\ cqh \in 0 .. Slots - 1 /\ cqh < cqb
  BY ConstantsAssumption DEF HeadInv, HeadInQueue, ParkedInv, TypeOK
<1>2. cqb \in Nat \ {0} /\ cqh + 1 \in 0 .. cqb
  BY <1>1
<1>3. (cqh + 1) % cqb = IF cqh + 1 = cqb THEN 0 ELSE cqh + 1
  BY <1>2, SmallMod
<1>4. QED
  BY <1>1, <1>3 DEF Succ

LEMMA NothingOwed ==
  ASSUME NEW t, NEW owed, Owed(t, owed), BusyTags(t) = {}
  PROVE  owed = {}
BY DEF Owed, BusyTags, Answer

LEMMA ResumeCovers ==
  ASSUME FenceInv, NEW t, NEW owed, Owed(t, owed),
         NEW timedOut, NEW missed, timedOut <=> missed,
         Resume(t, owed, timedOut, missed)
  PROVE  Covered
<1> SUFFICES ASSUME FencePasses PROVE (\A a \in answers' : a.late) /\ ~unreported'
  BY DEF Covered
<1>1. cqh' # cqh
  BY HeadLeaves DEF FencePasses, FenceInv
<1>2. iofence_wait_pending_inv /\ BusyTags(t) = {}
  BY <1>1 DEF Resume, ResumeFence
<1>3. ~unreported'
  BY <1>2, FenceEndsReal DEF Resume, ResumeFence
<1>4. ~command_queue_stall_for_itag
  BY <1>2 DEF FenceInv, HeadInv, ParkedInv, OneParkedCommand
<1>5. answers' = owed
  BY <1>4 DEF Resume, ResumeInval
<1>6. QED
  BY <1>2, <1>3, <1>5, NothingOwed

LEMMA CommandsCover ==
  ASSUME FenceInv, process_commands
  PROVE  Covered
<1> SUFFICES ASSUME FencePasses PROVE (\A a \in answers' : a.late) /\ ~unreported'
  BY DEF Covered
<1>1. cqh' # cqh /\ mem[cqh].op = "IOFENCE"
  BY HeadLeaves DEF FencePasses, FenceInv
<1>2. RunFence
  BY <1>1 DEF process_commands, FetchFault, RejectCommand, RunSimple, RunInval,
              BlockFence
<1>3. ~unreported'
  BY <1>2, FenceEndsReal DEF RunFence, FenceInv, TimeoutFlagIsReal
<1>4. answers' = answers /\ BusyTags(itag_tracker) = {}
  BY <1>2 DEF RunFence, tags
<1>5. QED
  BY <1>3, <1>4, NothingOwed DEF FenceInv

LEMMA SoftwareCovers ==
  ASSUME ~ResetInUse, FenceInv, Software
  PROVE  Covered
<1> SUFFICES ASSUME FencePasses PROVE (\A a \in answers' : a.late) /\ ~unreported'
  BY DEF Covered
<1>1. cqh' # cqh /\ cqcsr.cqon
  BY HeadLeaves DEF FencePasses, FenceInv
<1>2. CASE Reset
  <2>1. /\ BusyTags(itag_tracker) = {} /\ answers' = answers
        /\ ~ats_inv_req_timeout /\ unreported' = unreported
    BY <1>2 DEF Reset, internals, tags
  <2>2. QED
    BY <2>1, NothingOwed DEF FenceInv, TimeoutFlagIsReal
<1>3. ASSUME NEW cqen \in BOOLEAN, NEW cie \in CieWrites, NEW ack \in AckWrites,
             WriteCqcsr(cqen, cie, ack)
      PROVE  FALSE
  <2>1. ~cqcsr.busy /\ ~cqcsr.cqen
    BY <1>1, <1>3 DEF WriteCqcsr
  <2>2. QED
    BY <1>1, <2>1 DEF FenceInv, HeadInv, ParkedInv, BusyOnlyBehindFence
<1>4. QED
  BY <1>1, <1>2, <1>3 DEF Software, Submit, WriteCqb, WriteIpsr

LEMMA CoveredStep ==
  MaxLate = 0 /\ ~ResetInUse /\ FenceInv /\ [Next]_vars => FenceInv' /\ [Covered]_vars
<1> SUFFICES ASSUME MaxLate = 0, ~ResetInUse, FenceInv, [Next]_vars
             PROVE  FenceInv' /\ [Covered]_vars
  OBVIOUS
<1>1. FenceInv'
  BY HeadStep, RealStep, OwedStep DEF FenceInv, HeadInv, ParkedInv
<1>2. Covered \/ UNCHANGED vars
  <2>1. CASE DeviceAnswers
    BY <2>1, AnswersOwe, ResumeCovers DEF FenceInv, HeadInv, ParkedInv,
                                          TimeoutFlagIsReal
  <2>2. CASE TimerExpires
    BY <2>2, TimerOwes, ResumeCovers DEF FenceInv
  <2>3. QED
    BY <2>1, <2>2, CommandsCover, SoftwareCovers DEF Next
<1>3. QED
  BY <1>1, <1>2

(* An IOFENCE.C that is passed covers every invalidation before it: where   *)
(* the timer gives a device the time it needs, none is still unanswered and *)
(* no timeout goes unreported, in whatever order requests are coalesced,    *)
(* answered and given up.                                                   *)
THEOREM FencesCover ==
  ASSUME MaxLate = 0, ~ResetInUse
  PROVE  Spec => FenceGuarantee
<1>1. FenceInv /\ [Next]_vars => FenceInv' /\ [Covered]_vars
  BY CoveredStep
<1>2. Spec => [][Covered]_vars
  BY <1>1, FenceInit, PTL DEF Spec
<1>3. QED
  BY <1>2 DEF FenceGuarantee, Covered

(* With final timeouts a completion may name several requests and still     *)
(* leaves no wait without a cause.                                          *)
THEOREM FinalTimeoutsEndWaits ==
  ASSUME MaxLate = 0
  PROVE  Spec => []WaitHasCause
<1> DEFINE Inv == ParkedInv /\ WaitHasCause /\ Owed(itag_tracker, answers)
<1>1. Init => Inv
  <2>1. Init => WaitHasCause
    BY DEF Init, WaitHasCause, FenceWaitsForBusyTag, StallMeansNoFreeTag
  <2>2. QED
    BY <2>1, FenceInit DEF FenceInv, HeadInv
<1>2. Inv /\ [Next]_vars => Inv'
  <2> SUFFICES ASSUME Inv, [Next]_vars PROVE Inv'
    OBVIOUS
  <2>1. ParkedInv' /\ Owed(itag_tracker', answers')
    BY ParkedStep, OwedStep DEF ParkedInv
  <2>2. WaitHasCause'
    <3>1. CASE UNCHANGED <<itag_tracker, inval, fence>>
      BY <3>1 DEF WaitHasCause, FenceWaitsForBusyTag, StallMeansNoFreeTag, inval, fence
    <3>2. CASE DeviceAnswers
      BY <3>2, AnswersOwe, ResumeCause DEF ParkedInv
    <3>3. CASE Software
      BY <3>1, <3>3 DEF Software, Submit, WriteCqb, WriteCqcsr, WriteIpsr, Reset,
                        internals, tags
    <3>4. QED
      BY <3>1, <3>2, <3>3, CommandsCause, TimerResumes, ResumeCause
         DEF Next, vars, tags
  <2>3. QED
    BY <2>1, <2>2
<1>3. QED
  BY <1>1, <1>2, PTL DEF Spec

-----------------------------------------------------------------------------
(* What a parked command waits for shrinks.                                 *)

(* The trackers in use after a step are among those before it. *)
LEMMA CountedIsNoBusier ==
  ASSUME NEW tracker \in Tracker, NEW cc, Counted(tracker, cc).busy
  PROVE  tracker.busy
<1>1. CASE Counted(tracker, cc) = Free
  BY <1>1 DEF Free
<1>2. CASE Counted(tracker, cc) =
             [tracker EXCEPT !.num_rsp_rcvd = (tracker.num_rsp_rcvd + 1) % RspWrap]
  BY <1>2 DEF Tracker
<1>3. QED
  BY <1>1, <1>2 DEF Counted

(* A step that leaves an IOFENCE.C waiting resumed no ATS.INVAL. *)
LEMMA WaitingSendsNothing ==
  ASSUME NEW t, NEW owed, NEW timedOut, NEW missed,
         Resume(t, owed, timedOut, missed), iofence_wait_pending_inv'
  PROVE  itag_tracker' = t
BY DEF Resume, ResumeInval

LEMMA AnswersTakeNoTag ==
  ASSUME TypeOK, DeviceAnswers, iofence_wait_pending_inv'
  PROVE  BusyTags(itag_tracker') \subseteq BusyTags(itag_tracker)
<1>1. PICK S \in (SUBSET answers) \ {{}} :
        LET dev  == (CHOOSE a \in S : TRUE).dev
            owed == (answers \ S) \cup
                      {[a EXCEPT !.left = @ - 1] : a \in {b \in S : b.left > 1}}
        IN handle_invalidation_completion({a.itag : a \in S},
                                          Responses[dev] % RspWrap, dev, owed)
  BY DEF DeviceAnswers
<1> DEFINE dev    == (CHOOSE a \in S : TRUE).dev
           vector == {a.itag : a \in S}
           cc     == Responses[dev] % RspWrap
           owed   == (answers \ S) \cup
                       {[a EXCEPT !.left = @ - 1] : a \in {b \in S : b.left > 1}}
           t      == [i \in Itags |-> IF i \in Reached(vector, dev)
                                      THEN Counted(itag_tracker[i], cc)
                                      ELSE itag_tracker[i]]
<1>2. \/ itag_tracker' = t
      \/ Resume(t, owed, ats_inv_req_timeout, unreported)
  BY <1>1 DEF handle_invalidation_completion
<1>3. itag_tracker' = t
  <2> HIDE DEF t, owed
  <2> QED BY <1>2, WaitingSendsNothing
<1>4. \A i \in Itags : t[i].busy => itag_tracker[i].busy
  <2> SUFFICES ASSUME NEW i \in Itags, t[i].busy PROVE itag_tracker[i].busy
    OBVIOUS
  <2> HIDE DEF vector, dev, cc
  <2>1. itag_tracker[i] \in Tracker
    BY DEF TypeOK
  <2>2. t[i] = Counted(itag_tracker[i], cc) \/ t[i] = itag_tracker[i]
    OBVIOUS
  <2> HIDE DEF t
  <2>3. QED
    BY <2>1, <2>2, CountedIsNoBusier
<1> HIDE DEF t
<1>5. QED
  BY <1>3, <1>4 DEF BusyTags

(* A timer that expires frees the trackers of its vector, and there is one. *)
LEMMA TimerFreesTags ==
  ASSUME TypeOK, TimerExpires
  PROVE  \E t, owed, missed :
           /\ Resume(t, owed, TRUE, missed)
           /\ BusyTags(t) \subseteq BusyTags(itag_tracker)
           /\ BusyTags(t) # BusyTags(itag_tracker)
<1>1. PICK vector \in (SUBSET BusyTags(itag_tracker)) \ {{}} :
        do_ats_timer_expiry(vector)
  BY DEF TimerExpires
<1> DEFINE t == [i \in Itags |-> IF i \in vector THEN Free ELSE itag_tracker[i]]
<1>2. \E owed, missed : Resume(t, owed, TRUE, missed)
  BY <1>1 DEF do_ats_timer_expiry
<1>3. BusyTags(t) = BusyTags(itag_tracker) \ vector
  <2>1. vector \subseteq Itags
    BY <1>1 DEF BusyTags
  <2>2. \A i \in Itags : t[i].busy <=> itag_tracker[i].busy /\ i \notin vector
    BY DEF Free, TypeOK, Tracker
  <2> HIDE DEF t
  <2>3. QED
    BY <2>1, <2>2 DEF BusyTags
<1>4. BusyTags(t) \subseteq BusyTags(itag_tracker) /\ BusyTags(t) # BusyTags(itag_tracker)
  BY <1>1, <1>3
<1> HIDE DEF t
<1>5. QED
  BY <1>2, <1>4

LEMMA WaitShrinks ==
  ASSUME ParkedInv, [Next]_vars, iofence_wait_pending_inv, iofence_wait_pending_inv'
  PROVE  /\ BusyTags(itag_tracker') \subseteq BusyTags(itag_tracker)
         /\ TimerExpires => BusyTags(itag_tracker') # BusyTags(itag_tracker)
<1>0. TypeOK
  BY DEF ParkedInv
<1>1. ASSUME TimerExpires
      PROVE  /\ BusyTags(itag_tracker') \subseteq BusyTags(itag_tracker)
             /\ BusyTags(itag_tracker') # BusyTags(itag_tracker)
  <2>1. PICK t, owed, missed :
          /\ Resume(t, owed, TRUE, missed)
          /\ BusyTags(t) \subseteq BusyTags(itag_tracker)
          /\ BusyTags(t) # BusyTags(itag_tracker)
    BY <1>0, <1>1, TimerFreesTags
  <2>2. itag_tracker' = t
    BY <2>1, WaitingSendsNothing
  <2>3. QED
    BY <2>1, <2>2
<1>2. CASE UNCHANGED itag_tracker
  BY <1>1, <1>2
<1>3. CASE process_commands
  BY <1>3 DEF process_commands, FetchFault, RejectCommand, RunSimple, RunInval,
              BlockFence, RunFence, CanFetch
<1>4. CASE DeviceAnswers
  BY <1>0, <1>1, <1>4, AnswersTakeNoTag
<1>5. CASE Software
  BY <1>2, <1>5 DEF Software, Submit, WriteCqb, WriteCqcsr, WriteIpsr, Reset,
                    internals, tags
<1>6. QED
  BY <1>1, <1>2, <1>3, <1>4, <1>5 DEF Next, vars, tags

LEMMA TimerSendsStalled ==
  ASSUME ParkedInv, command_queue_stall_for_itag, TimerExpires
  PROVE  ~command_queue_stall_for_itag'
<1>1. PICK t, owed, missed :
        /\ Resume(t, owed, TRUE, missed)
        /\ BusyTags(t) \subseteq BusyTags(itag_tracker)
        /\ BusyTags(t) # BusyTags(itag_tracker)
  BY TimerFreesTags DEF ParkedInv
<1>2. BusyTags(t) # Itags
  BY <1>1 DEF BusyTags
<1>3. ~iofence_wait_pending_inv'
  BY <1>1 DEF ParkedInv, OneParkedCommand, Resume, ResumeFence, fence
<1>4. QED
  BY <1>1, <1>2, <1>3 DEF Resume, ResumeInval

(* A parked command can only come nearer to its end: nothing that software, *)
(* a device or the queue itself does gives a waiting IOFENCE.C more to wait *)
(* for, and each expiry of the timer takes from it.                         *)
THEOREM WaitsOnlyShrink == Spec => WaitsShrink
<1> DEFINE Shrinks ==
      /\ iofence_wait_pending_inv /\ iofence_wait_pending_inv' =>
           /\ BusyTags(itag_tracker') \subseteq BusyTags(itag_tracker)
           /\ TimerExpires => BusyTags(itag_tracker') # BusyTags(itag_tracker)
      /\ command_queue_stall_for_itag /\ TimerExpires =>
           ~command_queue_stall_for_itag'
<1>1. Init => ParkedInv
  BY FenceInit DEF FenceInv, HeadInv
<1>2. ParkedInv /\ [Next]_vars => ParkedInv' /\ Shrinks
  BY ParkedStep, WaitShrinks, TimerSendsStalled
<1>3. QED
  BY <1>1, <1>2, PTL DEF Spec, WaitsShrink

-----------------------------------------------------------------------------
(* Late answers.  A late answer is counted for whatever request its tracker *)
(* holds by then, if the device fits.  What is left of the story is that    *)
(* every owed completion either has its tracker and its count, or is owed   *)
(* by a function that timed out before.                                     *)

Honest(t, a) ==
  /\ ~a.late
  /\ t[a.itag].busy /\ t[a.itag].dev = a.dev
  /\ t[a.itag].num_rsp_rcvd + a.left = Responses[a.dev]

Excused(dev, gone) == \E d \in gone : SameFunction(dev, d)

Story(t, owed, gone) ==
  /\ t \in [Itags -> Tracker]
  /\ owed \in SUBSET Answer
  /\ \A a \in owed : Honest(t, a) \/ Excused(a.dev, gone)

LEMMA ExcuseSpreads ==
  ASSUME NEW c, NEW d, NEW gone, SameFunction(c, d), Excused(d, gone)
  PROVE  Excused(c, gone)
BY DEF Excused, SameFunction

LEMMA SendStory ==
  ASSUME NEW t, NEW owed, NEW gone, Story(t, owed, gone), NEW dev \in Requesters,
         BusyTags(t) # Itags, SendInval(t, owed, dev)
  PROVE  Story(itag_tracker', answers', gone)
<1> DEFINE free == Itags \ BusyTags(t)
           i == CHOOSE i \in free : \A j \in free : i <= j
           new == [itag |-> i, dev |-> dev, left |-> Responses[dev], late |-> FALSE]
<1>1. /\ itag_tracker' = [t EXCEPT ![i] = [busy |-> TRUE, dev |-> dev,
                                          num_rsp_rcvd |-> 0]]
      /\ answers' = owed \cup {new}
  BY DEF SendInval
<1>2. i \in Itags /\ ~t[i].busy
  <2>1. free \in SUBSET Itags /\ free # {}
    BY DEF BusyTags
  <2>2. i \in free
    BY <2>1, FirstTag
  <2>3. QED
    BY <2>2 DEF BusyTags
<1>3. itag_tracker' \in [Itags -> Tracker] /\ answers' \in SUBSET Answer
  BY SendInvalType DEF Story
<1>4. ASSUME NEW a \in owed, Honest(t, a) PROVE Honest(itag_tracker', a)
  <2>1. a.itag \in Itags /\ a.itag # i
    BY <1>2, <1>4 DEF Story, Answer, Honest
  <2>2. itag_tracker'[a.itag] = t[a.itag]
    BY <1>1, <2>1 DEF Story
  <2>3. QED
    BY <1>4, <2>2 DEF Honest
<1>5. Honest(itag_tracker', new)
  <2>1. itag_tracker'[i] = [busy |-> TRUE, dev |-> dev, num_rsp_rcvd |-> 0]
    BY <1>1, <1>2 DEF Story
  <2>2. 0 + Responses[dev] = Responses[dev]
    BY ConstantsAssumption
  <2>3. QED
    BY <2>1, <2>2 DEF Honest
<1> HIDE DEF new
<1>6. QED
  BY <1>1, <1>3, <1>4, <1>5 DEF Story

LEMMA ResumeStory ==
  ASSUME TypeOK, NEW t, NEW owed, NEW gone, Story(t, owed, gone),
         NEW timedOut, NEW missed, Resume(t, owed, timedOut, missed)
  PROVE  Story(itag_tracker', answers', gone)
<1>1. CASE /\ ~iofence_wait_pending_inv'
           /\ command_queue_stall_for_itag
           /\ BusyTags(t) # Itags
  <2>1. SendInval(t, owed, pending_inval_req)
    BY <1>1 DEF Resume, ResumeInval
  <2>2. QED
    BY <1>1, <2>1, SendStory DEF TypeOK
<1>2. CASE ~ /\ ~iofence_wait_pending_inv'
             /\ command_queue_stall_for_itag
             /\ BusyTags(t) # Itags
  BY <1>2 DEF Resume, ResumeInval
<1>3. QED
  BY <1>1, <1>2

(* Two honest completions of one tracker are the same. *)
LEMMA HonestIsOne ==
  ASSUME NEW t \in [Itags -> Tracker], NEW a \in Answer, NEW b \in Answer,
         a.itag = b.itag, Honest(t, a), Honest(t, b)
  PROVE  a = b
<1>1. /\ a.dev = b.dev /\ a.late = b.late
  BY DEF Honest, Answer
<1>2. /\ t[a.itag].num_rsp_rcvd \in 0 .. RspWrap - 1
      /\ a.left \in 1 .. RspWrap /\ b.left \in 1 .. RspWrap
      /\ t[a.itag].num_rsp_rcvd + a.left = t[a.itag].num_rsp_rcvd + b.left
  BY <1>1 DEF Honest, Answer, Tracker
<1>3. a.left = b.left
  BY <1>2, ConstantsAssumption
<1>4. QED
  BY <1>1, <1>3 DEF Answer

(* The loop of handle_invalidation_completion, cut short or not, keeps the  *)
(* story: a completion it does not count, or counts for another request, is *)
(* of a function that timed out.                                            *)
LEMMA CountingStory ==
  ASSUME TypeOK, NEW gone, Story(itag_tracker, answers, gone),
         NEW S \in SUBSET answers, NEW dev \in Requesters, \A a \in S : a.dev = dev
  PROVE  LET vector == {a.itag : a \in S}
             t == [i \in Itags |-> IF i \in Reached(vector, dev)
                                   THEN Counted(itag_tracker[i], Responses[dev] % RspWrap)
                                   ELSE itag_tracker[i]]
             owed == (answers \ S) \cup
                       {[a EXCEPT !.left = @ - 1] : a \in {b \in S : b.left > 1}}
         IN  Story(t, owed, gone)
<1> DEFINE vector == {a.itag : a \in S}
           cc == Responses[dev] % RspWrap
           t == [i \in Itags |-> IF i \in Reached(vector, dev)
                                 THEN Counted(itag_tracker[i], cc)
                                 ELSE itag_tracker[i]]
           next(a) == [a EXCEPT !.left = @ - 1]
           more == {b \in S : b.left > 1}
           owed == (answers \ S) \cup {next(a) : a \in more}
<1>1. answers \in SUBSET Answer /\ itag_tracker \in [Itags -> Tracker]
  BY DEF Story
<1>2. t \in [Itags -> Tracker] /\ owed \in SUBSET Answer
  BY <1>1, CountedType, OwedType
<1>3. vector \subseteq Itags /\ \A k \in Itags : ~(k < k)
  BY <1>1, ConstantsAssumption DEF Answer, Itags
<1>4. ASSUME NEW k \in Reached(vector, dev)
      PROVE  k \in vector /\ itag_tracker[k].busy
             /\ SameFunction(itag_tracker[k].dev, dev)
  <2>1. k \in vector /\ k \notin Unexpected(vector, dev)
    BY <1>3, <1>4 DEF Reached
  <2>2. QED
    BY <2>1 DEF Unexpected, Matches, SameFunction
<1>5. ASSUME NEW k \in vector, k \notin Reached(vector, dev)
      PROVE  Excused(dev, gone)
  <2>1. PICK j \in Unexpected(vector, dev) : TRUE
    BY <1>5 DEF Reached
  <2>2. PICK c \in S : c.itag = j
    BY <2>1 DEF Unexpected
  <2>3. c.dev = dev /\ ~(itag_tracker[j].busy /\ Matches(itag_tracker[j].dev, dev))
    BY <2>1 DEF Unexpected
  <2>4. ~Honest(itag_tracker, c)
    BY <2>2, <2>3 DEF Honest, Matches
  <2>5. QED
    BY <2>3, <2>4 DEF Story
<1>6. ASSUME NEW a \in answers \ S
      PROVE  Honest(t, a) \/ Excused(a.dev, gone)
  <2> SUFFICES ASSUME ~Excused(a.dev, gone) PROVE Honest(t, a)
    OBVIOUS
  <2>1. Honest(itag_tracker, a) /\ a.itag \in Itags
    BY <1>1 DEF Story, Answer
  <2>2. a.itag \notin Reached(vector, dev)
    <3> SUFFICES ASSUME a.itag \in Reached(vector, dev) PROVE FALSE
      OBVIOUS
    <3>1. PICK b \in S : b.itag = a.itag
      BY <1>4
    <3>2. SameFunction(a.dev, b.dev)
      BY <1>4, <2>1 DEF Honest
    <3>3. ~Excused(b.dev, gone)
      BY <3>2, ExcuseSpreads
    <3>4. Honest(itag_tracker, b)
      BY <3>3 DEF Story
    <3>5. a = b
      BY <1>1, <2>1, <3>1, <3>4, HonestIsOne
    <3>6. QED
      BY <3>5
  <2>3. t[a.itag] = itag_tracker[a.itag]
    BY <2>1, <2>2
  <2>4. QED
    BY <2>1, <2>3 DEF Honest
<1>7. ASSUME NEW b \in more
      PROVE  Honest(t, next(b)) \/ Excused(next(b).dev, gone)
  <2> DEFINE old == itag_tracker[b.itag]
             a == next(b)
  <2>1. /\ a.itag = b.itag /\ a.dev = b.dev /\ a.late = b.late /\ a.left = b.left - 1
        /\ b.itag \in Itags /\ b.left \in 1 .. RspWrap /\ b.left > 1 /\ b.dev = dev
        /\ b \in answers /\ b.itag \in vector
    BY <1>1 DEF Answer
  <2> HIDE DEF a
  <2> SUFFICES ASSUME ~Excused(dev, gone) PROVE Honest(t, a)
    BY <2>1 DEF a
  <2>2. Honest(itag_tracker, b)
    BY <2>1 DEF Story
  <2>3. b.itag \in Reached(vector, dev)
    BY <1>5, <2>1
  <2>4. /\ old \in Tracker /\ old.busy /\ old.dev = dev /\ ~b.late
        /\ old.num_rsp_rcvd + b.left = Responses[dev]
        /\ Responses[dev] \in 1 .. RspWrap
    BY <1>1, <2>1, <2>2, ConstantsAssumption DEF Honest
  <2>5. t[b.itag] = Counted(old, cc)
    BY <2>1, <2>3
  <2>6. t[b.itag] = [old EXCEPT !.num_rsp_rcvd = old.num_rsp_rcvd + 1]
    BY <2>1, <2>4, <2>5, LastOneFrees
  <2>7. /\ t[b.itag].busy = old.busy /\ t[b.itag].dev = old.dev
        /\ t[b.itag].num_rsp_rcvd = old.num_rsp_rcvd + 1
    BY <2>4, <2>6 DEF Tracker
  <2>8. old.num_rsp_rcvd \in Nat
    BY <2>4, ConstantsAssumption DEF Tracker
  <2> HIDE DEF t, old
  <2>9. t[b.itag].num_rsp_rcvd + a.left = Responses[dev]
    BY <2>1, <2>4, <2>7, <2>8, ConstantsAssumption
  <2>10. QED
    BY <2>1, <2>4, <2>7, <2>9 DEF Honest
<1>8. \A a \in owed : Honest(t, a) \/ Excused(a.dev, gone)
  <2> HIDE DEF t, next, more
  <2>1. QED
    BY <1>6, <1>7
<1> HIDE DEF t, owed
<1>9. Story(t, owed, gone)
  BY <1>2, <1>8 DEF Story
<1>10. QED
  BY <1>9 DEF t, owed

StoryNow == Story(itag_tracker, answers, expired)

LEMMA AnswersStory ==
  ASSUME TypeOK, StoryNow, DeviceAnswers
  PROVE  StoryNow'
<1>1. PICK S \in (SUBSET answers) \ {{}} :
        /\ \A a, b \in S : a.dev = b.dev /\ (a.itag = b.itag => a = b)
        /\ LET dev  == (CHOOSE a \in S : TRUE).dev
               owed == (answers \ S) \cup
                         {[a EXCEPT !.left = @ - 1] : a \in {b \in S : b.left > 1}}
           IN handle_invalidation_completion({a.itag : a \in S},
                                             Responses[dev] % RspWrap, dev, owed)
        /\ expired' = expired
  BY DEF DeviceAnswers
<1> DEFINE dev    == (CHOOSE a \in S : TRUE).dev
           owed   == (answers \ S) \cup
                       {[a EXCEPT !.left = @ - 1] : a \in {b \in S : b.left > 1}}
           vector == {a.itag : a \in S}
           t      == [i \in Itags |-> IF i \in Reached(vector, dev)
                                      THEN Counted(itag_tracker[i], Responses[dev] % RspWrap)
                                      ELSE itag_tracker[i]]
<1>2. S \in SUBSET answers /\ dev \in Requesters /\ \A a \in S : a.dev = dev
  BY <1>1 DEF TypeOK, Answer
<1>3. Story(t, owed, expired)
  <2> HIDE DEF dev
  <2>1. QED
    BY <1>2, CountingStory DEF StoryNow
<1>4. \/ Resume(t, owed, ats_inv_req_timeout, unreported)
      \/ itag_tracker' = t /\ answers' = owed
  BY <1>1 DEF handle_invalidation_completion
<1> HIDE DEF t, owed
<1>5. QED
  BY <1>1, <1>3, <1>4, ResumeStory DEF StoryNow

LEMMA TimerStory ==
  ASSUME TypeOK, StoryNow, TimerExpires
  PROVE  StoryNow'
<1>1. PICK vector \in (SUBSET BusyTags(itag_tracker)) \ {{}} :
        do_ats_timer_expiry(vector)
  BY DEF TimerExpires
<1> DEFINE given_up == {a \in answers : /\ a.itag \in vector /\ ~a.late
                                        /\ itag_tracker[a.itag].busy
                                        /\ itag_tracker[a.itag].dev = a.dev}
           t == [i \in Itags |-> IF i \in vector THEN Free ELSE itag_tracker[i]]
           missed == unreported \/ \E i \in vector : itag_tracker[i].busy
           gone == {itag_tracker[i].dev : i \in vector \cap BusyTags(itag_tracker)}
<1>2. PICK slow \in SUBSET given_up :
        /\ Resume(t, (answers \ given_up) \cup
                       {[a EXCEPT !.late = TRUE] : a \in slow}, TRUE, missed)
        /\ expired' = expired \cup gone
  BY <1>1 DEF do_ats_timer_expiry
<1> DEFINE owed == (answers \ given_up) \cup {[a EXCEPT !.late = TRUE] : a \in slow}
<1>3. owed \in SUBSET Answer
  <2>1. answers \ given_up \in SUBSET Answer /\ slow \in SUBSET Answer
    BY DEF TypeOK
  <2> HIDE DEF given_up
  <2>2. QED
    BY <2>1, LateType
<1>4. t \in [Itags -> Tracker]
  BY FreeIsTracker DEF TypeOK
<1>5. ASSUME NEW a \in answers \ given_up
      PROVE  Honest(t, a) \/ Excused(a.dev, expired')
  <2>1. CASE Excused(a.dev, expired)
    BY <1>2, <2>1 DEF Excused
  <2>2. CASE ~Excused(a.dev, expired)
    <3>1. Honest(itag_tracker, a) /\ a.itag \in Itags
      BY <2>2 DEF StoryNow, Story, Answer
    <3>2. a.itag \notin vector
      BY <3>1 DEF Honest
    <3>3. t[a.itag] = itag_tracker[a.itag]
      BY <3>1, <3>2
    <3>4. QED
      BY <3>1, <3>3 DEF Honest
  <2>3. QED
    BY <2>1, <2>2
<1>6. ASSUME NEW a \in slow
      PROVE  Excused([a EXCEPT !.late = TRUE].dev, expired')
  <2>1. /\ [a EXCEPT !.late = TRUE].dev = a.dev
        /\ a.itag \in vector /\ itag_tracker[a.itag].dev = a.dev
    BY DEF TypeOK, Answer
  <2>2. a.dev \in expired'
    BY <1>2, <2>1
  <2>3. QED
    BY <2>1, <2>2 DEF Excused, SameFunction
<1>7. \A a \in owed : Honest(t, a) \/ Excused(a.dev, expired')
  <2> HIDE DEF t, given_up
  <2>1. QED
    BY <1>5, <1>6
<1> HIDE DEF t, owed
<1>8. Story(t, owed, expired')
  BY <1>3, <1>4, <1>7 DEF Story
<1>9. Resume(t, owed, TRUE, missed)
  BY <1>2 DEF owed
<1>10. QED
  BY <1>8, <1>9, ResumeStory DEF StoryNow

LEMMA StoryStep == TypeOK /\ StoryNow /\ [Next]_vars => StoryNow'
<1> SUFFICES ASSUME TypeOK, StoryNow, [Next]_vars PROVE StoryNow'
  OBVIOUS
<1>1. CASE UNCHANGED <<tags, expired>>
  BY <1>1 DEF tags, StoryNow
<1>2. CASE RunInval
  <2>1. CASE BusyTags(itag_tracker) = Itags
    BY <1>1, <1>2, <2>1 DEF RunInval
  <2>2. CASE BusyTags(itag_tracker) # Itags
    <3>1. mem[cqh].dev \in Requesters
      BY QueuedIsCommand DEF TypeOK, Command
    <3>2. SendInval(itag_tracker, answers, mem[cqh].dev) /\ expired' = expired
      BY <1>2, <2>2 DEF RunInval
    <3>3. QED
      BY <2>2, <3>1, <3>2, SendStory DEF StoryNow
  <2>3. QED
    BY <2>1, <2>2
<1>3. CASE process_commands /\ ~RunInval
  BY <1>1, <1>3 DEF process_commands, FetchFault, RejectCommand, RunSimple,
                    BlockFence, RunFence
<1>4. CASE Software
  BY <1>1, <1>4 DEF Software, Submit, WriteCqb, WriteCqcsr, WriteIpsr, Reset,
                    internals
<1>5. QED
  BY <1>1, <1>2, <1>3, <1>4, AnswersStory, TimerStory DEF Next, vars

(* A request is complete for the IOMMU before it is for its device only     *)
(* because of a late answer of a function the tracker takes for it, however *)
(* answers are delayed, coalesced and cut off.                              *)
THEOREM EarlyOnlyByLateAnswer == Spec => []PrematureOnlyByLateAnswer
<1>1. Init => TypeOK /\ StoryNow
  <2>1. Init => TypeOK /\ answers = {}
    BY InitType DEF Init
  <2>2. TypeOK /\ answers = {} => StoryNow
    BY DEF TypeOK, StoryNow, Story
  <2>3. QED
    BY <2>1, <2>2
<1>2. TypeOK /\ StoryNow /\ [Next]_vars => StoryNow'
  BY StoryStep
<1>3. StoryNow => PrematureOnlyByLateAnswer
  BY DEF StoryNow, Story, Honest, Excused, PrematureOnlyByLateAnswer
<1>4. QED
  BY <1>1, <1>2, <1>3, TypeCorrect, PTL DEF Spec

=============================================================================
