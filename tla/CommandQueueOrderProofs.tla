----------------------- MODULE CommandQueueOrderProofs ----------------------
(***************************************************************************)
(* The command queue implements FenceOrder, for any sizes, commands,       *)
(* devices and trackers, as long as a timeout is final and the register    *)
(* file is not reset under way.                                            *)
(*                                                                         *)
(* The ring is a sequence that loses its first element as the head moves   *)
(* and gains a last one as the tail does; the answers still owed count the *)
(* outstanding requests.  Every action is then one step of FenceOrder on   *)
(* the two, or none.                                                       *)
(***************************************************************************)
EXTENDS CommandQueueOrder, CommandQueueProofs, SequenceTheorems

-----------------------------------------------------------------------------
(* The ring as a sequence. *)

LEMMA RingMod ==
  ASSUME NEW n \in Nat \ {0}, NEW k \in Int, -n <= k, k < n + n
  PROVE  (k % n) = IF k < 0 THEN k + n ELSE IF k < n THEN k ELSE k - n
<1>1. (k % n) \in 0 .. n - 1 /\ k = n * (k \div n) + (k % n)
  OBVIOUS
<1> DEFINE q == k \div n
           r == k % n
<1>2. q \in Int /\ r \in 0 .. n - 1 /\ k = n * q + r
  BY <1>1
<1> HIDE DEF q, r
<1>3. CASE q <= -2
  <2>1. n * q <= -(n + n)
    BY <1>2, <1>3
  <2>2. QED
    BY <1>2, <2>1
<1>4. CASE q = -1
  BY <1>2, <1>4 DEF r
<1>5. CASE q = 0
  BY <1>2, <1>5 DEF r
<1>6. CASE q = 1
  BY <1>2, <1>6 DEF r
<1>7. CASE q >= 2
  <2>1. n * q >= n + n
    BY <1>2, <1>7
  <2>2. QED
    BY <1>2, <2>1
<1>8. QED
  BY <1>2, <1>3, <1>4, <1>5, <1>6, <1>7

(* The first n slots of memory m are a ring of members of S, between head h *)
(* and tail t.                                                              *)
IsRing(m, S, slots, n, h, t) ==
  /\ slots \in Nat /\ m \in [0 .. slots - 1 -> S]
  /\ n \in 1 .. slots /\ h \in 0 .. n - 1 /\ t \in 0 .. n - 1

(* How many slots lie between head and tail, the i-th of them, and all.     *)
Left(n, h, t) == (t + n - h) % n
Slot(n, h, i) == (h + i - 1) % n
Between(m, n, h, t) == [i \in 1 .. Left(n, h, t) |-> m[Slot(n, h, i)]]

LEMMA LeftIs ==
  ASSUME NEW n \in Nat \ {0}, NEW h \in 0 .. n - 1, NEW t \in 0 .. n - 1
  PROVE  Left(n, h, t) = IF t < h THEN t - h + n ELSE t - h
<1> DEFINE k == t + n - h
<1>1. k \in Int /\ -n <= k /\ k < n + n /\ 0 <= k
  OBVIOUS
<1> HIDE DEF k
<1>2. (k % n) = IF k < 0 THEN k + n ELSE IF k < n THEN k ELSE k - n
  BY <1>1, RingMod
<1>3. QED
  BY <1>1, <1>2 DEF k, Left

LEMMA SlotIs ==
  ASSUME NEW n \in Nat \ {0}, NEW h \in 0 .. n - 1, NEW i \in 1 .. n
  PROVE  Slot(n, h, i) = IF h + i - 1 < n THEN h + i - 1 ELSE h + i - 1 - n
<1> DEFINE k == h + i - 1
<1>1. k \in Int /\ -n <= k /\ k < n + n /\ 0 <= k
  OBVIOUS
<1> HIDE DEF k
<1>2. (k % n) = IF k < 0 THEN k + n ELSE IF k < n THEN k ELSE k - n
  BY <1>1, RingMod
<1>3. QED
  BY <1>1, <1>2 DEF k, Slot

LEMMA NextIs ==
  ASSUME NEW n \in Nat \ {0}, NEW h \in 0 .. n - 1
  PROVE  ((h + 1) % n) = IF h + 1 = n THEN 0 ELSE h + 1
<1>1. h + 1 \in 0 .. n
  OBVIOUS
<1>2. QED
  BY <1>1, SmallMod

(* q is what lies between h and t. *)
Lists(q, S, m, n, h, t) ==
  /\ q \in Seq(S)
  /\ Len(q) = Left(n, h, t)
  /\ \A i \in 1 .. Left(n, h, t) : q[i] = m[Slot(n, h, i)]

LEMMA BetweenIs ==
  ASSUME NEW S, NEW slots, NEW m, NEW n, NEW h, NEW t, IsRing(m, S, slots, n, h, t)
  PROVE  Lists(Between(m, n, h, t), S, m, n, h, t)
<1> DEFINE k == Left(n, h, t)
           s == [i \in 1 .. k |-> m[Slot(n, h, i)]]
<1>1. k \in Nat /\ k < n
  BY LeftIs DEF IsRing
<1> HIDE DEF k
<1>2. ASSUME NEW i \in 1 .. k
      PROVE  Slot(n, h, i) \in 0 .. slots - 1
  <2>1. /\ i \in 1 .. n /\ n \in Nat \ {0} /\ h \in 0 .. n - 1
        /\ n <= slots /\ slots \in Nat
    BY <1>1 DEF IsRing
  <2>2. Slot(n, h, i) = IF h + i - 1 < n THEN h + i - 1 ELSE h + i - 1 - n
    BY <2>1, SlotIs
  <2>3. QED
    BY <2>1, <2>2
<1>3. s \in [1 .. k -> S]
  BY <1>2 DEF IsRing
<1>4. s \in Seq(S) /\ Len(s) = k
  BY <1>1, <1>3
<1>5. s = Between(m, n, h, t)
  BY DEF Between, k
<1>6. QED
  BY <1>4, <1>5 DEF k, Lists

(* The head moves: the first command goes.                                  *)
LEMMA HeadMovesOn ==
  ASSUME NEW S, NEW slots, NEW m, NEW n, NEW h, NEW t, IsRing(m, S, slots, n, h, t),
         h # t
  PROVE  /\ Between(m, n, h, t) # << >>
         /\ Head(Between(m, n, h, t)) = m[h]
         /\ Between(m, n, (h + 1) % n, t) = Tail(Between(m, n, h, t))
<1> DEFINE g == (h + 1) % n
           s == Between(m, n, h, t)
           r == Between(m, n, g, t)
<1>1. n \in Nat \ {0} /\ h \in 0 .. n - 1 /\ t \in 0 .. n - 1
  BY DEF IsRing
<1>2. g \in 0 .. n - 1 /\ g = IF h + 1 = n THEN 0 ELSE h + 1
  BY <1>1, NextIs
<1> HIDE DEF g
<1>3. Lists(s, S, m, n, h, t)
  BY BetweenIs
<1>4. Lists(r, S, m, n, g, t)
  <2>1. IsRing(m, S, slots, n, g, t)
    BY <1>2 DEF IsRing
  <2>2. QED
    BY <2>1, BetweenIs
<1>5. /\ Left(n, h, t) = IF t < h THEN t - h + n ELSE t - h
      /\ Left(n, g, t) = IF t < g THEN t - g + n ELSE t - g
  BY <1>1, <1>2, LeftIs
<1>6. /\ Left(n, h, t) \in Nat /\ Left(n, h, t) >= 1 /\ Left(n, h, t) < n
      /\ Left(n, g, t) = Left(n, h, t) - 1
  BY <1>1, <1>2, <1>5
<1> HIDE DEF s, r
<1>7. s # << >> /\ Head(s) = m[h]
  <2>1. s # << >>
    BY <1>3, <1>6, EmptySeq DEF Lists
  <2>2. Slot(n, h, 1) = h
    BY <1>1, SlotIs
  <2>3. Head(s) = s[1] /\ s[1] = m[h]
    BY <1>3, <1>6, <2>1, <2>2 DEF Lists
  <2>4. QED
    BY <2>1, <2>3
<1>8. r = Tail(s)
  <2>1. /\ Tail(s) \in Seq(S) /\ Len(Tail(s)) = Len(s) - 1
        /\ \A i \in 1 .. Len(Tail(s)) : Tail(s)[i] = s[i + 1]
    BY <1>3, <1>7, HeadTailProperties DEF Lists
  <2>2. Len(r) = Len(Tail(s))
    BY <1>3, <1>4, <1>6, <2>1 DEF Lists
  <2>3. ASSUME NEW i \in 1 .. Len(r) PROVE r[i] = Tail(s)[i]
    <3>1. /\ i \in 1 .. Left(n, g, t) /\ i + 1 \in 1 .. Left(n, h, t)
          /\ i \in 1 .. n /\ i + 1 \in 1 .. n
      BY <1>1, <1>4, <1>6 DEF Lists
    <3>2. Slot(n, g, i) = Slot(n, h, i + 1)
      <4>1. Slot(n, g, i) = IF g + i - 1 < n THEN g + i - 1 ELSE g + i - 1 - n
        BY <1>1, <1>2, <3>1, SlotIs
      <4>2. Slot(n, h, i + 1) = IF h + (i + 1) - 1 < n THEN h + (i + 1) - 1
                                ELSE h + (i + 1) - 1 - n
        BY <1>1, <3>1, SlotIs
      <4>3. QED
        BY <1>1, <1>2, <1>6, <3>1, <4>1, <4>2
    <3>3. r[i] = m[Slot(n, g, i)]
      BY <1>4, <3>1 DEF Lists
    <3>4. s[i + 1] = m[Slot(n, h, i + 1)]
      BY <1>3, <3>1 DEF Lists
    <3>5. Tail(s)[i] = s[i + 1]
      BY <2>1, <2>2
    <3>6. QED
      BY <3>2, <3>3, <3>4, <3>5
  <2>4. r \in Seq(S)
    BY <1>4 DEF Lists
  <2>5. QED
    BY <2>1, <2>2, <2>3, <2>4, SeqEqual
<1>9. QED
  BY <1>7, <1>8 DEF s, r, g

(* The tail moves over a new command: the sequence ends with it.            *)
Put(m, t, c) == [m EXCEPT ![t] = c]

LEMMA TailMovesOn ==
  ASSUME NEW S, NEW slots, NEW m, NEW n, NEW h, NEW t, IsRing(m, S, slots, n, h, t),
         NEW c \in S, NEW u, u = (t + 1) % n, u # h
  PROVE  Between(Put(m, t, c), n, h, u) = Append(Between(m, n, h, t), c)
<1> DEFINE w == Put(m, t, c)
           s == Between(m, n, h, t)
           r == Between(w, n, h, u)
<1>1. n \in Nat \ {0} /\ h \in 0 .. n - 1 /\ t \in 0 .. n - 1
  BY DEF IsRing
<1>2. u \in 0 .. n - 1 /\ u = (IF t + 1 = n THEN 0 ELSE t + 1) /\ u # h
  BY <1>1, NextIs
<1>3. /\ w \in [0 .. slots - 1 -> S] /\ w[t] = c
      /\ \A i \in 0 .. n - 1 : i # t => w[i] = m[i]
  BY DEF IsRing, Put
<1> HIDE DEF w
<1>4. Lists(s, S, m, n, h, t)
  BY BetweenIs
<1>5. Lists(r, S, w, n, h, u)
  <2>1. IsRing(w, S, slots, n, h, u)
    BY <1>2, <1>3 DEF IsRing
  <2>2. QED
    BY <2>1, BetweenIs
<1> HIDE DEF s, r
<1> DEFINE k == Left(n, h, t)
<1>6. k = IF t < h THEN t - h + n ELSE t - h
  BY <1>1, LeftIs
<1>7. Left(n, h, u) = k + 1 /\ k \in Nat /\ k + 1 < n
  <2>1. Left(n, h, u) = IF u < h THEN u - h + n ELSE u - h
    BY <1>1, <1>2, LeftIs
  <2>2. QED
    BY <1>1, <1>2, <1>6, <2>1
<1> HIDE DEF k
<1>8. /\ Append(s, c) \in Seq(S) /\ Len(Append(s, c)) = k + 1
      /\ \A i \in 1 .. k : Append(s, c)[i] = s[i]
      /\ Append(s, c)[k + 1] = c
  <2>1. s \in Seq(S) /\ Len(s) = k
    BY <1>4 DEF Lists, k
  <2>2. QED
    BY <2>1, AppendProperties
<1>9. r \in Seq(S) /\ Len(r) = k + 1
  BY <1>5, <1>7 DEF Lists
<1>10. ASSUME NEW i \in 1 .. k + 1 PROVE r[i] = Append(s, c)[i]
  <2>1. i \in 1 .. n
    BY <1>1, <1>7
  <2>2. Slot(n, h, i) = IF h + i - 1 < n THEN h + i - 1 ELSE h + i - 1 - n
    BY <1>1, <2>1, SlotIs
  <2>3. r[i] = w[Slot(n, h, i)]
    BY <1>5, <1>7 DEF Lists
  <2>4. CASE i = k + 1
    <3>1. Slot(n, h, i) = t
      BY <1>1, <1>6, <2>2, <2>4
    <3>2. QED
      BY <1>3, <1>8, <2>3, <2>4, <3>1
  <2>5. CASE i # k + 1
    <3>1. i \in 1 .. k
      BY <1>7, <2>5
    <3>2. Slot(n, h, i) \in 0 .. n - 1 /\ Slot(n, h, i) # t
      BY <1>1, <1>6, <1>7, <2>2, <3>1
    <3>3. s[i] = m[Slot(n, h, i)]
      BY <1>4, <3>1 DEF Lists, k
    <3>4. w[Slot(n, h, i)] = m[Slot(n, h, i)]
      BY <1>3, <3>2
    <3>5. QED
      BY <1>8, <2>3, <3>1, <3>3, <3>4
  <2>6. QED
    BY <2>4, <2>5
<1>11. r = Append(s, c)
  BY <1>8, <1>9, <1>10, SeqEqual
<1>12. QED
  BY <1>11 DEF r, s, w

-----------------------------------------------------------------------------
(* The commands that are queued. *)

Queueable == Commands \cup {Blank}

LEMMA TodoOff == ~cqcsr.cqon => Todo = << >>
BY DEF Todo

LEMMA TodoOn == cqcsr.cqon => Todo = Between(mem, cqb, cqh, cqt)
BY DEF Todo, Between, Left, Slot

LEMMA RingType ==
  ASSUME HeadInv, cqcsr.cqon
  PROVE  IsRing(mem, Queueable, Slots, cqb, cqh, cqt)
BY ConstantsAssumption DEF HeadInv, ParkedInv, HeadInQueue, TypeOK, Queueable, IsRing

LEMMA TodoStays ==
  ASSUME UNCHANGED <<mem, cqb, cqh, cqt>>, cqcsr'.cqon = cqcsr.cqon
  PROVE  Todo' = Todo
BY DEF Todo

(* The head passes a command. *)
LEMMA HeadIsFirst ==
  ASSUME HeadInv, cqcsr.cqon, cqh # cqt
  PROVE  Todo # << >> /\ Head(Todo) = mem[cqh]
<1>1. Todo = Between(mem, cqb, cqh, cqt)
  BY TodoOn
<1>2. QED
  BY <1>1, RingType, HeadMovesOn

LEMMA HeadPasses ==
  ASSUME HeadInv, cqcsr.cqon, cqcsr'.cqon, cqh # cqt,
         cqh' = Succ(cqh), UNCHANGED <<mem, cqb, cqt>>
  PROVE  Todo' = Tail(Todo)
<1>1. Todo = Between(mem, cqb, cqh, cqt)
  BY TodoOn
<1>2. Todo' = Between(mem, cqb, (cqh + 1) % cqb, cqt)
  BY DEF Todo, Between, Left, Slot, Succ
<1>3. Between(mem, cqb, (cqh + 1) % cqb, cqt) = Tail(Between(mem, cqb, cqh, cqt))
  BY RingType, HeadMovesOn
<1>4. QED
  BY <1>1, <1>2, <1>3

-----------------------------------------------------------------------------
(* The requests that are outstanding. *)

Due(owed, d) == {a \in owed : a.dev = d /\ ~a.late}
DueCount(owed, d) == Cardinality(Due(owed, d))

LEMMA DueType ==
  ASSUME NEW t, NEW owed, Owed(t, owed), NEW d
  PROVE  IsFiniteSet(Due(owed, d)) /\ DueCount(owed, d) \in Nat
<1>1. Due(owed, d) \in SUBSET owed /\ IsFiniteSet(owed)
  BY DEF Due, Owed
<1>2. QED
  BY <1>1, FS_Subset, FS_CardinalityType DEF DueCount

LEMMA NothingDue ==
  ASSUME NEW d
  PROVE  DueCount({}, d) = 0
<1>1. Due({}, d) = {}
  BY DEF Due
<1>2. QED
  BY <1>1, FS_EmptySet DEF DueCount

(* A request that is sent is one more. *)
LEMMA SendDue ==
  ASSUME NEW t, NEW owed, Owed(t, owed), NEW dev \in Requesters, NEW d,
         BusyTags(t) # Itags, SendInval(t, owed, dev)
  PROVE  DueCount(answers', d) = DueCount(owed, d) + (IF d = dev THEN 1 ELSE 0)
<1> DEFINE free == Itags \ BusyTags(t)
           i == CHOOSE i \in free : \A j \in free : i <= j
           new == [itag |-> i, dev |-> dev, left |-> Responses[dev], late |-> FALSE]
<1>1. answers' = owed \cup {new}
  BY DEF SendInval
<1>2. i \in Itags /\ ~t[i].busy
  <2>1. free \in SUBSET Itags /\ free # {}
    BY DEF BusyTags
  <2>2. i \in free
    BY <2>1, FirstTag
  <2>3. QED
    BY <2>2 DEF BusyTags
<1>3. new.itag = i /\ new.dev = dev /\ ~new.late
  OBVIOUS
<1> HIDE DEF i, new
<1>4. new \notin owed
  BY <1>2, <1>3 DEF Owed
<1>5. CASE d = dev
  <2>1. Due(answers', d) = Due(owed, d) \cup {new} /\ new \notin Due(owed, d)
    BY <1>1, <1>3, <1>4, <1>5 DEF Due
  <2>2. QED
    BY <1>5, <2>1, DueType, FS_AddElement DEF DueCount
<1>6. CASE d # dev
  <2>1. Due(answers', d) = Due(owed, d)
    BY <1>1, <1>3, <1>6 DEF Due
  <2>2. QED
    BY <1>6, <2>1, DueType DEF DueCount
<1>7. QED
  BY <1>5, <1>6

(* Where no request is new, none becomes outstanding. *)
LEMMA FewerDue ==
  ASSUME Owed(itag_tracker, answers), NEW t, NEW owed, Owed(t, owed),
         NoNewRequest(owed), NEW d
  PROVE  DueCount(owed, d) <= DueCount(answers, d)
<1> DEFINE A == Due(owed, d)
           B == Due(answers, d)
           f == [a \in A |-> CHOOSE b \in B : b.itag = a.itag]
<1>1. ASSUME NEW a \in A PROVE \E b \in B : b.itag = a.itag
  BY DEF Due, NoNewRequest, Owed
<1>2. ASSUME NEW a \in A PROVE f[a] \in B /\ f[a].itag = a.itag
  BY <1>1
<1>3. f \in [A -> B]
  BY <1>2
<1> HIDE DEF f
<1>4. \A a, b \in A : f[a] = f[b] => a = b
  <2> SUFFICES ASSUME NEW a \in A, NEW b \in A, f[a] = f[b] PROVE a = b
    OBVIOUS
  <2>1. a.itag = b.itag
    BY <1>2
  <2>2. QED
    BY <2>1 DEF Due, Owed
<1> HIDE DEF A, B
<1>5. f \in Injection(A, B)
  BY <1>3, <1>4 DEF Injection, IsInjective
<1>6. IsFiniteSet(B)
  BY DueType DEF B
<1>7. Cardinality(A) <= Cardinality(B)
  BY <1>5, <1>6, FS_Injection
<1>8. QED
  BY <1>7 DEF A, B, DueCount

(* What a stalled ATS.INVAL adds. *)
Stalled(d) == IF command_queue_stall_for_itag /\ pending_inval_req = d THEN 1 ELSE 0

LEMMA OutstandingIs == Outstanding = [d \in Requesters |-> DueCount(answers, d) + Stalled(d)]
BY DEF Outstanding, DueCount, Due, Stalled

LEMMA OutstandingType ==
  ASSUME NEW t, Owed(t, answers)
  PROVE  Outstanding \in [Requesters -> Nat]
<1>1. \A d \in Requesters : DueCount(answers, d) \in Nat /\ Stalled(d) \in Nat
  BY DueType DEF Stalled
<1>2. QED
  BY <1>1, OutstandingIs

LEMMA OutstandingStays ==
  ASSUME UNCHANGED <<answers, command_queue_stall_for_itag, pending_inval_req>>
  PROVE  Outstanding' = Outstanding
BY DEF Outstanding

LEMMA NoneOutstanding ==
  ASSUME answers = {}, ~command_queue_stall_for_itag
  PROVE  Outstanding = Promise!None
<1>1. \A d \in Requesters : DueCount(answers, d) + Stalled(d) = 0
  BY NothingDue DEF Stalled
<1>2. QED
  BY <1>1, OutstandingIs DEF Promise!None

LEMMA NoneOutstandingNext ==
  ASSUME answers' = {}, ~command_queue_stall_for_itag'
  PROVE  Outstanding' = Promise!None
<1>1. Outstanding' = [d \in Requesters |-> DueCount(answers', d) + Stalled(d)']
  BY DEF Outstanding, DueCount, Due, Stalled
<1>2. \A d \in Requesters : DueCount(answers', d) + Stalled(d)' = 0
  BY NothingDue DEF Stalled
<1>3. QED
  BY <1>1, <1>2 DEF Promise!None

-----------------------------------------------------------------------------
(* The steps.  A fence that waits is an IOFENCE.C. *)

WaitingIsFence == iofence_wait_pending_inv => iofence_pending.op = "IOFENCE"

OrderInv == FenceInv /\ WaitingIsFence

OrderStep == [Promise!Next]_<<Todo, Outstanding, unreported>>

LEMMA WaitingStep == WaitingIsFence /\ [Next]_vars => WaitingIsFence'
<1> SUFFICES ASSUME WaitingIsFence, [Next]_vars PROVE WaitingIsFence'
  OBVIOUS
<1>1. CASE UNCHANGED fence
  BY <1>1 DEF WaitingIsFence, fence
<1>2. ASSUME ~iofence_wait_pending_inv' PROVE WaitingIsFence'
  BY <1>2 DEF WaitingIsFence
<1>3. CASE BlockFence
  BY <1>3 DEF BlockFence, WaitingIsFence
<1>4. CASE process_commands /\ ~BlockFence
  BY <1>1, <1>2, <1>4 DEF process_commands, FetchFault, RejectCommand, RunSimple,
                          RunInval, RunFence, FenceEnds
<1>5. CASE DeviceAnswers
  <2>1. PICK t, owed : \/ Resume(t, owed, ats_inv_req_timeout, unreported)
                       \/ UNCHANGED fence
    BY <1>5 DEF DeviceAnswers, handle_invalidation_completion
  <2>2. QED
    BY <1>1, <1>2, <2>1 DEF Resume, ResumeFence, FenceEnds
<1>6. CASE TimerExpires
  BY <1>1, <1>2, <1>6 DEF TimerExpires, do_ats_timer_expiry, Resume, ResumeFence,
                          FenceEnds
<1>7. CASE Software
  BY <1>1, <1>7 DEF Software, Submit, WriteCqb, WriteCqcsr, WriteIpsr, Reset,
                    internals
<1>8. QED
  BY <1>1, <1>3, <1>4, <1>5, <1>6, <1>7 DEF Next, vars

(* A fence that has nothing left to wait for ends in one of three ways.     *)
LEMMA FenceEndsOnce ==
  ASSUME OrderInv, cqcsr.cqon, cqh # cqt, mem[cqh].op = "IOFENCE",
         NEW c, NEW missed \in BOOLEAN, NEW timedOut, timedOut <=> missed,
         unreported => missed,
         NEW outcome \in FenceOutcomes(c, timedOut), FenceEnds(c, outcome, missed),
         cqcsr'.cqon, UNCHANGED <<mem, cqb, cqt>>, Outstanding' = Promise!None,
         answers' = {}, Outstanding \in [Requesters -> Nat]
  PROVE  Promise!PassFence \/ Promise!ReportTimeout \/ Promise!Settle(FALSE)
<1>0. Todo # << >> /\ Head(Todo).op = "IOFENCE"
  BY HeadIsFirst DEF OrderInv, FenceInv
<1>1. unreported \in BOOLEAN
  BY DEF OrderInv, FenceInv, HeadInv, ParkedInv, TypeOK
<1>2. unreported' = (missed /\ outcome # "timeout")
  BY DEF FenceEnds
<1>3. CASE outcome = "done"
  <2>1. ~timedOut /\ ~missed /\ ~unreported /\ ~unreported'
    BY <1>2, <1>3 DEF FenceOutcomes
  <2>2. unreported' = unreported
    BY <1>1, <1>2, <2>1
  <2>3. Todo' = Tail(Todo)
    BY <1>3, HeadPasses DEF FenceEnds, OrderInv, FenceInv
  <2>4. QED
    BY <1>0, <2>1, <2>2, <2>3 DEF Promise!PassFence
<1>4. CASE outcome # "done"
  <2>1. Todo' = Todo
    BY <1>4, TodoStays DEF FenceEnds
  <2>2. CASE outcome = "timeout"
    BY <1>0, <1>2, <2>1, <2>2 DEF Promise!ReportTimeout
  <2>3. CASE outcome # "timeout"
    <3>1. ~missed /\ ~unreported
      BY <1>4, <2>3 DEF FenceOutcomes
    <3>2. unreported' = (unreported \/ FALSE)
      BY <1>1, <1>2, <3>1
    <3>3. /\ Promise!None \in [Requesters -> Nat]
          /\ \A d \in Requesters : Promise!None[d] <= Outstanding[d]
      BY DEF Promise!None
    <3>4. QED
      BY <2>1, <3>2, <3>3 DEF Promise!Settle
  <2>4. QED
    BY <2>2, <2>3
<1>5. QED
  BY <1>3, <1>4

(* A resume lets no request become outstanding: the one that was stalled    *)
(* counted before it was sent.                                              *)
LEMMA ResumeSendsStalled ==
  ASSUME TypeOK, Owed(itag_tracker, answers), NEW t, NEW owed, Owed(t, owed),
         NoNewRequest(owed), ResumeInval(t, owed)
  PROVE  \A d \in Requesters : Outstanding'[d] <= Outstanding[d]
<1> SUFFICES ASSUME NEW d \in Requesters PROVE Outstanding'[d] <= Outstanding[d]
  OBVIOUS
<1> DEFINE sent  == /\ ~iofence_wait_pending_inv'
                    /\ command_queue_stall_for_itag
                    /\ BusyTags(t) # Itags
<1>1. /\ Outstanding[d] = DueCount(answers, d) + Stalled(d)
      /\ Outstanding'[d] = DueCount(answers', d) + Stalled(d)'
  BY DEF Outstanding, DueCount, Due, Stalled
<1>2. /\ DueCount(owed, d) <= DueCount(answers, d)
      /\ DueCount(owed, d) \in Nat /\ DueCount(answers, d) \in Nat
  BY FewerDue, DueType
<1>3. CASE ~sent
  <2>1. answers' = owed /\ Stalled(d)' = Stalled(d) /\ Stalled(d) \in Nat
    BY <1>3 DEF ResumeInval, inval, Stalled
  <2>2. QED
    BY <1>1, <1>2, <2>1
<1>4. CASE sent
  <2>1. SendInval(t, owed, pending_inval_req) /\ Stalled(d)' = 0
    BY <1>4 DEF ResumeInval, Stalled
  <2>2. pending_inval_req \in Requesters
    BY DEF TypeOK
  <2>3. DueCount(answers', d)
          = DueCount(owed, d) + (IF d = pending_inval_req THEN 1 ELSE 0)
    BY <1>4, <2>1, <2>2, SendDue
  <2>4. Stalled(d) = IF d = pending_inval_req THEN 1 ELSE 0
    BY <1>4 DEF Stalled
  <2>5. QED
    BY <1>1, <1>2, <2>1, <2>3, <2>4
<1>5. QED
  BY <1>3, <1>4

LEMMA ResumeSettles ==
  ASSUME OrderInv, Owed(itag_tracker', answers'),
         NEW t, NEW owed, Owed(t, owed), NoNewRequest(owed),
         NEW lost \in BOOLEAN, NEW timedOut, timedOut <=> (unreported \/ lost),
         Resume(t, owed, timedOut, unreported \/ lost), UNCHANGED <<mem, regs>>
  PROVE  OrderStep
<1> DEFINE missed == unreported \/ lost
<1>1. /\ TypeOK /\ HeadInv /\ Owed(itag_tracker, answers)
      /\ OneParkedCommand /\ WaitingFenceIsAtHead
  BY DEF OrderInv, FenceInv, HeadInv, ParkedInv
<1>2. UNCHANGED <<mem, cqb, cqt>>
  BY DEF regs
<1>3. Outstanding \in [Requesters -> Nat]
  BY <1>1, OutstandingType
<1>4. ASSUME iofence_wait_pending_inv, BusyTags(t) = {} PROVE OrderStep
  <2>1. owed = {} /\ ~command_queue_stall_for_itag
    BY <1>1, <1>4, NothingOwed DEF OneParkedCommand
  <2>2. answers' = {} /\ ~command_queue_stall_for_itag'
    BY <2>1 DEF Resume, ResumeInval, inval
  <2>3. Outstanding' = Promise!None
    BY <2>2, NoneOutstandingNext
  <2>4. PICK outcome \in FenceOutcomes(iofence_pending, timedOut) :
          /\ FenceEnds(iofence_pending, outcome, missed)
          /\ cqcsr' = FinishDisable(FenceCsr(iofence_pending, outcome))
    BY <1>4 DEF Resume, ResumeFence
  <2>5. cqcsr \in Cqcsr
    BY <1>1 DEF TypeOK
  <2>6. cqcsr'.cqon = cqcsr.cqen
    BY <2>4, <2>5 DEF FinishDisable, FenceCsr, Cqcsr
  <2>7. /\ cqcsr.cqon /\ cqh # cqt /\ mem[cqh] = iofence_pending
        /\ iofence_pending.op = "IOFENCE"
    BY <1>1, <1>4 DEF WaitingFenceIsAtHead, OrderInv, WaitingIsFence
  <2>8. missed \in BOOLEAN
    BY <1>1 DEF TypeOK
  <2>9. CASE cqcsr.cqen
    <3>1. Promise!PassFence \/ Promise!ReportTimeout \/ Promise!Settle(FALSE)
      <4> HIDE DEF missed
      <4>1. (timedOut <=> missed) /\ (unreported => missed)
        BY DEF missed
      <4>2. QED
        BY <4>1, <1>2, <1>3, <2>2, <2>3, <2>4, <2>6, <2>7, <2>8, <2>9, FenceEndsOnce
    <3>2. QED
      BY <3>1 DEF OrderStep, Promise!Next
  <2>10. CASE ~cqcsr.cqen
    <3>1. Todo' = << >>
      BY <2>6, <2>10 DEF Todo
    <3>2. unreported' = FALSE
      <4>1. outcome = "timeout" \/ ~missed
        BY <2>4 DEF FenceOutcomes
      <4>2. QED
        BY <2>4, <4>1 DEF FenceEnds
    <3>3. Promise!Off
      BY <2>3, <3>1, <3>2 DEF Promise!Off
    <3>4. QED
      BY <3>3 DEF OrderStep, Promise!Next
  <2>11. QED
    BY <2>9, <2>10
<1>5. ASSUME ~(iofence_wait_pending_inv /\ BusyTags(t) = {}) PROVE OrderStep
  <2>1. /\ unreported' = missed /\ UNCHANGED <<cqh, cqcsr>>
        /\ ResumeInval(t, owed)
    BY <1>5 DEF Resume, ResumeFence
  <2>2. Todo' = Todo
    BY <1>2, <2>1, TodoStays
  <2>3. \A d \in Requesters : Outstanding'[d] <= Outstanding[d]
    BY <1>1, <2>1, ResumeSendsStalled
  <2>4. Outstanding' \in [Requesters -> Nat]
    <3>1. \A d \in Requesters : DueCount(answers', d) \in Nat /\ Stalled(d)' \in Nat
      BY DueType DEF Stalled
    <3>2. Outstanding' = [d \in Requesters |-> DueCount(answers', d) + Stalled(d)']
      BY DEF Outstanding, DueCount, Due, Stalled
    <3>3. QED
      BY <3>1, <3>2
  <2>5. Promise!Settle(lost)
    BY <2>1, <2>2, <2>3, <2>4 DEF Promise!Settle
  <2>6. QED
    BY <2>5 DEF OrderStep, Promise!Next
<1>6. QED
  BY <1>4, <1>5

(* What process_commands does is one step of the order. *)
LEMMA RunInvalTakes ==
  ASSUME OrderInv, RunInval
  PROVE  Promise!Take
<1> USE DEF CanFetch
<1>1. /\ HeadInv /\ TypeOK /\ Owed(itag_tracker, answers)
      /\ cqcsr.cqon /\ cqcsr'.cqon /\ cqh # cqt /\ cqh' = Succ(cqh)
      /\ UNCHANGED <<mem, cqb, cqt>> /\ unreported' = unreported
      /\ mem[cqh].op = "ATS_INVAL" /\ ~command_queue_stall_for_itag
  BY DEF RunInval, regs, OrderInv, FenceInv, HeadInv, ParkedInv
<1>2. Todo # << >> /\ Head(Todo) = mem[cqh] /\ Todo' = Tail(Todo)
  BY <1>1, HeadIsFirst, HeadPasses
<1> DEFINE dev == mem[cqh].dev
<1>3. dev \in Requesters
  BY <1>1, QueuedIsCommand DEF TypeOK, Command
<1>4. ASSUME NEW d \in Requesters
      PROVE  Outstanding'[d] = Outstanding[d] + (IF d = dev THEN 1 ELSE 0)
  <2>1. /\ Outstanding[d] = DueCount(answers, d) + Stalled(d)
        /\ Outstanding'[d] = DueCount(answers', d) + Stalled(d)'
        /\ Stalled(d) = 0
    BY <1>1 DEF Outstanding, DueCount, Due, Stalled
  <2>2. DueCount(answers, d) \in Nat
    BY <1>1, DueType
  <2>3. CASE BusyTags(itag_tracker) = Itags
    <3>1. /\ command_queue_stall_for_itag' /\ pending_inval_req' = dev
          /\ answers' = answers
      BY <2>3 DEF RunInval, tags
    <3>2. Stalled(d)' = IF d = dev THEN 1 ELSE 0
      BY <3>1 DEF Stalled
    <3>3. QED
      BY <2>1, <2>2, <3>1, <3>2
  <2>4. CASE BusyTags(itag_tracker) # Itags
    <3>1. SendInval(itag_tracker, answers, dev) /\ UNCHANGED inval
      BY <2>4 DEF RunInval
    <3>2. Stalled(d)' = 0
      BY <1>1, <3>1 DEF Stalled, inval
    <3> HIDE DEF dev
    <3>3. DueCount(answers', d) = DueCount(answers, d) + (IF d = dev THEN 1 ELSE 0)
      BY <1>1, <1>3, <2>4, <3>1, SendDue
    <3>4. QED
      BY <2>1, <2>2, <3>2, <3>3
  <2>5. QED
    BY <2>3, <2>4
<1>5. Outstanding' = [Outstanding EXCEPT ![dev] = @ + 1]
  <2> HIDE DEF dev
  <2>1. Outstanding \in [Requesters -> Nat]
    BY <1>1, OutstandingType
  <2>2. Outstanding' = [d \in Requesters |-> Outstanding'[d]]
    BY DEF Outstanding
  <2>3. \A d \in Requesters :
          Outstanding'[d] = IF d = dev THEN Outstanding[dev] + 1 ELSE Outstanding[d]
    BY <1>4, <2>1
  <2>4. [Outstanding EXCEPT ![dev] = @ + 1]
          = [d \in Requesters |->
               IF d = dev THEN Outstanding[dev] + 1 ELSE Outstanding[d]]
    BY <1>3, <2>1
  <2>5. QED
    BY <2>2, <2>3, <2>4
<1>6. QED
  BY <1>1, <1>2, <1>5 DEF Promise!Take

LEMMA CommandsInOrder ==
  ASSUME OrderInv, process_commands
  PROVE  OrderStep
<1> USE DEF CanFetch
<1>1. /\ HeadInv /\ TypeOK /\ Owed(itag_tracker, answers) /\ cqcsr \in Cqcsr
      /\ OneParkedCommand /\ TimeoutFlagIsReal
  BY DEF OrderInv, FenceInv, HeadInv, ParkedInv, TypeOK
<1>2. CASE FetchFault \/ RejectCommand \/ BlockFence
  <2>1. /\ UNCHANGED <<mem, cqb, cqh, cqt>> /\ cqcsr'.cqon = cqcsr.cqon
        /\ UNCHANGED <<answers, command_queue_stall_for_itag, pending_inval_req>>
        /\ unreported' = unreported
    BY <1>1, <1>2 DEF FetchFault, RejectCommand, BlockFence, Cqcsr, regs, inval, tags
  <2>2. QED
    BY <2>1, TodoStays, OutstandingStays DEF OrderStep
<1>3. CASE RunSimple
  <2>1. /\ UNCHANGED <<mem, cqb, cqt>> /\ cqcsr.cqon /\ cqcsr'.cqon /\ cqh # cqt
        /\ cqh' = Succ(cqh) /\ unreported' = unreported
        /\ UNCHANGED <<answers, command_queue_stall_for_itag, pending_inval_req>>
        /\ mem[cqh].op # "IOFENCE" /\ mem[cqh].op # "ATS_INVAL"
    BY <1>3 DEF RunSimple, regs, inval, tags
  <2>2. Todo # << >> /\ Head(Todo) = mem[cqh] /\ Todo' = Tail(Todo)
    BY <1>1, <2>1, HeadIsFirst, HeadPasses
  <2>3. Outstanding' = Outstanding
    BY <2>1, OutstandingStays
  <2>4. Promise!Take
    BY <2>1, <2>2, <2>3 DEF Promise!Take
  <2>5. QED
    BY <2>4 DEF OrderStep, Promise!Next
<1>4. CASE RunInval
  BY <1>4, RunInvalTakes DEF OrderStep, Promise!Next
<1>5. CASE RunFence
  <2>1. /\ UNCHANGED <<mem, cqb, cqt>> /\ cqcsr.cqon /\ cqh # cqt
        /\ UNCHANGED <<answers, command_queue_stall_for_itag, pending_inval_req>>
        /\ mem[cqh].op = "IOFENCE" /\ ~command_queue_stall_for_itag
        /\ BusyTags(itag_tracker) = {}
    BY <1>5 DEF RunFence, regs, inval, tags
  <2>2. PICK outcome \in FenceOutcomes(mem[cqh], ats_inv_req_timeout) :
          /\ FenceEnds(mem[cqh], outcome, unreported)
          /\ cqcsr' = FenceCsr(mem[cqh], outcome)
    BY <1>5 DEF RunFence
  <2>3. cqcsr'.cqon
    BY <1>1, <2>1, <2>2 DEF FenceCsr, Cqcsr
  <2>4. answers = {} /\ answers' = {}
    BY <1>1, <2>1, NothingOwed
  <2>5. Outstanding' = Promise!None
    BY <2>1, <2>4, NoneOutstandingNext
  <2>6. /\ unreported \in BOOLEAN /\ (ats_inv_req_timeout <=> unreported)
        /\ Outstanding \in [Requesters -> Nat]
    BY <1>1, OutstandingType DEF TypeOK, TimeoutFlagIsReal
  <2>7. Promise!PassFence \/ Promise!ReportTimeout \/ Promise!Settle(FALSE)
    BY <2>1, <2>2, <2>3, <2>4, <2>5, <2>6, FenceEndsOnce
  <2>8. QED
    BY <2>7 DEF OrderStep, Promise!Next
<1>6. QED
  BY <1>2, <1>3, <1>4, <1>5 DEF process_commands

(* What software does is one step of the order, or none. *)
LEMMA SubmitQueues ==
  ASSUME OrderInv, NEW c \in Commands, Submit(c)
  PROVE  OrderStep
<1>1. /\ cqcsr.cqon /\ Succ(cqt) # cqh /\ UNCHANGED <<cqb, cqh, cqcsr>>
      /\ mem' = [mem EXCEPT ![cqt] = c] /\ cqt' = Succ(cqt)
      /\ UNCHANGED <<answers, command_queue_stall_for_itag, pending_inval_req>>
      /\ unreported' = unreported
  BY DEF Submit, internals, inval, tags
<1>2. HeadInv
  BY DEF OrderInv, FenceInv
<1>3. /\ Todo = Between(mem, cqb, cqh, cqt)
      /\ Todo' = Between(mem', cqb, cqh, cqt')
  BY <1>1 DEF Todo, Between, Left, Slot
<1>4. c \in Queueable
  BY DEF Queueable
<1>5. cqt' = (cqt + 1) % cqb /\ cqt' # cqh
  BY <1>1 DEF Succ
<1>6. Between(mem', cqb, cqh, cqt') = Append(Between(mem, cqb, cqh, cqt), c)
  <2>1. IsRing(mem, Queueable, Slots, cqb, cqh, cqt)
    BY <1>1, <1>2, RingType
  <2>2. mem' = Put(mem, cqt, c)
    BY <1>1 DEF Put
  <2>3. QED
    BY <1>4, <1>5, <2>1, <2>2, TailMovesOn
<1>7. Todo' = Append(Todo, c)
  BY <1>3, <1>6
<1>8. Promise!Queue(c)
  BY <1>1, <1>7, OutstandingStays DEF Promise!Queue
<1>9. QED
  BY <1>8, <1>4 DEF OrderStep, Promise!Next, Queueable

LEMMA WriteCqcsrSwitches ==
  ASSUME OrderInv, NEW cqen \in BOOLEAN, NEW cie, NEW ack, WriteCqcsr(cqen, cie, ack)
  PROVE  OrderStep
<1> DEFINE enable  == cqen /\ ~cqcsr.cqen
           disable == ~cqen /\ cqcsr.cqen
           on      == enable \/ (cqcsr.cqon /\ (disable => iofence_wait_pending_inv))
<1>1. /\ ~cqcsr.busy /\ cqh' = (IF enable THEN 0 ELSE cqh)
      /\ cqcsr'.cqon = on /\ UNCHANGED <<mem, cqb, cqt>>
  BY DEF WriteCqcsr, regs
<1>2. /\ UNCHANGED <<answers, command_queue_stall_for_itag, pending_inval_req>>
      /\ unreported' = unreported
  BY DEF WriteCqcsr, internals, inval, tags
<1>3. TypeOK /\ HeadInv /\ cqcsr \in Cqcsr /\ BusyOnlyBehindFence
  BY DEF OrderInv, FenceInv, HeadInv, ParkedInv, TypeOK
<1>4. Outstanding' = Outstanding
  BY <1>2, OutstandingStays
<1>5. CASE enable
  <2>1. ~cqcsr.cqon
    BY <1>1, <1>3, <1>5 DEF BusyOnlyBehindFence
  <2>2. Todo = << >>
    BY <2>1, TodoOff
  <2>3. Todo' = Between(mem, cqb, 0, cqt)
    <3>1. cqcsr'.cqon /\ cqh' = 0
      BY <1>1, <1>5
    <3>2. QED
      BY <1>1, <3>1 DEF Todo, Between, Left, Slot
  <2>4. IsRing(mem, Queueable, Slots, cqb, 0, cqt)
    BY <1>3, ConstantsAssumption DEF TypeOK, Queueable, IsRing
  <2>5. Lists(Between(mem, cqb, 0, cqt), Queueable, mem, cqb, 0, cqt)
    BY <2>4, BetweenIs
  <2>6. Todo' \in Seq(Queueable)
    BY <2>3, <2>5 DEF Lists
  <2>7. Promise!On
    BY <1>2, <1>4, <2>2, <2>6 DEF Promise!On, Queueable
  <2>8. QED
    BY <2>7 DEF OrderStep, Promise!Next
<1>6. CASE ~enable /\ cqcsr'.cqon
  <2>1. cqcsr.cqon /\ cqh' = cqh
    BY <1>1, <1>6
  <2>2. cqcsr'.cqon = cqcsr.cqon
    BY <1>1, <1>3, <1>6, <2>1 DEF Cqcsr
  <2>3. Todo' = Todo
    BY <1>1, <2>1, <2>2, TodoStays
  <2>4. QED
    BY <1>2, <1>4, <2>3 DEF OrderStep
<1>7. CASE ~enable /\ ~cqcsr'.cqon
  <2>1. Todo' = << >>
    BY <1>7 DEF Todo
  <2>2. Promise!Off
    BY <1>2, <1>4, <2>1 DEF Promise!Off
  <2>3. QED
    BY <2>2 DEF OrderStep, Promise!Next
<1>8. QED
  BY <1>5, <1>6, <1>7

LEMMA SoftwareInOrder ==
  ASSUME OrderInv, Software
  PROVE  OrderStep
<1>1. CASE \E c \in Commands : Submit(c)
  BY <1>1, SubmitQueues
<1>2. CASE \E size \in Sizes : WriteCqb(size)
  <2>1. /\ ~cqcsr.cqon /\ cqcsr' = cqcsr /\ unreported' = unreported
        /\ UNCHANGED <<answers, command_queue_stall_for_itag, pending_inval_req>>
    BY <1>2 DEF WriteCqb, internals, inval, tags
  <2>2. Todo = << >> /\ Todo' = << >>
    BY <2>1 DEF Todo
  <2>3. QED
    BY <2>1, <2>2, OutstandingStays DEF OrderStep
<1>3. CASE \E cqen \in BOOLEAN, cie \in CieWrites, ack \in AckWrites :
             WriteCqcsr(cqen, cie, ack)
  BY <1>3, WriteCqcsrSwitches
<1>4. CASE WriteIpsr
  <2>1. /\ UNCHANGED <<mem, cqb, cqh, cqt>> /\ cqcsr' = cqcsr /\ unreported' = unreported
        /\ UNCHANGED <<answers, command_queue_stall_for_itag, pending_inval_req>>
    BY <1>4 DEF WriteIpsr, internals, inval, tags, regs
  <2>2. QED
    BY <2>1, TodoStays, OutstandingStays DEF OrderStep
<1>5. CASE Reset
  <2>1. /\ ~cqcsr'.cqon /\ unreported' = unreported
        /\ UNCHANGED <<answers, command_queue_stall_for_itag, pending_inval_req>>
    BY <1>5 DEF Reset, internals, inval, tags
  <2>2. Todo' = << >>
    BY <2>1 DEF Todo
  <2>3. Promise!Off
    BY <2>1, <2>2, OutstandingStays DEF Promise!Off
  <2>4. QED
    BY <2>3 DEF OrderStep, Promise!Next
<1>6. QED
  BY <1>1, <1>2, <1>3, <1>4, <1>5 DEF Software

LEMMA NextInOrder ==
  ASSUME MaxLate = 0, ~ResetInUse, OrderInv, [Next]_vars
  PROVE  OrderInv' /\ OrderStep
<1>1. TypeOK /\ Owed(itag_tracker, answers)
  BY DEF OrderInv, FenceInv, HeadInv, ParkedInv
<1>2. OrderInv'
  BY CoveredStep, WaitingStep DEF OrderInv
<1> SUFFICES OrderStep
  BY <1>2
<1>3. Owed(itag_tracker', answers')
  BY <1>1, OwedStep
<1>4. CASE process_commands
  BY <1>4, CommandsInOrder
<1>5. CASE DeviceAnswers
  <2>1. PICK t, owed : /\ Owed(t, owed) /\ NoNewRequest(owed)
                       /\ Resume(t, owed, ats_inv_req_timeout, unreported)
    BY <1>1, <1>5, AnswersOwe
  <2>2. /\ (unreported \/ FALSE) = unreported
        /\ ats_inv_req_timeout <=> (unreported \/ FALSE)
    BY <1>1 DEF OrderInv, FenceInv, TimeoutFlagIsReal, TypeOK
  <2>3. UNCHANGED <<mem, regs>>
    BY <1>5 DEF DeviceAnswers
  <2>4. Resume(t, owed, ats_inv_req_timeout, unreported \/ FALSE)
    BY <2>1, <2>2
  <2>5. QED
    BY <1>3, <2>1, <2>2, <2>3, <2>4, ResumeSettles
<1>6. CASE TimerExpires
  <2>1. PICK t, owed : /\ Owed(t, owed) /\ NoNewRequest(owed)
                       /\ Resume(t, owed, TRUE, TRUE)
    BY <1>1, <1>6, TimerOwes
  <2>2. (unreported \/ TRUE) = TRUE /\ (TRUE <=> (unreported \/ TRUE))
    OBVIOUS
  <2>3. UNCHANGED <<mem, regs>>
    BY <1>6 DEF TimerExpires, do_ats_timer_expiry
  <2>4. Resume(t, owed, TRUE, unreported \/ TRUE)
    BY <2>1, <2>2
  <2>5. QED
    BY <1>3, <2>1, <2>2, <2>3, <2>4, ResumeSettles
<1>7. CASE Software
  BY <1>7, SoftwareInOrder
<1>8. CASE UNCHANGED vars
  <2>1. /\ UNCHANGED <<mem, cqb, cqh, cqt>> /\ cqcsr' = cqcsr /\ unreported' = unreported
        /\ UNCHANGED <<answers, command_queue_stall_for_itag, pending_inval_req>>
    BY <1>8 DEF vars, regs, inval, tags
  <2>2. QED
    BY <2>1, TodoStays, OutstandingStays DEF OrderStep
<1>9. QED
  BY <1>4, <1>5, <1>6, <1>7, <1>8 DEF Next

(* The command queue implements FenceOrder: commands run in the order they  *)
(* were queued, none is skipped or run twice, and an IOFENCE.C is passed    *)
(* only when no request is outstanding and every timeout was reported.      *)
THEOREM FenceOrderKept ==
  ASSUME MaxLate = 0, ~ResetInUse
  PROVE  Spec => KeepsFenceOrder
<1>1. Init => OrderInv
  BY FenceInit DEF OrderInv, WaitingIsFence, Init
<1>2. Init => Promise!Init
  <2> SUFFICES ASSUME Init PROVE Promise!Init
    OBVIOUS
  <2>1. answers = {} /\ ~command_queue_stall_for_itag /\ ~cqcsr.cqon /\ unreported = FALSE
    BY DEF Init
  <2>2. Todo = << >> /\ Outstanding = Promise!None
    BY <2>1, TodoOff, NoneOutstanding
  <2>3. QED
    BY <2>1, <2>2 DEF Promise!Init
<1>3. OrderInv /\ [Next]_vars
        => OrderInv' /\ [Promise!Next]_<<Todo, Outstanding, unreported>>
  BY NextInOrder DEF OrderStep
<1>4. QED
  BY <1>1, <1>2, <1>3, PTL DEF Spec, KeepsFenceOrder, Promise!Spec, Promise!vars

=============================================================================
