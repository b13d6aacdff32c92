------------------------- MODULE EventQueuesLogProofs ------------------------
(***************************************************************************)
(* The fault queue and the page-request queue implement EventLog, for any  *)
(* sizes, causes, requests and interrupts.                                 *)
(*                                                                         *)
(* Each function of a call is shown to let the log of the fault queue only *)
(* grow, and to end its growth with an error bit; what calls and register  *)
(* writes do to a queue is then one step of the log, or none.              *)
(***************************************************************************)
EXTENDS EventQueuesLog, EventQueuesProofs, SequenceTheorems

Broken(q) == q.mf \/ q.of

(* The records between head and tail, and where the i-th of them is.        *)
Unread(q)  == (q.tail - q.head) % q.size
Cell(q, i) == (q.head + i - 1) % q.size

(* Every unread record was written.                                         *)
Filled(q, name) ==
  q.on => \A i \in 1 .. Unread(q) : q.mem[Cell(q, i)] \in Entries(name)

Sane(q, name) == Well(q, name) /\ Filled(q, name)

-----------------------------------------------------------------------------
(* The arithmetic of the ring. *)

LEMMA RingMod ==
  ASSUME NEW n \in Nat \ {0}, NEW k \in Int, -n <= k, k < n + n
  PROVE  (k % n) = IF k < 0 THEN k + n ELSE IF k < n THEN k ELSE k - n
<1>1. (k % n) \in 0 .. n - 1 /\ k = n * (k \div n) + (k % n)
  OBVIOUS
<1> DEFINE q == k \div n
           r == k % n
<1>2. q \in Int /\ r \in 0 .. n - 1 /\ k = n * q + r
  BY <1>1
<1> HIDE DEF q, r
<1>3. CASE q <= -2
  <2>1. n * q <= -(n + n)
    BY <1>2, <1>3
  <2>2. QED
    BY <1>2, <2>1
<1>4. CASE q = -1
  BY <1>2, <1>4 DEF r
<1>5. CASE q = 0
  BY <1>2, <1>5 DEF r
<1>6. CASE q = 1
  BY <1>2, <1>6 DEF r
<1>7. CASE q >= 2
  <2>1. n * q >= n + n
    BY <1>2, <1>7
  <2>2. QED
    BY <1>2, <2>1
<1>8. QED
  BY <1>2, <1>3, <1>4, <1>5, <1>6, <1>7

(* Head, tail and the cells of a queue that is on. *)
LEMMA Ring ==
  ASSUME NEW name \in Queues, NEW q, Well(q, name), q.on
  PROVE  /\ q.size \in 2 .. Slots /\ Slots \in Nat
         /\ q.head \in 0 .. q.size - 1 /\ q.tail \in 0 .. q.size - 1
         /\ Unread(q) = IF q.tail < q.head THEN q.tail - q.head + q.size
                        ELSE q.tail - q.head
         /\ \A i \in 1 .. q.size :
              Cell(q, i) = IF q.head + i - 1 < q.size THEN q.head + i - 1
                           ELSE q.head + i - 1 - q.size
         /\ Following(q, q.head) = IF q.head + 1 = q.size THEN 0 ELSE q.head + 1
         /\ Following(q, q.tail) = IF q.tail + 1 = q.size THEN 0 ELSE q.tail + 1
<1>1. q.size \in 2 .. Slots /\ Slots \in Nat
  BY SizeFacts DEF Well, QueueState
<1>2. q.head \in 0 .. q.size - 1 /\ q.tail \in 0 .. q.size - 1
  BY <1>1 DEF Well, QueueState
<1> DEFINE n == q.size
           h == q.head
           t == q.tail
<1>3. n \in Nat \ {0} /\ h \in 0 .. n - 1 /\ t \in 0 .. n - 1
  BY <1>1, <1>2
<1> HIDE DEF n, h, t
<1>4. ((t - h) % n) = IF t < h THEN t - h + n ELSE t - h
  <2> DEFINE k == t - h
  <2>1. k \in Int /\ -n <= k /\ k < n + n /\ k < n /\ (k < 0 <=> t < h)
    BY <1>3
  <2> HIDE DEF k
  <2>2. (k % n) = IF k < 0 THEN k + n ELSE IF k < n THEN k ELSE k - n
    BY <1>3, <2>1, RingMod
  <2>3. QED
    BY <1>3, <2>1, <2>2 DEF k
<1>5. ASSUME NEW i \in 1 .. n
      PROVE  ((h + i - 1) % n) = IF h + i - 1 < n THEN h + i - 1 ELSE h + i - 1 - n
  <2> DEFINE k == h + i - 1
  <2>1. k \in Int /\ -n <= k /\ k < n + n /\ 0 <= k
    BY <1>3
  <2> HIDE DEF k
  <2>2. (k % n) = IF k < 0 THEN k + n ELSE IF k < n THEN k ELSE k - n
    BY <1>3, <2>1, RingMod
  <2>3. QED
    BY <1>3, <2>1, <2>2 DEF k
<1>6. \A i \in 0 .. n - 1 : ((i + 1) % n) = IF i + 1 = n THEN 0 ELSE i + 1
  <2> TAKE i \in 0 .. n - 1
  <2> DEFINE k == i + 1
  <2>1. k \in Int /\ -n <= k /\ k < n + n /\ 0 <= k /\ k <= n
    BY <1>3
  <2> HIDE DEF k
  <2>2. (k % n) = IF k < 0 THEN k + n ELSE IF k < n THEN k ELSE k - n
    BY <1>3, <2>1, RingMod
  <2>3. QED
    BY <1>3, <2>1, <2>2 DEF k
<1>7. QED
  BY <1>1, <1>2, <1>3, <1>4, <1>5, <1>6 DEF n, h, t, Unread, Cell, Following

(* The log a queue stands for. *)
LEMMA LogOff == ASSUME NEW q, ~q.on PROVE Log(q) = << >>
BY DEF Log

LEMMA LogOn ==
  ASSUME NEW name \in Queues, NEW q, Sane(q, name), q.on
  PROVE  /\ Log(q) \in Seq(Entries(name))
         /\ Len(Log(q)) = Unread(q)
         /\ Unread(q) \in Nat /\ Unread(q) < q.size
         /\ \A i \in 1 .. Unread(q) : Log(q)[i] = q.mem[Cell(q, i)]
<1>1. Unread(q) \in Nat /\ Unread(q) < q.size
  BY Ring DEF Sane
<1>2. Log(q) = [i \in 1 .. Unread(q) |-> q.mem[Cell(q, i)]]
  BY DEF Log, Unread, Cell
<1>3. \A i \in 1 .. Unread(q) : q.mem[Cell(q, i)] \in Entries(name)
  BY DEF Sane, Filled
<1> DEFINE n == Unread(q)
           f == [i \in 1 .. n |-> q.mem[Cell(q, i)]]
<1>4. n \in Nat /\ f \in [1 .. n -> Entries(name)]
  BY <1>1, <1>3
<1> HIDE DEF n
<1>5. f \in Seq(Entries(name)) /\ Len(f) = n
  BY <1>4
<1>6. QED
  BY <1>1, <1>2, <1>5 DEF n

LEMMA LenType ==
  ASSUME NEW name \in Queues, NEW q, Sane(q, name)
  PROVE  Len(Log(q)) \in Nat
<1>1. CASE q.on
  BY <1>1, LogOn
<1>2. CASE ~q.on
  BY <1>2, LogOff
<1>3. QED
  BY <1>1, <1>2

-----------------------------------------------------------------------------
(* What functions of a call do to the log: it grows at its end, and only if *)
(* the queue is on and has no error; what does not let it grow breaks it.   *)
Grows(q, r) ==
  /\ r.on = q.on
  /\ r # q => q.on /\ ~Broken(q) /\ (Broken(r) \/ Len(Log(q)) < Len(Log(r)))
  /\ Len(Log(q)) <= Len(Log(r))
  /\ \A i \in 1 .. Len(Log(q)) : Log(r)[i] = Log(q)[i]

LEMMA GrowsNot ==
  ASSUME NEW name \in Queues, NEW q, Sane(q, name)
  PROVE  Grows(q, q)
BY LenType DEF Grows

LEMMA GrowsOn ==
  ASSUME NEW name \in Queues, NEW q, NEW r, NEW t,
         Sane(q, name), Sane(r, name), Sane(t, name), Grows(q, r), Grows(r, t)
  PROVE  Grows(q, t)
<1>1. Len(Log(q)) \in Nat /\ Len(Log(r)) \in Nat /\ Len(Log(t)) \in Nat
  BY LenType
<1>2. \A i \in 1 .. Len(Log(q)) : Log(t)[i] = Log(q)[i]
  BY <1>1 DEF Grows
<1>3. t # q => q.on /\ ~Broken(q) /\ (Broken(t) \/ Len(Log(q)) < Len(Log(t)))
  <2>1. CASE r = q
    BY <2>1 DEF Grows
  <2>2. CASE r # q /\ t = r
    BY <2>2 DEF Grows
  <2>3. CASE r # q /\ t # r
    BY <1>1, <2>3 DEF Grows
  <2>4. QED
    BY <2>1, <2>2, <2>3
<1>4. QED
  BY <1>1, <1>2, <1>3 DEF Grows

(* A record that is stored is the newest of the log; one that is not breaks *)
(* it.                                                                      *)
LEMMA PutGrows ==
  ASSUME NEW s, Sound(s), NEW name \in Queues, NEW entry \in Entries(name),
         NEW bad \in FaultSet, Accepts(s.queue[name]), Sane(s.queue[name], name)
  PROVE  /\ Sane(Put(s, name, entry, bad).queue[name], name)
         /\ Grows(s.queue[name], Put(s, name, entry, bad).queue[name])
<1> DEFINE q == s.queue[name]
           p == Put(s, name, entry, bad).queue[name]
           u == [q EXCEPT !.mem[q.tail] = entry, !.tail = Following(q, q.tail)]
<1>1. /\ q \in QueueState(name) /\ Well(q, name) /\ q.on /\ ~Broken(q)
      /\ s \in CallState
  BY DEF Sound, Well, Accepts, Broken
<1>2. Well(p, name)
  BY PutQueue
<1>3. p = IF Full(q) THEN [q EXCEPT !.of = TRUE]
          ELSE IF q.tail \in bad[name] THEN [q EXCEPT !.mf = TRUE]
          ELSE u
  BY <1>1 DEF Put, CallState
<1>4. Sane(q, name)
  OBVIOUS
<1> HIDE DEF p, q
<1>5. CASE Full(q) \/ q.tail \in bad[name]
  <2>1. /\ p.on = q.on /\ p.head = q.head /\ p.tail = q.tail
        /\ p.size = q.size /\ p.mem = q.mem /\ Broken(p)
    BY <1>1, <1>3, <1>5 DEF QueueState, Broken
  <2>2. Log(p) = Log(q) /\ Filled(p, name)
    BY <1>4, <2>1 DEF Log, Sane, Filled, Unread, Cell
  <2>3. Len(Log(q)) \in Nat
    BY <1>4, LenType
  <2>4. Grows(q, p)
    BY <1>1, <2>1, <2>2, <2>3 DEF Grows
  <2>5. QED
    BY <1>2, <2>2, <2>4 DEF Sane, p, q
<1>6. CASE ~Full(q) /\ q.tail \notin bad[name]
  <2>1. p = u
    BY <1>3, <1>6
  <2>2. /\ p.on /\ p.head = q.head /\ p.size = q.size
        /\ p.tail = Following(q, q.tail) /\ p.tail # q.head
        /\ p.mem = [q.mem EXCEPT ![q.tail] = entry]
        /\ q.mem \in [0 .. Slots - 1 -> Entries(name) \cup {Blank}]
    BY <1>1, <1>6, <2>1 DEF QueueState, Full
  <2> HIDE DEF u
  <2> DEFINE n == q.size
             k == Unread(q)
  <2>3. /\ n \in 2 .. Slots /\ Slots \in Nat
        /\ q.head \in 0 .. n - 1 /\ q.tail \in 0 .. n - 1
        /\ k = IF q.tail < q.head THEN q.tail - q.head + n ELSE q.tail - q.head
        /\ \A i \in 1 .. n : Cell(q, i) = IF q.head + i - 1 < n THEN q.head + i - 1
                                          ELSE q.head + i - 1 - n
        /\ Following(q, q.tail) = IF q.tail + 1 = n THEN 0 ELSE q.tail + 1
    BY <1>1, Ring
  <2>4. Unread(p) = IF p.tail < q.head THEN p.tail - q.head + n ELSE p.tail - q.head
    <3>1. Unread(p) = IF p.tail < p.head THEN p.tail - p.head + p.size
                      ELSE p.tail - p.head
      BY <1>2, <2>2, Ring
    <3>2. QED
      BY <2>2, <3>1
  <2>5. \A i : Cell(p, i) = Cell(q, i)
    BY <2>2 DEF Cell
  <2> HIDE DEF n, k
  <2>6. k \in Nat /\ k + 1 < n /\ Unread(p) = k + 1
    <3> DEFINE h == q.head
               t == q.tail
               m == p.tail
    <3>1. /\ n \in Nat /\ 2 <= n /\ h \in 0 .. n - 1 /\ t \in 0 .. n - 1
          /\ m = IF t + 1 = n THEN 0 ELSE t + 1
          /\ m # h
          /\ k = IF t < h THEN t - h + n ELSE t - h
          /\ Unread(p) = IF m < h THEN m - h + n ELSE m - h
      BY <2>2, <2>3, <2>4
    <3> HIDE DEF h, t, m
    <3>2. QED
      BY <3>1
  <2>7. Cell(q, k + 1) = q.tail
    BY <2>3, <2>6
  <2>8. \A i \in 1 .. k : Cell(q, i) # q.tail /\ Cell(q, i) \in 0 .. Slots - 1
    BY <2>3, <2>6
  <2>9. q.tail \in 0 .. Slots - 1
    BY <2>3
  <2>10. \A i \in 1 .. k : p.mem[Cell(p, i)] = q.mem[Cell(q, i)]
    BY <2>2, <2>5, <2>8
  <2>11. p.mem[Cell(p, k + 1)] = entry
    BY <2>2, <2>5, <2>7, <2>9
  <2>12. Filled(p, name)
    <3>1. \A i \in 1 .. k : q.mem[Cell(q, i)] \in Entries(name)
      BY <1>1, <1>4 DEF Sane, Filled, k
    <3>2. \A i \in 1 .. k + 1 : p.mem[Cell(p, i)] \in Entries(name)
      BY <2>6, <2>10, <2>11, <3>1
    <3>3. QED
      BY <2>6, <3>2 DEF Filled
  <2>13. Sane(p, name)
    BY <1>2, <2>12 DEF Sane
  <2>14. /\ Len(Log(q)) = k /\ Len(Log(p)) = k + 1
         /\ \A i \in 1 .. k : Log(q)[i] = q.mem[Cell(q, i)]
         /\ \A i \in 1 .. k + 1 : Log(p)[i] = p.mem[Cell(p, i)]
    BY <1>1, <1>4, <2>2, <2>6, <2>13, LogOn DEF k
  <2>15. Grows(q, p)
    BY <1>1, <2>2, <2>6, <2>10, <2>14 DEF Grows
  <2>16. QED
    BY <2>13, <2>15 DEF p, q
<1>7. QED
  BY <1>5, <1>6


-----------------------------------------------------------------------------
(* The functions that may report a fault, one after the other.              *)

Ready(s) == Sound(s) /\ Sane(s.queue["FQ"], "FQ")

Grew(s, t) == /\ Ready(t)
              /\ t.queue["PQ"] = s.queue["PQ"]
              /\ Grows(s.queue["FQ"], t.queue["FQ"])

LEMMA GrewNot == ASSUME NEW s, Ready(s) PROVE Grew(s, s)
BY GrowsNot DEF Grew, Ready, Queues

LEMMA GrewOn ==
  ASSUME NEW s, NEW t, NEW u, Ready(s), Grew(s, t), Grew(t, u)
  PROVE  Grew(s, u)
<1>1. "FQ" \in Queues
  BY DEF Queues
<1>2. Grows(s.queue["FQ"], u.queue["FQ"])
  BY <1>1, GrowsOn DEF Grew, Ready
<1>3. QED
  BY <1>2 DEF Grew

(* A step of a call that leaves the queues alone. *)
LEMMA GrewQuiet ==
  ASSUME NEW s, NEW t, Ready(s), Sound(t), t.queue = s.queue
  PROVE  Grew(s, t)
BY GrowsNot DEF Grew, Ready, Queues

LEMMA PutGrew ==
  ASSUME NEW s, Ready(s), NEW cause \in CauseCodes, NEW bad \in FaultSet,
         Accepts(s.queue["FQ"])
  PROVE  Grew(s, Put(s, "FQ", cause, bad))
<1>1. /\ "FQ" \in Queues /\ "PQ" \in Queues /\ cause \in Entries("FQ")
      /\ s \in CallState /\ s.queue["FQ"] \in QueueState("FQ")
  BY DEF Queues, Entries, Ready, Sound, Well
<1>2. Sound(Put(s, "FQ", cause, bad))
  BY <1>1, PutSound DEF Ready
<1>3. Put(s, "FQ", cause, bad).queue["PQ"] = s.queue["PQ"]
  BY <1>1, PutEffect
<1>4. /\ Sane(Put(s, "FQ", cause, bad).queue["FQ"], "FQ")
      /\ Grows(s.queue["FQ"], Put(s, "FQ", cause, bad).queue["FQ"])
  BY <1>1, PutGrows DEF Ready
<1>5. QED
  BY <1>2, <1>3, <1>4 DEF Grew, Ready

LEMMA RaiseGrew ==
  ASSUME NEW s, Ready(s), NEW unit \in Units, icvec \in [Units -> Vectors]
  PROVE  Grew(s, Raise(s, unit))
<1>1. Sound(Raise(s, unit))
  BY RaiseSound DEF Ready
<1>2. Raise(s, unit).queue = s.queue
  BY RaiseEffect DEF Ready, Sound
<1>3. QED
  BY <1>1, <1>2, GrewQuiet

LEMMA AnnounceGrew ==
  ASSUME NEW s, Ready(s), NEW bad \in FaultSet, icvec \in [Units -> Vectors]
  PROVE  Grew(s, Announce(s, bad))
<1> DEFINE r == Raise(s, "FQ")
           p == Put(r, "FQ", MsiWriteFault, bad)
<1>1. Grew(s, r) /\ Ready(r) /\ Grew(s, s)
  BY RaiseGrew, GrewNot DEF Units, Grew
<1>2. MsiWriteFault \in CauseCodes
  BY DEF MsiWriteFault, CauseCodes
<1> HIDE DEF r
<1>3. Accepts(r.queue["FQ"]) => Grew(r, p)
  BY <1>1, <1>2, PutGrew
<1>4. Accepts(r.queue["FQ"]) => Grew(s, p)
  BY <1>1, <1>3, GrewOn
<1>5. \/ Announce(s, bad) = s \/ Announce(s, bad) = r
      \/ Accepts(r.queue["FQ"]) /\ Announce(s, bad) = p
  BY DEF Announce, r
<1> HIDE DEF p
<1>6. QED
  BY <1>1, <1>4, <1>5

LEMMA RecordedGrew ==
  ASSUME NEW s, Ready(s), NEW cause \in CauseCodes, NEW bad \in FaultSet,
         icvec \in [Units -> Vectors]
  PROVE  Grew(s, Recorded(s, cause, bad))
<1>1. CASE Accepts(s.queue["FQ"])
  <2> DEFINE p == Put(s, "FQ", cause, bad)
  <2>1. Grew(s, p)
    BY <1>1, PutGrew
  <2> HIDE DEF p
  <2>2. Grew(p, Announce(p, bad))
    BY <2>1, AnnounceGrew DEF Grew
  <2>3. QED
    BY <1>1, <2>1, <2>2, GrewOn DEF Recorded, p
<1>2. CASE ~Accepts(s.queue["FQ"])
  BY <1>2, GrewNot DEF Recorded
<1>3. QED
  BY <1>1, <1>2

LEMMA ReportGrew ==
  ASSUME NEW s, Ready(s), NEW cause \in CauseCodes, NEW dtf, NEW bad \in FaultSet,
         icvec \in [Units -> Vectors]
  PROVE  Grew(s, report_fault(s, cause, dtf, bad))
BY ReportIsRecorded, RecordedGrew, GrewNot

LEMMA GenerateGrew ==
  ASSUME NEW s, Ready(s), NEW unit \in Units, NEW bad \in FaultSet,
         icvec \in [Units -> Vectors]
  PROVE  Grew(s, generate_interrupt(s, unit, bad))
<1> DEFINE r == Raise(s, unit)
           f == report_fault(r, MsiWriteFault, FALSE, bad)
<1>1. Grew(s, r) /\ Ready(r) /\ Grew(s, s) /\ Grew(s, Announce(s, bad))
  BY RaiseGrew, GrewNot, AnnounceGrew DEF Grew
<1>2. MsiWriteFault \in CauseCodes
  BY DEF MsiWriteFault, CauseCodes
<1> HIDE DEF r
<1>3. Grew(r, f)
  BY <1>1, <1>2, ReportGrew
<1>4. Grew(s, f)
  BY <1>1, <1>3, GrewOn
<1>5. generate_interrupt(s, unit, bad) \in {s, r, f, Announce(s, bad)}
  BY DEF generate_interrupt, r
<1> HIDE DEF f
<1>6. QED
  BY <1>1, <1>4, <1>5

LEMMA ReleaseGrew ==
  ASSUME NEW s, Ready(s), NEW vec \in Vectors, NEW bad \in FaultSet,
         icvec \in [Units -> Vectors]
  PROVE  Grew(s, release_pending_interrupt(s, vec, bad))
<1> DEFINE sent == [s EXCEPT !.claim = [u \in Units |-> IF @[u] = vec THEN Told
                                                        ELSE @[u]]]
           told == IF vec \in bad.vec
                   THEN report_fault(sent, MsiWriteFault, FALSE, bad)
                   ELSE sent
           t == [told EXCEPT !.pend = @ \ {vec}]
<1>1. CASE vec \notin s.pend
  BY <1>1, GrewNot DEF release_pending_interrupt
<1>2. CASE vec \in s.pend
  <2>1. release_pending_interrupt(s, vec, bad) = t
    BY <1>2 DEF release_pending_interrupt
  <2>2. s \in CallState /\ Told \notin Vectors
    BY ConstantsAssumption DEF Ready, Sound
  <2>3. /\ sent \in CallState /\ sent.queue = s.queue /\ sent.ipsr = s.ipsr
        /\ sent.pend = s.pend
        /\ \A u \in Units : sent.claim[u] = IF s.claim[u] = vec THEN Told
                                            ELSE s.claim[u]
    BY <2>2 DEF CallState
  <2> HIDE DEF sent
  <2>4. Sound(sent)
    BY <2>2, <2>3 DEF Ready, Sound, Kept
  <2>5. Grew(s, sent) /\ Ready(sent)
    BY <2>3, <2>4, GrewQuiet DEF Grew
  <2>6. MsiWriteFault \in CauseCodes
    BY DEF MsiWriteFault, CauseCodes
  <2>7. Grew(sent, told)
    <3>1. Grew(sent, report_fault(sent, MsiWriteFault, FALSE, bad))
      BY <2>5, <2>6, ReportGrew
    <3>2. Grew(sent, sent)
      BY <2>5, GrewNot
    <3>3. QED
      BY <3>1, <3>2
  <2> HIDE DEF told
  <2>8. Grew(s, told) /\ told \in CallState
    BY <2>5, <2>7, GrewOn DEF Grew, Ready, Sound
  <2>9. t.queue = told.queue
    BY <2>8 DEF CallState
  <2>10. Sound(t)
    <3>1. Sound(release_pending_interrupt(s, vec, bad))
      BY ReleaseSound DEF Ready
    <3> HIDE DEF t
    <3>2. QED
      BY <2>1, <3>1
  <2>11. Grew(told, t)
    BY <2>8, <2>9, <2>10, GrewQuiet DEF Grew
  <2> HIDE DEF t
  <2>12. QED
    BY <2>1, <2>8, <2>11, GrewOn
<1>3. QED
  BY <1>1, <1>2

LEMMA AcknowledgeGrew ==
  ASSUME NEW s, Ready(s), NEW unit \in Units, NEW bad \in FaultSet,
         icvec \in [Units -> Vectors]
  PROVE  Grew(s, Acknowledge(s, unit, bad))
<1> DEFINE clear == [s EXCEPT !.ipsr = @ \ {unit}, !.claim[unit] = None]
<1>1. s \in CallState /\ Kept(s) /\ None \notin Vectors
  BY ConstantsAssumption DEF Ready, Sound
<1>2. /\ clear \in CallState /\ clear.queue = s.queue /\ clear.pend = s.pend
      /\ clear.ipsr = s.ipsr \ {unit}
      /\ clear.claim = [s.claim EXCEPT ![unit] = None]
  BY <1>1 DEF CallState
<1>3. Acknowledge(s, unit, bad) \in {clear, generate_interrupt(clear, unit, bad)}
  BY DEF Acknowledge
<1> HIDE DEF clear
<1>4. Kept(clear)
  BY <1>1, <1>2 DEF Kept, CallState
<1>5. Sound(clear)
  BY <1>2, <1>4 DEF Ready, Sound
<1>6. Grew(s, clear) /\ Ready(clear)
  BY <1>2, <1>5, GrewQuiet DEF Grew
<1>7. Grew(clear, generate_interrupt(clear, unit, bad))
  BY <1>6, GenerateGrew
<1>8. QED
  BY <1>3, <1>6, <1>7, GrewOn

-----------------------------------------------------------------------------
(* What a step does to one queue, as a step of the log it stands for.       *)

Still(q, r) == Log(r) = Log(q) /\ r.on = q.on /\ Broken(r) = Broken(q)

Reported(q, r, name) ==
  /\ q.on /\ ~Broken(q)
  /\ Len(Log(q)) <= Len(Log(r)) /\ Log(q) = SubSeq(Log(r), 1, Len(Log(q)))
  /\ \A i \in 1 .. Len(Log(r)) : Log(r)[i] \in Entries(name)
  /\ Log(r) # Log(q) \/ Broken(r)
  /\ r.on = q.on

Taken(q, r) ==
  /\ q.on /\ Log(q) # << >> /\ Log(r) = Tail(Log(q))
  /\ r.on = q.on /\ Broken(r) = Broken(q)

Repaired(q, r) ==
  Broken(q) /\ ~Broken(r) /\ Log(r) = Log(q) /\ r.on = q.on

TurnedOn(q, r) == ~q.on /\ r.on /\ Log(r) = << >> /\ ~Broken(r)

TurnedOff(q, r) ==
  q.on /\ ~r.on /\ Log(r) = << >> /\ (Broken(r) => Broken(q))

LogStep(q, r, name) ==
  \/ Still(q, r) \/ Reported(q, r, name) \/ Taken(q, r)
  \/ Repaired(q, r) \/ TurnedOn(q, r) \/ TurnedOff(q, r)

LEMMA StillStep == ASSUME NEW q, NEW name PROVE LogStep(q, q, name)
BY DEF LogStep, Still

(* Growth is a report. *)
LEMMA GrowsStep ==
  ASSUME NEW name \in Queues, NEW q, NEW r, Sane(q, name), Sane(r, name),
         Grows(q, r)
  PROVE  LogStep(q, r, name)
<1>1. CASE r = q
  BY <1>1, StillStep
<1>2. CASE r # q
  <2> DEFINE a == Log(q)
             b == Log(r)
             S == Entries(name)
  <2>1. /\ q.on /\ r.on /\ r.on = q.on /\ ~Broken(q)
        /\ Broken(r) \/ Len(a) < Len(b)
        /\ Len(a) <= Len(b) /\ \A i \in 1 .. Len(a) : b[i] = a[i]
    BY <1>2 DEF Grows
  <2>2. a \in Seq(S) /\ b \in Seq(S)
    BY <2>1, LogOn
  <2> HIDE DEF a, b, S
  <2>3. /\ Len(a) \in Nat /\ Len(b) \in Nat
        /\ \A i \in 1 .. Len(b) : b[i] \in S
    BY <2>2
  <2>4. /\ SubSeq(b, 1, Len(a)) \in Seq(S)
        /\ Len(SubSeq(b, 1, Len(a))) = Len(a)
        /\ \A i \in 1 .. Len(a) : SubSeq(b, 1, Len(a))[i] = b[i]
    <3> DEFINE m == Len(a)
    <3>1. m \in Nat /\ \A i \in 1 .. m : b[i] \in S
      BY <2>1, <2>3
    <3> HIDE DEF m
    <3>2. /\ SubSeq(b, 1, m) \in Seq(S)
          /\ Len(SubSeq(b, 1, m)) = IF 1 <= m THEN m - 1 + 1 ELSE 0
          /\ \A i \in 1 .. m - 1 + 1 : SubSeq(b, 1, m)[i] = b[1 + i - 1]
      BY <3>1, SubSeqProperties
    <3>3. QED
      BY <3>1, <3>2 DEF m
  <2>5. a = SubSeq(b, 1, Len(a))
    BY <2>1, <2>2, <2>4, SeqEqual
  <2>6. b # a \/ Broken(r)
    BY <2>1, <2>3
  <2>7. QED
    BY <2>1, <2>3, <2>5, <2>6 DEF LogStep, Reported, a, b, S
<1>3. QED
  BY <1>1, <1>2

-----------------------------------------------------------------------------
(* Register writes, as steps of the log.                                    *)

LEMMA BaseLog ==
  ASSUME NEW name \in Queues, NEW q, NEW r, ~q.on,
         r.on = q.on, r.mf = q.mf, r.of = q.of
  PROVE  Filled(r, name) /\ LogStep(q, r, name)
<1>1. Log(q) = << >> /\ Log(r) = << >>
  BY LogOff
<1>2. QED
  BY <1>1 DEF Filled, LogStep, Still, Broken

(* The head moves over the oldest record, which is blanked; the others stay *)
(* where they are.                                                          *)
LEMMA HeadLog ==
  ASSUME NEW name \in Queues, NEW q, Sane(q, name), q.on, q.head # q.tail,
         NEW r, Well(r, name),
         r.head = Following(q, q.head), r.mem = [q.mem EXCEPT ![q.head] = Blank],
         r.on = q.on, r.tail = q.tail, r.size = q.size, r.mf = q.mf, r.of = q.of
  PROVE  Filled(r, name) /\ LogStep(q, r, name)
<1>1. r.on /\ q.mem \in [0 .. Slots - 1 -> Entries(name) \cup {Blank}]
  BY DEF Sane, Well, QueueState
<1> DEFINE n == q.size
           k == Unread(q)
<1>2. /\ n \in 2 .. Slots /\ Slots \in Nat
      /\ q.head \in 0 .. n - 1 /\ q.tail \in 0 .. n - 1
      /\ k = IF q.tail < q.head THEN q.tail - q.head + n ELSE q.tail - q.head
      /\ \A i \in 1 .. n : Cell(q, i) = IF q.head + i - 1 < n THEN q.head + i - 1
                                        ELSE q.head + i - 1 - n
      /\ Following(q, q.head) = IF q.head + 1 = n THEN 0 ELSE q.head + 1
  BY Ring DEF Sane
<1>3. /\ r.head \in 0 .. n - 1
      /\ Unread(r) = IF q.tail < r.head THEN q.tail - r.head + n
                     ELSE q.tail - r.head
      /\ \A i \in 1 .. n : Cell(r, i) = IF r.head + i - 1 < n THEN r.head + i - 1
                                        ELSE r.head + i - 1 - n
  <2>1. /\ r.head \in 0 .. r.size - 1
        /\ Unread(r) = IF r.tail < r.head THEN r.tail - r.head + r.size
                       ELSE r.tail - r.head
        /\ \A i \in 1 .. r.size :
             Cell(r, i) = IF r.head + i - 1 < r.size THEN r.head + i - 1
                          ELSE r.head + i - 1 - r.size
    BY <1>1, Ring
  <2>2. QED
    BY <1>1, <2>1
<1> HIDE DEF n, k
<1> DEFINE h == q.head
           t == q.tail
           m == r.head
<1>4. /\ n \in Nat /\ 2 <= n /\ h \in 0 .. n - 1 /\ t \in 0 .. n - 1 /\ h # t
      /\ m = IF h + 1 = n THEN 0 ELSE h + 1
      /\ k = IF t < h THEN t - h + n ELSE t - h
      /\ Unread(r) = IF t < m THEN t - m + n ELSE t - m
      /\ \A i \in 1 .. n : Cell(q, i) = IF h + i - 1 < n THEN h + i - 1
                                        ELSE h + i - 1 - n
      /\ \A i \in 1 .. n : Cell(r, i) = IF m + i - 1 < n THEN m + i - 1
                                        ELSE m + i - 1 - n
  BY <1>1, <1>2, <1>3
<1> HIDE DEF h, t, m
<1>5. k \in Nat /\ 1 <= k /\ k < n /\ Unread(r) = k - 1
  BY <1>4
<1>6. \A i \in 1 .. k - 1 : /\ Cell(r, i) = Cell(q, i + 1)
                            /\ Cell(r, i) # h /\ Cell(r, i) \in 0 .. n - 1
  <2> SUFFICES ASSUME NEW i \in 1 .. k - 1
               PROVE  /\ Cell(r, i) = Cell(q, i + 1)
                      /\ Cell(r, i) # h /\ Cell(r, i) \in 0 .. n - 1
    OBVIOUS
  <2>1. i \in 1 .. n /\ i + 1 \in 1 .. n /\ i \in Nat
    BY <1>4, <1>5
  <2>2. /\ Cell(q, i + 1) = IF h + i < n THEN h + i ELSE h + i - n
        /\ Cell(r, i) = IF m + i - 1 < n THEN m + i - 1 ELSE m + i - 1 - n
    <3>1. Cell(q, i + 1) = IF h + (i + 1) - 1 < n THEN h + (i + 1) - 1
                           ELSE h + (i + 1) - 1 - n
      BY <1>4, <2>1
    <3>2. QED
      BY <1>4, <2>1, <3>1
  <2> DEFINE c == Cell(r, i)
             d == Cell(q, i + 1)
  <2>3. /\ c = IF m + i - 1 < n THEN m + i - 1 ELSE m + i - 1 - n
        /\ d = IF h + i < n THEN h + i ELSE h + i - n
        /\ m = IF h + 1 = n THEN 0 ELSE h + 1
        /\ n \in Nat /\ h \in Nat /\ h < n /\ i \in Nat /\ 1 <= i /\ i < n
    BY <1>4, <1>5, <2>1, <2>2
  <2> HIDE DEF c, d
  <2>4. c = d /\ c # h /\ c \in 0 .. n - 1
    BY <2>3
  <2>5. QED
    BY <2>4 DEF c, d
<1>7. \A i \in 1 .. k - 1 : r.mem[Cell(r, i)] = q.mem[Cell(q, i + 1)]
  <2> SUFFICES ASSUME NEW i \in 1 .. k - 1
               PROVE  r.mem[Cell(r, i)] = q.mem[Cell(q, i + 1)]
    OBVIOUS
  <2>1. Cell(r, i) = Cell(q, i + 1) /\ Cell(r, i) # q.head
    BY <1>6 DEF h
  <2>2. Cell(r, i) \in 0 .. Slots - 1
    BY <1>2, <1>6
  <2>3. QED
    BY <1>1, <2>1, <2>2
<1>8. Filled(r, name)
  <2>1. \A i \in 1 .. k : q.mem[Cell(q, i)] \in Entries(name)
    BY DEF Sane, Filled, k
  <2>2. \A i \in 1 .. k - 1 : r.mem[Cell(r, i)] \in Entries(name)
    <3>1. \A i \in 1 .. k - 1 : i + 1 \in 1 .. k
      BY <1>5
    <3>2. QED
      BY <1>7, <2>1, <3>1
  <2>3. QED
    BY <1>5, <2>2 DEF Filled
<1>9. Sane(r, name)
  BY <1>8 DEF Sane
<1> DEFINE a == Log(q)
           b == Log(r)
           S == Entries(name)
<1>10. /\ a \in Seq(S) /\ Len(a) = k
       /\ \A i \in 1 .. k : a[i] = q.mem[Cell(q, i)]
  BY LogOn DEF k
<1>11. /\ b \in Seq(S) /\ Len(b) = k - 1
       /\ \A i \in 1 .. k - 1 : b[i] = r.mem[Cell(r, i)]
  <2>1. /\ Log(r) \in Seq(Entries(name)) /\ Len(Log(r)) = Unread(r)
        /\ \A i \in 1 .. Unread(r) : Log(r)[i] = r.mem[Cell(r, i)]
    BY <1>1, <1>9, LogOn
  <2>2. QED
    BY <1>5, <2>1
<1> HIDE DEF a, b, S
<1>12. a # << >>
  BY <1>5, <1>10
<1>13. /\ Tail(a) \in Seq(S) /\ Len(Tail(a)) = k - 1
       /\ \A i \in 1 .. k - 1 : Tail(a)[i] = a[i + 1]
  BY <1>10, <1>12, HeadTailProperties
<1>14. \A i \in 1 .. k - 1 : b[i] = Tail(a)[i]
  <2>1. \A i \in 1 .. k - 1 : i + 1 \in 1 .. k
    BY <1>5
  <2>2. QED
    BY <1>7, <1>10, <1>11, <1>13, <2>1
<1>15. b = Tail(a)
  BY <1>11, <1>13, <1>14, SeqEqual
<1>16. QED
  BY <1>1, <1>8, <1>12, <1>15 DEF LogStep, Taken, Broken, a, b

(* Enabling starts an empty log, disabling ends it, and in between the      *)
(* control register repairs the log or leaves it alone.                     *)
LEMMA CsrLog ==
  ASSUME NEW name \in Queues, NEW q, Sane(q, name), NEW r, Well(r, name),
         NEW enable \in BOOLEAN, r.on = enable, r.head = q.head, r.size = q.size,
         enable /\ ~q.on => r.head = 0 /\ r.tail = 0 /\ ~Broken(r),
         enable /\ q.on => r.tail = q.tail /\ r.mem = q.mem,
         r.mf => q.mf, r.of => q.of
  PROVE  Filled(r, name) /\ LogStep(q, r, name)
<1>1. /\ q.on \in BOOLEAN /\ q.mf \in BOOLEAN /\ q.of \in BOOLEAN
      /\ r.on \in BOOLEAN /\ r.mf \in BOOLEAN /\ r.of \in BOOLEAN
  BY DEF Sane, Well, QueueState
<1>2. Broken(r) => Broken(q)
  BY DEF Broken
<1>3. Log(r) = Log(q) /\ r.on = q.on => LogStep(q, r, name)
  BY <1>1, <1>2 DEF LogStep, Still, Repaired, Broken
<1>4. CASE ~enable
  <2>1. ~r.on /\ Filled(r, name) /\ Log(r) = << >>
    BY <1>4, LogOff DEF Filled
  <2>2. CASE q.on
    BY <1>2, <2>1, <2>2 DEF LogStep, TurnedOff
  <2>3. CASE ~q.on
    <3>1. Log(q) = << >> /\ r.on = q.on
      BY <1>1, <2>1, <2>3, LogOff
    <3>2. QED
      BY <1>3, <2>1, <3>1
  <2>4. QED
    BY <2>1, <2>2, <2>3
<1>5. CASE enable /\ ~q.on
  <2>1. r.on /\ r.head = 0 /\ r.tail = 0 /\ ~Broken(r)
    BY <1>5
  <2>2. Unread(r) = 0
    BY <2>1, Ring
  <2>3. Filled(r, name)
    BY <2>2 DEF Filled
  <2>4. Log(r) \in Seq(Entries(name)) /\ Len(Log(r)) = 0
    BY <2>1, <2>2, <2>3, LogOn DEF Sane
  <2>5. Log(r) = << >>
    BY <2>4
  <2>6. QED
    BY <1>5, <2>1, <2>3, <2>5 DEF LogStep, TurnedOn
<1>6. CASE enable /\ q.on
  <2>1. /\ r.on = q.on /\ r.head = q.head /\ r.size = q.size
        /\ r.tail = q.tail /\ r.mem = q.mem
    BY <1>1, <1>6
  <2>2. Log(r) = Log(q) /\ Filled(r, name)
    BY <2>1 DEF Log, Sane, Filled, Unread, Cell
  <2>3. QED
    BY <1>3, <2>1, <2>2
<1>7. QED
  BY <1>4, <1>5, <1>6

-----------------------------------------------------------------------------
(* Every step of the specification.                                         *)

LogInv == IInv /\ \A name \in Queues : Filled(queue[name], name)

Logged ==
  \A name \in Queues : /\ Filled(queue'[name], name)
                       /\ LogStep(queue[name], queue'[name], name)

LEMMA ReadyNow ==
  ASSUME LogInv
  PROVE  /\ Ready(Now) /\ Sound(Now) /\ Now.queue = queue
         /\ icvec \in [Units -> Vectors]
         /\ queue \in [Queues -> QueueState("FQ") \cup QueueState("PQ")]
         /\ \A name \in Queues : Sane(queue[name], name)
BY InvTypes DEF LogInv, IInv, Environment, Ready, Sane, Queues

(* A call that does no more than report faults. *)
LEMMA GrewLog ==
  ASSUME LogInv, NEW t, Grew(Now, t), queue' = t.queue
  PROVE  Logged
<1>1. /\ Now.queue = queue /\ \A name \in Queues : Sane(queue[name], name)
      /\ "FQ" \in Queues /\ "PQ" \in Queues
  BY ReadyNow DEF Queues
<1>2. /\ queue'["PQ"] = queue["PQ"] /\ Sane(queue'["FQ"], "FQ")
      /\ Grows(queue["FQ"], queue'["FQ"])
  BY <1>1 DEF Grew, Ready
<1>3. LogStep(queue["FQ"], queue'["FQ"], "FQ")
  BY <1>1, <1>2, GrowsStep
<1>4. LogStep(queue["PQ"], queue'["PQ"], "PQ")
  BY <1>2, StillStep
<1>5. Filled(queue'["FQ"], "FQ") /\ Filled(queue'["PQ"], "PQ")
  BY <1>1, <1>2 DEF Sane
<1>6. QED
  BY <1>3, <1>4, <1>5 DEF Logged, Queues

LEMMA SameLog == ASSUME LogInv, queue' = queue PROVE Logged
BY StillStep DEF LogInv, Logged

LEMMA FaultLogged == ASSUME LogInv, TranslationFault PROVE Logged
<1>1. PICK cause \in Causes, dtf \in BOOLEAN, bad \in Faults({"FQ"}) :
        Install(report_fault(Now, cause, dtf, bad))
  BY DEF TranslationFault
<1>2. cause \in CauseCodes /\ bad \in FaultSet
  BY FaultsType, ConstantsAssumption DEF LogInv
<1>3. Grew(Now, report_fault(Now, cause, dtf, bad))
  BY <1>2, ReadyNow, ReportGrew
<1>4. QED
  BY <1>1, <1>3, GrewLog DEF Install

LEMMA RefusalLogged == ASSUME LogInv, RefusePageRequest PROVE Logged
<1>1. PICK refusal \in Refusals, bad \in Faults({"FQ"}) :
        Install(report_fault(Now, refusal.cause, refusal.dtf, bad))
  BY DEF RefusePageRequest
<1>2. refusal.cause \in CauseCodes /\ bad \in FaultSet
  BY FaultsType DEF LogInv, Refusals, CauseCodes
<1>3. Grew(Now, report_fault(Now, refusal.cause, refusal.dtf, bad))
  BY <1>2, ReadyNow, ReportGrew
<1>4. QED
  BY <1>1, <1>3, GrewLog DEF Install

LEMMA InterruptLogged == ASSUME LogInv, CommandEvent \/ CounterOverflow PROVE Logged
<1>1. PICK unit \in Units, bad \in Faults({"FQ"}) :
        Install(generate_interrupt(Now, unit, bad))
  BY DEF CommandEvent, CounterOverflow, Units
<1>2. bad \in FaultSet
  BY FaultsType DEF LogInv
<1>3. Grew(Now, generate_interrupt(Now, unit, bad))
  BY <1>2, ReadyNow, GenerateGrew
<1>4. QED
  BY <1>1, <1>3, GrewLog DEF Install

(* A page request grows the log of its own queue, and what its interrupt    *)
(* does grows that of the fault queue.                                      *)
LEMMA RequestLogged == ASSUME LogInv, QueuePageRequest PROVE Logged
<1> DEFINE q == queue["PQ"]
<1>1. PICK request \in Requests, bad \in Faults(Queues) :
        Install(IF Accepts(q)
                THEN generate_interrupt(Put(Now, "PQ", request, bad), "PQ", bad)
                ELSE Now)
  BY DEF QueuePageRequest
<1> DEFINE p == Put(Now, "PQ", request, bad)
           t == generate_interrupt(p, "PQ", bad)
<1>2. /\ bad \in FaultSet /\ "FQ" \in Queues /\ "PQ" \in Queues /\ "PQ" \in Units
      /\ request \in Entries("PQ")
  BY FaultsType, ConstantsAssumption DEF LogInv, Queues, Units, Entries
<1>3. /\ Ready(Now) /\ Sound(Now) /\ Now.queue = queue /\ Now \in CallState
      /\ Sane(q, "PQ") /\ Sane(queue["FQ"], "FQ") /\ q \in QueueState("PQ")
  BY <1>2, ReadyNow DEF Sound, Sane, Well
<1>4. CASE ~Accepts(q)
  <2>1. queue' = queue
    BY <1>1, <1>3, <1>4 DEF Install
  <2>2. QED
    BY <2>1, SameLog
<1>5. CASE Accepts(q)
  <2>1. queue' = t.queue
    BY <1>1, <1>5 DEF Install
  <2>2. Sound(p) /\ p.queue["FQ"] = queue["FQ"]
    BY <1>2, <1>3, <1>5, PutSound, PutEffect
  <2>3. Sane(p.queue["PQ"], "PQ") /\ Grows(q, p.queue["PQ"])
    BY <1>2, <1>3, <1>5, PutGrows
  <2> HIDE DEF p
  <2>4. Ready(p)
    BY <1>3, <2>2 DEF Ready
  <2>5. Grew(p, t)
    BY <1>2, <2>4, ReadyNow, GenerateGrew
  <2> HIDE DEF t
  <2>6. /\ queue'["PQ"] = p.queue["PQ"] /\ Sane(queue'["FQ"], "FQ")
        /\ Grows(queue["FQ"], queue'["FQ"])
    BY <2>1, <2>2, <2>5 DEF Grew, Ready
  <2>7. LogStep(queue["FQ"], queue'["FQ"], "FQ")
    BY <1>2, <1>3, <2>6, GrowsStep
  <2>8. LogStep(queue["PQ"], queue'["PQ"], "PQ")
    BY <1>2, <1>3, <2>3, <2>6, GrowsStep
  <2>9. QED
    BY <2>3, <2>6, <2>7, <2>8 DEF Logged, Queues, Sane
<1>6. QED
  BY <1>4, <1>5

LEMMA VecCtrlLogged ==
  ASSUME LogInv, NEW vec \in Vectors, NEW m, NEW bad \in Faults({"FQ"}),
         WriteVecCtrl(vec, m, bad)
  PROVE  Logged
<1>1. bad \in FaultSet
  BY FaultsType DEF LogInv
<1>2. Grew(Now, release_pending_interrupt(Now, vec, bad)) /\ Grew(Now, Now)
  BY <1>1, ReadyNow, ReleaseGrew, GrewNot
<1>3. \/ Install(release_pending_interrupt(Now, vec, bad))
      \/ Install(Now)
  BY DEF WriteVecCtrl
<1>4. QED
  BY <1>2, <1>3, GrewLog DEF Install

LEMMA IpsrLogged ==
  ASSUME LogInv, NEW ack, NEW bad \in Faults({"FQ"}), WriteIpsr(ack, bad)
  PROVE  Logged
<1> DEFINE Ack(s, unit) == IF unit \in ack THEN Acknowledge(s, unit, bad) ELSE s
           s1 == Ack(Now, "CQ")
           s2 == Ack(s1, "FQ")
           s3 == Ack(s2, "PQ")
           s4 == Ack(s3, "PM")
<1>1. /\ Ready(Now) /\ bad \in FaultSet /\ icvec \in [Units -> Vectors]
      /\ {"CQ", "FQ", "PQ", "PM"} \subseteq Units
  BY FaultsType, ReadyNow DEF LogInv, Units
<1>2. ASSUME NEW s, Ready(s), NEW unit \in Units
      PROVE  Grew(s, Ack(s, unit)) /\ Ready(Ack(s, unit))
  <2>1. Grew(s, Acknowledge(s, unit, bad)) /\ Grew(s, s)
    BY <1>1, <1>2, AcknowledgeGrew, GrewNot
  <2>2. Grew(s, Ack(s, unit))
    BY <2>1
  <2> HIDE DEF Ack
  <2>3. QED
    BY <2>2 DEF Grew
<1>3. queue' = s4.queue
  BY DEF WriteIpsr, Install
<1> HIDE DEF Ack
<1>4. Grew(Now, s1) /\ Ready(s1)
  BY <1>1, <1>2
<1> HIDE DEF s1
<1>5. Grew(s1, s2) /\ Ready(s2)
  BY <1>1, <1>2, <1>4
<1> HIDE DEF s2
<1>6. Grew(s2, s3) /\ Ready(s3)
  BY <1>1, <1>2, <1>5
<1> HIDE DEF s3
<1>7. Grew(s3, s4)
  BY <1>1, <1>2, <1>6
<1> HIDE DEF s4
<1>8. Grew(Now, s2)
  BY <1>1, <1>4, <1>5, GrewOn
<1>9. Grew(Now, s3)
  BY <1>1, <1>6, <1>8, GrewOn
<1>10. Grew(Now, s4)
  BY <1>1, <1>7, <1>9, GrewOn
<1>11. QED
  BY <1>3, <1>10, GrewLog

(* Writes to the registers of one queue. *)
LEMMA OneQueueLogged ==
  ASSUME LogInv, NEW name \in Queues, NEW r, queue' = [queue EXCEPT ![name] = r],
         Filled(r, name), LogStep(queue[name], r, name)
  PROVE  Logged
<1>1. \A other \in Queues : queue'[other] = IF other = name THEN r ELSE queue[other]
  BY ReadyNow
<1>2. \A other \in Queues : Filled(queue[other], other)
  BY DEF LogInv
<1>3. QED
  BY <1>1, <1>2, StillStep DEF Logged

LEMMA BaseLogged ==
  ASSUME LogInv, NEW name \in Queues, NEW size \in Sizes[name],
         WriteBase(name, size)
  PROVE  Logged
<1> DEFINE r == [queue[name] EXCEPT !.size = size, !.head = 0]
<1>1. /\ ~queue[name].on /\ queue[name] \in QueueState(name)
      /\ r.on = queue[name].on /\ r.mf = queue[name].mf /\ r.of = queue[name].of
  BY ReadyNow DEF WriteBase, Sane, Well, QueueState
<1>2. Filled(r, name) /\ LogStep(queue[name], r, name)
  BY <1>1, BaseLog
<1>3. queue' = [queue EXCEPT ![name] = r]
  BY ReadyNow DEF WriteBase
<1> HIDE DEF r
<1>4. QED
  BY <1>2, <1>3, OneQueueLogged

LEMMA HeadLogged ==
  ASSUME LogInv, IInv', NEW name \in Queues, WriteHead(name)
  PROVE  Logged
<1> DEFINE q == queue[name]
           r == [q EXCEPT !.head = Following(q, q.head), !.mem[q.head] = Blank]
<1>1. /\ Sane(q, name) /\ q.on /\ q.head # q.tail /\ q \in QueueState(name)
      /\ queue \in [Queues -> QueueState("FQ") \cup QueueState("PQ")]
  BY ReadyNow DEF WriteHead, Sane, Well
<1>2. queue' = [queue EXCEPT ![name] = r]
  BY <1>1 DEF WriteHead
<1>3. Well(r, name)
  <2>1. Well(queue'[name], name)
    BY DEF IInv, Sound, Now
  <2>2. QED
    BY <1>1, <1>2, <2>1
<1>4. /\ r.head = Following(q, q.head) /\ r.mem = [q.mem EXCEPT ![q.head] = Blank]
      /\ r.on = q.on /\ r.tail = q.tail /\ r.size = q.size
      /\ r.mf = q.mf /\ r.of = q.of
  BY <1>1 DEF QueueState
<1> HIDE DEF q, r
<1>5. Filled(r, name) /\ LogStep(q, r, name)
  BY <1>1, <1>3, <1>4, HeadLog
<1>6. QED
  BY <1>2, <1>5, OneQueueLogged DEF q

LEMMA CsrLogged ==
  ASSUME LogInv, IInv', NEW name \in Queues, NEW enable \in BOOLEAN,
         NEW ie \in BOOLEAN, NEW ack, WriteCsr(name, enable, ie, ack)
  PROVE  Logged
<1> DEFINE q   == queue[name]
           new == enable /\ ~q.on
           r   == [q EXCEPT !.on = enable, !.ie = ie,
                    !.tail = IF new THEN 0 ELSE @,
                    !.mf = @ /\ ~new /\ "mf" \notin ack,
                    !.of = @ /\ ~new /\ "of" \notin ack,
                    !.mem = IF enable THEN @ ELSE NoEntries]
<1>1. /\ Sane(q, name) /\ q \in QueueState(name) /\ (new => q.head = 0)
      /\ queue \in [Queues -> QueueState("FQ") \cup QueueState("PQ")]
  BY ReadyNow DEF WriteCsr, Sane, Well
<1>2. queue' = [queue EXCEPT ![name] = r]
  BY <1>1 DEF WriteCsr
<1>3. Well(r, name)
  <2>1. Well(queue'[name], name)
    BY DEF IInv, Sound, Now
  <2> HIDE DEF r
  <2>2. QED
    BY <1>1, <1>2, <2>1
<1>4. /\ r.on = enable /\ r.head = q.head /\ r.size = q.size
      /\ r.tail = IF new THEN 0 ELSE q.tail
      /\ r.mf = (q.mf /\ ~new /\ "mf" \notin ack)
      /\ r.of = (q.of /\ ~new /\ "of" \notin ack)
      /\ r.mem = IF enable THEN q.mem ELSE NoEntries
  BY <1>1 DEF QueueState
<1> HIDE DEF r
<1>5. /\ enable /\ ~q.on => r.head = 0 /\ r.tail = 0 /\ ~Broken(r)
      /\ enable /\ q.on => r.tail = q.tail /\ r.mem = q.mem
      /\ (r.mf => q.mf) /\ (r.of => q.of)
  BY <1>1, <1>4 DEF Broken
<1> HIDE DEF q
<1>6. Filled(r, name) /\ LogStep(q, r, name)
  BY <1>1, <1>3, <1>4, <1>5, CsrLog
<1>7. QED
  BY <1>2, <1>6, OneQueueLogged DEF q

LEMMA NextLogged == ASSUME LogInv, [Next]_vars PROVE LogInv' /\ Logged
<1>1. IInv'
  BY NextStep DEF LogInv
<1>2. InUse \subseteq Queues /\ IeWrites \subseteq BOOLEAN
  BY ConstantsAssumption DEF InUse, Queues
<1>3. Logged
  <2>1. CASE TranslationFault
    BY <2>1, FaultLogged
  <2>2. CASE handle_page_request
    BY <2>2, RefusalLogged, RequestLogged DEF handle_page_request
  <2>3. CASE CommandEvent \/ CounterOverflow
    BY <2>3, InterruptLogged
  <2>4. CASE \E name \in InUse : \E size \in Sizes[name] : WriteBase(name, size)
    BY <1>2, <2>4, BaseLogged
  <2>5. CASE \E name \in InUse : WriteHead(name)
    BY <1>1, <1>2, <2>5, HeadLogged
  <2>6. CASE \E name \in InUse, enable \in BOOLEAN, ie \in IeWrites,
                ack \in AckWrites : WriteCsr(name, enable, ie, ack)
    BY <1>1, <1>2, <2>6, CsrLogged
  <2>7. CASE \/ \E cie \in IeWrites, ack \in BOOLEAN :
                  "CQ" \in Active /\ WriteCqcsr(cie, ack)
             \/ \E map \in Maps : WriteIcvec(map)
    <3>1. queue' = queue
      BY <2>7 DEF WriteCqcsr, WriteIcvec
    <3>2. QED
      BY <3>1, SameLog
  <2>8. CASE \E ack \in SUBSET ipsr, bad \in Faults({"FQ"}) : WriteIpsr(ack, bad)
    BY <2>8, IpsrLogged
  <2>9. CASE \E vec \in Vectors, m \in BOOLEAN, bad \in Faults({"FQ"}) :
               ~Wired /\ WriteVecCtrl(vec, m, bad)
    BY <2>9, VecCtrlLogged
  <2>10. CASE UNCHANGED vars
    <3>1. queue' = queue
      BY <2>10 DEF vars
    <3>2. QED
      BY <3>1, SameLog
  <2>11. QED
    BY <2>1, <2>2, <2>3, <2>4, <2>5, <2>6, <2>7, <2>8, <2>9, <2>10
    DEF Next, Software
<1>4. LogInv'
  BY <1>1, <1>3 DEF LogInv, Logged
<1>5. QED
  BY <1>3, <1>4

LEMMA InitLogged == Init => LogInv
BY InitInv DEF Init, LogInv, Filled, Queues

-----------------------------------------------------------------------------
(* The fault queue is a log: what software reads at its head is what was    *)
(* reported, in that order, with no gap but behind an error bit, whatever   *)
(* its size, however many records one call stores, and however software     *)
(* turns the queue off, resizes it and repairs it.                          *)
THEOREM FaultLogKept == Spec => KeepsFaultLog
<1>1. Init => FaultLog!Init
  BY LogOff DEF Init, FaultLog!Init, Queues
<1>2. LogInv /\ [Next]_vars => LogInv' /\ [FaultLog!Next]_<<Log(queue["FQ"]),
        queue["FQ"].on, queue["FQ"].mf \/ queue["FQ"].of>>
  <2> SUFFICES ASSUME LogInv, [Next]_vars
               PROVE  LogInv' /\ [FaultLog!Next]_<<Log(queue["FQ"]),
                        queue["FQ"].on, queue["FQ"].mf \/ queue["FQ"].of>>
    OBVIOUS
  <2>1. LogInv' /\ LogStep(queue["FQ"], queue'["FQ"], "FQ")
    BY NextLogged DEF Logged, Queues
  <2>2. QED
    BY <2>1 DEF LogStep, Still, Reported, Taken, Repaired, TurnedOn, TurnedOff,
       Broken, Entries, FaultLog!Next, FaultLog!Report, FaultLog!Take,
       FaultLog!Repair, FaultLog!TurnOn, FaultLog!TurnOff
<1>3. QED
  BY InitLogged, <1>1, <1>2, PTL DEF Spec, KeepsFaultLog, FaultLog!Spec

(* The page-request queue is one too. *)
THEOREM PageLogKept == Spec => KeepsPageLog
<1>1. Init => PageLog!Init
  BY LogOff DEF Init, PageLog!Init, Queues
<1>2. LogInv /\ [Next]_vars => LogInv' /\ [PageLog!Next]_<<Log(queue["PQ"]),
        queue["PQ"].on, queue["PQ"].mf \/ queue["PQ"].of>>
  <2> SUFFICES ASSUME LogInv, [Next]_vars
               PROVE  LogInv' /\ [PageLog!Next]_<<Log(queue["PQ"]),
                        queue["PQ"].on, queue["PQ"].mf \/ queue["PQ"].of>>
    OBVIOUS
  <2>1. LogInv' /\ LogStep(queue["PQ"], queue'["PQ"], "PQ")
    BY NextLogged DEF Logged, Queues
  <2>2. QED
    BY <2>1 DEF LogStep, Still, Reported, Taken, Repaired, TurnedOn, TurnedOff,
       Broken, Entries, PageLog!Next, PageLog!Report, PageLog!Take,
       PageLog!Repair, PageLog!TurnOn, PageLog!TurnOff
<1>3. QED
  BY InitLogged, <1>1, <1>2, PTL DEF Spec, KeepsPageLog, PageLog!Spec
=============================================================================
