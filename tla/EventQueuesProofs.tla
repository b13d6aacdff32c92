-------------------------- MODULE EventQueuesProofs --------------------------
(***************************************************************************)
(* Proofs about EventQueues for every choice of its constants.  A step of  *)
(* the specification is one call of the model, which may run through       *)
(* several functions; what is proved of each function is that it keeps the *)
(* state of the call sound, and that it pends what it stores.              *)
(***************************************************************************)
EXTENDS EventQueues, TLAPS

(* A queue is well formed and has at most one error. *)
Well(q, name) ==
  /\ q \in QueueState(name)
  /\ q.head < q.size
  /\ q.on => q.tail < q.size
  /\ ~(q.mf /\ q.of)

CallState ==
  [queue : [Queues -> QueueState("FQ") \cup QueueState("PQ")],
   ipsr : SUBSET Units, pend : SUBSET Vectors,
   claim : [Units -> Vectors \cup {None, Told}]]

(* What a masked vector withheld from a unit other than the fault queue is  *)
(* still pending.                                                           *)
Kept(s) == \A u \in Units \ {"FQ"} :
             u \in s.ipsr /\ s.claim[u] \in Vectors => s.claim[u] \in s.pend

Sound(s) ==
  /\ s \in CallState
  /\ \A name \in Queues : Well(s.queue[name], name)
  /\ Kept(s)

Environment ==
  /\ masked \subseteq Vectors
  /\ icvec \in [Units -> Vectors]
  /\ cqcsr \in [cie : BOOLEAN, err : BOOLEAN]
  /\ exchange \in [request : Requests \cup {None}, response : Responses \cup {None}]

IInv == Sound(Now) /\ Environment

FaultSet == [vec : SUBSET Vectors, FQ : SUBSET (0 .. Slots - 1),
             PQ : SUBSET (0 .. Slots - 1)]

-----------------------------------------------------------------------------
(* The functions of a call keep it sound. *)

LEMMA SizeFacts ==
  ASSUME NEW name \in Queues
  PROVE  /\ Slots \in Nat
         /\ \A n \in Sizes[name] : n \in 2 .. Slots
         /\ 2 \in Sizes[name]
BY ConstantsAssumption

(* An index that follows stays inside the queue. *)
LEMMA FollowingType ==
  ASSUME NEW name \in Queues, NEW q \in QueueState(name),
         NEW i \in 0 .. Slots - 1
  PROVE  Following(q, i) \in 0 .. Slots - 1 /\ Following(q, i) < q.size
<1>1. q.size \in 2 .. Slots /\ Slots \in Nat
  BY SizeFacts DEF QueueState
<1>2. QED
  BY <1>1 DEF Following

(* Whatever happens to the store, the queue stays well formed. *)
LEMMA PutQueue ==
  ASSUME NEW s, Sound(s), NEW name \in Queues, NEW entry \in Entries(name),
         NEW bad \in FaultSet, Accepts(s.queue[name])
  PROVE  Put(s, name, entry, bad).queue[name] \in QueueState(name)
         /\ Well(Put(s, name, entry, bad).queue[name], name)
<1> DEFINE q == s.queue[name]
<1>1. q \in QueueState(name) /\ Well(q, name) /\ q.on /\ ~q.mf /\ ~q.of
  BY DEF Sound, Well, Accepts
<1>2. s \in CallState
  BY DEF Sound
<1>3. Following(q, q.tail) \in 0 .. Slots - 1 /\ Following(q, q.tail) < q.size
  BY <1>1, FollowingType DEF QueueState
<1>4. Put(s, name, entry, bad).queue[name] =
        IF Full(q) THEN [q EXCEPT !.of = TRUE]
        ELSE IF q.tail \in bad[name] THEN [q EXCEPT !.mf = TRUE]
        ELSE [q EXCEPT !.mem[q.tail] = entry, !.tail = Following(q, q.tail)]
  BY <1>2 DEF Put, CallState
<1>5. Well([q EXCEPT !.of = TRUE], name)
  BY <1>1 DEF Well, QueueState
<1>6. Well([q EXCEPT !.mf = TRUE], name)
  BY <1>1 DEF Well, QueueState
<1>7. Well([q EXCEPT !.mem[q.tail] = entry, !.tail = Following(q, q.tail)], name)
  BY <1>1, <1>3 DEF Well, QueueState
<1>8. QED
  BY <1>4, <1>5, <1>6, <1>7 DEF Well

LEMMA PutSound ==
  ASSUME NEW s, Sound(s), NEW name \in Queues, NEW entry \in Entries(name),
         NEW bad \in FaultSet, Accepts(s.queue[name])
  PROVE  Sound(Put(s, name, entry, bad))
<1> DEFINE t == Put(s, name, entry, bad)
<1>1. s \in CallState
  BY DEF Sound
<1>2. Well(t.queue[name], name) /\ t.queue[name] \in QueueState(name)
  BY PutQueue
<1>3. t = [s EXCEPT !.queue = [s.queue EXCEPT ![name] = t.queue[name]]]
  BY <1>1 DEF Put, CallState
<1> HIDE DEF t
<1>4. QueueState(name) \subseteq QueueState("FQ") \cup QueueState("PQ")
  BY DEF Queues
<1>5. t \in CallState
  BY <1>1, <1>2, <1>3, <1>4 DEF CallState
<1>6. \A other \in Queues : Well(t.queue[other], other)
  BY <1>1, <1>2, <1>3 DEF Sound, CallState
<1>7. t.ipsr = s.ipsr /\ t.pend = s.pend /\ t.claim = s.claim
  BY <1>1, <1>3 DEF CallState
<1>8. Kept(t)
  BY <1>7 DEF Sound, Kept
<1>9. QED
  BY <1>5, <1>6, <1>8 DEF Sound, t

LEMMA RaiseSound ==
  ASSUME NEW s, Sound(s), NEW unit \in Units, icvec \in [Units -> Vectors]
  PROVE  Sound(Raise(s, unit))
<1> DEFINE vec == icvec[unit]
           withheld == [s EXCEPT !.ipsr = @ \cup {unit}, !.pend = @ \cup {vec},
                                 !.claim[unit] = vec]
           sent == [s EXCEPT !.ipsr = @ \cup {unit}, !.claim[unit] = Told]
<1>1. s \in CallState /\ Kept(s)
  BY DEF Sound
<1>2. vec \in Vectors /\ Told \notin Vectors
  BY ConstantsAssumption
<1>3. Sound(withheld)
  <2>1. /\ withheld \in CallState
        /\ withheld.queue = s.queue
        /\ withheld.ipsr = s.ipsr \cup {unit}
        /\ withheld.pend = s.pend \cup {vec}
        /\ withheld.claim = [s.claim EXCEPT ![unit] = vec]
    BY <1>1, <1>2 DEF CallState
  <2>2. Kept(withheld)
    BY <1>1, <2>1 DEF Kept, CallState
  <2>3. QED
    BY <2>1, <2>2 DEF Sound
<1>4. Sound(sent)
  <2>1. /\ sent \in CallState
        /\ sent.queue = s.queue
        /\ sent.ipsr = s.ipsr \cup {unit}
        /\ sent.pend = s.pend
        /\ sent.claim = [s.claim EXCEPT ![unit] = Told]
    BY <1>1 DEF CallState
  <2>2. Kept(sent)
    BY <1>1, <1>2, <2>1 DEF Kept, CallState
  <2>3. QED
    BY <2>1, <2>2 DEF Sound
<1>5. QED
  BY <1>3, <1>4 DEF Raise

LEMMA MsiFaultIsEntry == MsiWriteFault \in Entries("FQ")
BY DEF MsiWriteFault, Entries, CauseCodes

LEMMA AnnounceSound ==
  ASSUME NEW s, Sound(s), NEW bad \in FaultSet, icvec \in [Units -> Vectors]
  PROVE  Sound(Announce(s, bad))
<1>1. Sound(Raise(s, "FQ"))
  BY RaiseSound DEF Units
<1>2. Accepts(Raise(s, "FQ").queue["FQ"]) =>
        Sound(Put(Raise(s, "FQ"), "FQ", MsiWriteFault, bad))
  BY <1>1, PutSound, MsiFaultIsEntry DEF Queues
<1>3. QED
  BY <1>1, <1>2 DEF Announce

(* report_fault once DTF did not silence the fault. *)
Recorded(s, cause, bad) ==
  IF Accepts(s.queue["FQ"]) THEN Announce(Put(s, "FQ", cause, bad), bad) ELSE s

LEMMA ReportIsRecorded ==
  ASSUME NEW s, NEW cause, NEW dtf, NEW bad
  PROVE  \/ report_fault(s, cause, dtf, bad) = s
         \/ report_fault(s, cause, dtf, bad) = Recorded(s, cause, bad)
BY DEF report_fault, Recorded

LEMMA RecordedSound ==
  ASSUME NEW s, Sound(s), NEW cause \in CauseCodes,
         NEW bad \in FaultSet, icvec \in [Units -> Vectors]
  PROVE  Sound(Recorded(s, cause, bad))
<1>1. ASSUME Accepts(s.queue["FQ"])
      PROVE  Sound(Announce(Put(s, "FQ", cause, bad), bad))
  <2>1. cause \in Entries("FQ") /\ "FQ" \in Queues
    BY DEF Entries, Queues
  <2>2. Sound(Put(s, "FQ", cause, bad))
    BY <1>1, <2>1, PutSound
  <2>3. QED
    BY <2>2, AnnounceSound
<1>2. QED
  BY <1>1 DEF Recorded

LEMMA GenerateSound ==
  ASSUME NEW s, Sound(s), NEW unit \in Units, NEW bad \in FaultSet,
         icvec \in [Units -> Vectors]
  PROVE  Sound(generate_interrupt(s, unit, bad))
<1>1. Sound(Announce(s, bad))
  BY AnnounceSound
<1>2. Sound(Raise(s, unit))
  BY RaiseSound
<1>3. MsiWriteFault \in CauseCodes
  BY DEF MsiWriteFault, CauseCodes
<1>4. Sound(report_fault(Raise(s, unit), MsiWriteFault, FALSE, bad))
  <2>1. Sound(Recorded(Raise(s, unit), MsiWriteFault, bad))
    BY <1>2, <1>3, RecordedSound
  <2>2. QED
    BY <2>1 DEF report_fault, Recorded
<1>5. QED
  BY <1>1, <1>2, <1>4 DEF generate_interrupt

-----------------------------------------------------------------------------
(* What the functions of a call do to the interrupts.                       *)

(* Only the fault queue may change, and if it does and fie is set, then fip *)
(* is set; no pending bit is lost.                                          *)
Loud(s, t) ==
  /\ t.queue["PQ"] = s.queue["PQ"]
  /\ t.queue["FQ"].ie = s.queue["FQ"].ie
  /\ t.queue["FQ"] # s.queue["FQ"] /\ t.queue["FQ"].ie => "FQ" \in t.ipsr
  /\ s.ipsr \subseteq t.ipsr

SameClaims(s, t) == \A u \in Units \ {"FQ"} : t.claim[u] = s.claim[u]

LEMMA PutEffect ==
  ASSUME NEW s \in CallState, NEW name \in Queues, NEW entry, NEW bad,
         s.queue[name] \in QueueState(name)
  PROVE  LET t == Put(s, name, entry, bad)
         IN /\ t.ipsr = s.ipsr /\ t.pend = s.pend /\ t.claim = s.claim
            /\ \A other \in Queues \ {name} : t.queue[other] = s.queue[other]
            /\ t.queue[name].ie = s.queue[name].ie
<1> DEFINE q == s.queue[name]
           r == IF Full(q) THEN [q EXCEPT !.of = TRUE]
                ELSE IF q.tail \in bad[name] THEN [q EXCEPT !.mf = TRUE]
                ELSE [q EXCEPT !.mem[q.tail] = entry, !.tail = Following(q, q.tail)]
<1>1. Put(s, name, entry, bad) = [s EXCEPT !.queue[name] = r]
  BY DEF Put
<1>2. r.ie = q.ie
  BY DEF QueueState
<1> HIDE DEF r
<1>3. QED
  BY <1>1, <1>2 DEF CallState

LEMMA RaiseEffect ==
  ASSUME NEW s \in CallState, NEW unit \in Units
  PROVE  LET t == Raise(s, unit)
         IN /\ t.queue = s.queue
            /\ t.ipsr = s.ipsr \cup {unit}
            /\ \A u \in Units \ {unit} : t.claim[u] = s.claim[u]
BY DEF Raise, CallState

LEMMA AnnounceEffect ==
  ASSUME NEW s, Sound(s), NEW bad \in FaultSet, icvec \in [Units -> Vectors]
  PROVE  /\ Loud(s, Announce(s, bad))
         /\ SameClaims(s, Announce(s, bad))
         /\ s.queue["FQ"].ie => "FQ" \in Announce(s, bad).ipsr
<1> DEFINE r == Raise(s, "FQ")
           p == Put(r, "FQ", MsiWriteFault, bad)
<1>1. s \in CallState /\ "FQ" \in Units /\ {"FQ", "PQ"} \subseteq Queues
  BY DEF Sound, Units, Queues
<1>2. /\ r.queue = s.queue /\ r.ipsr = s.ipsr \cup {"FQ"}
      /\ SameClaims(s, r)
  BY <1>1, RaiseEffect DEF SameClaims
<1>3. Sound(r) /\ r \in CallState /\ r.queue["FQ"] \in QueueState("FQ")
  BY <1>1, RaiseSound DEF Sound, Well
<1> HIDE DEF r
<1>4. /\ p.ipsr = r.ipsr /\ p.claim = r.claim
      /\ p.queue["PQ"] = r.queue["PQ"] /\ p.queue["FQ"].ie = r.queue["FQ"].ie
  BY <1>1, <1>3, PutEffect
<1> HIDE DEF p
<1>5. CASE ~Raises(s, "FQ")
  <2>1. Announce(s, bad) = s
    BY <1>5 DEF Announce
  <2>2. s.queue["FQ"].ie => "FQ" \in s.ipsr
    BY <1>1, <1>5 DEF Raises, Enabled
  <2>3. QED
    BY <2>1, <2>2 DEF Loud, SameClaims
<1>6. CASE Raises(s, "FQ")
  <2>1. Announce(s, bad) = r \/ Announce(s, bad) = p
    BY <1>6 DEF Announce, r, p
  <2>2. Loud(s, r) /\ Loud(s, p) /\ SameClaims(s, r) /\ SameClaims(s, p)
    BY <1>2, <1>4 DEF Loud, SameClaims
  <2>3. "FQ" \in r.ipsr /\ "FQ" \in p.ipsr
    BY <1>2, <1>4
  <2>4. QED
    BY <2>1, <2>2, <2>3
<1>7. QED
  BY <1>5, <1>6

(* A fault that is recorded, or that breaks the queue, is announced.        *)
LEMMA RecordedEffect ==
  ASSUME NEW s, Sound(s), NEW cause \in CauseCodes,
         NEW bad \in FaultSet, icvec \in [Units -> Vectors]
  PROVE  /\ Loud(s, Recorded(s, cause, bad))
         /\ SameClaims(s, Recorded(s, cause, bad))
<1> DEFINE p == Put(s, "FQ", cause, bad)
           t == Recorded(s, cause, bad)
<1>1. CASE Accepts(s.queue["FQ"])
  <2>1. t = Announce(p, bad)
    BY <1>1 DEF Recorded
  <2>2. /\ s \in CallState /\ "FQ" \in Queues /\ "PQ" \in Queues
        /\ cause \in Entries("FQ") /\ s.queue["FQ"] \in QueueState("FQ")
    BY DEF Entries, Queues, Sound, Well
  <2>3. Sound(p)
    BY <1>1, <2>2, PutSound
  <2>4. /\ p.ipsr = s.ipsr /\ p.claim = s.claim
        /\ p.queue["PQ"] = s.queue["PQ"] /\ p.queue["FQ"].ie = s.queue["FQ"].ie
    BY <2>2, PutEffect
  <2> HIDE DEF p
  <2>5. /\ Loud(p, Announce(p, bad)) /\ SameClaims(p, Announce(p, bad))
        /\ p.queue["FQ"].ie => "FQ" \in Announce(p, bad).ipsr
    BY <2>3, AnnounceEffect
  <2> HIDE DEF t
  <2>6. QED
    BY <2>1, <2>4, <2>5 DEF Loud, SameClaims, t
<1>2. CASE ~Accepts(s.queue["FQ"])
  <2>1. t = s
    BY <1>2 DEF Recorded
  <2>2. QED
    BY <2>1 DEF Loud, SameClaims
<1>3. QED
  BY <1>1, <1>2

LEMMA GenerateEffect ==
  ASSUME NEW s, Sound(s), NEW unit \in Units, NEW bad \in FaultSet,
         icvec \in [Units -> Vectors]
  PROVE  /\ Loud(s, generate_interrupt(s, unit, bad))
         /\ Enabled(s, unit) => unit \in generate_interrupt(s, unit, bad).ipsr
<1> DEFINE t == generate_interrupt(s, unit, bad)
           r == Raise(s, unit)
           f == report_fault(r, MsiWriteFault, FALSE, bad)
<1>1. CASE unit = "FQ"
  <2>1. t = Announce(s, bad)
    BY <1>1 DEF generate_interrupt
  <2>2. Enabled(s, unit) => s.queue["FQ"].ie
    BY <1>1 DEF Enabled, Queues
  <2>3. QED
    BY <1>1, <2>1, <2>2, AnnounceEffect
<1>2. CASE unit # "FQ" /\ ~Raises(s, unit)
  <2>1. t = s
    BY <1>2 DEF generate_interrupt
  <2>2. QED
    BY <1>2, <2>1 DEF Loud, Raises
<1>3. CASE unit # "FQ" /\ Raises(s, unit)
  <2>1. t = r \/ t = f
    BY <1>3 DEF generate_interrupt
  <2>2. Sound(r)
    BY RaiseSound
  <2>3. r.queue = s.queue /\ r.ipsr = s.ipsr \cup {unit}
    BY RaiseEffect DEF Sound
  <2>4. MsiWriteFault \in CauseCodes
    BY DEF MsiWriteFault, CauseCodes
  <2> HIDE DEF r
  <2>5. Loud(r, f)
    <3>1. Loud(r, Recorded(r, MsiWriteFault, bad))
      BY <2>2, <2>4, RecordedEffect
    <3>2. QED
      BY <3>1 DEF report_fault, Recorded
  <2> HIDE DEF f
  <2>6. Loud(s, r) /\ Loud(s, f) /\ unit \in r.ipsr /\ unit \in f.ipsr
    BY <2>3, <2>5 DEF Loud
  <2>7. QED
    BY <2>1, <2>6
<1>4. QED
  BY <1>1, <1>2, <1>3

(* Releasing a vector takes no message from another unit: what it sends is  *)
(* theirs, and what it withholds anew is the fault queue's.                 *)
LEMMA ReleaseSound ==
  ASSUME NEW s, Sound(s), NEW vec \in Vectors, NEW bad \in FaultSet,
         icvec \in [Units -> Vectors]
  PROVE  /\ Sound(release_pending_interrupt(s, vec, bad))
         /\ Loud(s, release_pending_interrupt(s, vec, bad))
<1> DEFINE sent == [s EXCEPT !.claim = [u \in Units |-> IF @[u] = vec THEN Told
                                                        ELSE @[u]]]
           told == IF vec \in bad.vec
                   THEN report_fault(sent, MsiWriteFault, FALSE, bad)
                   ELSE sent
           t == [told EXCEPT !.pend = @ \ {vec}]
<1>1. CASE vec \notin s.pend
  <2>1. release_pending_interrupt(s, vec, bad) = s
    BY <1>1 DEF release_pending_interrupt
  <2>2. QED
    BY <2>1 DEF Loud
<1>2. CASE vec \in s.pend
  <2>1. release_pending_interrupt(s, vec, bad) = t
    BY <1>2 DEF release_pending_interrupt
  <2>2. s \in CallState /\ Told \notin Vectors
    BY ConstantsAssumption DEF Sound
  <2>3. /\ sent \in CallState /\ sent.queue = s.queue /\ sent.ipsr = s.ipsr
        /\ sent.pend = s.pend
        /\ \A u \in Units : sent.claim[u] = IF s.claim[u] = vec THEN Told
                                            ELSE s.claim[u]
    BY <2>2 DEF CallState
  <2>4. \A u \in Units : sent.claim[u] # vec
    BY <2>2, <2>3
  <2> HIDE DEF sent
  <2>5. Sound(sent)
    BY <2>2, <2>3 DEF Sound, Kept
  <2>6. MsiWriteFault \in CauseCodes
    BY DEF MsiWriteFault, CauseCodes
  <2>7. Sound(told) /\ Loud(sent, told) /\ SameClaims(sent, told)
    <3>1. Loud(sent, sent) /\ SameClaims(sent, sent)
      BY DEF Loud, SameClaims
    <3> DEFINE rec == Recorded(sent, MsiWriteFault, bad)
    <3>2. Sound(rec) /\ Loud(sent, rec) /\ SameClaims(sent, rec)
      BY <2>5, <2>6, RecordedSound, RecordedEffect
    <3>3. told = rec \/ told = sent
      BY DEF told, report_fault, Recorded
    <3> HIDE DEF rec
    <3>4. QED
      BY <3>1, <3>2, <3>3, <2>5
  <2> HIDE DEF told
  <2>8. /\ t \in CallState /\ t.queue = told.queue /\ t.ipsr = told.ipsr
        /\ t.claim = told.claim /\ t.pend = told.pend \ {vec}
    BY <2>7 DEF Sound, CallState
  <2> HIDE DEF t
  <2>9. Kept(t)
    BY <2>4, <2>7, <2>8 DEF Sound, Kept, SameClaims
  <2>10. Sound(t)
    BY <2>7, <2>8, <2>9 DEF Sound
  <2>11. Loud(s, t)
    BY <2>3, <2>7, <2>8 DEF Loud
  <2>12. QED
    BY <2>1, <2>10, <2>11
<1>3. QED
  BY <1>1, <1>2

-----------------------------------------------------------------------------
(* From calls to steps. *)

LEMMA InvTypes ==
  ASSUME IInv
  PROVE  /\ queue \in [Queues -> QueueState("FQ") \cup QueueState("PQ")]
         /\ \A q \in Queues : Well(queue[q], q)
         /\ ipsr \in SUBSET Units /\ msi_pending \in SUBSET Vectors
         /\ claim \in [Units -> Vectors \cup {None, Told}]
         /\ Now.queue = queue /\ Now.ipsr = ipsr
BY DEF IInv, Sound, Now, CallState

LEMMA FaultsType ==
  ASSUME IInv, NEW names, NEW bad \in Faults(names)
  PROVE  bad \in FaultSet
<1>1. \A q \in Queues : queue[q].size \in 2 .. Slots
  BY InvTypes, SizeFacts DEF Well, QueueState
<1>2. \A q \in Queues : \A j \in 0 .. queue[q].size - 1 : j \in 0 .. Slots - 1
  BY <1>1, ConstantsAssumption
<1>3. bad.FQ \in SUBSET (0 .. Slots - 1) /\ bad.PQ \in SUBSET (0 .. Slots - 1)
  BY <1>2 DEF Faults, Queues
<1>4. QED
  BY <1>3 DEF Faults, FaultSet

(* A step that installs the result of a call. *)
LEMMA InstallStep ==
  ASSUME IInv, NEW t, Sound(t), Install(t)
  PROVE  Sound(Now)' /\ queue' = t.queue /\ ipsr' = t.ipsr
BY DEF Sound, Install, Now, CallState, Kept, Well

(* A call that is loud breaks neither of the two promises about interrupts. *)
LEMMA LoudStep ==
  ASSUME IInv, NEW t, Loud(Now, t), Install(t)
  PROVE  NewsArePended /\ SilenceIsLateEnabling
<1>1. queue' = t.queue /\ ipsr' = t.ipsr /\ Now.queue = queue /\ Now.ipsr = ipsr
  BY DEF Install, Now
<1>2. /\ queue'["PQ"] = queue["PQ"] /\ queue'["FQ"].ie = queue["FQ"].ie
      /\ queue'["FQ"] # queue["FQ"] /\ queue'["FQ"].ie => "FQ" \in ipsr'
      /\ ipsr \subseteq ipsr'
  BY <1>1 DEF Loud
<1>3. \A q : ~News(q, q)
  BY DEF News
<1>4. QED
  BY <1>2, <1>3 DEF NewsArePended, SilenceIsLateEnabling, Silent, Queues

LEMMA FaultStep ==
  ASSUME IInv, TranslationFault
  PROVE  IInv' /\ NewsArePended /\ SilenceIsLateEnabling
<1>1. PICK cause \in Causes, dtf \in BOOLEAN, bad \in Faults({"FQ"}) :
        Install(report_fault(Now, cause, dtf, bad))
  BY DEF TranslationFault
<1> DEFINE t == report_fault(Now, cause, dtf, bad)
<1>2. Sound(Now) /\ Environment /\ cause \in CauseCodes /\ bad \in FaultSet
  BY FaultsType, ConstantsAssumption DEF IInv
<1>3. Sound(t) /\ Loud(Now, t)
  <2>1. Loud(Now, Now)
    BY DEF Loud
  <2>2. Sound(Recorded(Now, cause, bad)) /\ Loud(Now, Recorded(Now, cause, bad))
    BY <1>2, RecordedSound, RecordedEffect DEF Environment
  <2>3. t = Now \/ t = Recorded(Now, cause, bad)
    BY DEF report_fault, Recorded
  <2> HIDE DEF t
  <2>4. QED
    BY <1>2, <2>1, <2>2, <2>3
<1> HIDE DEF t
<1>4. Install(t)
  BY <1>1 DEF t
<1>5. Sound(Now)' /\ NewsArePended /\ SilenceIsLateEnabling
  BY <1>3, <1>4, InstallStep, LoudStep
<1>6. Environment'
  BY <1>2 DEF TranslationFault, Environment, Quiet
<1>7. QED
  BY <1>5, <1>6 DEF IInv

LEMMA RefuseStep ==
  ASSUME IInv, RefusePageRequest
  PROVE  IInv' /\ NewsArePended /\ SilenceIsLateEnabling
<1>1. PICK request \in Requests, refusal \in Refusals, bad \in Faults({"FQ"}) :
        /\ Install(report_fault(Now, refusal.cause, refusal.dtf, bad))
        /\ Exchanged(request, refusal.code)
  BY DEF RefusePageRequest
<1> DEFINE cause == refusal.cause
           t == report_fault(Now, cause, refusal.dtf, bad)
<1>2. Sound(Now) /\ Environment /\ bad \in FaultSet
  BY FaultsType DEF IInv
<1>3. cause \in CauseCodes /\ refusal.code \in Responses
  BY DEF Refusals, CauseCodes, Responses
<1>4. Sound(t) /\ Loud(Now, t)
  <2>1. Loud(Now, Now)
    BY DEF Loud
  <2>2. Sound(Recorded(Now, cause, bad)) /\ Loud(Now, Recorded(Now, cause, bad))
    <3> HIDE DEF cause
    <3> QED
      BY <1>2, <1>3, RecordedSound, RecordedEffect DEF Environment
  <2>3. t = Now \/ t = Recorded(Now, cause, bad)
    BY DEF report_fault, Recorded
  <2> HIDE DEF t
  <2>4. QED
    BY <1>2, <2>1, <2>2, <2>3
<1> HIDE DEF t
<1>5. Install(t)
  BY <1>1 DEF t
<1>6. Sound(Now)' /\ NewsArePended /\ SilenceIsLateEnabling
  BY <1>4, <1>5, InstallStep, LoudStep
<1>7. Environment'
  BY <1>1, <1>2, <1>3 DEF RefusePageRequest, Environment, Exchanged
<1>8. QED
  BY <1>6, <1>7 DEF IInv

(* CommandEvent and CounterOverflow. *)
LEMMA InterruptStep ==
  ASSUME IInv, CommandEvent \/ CounterOverflow
  PROVE  IInv' /\ NewsArePended /\ SilenceIsLateEnabling
<1>1. PICK unit \in {"CQ", "PM"}, bad \in Faults({"FQ"}) :
        Install(generate_interrupt(Now, unit, bad))
  BY DEF CommandEvent, CounterOverflow
<1> DEFINE t == generate_interrupt(Now, unit, bad)
<1>2. Sound(Now) /\ Environment /\ bad \in FaultSet /\ unit \in Units
  BY FaultsType DEF IInv, Units
<1>3. Sound(t) /\ Loud(Now, t)
  BY <1>2, GenerateSound, GenerateEffect DEF Environment
<1> HIDE DEF t
<1>4. Install(t)
  BY <1>1 DEF t
<1>5. Sound(Now)' /\ NewsArePended /\ SilenceIsLateEnabling
  BY <1>3, <1>4, InstallStep, LoudStep
<1>6. cqcsr' \in [cie : BOOLEAN, err : BOOLEAN]
  <2>1. cqcsr' = [cqcsr EXCEPT !.err = TRUE] \/ cqcsr' = cqcsr
    BY DEF CommandEvent, CounterOverflow
  <2>2. QED
    BY <1>2, <2>1 DEF Environment
<1>7. masked' = masked /\ icvec' = icvec /\ exchange' = Quiet
  BY DEF CommandEvent, CounterOverflow
<1>8. Environment'
  BY <1>2, <1>6, <1>7 DEF Environment, Quiet
<1>9. QED
  BY <1>5, <1>8 DEF IInv

(* A page request that is stored, or that breaks its queue, is announced.   *)
LEMMA QueueRequestStep ==
  ASSUME IInv, QueuePageRequest
  PROVE  IInv' /\ NewsArePended /\ SilenceIsLateEnabling
<1>1. PICK request \in Requests, bad \in Faults(Queues) :
        LET q == queue["PQ"]
            s == IF Accepts(q)
                 THEN generate_interrupt(Put(Now, "PQ", request, bad), "PQ", bad)
                 ELSE Now
        IN Install(s) /\ Exchanged(request, QueueResponse(q, s.queue["PQ"]))
  BY DEF QueuePageRequest
<1> DEFINE p == Put(Now, "PQ", request, bad)
           t == generate_interrupt(p, "PQ", bad)
<1>2. Sound(Now) /\ Environment /\ bad \in FaultSet
  BY FaultsType DEF IInv
<1>3. Environment'
  <2>1. \A q, r : QueueResponse(q, r) \in Responses \cup {None}
    BY DEF QueueResponse, Responses
  <2>2. QED
    BY <1>1, <1>2, <2>1 DEF QueuePageRequest, Environment, Exchanged
<1>4. CASE ~Accepts(queue["PQ"])
  <2>1. Install(Now)
    BY <1>1, <1>4
  <2>2. Loud(Now, Now)
    BY DEF Loud
  <2>3. Sound(Now)' /\ NewsArePended /\ SilenceIsLateEnabling
    BY <1>2, <2>1, <2>2, InstallStep, LoudStep
  <2>4. QED
    BY <1>3, <2>3 DEF IInv
<1>5. CASE Accepts(queue["PQ"])
  <2>1. Install(t)
    BY <1>1, <1>5
  <2>2. /\ Now.queue = queue /\ Now.ipsr = ipsr /\ Now \in CallState
        /\ Now.queue["PQ"] \in QueueState("PQ")
    BY <1>2, InvTypes DEF Sound, Well, Queues
  <2>3. {"FQ", "PQ"} \subseteq Queues /\ "PQ" \in Units /\ request \in Entries("PQ")
    BY ConstantsAssumption DEF Queues, Units, Entries
  <2>4. Sound(p)
    BY <1>2, <1>5, <2>2, <2>3, PutSound
  <2>5. /\ p.ipsr = ipsr /\ p.queue["FQ"] = queue["FQ"]
        /\ p.queue["PQ"].ie = queue["PQ"].ie
    BY <2>2, <2>3, PutEffect
  <2> HIDE DEF p
  <2>6. Sound(t) /\ Loud(p, t) /\ (p.queue["PQ"].ie => "PQ" \in t.ipsr)
    BY <1>2, <2>3, <2>4, GenerateSound, GenerateEffect DEF Environment, Enabled
  <2> HIDE DEF t
  <2>7. queue' = t.queue /\ ipsr' = t.ipsr /\ Sound(Now)'
    BY <2>1, <2>6, InstallStep
  <2>8. /\ queue'["PQ"].ie => "PQ" \in ipsr'
        /\ queue'["FQ"].ie = queue["FQ"].ie
        /\ queue'["FQ"] # queue["FQ"] /\ queue'["FQ"].ie => "FQ" \in ipsr'
        /\ ipsr \subseteq ipsr'
    BY <2>5, <2>6, <2>7 DEF Loud
  <2>9. \A q : ~News(q, q)
    BY DEF News
  <2>10. NewsArePended /\ SilenceIsLateEnabling
    BY <2>8, <2>9 DEF NewsArePended, SilenceIsLateEnabling, Silent, Queues
  <2>11. QED
    BY <1>3, <2>7, <2>10 DEF IInv
<1>6. QED
  BY <1>4, <1>5

-----------------------------------------------------------------------------
(* Register writes. *)

(* A write to the registers of one queue that leaves the interrupts alone.  *)
LEMMA QueueWriteStep ==
  ASSUME IInv, NEW name \in Queues, NEW r, Well(r, name),
         queue' = [queue EXCEPT ![name] = r], exchange' = Quiet,
         UNCHANGED <<ipsr, msi_pending, masked, icvec, cqcsr, claim>>,
         ~News(queue[name], r),
         (r.mf => queue[name].mf) /\ (r.of => queue[name].of)
  PROVE  IInv' /\ NewsArePended /\ SilenceIsLateEnabling
<1>1. /\ queue \in [Queues -> QueueState("FQ") \cup QueueState("PQ")]
      /\ \A q \in Queues : Well(queue[q], q)
      /\ r \in QueueState("FQ") \cup QueueState("PQ")
  BY InvTypes DEF Well, Queues
<1>2. /\ \A q \in Queues : queue'[q] = IF q = name THEN r ELSE queue[q]
      /\ queue' \in [Queues -> QueueState("FQ") \cup QueueState("PQ")]
  BY <1>1
<1>3. \A q \in Queues : Well(queue'[q], q)
  BY <1>1, <1>2
<1>4. Sound(Now)'
  BY <1>2, <1>3 DEF IInv, Sound, Now, CallState, Kept
<1>5. Environment'
  BY DEF IInv, Environment, Quiet
<1>6. \A q : ~News(q, q)
  BY DEF News
<1>7. NewsArePended
  BY <1>2, <1>6 DEF NewsArePended
<1>8. SilenceIsLateEnabling
  BY <1>2, InvTypes DEF SilenceIsLateEnabling, Silent, Well, QueueState
<1>9. QED
  BY <1>4, <1>5, <1>7, <1>8 DEF IInv

LEMMA BaseStep ==
  ASSUME IInv, NEW name \in Queues, NEW size \in Sizes[name], WriteBase(name, size)
  PROVE  IInv' /\ NewsArePended /\ SilenceIsLateEnabling
<1> DEFINE q == queue[name]
           r == [q EXCEPT !.size = size, !.head = 0]
<1>1. Well(q, name) /\ q \in QueueState(name) /\ ~q.on
  BY InvTypes DEF Well, WriteBase
<1>2. size \in 2 .. Slots /\ Slots \in Nat
  BY SizeFacts
<1>3. 0 \in 0 .. Slots - 1 /\ 0 < size
  BY <1>2
<1>4. Well(r, name)
  BY <1>1, <1>3 DEF Well, QueueState
<1>5. ~News(q, r) /\ (r.mf => q.mf) /\ (r.of => q.of)
  BY <1>1 DEF News, QueueState
<1>6. queue' = [queue EXCEPT ![name] = r]
  BY InvTypes DEF WriteBase
<1> HIDE DEF r
<1>7. QED
  BY <1>4, <1>5, <1>6, QueueWriteStep DEF WriteBase

LEMMA HeadStep ==
  ASSUME IInv, NEW name \in Queues, WriteHead(name)
  PROVE  IInv' /\ NewsArePended /\ SilenceIsLateEnabling
<1> DEFINE q == queue[name]
           r == [q EXCEPT !.head = Following(q, q.head), !.mem[q.head] = Blank]
<1>1. Well(q, name) /\ q \in QueueState(name)
  BY InvTypes DEF Well
<1>2. q.head \in 0 .. Slots - 1
  BY <1>1 DEF QueueState
<1>3. Following(q, q.head) \in 0 .. Slots - 1 /\ Following(q, q.head) < q.size
  BY <1>1, <1>2, FollowingType
<1>4. Well(r, name)
  BY <1>1, <1>3 DEF Well, QueueState
<1>5. ~News(q, r) /\ (r.mf => q.mf) /\ (r.of => q.of)
  BY <1>1 DEF News, QueueState
<1>6. queue' = [queue EXCEPT ![name] = r]
  BY InvTypes DEF WriteHead
<1> HIDE DEF r
<1>7. QED
  BY <1>4, <1>5, <1>6, QueueWriteStep DEF WriteHead

LEMMA CsrStep ==
  ASSUME IInv, NEW name \in Queues, NEW enable \in BOOLEAN, NEW ie \in BOOLEAN,
         NEW ack, WriteCsr(name, enable, ie, ack)
  PROVE  IInv' /\ NewsArePended /\ SilenceIsLateEnabling
<1> DEFINE q   == queue[name]
           new == enable /\ ~q.on
           tl  == IF new THEN 0 ELSE q.tail
           mf  == q.mf /\ ~new /\ "mf" \notin ack
           of  == q.of /\ ~new /\ "of" \notin ack
           mem == IF enable THEN q.mem ELSE NoEntries
           r   == [q EXCEPT !.on = enable, !.ie = ie, !.tail = tl, !.mf = mf,
                            !.of = of, !.mem = mem]
<1>1. Well(q, name) /\ q \in QueueState(name)
  BY InvTypes DEF Well
<1>2. q.size \in 2 .. Slots /\ Slots \in Nat
  BY <1>1, SizeFacts DEF QueueState
<1>3. tl \in 0 .. Slots - 1 /\ (enable => tl < q.size)
  BY <1>1, <1>2 DEF Well, QueueState
<1>4. /\ mf \in BOOLEAN /\ of \in BOOLEAN /\ ~(mf /\ of)
      /\ (mf => q.mf) /\ (of => q.of) /\ (enable /\ q.on => tl = q.tail)
  BY <1>1 DEF Well, QueueState
<1>5. mem \in [0 .. Slots - 1 -> Entries(name) \cup {Blank}]
  BY <1>1 DEF QueueState, NoEntries
<1>6. queue' = [queue EXCEPT ![name] = r]
  BY DEF WriteCsr
<1> HIDE DEF tl, mf, of, mem
<1>7. /\ r \in QueueState(name) /\ r.tail = tl /\ r.on = enable
      /\ r.mf = mf /\ r.of = of /\ r.head = q.head /\ r.size = q.size
  BY <1>1, <1>3, <1>4, <1>5 DEF QueueState
<1> HIDE DEF r
<1>8. Well(r, name)
  BY <1>1, <1>3, <1>4, <1>7 DEF Well
<1>9. ~News(q, r) /\ (r.mf => q.mf) /\ (r.of => q.of)
  BY <1>4, <1>7 DEF News
<1>10. QED
  BY <1>6, <1>8, <1>9, QueueWriteStep DEF WriteCsr

(* CQCSR and ICVEC do not touch the state of a call. *)
LEMMA OtherRegisterStep ==
  ASSUME IInv, exchange' = Quiet,
         \/ \E cie \in BOOLEAN, ack \in BOOLEAN : WriteCqcsr(cie, ack)
         \/ \E map \in Maps : WriteIcvec(map)
  PROVE  IInv' /\ NewsArePended /\ SilenceIsLateEnabling
<1>1. UNCHANGED <<queue, ipsr, msi_pending, claim, masked>>
  BY DEF WriteCqcsr, WriteIcvec
<1>2. icvec' \in [Units -> Vectors]
  BY ConstantsAssumption DEF WriteCqcsr, WriteIcvec, IInv, Environment
<1>3. cqcsr' \in [cie : BOOLEAN, err : BOOLEAN]
  <2>1. cqcsr \in [cie : BOOLEAN, err : BOOLEAN]
    BY DEF IInv, Environment
  <2>2. CASE \E map \in Maps : WriteIcvec(map)
    BY <2>1, <2>2 DEF WriteIcvec
  <2>3. CASE \E cie \in BOOLEAN, ack \in BOOLEAN : WriteCqcsr(cie, ack)
    <3>1. PICK cie \in BOOLEAN, ack \in BOOLEAN :
            cqcsr' = [cie |-> cie, err |-> cqcsr.err /\ ~ack]
      BY <2>3 DEF WriteCqcsr
    <3>2. (cqcsr.err /\ ~ack) \in BOOLEAN
      OBVIOUS
    <3>3. QED
      BY <3>1, <3>2
  <2>4. QED
    BY <2>2, <2>3
<1>4. Sound(Now)'
  BY <1>1 DEF IInv, Sound, Now, CallState, Kept
<1>5. Environment'
  BY <1>1, <1>2, <1>3 DEF IInv, Environment, Quiet
<1>6. \A q : ~News(q, q)
  BY DEF News
<1>7. NewsArePended /\ SilenceIsLateEnabling
  BY <1>1, <1>6 DEF NewsArePended, SilenceIsLateEnabling
<1>8. QED
  BY <1>4, <1>5, <1>7 DEF IInv

(* Clearing the mask of a vector releases its message. *)
LEMMA VecCtrlStep ==
  ASSUME IInv, NEW vec \in Vectors, NEW m \in BOOLEAN, NEW bad \in Faults({"FQ"}),
         WriteVecCtrl(vec, m, bad)
  PROVE  IInv' /\ NewsArePended /\ SilenceIsLateEnabling
<1> DEFINE r == release_pending_interrupt(Now, vec, bad)
           t == IF ~m /\ vec \in masked THEN r ELSE Now
<1>1. Sound(Now) /\ Environment /\ bad \in FaultSet
  BY FaultsType DEF IInv
<1>2. Sound(r) /\ Loud(Now, r)
  BY <1>1, ReleaseSound DEF Environment
<1>3. Loud(Now, Now)
  BY DEF Loud
<1> HIDE DEF r
<1>4. Sound(t) /\ Loud(Now, t)
  BY <1>1, <1>2, <1>3
<1>5. Install(t)
  BY DEF WriteVecCtrl, r
<1> HIDE DEF t
<1>6. Sound(Now)' /\ NewsArePended /\ SilenceIsLateEnabling
  BY <1>4, <1>5, InstallStep, LoudStep
<1>7. Environment'
  BY <1>1 DEF WriteVecCtrl, Environment, Quiet
<1>8. QED
  BY <1>6, <1>7 DEF IInv

-----------------------------------------------------------------------------
(* Acknowledging pending bits. *)

(* What treating one bit of a write to ipsr may do: it clears no other bit, *)
(* it changes no queue but the fault queue, and if it does that with fie    *)
(* set, then fip is set; an unacknowledged error pends its unit again.      *)
Acked(s, t, unit) ==
  /\ t.queue["PQ"] = s.queue["PQ"]
  /\ t.queue["FQ"].ie = s.queue["FQ"].ie
  /\ t.queue["FQ"] # s.queue["FQ"] /\ t.queue["FQ"].ie => "FQ" \in t.ipsr
  /\ s.ipsr \ {unit} \subseteq t.ipsr
  /\ unit \in s.ipsr /\ Unacknowledged(s, unit) /\ Enabled(s, unit) =>
        unit \in t.ipsr

LEMMA AcknowledgeEffect ==
  ASSUME NEW s, Sound(s), NEW unit \in Units, NEW bad \in FaultSet,
         icvec \in [Units -> Vectors]
  PROVE  /\ Sound(Acknowledge(s, unit, bad))
         /\ Acked(s, Acknowledge(s, unit, bad), unit)
<1> DEFINE clear == [s EXCEPT !.ipsr = @ \ {unit}, !.claim[unit] = None]
           g == generate_interrupt(clear, unit, bad)
<1>1. s \in CallState /\ Kept(s) /\ None \notin Vectors
  BY ConstantsAssumption DEF Sound
<1>2. /\ clear \in CallState /\ clear.queue = s.queue /\ clear.pend = s.pend
      /\ clear.ipsr = s.ipsr \ {unit}
      /\ clear.claim = [s.claim EXCEPT ![unit] = None]
  BY <1>1 DEF CallState
<1> HIDE DEF clear
<1>3. Kept(clear)
  BY <1>1, <1>2 DEF Kept, CallState
<1>4. Sound(clear)
  BY <1>2, <1>3 DEF Sound
<1>5. /\ Sound(g) /\ Loud(clear, g)
      /\ Enabled(clear, unit) => unit \in g.ipsr
  BY <1>4, GenerateSound, GenerateEffect
<1> HIDE DEF g
<1>6. Enabled(s, unit) => Enabled(clear, unit)
  BY <1>2 DEF Enabled
<1>7. Acked(s, g, unit)
  BY <1>2, <1>5, <1>6 DEF Acked, Loud
<1>8. ~Unacknowledged(s, unit) => Acked(s, clear, unit)
  BY <1>2 DEF Acked
<1>9. Acknowledge(s, unit, bad) = IF Unacknowledged(s, unit) THEN g ELSE clear
  BY DEF Acknowledge, clear, g
<1>10. QED
  BY <1>4, <1>5, <1>7, <1>8, <1>9

(* The four bits in their order.  A bit software did not write is passed    *)
(* over; s4 is what is installed.                                           *)
LEMMA AckChain ==
  ASSUME NEW s0, NEW s1, NEW s2, NEW s3, NEW s4,
         NEW ack, ack \subseteq s0.ipsr,
         Acked(s0, s1, "CQ"), Acked(s1, s2, "FQ"),
         Acked(s2, s3, "PQ"), Acked(s3, s4, "PM"),
         "FQ" \notin ack => s2 = s1, "PQ" \notin ack => s3 = s2
  PROVE  /\ s4.queue["PQ"] = s0.queue["PQ"]
         /\ s4.queue["FQ"].ie = s0.queue["FQ"].ie
         /\ s4.queue["FQ"] # s0.queue["FQ"] /\ s4.queue["FQ"].ie =>
              "FQ" \in s0.ipsr \/ "FQ" \in s4.ipsr
         /\ \A u \in Queues :
              Silent(s4.queue[u], u \in s4.ipsr) => Silent(s0.queue[u], u \in s0.ipsr)
<1>1. /\ s4.queue["PQ"] = s0.queue["PQ"] /\ s2.queue["PQ"] = s0.queue["PQ"]
      /\ s1.queue["FQ"].ie = s0.queue["FQ"].ie
      /\ s2.queue["FQ"].ie = s0.queue["FQ"].ie
      /\ s3.queue["FQ"].ie = s0.queue["FQ"].ie
      /\ s4.queue["FQ"].ie = s0.queue["FQ"].ie
  BY DEF Acked
<1>2. /\ "FQ" \in s2.ipsr => "FQ" \in s4.ipsr
      /\ "FQ" \in s0.ipsr => "FQ" \in s1.ipsr
      /\ "PQ" \in s3.ipsr => "PQ" \in s4.ipsr
      /\ "PQ" \in s0.ipsr => "PQ" \in s2.ipsr
  BY DEF Acked
<1>3. \/ s4.queue["FQ"] = s2.queue["FQ"]
      \/ ~s4.queue["FQ"].ie \/ "FQ" \in s4.ipsr
  BY <1>1 DEF Acked
<1>4. \/ s2.queue["FQ"] = s1.queue["FQ"]
      \/ ~s4.queue["FQ"].ie \/ "FQ" \in s4.ipsr
  BY <1>1, <1>2 DEF Acked
<1>5. \/ s1.queue["FQ"] = s0.queue["FQ"]
      \/ ~s4.queue["FQ"].ie \/ "FQ" \in s1.ipsr
  BY <1>1 DEF Acked
<1>6. "FQ" \notin s0.ipsr => ("FQ" \in s1.ipsr => "FQ" \in s4.ipsr)
  BY <1>2
<1>7. Silent(s4.queue["PQ"], "PQ" \in s4.ipsr) =>
        Silent(s0.queue["PQ"], "PQ" \in s0.ipsr)
  BY <1>1, <1>2 DEF Acked, Silent, Unacknowledged, Enabled, Queues
<1>8. Silent(s4.queue["FQ"], "FQ" \in s4.ipsr) =>
        Silent(s0.queue["FQ"], "FQ" \in s0.ipsr)
  <2> SUFFICES ASSUME Silent(s4.queue["FQ"], "FQ" \in s4.ipsr)
               PROVE  Silent(s0.queue["FQ"], "FQ" \in s0.ipsr)
    OBVIOUS
  <2>1. /\ s4.queue["FQ"].ie /\ "FQ" \notin s4.ipsr /\ "FQ" \notin s2.ipsr
        /\ s4.queue["FQ"].mf \/ s4.queue["FQ"].of
    BY <1>2 DEF Silent
  <2>2. s4.queue["FQ"] = s1.queue["FQ"]
    BY <1>3, <1>4, <2>1
  <2>3. Unacknowledged(s1, "FQ") /\ Enabled(s1, "FQ")
    BY <2>1, <2>2 DEF Unacknowledged, Enabled, Queues
  <2>4. "FQ" \notin s1.ipsr
    BY <2>1, <2>3 DEF Acked
  <2>5. s1.queue["FQ"] = s0.queue["FQ"] /\ "FQ" \notin s0.ipsr
    BY <1>2, <1>5, <2>1, <2>4
  <2>6. QED
    BY <2>1, <2>2, <2>5 DEF Silent
<1>9. QED
  BY <1>1, <1>2, <1>3, <1>4, <1>5, <1>6, <1>7, <1>8 DEF Queues

LEMMA IpsrStep ==
  ASSUME IInv, NEW ack, NEW bad \in Faults({"FQ"}), WriteIpsr(ack, bad)
  PROVE  IInv' /\ NewsArePended /\ SilenceIsLateEnabling
<1> DEFINE Ack(s, unit) == IF unit \in ack THEN Acknowledge(s, unit, bad) ELSE s
           s1 == Ack(Now, "CQ")
           s2 == Ack(s1, "FQ")
           s3 == Ack(s2, "PQ")
           s4 == Ack(s3, "PM")
<1>1. /\ Sound(Now) /\ Environment /\ bad \in FaultSet /\ ack \subseteq ipsr
      /\ Now.queue = queue /\ Now.ipsr = ipsr
  BY FaultsType, InvTypes DEF IInv, WriteIpsr
<1>2. ASSUME NEW s, Sound(s), NEW unit \in Units
      PROVE  Sound(Ack(s, unit)) /\ Acked(s, Ack(s, unit), unit)
  <2>1. Sound(Acknowledge(s, unit, bad)) /\ Acked(s, Acknowledge(s, unit, bad), unit)
    BY <1>1, <1>2, AcknowledgeEffect DEF Environment
  <2>2. Acked(s, s, unit)
    BY DEF Acked
  <2>3. QED
    BY <1>2, <2>1, <2>2
<1>3. /\ "FQ" \notin ack => s2 = s1
      /\ "PQ" \notin ack => s3 = s2
      /\ Install(s4)
  BY DEF WriteIpsr
<1>4. {"CQ", "FQ", "PQ", "PM"} \subseteq Units
  BY DEF Units
<1>5. Sound(s1) /\ Acked(Now, s1, "CQ")
  BY <1>1, <1>2, <1>4
<1> HIDE DEF s1
<1>6. Sound(s2) /\ Acked(s1, s2, "FQ")
  BY <1>2, <1>4, <1>5
<1> HIDE DEF s2
<1>7. Sound(s3) /\ Acked(s2, s3, "PQ")
  BY <1>2, <1>4, <1>6
<1> HIDE DEF s3
<1>8. Sound(s4) /\ Acked(s3, s4, "PM")
  BY <1>2, <1>4, <1>7
<1> HIDE DEF s4, Ack
<1>9. Sound(Now)' /\ queue' = s4.queue /\ ipsr' = s4.ipsr
  BY <1>3, <1>8, InstallStep
<1>10. /\ queue'["PQ"] = queue["PQ"]
       /\ queue'["FQ"].ie = queue["FQ"].ie
       /\ queue'["FQ"] # queue["FQ"] /\ queue'["FQ"].ie =>
            "FQ" \in ipsr \/ "FQ" \in ipsr'
       /\ \A u \in Queues : Silent(queue'[u], u \in ipsr') =>
                            Silent(queue[u], u \in ipsr)
  BY <1>1, <1>3, <1>5, <1>6, <1>7, <1>8, <1>9, AckChain
<1>11. \A q : ~News(q, q)
  BY DEF News
<1>12. NewsArePended
  BY <1>10, <1>11 DEF NewsArePended, Queues
<1>13. SilenceIsLateEnabling
  BY <1>10 DEF SilenceIsLateEnabling
<1>14. Environment'
  BY <1>1 DEF WriteIpsr, Environment, Quiet
<1>15. QED
  BY <1>9, <1>12, <1>13, <1>14 DEF IInv

-----------------------------------------------------------------------------
(* The invariant and the promises, for every step. *)

LEMMA InitInv == Init => IInv
<1> SUFFICES ASSUME Init PROVE IInv
  OBVIOUS
<1> DEFINE off == [size |-> 2, head |-> 0, tail |-> 0, on |-> FALSE, ie |-> FALSE,
                   mf |-> FALSE, of |-> FALSE, mem |-> NoEntries]
<1>1. \A name \in Queues : off \in QueueState(name) /\ Well(off, name)
  <2> TAKE name \in Queues
  <2>1. 2 \in Sizes[name] /\ 0 \in 0 .. Slots - 1 /\ 0 < 2
    BY SizeFacts
  <2>2. NoEntries \in [0 .. Slots - 1 -> Entries(name) \cup {Blank}]
    BY DEF NoEntries
  <2>3. off \in QueueState(name)
    BY <2>1, <2>2 DEF QueueState
  <2>4. QED
    BY <2>1, <2>3 DEF Well
<1>2. queue = [q \in Queues |-> off]
  BY DEF Init
<1> HIDE DEF off
<1>3. /\ queue \in [Queues -> QueueState("FQ") \cup QueueState("PQ")]
      /\ \A name \in Queues : Well(queue[name], name)
  BY <1>1, <1>2 DEF Queues
<1>4. Sound(Now)
  BY <1>3 DEF Init, Sound, Now, CallState, Kept
<1>5. Environment
  BY ConstantsAssumption DEF Init, Environment, Quiet
<1>6. QED
  BY <1>4, <1>5 DEF IInv

LEMMA NextStep ==
  ASSUME IInv, [Next]_vars
  PROVE  IInv' /\ NewsArePended /\ SilenceIsLateEnabling
<1>1. InUse \subseteq Queues /\ IeWrites \subseteq BOOLEAN
  BY ConstantsAssumption DEF InUse, Queues
<1>2. CASE TranslationFault
  BY <1>2, FaultStep
<1>3. CASE handle_page_request
  BY <1>3, RefuseStep, QueueRequestStep DEF handle_page_request
<1>4. CASE CommandEvent \/ CounterOverflow
  BY <1>4, InterruptStep
<1>5. CASE \E name \in InUse : \E size \in Sizes[name] : WriteBase(name, size)
  BY <1>1, <1>5, BaseStep
<1>6. CASE \E name \in InUse : WriteHead(name)
  BY <1>1, <1>6, HeadStep
<1>7. CASE \E name \in InUse, enable \in BOOLEAN, ie \in IeWrites,
              ack \in AckWrites : WriteCsr(name, enable, ie, ack)
  BY <1>1, <1>7, CsrStep
<1>8. CASE \/ \E cie \in IeWrites, ack \in BOOLEAN :
                "CQ" \in Active /\ WriteCqcsr(cie, ack)
           \/ \E map \in Maps : WriteIcvec(map)
  <2>1. exchange' = Quiet
    BY <1>8 DEF WriteCqcsr, WriteIcvec
  <2>2. \/ \E cie \in BOOLEAN, ack \in BOOLEAN : WriteCqcsr(cie, ack)
        \/ \E map \in Maps : WriteIcvec(map)
    BY <1>1, <1>8
  <2>3. QED
    BY <2>1, <2>2, OtherRegisterStep
<1>9. CASE \E ack \in SUBSET ipsr, bad \in Faults({"FQ"}) : WriteIpsr(ack, bad)
  BY <1>9, IpsrStep
<1>10. CASE \E vec \in Vectors, m \in BOOLEAN, bad \in Faults({"FQ"}) :
              ~Wired /\ WriteVecCtrl(vec, m, bad)
  BY <1>10, VecCtrlStep
<1>11. CASE UNCHANGED vars
  <2>1. Sound(Now)'
    BY <1>11 DEF vars, IInv, Sound, Now, CallState, Kept
  <2>2. Environment'
    BY <1>11 DEF vars, IInv, Environment
  <2>3. \A q : ~News(q, q)
    BY DEF News
  <2>4. queue' = queue /\ ipsr' = ipsr
    BY <1>11 DEF vars
  <2>5. NewsArePended /\ SilenceIsLateEnabling
    BY <2>3, <2>4 DEF NewsArePended, SilenceIsLateEnabling
  <2>6. QED
    BY <2>1, <2>2, <2>5 DEF IInv
<1>12. QED
  BY <1>2, <1>3, <1>4, <1>5, <1>6, <1>7, <1>8, <1>9, <1>10, <1>11
  DEF Next, Software

THEOREM InvHolds == Spec => []IInv
<1>1. IInv /\ [Next]_vars => IInv'
  BY NextStep
<1>2. QED
  BY InitInv, <1>1, PTL DEF Spec

-----------------------------------------------------------------------------
(* The type invariant holds for all sizes, vectors, causes and requests: in *)
(* particular head and tail stay inside a queue whatever software writes to *)
(* its base.                                                                *)
THEOREM TypeCorrect == Spec => []TypeOK
<1>1. IInv => TypeOK
  BY DEF IInv, Sound, Now, CallState, Well, Environment, TypeOK
<1>2. QED
  BY <1>1, InvHolds, PTL

(* A queue reports one error at a time: the record that met the first error *)
(* is the last one tried until software repairs the queue.                  *)
OneError == \A q \in Queues : ~(queue[q].mf /\ queue[q].of)

(* A full queue and a failed store are never reported together, for any     *)
(* sizes and causes.                                                        *)
THEOREM OneErrorAtATime == Spec => []OneError
<1>1. IInv => OneError
  BY InvTypes DEF OneError, Well
<1>2. QED
  BY <1>1, InvHolds, PTL

(* A message that a mask withheld from the command queue, the page-request  *)
(* queue or the counters stays pending for the vector it was meant for,     *)
(* through every interleaving of faults, acknowledgements and releases.     *)
THEOREM WithheldStaysPending == Spec => []OthersWithheldArePending
<1>1. IInv => OthersWithheldArePending
  BY DEF IInv, Sound, Now, Kept, OthersWithheldArePending, Withheld
<1>2. QED
  BY <1>1, InvHolds, PTL

(* No step stores a record, or raises an error bit, without an interrupt    *)
(* that is pending at its beginning or at its end.                          *)
THEOREM NewsIsPended == Spec => NewsPends
<1>1. IInv /\ [Next]_vars => [NewsArePended]_vars
  BY NextStep
<1>2. QED
  BY <1>1, InvHolds, PTL DEF Spec, NewsPends

(* Software that keeps the interrupt of a queue enabled is never left with  *)
(* an error of that queue and no pending bit.                               *)
THEOREM SilenceOnlyByLateEnable == Spec => SilentOnlyByLateEnable
<1>1. IInv /\ [Next]_vars => [SilenceIsLateEnabling]_vars
  BY NextStep
<1>2. QED
  BY <1>1, InvHolds, PTL DEF Spec, SilentOnlyByLateEnable

-----------------------------------------------------------------------------
(* Responses to page requests. *)

Answered ==
  /\ exchange'.request = "last" =>
       (queue'["PQ"].tail = queue["PQ"].tail) = (exchange'.response # None)
  /\ exchange'.response = "success" =>
       queue'["PQ"].on /\ queue'["PQ"].of /\ ~queue'["PQ"].mf

LEMMA QuietIsAnswered == exchange' = Quiet => Answered
BY DEF Quiet, Answered, None

(* The index behind another is another one: no queue has one entry.         *)
LEMMA NextIsOther ==
  ASSUME NEW n \in Nat, n >= 2, NEW i \in Nat, i < n
  PROVE  ((i + 1) % n) # i
<1>1. CASE i + 1 < n
  <2>1. ((i + 1) % n) = i + 1
    BY <1>1
  <2>2. QED
    BY <2>1
<1>2. CASE i + 1 = n
  <2>1. (n % n) = 0
    OBVIOUS
  <2>2. QED
    BY <1>2, <2>1
<1>3. QED
  BY <1>1, <1>2

(* A stored record moves the tail, and one that is not stored does not.     *)
LEMMA PutMovesTail ==
  ASSUME NEW s \in CallState, NEW name \in Queues, NEW entry, NEW bad,
         Well(s.queue[name], name), Accepts(s.queue[name])
  PROVE  LET q == s.queue[name]
             r == Put(s, name, entry, bad).queue[name]
         IN /\ r.on
            /\ \/ r.of /\ ~r.mf /\ r.tail = q.tail
               \/ ~r.of /\ r.mf /\ r.tail = q.tail
               \/ ~r.of /\ ~r.mf /\ r.tail # q.tail
<1> DEFINE q == s.queue[name]
<1>1. q \in QueueState(name) /\ q.on /\ q.tail < q.size /\ ~q.mf /\ ~q.of
  BY DEF Well, Accepts
<1>2. q.size \in 2 .. Slots /\ q.tail \in 0 .. Slots - 1 /\ Slots \in Nat
  BY <1>1, SizeFacts DEF QueueState
<1>3. Following(q, q.tail) # q.tail
  BY <1>1, <1>2, NextIsOther DEF Following
<1>4. Put(s, name, entry, bad).queue[name] =
        IF Full(q) THEN [q EXCEPT !.of = TRUE]
        ELSE IF q.tail \in bad[name] THEN [q EXCEPT !.mf = TRUE]
        ELSE [q EXCEPT !.mem[q.tail] = entry, !.tail = Following(q, q.tail)]
  BY DEF Put, CallState
<1>5. QED
  BY <1>1, <1>3, <1>4 DEF QueueState

(* A request refused before the queue is answered and not stored.           *)
LEMMA RefusalAnswered ==
  ASSUME IInv, RefusePageRequest
  PROVE  Answered
<1>1. PICK request \in Requests, refusal \in Refusals, bad \in Faults({"FQ"}) :
        /\ Install(report_fault(Now, refusal.cause, refusal.dtf, bad))
        /\ Exchanged(request, refusal.code)
  BY DEF RefusePageRequest
<1> DEFINE cause == refusal.cause
           t == report_fault(Now, cause, refusal.dtf, bad)
<1>2. Sound(Now) /\ Environment /\ bad \in FaultSet /\ Now.queue = queue
  BY FaultsType, InvTypes DEF IInv
<1>3. cause \in CauseCodes /\ refusal.code \in {"invalid", "failure"}
  BY DEF Refusals, CauseCodes
<1>4. t.queue["PQ"] = queue["PQ"]
  <2>1. Loud(Now, Recorded(Now, cause, bad))
    <3> HIDE DEF cause
    <3> QED
      BY <1>2, <1>3, RecordedEffect DEF Environment
  <2>2. t = Now \/ t = Recorded(Now, cause, bad)
    BY DEF report_fault, Recorded
  <2> HIDE DEF t
  <2>3. QED
    BY <1>2, <2>1, <2>2 DEF Loud
<1>5. queue' = t.queue
  BY <1>1 DEF Install
<1> HIDE DEF t
<1>6. exchange'.request = "last" => exchange'.response = refusal.code
  BY <1>1 DEF Exchanged
<1>7. exchange'.response # "success"
  BY <1>1, <1>3 DEF Exchanged, None
<1>8. QED
  BY <1>3, <1>4, <1>5, <1>6, <1>7 DEF Answered, None

(* A request that gets to the queue is stored or answered, not both.        *)
LEMMA QueuedAnswered ==
  ASSUME IInv, QueuePageRequest
  PROVE  Answered
<1> DEFINE q == queue["PQ"]
<1>1. PICK request \in Requests, bad \in Faults(Queues) :
        LET s == IF Accepts(q)
                 THEN generate_interrupt(Put(Now, "PQ", request, bad), "PQ", bad)
                 ELSE Now
        IN Install(s) /\ Exchanged(request, QueueResponse(q, s.queue["PQ"]))
  BY DEF QueuePageRequest
<1> DEFINE p == Put(Now, "PQ", request, bad)
           t == generate_interrupt(p, "PQ", bad)
           r == queue'["PQ"]
<1>2. /\ Sound(Now) /\ Environment /\ bad \in FaultSet
      /\ Now.queue = queue /\ Well(q, "PQ") /\ Now \in CallState
  BY FaultsType, InvTypes DEF IInv, Sound, Queues
<1>3. Exchanged(request, QueueResponse(q, r))
  BY <1>1 DEF Install
<1>4. /\ exchange'.request = "last" => exchange'.response = QueueResponse(q, r)
      /\ exchange'.response = "success" => QueueResponse(q, r) = "success"
  BY <1>3 DEF Exchanged, None
<1>5. CASE ~Accepts(q)
  <2>1. r = q
    BY <1>1, <1>2, <1>5 DEF Install
  <2>2. QueueResponse(q, r) # None
    BY <1>5, <2>1 DEF QueueResponse, Accepts, None
  <2>3. QueueResponse(q, r) = "success" => r.on /\ r.of /\ ~r.mf
    BY <1>5, <2>1 DEF QueueResponse, Accepts, None
  <2> HIDE DEF r, q
  <2>4. QED
    BY <1>4, <2>1, <2>2, <2>3 DEF Answered, r, q
<1>6. CASE Accepts(q)
  <2>1. {"FQ", "PQ"} \subseteq Queues /\ "PQ" \in Units /\ request \in Entries("PQ")
    BY ConstantsAssumption DEF Queues, Units, Entries
  <2>2. Sound(p)
    BY <1>2, <1>6, <2>1, PutSound
  <2>3. LET stored == p.queue["PQ"]
        IN /\ stored.on
           /\ \/ stored.of /\ ~stored.mf /\ stored.tail = q.tail
              \/ ~stored.of /\ stored.mf /\ stored.tail = q.tail
              \/ ~stored.of /\ ~stored.mf /\ stored.tail # q.tail
    BY <1>2, <1>6, <2>1, PutMovesTail
  <2> HIDE DEF p
  <2>4. t.queue["PQ"] = p.queue["PQ"]
    BY <1>2, <2>1, <2>2, GenerateEffect DEF Environment, Loud
  <2>5. queue' = t.queue
    BY <1>1, <1>6 DEF Install, p
  <2>6. r = p.queue["PQ"]
    BY <2>4, <2>5
  <2> HIDE DEF r, t, q
  <2>7. /\ (r.tail = q.tail) = (QueueResponse(q, r) # None)
        /\ QueueResponse(q, r) = "success" => r.on /\ r.of /\ ~r.mf
    BY <1>6, <2>3, <2>6 DEF QueueResponse, Accepts, None
  <2>8. QED
    BY <1>4, <2>7 DEF Answered, r, q
<1>7. QED
  BY <1>5, <1>6

(* Every page request that asks for a response gets exactly one: it is in   *)
(* the queue for software, or the IOMMU answers it at once; and success     *)
(* says that the queue was full, whatever the report of the fault or the    *)
(* interrupt of the request did on the way.                                 *)
THEOREM EveryRequestAnsweredOnce == Spec => AnsweredOnce
<1>1. ASSUME IInv, [Next]_vars
      PROVE  [Answered]_vars
  <2>1. CASE RefusePageRequest
    BY <1>1, <2>1, RefusalAnswered
  <2>2. CASE QueuePageRequest
    BY <1>1, <2>2, QueuedAnswered
  <2>3. CASE TranslationFault \/ CommandEvent \/ CounterOverflow \/ Software
    <3>1. Software => exchange' = Quiet
      BY ZenonT(30) DEF Software, WriteBase, WriteHead, WriteCsr,
         WriteCqcsr, WriteIpsr, WriteVecCtrl, WriteIcvec
    <3>2. exchange' = Quiet
      BY <2>3, <3>1 DEF TranslationFault, CommandEvent, CounterOverflow
    <3>3. QED
      BY <3>2, QuietIsAnswered
  <2>4. QED
    BY <1>1, <2>1, <2>2, <2>3 DEF Next, handle_page_request
<1>2. [Answered]_vars => [/\ exchange'.request = "last" =>
                              (queue'["PQ"].tail = queue["PQ"].tail) =
                              (exchange'.response # None)
                          /\ exchange'.response = "success" =>
                              queue'["PQ"].on /\ queue'["PQ"].of
                                /\ ~queue'["PQ"].mf]_vars
  BY DEF Answered
<1>3. QED
  BY <1>1, <1>2, InvHolds, PTL DEF Spec, AnsweredOnce
=============================================================================
