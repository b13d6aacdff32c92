--------------------------- MODULE PageWalkProofs ---------------------------
(* Proofs about PageWalk for every shape of the tables, every request and    *)
(* every sequence of stores of the harts.                                    *)
EXTENDS PageWalk, TLAPS

(* Arithmetic of page numbers. *)
LEMMA RemainderBound ==
  ASSUME NEW p \in Nat, NEW n \in Nat \ {0}
  PROVE  /\ p % n \in Nat
         /\ p - (p % n) \in Nat
  <1>1. p % n \in 0 .. n - 1
    BY SMT
  <1>2. p = n * (p \div n) + (p % n)
    BY SMT
  <1>3. p \div n \in Nat
    BY SMT
  <1>4. n * (p \div n) \in Nat
    <2> DEFINE q == p \div n
    <2>1. q \in Nat
      BY <1>3
    <2> HIDE DEF q
    <2>2. n * q \in Nat
      BY <2>1, SMT
    <2> QED BY <2>2 DEF q
  <1> DEFINE m == n * (p \div n)
             r == p % n
  <1>5. r \in Nat /\ m \in Nat /\ p = m + r
    BY <1>1, <1>2, <1>4
  <1> HIDE DEF m, r
  <1>6. r \in Nat /\ p - r \in Nat
    BY <1>5
  <1> QED BY <1>6 DEF r

LEMMA QuotientIsNat ==
  ASSUME NEW p \in Nat, NEW n \in Nat \ {0}
  PROVE  p \div n \in Nat
  BY SMT

(* The helpers stay within their types. *)
LEMMA TranslatedIsNat ==
  ASSUME NEW e \in Ptes, NEW n, Span[n] \in Nat \ {0}, NEW page \in Nat
  PROVE  Translated(e, n, page) \in Nat
  <1> DEFINE size == IF e.N THEN 16 ELSE Span[n]
  <1>1. e.ppn \in Nat
    BY DEF Ptes
  <1>2. size \in Nat \ {0}
    OBVIOUS
  <1> HIDE DEF size
  <1>3. e.ppn - (e.ppn % size) \in Nat /\ page % size \in Nat
    BY <1>1, <1>2, RemainderBound
  <1>4. (e.ppn - (e.ppn % size)) + (page % size) \in Nat
    BY <1>3
  <1> QED BY <1>4 DEF Translated, size

LEMMA MarkType ==
  ASSUME NEW e \in Ptes, NEW dirty \in BOOLEAN
  PROVE  /\ Mark(e, dirty) \in Ptes
         /\ Mark(e, dirty).A
         /\ Mark(e, dirty).D = (e.D \/ (dirty /\ e.W))
         /\ Mark(e, dirty).W = e.W
  <1>1. e = [V |-> e.V, R |-> e.R, W |-> e.W, X |-> e.X, U |-> e.U, A |-> e.A,
             D |-> e.D, N |-> e.N, reserved |-> e.reserved, ppn |-> e.ppn]
    BY DEF Ptes
  <1>2. Mark(e, dirty) \in Ptes
    BY Zenon DEF Mark, Ptes
  <1>3. "A" \in DOMAIN e /\ "D" \in DOMAIN e /\ "W" \in DOMAIN e
    BY DEF Ptes
  <1> QED BY <1>2, <1>3, Zenon DEF Mark

LEMMA AllRightsType ==
  ASSUME NEW page \in Nat
  PROVE  AllRights(page) \in Ptes
  BY DEF AllRights, Ptes

LEMMA FailedType ==
  ASSUME NEW cause \in Nat, NEW at \in Nat, NEW b \in BOOLEAN, NEW c \in BOOLEAN
  PROVE  Failed(cause, <<at, b, c>>) \in Answers
  BY DEF Failed, Answers

LEMMA LevelsAreNat ==
  /\ Levels1 \in Nat \ {0} /\ Levels2 \in Nat \ {0}
  /\ 0 \in 0 .. Levels1 - 1 /\ Levels1 - 1 \in 0 .. Levels1 - 1
  /\ 0 \in 0 .. Levels2 - 1 /\ Levels2 - 1 \in 0 .. Levels2 - 1
  <1>1. Levels1 \in Nat \ {0} /\ Levels2 \in Nat \ {0}
    BY ConstantsAssumption
  <1> QED BY <1>1

LEMMA FaultType ==
  ASSUME NEW cause \in Nat, Fault(cause)
  PROVE  pc' \in Pcs /\ answer' \in Answers
  <1>1. Failed(cause, <<0, FALSE, FALSE>>) \in Answers
    BY FailedType
  <1> QED BY <1>1 DEF Fault, Pcs

LEMMA ByAccessIsNat ==
  ASSUME NEW r, NEW x \in Nat, NEW y \in Nat, NEW z \in Nat
  PROVE  ByAccess(r, x, y, z) \in Nat
  BY DEF ByAccess

LEMMA AccessFaultType ==
  ASSUME AccessFault
  PROVE  pc' \in Pcs /\ answer' \in Answers
  BY FaultType, ByAccessIsNat DEF AccessFault

LEMMA PageFaultType ==
  ASSUME PageFault
  PROVE  pc' \in Pcs /\ answer' \in Answers
  BY FaultType, ByAccessIsNat DEF PageFault

LEMMA ReadFaultType ==
  ASSUME NEW c, ReadFault(c)
  PROVE  pc' \in Pcs /\ answer' \in Answers
  BY FaultType, AccessFaultType DEF ReadFault

LEMMA GuestPageFaultType ==
  ASSUME TypeOK, NEW wrote \in BOOLEAN, GuestPageFault(wrote)
  PROVE  pc' \in Pcs /\ answer' \in Answers
  <1>1. ByAccess(req, 20, 21, 23) \in Nat
    BY ByAccessIsNat
  <1>2. gpa \in Nat /\ is_implicit \in BOOLEAN /\ (is_implicit /\ wrote) \in BOOLEAN
    BY DEF TypeOK
  <1>3. Failed(ByAccess(req, 20, 21, 23), <<gpa, is_implicit, is_implicit /\ wrote>>)
          \in Answers
    BY <1>1, <1>2, FailedType
  <1> QED BY <1>3 DEF GuestPageFault, Pcs

LEMMA CompareAndMarkType ==
  ASSUME TypeOK, NEW c, NEW read \in Ptes, NEW dirty \in BOOLEAN,
         CompareAndMark(c, read, dirty)
  PROVE  mem' \in [Cells -> Ptes]
  <1>1. Mark(read, dirty) \in Ptes
    BY MarkType
  <1> QED BY <1>1 DEF TypeOK, CompareAndMark

LEMMA SpanIsPositive ==
  /\ \A n \in 0 .. Levels1 - 1 : Span[n] \in Nat \ {0}
  /\ \A n \in 0 .. Levels2 - 1 : Span[n] \in Nat \ {0}
  <1>1. \A n \in 0 .. Levels1 - 1 : n \in 0 .. Levels1
    BY LevelsAreNat
  <1>2. \A n \in 0 .. Levels2 - 1 : n \in 0 .. Levels2
    BY LevelsAreNat
  <1> QED BY <1>1, <1>2, ConstantsAssumption

LEMMA FirstDoneType ==
  ASSUME TypeOK, NEW e \in Ptes, FirstDone(e)
  PROVE  gpa' \in Nat
  <1>1. req.iova \in Nat
    BY ConstantsAssumption DEF TypeOK, IsRequest
  <1>2. Span[i] \in Nat \ {0}
    BY SpanIsPositive DEF TypeOK
  <1> QED BY <1>1, <1>2, TranslatedIsNat DEF FirstDone

LEMMA GrantedType ==
  ASSUME TypeOK, NEW page \in Nat, NEW e \in Ptes, NEW mrif \in BOOLEAN
  PROVE  Granted(page, e, mrif) \in Answers
  <1>1. req.exec_req \in BOOLEAN
    BY ConstantsAssumption DEF TypeOK, IsRequest
  <1>2. /\ (pte.R /\ e.R) \in BOOLEAN
        /\ (pte.W /\ e.W /\ pte.D /\ e.D) \in BOOLEAN
        /\ (pte.X /\ e.X /\ pte.R /\ e.R /\ req.exec_req) \in BOOLEAN
    BY Zenon
  <1>3. <<0, FALSE, FALSE>> \in Nat \X BOOLEAN \X BOOLEAN
    OBVIOUS
  <1> DEFINE r == pte.R /\ e.R
             w == pte.W /\ e.W /\ pte.D /\ e.D
             x == pte.X /\ e.X /\ pte.R /\ e.R /\ req.exec_req
             no == <<0, FALSE, FALSE>>
  <1>4. r \in BOOLEAN /\ w \in BOOLEAN /\ x \in BOOLEAN
        /\ no \in Nat \X BOOLEAN \X BOOLEAN
    BY <1>2, <1>3
  <1>5. Granted(page, e, mrif) =
          [fault |-> 0, iotval2 |-> no, page |-> page, R |-> r, W |-> w, X |-> x,
           mrif |-> mrif]
    BY Zenon DEF Granted
  <1> HIDE DEF r, w, x, no
  <1>6. [fault |-> 0, iotval2 |-> no, page |-> page, R |-> r, W |-> w, X |-> x,
         mrif |-> mrif] \in Answers
    BY <1>4 DEF Answers
  <1> QED BY <1>5, <1>6

-----------------------------------------------------------------------------
(* Each action keeps the types. *)

LEMMA StartType ==
  ASSUME TypeOK, NEW r \in Requests, Start(r)
  PROVE  TypeOK'
  <1> USE DEF TypeOK, Start
  <1>1. /\ mem' \in [Cells -> Ptes]
        /\ vcell' \in Cells \cup {NoCell} /\ gcell' \in Cells \cup {NoCell}
        /\ a' \in Nat /\ gpte' \in Ptes /\ stores' \in 0 .. MaxStores
        /\ vstale' \in BOOLEAN /\ gstale' \in BOOLEAN
        /\ is_implicit_write' \in BOOLEAN /\ req' \in Requests
        /\ j' \in 0 .. Levels2 - 1
    OBVIOUS
  <1>2. r.iova \in Nat /\ r.root1 \in Nat /\ r.stage1 \in BOOLEAN
    BY ConstantsAssumption DEF IsRequest
  <1>3. /\ gpa' \in Nat /\ is_implicit' \in BOOLEAN
        /\ i' \in 0 .. Levels1 - 1
    BY <1>2, LevelsAreNat
  <1>4. pte' \in Ptes
    BY AllRightsType
  <1>5. pc' \in Pcs /\ answer' \in Answers
    <2>1. CASE r.stage1 /\ r.iova >= Span[Levels1]
      BY <2>1, FaultType, ByAccessIsNat
    <2>2. CASE ~(r.stage1 /\ r.iova >= Span[Levels1])
      <3>1. NoAnswer \in Answers
        BY FailedType DEF NoAnswer
      <3> QED BY <2>2, <3>1 DEF Pcs
    <2> QED BY <2>1, <2>2
  <1> QED BY <1>1, <1>3, <1>4, <1>5

LEMMA EnterSecondType ==
  ASSUME TypeOK, EnterSecond
  PROVE  TypeOK'
  <1> USE DEF TypeOK, EnterSecond, first, target
  <1>1. req.root2 \in Nat
    BY ConstantsAssumption DEF IsRequest
  <1>2. CASE ~req.stage2 /\ gpte' = AllRights(gpa) /\ pc' = AfterSecond
             /\ j' = 0 /\ UNCHANGED <<a, answer>>
    <2>1. AllRights(gpa) \in Ptes
      BY AllRightsType
    <2>2. 0 \in 0 .. Levels2 - 1
      BY LevelsAreNat
    <2>3. AfterSecond \in Pcs
      BY DEF AfterSecond, Pcs
    <2> QED BY <1>2, <2>1, <2>2, <2>3
  <1>3. CASE GuestPageFault(is_implicit_write) /\ UNCHANGED <<j, a, gpte>>
    BY <1>3, GuestPageFaultType
  <1>4. CASE j' = Levels2 - 1 /\ a' = req.root2 /\ pc' = "gread"
             /\ UNCHANGED <<gpte, answer>>
    BY <1>1, <1>4, LevelsAreNat DEF Pcs
  <1> QED BY <1>2, <1>3, <1>4

LEMMA ReadSecondType ==
  ASSUME TypeOK, ReadSecond
  PROVE  TypeOK'
  <1> USE DEF TypeOK, first, target
  <1> DEFINE c == <<a, Vpn(gpa, j, Levels2)>>
             e == mem[c]
  <1>1. UNCHANGED <<mem, req, first, target, stores>>
    BY DEF ReadSecond
  <1>2. CASE ~Readable(c)
    <2>1. ReadFault(c) /\ UNCHANGED second
      BY <1>2 DEF ReadSecond
    <2>2. pc' \in Pcs /\ answer' \in Answers
      BY <2>1, ReadFaultType
    <2> QED BY <1>1, <2>1, <2>2 DEF second
  <1>3. CASE Readable(c)
    <2>1. c \in Cells /\ e \in Ptes /\ e.ppn \in Nat
      BY <1>3 DEF Readable, Ptes
    <2>2. gpte' = e /\ gcell' = c /\ gstale' = FALSE
      BY <1>3 DEF ReadSecond
    <2>3. \/ GuestPageFault(is_implicit_write) /\ UNCHANGED <<j, a>>
          \/ ~BadPointer(e, j) /\ j' = j - 1 /\ a' = e.ppn
             /\ UNCHANGED <<pc, answer>>
          \/ pc' = (IF MarkedSecond(e) THEN AfterSecond ELSE "gamo")
             /\ UNCHANGED <<j, a, answer>>
      BY <1>3, Zenon DEF ReadSecond
    <2> HIDE DEF c, e
    <2>4. CASE GuestPageFault(is_implicit_write) /\ UNCHANGED <<j, a>>
      BY <1>1, <2>1, <2>2, <2>4, GuestPageFaultType
    <2>5. CASE ~BadPointer(e, j) /\ j' = j - 1 /\ a' = e.ppn
               /\ UNCHANGED <<pc, answer>>
      <3>1. j - 1 \in 0 .. Levels2 - 1
        BY <2>5, LevelsAreNat DEF BadPointer
      <3> QED BY <1>1, <2>1, <2>2, <2>5, <3>1
    <2>6. CASE pc' = (IF MarkedSecond(e) THEN AfterSecond ELSE "gamo")
               /\ UNCHANGED <<j, a, answer>>
      BY <1>1, <2>1, <2>2, <2>6 DEF AfterSecond, Pcs
    <2> QED BY <2>3, <2>4, <2>5, <2>6
  <1> QED BY <1>2, <1>3

LEMMA UpdateSecondType ==
  ASSUME TypeOK, UpdateSecond
  PROVE  TypeOK'
  <1> USE DEF TypeOK, first, target
  <1>1. UNCHANGED <<req, first, target, j, a, gpte, gcell, stores>>
    BY DEF UpdateSecond
  <1>2. CASE gcell \in ReadOnly
    BY <1>1, <1>2, AccessFaultType DEF UpdateSecond
  <1>3. CASE gcell \notin ReadOnly
    <2>1. (Writes \/ is_implicit) \in BOOLEAN
      BY Zenon
    <2>2. CompareAndMark(gcell, gpte, Writes \/ is_implicit)
      BY <1>3 DEF UpdateSecond
    <2>3. mem' \in [Cells -> Ptes]
      <3> DEFINE d == Writes \/ is_implicit
      <3>1. d \in BOOLEAN /\ CompareAndMark(gcell, gpte, d)
        BY <2>1, <2>2
      <3> HIDE DEF d
      <3> QED BY <3>1, CompareAndMarkType
    <2>4. pc' \in Pcs /\ gstale' = FALSE /\ UNCHANGED answer
      BY <1>3 DEF UpdateSecond, AfterSecond, Pcs
    <2> QED BY <1>1, <2>3, <2>4
  <1> QED BY <1>2, <1>3

LEMMA ReadFirstType ==
  ASSUME TypeOK, ReadFirst
  PROVE  TypeOK'
  <1> USE DEF TypeOK, second
  <1> DEFINE c == <<Translated(gpte, j, gpa), Vpn(req.iova, i, Levels1)>>
             e == mem[c]
  <1>1. UNCHANGED <<mem, req, second, stores>>
    BY DEF ReadFirst
  <1>2. CASE ~Readable(c)
    <2>1. ReadFault(c) /\ UNCHANGED <<first, target>>
      BY <1>2 DEF ReadFirst
    <2>2. pc' \in Pcs /\ answer' \in Answers
      BY <2>1, ReadFaultType
    <2> QED BY <1>1, <2>1, <2>2 DEF first, target
  <1>3. CASE Readable(c)
    <2>1. c \in Cells /\ e \in Ptes /\ e.ppn \in Nat
      BY <1>3 DEF Readable, Ptes
    <2>2. pte' = e /\ vcell' = c /\ vstale' = FALSE
      BY <1>3 DEF ReadFirst
    <2>3. \/ PageFault /\ UNCHANGED <<i, target, is_implicit_write>>
          \/ ~BadPointer(e, i) /\ i' = i - 1 /\ gpa' = e.ppn /\ pc' = "second"
             /\ UNCHANGED <<is_implicit, is_implicit_write, answer>>
          \/ FirstDone(e) /\ UNCHANGED <<i, is_implicit_write, answer>>
          \/ is_implicit_write' = TRUE /\ UNCHANGED <<i, target>>
             /\ ((pc' = "vamo" /\ UNCHANGED answer) \/ GuestPageFault(TRUE))
      BY <1>3, Zenon DEF ReadFirst
    <2> HIDE DEF c, e
    <2>4. CASE PageFault /\ UNCHANGED <<i, target, is_implicit_write>>
      BY <1>1, <2>1, <2>2, <2>4, PageFaultType DEF target
    <2>5. CASE ~BadPointer(e, i) /\ i' = i - 1 /\ gpa' = e.ppn /\ pc' = "second"
               /\ UNCHANGED <<is_implicit, is_implicit_write, answer>>
      <3>1. i - 1 \in 0 .. Levels1 - 1
        BY <2>5, LevelsAreNat DEF BadPointer
      <3> QED BY <1>1, <2>1, <2>2, <2>5, <3>1 DEF Pcs
    <2>6. CASE FirstDone(e) /\ UNCHANGED <<i, is_implicit_write, answer>>
      <3>1. gpa' \in Nat
        BY <2>1, <2>6, FirstDoneType
      <3> QED BY <1>1, <2>1, <2>2, <2>6, <3>1 DEF FirstDone, Pcs
    <2>7. CASE is_implicit_write' = TRUE /\ UNCHANGED <<i, target>>
               /\ ((pc' = "vamo" /\ UNCHANGED answer) \/ GuestPageFault(TRUE))
      <3>1. pc' \in Pcs /\ answer' \in Answers
        BY <2>7, GuestPageFaultType DEF Pcs
      <3> QED BY <1>1, <2>1, <2>2, <2>7, <3>1 DEF target
    <2> QED BY <2>3, <2>4, <2>5, <2>6, <2>7
  <1> QED BY <1>2, <1>3

LEMMA UpdateFirstType ==
  ASSUME TypeOK, UpdateFirst
  PROVE  TypeOK'
  <1> USE DEF TypeOK, second
  <1>1. UNCHANGED <<req, i, pte, vcell, is_implicit_write, second, stores>>
    BY DEF UpdateFirst
  <1>2. CASE vcell \in ReadOnly
    BY <1>1, <1>2, AccessFaultType DEF UpdateFirst, target
  <1>3. CASE vcell \notin ReadOnly
    <2>1. CompareAndMark(vcell, pte, req.write) /\ vstale' = FALSE
          /\ UNCHANGED answer
      BY <1>3 DEF UpdateFirst
    <2>2. req.write \in BOOLEAN
      BY ConstantsAssumption DEF IsRequest
    <2>3. mem' \in [Cells -> Ptes]
      BY <2>1, <2>2, CompareAndMarkType
    <2>4. CASE FirstDone(pte)
      <3>1. gpa' \in Nat
        BY <2>4, FirstDoneType
      <3> QED BY <1>1, <2>1, <2>3, <2>4, <3>1 DEF FirstDone, Pcs
    <2>5. CASE pc' = "second" /\ UNCHANGED target
      BY <1>1, <2>1, <2>3, <2>5 DEF target, Pcs
    <2> QED BY <1>3, <2>4, <2>5 DEF UpdateFirst
  <1> QED BY <1>2, <1>3

LEMMA TranslateMsiType ==
  ASSUME TypeOK, TranslateMsi
  PROVE  TypeOK'
  <1> USE DEF TypeOK, first, target
  <1> DEFINE I == Extract(gpa)
             e == MsiTable[I]
             rights == [AllRights(gpa) EXCEPT !.X = FALSE]
  <1>1. /\ UNCHANGED <<mem, req, first, target, j, a, stores>>
        /\ gcell' = NoCell /\ gstale' = FALSE
    BY DEF TranslateMsi
  <1>2. \/ pc' = "second" /\ UNCHANGED <<gpte, answer>>
        \/ Fault(261) /\ UNCHANGED gpte
        \/ Fault(MsiFault(e)) /\ UNCHANGED gpte
        \/ /\ I \in DOMAIN MsiTable /\ gpte' = rights /\ pc' = "idle"
           /\ answer' = Granted(e.ppn, rights, e.M = 1)
    BY Zenon DEF TranslateMsi
  <1>3. rights \in Ptes
    BY DEF AllRights, Ptes
  <1>4. MsiFault(e) \in Nat
    BY DEF MsiFault
  <1>5. I \in DOMAIN MsiTable => e.ppn \in Nat
    BY ConstantsAssumption DEF MsiPtes
  <1>6. (e.M = 1) \in BOOLEAN
    OBVIOUS
  <1> DEFINE m == e.M = 1
  <1> HIDE DEF I, rights, m
  <1>7. CASE pc' = "second" /\ UNCHANGED <<gpte, answer>>
    BY <1>1, <1>7 DEF Pcs
  <1>8. CASE (Fault(261) \/ Fault(MsiFault(e))) /\ UNCHANGED gpte
    <2>1. pc' \in Pcs /\ answer' \in Answers
      BY <1>4, <1>8, FaultType
    <2> QED BY <1>1, <1>8, <2>1
  <1>9. CASE /\ I \in DOMAIN MsiTable /\ gpte' = rights /\ pc' = "idle"
             /\ answer' = Granted(e.ppn, rights, e.M = 1)
    <2>1. e.ppn \in Nat /\ m \in BOOLEAN /\ answer' = Granted(e.ppn, rights, m)
      BY <1>5, <1>6, <1>9 DEF m
    <2>2. answer' \in Answers
      <3> DEFINE p == e.ppn
      <3>1. p \in Nat /\ answer' = Granted(p, rights, m)
        BY <2>1
      <3> HIDE DEF p
      <3> QED BY <1>3, <2>1, <3>1, GrantedType
    <2> QED BY <1>1, <1>3, <1>9, <2>2 DEF Pcs
  <1> QED BY <1>2, <1>7, <1>8, <1>9

LEMMA ReplyType ==
  ASSUME TypeOK, Reply
  PROVE  TypeOK'
  <1> USE DEF TypeOK, first, second, target, Reply
  <1>1. Translated(gpte, j, gpa) \in Nat
    <2>1. Span[j] \in Nat \ {0}
      BY SpanIsPositive
    <2> QED BY <2>1, TranslatedIsNat
  <1> DEFINE page == Translated(gpte, j, gpa)
  <1>2. page \in Nat /\ answer' = Granted(page, gpte, FALSE)
    BY <1>1
  <1> HIDE DEF page
  <1>3. answer' \in Answers
    BY <1>2, GrantedType
  <1> QED BY <1>3 DEF Pcs

LEMMA StoreType ==
  ASSUME TypeOK, NEW s \in Stores, Store(s)
  PROVE  TypeOK'
  <1> USE DEF TypeOK, target, Store
  <1>1. s[1] \in Cells /\ s[2] \in Ptes
    BY ConstantsAssumption
  <1>2. mem' \in [Cells -> Ptes]
    BY <1>1
  <1>3. vstale' \in BOOLEAN /\ gstale' \in BOOLEAN
    BY Zenon
  <1>4. stores' \in 0 .. MaxStores
    BY ConstantsAssumption
  <1> QED BY <1>2, <1>3, <1>4

(* TypeOK holds for every shape of the tables: the walk stays within its    *)
(* levels and in memory that exists, whatever harts store.                  *)
THEOREM TypeCorrect == Spec => []TypeOK
  <1>1. Init => TypeOK
    <2> SUFFICES ASSUME Init PROVE TypeOK
      OBVIOUS
    <2> USE DEF Init
    <2>1. mem \in [Cells -> Ptes] /\ req \in Requests
      BY ConstantsAssumption
    <2>2. i \in 0 .. Levels1 - 1 /\ j \in 0 .. Levels2 - 1
      BY LevelsAreNat
    <2>3. pte \in Ptes /\ gpte \in Ptes
      BY AllRightsType
    <2>4. answer \in Answers
      BY FailedType DEF NoAnswer
    <2>5. stores \in 0 .. MaxStores
      BY ConstantsAssumption
    <2> QED BY <2>1, <2>2, <2>3, <2>4, <2>5 DEF TypeOK, Pcs
  <1>2. TypeOK /\ [Next]_vars => TypeOK'
    <2> SUFFICES ASSUME TypeOK, [Next]_vars PROVE TypeOK'
      OBVIOUS
    <2>1. CASE UNCHANGED vars
      BY <2>1 DEF TypeOK, vars, first, second, target
    <2>2. CASE \E r \in Requests : Start(r)
      BY <2>2, StartType
    <2>3. CASE Walk
      BY <2>3, EnterSecondType, ReadSecondType, UpdateSecondType, ReadFirstType,
         UpdateFirstType, TranslateMsiType, ReplyType DEF Walk
    <2>4. CASE \E s \in Stores : Store(s)
      BY <2>4, StoreType
    <2> QED BY <2>1, <2>2, <2>3, <2>4 DEF Next
  <1> QED BY <1>1, <1>2, PTL DEF Spec

-----------------------------------------------------------------------------
(* What the walk knows of memory.                                           *)

(* A cell still holds what the walk needs of the leaf e it read there.      *)
Backed(c, e, dirty) ==
  /\ mem[c].A
  /\ mem[c].W = e.W
  /\ (e.D \/ (dirty /\ e.W)) => mem[c].D

(* Where the control is, the leaf to be marked is a leaf and may be marked. *)
Control ==
  /\ pc = "gamo" => gcell # NoCell /\ gpte.V /\ IsLeaf(gpte) /\ req.GADE
  /\ pc = "vamo" => vcell # NoCell /\ pte.V /\ IsLeaf(pte) /\ req.SADE /\ gpte.W
  /\ pc \in {"vread", "vamo"} => is_implicit
  /\ pc \in {"msi", "reply"} => ~is_implicit

(* The second-stage leaf in use. *)
SecondBacked ==
  pc \in {"vread", "vamo", "reply"} /\ gcell # NoCell /\ ~gstale =>
    Backed(gcell, gpte, Writes \/ (is_implicit /\ req.SADE))

(* The first-stage leaf in use, once the first stage is done. *)
FirstBacked ==
  ~is_implicit /\ pc # "idle" /\ vcell # NoCell /\ ~vstale =>
    Backed(vcell, pte, req.write)

Known == Control /\ SecondBacked /\ FirstBacked /\ AnswersAreMarked

Inv == TypeOK /\ Known

(* A mark takes away no mark and no right of any cell. *)
LEMMA MarkKeeps ==
  ASSUME TypeOK, NEW c, NEW read \in Ptes, NEW dirty \in BOOLEAN,
         CompareAndMark(c, read, dirty), NEW d \in Cells
  PROVE  /\ mem[d].A => mem'[d].A
         /\ mem'[d].W = mem[d].W
         /\ mem[d].D => mem'[d].D
  <1>1. CASE mem' = mem
    BY <1>1
  <1>2. CASE Holds(c, read) /\ mem' = [mem EXCEPT ![c] = Mark(read, dirty)]
    <2>1. CASE c = d
      <3>1. mem[d] = read /\ mem'[d] = Mark(read, dirty)
        BY <1>2, <2>1 DEF Holds, TypeOK
      <3>2. /\ Mark(read, dirty).A
            /\ Mark(read, dirty).D = (read.D \/ (dirty /\ read.W))
            /\ Mark(read, dirty).W = read.W
        BY MarkType
      <3> QED BY <3>1, <3>2, Zenon
    <2>2. CASE c # d
      BY <1>2, <2>2 DEF TypeOK
    <2> QED BY <2>1, <2>2
  <1> QED BY <1>1, <1>2 DEF CompareAndMark

LEMMA MarkBacks ==
  ASSUME TypeOK, NEW c \in Cells, NEW read \in Ptes, NEW dirty \in BOOLEAN,
         CompareAndMark(c, read, dirty), Holds(c, read)
  PROVE  /\ mem'[c].A
         /\ mem'[c].W = read.W
         /\ mem'[c].D = (read.D \/ (dirty /\ read.W))
  <1>1. mem'[c] = Mark(read, dirty)
    BY DEF CompareAndMark, TypeOK
  <1> QED BY <1>1, MarkType

(* A walk that ends with a fault claims nothing. *)
LEMMA FaultStops ==
  ASSUME NEW cause, cause # 0, NEW at,
         pc' = "idle", answer' = Failed(cause, at)
  PROVE  Known'
  <1>1. answer'.fault # 0
    BY DEF Failed
  <1> QED BY <1>1 DEF Known, Control, SecondBacked, FirstBacked, AnswersAreMarked

LEMMA AnyFaultStops ==
  ASSUME NEW c, NEW wrote,
         PageFault \/ AccessFault \/ ReadFault(c) \/ GuestPageFault(wrote)
  PROVE  Known'
  BY FaultStops DEF PageFault, AccessFault, ReadFault, GuestPageFault, Fault, ByAccess

LEMMA StartKnown ==
  ASSUME NEW r \in Requests, Start(r)
  PROVE  Known'
  <1>1. CASE r.stage1 /\ r.iova >= Span[Levels1]
    <2>1. Fault(ByAccess(r, 12, 13, 15))
      BY <1>1 DEF Start
    <2> QED BY <2>1, FaultStops DEF Fault, ByAccess
  <1>2. CASE ~(r.stage1 /\ r.iova >= Span[Levels1])
    BY <1>2 DEF Start, Known, Control, SecondBacked, FirstBacked, AnswersAreMarked
  <1> QED BY <1>1, <1>2

LEMMA EnterSecondKnown ==
  ASSUME Inv, EnterSecond
  PROVE  Known'
  <1>1. CASE GuestPageFault(is_implicit_write)
    BY <1>1, AnyFaultStops
  <1>2. CASE ~GuestPageFault(is_implicit_write)
    <2>1. /\ gcell' = NoCell
          /\ pc' \in {AfterSecond, "gread"}
          /\ UNCHANGED <<mem, req, first, target>>
          /\ pc = "second"
      BY <1>2 DEF EnterSecond
    <2>2. /\ pc' # "idle" /\ pc' \notin {"gamo", "vamo", "msi"}
          /\ pc' = "vread" => is_implicit
          /\ pc' = "reply" => ~is_implicit
      BY <2>1 DEF AfterSecond
    <2>3. Control'
      BY <2>1, <2>2 DEF Control, target
    <2>4. SecondBacked' /\ AnswersAreMarked'
      BY <2>1, <2>2 DEF SecondBacked, AnswersAreMarked
    <2>5. FirstBacked'
      BY <2>1 DEF FirstBacked, Backed, Inv, Known, first, target
    <2> QED BY <2>3, <2>4, <2>5 DEF Known
  <1> QED BY <1>1, <1>2

LEMMA ReadSecondKnown ==
  ASSUME Inv, ReadSecond
  PROVE  Known'
  <1> DEFINE c == <<a, Vpn(gpa, j, Levels2)>>
             e == mem[c]
  <1>1. CASE ReadFault(c) \/ GuestPageFault(is_implicit_write)
    <2> HIDE DEF c
    <2> QED BY <1>1, AnyFaultStops
  <1>2. CASE ~ReadFault(c) /\ ~GuestPageFault(is_implicit_write)
    <2>1. /\ c \in Cells /\ gpte' = e /\ gcell' = c /\ gstale' = FALSE
          /\ UNCHANGED <<mem, req, first, target>>
          /\ pc = "gread"
      BY <1>2, Zenon DEF ReadSecond, Readable
    <2>2. \/ UNCHANGED <<pc, answer>>
          \/ /\ ~Malformed(e, j) /\ IsLeaf(e)
             /\ MarkedSecond(e) \/ req.GADE
             /\ pc' = IF MarkedSecond(e) THEN AfterSecond ELSE "gamo"
      BY <1>2, Zenon DEF ReadSecond
    <2>3. FirstBacked'
      <3>1. pc # "idle" /\ UNCHANGED <<mem, req, first, target>>
        BY <2>1
      <3> QED BY <3>1 DEF FirstBacked, Backed, Inv, Known, first, target
    <2>4. c # NoCell
      BY <2>1, ConstantsAssumption
    <2> HIDE DEF c, e
    <2>5. CASE UNCHANGED <<pc, answer>>
      BY <2>1, <2>3, <2>5 DEF Known, Control, SecondBacked, AnswersAreMarked
    <2>6. CASE /\ ~Malformed(e, j) /\ IsLeaf(e)
               /\ MarkedSecond(e) \/ req.GADE
               /\ pc' = IF MarkedSecond(e) THEN AfterSecond ELSE "gamo"
      <3>1. Control'
        BY <2>1, <2>4, <2>6 DEF Control, target, AfterSecond, Malformed, IsLeaf
      <3>2. SecondBacked'
        <4>1. CASE MarkedSecond(e)
          <5>1. gcell' = c /\ mem'[c] = e /\ gpte' = e /\ req' = req
                /\ is_implicit' = is_implicit
            BY <2>1 DEF e, target
          <5> QED BY <4>1, <5>1 DEF SecondBacked, Backed, MarkedSecond, Writes
        <4>2. CASE ~MarkedSecond(e)
          BY <2>6, <4>2 DEF SecondBacked
        <4> QED BY <4>1, <4>2
      <3>3. AnswersAreMarked'
        BY <2>6 DEF AnswersAreMarked, AfterSecond
      <3> QED BY <2>3, <3>1, <3>2, <3>3 DEF Known
    <2> QED BY <2>2, <2>5, <2>6
  <1> QED BY <1>1, <1>2

LEMMA UpdateSecondKnown ==
  ASSUME Inv, UpdateSecond
  PROVE  Known'
  <1>0. TypeOK /\ Known
    BY DEF Inv
  <1>1. CASE gcell \in ReadOnly
    BY <1>1, AnyFaultStops DEF UpdateSecond
  <1>2. CASE gcell \notin ReadOnly
    <2> DEFINE dirty == Writes \/ is_implicit
    <2>1. /\ CompareAndMark(gcell, gpte, dirty)
          /\ pc' = IF Holds(gcell, gpte) THEN AfterSecond ELSE "gread"
          /\ gstale' = FALSE /\ pc = "gamo"
          /\ UNCHANGED <<req, first, target, gpte, gcell>>
      BY <1>2 DEF UpdateSecond
    <2>2. dirty \in BOOLEAN
      BY Zenon
    <2>3. gpte \in Ptes /\ gcell \in Cells
      BY <1>0, <2>1 DEF TypeOK, Known, Control
    <2>4. pc' # "idle" /\ pc' \notin {"gamo", "vamo", "msi"}
          /\ (pc' = "vread" => is_implicit) /\ (pc' = "reply" => ~is_implicit)
      BY <2>1 DEF AfterSecond
    <2>5. Control'
      BY <2>1, <2>4 DEF Control, target
    <2>6. SecondBacked'
      <3>1. CASE Holds(gcell, gpte)
        <4> HIDE DEF dirty
        <4>1. /\ mem'[gcell].A
              /\ mem'[gcell].W = gpte.W
              /\ mem'[gcell].D = (gpte.D \/ (dirty /\ gpte.W))
          BY <1>0, <2>1, <2>2, <2>3, <3>1, MarkBacks
        <4>2. gcell' = gcell /\ gpte' = gpte /\ req' = req /\ is_implicit' = is_implicit
          BY <2>1 DEF target
        <4> USE DEF dirty
        <4>3. /\ mem'[gcell'].A
              /\ mem'[gcell'].W = gpte'.W
              /\ gpte'.D \/ ((Writes' \/ (is_implicit' /\ req'.SADE)) /\ gpte'.W)
                   => mem'[gcell'].D
          BY <4>1, <4>2, Zenon DEF Writes
        <4> QED BY <4>3, Zenon DEF SecondBacked, Backed, Writes
      <3>2. CASE ~Holds(gcell, gpte)
        BY <2>1, <3>2 DEF SecondBacked
      <3> QED BY <3>1, <3>2
    <2>7. FirstBacked'
      <3> HIDE DEF dirty
      <3> SUFFICES ASSUME ~is_implicit, vcell # NoCell, ~vstale
                   PROVE  Backed(vcell, pte, req.write)'
        BY <2>1 DEF FirstBacked, first, target
      <3>1. vcell \in Cells /\ Backed(vcell, pte, req.write)
        BY <1>0, <2>1 DEF TypeOK, Known, FirstBacked
      <3>2. /\ mem[vcell].A => mem'[vcell].A
            /\ mem'[vcell].W = mem[vcell].W
            /\ mem[vcell].D => mem'[vcell].D
        BY <1>0, <2>1, <2>2, <2>3, <3>1, MarkKeeps
      <3>3. vcell' = vcell /\ pte' = pte /\ req' = req
        BY <2>1 DEF first
      <3> QED BY <3>1, <3>2, <3>3, Zenon DEF Backed
    <2>8. AnswersAreMarked'
      BY <2>4 DEF AnswersAreMarked
    <2> QED BY <2>5, <2>6, <2>7, <2>8 DEF Known
  <1> QED BY <1>1, <1>2

LEMMA ReadFirstKnown ==
  ASSUME Inv, ReadFirst
  PROVE  Known'
  <1>0. TypeOK /\ Known
    BY DEF Inv
  <1> DEFINE c == <<Translated(gpte, j, gpa), Vpn(req.iova, i, Levels1)>>
             e == mem[c]
  <1>1. CASE ReadFault(c) \/ PageFault \/ GuestPageFault(TRUE)
    <2> HIDE DEF c
    <2> QED BY <1>1, AnyFaultStops
  <1>2. CASE ~ReadFault(c) /\ ~PageFault /\ ~GuestPageFault(TRUE)
    <2>1. /\ c \in Cells /\ pte' = e /\ vcell' = c /\ vstale' = FALSE
          /\ UNCHANGED <<mem, req, second, stores>>
          /\ pc = "vread"
      BY <1>2, Zenon DEF ReadFirst, Readable
    <2>2. \/ /\ pc' = "second" /\ UNCHANGED is_implicit
          \/ /\ IsLeaf(e) /\ MarkedFirst(e)
             /\ FirstDone(e)
          \/ /\ ~Malformed(e, i) /\ IsLeaf(e) /\ req.SADE
             /\ gpte.W /\ pc' = "vamo" /\ UNCHANGED target
      BY <1>2, Zenon DEF ReadFirst
    <2>3. c # NoCell /\ is_implicit
      BY <1>0, <2>1, ConstantsAssumption DEF Known, Control
    <2> HIDE DEF c
    <2>4. CASE pc' = "second" /\ UNCHANGED is_implicit
      BY <2>1, <2>3, <2>4
         DEF Known, Control, SecondBacked, FirstBacked, AnswersAreMarked
    <2>5. CASE IsLeaf(e) /\ MarkedFirst(e) /\ FirstDone(e)
      <3>1. pc' = "msi" /\ ~is_implicit'
        BY <2>5 DEF FirstDone
      <3>2. Control' /\ SecondBacked' /\ AnswersAreMarked'
        BY <3>1 DEF Control, SecondBacked, AnswersAreMarked
      <3>3. mem'[vcell'] = e /\ pte' = e /\ req' = req
        BY <2>1
      <3> HIDE DEF e
      <3>4. FirstBacked'
        BY <2>5, <3>3 DEF FirstBacked, Backed, MarkedFirst
      <3> QED BY <3>2, <3>4 DEF Known
    <2>6. CASE /\ ~Malformed(e, i) /\ IsLeaf(e) /\ req.SADE
               /\ gpte.W /\ pc' = "vamo" /\ UNCHANGED target
      <3> HIDE DEF e
      <3>1. Control'
        BY <2>1, <2>3, <2>6 DEF Control, target, second, Malformed, IsLeaf
      <3>2. SecondBacked'
        BY <1>0, <2>1, <2>6
           DEF Known, SecondBacked, Backed, Writes, target, second
      <3>3. FirstBacked' /\ AnswersAreMarked'
        BY <2>3, <2>6 DEF FirstBacked, AnswersAreMarked, target
      <3> QED BY <3>1, <3>2, <3>3 DEF Known
    <2> QED BY <2>2, <2>4, <2>5, <2>6
  <1> QED BY <1>1, <1>2

LEMMA UpdateFirstKnown ==
  ASSUME Inv, UpdateFirst
  PROVE  Known'
  <1>0. TypeOK /\ Known
    BY DEF Inv
  <1>1. CASE vcell \in ReadOnly
    BY <1>1, AnyFaultStops DEF UpdateFirst
  <1>2. CASE vcell \notin ReadOnly
    <2>1. /\ CompareAndMark(vcell, pte, req.write) /\ vstale' = FALSE
          /\ pc = "vamo"
          /\ UNCHANGED <<req, pte, vcell>>
      BY <1>2 DEF UpdateFirst
    <2>2. /\ pte \in Ptes /\ vcell \in Cells /\ req.write \in BOOLEAN
          /\ is_implicit
      BY <1>0, <2>1, ConstantsAssumption DEF TypeOK, Known, Control, IsRequest
    <2>3. CASE Holds(vcell, pte)
      <3>1. pc' = "msi" /\ ~is_implicit'
        BY <1>2, <2>3 DEF UpdateFirst, FirstDone
      <3>2. Control' /\ SecondBacked' /\ AnswersAreMarked'
        BY <3>1 DEF Control, SecondBacked, AnswersAreMarked
      <3>3. /\ mem'[vcell].A
            /\ mem'[vcell].W = pte.W
            /\ mem'[vcell].D = (pte.D \/ (req.write /\ pte.W))
        BY <1>0, <2>1, <2>2, <2>3, MarkBacks
      <3>4. FirstBacked'
        BY <2>1, <3>3, Zenon DEF FirstBacked, Backed
      <3> QED BY <3>2, <3>4 DEF Known
    <2>4. CASE ~Holds(vcell, pte)
      <3>1. pc' = "second" /\ UNCHANGED is_implicit
        BY <1>2, <2>4 DEF UpdateFirst, target
      <3> QED BY <2>2, <3>1
              DEF Known, Control, SecondBacked, FirstBacked, AnswersAreMarked
    <2> QED BY <2>3, <2>4
  <1> QED BY <1>1, <1>2

(* A successful answer whose write permission comes from leaves in use.     *)
LEMMA GrantedIsMarked ==
  ASSUME TypeOK, FirstBacked, pc # "idle", ~is_implicit, NEW page, NEW e, NEW mrif,
         pc' = "idle", answer' = Granted(page, e, mrif),
         UNCHANGED <<mem, req, first, target>>
  PROVE  /\ Control' /\ SecondBacked' /\ FirstBacked'
         /\ vcell' # NoCell /\ ~vstale' =>
              /\ mem'[vcell'].A
              /\ (pte'.W /\ req'.write) \/ answer'.W => mem'[vcell'].D
         /\ answer'.W => e.W /\ e.D
  <1>1. Control' /\ SecondBacked' /\ FirstBacked'
    BY DEF Control, SecondBacked, FirstBacked
  <1>2. answer'.W <=> (pte.W /\ e.W /\ pte.D /\ e.D)
    BY DEF Granted
  <1>3. vcell # NoCell /\ ~vstale => Backed(vcell, pte, req.write)
    BY DEF FirstBacked
  <1>4. /\ mem' = mem /\ req' = req /\ pte' = pte
        /\ vcell' = vcell /\ vstale' = vstale
    BY DEF first
  <1> QED BY <1>1, <1>2, <1>3, <1>4, Zenon DEF Backed

LEMMA TranslateMsiKnown ==
  ASSUME Inv, TranslateMsi
  PROVE  Known'
  <1>0. TypeOK /\ Known
    BY DEF Inv
  <1> DEFINE I == Extract(gpa)
             e == MsiTable[I]
             rights == [AllRights(gpa) EXCEPT !.X = FALSE]
  <1>1. /\ UNCHANGED <<mem, req, first, target>>
        /\ gcell' = NoCell /\ pc = "msi"
    BY DEF TranslateMsi
  <1>2. \/ pc' = "second"
        \/ Fault(261)
        \/ MsiFault(e) # 0 /\ Fault(MsiFault(e))
        \/ pc' = "idle" /\ answer' = Granted(e.ppn, rights, e.M = 1)
    BY Zenon DEF TranslateMsi
  <1> HIDE DEF I, e, rights
  <1>3. CASE pc' = "second"
    <2>1. pc # "idle" /\ ~is_implicit
      BY <1>0, <1>1 DEF Known, Control
    <2>2. FirstBacked'
      BY <1>0, <1>1, <2>1 DEF Known, FirstBacked, Backed, first, target
    <2> QED BY <1>3, <2>2 DEF Known, Control, SecondBacked, AnswersAreMarked
  <1>4. CASE Fault(261) \/ (MsiFault(e) # 0 /\ Fault(MsiFault(e)))
    BY <1>4, FaultStops DEF Fault
  <1>5. CASE pc' = "idle" /\ answer' = Granted(e.ppn, rights, e.M = 1)
    <2>1. pc # "idle" /\ ~is_implicit /\ FirstBacked
      BY <1>0, <1>1 DEF Known, Control
    <2> DEFINE m == e.M = 1
               p == e.ppn
    <2>2. answer' = Granted(p, rights, m)
      BY <1>5
    <2> HIDE DEF m, p
    <2>3. /\ Control' /\ SecondBacked' /\ FirstBacked'
          /\ vcell' # NoCell /\ ~vstale' =>
               /\ mem'[vcell'].A
               /\ (pte'.W /\ req'.write) \/ answer'.W => mem'[vcell'].D
      BY <1>0, <1>1, <1>5, <2>1, <2>2, GrantedIsMarked
    <2> QED BY <1>1, <2>3 DEF Known, AnswersAreMarked
  <1> QED BY <1>2, <1>3, <1>4, <1>5

LEMMA ReplyKnown ==
  ASSUME Inv, Reply
  PROVE  Known'
  <1>0. TypeOK /\ Known
    BY DEF Inv
  <1>1. pc = "reply" /\ pc' = "idle"
        /\ UNCHANGED <<mem, req, first, second, target>>
    BY DEF Reply
  <1> DEFINE page == Translated(gpte, j, gpa)
  <1>2. answer' = Granted(page, gpte, FALSE)
    BY DEF Reply
  <1>3. ~is_implicit /\ FirstBacked
    BY <1>0, <1>1 DEF Known, Control
  <1> HIDE DEF page
  <1>4. /\ Control' /\ SecondBacked' /\ FirstBacked'
        /\ vcell' # NoCell /\ ~vstale' =>
             /\ mem'[vcell'].A
             /\ (pte'.W /\ req'.write) \/ answer'.W => mem'[vcell'].D
        /\ answer'.W => gpte.W /\ gpte.D
    BY <1>0, <1>1, <1>2, <1>3, GrantedIsMarked
  <1>5. gcell # NoCell /\ ~gstale =>
          Backed(gcell, gpte, Writes \/ (is_implicit /\ req.SADE))
    BY <1>0, <1>1 DEF Known, SecondBacked
  <1>6. gcell # NoCell /\ ~gstale =>
          /\ mem[gcell].A
          /\ (gpte.W /\ req.write) \/ answer'.W => mem[gcell].D
    BY <1>3, <1>4, <1>5, Zenon DEF Backed, Writes
  <1>7. AnswersAreMarked'
    BY <1>1, <1>4, <1>6 DEF AnswersAreMarked, second
  <1> QED BY <1>4, <1>7 DEF Known

LEMMA StoreKnown ==
  ASSUME Inv, NEW s \in Stores, Store(s)
  PROVE  Known'
  <1>0. TypeOK /\ Known
    BY DEF Inv
  <1>1. /\ mem' = [mem EXCEPT ![s[1]] = s[2]]
        /\ vstale' = (vstale \/ s[1] = vcell)
        /\ gstale' = (gstale \/ s[1] = gcell)
        /\ UNCHANGED <<pc, req, pte, vcell, gpte, gcell, is_implicit, answer>>
    BY DEF Store, target
  <1>2. vcell \in Cells /\ ~vstale' => ~vstale /\ mem'[vcell] = mem[vcell]
    BY <1>0, <1>1 DEF TypeOK
  <1>3. gcell \in Cells /\ ~gstale' => ~gstale /\ mem'[gcell] = mem[gcell]
    BY <1>0, <1>1 DEF TypeOK
  <1>4. vcell \in Cells \cup {NoCell} /\ gcell \in Cells \cup {NoCell}
    BY <1>0 DEF TypeOK
  <1>5. Control'
    BY <1>0, <1>1 DEF Known, Control
  <1>6. SecondBacked'
    BY <1>0, <1>1, <1>3, <1>4 DEF Known, SecondBacked, Backed, Writes
  <1>7. FirstBacked'
    BY <1>0, <1>1, <1>2, <1>4 DEF Known, FirstBacked, Backed
  <1>8. AnswersAreMarked'
    BY <1>0, <1>1, <1>2, <1>3, <1>4 DEF Known, AnswersAreMarked
  <1> QED BY <1>5, <1>6, <1>7, <1>8 DEF Known

LEMMA InvHolds == Spec => []Inv
  <1>1. Init => Known
    BY DEF Init, Known, Control, SecondBacked, FirstBacked, AnswersAreMarked
  <1>2. Inv /\ TypeOK' /\ [Next]_vars => Inv'
    <2> SUFFICES ASSUME Inv, TypeOK', [Next]_vars PROVE Known'
      BY DEF Inv
    <2>1. CASE UNCHANGED vars
      BY <2>1 DEF Inv, Known, Control, SecondBacked, FirstBacked, AnswersAreMarked,
                  Backed, Writes, vars, first, second, target
    <2>2. CASE \E r \in Requests : Start(r)
      BY <2>2, StartKnown
    <2>3. CASE Walk
      BY <2>3, EnterSecondKnown, ReadSecondKnown, UpdateSecondKnown,
         ReadFirstKnown, UpdateFirstKnown, TranslateMsiKnown, ReplyKnown DEF Walk
    <2>4. CASE \E s \in Stores : Store(s)
      BY <2>4, StoreKnown
    <2> QED BY <2>1, <2>2, <2>3, <2>4 DEF Next
  <1>3. Inv <=> TypeOK /\ Known
    BY DEF Inv
  <1> QED BY <1>1, <1>2, <1>3, TypeCorrect, PTL DEF Spec

-----------------------------------------------------------------------------
(* AnswersAreMarked holds for every shape of the tables: no page is handed  *)
(* out through a leaf that memory does not show as used, unless harts       *)
(* stored to it afterwards.                                                 *)
THEOREM AnswersMarked == Spec => []AnswersAreMarked
  <1>1. Inv => AnswersAreMarked
    BY DEF Inv, Known
  <1> QED BY <1>1, InvHolds, PTL

(* Only the two mark actions of the walk store to the tables.               *)
LEMMA OnlyMarksStore ==
  ASSUME Inv, [Next]_vars, stores' = stores, mem' # mem
  PROVE  \/ UpdateSecond /\ gcell \notin ReadOnly
         \/ UpdateFirst /\ vcell \notin ReadOnly
  <1>1. CASE UNCHANGED vars
    BY <1>1 DEF vars
  <1>2. CASE \E r \in Requests : Start(r)
    BY <1>2 DEF Start
  <1>3. CASE Walk
    BY <1>3 DEF Walk, EnterSecond, ReadSecond, ReadFirst, TranslateMsi, Reply,
                UpdateSecond, UpdateFirst
  <1>4. CASE \E s \in Stores : Store(s)
    <2>1. stores' = stores + 1 /\ stores \in Nat
      BY <1>4, ConstantsAssumption DEF Store, Inv, TypeOK
    <2> QED BY <2>1
  <1> QED BY <1>1, <1>2, <1>3, <1>4 DEF Next

LEMMA MarkedCell ==
  ASSUME TypeOK, NEW c, NEW read \in Ptes, NEW dirty \in BOOLEAN,
         CompareAndMark(c, read, dirty), NEW d \in Cells, mem'[d] # mem[d]
  PROVE  /\ d = c
         /\ mem'[d] \in {Mark(mem[d], FALSE), Mark(mem[d], TRUE)}
  <1>1. Holds(c, read) /\ mem' = [mem EXCEPT ![c] = Mark(read, dirty)]
    BY DEF CompareAndMark
  <1>2. d = c
    BY <1>1 DEF TypeOK
  <1>3. mem[d] = read /\ mem'[d] = Mark(read, dirty)
    BY <1>1, <1>2 DEF Holds, TypeOK
  <1>4. dirty = TRUE \/ dirty = FALSE
    OBVIOUS
  <1>5. mem'[d] \in {Mark(mem[d], FALSE), Mark(mem[d], TRUE)}
    BY <1>3, <1>4, Zenon
  <1> QED BY <1>2, <1>5

(* WritesOnlyMark holds for every shape of the tables: the walk never       *)
(* overwrites what harts have stored since it read.                         *)
THEOREM WritesMark == Spec => WritesOnlyMark
  <1> DEFINE OnlyMarks(c) ==
        mem'[c] # mem[c] /\ stores' = stores =>
          /\ mem[c].V /\ IsLeaf(mem[c])
          /\ mem'[c] \in {Mark(mem[c], FALSE), Mark(mem[c], TRUE)}
          /\ mem'[c].D /\ ~mem[c].D => req.write \/ is_implicit
          /\ \/ req.SADE /\ c = vcell
             \/ req.GADE /\ c = gcell
  <1>1. Inv /\ [Next]_vars => \A c \in Cells : OnlyMarks(c)
    <2> SUFFICES ASSUME Inv, [Next]_vars, NEW c \in Cells,
                        mem'[c] # mem[c], stores' = stores
                 PROVE  /\ mem[c].V /\ IsLeaf(mem[c])
                        /\ mem'[c] \in {Mark(mem[c], FALSE), Mark(mem[c], TRUE)}
                        /\ mem'[c].D /\ ~mem[c].D => req.write \/ is_implicit
                        /\ \/ req.SADE /\ c = vcell
                           \/ req.GADE /\ c = gcell
      OBVIOUS
    <2>1. TypeOK /\ Control
      BY DEF Inv, Known
    <2>2. \/ UpdateSecond /\ gcell \notin ReadOnly
          \/ UpdateFirst /\ vcell \notin ReadOnly
      BY OnlyMarksStore
    <2>3. CASE UpdateSecond /\ gcell \notin ReadOnly
      <3> DEFINE dirty == Writes \/ is_implicit
      <3>1. CompareAndMark(gcell, gpte, dirty) /\ pc = "gamo"
        BY <2>3 DEF UpdateSecond
      <3>2. dirty \in BOOLEAN /\ gpte \in Ptes
        BY <2>1, Zenon DEF TypeOK
      <3>3. dirty => req.write \/ is_implicit
        BY DEF Writes
      <3> HIDE DEF dirty
      <3>4. /\ c = gcell /\ mem[c] = gpte
            /\ mem'[c] \in {Mark(mem[c], FALSE), Mark(mem[c], TRUE)}
            /\ mem'[c].D /\ ~mem[c].D => dirty
        <4>1. TypeOK /\ CompareAndMark(gcell, gpte, dirty)
          BY <2>1, <3>1
        <4>2. c = gcell
          BY <3>2, <4>1, MarkedCell
        <4>3. mem[c] = gpte
          BY <4>1, <4>2 DEF CompareAndMark, Holds
        <4>4. mem'[c] \in {Mark(mem[c], FALSE), Mark(mem[c], TRUE)}
          BY <3>2, <4>1, MarkedCell
        <4>5. Mark(gpte, dirty).D = (gpte.D \/ (dirty /\ gpte.W))
          BY <3>2, MarkType
        <4>6. mem'[c] = Mark(gpte, dirty)
          BY <2>1, <4>1, <4>2 DEF CompareAndMark, TypeOK
        <4> QED BY <4>2, <4>3, <4>4, <4>5, <4>6, Zenon
      <3> QED BY <2>1, <3>1, <3>3, <3>4 DEF Control
    <2>4. CASE UpdateFirst /\ vcell \notin ReadOnly
      <3>1. CompareAndMark(vcell, pte, req.write) /\ pc = "vamo"
        BY <2>4 DEF UpdateFirst
      <3>2. req.write \in BOOLEAN /\ pte \in Ptes
        BY <2>1, ConstantsAssumption DEF TypeOK, IsRequest
      <3>3. /\ c = vcell /\ mem[c] = pte
            /\ mem'[c] \in {Mark(mem[c], FALSE), Mark(mem[c], TRUE)}
            /\ mem'[c].D /\ ~mem[c].D => req.write
        <4>1. TypeOK /\ CompareAndMark(vcell, pte, req.write)
          BY <2>1, <3>1
        <4>2. c = vcell
          BY <3>2, <4>1, MarkedCell
        <4>3. mem[c] = pte
          BY <4>1, <4>2 DEF CompareAndMark, Holds
        <4>4. mem'[c] \in {Mark(mem[c], FALSE), Mark(mem[c], TRUE)}
          BY <3>2, <4>1, MarkedCell
        <4>5. Mark(pte, req.write).D = (pte.D \/ (req.write /\ pte.W))
          BY <3>2, MarkType
        <4>6. mem'[c] = Mark(pte, req.write)
          BY <2>1, <4>1, <4>2 DEF CompareAndMark, TypeOK
        <4> QED BY <4>2, <4>3, <4>4, <4>5, <4>6, Zenon
      <3> QED BY <2>1, <3>1, <3>3 DEF Control
    <2> QED BY <2>2, <2>3, <2>4
  <1>2. UNCHANGED vars => UNCHANGED <<mem, stores>>
    BY DEF vars
  <1> QED BY <1>1, InvHolds, PTL DEF Spec, WritesOnlyMark

(* TablesAreMarked holds for every shape of the tables: a store to a table  *)
(* of the first stage is preceded by the mark of the page that holds it.    *)
THEOREM TablesMarked == Spec => TablesAreMarked
  <1>1. Inv /\ [Next]_vars =>
          (pc = "vamo" /\ mem' # mem /\ stores' = stores /\ gcell # NoCell /\ ~gstale
             => mem[gcell].W /\ mem[gcell].A /\ mem[gcell].D)
    <2> SUFFICES ASSUME Inv, pc = "vamo", gcell # NoCell, ~gstale
                 PROVE  mem[gcell].W /\ mem[gcell].A /\ mem[gcell].D
      OBVIOUS
    <2>1. is_implicit /\ req.SADE /\ gpte.W
      BY DEF Inv, Known, Control
    <2>2. Backed(gcell, gpte, Writes \/ (is_implicit /\ req.SADE))
      BY DEF Inv, Known, SecondBacked
    <2> QED BY <2>1, <2>2 DEF Backed
  <1> QED BY <1>1, InvHolds, PTL DEF Spec, TablesAreMarked
-----------------------------------------------------------------------------
(* The walk comes to its end.                                               *)

(* An entry that is to be marked is still in its cell, unless a hart stored *)
(* there.                                                                   *)
AsRead ==
  /\ pc = "gamo" /\ ~gstale => Holds(gcell, gpte)
  /\ pc = "vamo" /\ ~vstale => Holds(vcell, pte)

LEMMA FaultLeavesNoMark ==
  ASSUME NEW c, NEW wrote, NEW cause,
         Fault(cause) \/ PageFault \/ AccessFault \/ ReadFault(c) \/ GuestPageFault(wrote)
  PROVE  pc' = "idle"
  BY DEF Fault, PageFault, AccessFault, ReadFault, GuestPageFault

LEMMA WalkAsRead ==
  ASSUME Walk
  PROVE  AsRead'
  <1>1. CASE EnterSecond
    <2>1. pc' \in {"idle", "gread", "vread", "reply"}
      BY <1>1, FaultLeavesNoMark DEF EnterSecond, AfterSecond
    <2> QED BY <2>1 DEF AsRead
  <1>2. CASE ReadSecond
    <2> DEFINE c == <<a, Vpn(gpa, j, Levels2)>>
               e == mem[c]
    <2>1. CASE ReadFault(c) \/ GuestPageFault(is_implicit_write)
      <3> HIDE DEF c
      <3>1. pc' = "idle"
        BY <2>1, FaultLeavesNoMark
      <3> QED BY <3>1 DEF AsRead
    <2>2. CASE ~ReadFault(c) /\ ~GuestPageFault(is_implicit_write)
      <3>1. /\ mem' = mem /\ gpte' = e /\ gcell' = c /\ pc = "gread"
            /\ pc' \in {"gread", "vread", "reply", "gamo"}
        BY <1>2, <2>2, Zenon DEF ReadSecond, AfterSecond
      <3> QED BY <3>1 DEF AsRead, Holds
    <2> QED BY <2>1, <2>2
  <1>3. CASE UpdateSecond
    <2>1. pc' \in {"idle", "gread", "vread", "reply"}
      BY <1>3, FaultLeavesNoMark DEF UpdateSecond, AfterSecond
    <2> QED BY <2>1 DEF AsRead
  <1>4. CASE ReadFirst
    <2> DEFINE c == <<Translated(gpte, j, gpa), Vpn(req.iova, i, Levels1)>>
               e == mem[c]
    <2>1. CASE ReadFault(c) \/ PageFault \/ GuestPageFault(TRUE)
      <3> HIDE DEF c
      <3>1. pc' = "idle"
        BY <2>1, FaultLeavesNoMark, Zenon
      <3> QED BY <3>1 DEF AsRead
    <2>2. CASE ~ReadFault(c) /\ ~PageFault /\ ~GuestPageFault(TRUE)
      <3>1. /\ mem' = mem /\ pte' = e /\ vcell' = c
            /\ pc' \in {"second", "msi", "vamo"}
        BY <1>4, <2>2, Zenon DEF ReadFirst, FirstDone
      <3> QED BY <3>1 DEF AsRead, Holds
    <2> QED BY <2>1, <2>2
  <1>5. CASE UpdateFirst
    <2>1. pc' \in {"idle", "msi", "second"}
      BY <1>5, FaultLeavesNoMark DEF UpdateFirst, FirstDone
    <2> QED BY <2>1 DEF AsRead
  <1>6. CASE TranslateMsi
    <2>1. pc' \in {"idle", "second"}
      BY <1>6, Zenon DEF TranslateMsi, Fault
    <2> QED BY <2>1 DEF AsRead
  <1>7. CASE Reply
    BY <1>7 DEF Reply, AsRead
  <1> QED BY <1>1, <1>2, <1>3, <1>4, <1>5, <1>6, <1>7 DEF Walk

LEMMA StoreAsRead ==
  ASSUME Inv, AsRead, NEW s \in Stores, Store(s)
  PROVE  AsRead'
  <1>1. /\ mem' = [mem EXCEPT ![s[1]] = s[2]]
        /\ vstale' = (vstale \/ s[1] = vcell)
        /\ gstale' = (gstale \/ s[1] = gcell)
        /\ UNCHANGED <<pc, pte, vcell, gpte, gcell>>
    BY DEF Store
  <1>2. TypeOK /\ Control
    BY DEF Inv, Known
  <1>3. pc = "gamo" => gcell \in Cells
    BY <1>2 DEF TypeOK, Control
  <1>4. pc = "vamo" => vcell \in Cells
    BY <1>2 DEF TypeOK, Control
  <1>5. pc' = "gamo" /\ ~gstale' => Holds(gcell, gpte)'
    BY <1>1, <1>2, <1>3 DEF AsRead, Holds, TypeOK
  <1>6. pc' = "vamo" /\ ~vstale' => Holds(vcell, pte)'
    BY <1>1, <1>2, <1>4 DEF AsRead, Holds, TypeOK
  <1> QED BY <1>5, <1>6 DEF AsRead

LEMMA AsReadHolds == Spec => [](Inv /\ AsRead)
  <1>1. Init => AsRead
    BY DEF Init, AsRead
  <1>2. Inv /\ AsRead /\ [Next]_vars => AsRead'
    <2> SUFFICES ASSUME Inv, AsRead, [Next]_vars PROVE AsRead'
      OBVIOUS
    <2>1. CASE UNCHANGED vars
      BY <2>1 DEF AsRead, Holds, vars, first, second
    <2>2. CASE \E r \in Requests : Start(r)
      <3>1. pc' \in {"idle", "second", "msi"}
        BY <2>2, Zenon DEF Start, Fault
      <3> QED BY <3>1 DEF AsRead
    <2>3. CASE Walk
      BY <2>3, WalkAsRead
    <2>4. CASE \E s \in Stores : Store(s)
      BY <2>4, StoreAsRead
    <2> QED BY <2>1, <2>2, <2>3, <2>4 DEF Next
  <1> QED BY <1>1, <1>2, InvHolds, PTL DEF Spec

(* The steps of the passes still to come for the first stage.               *)
Passes == IF is_implicit THEN (Levels2 + 5) * (i + 1) ELSE 0

LEMMA Product ==
  ASSUME NEW m \in Nat, NEW n \in Nat
  PROVE  /\ m * (n + 1) \in Nat
         /\ m * (n + 1) >= m
         /\ n # 0 => m * ((n - 1) + 1) = m * (n + 1) - m
  <1>1. m * (n + 1) = m * n + m
    BY SMT
  <1>2. m * n \in Nat
    BY SMT
  <1>3. n # 0 => (n - 1) + 1 = n
    OBVIOUS
  <1> DEFINE p == m * n
             q == m * (n + 1)
  <1>4. p \in Nat /\ q = p + m /\ (n # 0 => m * ((n - 1) + 1) = p)
    BY <1>1, <1>2, <1>3
  <1> HIDE DEF p, q
  <1>5. /\ q \in Nat /\ q >= m
        /\ n # 0 => m * ((n - 1) + 1) = q - m
    BY <1>4
  <1> QED BY <1>5 DEF q

LEMMA PassesAre ==
  ASSUME TypeOK
  PROVE  /\ Passes \in Nat
         /\ is_implicit => Passes >= Levels2 + 5
  <1>1. i \in Nat /\ Levels2 + 5 \in Nat
    BY LevelsAreNat DEF TypeOK
  <1>2. (Levels2 + 5) * (i + 1) \in Nat /\ (Levels2 + 5) * (i + 1) >= Levels2 + 5
    <2> DEFINE K == Levels2 + 5
    <2>1. K \in Nat
      BY <1>1
    <2> HIDE DEF K
    <2>2. K * (i + 1) \in Nat /\ K * (i + 1) >= K
      BY <1>1, <2>1, Product
    <2> QED BY <2>2 DEF K
  <1> QED BY <1>2 DEF Passes

(* StepsLeft at each place of the walk. *)
LEMMA StepsAre ==
  /\ pc = "idle"   => StepsLeft = 0
  /\ pc = "vamo"   => StepsLeft = 0 + Passes
  /\ pc = "reply"  => StepsLeft = 1 + Passes
  /\ pc = "vread"  => StepsLeft = 1 + Passes
  /\ pc = "gamo"   => StepsLeft = 2 + Passes
  /\ pc = "gread"  => StepsLeft = (j + 3) + Passes
  /\ pc = "second" => StepsLeft = (Levels2 + 3) + Passes
  /\ pc = "msi"    => StepsLeft = (Levels2 + 4) + Passes
  BY DEF StepsLeft, StepsAhead, Passes

LEMMA StepsAreNext ==
  /\ pc' = "idle"   => StepsLeft' = 0
  /\ pc' = "vamo"   => StepsLeft' = 0 + Passes'
  /\ pc' = "reply"  => StepsLeft' = 1 + Passes'
  /\ pc' = "vread"  => StepsLeft' = 1 + Passes'
  /\ pc' = "gamo"   => StepsLeft' = 2 + Passes'
  /\ pc' = "gread"  => StepsLeft' = (j' + 3) + Passes'
  /\ pc' = "second" => StepsLeft' = (Levels2 + 3) + Passes'
  /\ pc' = "msi"    => StepsLeft' = (Levels2 + 4) + Passes'
  BY DEF StepsLeft, StepsAhead, Passes

LEMMA PassesStay ==
  ASSUME UNCHANGED <<is_implicit, i>>
  PROVE  Passes' = Passes
  BY DEF Passes

(* Each step of the walk but a failed comparison brings it nearer.          *)
LEMMA SecondDescends ==
  ASSUME Inv, AsRead, EnterSecond \/ ReadSecond \/ UpdateSecond
  PROVE  StepsLeft' < StepsLeft \/ (pc = "gamo" /\ gstale)
  <1>0. /\ TypeOK /\ Passes \in Nat /\ Levels2 \in Nat /\ j \in Nat
        /\ Levels2 - 1 \in Nat
    BY PassesAre, LevelsAreNat DEF Inv, TypeOK
  <1>1. UNCHANGED <<is_implicit, i>>
    BY DEF EnterSecond, ReadSecond, UpdateSecond, first, target
  <1>2. Passes' = Passes
    BY <1>1, PassesStay
  <1>3. CASE EnterSecond
    <2>1. /\ pc = "second"
          /\ \/ pc' = "vread"
             \/ pc' = "reply"
             \/ pc' = "idle"
             \/ pc' = "gread" /\ j' = Levels2 - 1
      BY <1>3, FaultLeavesNoMark DEF EnterSecond, AfterSecond
    <2> QED BY <1>0, <1>2, <2>1, StepsAre, StepsAreNext
  <1>4. CASE ReadSecond
    <2>1. /\ pc = "gread"
          /\ \/ pc' = "vread"
             \/ pc' = "reply"
             \/ pc' = "gamo"
             \/ pc' = "idle"
             \/ pc' = "gread" /\ j' = j - 1
      <3> DEFINE c == <<a, Vpn(gpa, j, Levels2)>>
                 e == mem[c]
      <3>1. CASE ReadFault(c) \/ GuestPageFault(is_implicit_write)
        <4> HIDE DEF c
        <4>1. pc' = "idle"
          BY <3>1, FaultLeavesNoMark
        <4> QED BY <1>4, <4>1 DEF ReadSecond
      <3>2. CASE ~ReadFault(c) /\ ~GuestPageFault(is_implicit_write)
        BY <1>4, <3>2, Zenon DEF ReadSecond, AfterSecond
      <3> QED BY <3>1, <3>2
    <2> QED BY <1>0, <1>2, <2>1, StepsAre, StepsAreNext
  <1>5. CASE UpdateSecond
    <2>1. CASE gstale
      BY <1>5, <2>1 DEF UpdateSecond
    <2>2. CASE ~gstale
      <3>1. /\ pc = "gamo"
            /\ \/ pc' = "idle"
               \/ pc' = "vread"
               \/ pc' = "reply"
        BY <1>5, <2>2, FaultLeavesNoMark DEF UpdateSecond, AfterSecond, AsRead
      <3> QED BY <1>0, <1>2, <3>1, StepsAre, StepsAreNext
    <2> QED BY <2>1, <2>2
  <1> QED BY <1>3, <1>4, <1>5

LEMMA FirstDescends ==
  ASSUME Inv, AsRead, ReadFirst \/ UpdateFirst
  PROVE  StepsLeft' < StepsLeft \/ (pc = "vamo" /\ vstale)
  <1>0. /\ TypeOK /\ Passes \in Nat /\ Levels2 \in Nat
        /\ Passes >= Levels2 + 5 /\ is_implicit
    <2>1. TypeOK /\ is_implicit
      BY DEF Inv, Known, Control, ReadFirst, UpdateFirst
    <2> QED BY <2>1, PassesAre, LevelsAreNat
  <1>1. ~is_implicit' => Passes' = 0
    BY DEF Passes
  <1>2. CASE ReadFirst
    <2>1. /\ pc = "vread"
          /\ \/ pc' = "idle"
             \/ pc' = "second" /\ i' = i - 1 /\ i # 0 /\ UNCHANGED is_implicit
             \/ pc' = "msi" /\ ~is_implicit'
             \/ pc' = "vamo" /\ UNCHANGED <<i, is_implicit>>
      <3> DEFINE c == <<Translated(gpte, j, gpa), Vpn(req.iova, i, Levels1)>>
                 e == mem[c]
      <3>1. CASE ReadFault(c) \/ PageFault \/ GuestPageFault(TRUE)
        <4> HIDE DEF c
        <4>1. pc' = "idle"
          BY <3>1, FaultLeavesNoMark, Zenon
        <4> QED BY <1>2, <4>1 DEF ReadFirst
      <3>2. CASE ~ReadFault(c) /\ ~PageFault /\ ~GuestPageFault(TRUE)
        BY <1>2, <3>2, Zenon DEF ReadFirst, FirstDone, BadPointer, target
      <3> QED BY <3>1, <3>2
    <2>2. CASE pc' = "second" /\ i' = i - 1 /\ i # 0 /\ UNCHANGED is_implicit
      <3> DEFINE K == Levels2 + 5
      <3>1. K \in Nat /\ i \in Nat
        BY <1>0 DEF TypeOK
      <3>2. Passes = K * (i + 1) /\ Passes' = K * ((i - 1) + 1)
        BY <1>0, <2>2 DEF Passes
      <3> HIDE DEF K
      <3>3. Passes' = Passes - K
        BY <2>2, <3>1, <3>2, Product
      <3> QED BY <1>0, <2>1, <2>2, <3>3, StepsAre, StepsAreNext DEF K
    <2>3. CASE pc' = "vamo" /\ UNCHANGED <<i, is_implicit>>
      <3>1. Passes' = Passes
        BY <2>3, PassesStay
      <3> QED BY <1>0, <2>1, <2>3, <3>1, StepsAre, StepsAreNext
    <2>4. CASE pc' = "idle" \/ (pc' = "msi" /\ ~is_implicit')
      BY <1>0, <1>1, <2>1, <2>4, StepsAre, StepsAreNext
    <2> QED BY <2>1, <2>2, <2>3, <2>4
  <1>3. CASE UpdateFirst
    <2>1. CASE vstale
      BY <1>3, <2>1 DEF UpdateFirst
    <2>2. CASE ~vstale
      <3>1. /\ pc = "vamo"
            /\ pc' = "idle" \/ (pc' = "msi" /\ ~is_implicit')
        BY <1>3, <2>2, FaultLeavesNoMark DEF UpdateFirst, FirstDone, AsRead
      <3> QED BY <1>0, <1>1, <3>1, StepsAre, StepsAreNext
    <2> QED BY <2>1, <2>2
  <1> QED BY <1>2, <1>3

LEMMA EndDescends ==
  ASSUME Inv, TranslateMsi \/ Reply
  PROVE  StepsLeft' < StepsLeft
  <1>0. TypeOK /\ Passes \in Nat /\ Levels2 \in Nat
    BY PassesAre, LevelsAreNat DEF Inv
  <1>1. UNCHANGED <<is_implicit, i>>
    BY DEF TranslateMsi, Reply, first, target
  <1>2. Passes' = Passes
    BY <1>1, PassesStay
  <1>3. CASE TranslateMsi
    <2>1. pc = "msi" /\ pc' \in {"idle", "second"}
      BY <1>3, Zenon DEF TranslateMsi, Fault
    <2> QED BY <1>0, <1>2, <2>1, StepsAre, StepsAreNext
  <1>4. CASE Reply
    <2>1. pc = "reply" /\ pc' = "idle"
      BY <1>4 DEF Reply
    <2> QED BY <1>0, <2>1, StepsAre, StepsAreNext
  <1> QED BY <1>3, <1>4

(* WalkDescends holds for every shape of the tables, even for one that maps *)
(* itself: only the stores of harts can keep the walk from its answer.      *)
THEOREM WalksDescend == Spec => WalkDescends
  <1>1. Inv /\ AsRead /\ [Next]_vars =>
          (Walk => \/ StepsLeft' < StepsLeft
                   \/ pc = "gamo" /\ gstale
                   \/ pc = "vamo" /\ vstale)
    <2> SUFFICES ASSUME Inv, AsRead, Walk
                 PROVE  \/ StepsLeft' < StepsLeft
                        \/ pc = "gamo" /\ gstale
                        \/ pc = "vamo" /\ vstale
      OBVIOUS
    <2> QED BY SecondDescends, FirstDescends, EndDescends DEF Walk
  <1> QED BY <1>1, AsReadHolds, PTL DEF Spec, WalkDescends
=============================================================================
