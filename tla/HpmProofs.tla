----------------------------- MODULE HpmProofs -----------------------------
(***************************************************************************)
(* Proofs about Hpm, for any number and width of counters, any events,     *)
(* selectors and loads: the types, that every overflow of a counter whose  *)
(* OF was clear reaches the handler, and that counters are exact.          *)
(*                                                                         *)
(* That a counter is exact needs what ~((x + 1) ^ x) keeps of a number, in *)
(* any width: the lemmas in the middle are about powers of two and bits,   *)
(* by an induction over sets of numbers.                                   *)
(***************************************************************************)
EXTENDS Hpm, WellFoundedInduction, TLAPS

(* A pending bit has an interrupt to show for it: the wire, a message on    *)
(* its way or withheld, or the handler that is about to clear it.           *)
Signalled == pmip => wsi \/ message \/ msi_pending \/ handler = "entered"

LEMMA ModIsBelow ==
  ASSUME NEW n \in Int
  PROVE  n % Wrap \in {k \in Nat : k < Wrap}
  BY ConstantsAssumption, SMT

(* The types of the parts of the state. *)
Below == {n \in Nat : n < Wrap}
SelectorsInUse == {e \in Evts : e.eventID \in 0 .. EventLimit}

LEMMA ZeroIsSelector == Zero \in SelectorsInUse
  BY ConstantsAssumption, SMT DEF Zero, Evts, SelectorsInUse

(* OF is set and cleared without changing the rest of a selector. *)
LEMMA OfKeepsSelector ==
  ASSUME NEW e \in SelectorsInUse, NEW of \in BOOLEAN
  PROVE  /\ [e EXCEPT !.of = of] \in SelectorsInUse
         /\ [e EXCEPT !.of = of].of = of
         /\ [e EXCEPT !.of = of] \in Evts
  BY SMT DEF SelectorsInUse, Evts

LEMMA OfUnchanged ==
  ASSUME NEW e \in SelectorsInUse
  PROVE  [e EXCEPT !.of = e.of] = e
  BY SMT DEF SelectorsInUse, Evts

LEMMA LegalIsSelector ==
  ASSUME NEW old \in SelectorsInUse, NEW new \in Evts
  PROVE  Legal(old, new) \in SelectorsInUse
  <1>1. CASE new.eventID > EventLimit
    BY <1>1, ConstantsAssumption, SMT DEF Legal, SelectorsInUse, Evts
  <1>2. CASE ~(new.eventID > EventLimit)
    <2>1. new.eventID \in 0 .. EventLimit
      BY <1>2, ConstantsAssumption, SMT DEF Evts
    <2>2. Legal(old, new) = [new EXCEPT !.eventID = new.eventID]
      BY <1>2 DEF Legal
    <2> QED BY <2>1, <2>2, SMT DEF SelectorsInUse, Evts
  <1> QED BY <1>1, <1>2

----------------------------------------------------------------------------
LEMMA ZeroSelectsNothing ==
  ASSUME NEW t \in Events
  PROVE  ~Selects(Zero, t)
  BY ConstantsAssumption, SMT DEF Selects, Zero, EventArgs

LEMMA InitTypeOK == Init => TypeOK
  <1> SUFFICES ASSUME Init PROVE TypeOK
    OBVIOUS
  <1>1. 0 \in Below
    BY ConstantsAssumption, SMT DEF Below
  <1>2. iohpmctr \in [Indices -> Below] /\ iohpmevt \in [Indices -> SelectorsInUse]
    BY <1>1, ZeroIsSelector DEF Init
  <1>3. \A i \in Indices \ Writable : iohpmctr[i] = 0 /\ iohpmevt[i] = Zero
    BY DEF Init
  <1>4. wsi \in BOOLEAN
    BY ConstantsAssumption DEF Init
  <1> QED BY <1>2, <1>3, <1>4 DEF Init, TypeOK, Below, SelectorsInUse

(* An event keeps the types: a counter wraps, and the last counter selects  *)
(* no event.                                                                *)
LEMMA EventTypeOK ==
  ASSUME TypeOK, NEW t \in Events, count_events(t)
  PROVE  TypeOK'
  <1> DEFINE hit  == {i \in Indices : i \notin iocountinh /\ Selects(iohpmevt[i], t)}
             over == {i \in hit : (iohpmctr[i] + 1) % Wrap < iohpmctr[i]}
  <1>1. iohpmctr \in [Indices -> Below] /\ iohpmevt \in [Indices -> SelectorsInUse]
    BY DEF TypeOK, Below, SelectorsInUse
  <1>2. /\ iohpmctr' = [i \in Indices |-> IF i \in hit THEN (iohpmctr[i] + 1) % Wrap
                                                       ELSE iohpmctr[i]]
        /\ iohpmevt' = [i \in Indices |-> [iohpmevt[i] EXCEPT !.of = @ \/ i \in over]]
        /\ IF NewOverflows(over) # {} THEN generate_interrupt ELSE UNCHANGED interrupt
        /\ raised' = raised \cup {i \in over : ~iohpmevt[i].of}
        /\ UNCHANGED <<iocountinh, wsi, handler, found, load>>
    BY DEF count_events
  <1>3. hit \subseteq Writable
    <2> SUFFICES ASSUME NEW i \in hit, i \notin Writable PROVE FALSE
      OBVIOUS
    <2>1. iohpmevt[i] = Zero
      BY DEF TypeOK
    <2> QED BY <2>1, ZeroSelectsNothing
  <1>4. over \subseteq hit
    OBVIOUS
  <1> HIDE DEF hit, over
  <1>5. iohpmctr' \in [Indices -> Below]
    <2>1. \A i \in Indices : (iohpmctr[i] + 1) % Wrap \in Below
      <3> TAKE i \in Indices
      <3>1. iohpmctr[i] + 1 \in Int
        BY <1>1, SMT DEF Below
      <3> QED BY <3>1, ModIsBelow DEF Below
    <2> QED BY <1>1, <1>2, <2>1
  <1>6. \A i \in Indices : iohpmevt'[i] \in SelectorsInUse
    <2> TAKE i \in Indices
    <2>1. iohpmevt[i] \in SelectorsInUse
      BY <1>1
    <2>2. (iohpmevt[i].of \/ i \in over) \in BOOLEAN
      OBVIOUS
    <2>3. iohpmevt'[i] = [iohpmevt[i] EXCEPT !.of = iohpmevt[i].of \/ i \in over]
      BY <1>2
    <2> QED BY <2>1, <2>2, <2>3, OfKeepsSelector
  <1>7. iohpmevt' \in [Indices -> SelectorsInUse]
    BY <1>2, <1>6
  <1>8. ASSUME NEW i \in Indices \ Writable
        PROVE  iohpmctr'[i] = 0 /\ iohpmevt'[i] = Zero
    <2>1. iohpmctr[i] = 0 /\ iohpmevt[i] = Zero /\ i \notin hit /\ i \notin over
      BY <1>3, <1>4 DEF TypeOK
    <2>2. iohpmevt'[i] = [Zero EXCEPT !.of = FALSE]
      <3>1. iohpmevt'[i] = [iohpmevt[i] EXCEPT !.of = iohpmevt[i].of \/ i \in over]
        BY <1>2
      <3>2. (Zero.of \/ i \in over) = FALSE
        BY <2>1 DEF Zero
      <3> QED BY <2>1, <3>1, <3>2
    <2>3. [Zero EXCEPT !.of = FALSE] = Zero
      <3>1. Zero.of = FALSE
        BY DEF Zero
      <3> QED BY <3>1, ZeroIsSelector, OfUnchanged
    <2> QED BY <1>2, <2>1, <2>2, <2>3
  <1>9. raised' \subseteq Writable
    BY <1>2, <1>3, <1>4 DEF TypeOK
  <1>10. pmip' \in BOOLEAN /\ masked' \in BOOLEAN /\ msi_pending' \in BOOLEAN
         /\ message' \in BOOLEAN
    BY <1>2 DEF TypeOK, generate_interrupt, interrupt
  <1> QED BY <1>2, <1>5, <1>7, <1>8, <1>9, <1>10 DEF TypeOK, Below, SelectorsInUse

(* The registers that software writes. *)
LEMMA SelectorTypeOK ==
  ASSUME TypeOK, NEW i \in Indices, NEW e \in Evts, WriteSelector(i, e)
  PROVE  /\ iohpmevt' \in [Indices -> SelectorsInUse]
         /\ \A j \in Indices \ Writable : iohpmevt'[j] = Zero
         /\ raised' \subseteq Writable
  <1>1. iohpmevt \in [Indices -> SelectorsInUse]
    BY DEF TypeOK, SelectorsInUse
  <1>2. Legal(iohpmevt[i], e) \in SelectorsInUse
    BY <1>1, LegalIsSelector
  <1> QED BY <1>1, <1>2 DEF WriteSelector, TypeOK

LEMMA CounterTypeOK ==
  ASSUME TypeOK, NEW i \in Indices, NEW value \in Int, WriteCounter(i, value)
  PROVE  /\ iohpmctr' \in [Indices -> Below]
         /\ \A j \in Indices \ Writable : iohpmctr'[j] = 0
  <1>1. iohpmctr \in [Indices -> Below]
    BY DEF TypeOK, Below
  <1>2. value % Wrap \in Below
    BY ModIsBelow DEF Below
  <1> QED BY <1>1, <1>2 DEF WriteCounter, TypeOK

LEMMA MergedIsInt ==
  ASSUME NEW old \in Nat, NEW value \in Nat
  PROVE  WriteLow(old, value) \in Int /\ WriteHigh(old, value) \in Int
  <1>1. old % Half \in Int /\ value % Half \in Int /\ value \div Half \in Int /\ Half \in Int
    BY ConstantsAssumption, SMT
  <1>2. Half * (value \div Half) \in Int
    BY <1>1, SMT
  <1> QED BY <1>1, <1>2, SMT DEF WriteLow, WriteHigh

----------------------------------------------------------------------------
LEMMA LoadIsTyped ==
  ASSUME TypeOK, load # NoLoad
  PROVE  /\ load \in LoadStates
         /\ load.counter \in Indices /\ load.value \in Nat
         /\ iohpmctr[load.counter] \in Nat
  <1>1. load \in LoadStates
    BY DEF TypeOK
  <1>2. load.counter \in Indices /\ load.value \in Nat
    BY <1>1, ConstantsAssumption DEF LoadStates
  <1>3. iohpmctr[load.counter] \in Nat
    BY <1>2 DEF TypeOK
  <1> QED BY <1>1, <1>2, <1>3

LEMMA NextTypeOK == TypeOK /\ [Next]_vars => TypeOK'
  <1> SUFFICES ASSUME TypeOK, [Next]_vars PROVE TypeOK'
    OBVIOUS
  <1>1. ASSUME NEW t \in Events, count_events(t) PROVE TypeOK'
    BY <1>1, EventTypeOK
  <1>2. ASSUME NEW i \in Indices, NEW e \in Selectors, Select(i, e) PROVE TypeOK'
    <2>1. e \in Evts
      BY ConstantsAssumption
    <2>2. /\ iohpmevt' \in [Indices -> SelectorsInUse]
          /\ \A j \in Indices \ Writable : iohpmevt'[j] = Zero
          /\ raised' \subseteq Writable
      BY <1>2, <2>1, SelectorTypeOK DEF Select
    <2> QED BY <1>2, <2>2 DEF Select, TypeOK, interrupt, SelectorsInUse
  <1>3. ASSUME NEW i \in Indices, NEW value \in Loads, StartLoad(i, value) PROVE TypeOK'
    <2>1. load' \in LoadStates
      BY <1>3 DEF StartLoad, LoadStates
    <2>2. iocountinh' \subseteq Indices
      BY <1>3 DEF StartLoad, WriteInhibit
    <2> QED BY <1>3, <2>1, <2>2 DEF StartLoad, TypeOK, interrupt
  <1>4. CASE LoadLow
    <2>1. load # NoLoad /\ load' = [load EXCEPT !.next = "high"]
      BY <1>4 DEF LoadLow
    <2>2. load' \in LoadStates
      BY <2>1, LoadIsTyped DEF LoadStates
    <2>3. WriteLow(iohpmctr[load.counter], load.value) \in Int
      BY <2>1, LoadIsTyped, MergedIsInt
    <2>4. /\ iohpmctr' \in [Indices -> Below]
          /\ \A j \in Indices \ Writable : iohpmctr'[j] = 0
      BY <1>4, <2>1, <2>3, LoadIsTyped, CounterTypeOK DEF LoadLow
    <2> QED BY <1>4, <2>2, <2>4 DEF LoadLow, TypeOK, interrupt, Below
  <1>5. CASE LoadHigh
    <2>1. load # NoLoad /\ load' = [load EXCEPT !.next = "release"]
      BY <1>5 DEF LoadHigh
    <2>2. load' \in LoadStates
      BY <2>1, LoadIsTyped DEF LoadStates
    <2>3. WriteHigh(iohpmctr[load.counter], load.value) \in Int
      BY <2>1, LoadIsTyped, MergedIsInt
    <2>4. /\ iohpmctr' \in [Indices -> Below]
          /\ \A j \in Indices \ Writable : iohpmctr'[j] = 0
      BY <1>5, <2>1, <2>3, LoadIsTyped, CounterTypeOK DEF LoadHigh
    <2> QED BY <1>5, <2>2, <2>4 DEF LoadHigh, TypeOK, interrupt, Below
  <1>6. CASE EndLoad
    BY <1>6 DEF EndLoad, WriteInhibit, TypeOK, interrupt
  <1>7. ASSUME NEW m \in BOOLEAN, WriteVecCtrl(m) PROVE TypeOK'
    BY <1>7 DEF WriteVecCtrl, TypeOK, registers
  <1>8. CASE Enter
    BY <1>8 DEF Enter, TypeOK, registers
  <1>9. CASE Acknowledge
    BY <1>9 DEF Acknowledge, TypeOK, registers
  <1>10. CASE ReadOverflows
    BY <1>10 DEF ReadOverflows, get_iocountovf, TypeOK, registers, interrupt
  <1>11. ASSUME NEW i \in Indices, ClearOverflow(i) PROVE TypeOK'
    <2>1. iohpmevt[i] \in SelectorsInUse
      BY DEF TypeOK, SelectorsInUse
    <2>2. [iohpmevt[i] EXCEPT !.of = FALSE] \in Evts
      BY <2>1, OfKeepsSelector
    <2>3. /\ iohpmevt' \in [Indices -> SelectorsInUse]
          /\ \A j \in Indices \ Writable : iohpmevt'[j] = Zero
          /\ raised' \subseteq Writable
      BY <1>11, <2>2, SelectorTypeOK DEF ClearOverflow
    <2>4. handler' \in {"idle", "clearing"} /\ found' \subseteq found
      BY <1>11 DEF ClearOverflow
    <2> QED BY <1>11, <2>3, <2>4 DEF ClearOverflow, TypeOK, interrupt, SelectorsInUse
  <1>12. CASE UNCHANGED vars
    BY <1>12 DEF vars, registers, interrupt, TypeOK
  <1> QED BY <1>1, <1>2, <1>3, <1>4, <1>5, <1>6, <1>7, <1>8, <1>9, <1>10, <1>11, <1>12
          DEF Next, Driver, Handler

(* Counters stay within 2^hpmctr_bits, selected events within the limit and *)
(* the last counter at zero (iommu_hpm.c:79, iommu_reg.c:601-648).          *)
THEOREM TypeCorrect == Spec => []TypeOK
  BY InitTypeOK, NextTypeOK, PTL DEF Spec

----------------------------------------------------------------------------
(* The invariant that makes OverflowIsNoticed inductive: an overflow that   *)
(* finds pmip pending relies on the interrupt that is already under way.    *)
Inv == TypeOK /\ Signalled /\ OverflowIsNoticed

LEMMA InitInv == Init => Inv
  BY InitTypeOK DEF Init, Inv, Signalled, OverflowIsNoticed

(* An interrupt is never taken back, and after generate_interrupt there is  *)
(* one or the handler is running.                                           *)
LEMMA InterruptIsSignalled ==
  ASSUME TypeOK, Signalled, generate_interrupt, UNCHANGED <<wsi, handler>>
  PROVE  /\ Signalled'
         /\ pmip' /\ (message => message') /\ (msi_pending => msi_pending')
         /\ wsi \/ message' \/ msi_pending' \/ handler = "entered"
  BY DEF TypeOK, Signalled, generate_interrupt

LEMMA EventNoticed ==
  ASSUME Inv, NEW t \in Events, count_events(t)
  PROVE  Signalled' /\ OverflowIsNoticed'
  <1> DEFINE hit  == {i \in Indices : i \notin iocountinh /\ Selects(iohpmevt[i], t)}
             over == {i \in hit : (iohpmctr[i] + 1) % Wrap < iohpmctr[i]}
             new  == {i \in over : ~iohpmevt[i].of}
  <1>1. /\ iohpmevt' = [i \in Indices |-> [iohpmevt[i] EXCEPT !.of = @ \/ i \in over]]
        /\ IF new # {} THEN generate_interrupt ELSE UNCHANGED interrupt
        /\ raised' = raised \cup new
        /\ UNCHANGED <<iocountinh, wsi, handler, found, load>>
    BY DEF count_events, NewOverflows
  <1>2. new \subseteq over /\ over \subseteq Indices
    OBVIOUS
  <1> HIDE DEF hit, over, new
  <1>3. /\ Signalled'
        /\ pmip => pmip'
        /\ message => message'
        /\ msi_pending => msi_pending'
        /\ new # {} => pmip' /\ (wsi \/ message' \/ msi_pending' \/ handler = "entered")
    <2>1. CASE new # {}
      BY <1>1, <2>1, InterruptIsSignalled DEF Inv
    <2>2. CASE new = {}
      BY <1>1, <2>2 DEF Inv, Signalled, interrupt
    <2> QED BY <2>1, <2>2
  <1>4. ASSUME NEW i \in raised'
        PROVE  iohpmevt'[i].of /\ Attended(i)'
    <2>1. i \in Indices
      BY <1>1, <1>2, <1>4 DEF Inv, TypeOK, Writable
    <2>2. iohpmevt'[i].of = (iohpmevt[i].of \/ i \in over)
      <3>1. iohpmevt[i] \in SelectorsInUse /\ (iohpmevt[i].of \/ i \in over) \in BOOLEAN
        BY <2>1 DEF Inv, TypeOK, SelectorsInUse
      <3>2. iohpmevt'[i] = [iohpmevt[i] EXCEPT !.of = iohpmevt[i].of \/ i \in over]
        BY <1>1, <2>1
      <3> QED BY <3>1, <3>2, OfKeepsSelector
    <2>3. CASE i \in raised
      <3>1. iohpmevt[i].of /\ Attended(i)
        BY <2>3 DEF Inv, OverflowIsNoticed
      <3> QED BY <1>1, <1>3, <2>2, <3>1 DEF Attended
    <2>4. CASE i \in new
      BY <1>1, <1>2, <1>3, <2>2, <2>4 DEF Attended
    <2> QED BY <1>1, <1>4, <2>3, <2>4
  <1> QED BY <1>3, <1>4 DEF OverflowIsNoticed

(* Whoever writes a selector takes the responsibility for its overflow.     *)
LEMMA SelectorNoticed ==
  ASSUME Inv, NEW i \in Indices, NEW e \in Evts, WriteSelector(i, e),
         NEW j \in raised'
  PROVE  j \in raised /\ j # i /\ iohpmevt'[j].of
  <1>1. j \in raised /\ j # i
    BY DEF WriteSelector, Inv, TypeOK
  <1>2. j \in Indices
    BY <1>1 DEF Inv, TypeOK, Writable
  <1>3. iohpmevt'[j] = iohpmevt[j]
    BY <1>1, <1>2 DEF WriteSelector, Inv, TypeOK
  <1> QED BY <1>1, <1>3 DEF Inv, OverflowIsNoticed

LEMMA NextNoticed == Inv /\ [Next]_vars => Signalled' /\ OverflowIsNoticed'
  <1> SUFFICES ASSUME Inv, [Next]_vars PROVE Signalled' /\ OverflowIsNoticed'
    OBVIOUS
  <1>1. ASSUME NEW t \in Events, count_events(t) PROVE Signalled' /\ OverflowIsNoticed'
    BY <1>1, EventNoticed
  <1>2. ASSUME NEW i \in Indices, NEW e \in Selectors, Select(i, e)
        PROVE  Signalled' /\ OverflowIsNoticed'
    <2>1. e \in Evts
      BY ConstantsAssumption
    <2>2. \A j \in raised' : j \in raised /\ iohpmevt'[j].of
      BY <1>2, <2>1, SelectorNoticed DEF Select
    <2> QED BY <1>2, <2>2 DEF Select, interrupt, Inv, Signalled, OverflowIsNoticed, Attended
  <1>3. ASSUME NEW i \in Indices, NEW value \in Loads, StartLoad(i, value)
        PROVE  Signalled' /\ OverflowIsNoticed'
    BY <1>3 DEF StartLoad, interrupt, Inv, Signalled, OverflowIsNoticed, Attended
  <1>4. CASE LoadLow
    BY <1>4 DEF LoadLow, interrupt, Inv, Signalled, OverflowIsNoticed, Attended
  <1>5. CASE LoadHigh
    BY <1>5 DEF LoadHigh, interrupt, Inv, Signalled, OverflowIsNoticed, Attended
  <1>6. CASE EndLoad
    BY <1>6 DEF EndLoad, interrupt, Inv, Signalled, OverflowIsNoticed, Attended
  <1>7. ASSUME NEW m \in BOOLEAN, WriteVecCtrl(m) PROVE Signalled' /\ OverflowIsNoticed'
    BY <1>7 DEF WriteVecCtrl, registers, Inv, TypeOK, Signalled, OverflowIsNoticed, Attended
  <1>8. CASE Enter
    BY <1>8 DEF Enter, registers, Inv, Signalled, OverflowIsNoticed, Attended
  <1>9. CASE Acknowledge
    BY <1>9 DEF Acknowledge, registers, Inv, Signalled, OverflowIsNoticed, Attended
  <1>10. CASE ReadOverflows
    <2>1. raised \subseteq get_iocountovf
      BY DEF Inv, TypeOK, OverflowIsNoticed, get_iocountovf
    <2> QED BY <1>10, <2>1
            DEF ReadOverflows, registers, interrupt, Inv, Signalled, OverflowIsNoticed, Attended
  <1>11. ASSUME NEW i \in Indices, ClearOverflow(i) PROVE Signalled' /\ OverflowIsNoticed'
    <2>1. iohpmevt[i] \in SelectorsInUse
      BY DEF Inv, TypeOK, SelectorsInUse
    <2>2. [iohpmevt[i] EXCEPT !.of = FALSE] \in Evts
      BY <2>1, OfKeepsSelector
    <2>3. \A j \in raised' : j \in raised /\ j # i /\ iohpmevt'[j].of
      BY <1>11, <2>2, SelectorNoticed DEF ClearOverflow
    <2> QED BY <1>11, <2>3
            DEF ClearOverflow, interrupt, Inv, Signalled, OverflowIsNoticed, Attended
  <1>12. CASE UNCHANGED vars
    BY <1>12 DEF vars, registers, interrupt, Inv, Signalled, OverflowIsNoticed, Attended
  <1> QED BY <1>1, <1>2, <1>3, <1>4, <1>5, <1>6, <1>7, <1>8, <1>9, <1>10, <1>11, <1>12
          DEF Next, Driver, Handler

(* An overflow of a counter whose OF was clear is never lost: an interrupt  *)
(* is under way, or the handler has still to read iocountovf or to treat    *)
(* the counter (iommu_hpm.c:95-98, iommu_interrupt.c:73-107).               *)
THEOREM OverflowsNoticed == Spec => []OverflowIsNoticed
  <1>1. Inv /\ [Next]_vars => Inv'
    BY NextTypeOK, NextNoticed DEF Inv
  <1>2. Inv => OverflowIsNoticed
    BY DEF Inv
  <1> QED BY InitInv, <1>1, <1>2, PTL DEF Spec

----------------------------------------------------------------------------
(* Induction over sets of numbers. *)
LEMMA SetInduction ==
  ASSUME NEW T, 0 \in T, \A n \in Nat : n \in T => n + 1 \in T
  PROVE  Nat \subseteq T
  <1> DEFINE less == OpToRel(<, Nat)
             S == {n \in Nat : n \notin T}
  <1> SUFFICES ASSUME NEW n \in Nat, n \notin T PROVE FALSE
    OBVIOUS
  <1>1. S \subseteq Nat
    OBVIOUS
  <1>2. IsWellFoundedOn(less, Nat)
    BY NatLessThanWellFounded
  <1>3. \A i, j \in Nat : i < j => <<i, j>> \in less
    BY DEF OpToRel
  <1> HIDE DEF less
  <1>4. n \in S
    OBVIOUS
  <1>5. PICK m \in S : \A j \in S : <<j, m>> \notin less
    BY <1>1, <1>2, <1>4, WFMin
  <1>6. m \in Nat /\ m \notin T /\ m # 0
    OBVIOUS
  <1>7. m - 1 \in Nat /\ m - 1 < m /\ (m - 1) + 1 = m
    BY <1>6
  <1>8. <<m - 1, m>> \in less
    BY <1>3, <1>6, <1>7
  <1>9. m - 1 \in T
    BY <1>5, <1>7, <1>8
  <1> QED BY <1>6, <1>7, <1>9

(* The function Pow2 is defined: there are tables of its first values. *)
Table(f, n) ==
  f \in [0 .. n -> Nat] /\ f[0] = 1 /\ \A k \in 1 .. n : f[k] = 2 * f[k - 1]

LEMMA TableExists == \A n \in Nat : \E f : Table(f, n)
  <1> DEFINE T == {n \in Nat : \E f : Table(f, n)}
  <1>1. 0 \in T
    <2>1. Table([k \in 0 .. 0 |-> 1], 0)
      BY DEF Table
    <2> QED BY <2>1
  <1>2. ASSUME NEW n \in Nat, n \in T PROVE n + 1 \in T
    <2>1. PICK f : Table(f, n)
      BY <1>2
    <2> DEFINE g == [k \in 0 .. n + 1 |-> IF k = n + 1 THEN 2 * f[n] ELSE f[k]]
    <2>2. f[n] \in Nat
      BY <2>1 DEF Table
    <2>3. g \in [0 .. n + 1 -> Nat] /\ g[0] = 1
      BY <2>1, <2>2 DEF Table
    <2>4. ASSUME NEW k \in 1 .. n + 1 PROVE g[k] = 2 * g[k - 1]
      <3>1. CASE k = n + 1
        <4>1. k - 1 = n /\ n \in 0 .. n + 1 /\ n # n + 1
          BY <3>1
        <4> QED BY <3>1, <4>1
      <3>2. CASE k # n + 1
        <4>1. k \in 1 .. n /\ k - 1 \in 0 .. n + 1 /\ k - 1 # n + 1 /\ k \in 0 .. n + 1
          BY <3>2
        <4>2. f[k] = 2 * f[k - 1]
          BY <2>1, <4>1 DEF Table
        <4> QED BY <3>2, <4>1, <4>2
      <3> QED BY <3>1, <3>2
    <2>5. Table(g, n + 1)
      BY <2>3, <2>4 DEF Table
    <2> QED BY <2>5
  <1> HIDE DEF T
  <1>3. Nat \subseteq T
    BY <1>1, <1>2, SetInduction
  <1> QED BY <1>3 DEF T

LEMMA TablesAgree ==
  ASSUME NEW n \in Nat, NEW m \in Nat, NEW f, NEW g, Table(f, n), Table(g, m),
         NEW k \in Nat, k <= n, k <= m
  PROVE  f[k] = g[k]
  <1> DEFINE T == {j \in Nat : j <= n /\ j <= m => f[j] = g[j]}
  <1>1. 0 \in T
    BY DEF Table
  <1>2. ASSUME NEW j \in Nat, j \in T PROVE j + 1 \in T
    <2> SUFFICES ASSUME j + 1 <= n, j + 1 <= m PROVE f[j + 1] = g[j + 1]
      OBVIOUS
    <2>1. f[j] = g[j]
      BY <1>2
    <2>2. j + 1 \in 1 .. n /\ j + 1 \in 1 .. m /\ (j + 1) - 1 = j
      OBVIOUS
    <2>3. f[j + 1] = 2 * f[j] /\ g[j + 1] = 2 * g[j]
      BY <2>2 DEF Table
    <2> QED BY <2>1, <2>3
  <1> HIDE DEF T
  <1>3. Nat \subseteq T
    BY <1>1, <1>2, SetInduction
  <1> QED BY <1>3 DEF T

LEMMA Pow2Facts ==
  /\ Pow2[0] = 1
  /\ \A k \in Nat : Pow2[k + 1] = 2 * Pow2[k]
  /\ \A k \in Nat : Pow2[k] \in Nat \ {0}
  <1> DEFINE table(n) == CHOOSE f : Table(f, n)
             F == [n \in Nat |-> table(n)[n]]
  <1>1. ASSUME NEW n \in Nat PROVE Table(table(n), n)
    BY TableExists
  <1> HIDE DEF table
  <1>2. F[0] = 1
    BY <1>1 DEF Table
  <1>3. ASSUME NEW n \in Nat PROVE F[n + 1] = 2 * F[n]
    <2>1. n + 1 \in Nat /\ n + 1 \in 1 .. n + 1 /\ (n + 1) - 1 = n
      OBVIOUS
    <2>2. Table(table(n + 1), n + 1) /\ Table(table(n), n)
      BY <1>1, <2>1
    <2>3. table(n + 1)[n + 1] = 2 * table(n + 1)[n]
      BY <2>1, <2>2 DEF Table
    <2>4. table(n + 1)[n] = table(n)[n]
      BY <2>1, <2>2, TablesAgree
    <2> QED BY <2>1, <2>3, <2>4
  <1>4. F = [k \in Nat |-> IF k = 0 THEN 1 ELSE 2 * F[k - 1]]
    <2>1. ASSUME NEW k \in Nat PROVE F[k] = IF k = 0 THEN 1 ELSE 2 * F[k - 1]
      <3>1. CASE k = 0
        BY <1>2, <3>1
      <3>2. CASE k # 0
        <4>1. k - 1 \in Nat /\ (k - 1) + 1 = k
          BY <3>2
        <4> HIDE DEF F
        <4> QED BY <1>3, <3>2, <4>1
      <3> QED BY <3>1, <3>2
    <2> QED BY <2>1
  <1> HIDE DEF F
  <1>5. Pow2 = [k \in Nat |-> IF k = 0 THEN 1 ELSE 2 * Pow2[k - 1]]
    BY <1>4 DEF Pow2
  <1>6. Pow2[0] = 1
    BY <1>5
  <1>7. ASSUME NEW k \in Nat PROVE Pow2[k + 1] = 2 * Pow2[k]
    <2>1. k + 1 \in Nat /\ k + 1 # 0 /\ (k + 1) - 1 = k
      OBVIOUS
    <2>2. Pow2[k + 1] = 2 * Pow2[(k + 1) - 1]
      BY <1>5, <2>1
    <2> QED BY <2>1, <2>2
  <1>8. \A k \in Nat : Pow2[k] \in Nat \ {0}
    <2> DEFINE T == {k \in Nat : Pow2[k] \in Nat \ {0}}
    <2>1. 0 \in T
      BY <1>6
    <2>2. \A n \in Nat : n \in T => n + 1 \in T
      BY <1>7
    <2> HIDE DEF T
    <2>3. Nat \subseteq T
      BY <2>1, <2>2, SetInduction
    <2> QED BY <2>3 DEF T
  <1> QED BY <1>6, <1>7, <1>8

----------------------------------------------------------------------------
(* Quotients and remainders. *)
LEMMA DivMod ==
  ASSUME NEW p \in Nat \ {0}, NEW a \in Int
  PROVE  /\ a \div p \in Int /\ (a % p) \in 0 .. p - 1
         /\ a = p * (a \div p) + (a % p)
         /\ a \in Nat => a \div p \in Nat
  <1>1. a \div p \in Int /\ (a % p) \in 0 .. p - 1 /\ a = p * (a \div p) + (a % p)
    OBVIOUS
  <1>2. ASSUME a \in Nat PROVE a \div p \in Nat
    <2> DEFINE q == a \div p
               r == a % p
    <2>1. q \in Int /\ r \in 0 .. p - 1 /\ a = p * q + r
      BY <1>1
    <2> HIDE DEF q, r
    <2>2. CASE q <= -1
      <3>1. p * q <= -p
        BY <2>1, <2>2
      <3> QED BY <1>2, <2>1, <3>1
    <2> QED BY <2>1, <2>2 DEF q
  <1> QED BY <1>1, <1>2

LEMMA DivUnique ==
  ASSUME NEW p \in Nat \ {0}, NEW a \in Int, NEW q \in Int, NEW r \in 0 .. p - 1,
         a = p * q + r
  PROVE  a \div p = q /\ (a % p) = r
  <1> DEFINE d == a \div p
             m == a % p
  <1>1. d \in Int /\ m \in 0 .. p - 1 /\ a = p * d + m
    BY DivMod
  <1> HIDE DEF d, m
  <1>2. CASE d <= q - 1
    <2>1. p * d <= p * q - p
      BY <1>1, <1>2
    <2> QED BY <1>1, <2>1
  <1>3. CASE q <= d - 1
    <2>1. p * q <= p * d - p
      BY <1>1, <1>3
    <2> QED BY <1>1, <2>1
  <1>4. CASE d = q
    BY <1>1, <1>4 DEF d, m
  <1> QED BY <1>1, <1>2, <1>3, <1>4

(* The quotient and the remainder by a power of two, and by the next.       *)
LEMMA NextPower ==
  ASSUME NEW a \in Nat, NEW k \in Nat
  PROVE  /\ a \div Pow2[k + 1] = (a \div Pow2[k]) \div 2
         /\ (a % Pow2[k + 1]) = (a % Pow2[k]) + Pow2[k] * ((a \div Pow2[k]) % 2)
  <1> DEFINE p == Pow2[k]
             u == Pow2[k + 1]
             q == a \div p
             r == a % p
             h == q \div 2
             b == q % 2
  <1>1. p \in Nat \ {0} /\ u \in Nat \ {0} /\ u = 2 * p
    BY Pow2Facts
  <1> HIDE DEF p, u
  <1>2. q \in Int /\ r \in 0 .. p - 1 /\ a = p * q + r
    BY <1>1, DivMod
  <1> HIDE DEF q, r
  <1>3. h \in Int /\ b \in {0, 1} /\ q = 2 * h + b
    BY <1>2
  <1> HIDE DEF h, b
  <1>4. a = u * h + (r + p * b) /\ (r + p * b) \in 0 .. u - 1
    <2>1. CASE b = 0
      <3>1. a = p * (2 * h) + r
        BY <1>2, <1>3, <2>1
      <3> QED BY <1>1, <1>2, <1>3, <2>1, <3>1
    <2>2. CASE b = 1
      <3>1. a = p * (2 * h + 1) + r
        BY <1>2, <1>3, <2>2
      <3>2. a = p * (2 * h) + p + r
        BY <1>1, <1>2, <1>3, <3>1
      <3> QED BY <1>1, <1>2, <1>3, <2>2, <3>2
    <2> QED BY <1>3, <2>1, <2>2
  <1>5. a \div u = h /\ (a % u) = r + p * b
    <2> DEFINE s == r + p * b
    <2>1. a = u * h + s /\ s \in 0 .. u - 1
      BY <1>4
    <2> HIDE DEF s
    <2>2. a \div u = h /\ (a % u) = s
      BY <1>1, <1>3, <2>1, DivUnique
    <2> QED BY <2>2 DEF s
  <1> QED BY <1>5 DEF p, u, q, r, h, b

(* Equal above some bit, equal above every higher one. *)
LEMMA EqualAbove ==
  ASSUME NEW a \in Nat, NEW c \in Nat, NEW j \in Nat,
         a \div Pow2[j] = c \div Pow2[j], NEW k \in Nat, j <= k
  PROVE  a \div Pow2[k] = c \div Pow2[k]
  <1> DEFINE T == {n \in Nat : j <= n => a \div Pow2[n] = c \div Pow2[n]}
  <1>1. 0 \in T
    <2>1. j <= 0 => j = 0
      OBVIOUS
    <2> QED BY <2>1
  <1>2. ASSUME NEW n \in Nat, n \in T PROVE n + 1 \in T
    <2>1. CASE j <= n
      BY <1>2, <2>1, NextPower
    <2>2. CASE ~(j <= n)
      <3>1. j <= n + 1 => j = n + 1
        BY <2>2
      <3> QED BY <3>1
    <2> QED BY <2>1, <2>2
  <1> HIDE DEF T
  <1>3. Nat \subseteq T
    BY <1>1, <1>2, SetInduction
  <1> QED BY <1>3 DEF T

LEMMA PowersGrow ==
  ASSUME NEW j \in Nat, NEW k \in Nat, j <= k
  PROVE  Pow2[j] <= Pow2[k]
  <1> DEFINE T == {n \in Nat : j <= n => Pow2[j] <= Pow2[n]}
  <1>1. 0 \in T
    <2>1. j <= 0 => j = 0
      OBVIOUS
    <2> QED BY <2>1, Pow2Facts
  <1>2. ASSUME NEW n \in Nat, n \in T PROVE n + 1 \in T
    <2>0. Pow2[n + 1] = 2 * Pow2[n] /\ Pow2[n] \in Nat /\ Pow2[j] \in Nat /\ Pow2[n + 1] \in Nat
      BY Pow2Facts
    <2>1. CASE j <= n
      BY <1>2, <2>0, <2>1
    <2>2. CASE ~(j <= n)
      <3>1. j <= n + 1 => j = n + 1
        BY <2>2
      <3> QED BY <2>0, <3>1
    <2> QED BY <2>1, <2>2
  <1> HIDE DEF T
  <1>3. Nat \subseteq T
    BY <1>1, <1>2, SetInduction
  <1> QED BY <1>3 DEF T

(* The identifiers have no bits above the width. *)
LEMMA NothingAbove ==
  ASSUME NEW a \in Ids, NEW k \in Nat, IdBits <= k
  PROVE  a \in Nat /\ a \div Pow2[k] = 0
  <1> DEFINE p == Pow2[k]
  <1>1. a \in Nat /\ a < Pow2[IdBits] /\ IdBits \in Nat
    BY ConstantsAssumption, Pow2Facts DEF Ids
  <1>2. p \in Nat \ {0} /\ a < p
    BY <1>1, PowersGrow, Pow2Facts
  <1> HIDE DEF p
  <1>3. a = p * 0 + a /\ a \in 0 .. p - 1
    BY <1>1, <1>2
  <1>4. a \div p = 0
    BY <1>1, <1>2, <1>3, DivUnique
  <1> QED BY <1>1, <1>4 DEF p

(* Numbers that agree in the bits from j up are equal above j. *)
LEMMA BitsAbove ==
  ASSUME NEW a \in Ids, NEW c \in Ids, NEW j \in Nat
  PROVE  (\A k \in 0 .. IdBits - 1 : j <= k => (k \in BitsOf(a) <=> k \in BitsOf(c)))
           <=> a \div Pow2[j] = c \div Pow2[j]
  <1>1. a \in Nat /\ c \in Nat /\ IdBits \in Nat
    BY NothingAbove, ConstantsAssumption
  <1> DEFINE Agree == \A k \in 0 .. IdBits - 1 : j <= k => (k \in BitsOf(a) <=> k \in BitsOf(c))
             Same(k) == a \div Pow2[k] = c \div Pow2[k]
  <1>2. ASSUME Same(j) PROVE Agree
    <2> SUFFICES ASSUME NEW k \in 0 .. IdBits - 1, j <= k
                 PROVE  k \in BitsOf(a) <=> k \in BitsOf(c)
      OBVIOUS
    <2>1. Same(k)
      BY <1>1, <1>2, EqualAbove
    <2> QED BY <2>1 DEF BitsOf
  <1>3. ASSUME Agree PROVE Same(j)
    <2> DEFINE T == {d \in Nat : j <= IdBits - d /\ d <= IdBits => Same(IdBits - d)}
    <2>1. 0 \in T
      BY <1>1, NothingAbove
    <2>2. ASSUME NEW d \in Nat, d \in T PROVE d + 1 \in T
      <3> SUFFICES ASSUME j <= IdBits - (d + 1), d + 1 <= IdBits
                   PROVE  Same(IdBits - (d + 1))
        OBVIOUS
      <3> DEFINE k == IdBits - (d + 1)
                 x == a \div Pow2[k]
                 y == c \div Pow2[k]
      <3>1. k \in Nat /\ k \in 0 .. IdBits - 1 /\ j <= k /\ k + 1 = IdBits - d
        BY <1>1
      <3>2. Same(k + 1)
        BY <1>1, <2>2, <3>1
      <3>3. x \in Nat /\ y \in Nat
        <4> DEFINE p == Pow2[k]
        <4>1. p \in Nat \ {0} /\ a \in Int /\ c \in Int
          BY <1>1, <3>1, Pow2Facts
        <4> HIDE DEF p
        <4>2. a \div p \in Nat /\ c \div p \in Nat
          BY <1>1, <4>1, DivMod
        <4> QED BY <4>2 DEF p
      <3>4. x \div 2 = y \div 2
        BY <1>1, <3>1, <3>2, NextPower
      <3>5. (x % 2 = 1) <=> (y % 2 = 1)
        BY <1>3, <3>1 DEF BitsOf
      <3> HIDE DEF x, y
      <3>6. x = y
        BY <3>3, <3>4, <3>5
      <3> QED BY <3>6 DEF x, y
    <2> HIDE DEF T
    <2>3. Nat \subseteq T
      BY <2>1, <2>2, SetInduction
    <2>4. CASE j <= IdBits
      <3>1. IdBits - j \in Nat /\ IdBits - (IdBits - j) = j
        BY <1>1, <2>4
      <3>2. IdBits - j \in T
        BY <2>3, <3>1
      <3> QED BY <1>1, <2>4, <3>1, <3>2 DEF T
    <2>5. CASE ~(j <= IdBits)
      BY <1>1, <2>5, NothingAbove
    <2> QED BY <2>4, <2>5
  <1> HIDE DEF Same
  <1> QED BY <1>2, <1>3 DEF Same

----------------------------------------------------------------------------
(* The number of ones a number ends in.                                     *)
EndsAt(x, k) == (x % Pow2[k + 1]) = Pow2[k] - 1

LEMMA EndExists == \A x \in Ids : \E k \in 0 .. IdBits : EndsAt(x, k)
  <1> DEFINE T == {n \in Nat : \A y \in Nat : y < Pow2[n] => \E k \in 0 .. n : EndsAt(y, k)}
  <1>1. 0 \in T
    <2>1. ASSUME NEW y \in Nat, y < Pow2[0] PROVE EndsAt(y, 0)
      <3>1. Pow2[0] = 1 /\ Pow2[0 + 1] = 2
        BY Pow2Facts
      <3>2. y = 0 /\ 0 % 2 = 0
        BY <2>1, <3>1
      <3> QED BY <3>1, <3>2 DEF EndsAt
    <2> QED BY <2>1
  <1>2. ASSUME NEW n \in Nat, n \in T PROVE n + 1 \in T
    <2> SUFFICES ASSUME NEW y \in Nat, y < Pow2[n + 1]
                 PROVE  \E k \in 0 .. n + 1 : EndsAt(y, k)
      OBVIOUS
    <2> DEFINE h == y \div 2
    <2>1. h \in Nat /\ (y = 2 * h \/ y = 2 * h + 1)
      OBVIOUS
    <2>2. CASE y = 2 * h
      <3>1. Pow2[0] = 1 /\ Pow2[0 + 1] = 2
        BY Pow2Facts
      <3>2. (y % 2) = 0
        BY <2>1, <2>2
      <3>3. EndsAt(y, 0)
        BY <3>1, <3>2 DEF EndsAt
      <3> QED BY <3>3
    <2>3. CASE y = 2 * h + 1
      <3> HIDE DEF h
      <3>1. h < Pow2[n]
        BY <2>1, <2>3, Pow2Facts
      <3>2. PICK k \in 0 .. n : EndsAt(h, k)
        BY <1>2, <2>1, <3>1
      <3> DEFINE p == Pow2[k]
                 u == Pow2[k + 1]
                 w == Pow2[(k + 1) + 1]
                 q == h \div u
      <3>3. p \in Nat \ {0} /\ u = 2 * p /\ w = 2 * u /\ u \in Nat \ {0} /\ w \in Nat \ {0}
        BY Pow2Facts
      <3>4. (h % u) = p - 1
        BY <3>2 DEF EndsAt
      <3> HIDE DEF p, u, w
      <3>5. q \in Int /\ h = u * q + (p - 1)
        <4>1. h \in Int
          BY <2>1
        <4>2. q \in Int /\ h = u * q + (h % u)
          BY <3>3, <4>1, DivMod
        <4> QED BY <3>4, <4>2
      <3> HIDE DEF q
      <3>6. y = w * q + (u - 1) /\ u - 1 \in 0 .. w - 1
        BY <2>1, <2>3, <3>3, <3>5
      <3> DEFINE r == u - 1
      <3>7. y = w * q + r /\ r \in 0 .. w - 1
        BY <3>6
      <3> HIDE DEF r
      <3>8. (y % w) = r
        <4>1. y \in Int
          OBVIOUS
        <4> QED BY <3>3, <3>5, <3>7, <4>1, DivUnique
      <3>9. EndsAt(y, k + 1)
        BY <3>8 DEF EndsAt, r, u, w
      <3>10. k + 1 \in 0 .. n + 1
        OBVIOUS
      <3> QED BY <3>9, <3>10
    <2> QED BY <2>1, <2>2, <2>3
  <1> HIDE DEF T
  <1>3. IdBits \in T
    BY <1>1, <1>2, SetInduction, ConstantsAssumption
  <1> QED BY <1>3, Pow2Facts DEF T, Ids

(* Below that end all bits are ones. *)
LEMMA OnesBelow ==
  ASSUME NEW x \in Nat, NEW m \in Nat, EndsAt(x, m), NEW k \in Nat, k <= m
  PROVE  (x % Pow2[k]) = Pow2[k] - 1
  <1> DEFINE T == {d \in Nat : d <= m => (x % Pow2[m - d]) = Pow2[m - d] - 1}
  <1>1. ASSUME NEW j \in Nat
        PROVE  /\ Pow2[j] \in Nat \ {0} /\ Pow2[j + 1] = 2 * Pow2[j]
               /\ (x % Pow2[j]) \in 0 .. Pow2[j] - 1
               /\ \/ (x % Pow2[j + 1]) = (x % Pow2[j])
                  \/ (x % Pow2[j + 1]) = (x % Pow2[j]) + Pow2[j]
    <2> DEFINE p == Pow2[j]
               q == x \div p
    <2>1. p \in Nat \ {0} /\ Pow2[j + 1] = 2 * p
      BY Pow2Facts
    <2> HIDE DEF p
    <2>2. q \in Int /\ (x % p) \in 0 .. p - 1
      <3>1. x \in Int
        OBVIOUS
      <3> QED BY <2>1, <3>1, DivMod
    <2> HIDE DEF q
    <2>3. (q % 2) \in {0, 1}
      BY <2>2
    <2>4. (x % Pow2[j + 1]) = (x % p) + p * (q % 2)
      BY NextPower DEF p, q
    <2>5. CASE (q % 2) = 0
      <3>1. p * (q % 2) = 0
        BY <2>1, <2>5
      <3> QED BY <2>1, <2>2, <2>4, <3>1 DEF p
    <2>6. CASE (q % 2) = 1
      <3>1. p * (q % 2) = p
        BY <2>1, <2>6
      <3> QED BY <2>1, <2>2, <2>4, <3>1 DEF p
    <2> QED BY <2>3, <2>5, <2>6
  <1>2. 0 \in T
    <2> DEFINE p == Pow2[m]
               r == x % p
               s == x % Pow2[m + 1]
    <2>1. p \in Nat \ {0} /\ r \in 0 .. p - 1 /\ s = p - 1 /\ (s = r \/ s = r + p)
      BY <1>1 DEF EndsAt
    <2> HIDE DEF p, r, s
    <2>2. r = p - 1
      BY <2>1
    <2>3. m - 0 = m
      OBVIOUS
    <2> QED BY <2>2, <2>3 DEF p, r
  <1>3. ASSUME NEW d \in Nat, d \in T PROVE d + 1 \in T
    <2> SUFFICES ASSUME d + 1 <= m
                 PROVE  (x % Pow2[m - (d + 1)]) = Pow2[m - (d + 1)] - 1
      OBVIOUS
    <2> DEFINE j == m - (d + 1)
               p == Pow2[j]
               r == x % p
               u == Pow2[j + 1]
               s == x % u
    <2>1. j \in Nat /\ j + 1 = m - d
      OBVIOUS
    <2>2. s = u - 1
      BY <1>3, <2>1
    <2>3. p \in Nat \ {0} /\ u = 2 * p /\ r \in 0 .. p - 1 /\ (s = r \/ s = r + p)
      BY <1>1, <2>1
    <2> HIDE DEF p, r, s, u
    <2>4. r = p - 1
      BY <2>2, <2>3
    <2> QED BY <2>4 DEF p, r
  <1> HIDE DEF T
  <1>4. m - k \in T
    BY <1>2, <1>3, SetInduction
  <1>5. m - (m - k) = k /\ m - k <= m
    OBVIOUS
  <1> QED BY <1>4, <1>5 DEF T

(* What ~((x + 1) ^ x) keeps: the bits above the first that is zero. *)
LEMMA MaskKeeps ==
  ASSUME NEW x \in Ids, NEW m \in Nat, EndsAt(x, m)
  PROVE  Mask(x) = {k \in 0 .. IdBits - 1 : m + 1 <= k}
  <1>1. x \in Nat /\ x + 1 \in Nat /\ IdBits \in Nat
    BY NothingAbove, ConstantsAssumption
  <1>2. ASSUME NEW k \in 0 .. IdBits - 1, k <= m
        PROVE  k \in BitsOf(x) <=> k \notin BitsOf(x + 1)
    <2> DEFINE p == Pow2[k]
               q == x \div p
    <2>1. k \in Nat
      OBVIOUS
    <2>2. p \in Nat \ {0} /\ (x % p) = p - 1
      BY <1>1, <1>2, <2>1, OnesBelow, Pow2Facts
    <2> HIDE DEF p
    <2>3. q \in Int /\ x = p * q + (p - 1)
      BY <1>1, <2>2, DivMod
    <2> HIDE DEF q
    <2>4. x + 1 = p * (q + 1) + 0 /\ 0 \in 0 .. p - 1 /\ q + 1 \in Int
      BY <1>1, <2>2, <2>3
    <2>5. (x + 1) \div p = q + 1
      <3> DEFINE y == x + 1
                 r == q + 1
      <3>1. y \in Int /\ r \in Int /\ y = p * r + 0 /\ 0 \in 0 .. p - 1
        BY <1>1, <2>4
      <3> HIDE DEF y, r
      <3>2. y \div p = r
        BY <2>2, <3>1, DivUnique
      <3> QED BY <3>2 DEF y, r
    <2>6. (q % 2 = 1) <=> ~((q + 1) % 2 = 1)
      BY <2>3
    <2> QED BY <2>5, <2>6 DEF BitsOf, p, q
  <1>3. ASSUME NEW k \in 0 .. IdBits - 1, m + 1 <= k
        PROVE  k \in BitsOf(x) <=> k \in BitsOf(x + 1)
    <2> DEFINE p == Pow2[m]
               u == Pow2[m + 1]
               q == x \div u
    <2>1. p \in Nat \ {0} /\ u = 2 * p /\ u \in Nat \ {0} /\ (x % u) = p - 1
      BY Pow2Facts DEF EndsAt
    <2> HIDE DEF p, u
    <2>2. q \in Int /\ x = u * q + (p - 1)
      <3>1. x \in Int
        BY <1>1
      <3>2. q \in Int /\ x = u * q + (x % u)
        BY <2>1, <3>1, DivMod
      <3> QED BY <2>1, <3>2
    <2> HIDE DEF q
    <2>3. x + 1 = u * q + p /\ p \in 0 .. u - 1
      BY <1>1, <2>1, <2>2
    <2>4. (x + 1) \div u = q
      <3> DEFINE y == x + 1
      <3>1. y \in Int /\ y = u * q + p
        BY <1>1, <2>3
      <3> HIDE DEF y
      <3>2. y \div u = q
        BY <2>1, <2>2, <2>3, <3>1, DivUnique
      <3> QED BY <3>2 DEF y
    <2>5. x \div Pow2[k] = (x + 1) \div Pow2[k]
      <3>1. x \div Pow2[m + 1] = (x + 1) \div Pow2[m + 1] /\ m + 1 \in Nat /\ k \in Nat
        BY <2>4 DEF q, u
      <3> QED BY <1>1, <1>3, <3>1, EqualAbove
    <2> QED BY <2>5 DEF BitsOf
  <1>4. \A k \in 0 .. IdBits - 1 : k <= m \/ m + 1 <= k
    BY <1>1
  <1>5. \A k \in 0 .. IdBits - 1 : ~(k <= m /\ m + 1 <= k)
    BY <1>1
  <1> QED BY <1>2, <1>3, <1>4, <1>5 DEF Mask

(* The comparison of identifiers under the mask finds those named. *)
LEMMA SameIdIsNamed ==
  ASSUME NEW e, e.dmask \in BOOLEAN, e.did_gscid \in Ids, NEW id \in Ids
  PROVE  SameId(e, id) <=> id \in Named(e)
  <1> DEFINE x == e.did_gscid
  <1>1. x \in Nat /\ id \in Nat /\ IdBits \in Nat
    BY NothingAbove, ConstantsAssumption
  <1>2. CASE ~e.dmask
    <2>1. SameId(e, id) <=> \A k \in 0 .. IdBits - 1 : (k \in BitsOf(x) <=> k \in BitsOf(id))
      BY <1>2 DEF SameId, BitsOf
    <2>2. SameId(e, id) <=> x \div Pow2[0] = id \div Pow2[0]
      <3>1. \A k \in 0 .. IdBits - 1 : 0 <= k
        OBVIOUS
      <3> HIDE DEF x
      <3>2. (\A k \in 0 .. IdBits - 1 : 0 <= k => (k \in BitsOf(x) <=> k \in BitsOf(id)))
              <=> x \div Pow2[0] = id \div Pow2[0]
        BY BitsAbove DEF x
      <3> QED BY <2>1, <3>1, <3>2
    <2>3. x \div 1 = x /\ id \div 1 = id
      BY <1>1
    <2> QED BY <1>2, <2>2, <2>3, Pow2Facts DEF Named
  <1>3. CASE e.dmask
    <2> DEFINE Sizes == {Pow2[k] : k \in 1 .. IdBits + 1}
               Fits(b) == x % b = (b \div 2) - 1
               size == CHOOSE b \in Sizes : Fits(b)
    <2>1. \E b \in Sizes : Fits(b)
      <3>1. PICK m \in 0 .. IdBits : EndsAt(x, m)
        BY EndExists
      <3>2. m + 1 \in 1 .. IdBits + 1 /\ m \in Nat
        BY <1>1
      <3>3. Pow2[m + 1] \div 2 = Pow2[m]
        BY <3>2, Pow2Facts
      <3> QED BY <3>1, <3>2, <3>3 DEF EndsAt
    <2>2. size \in Sizes /\ Fits(size)
      BY <2>1
    <2>3. Named(e) = {i \in Ids : i \div size = x \div size}
      BY <1>3 DEF Named, Block
    <2> HIDE DEF size
    <2>4. PICK k \in 1 .. IdBits + 1 : size = Pow2[k]
      BY <2>2
    <2> DEFINE m == k - 1
    <2>5. m \in Nat /\ m + 1 = k
      BY <1>1
    <2> HIDE DEF m
    <2>6. Pow2[m + 1] \div 2 = Pow2[m]
      BY <2>5, Pow2Facts
    <2>7. EndsAt(x, m)
      BY <2>2, <2>4, <2>5, <2>6 DEF EndsAt
    <2>8. Mask(x) = {j \in 0 .. IdBits - 1 : m + 1 <= j}
      BY <2>5, <2>7, MaskKeeps
    <2>9. SameId(e, id) <=> \A j \in 0 .. IdBits - 1 :
                              m + 1 <= j => (j \in BitsOf(x) <=> j \in BitsOf(id))
      BY <1>3, <2>8 DEF SameId, BitsOf
    <2> HIDE DEF x
    <2>10. m + 1 \in Nat
      BY <2>5
    <2>11. SameId(e, id) <=> x \div Pow2[m + 1] = id \div Pow2[m + 1]
      BY <2>9, <2>10, BitsAbove DEF x
    <2> QED BY <2>3, <2>4, <2>5, <2>11
  <1> QED BY <1>2, <1>3

----------------------------------------------------------------------------
(* The second half completes what the first began, whatever was there.      *)
LEMMA LowThenHigh ==
  ASSUME NEW old \in Below, NEW v \in Nat
  PROVE  (WriteHigh(WriteLow(old, v) % Wrap, v) % Wrap) = (v % Wrap)
  <1> DEFINE W == Wrap
             H == Half
  <1>1. W \in Nat \ {0} /\ H \in Nat \ {0} /\ old \in Int /\ v \in Int /\ old \in 0 .. W - 1
    BY ConstantsAssumption DEF Below
  <1>2. (W % H) = 0 \/ (H % W) = 0
    BY ConstantsAssumption
  <1> HIDE DEF W, H
  <1> DEFINE a == old \div H
             b == old % H
             q == v \div H
             l == v % H
  <1>3. a \in Int /\ b \in 0 .. H - 1 /\ old = H * a + b
    BY <1>1, DivMod
  <1>4. q \in Int /\ l \in 0 .. H - 1 /\ v = H * q + l
    BY <1>1, DivMod
  <1> DEFINE x == (old - b) + l
             c == x % W
             d == x \div W
  <1>5. WriteHigh(WriteLow(old, v) % Wrap, v) = (c % H) + (H * q)
    BY DEF WriteHigh, WriteLow, W, H
  <1> HIDE DEF a, b, q, l
  <1>6. x \in Int /\ x = H * a + l
    BY <1>1, <1>3, <1>4
  <1> HIDE DEF x
  <1>7. d \in Int /\ c \in 0 .. W - 1 /\ x = W * d + c
    BY <1>1, <1>6, DivMod
  <1> HIDE DEF c, d
  <1>8. CASE (W % H) = 0
    <2> DEFINE m == W \div H
               k == a - m * d
    <2>1. m \in Int /\ W = H * m
      <3>1. W \in Int
        BY <1>1
      <3>2. m \in Int /\ W = H * m + (W % H)
        BY <1>1, <3>1, DivMod
      <3> QED BY <1>1, <1>8, <3>2
    <2> HIDE DEF m
    <2>2. k \in Int /\ c = H * k + l
      <3>1. W * d = H * (m * d)
        BY <1>1, <1>7, <2>1
      <3>2. H * k = H * a - H * (m * d)
        BY <1>1, <1>3, <1>7, <2>1
      <3> QED BY <1>1, <1>3, <1>4, <1>6, <1>7, <2>1, <3>1, <3>2
    <2> HIDE DEF k
    <2>3. (c % H) = l
      <3>1. c \in Int
        BY <1>7
      <3> QED BY <1>1, <1>4, <2>2, <3>1, DivUnique
    <2>4. (c % H) + (H * q) = v
      BY <1>1, <1>4, <2>3
    <2> QED BY <1>5, <2>4
  <1>9. CASE (H % W) = 0
    <2> DEFINE m == H \div W
    <2>1. m \in Nat /\ H = W * m
      <3>1. H \in Int /\ H \in Nat
        BY <1>1
      <3>2. m \in Nat /\ H = W * m + (H % W)
        BY <1>1, <3>1, DivMod
      <3> QED BY <1>1, <1>9, <3>2
    <2> HIDE DEF m
    <2>2. W <= H
      <3>1. m >= 1
        BY <1>1, <2>1
      <3> QED BY <1>1, <2>1, <3>1
    <2>3. b = old
      <3>1. old = H * 0 + old /\ old \in 0 .. H - 1
        BY <1>1, <2>2
      <3>2. (old % H) = old
        BY <1>1, <3>1, DivUnique
      <3> QED BY <3>2 DEF b
    <2>4. x = l
      BY <1>1, <1>4, <2>3 DEF x
    <2>5. (c % H) = c
      <3>1. c = H * 0 + c /\ c \in 0 .. H - 1 /\ c \in Int
        BY <1>1, <1>7, <2>2
      <3> QED BY <1>1, <3>1, DivUnique
    <2> DEFINE y == c + H * q
               mq == m * q
               mqd == m * q + d
    <2>6. H * q = W * (m * q)
      BY <1>1, <1>4, <2>1
    <2>7. y \in Int /\ mq \in Int /\ y = W * mq + c
      BY <1>1, <1>4, <1>7, <2>1, <2>6
    <2>8. mqd \in Int /\ v = W * mqd + c
      <3>1. W * mqd = W * (m * q) + W * d
        BY <1>1, <1>4, <1>7, <2>1
      <3> QED BY <1>1, <1>4, <1>7, <2>1, <2>4, <2>6, <3>1
    <2> HIDE DEF y, mq, mqd
    <2>9. (y % W) = c /\ (v % W) = c
      BY <1>1, <1>7, <2>7, <2>8, DivUnique
    <2> QED BY <1>5, <2>5, <2>9 DEF y, W
  <1> QED BY <1>2, <1>8, <1>9

LEMMA SelectsCounts ==
  ASSUME NEW e \in Evts, e.did_gscid \in Ids, NEW t \in Events
  PROVE  Selects(e, t) <=> Counted(e, t)
  <1>1. t \in EventArgs /\ t.DID \in Ids /\ t.GSCID \in Ids
    BY ConstantsAssumption
  <1>2. e.dmask \in BOOLEAN /\ e.idt \in BOOLEAN
    BY DEF Evts
  <1>3. /\ SameId(e, t.DID) <=> t.DID \in Named(e)
        /\ SameId(e, t.GSCID) <=> t.GSCID \in Named(e)
    BY <1>1, <1>2, SameIdIsNamed
  <1>4. t.PSCV \in BOOLEAN /\ t.PV \in BOOLEAN /\ t.GSCV \in BOOLEAN
    BY <1>1 DEF EventArgs
  <1> QED BY <1>2, <1>3, <1>4 DEF Selects, Counted

(* A load leaves its counter inhibited, and its second write is about to    *)
(* make the counter read the value.                                         *)
LoadGoesOn ==
  load # NoLoad =>
    /\ load.counter \in iocountinh
    /\ load.next = "high" /\ load.counter \in Writable =>
         (WriteHigh(iohpmctr[load.counter], load.value) % Wrap) = (load.value % Wrap)

SelectorsNameIds == \A i \in Indices : iohpmevt[i].did_gscid \in Ids

ExpectedOK == /\ expected \in [Indices -> Below]
              /\ \A i \in Indices \ Writable : expected[i] = 0

CountInv == TypeOK /\ ExpectedOK /\ SelectorsNameIds /\ LoadGoesOn /\ CountsAreExact

LEMMA InitCounts == Init => CountInv
  <1> SUFFICES ASSUME Init PROVE CountInv
    OBVIOUS
  <1>1. 0 \in Below
    BY ConstantsAssumption, SMT DEF Below
  <1>2. 0 \in Ids
    BY Pow2Facts, ConstantsAssumption DEF Ids
  <1>3. ExpectedOK
    BY <1>1 DEF Init, ExpectedOK
  <1>4. SelectorsNameIds
    BY <1>2 DEF Init, SelectorsNameIds, Zero
  <1> QED BY <1>3, <1>4, InitTypeOK DEF Init, CountInv, LoadGoesOn, CountsAreExact

(* A legal write keeps the identifier it writes. *)
LEMMA SelectorNamesIds ==
  ASSUME TypeOK, SelectorsNameIds, NEW i \in Indices, NEW e \in Evts,
         e.did_gscid \in Ids, WriteSelector(i, e)
  PROVE  SelectorsNameIds'
  <1>1. iohpmevt \in [Indices -> SelectorsInUse]
    BY DEF TypeOK, SelectorsInUse
  <1>2. Legal(iohpmevt[i], e).did_gscid \in Ids
    <2>1. Legal(iohpmevt[i], e).did_gscid = e.did_gscid
      BY DEF Legal, Evts
    <2> QED BY <2>1
  <1> QED BY <1>1, <1>2 DEF WriteSelector, SelectorsNameIds

LEMMA EventCounts ==
  ASSUME CountInv, NEW t \in Events, count_events(t)
  PROVE  ExpectedOK' /\ SelectorsNameIds' /\ LoadGoesOn' /\ CountsAreExact'
  <1> DEFINE hit  == {i \in Indices : i \notin iocountinh /\ Selects(iohpmevt[i], t)}
             over == {i \in hit : (iohpmctr[i] + 1) % Wrap < iohpmctr[i]}
             named == {i \in Indices : i \notin iocountinh /\ Counted(iohpmevt[i], t)}
  <1>1. /\ iohpmctr' = [i \in Indices |-> IF i \in hit THEN (iohpmctr[i] + 1) % Wrap
                                                       ELSE iohpmctr[i]]
        /\ iohpmevt' = [i \in Indices |-> [iohpmevt[i] EXCEPT !.of = @ \/ i \in over]]
        /\ expected' = [i \in Indices |-> IF i \in named THEN (expected[i] + 1) % Wrap
                                                         ELSE expected[i]]
        /\ UNCHANGED <<iocountinh, load>>
    BY DEF count_events
  <1>2. iohpmevt \in [Indices -> SelectorsInUse]
    BY DEF CountInv, TypeOK, SelectorsInUse
  <1>3. hit = named
    <2> SUFFICES ASSUME NEW i \in Indices
                 PROVE  Selects(iohpmevt[i], t) <=> Counted(iohpmevt[i], t)
      OBVIOUS
    <2>1. iohpmevt[i] \in Evts /\ iohpmevt[i].did_gscid \in Ids
      BY <1>2 DEF CountInv, SelectorsNameIds, SelectorsInUse
    <2> QED BY <2>1, SelectsCounts
  <1>4. hit \subseteq Writable
    <2> SUFFICES ASSUME NEW i \in hit, i \notin Writable PROVE FALSE
      OBVIOUS
    <2>1. iohpmevt[i] = Zero
      BY DEF CountInv, TypeOK
    <2> QED BY <2>1, ZeroSelectsNothing
  <1>5. hit \cap iocountinh = {}
    OBVIOUS
  <1> HIDE DEF hit, over, named
  <1>6. ExpectedOK'
    <2>1. \A i \in Indices : (expected[i] + 1) % Wrap \in Below
      <3> TAKE i \in Indices
      <3>1. expected[i] + 1 \in Int
        BY DEF CountInv, ExpectedOK, Below
      <3> QED BY <3>1, ModIsBelow DEF Below
    <2> QED BY <1>1, <1>3, <1>4, <2>1 DEF CountInv, ExpectedOK
  <1>7. SelectorsNameIds'
    <2> SUFFICES ASSUME NEW i \in Indices PROVE iohpmevt'[i].did_gscid \in Ids
      BY DEF SelectorsNameIds
    <2>1. iohpmevt'[i] = [iohpmevt[i] EXCEPT !.of = @ \/ i \in over]
      BY <1>1
    <2>2. iohpmevt[i] \in Evts
      BY <1>2 DEF SelectorsInUse
    <2>3. iohpmevt'[i].did_gscid = iohpmevt[i].did_gscid
      BY <2>1, <2>2 DEF Evts
    <2> QED BY <2>3 DEF CountInv, SelectorsNameIds
  <1>8. LoadGoesOn'
    <2> SUFFICES ASSUME load # NoLoad PROVE LoadGoesOn'
      BY <1>1 DEF LoadGoesOn
    <2>1. load.counter \in iocountinh /\ load.counter \in Indices
      BY LoadIsTyped DEF CountInv, LoadGoesOn
    <2>2. iohpmctr'[load.counter] = iohpmctr[load.counter]
      BY <1>1, <1>5, <2>1
    <2> QED BY <1>1, <2>1, <2>2 DEF CountInv, LoadGoesOn
  <1>9. CountsAreExact'
    <2> SUFFICES ASSUME NEW i \in Indices, ~Loading(i)' PROVE iohpmctr'[i] = expected'[i]
      BY DEF CountsAreExact
    <2>1. ~Loading(i)
      BY <1>1 DEF Loading
    <2>2. iohpmctr[i] = expected[i]
      BY <2>1 DEF CountInv, CountsAreExact
    <2> QED BY <1>1, <1>3, <2>2
  <1> QED BY <1>6, <1>7, <1>8, <1>9

(* Steps that leave the counters and their loads alone.                     *)
LEMMA OthersCount ==
  ASSUME CountInv, UNCHANGED <<iohpmctr, iocountinh, load, expected>>
  PROVE  ExpectedOK' /\ LoadGoesOn' /\ CountsAreExact'
  BY DEF CountInv, ExpectedOK, LoadGoesOn, CountsAreExact, Loading

LEMMA SameSelectors ==
  ASSUME CountInv, UNCHANGED iohpmevt
  PROVE  SelectorsNameIds'
  BY DEF CountInv, SelectorsNameIds

LEMMA SameExpected ==
  ASSUME CountInv, UNCHANGED expected
  PROVE  ExpectedOK'
  BY DEF CountInv, ExpectedOK

(* What one more write of a load leaves of it. *)
LoadIsAt(c, v, next) ==
  load' # NoLoad /\ load'.counter = c /\ load'.value = v /\ load'.next = next

LEMMA NextLoad ==
  ASSUME TypeOK, load # NoLoad, NEW next \in {"high", "release"},
         load' = [load EXCEPT !.next = next]
  PROVE  LoadIsAt(load.counter, load.value, next)
  <1>1. load \in LoadStates
    BY LoadIsTyped
  <1>2. load' \in LoadStates
    BY <1>1 DEF LoadStates
  <1>3. load' # NoLoad
    BY <1>2, ConstantsAssumption
  <1> QED BY <1>1, <1>3 DEF LoadStates, LoadIsAt

LEMMA NextCounts == CountInv /\ [Next]_vars => CountInv'
  <1> SUFFICES ASSUME CountInv, [Next]_vars PROVE CountInv'
    OBVIOUS
  <1> DEFINE Goal == ExpectedOK' /\ SelectorsNameIds' /\ LoadGoesOn' /\ CountsAreExact'
  <1>0. TypeOK'
    BY NextTypeOK DEF CountInv
  <1> SUFFICES Goal
    BY <1>0 DEF CountInv
  <1>1. ASSUME NEW t \in Events, count_events(t) PROVE Goal
    BY <1>1, EventCounts
  <1>2. ASSUME NEW i \in Indices, NEW e \in Selectors, Select(i, e) PROVE Goal
    <2>1. e \in Evts /\ e.did_gscid \in Ids
      BY ConstantsAssumption
    <2>2. SelectorsNameIds'
      BY <1>2, <2>1, SelectorNamesIds DEF Select, CountInv
    <2> QED BY <1>2, <2>2, OthersCount DEF Select
  <1>3. ASSUME NEW i \in Indices, NEW value \in Loads, StartLoad(i, value) PROVE Goal
    <2>1. /\ load' = [counter |-> i, value |-> value, next |-> "low"]
          /\ iocountinh' = (iocountinh \cup {i}) \cap Indices
          /\ load = NoLoad /\ UNCHANGED <<iohpmctr, iohpmevt, expected>>
      BY <1>3 DEF StartLoad, WriteInhibit
    <2>2. LoadGoesOn'
      <3>1. load'.counter = i /\ load'.next = "low"
        BY <2>1
      <3> QED BY <2>1, <3>1 DEF LoadGoesOn
    <2>3. CountsAreExact'
      BY <2>1 DEF CountInv, CountsAreExact, Loading
    <2> QED BY <2>1, <2>2, <2>3 DEF CountInv, ExpectedOK, SelectorsNameIds
  <1>4. CASE LoadLow
    <2> DEFINE c == load.counter
               v == load.value
    <2>1. /\ load # NoLoad /\ load.next = "low" /\ load' = [load EXCEPT !.next = "high"]
          /\ WriteCounter(c, WriteLow(iohpmctr[c], v))
          /\ UNCHANGED <<iohpmevt, iocountinh, expected>>
      BY <1>4 DEF LoadLow
    <2>2. LoadIsAt(c, v, "high")
      BY <2>1, NextLoad DEF CountInv
    <2>3. iohpmctr[c] \in Below /\ c \in Indices /\ v \in Nat
      BY <2>1, LoadIsTyped DEF CountInv, TypeOK, Below
    <2>4. LoadGoesOn'
      <3>1. ASSUME c \in Writable
            PROVE  (WriteHigh(iohpmctr'[c], v) % Wrap) = (v % Wrap)
        <4>1. iohpmctr'[c] = WriteLow(iohpmctr[c], v) % Wrap
          BY <2>1, <2>3, <3>1 DEF WriteCounter, CountInv, TypeOK
        <4> QED BY <2>3, <4>1, LowThenHigh
      <3>2. c \in iocountinh
        BY <2>1 DEF CountInv, LoadGoesOn
      <3> HIDE DEF c, v
      <3> QED BY <2>1, <2>2, <3>1, <3>2 DEF LoadGoesOn, LoadIsAt
    <2>5. CountsAreExact'
      <3> SUFFICES ASSUME NEW i \in Indices, ~Loading(i)' PROVE iohpmctr'[i] = expected'[i]
        BY DEF CountsAreExact
      <3>1. i # c
        BY <2>2 DEF Loading, LoadIsAt
      <3>2. iohpmctr'[i] = iohpmctr[i]
        BY <2>1, <3>1 DEF WriteCounter, CountInv, TypeOK
      <3>3. ~Loading(i)
        BY <3>1 DEF Loading
      <3> QED BY <2>1, <3>2, <3>3 DEF CountInv, CountsAreExact
    <2> QED BY <2>1, <2>4, <2>5, SameExpected, SameSelectors
  <1>5. CASE LoadHigh
    <2> DEFINE c == load.counter
               v == load.value
    <2>1. /\ load # NoLoad /\ load.next = "high" /\ load' = [load EXCEPT !.next = "release"]
          /\ WriteCounter(c, WriteHigh(iohpmctr[c], v))
          /\ expected' = IF c \in Writable THEN [expected EXCEPT ![c] = v % Wrap]
                         ELSE expected
          /\ UNCHANGED <<iohpmevt, iocountinh>>
      BY <1>5 DEF LoadHigh
    <2>2. LoadIsAt(c, v, "release")
      BY <2>1, NextLoad DEF CountInv
    <2>3. c \in Indices /\ v \in Nat /\ c \in iocountinh
      BY <2>1, LoadIsTyped DEF CountInv, LoadGoesOn
    <2>4. LoadGoesOn'
      <3> HIDE DEF c, v
      <3> QED BY <2>1, <2>2, <2>3 DEF LoadGoesOn, LoadIsAt
    <2>5. ExpectedOK'
      <3>1. (v % Wrap) \in Below
        BY <2>3, ModIsBelow DEF Below
      <3> HIDE DEF v
      <3> QED BY <2>1, <2>3, <3>1 DEF CountInv, ExpectedOK
    <2>6. CountsAreExact'
      <3> SUFFICES ASSUME NEW i \in Indices PROVE iohpmctr'[i] = expected'[i]
        BY DEF CountsAreExact
      <3>1. CASE i # c
        <4>1. iohpmctr'[i] = iohpmctr[i] /\ expected'[i] = expected[i]
          BY <2>1, <3>1 DEF WriteCounter, CountInv, TypeOK, ExpectedOK
        <4>2. ~Loading(i)
          BY <3>1 DEF Loading
        <4> QED BY <4>1, <4>2 DEF CountInv, CountsAreExact
      <3>2. CASE i = c /\ c \in Writable
        <4>1. (WriteHigh(iohpmctr[c], v) % Wrap) = (v % Wrap)
          BY <2>1, <3>2 DEF CountInv, LoadGoesOn
        <4>2. iohpmctr'[c] = WriteHigh(iohpmctr[c], v) % Wrap
          BY <2>1, <2>3, <3>2 DEF WriteCounter, CountInv, TypeOK
        <4>3. expected'[c] = v % Wrap
          BY <2>1, <2>3, <3>2 DEF CountInv, ExpectedOK
        <4> QED BY <3>2, <4>1, <4>2, <4>3
      <3>3. CASE i = c /\ c \notin Writable
        BY <2>1, <2>3, <3>3 DEF WriteCounter, CountInv, TypeOK, ExpectedOK
      <3> QED BY <3>1, <3>2, <3>3
    <2> QED BY <2>1, <2>4, <2>5, <2>6, SameSelectors
  <1>6. CASE EndLoad
    <2>1. /\ load # NoLoad /\ load.next = "release" /\ load' = NoLoad
          /\ UNCHANGED <<iohpmctr, iohpmevt, expected>>
      BY <1>6 DEF EndLoad
    <2>2. \A i \in Indices : ~Loading(i)
      BY <2>1 DEF Loading
    <2>3. LoadGoesOn'
      BY <2>1 DEF LoadGoesOn
    <2>4. CountsAreExact'
      BY <2>1, <2>2 DEF CountInv, CountsAreExact
    <2> QED BY <2>1, <2>3, <2>4, SameExpected, SameSelectors
  <1>7. ASSUME NEW m \in BOOLEAN, WriteVecCtrl(m) PROVE Goal
    BY <1>7, OthersCount, SameSelectors DEF WriteVecCtrl, registers
  <1>8. CASE Enter
    BY <1>8, OthersCount, SameSelectors DEF Enter, registers
  <1>9. CASE Acknowledge
    BY <1>9, OthersCount, SameSelectors DEF Acknowledge, registers
  <1>10. CASE ReadOverflows
    BY <1>10, OthersCount, SameSelectors DEF ReadOverflows, registers
  <1>11. ASSUME NEW i \in Indices, ClearOverflow(i) PROVE Goal
    <2> DEFINE e == [iohpmevt[i] EXCEPT !.of = FALSE]
    <2>1. iohpmevt[i] \in SelectorsInUse /\ iohpmevt[i].did_gscid \in Ids
      BY DEF CountInv, TypeOK, SelectorsInUse, SelectorsNameIds
    <2>2. e \in Evts /\ e.did_gscid \in Ids
      BY <2>1, OfKeepsSelector DEF SelectorsInUse, Evts
    <2>3. SelectorsNameIds'
      BY <1>11, <2>2, SelectorNamesIds DEF ClearOverflow, CountInv
    <2> QED BY <1>11, <2>3, OthersCount DEF ClearOverflow
  <1>12. CASE UNCHANGED vars
    BY <1>12, OthersCount, SameSelectors DEF vars, registers
  <1> QED
    BY <1>1, <1>2, <1>3, <1>4, <1>5, <1>6, <1>7, <1>8, <1>9, <1>10, <1>11, <1>12
       DEF Next, Driver, Handler

(* Every counter that is not being loaded reads what was last loaded into   *)
(* it plus the events its selector names that came while it was not         *)
(* inhibited, modulo 2^hpmctr_bits, for every width of counters, halves and *)
(* identifiers (iommu_hpm.c:17-107, iommu_reg.c:92-104).                    *)
THEOREM CountsExact == Spec => []CountsAreExact
  <1>1. CountInv => CountsAreExact
    BY DEF CountInv
  <1> QED BY InitCounts, NextCounts, <1>1, PTL DEF Spec
=============================================================================
