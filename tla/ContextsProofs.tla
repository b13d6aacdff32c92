--------------------------- MODULE ContextsProofs ---------------------------
(***************************************************************************)
(* Proofs about Contexts, for any tables, identifiers, capabilities and    *)
(* cache size.                                                             *)
(*                                                                         *)
(* The invariant behind them all: the histories contain what memory holds, *)
(* every cached context is in a history, and every context in a history    *)
(* passed its configuration checks, a process context with the checks of   *)
(* a device context of the same device that is still in the history.       *)
(***************************************************************************)
EXTENDS Contexts, WellFoundedInduction, TLAPS

CurrentIsSeen == /\ CurrentDc \subseteq seenDc
                 /\ CurrentPc(seenDc) \subseteq seenPc

SeenIsChecked ==
  /\ \A d \in seenDc : ~Misconfigured(d.dc)
  /\ \A p \in seenPc : \E d \in seenDc : /\ d.did = p.did
                                         /\ ~MisconfiguredPc(d.dc, p.pc)

IInv == TypeOK /\ CurrentIsSeen /\ Coherent /\ SeenIsChecked

-----------------------------------------------------------------------------
(* Types. *)

TablesOK == IsDdt(ddt) /\ IsPdt(pdt)

(* What the walks read is typed. *)
LEMMA ReadDcType ==
  ASSUME TablesOK, NEW did \in Devices, mode \in Levels
  PROVE  ReadDc(did).dc \in DCs
<1>1. DdtPath(did, mode) \in DdtPaths[mode]
  BY DEF DdtPaths
<1>2. ddt[mode][DdtPath(did, mode)] \in DdtCells
  BY <1>1 DEF TablesOK, IsDdt
<1>3. ddt[mode][DdtPath(did, mode)].dc \in DCs
  BY <1>2, ConstantsAssumption
<1> QED
  BY <1>3 DEF ReadDc

LEMMA ReadPcType ==
  ASSUME TablesOK, NEW dc \in DCs, NEW pid \in Processes, NEW access
  PROVE  ReadPc(dc, pid, access).pc \in PCs
<1>1. PdtPath(pid, dc.fsc) \in PdtPaths
  <2>1. dc.fsc \in FscModes
    BY DEF DCs
  <2>2. <<pid, dc.fsc>> \in Processes \X FscModes
    BY <2>1
  <2> QED
    BY <2>2 DEF PdtPaths
<1>2. pdt[dc.pdt][PdtPath(pid, dc.fsc)] \in PdtCells
  BY <1>1 DEF TablesOK, IsPdt, DCs
<1>3. pdt[dc.pdt][PdtPath(pid, dc.fsc)].pc \in PCs
  BY <1>2, ConstantsAssumption
<1> QED
  BY <1>3 DEF ReadPc

LEMMA CurrentDcType ==
  ASSUME TablesOK
  PROVE  CurrentDc \subseteq FoundDcs
BY ReadDcType DEF CurrentDc, FoundDcs

LEMMA CurrentPcType ==
  ASSUME TablesOK, NEW known \in SUBSET FoundDcs
  PROVE  CurrentPc(known) \subseteq FoundPcs
<1> SUFFICES ASSUME NEW p \in CurrentPc(known)
             PROVE  p \in FoundPcs
  OBVIOUS
<1>1. PICK x \in known \X Processes \X Accesses :
        p = [did |-> x[1].did, pid |-> x[2], pc |-> ReadPc(x[1].dc, x[2], x[3]).pc]
  BY DEF CurrentPc
<1>2. x[1] \in FoundDcs /\ x[2] \in Processes
  OBVIOUS
<1>3. x[1].did \in Devices /\ x[1].dc \in DCs
  BY <1>2 DEF FoundDcs
<1>4. ReadPc(x[1].dc, x[2], x[3]).pc \in PCs
  BY <1>2, <1>3, ReadPcType
<1> QED
  BY <1>1, <1>2, <1>3, <1>4 DEF FoundPcs

-----------------------------------------------------------------------------
(* What is found for a request. *)

LEMMA RequestType ==
  ASSUME NEW r \in Requests
  PROVE  /\ r.did \in Devices /\ r.access \in Accesses
         /\ r.pid \in Processes \cup {NoProcess}
         /\ ProcessOf(r) \in Processes
BY ConstantsAssumption DEF Requests, ProcessOf

(* The hit of a lookup is one of the matching slots. *)
LEMMA FirstIsHit ==
  ASSUME NEW hits \in SUBSET (1 .. CacheSize), hits # {}
  PROVE  First(hits) \in hits
<1> DEFINE less == OpToRel(<, Nat)
<1>1. hits \subseteq Nat
  BY ConstantsAssumption
<1>2. IsWellFoundedOn(less, Nat)
  BY NatLessThanWellFounded
<1>3. \A i, j \in Nat : i < j => <<i, j>> \in less
  BY DEF OpToRel
<1> HIDE DEF less
<1>4. PICK i \in hits : \A j \in hits : <<j, i>> \notin less
  BY <1>1, <1>2, WFMin
<1>5. ASSUME NEW j \in hits
      PROVE  i <= j
  <2>1. i \in Nat /\ j \in Nat
    BY <1>1
  <2>2. ~(j < i)
    BY Zenon, <1>3, <1>4, <2>1
  <2> QED
    BY <2>1, <2>2
<1> QED
  BY <1>4, <1>5 DEF First

(* A device context that is found, cached or not, is in force. *)
LEMMA FoundDc ==
  ASSUME IInv, mode \in Levels, NEW did \in Devices, ~TooWide(did, mode),
         FindDc(dcs, did).cause = 0
  PROVE  [did |-> did, dc |-> FindDc(dcs, did).dc] \in seenDc
<1>1. CASE DcHits(dcs, did) = {}
  <2>1. FindDc(dcs, did) = ReadDc(did)
    BY <1>1 DEF FindDc
  <2>2. [did |-> did, dc |-> ReadDc(did).dc] \in CurrentDc
    BY <2>1 DEF CurrentDc
  <2> QED
    BY <2>1, <2>2 DEF IInv, CurrentIsSeen
<1>2. CASE DcHits(dcs, did) # {}
  <2> DEFINE i == First(DcHits(dcs, did))
  <2>1. i \in DcHits(dcs, did)
    BY <1>2, FirstIsHit DEF DcHits
  <2>2. i \in 1 .. CacheSize /\ dcs[i] # NoEntry /\ dcs[i].did = did
    BY <2>1 DEF DcHits
  <2>3. dcs[i] \in seenDc /\ dcs[i] \in FoundDcs
    BY <2>2 DEF IInv, Coherent, TypeOK
  <2>4. dcs[i] = [did |-> did, dc |-> dcs[i].dc]
    BY <2>2, <2>3 DEF FoundDcs
  <2>5. FindDc(dcs, did).dc = dcs[i].dc
    BY <1>2 DEF FindDc
  <2> QED
    BY <2>3, <2>4, <2>5
<1> QED
  BY <1>1, <1>2

(* A process id is a number, and no wider than the largest table.           *)
LEMMA ProcessIdFacts ==
  ASSUME NEW pid \in ProcessIds
  PROVE  /\ pid \in Int
         /\ \A fsc : fsc \notin {PD17, PD8} => pid < ProcessLimit(fsc)
<1>1. pid \in Int /\ pid < 1048576
  BY SMT DEF ProcessIds
<1>2. ASSUME NEW fsc, fsc \notin {PD17, PD8}
      PROVE  ProcessLimit(fsc) = 1048576
  BY <1>2, SMT DEF ProcessLimit
<1> QED
  BY <1>1, <1>2, SMT

LEMMA LimitIsPositive ==
  ASSUME NEW fsc
  PROVE  ProcessLimit(fsc) \in Int /\ 0 < ProcessLimit(fsc)
BY SMT DEF ProcessLimit

(* The process id of a request that uses a process context fits its table.  *)
LEMMA ProcessFits ==
  ASSUME NEW r \in Requests, NEW dc \in DCs, ~Disallowed(dc, r), UsesPc(dc, r)
  PROVE  ProcessOf(r) < ProcessLimit(dc.fsc)
<1>1. CASE r.pid = NoProcess
  BY <1>1, LimitIsPositive DEF ProcessOf
<1>2. CASE r.pid # NoProcess
  <2>1. r.pid \in ProcessIds
    BY <1>2, RequestType, ConstantsAssumption
  <2>2. CASE dc.fsc \in {PD17, PD8}
    <3> DEFINE pid == r.pid
               limit == ProcessLimit(dc.fsc)
    <3>1. ~(pid >= limit)
      BY <1>2, <2>2 DEF Disallowed
    <3>2. pid \in Int /\ limit \in Int
      BY <2>1, ProcessIdFacts, LimitIsPositive
    <3> HIDE DEF pid, limit
    <3>3. pid < limit
      BY <3>1, <3>2
    <3> QED
      BY <1>2, <3>3 DEF ProcessOf, pid, limit
  <2>3. CASE dc.fsc \notin {PD17, PD8}
    BY <1>2, <2>1, <2>3, ProcessIdFacts DEF ProcessOf
  <2> QED
    BY <2>2, <2>3
<1> QED
  BY <1>1, <1>2

-----------------------------------------------------------------------------
(* The invariant. *)

(* A context memory holds now passed its checks. *)
LEMMA CurrentIsChecked ==
  /\ \A d \in CurrentDc : ~Misconfigured(d.dc)
  /\ \A known : \A p \in CurrentPc(known) :
       \E d \in known : d.did = p.did /\ ~MisconfiguredPc(d.dc, p.pc)
<1>1. ASSUME NEW did, ReadDc(did).cause = 0
      PROVE  ~Misconfigured(ReadDc(did).dc)
  BY <1>1, SMT DEF ReadDc
<1>2. ASSUME NEW d \in CurrentDc
      PROVE  ~Misconfigured(d.dc)
  BY <1>1, <1>2 DEF CurrentDc
<1>3. ASSUME NEW dc, NEW pid, NEW access, ReadPc(dc, pid, access).cause = 0
      PROVE  ~MisconfiguredPc(dc, ReadPc(dc, pid, access).pc)
  BY <1>3, SMT DEF ReadPc
<1>4. ASSUME NEW known, NEW p \in CurrentPc(known)
      PROVE  \E d \in known : d.did = p.did /\ ~MisconfiguredPc(d.dc, p.pc)
  <2>1. PICK x \in known \X Processes \X Accesses :
          /\ ReadPc(x[1].dc, x[2], x[3]).cause = 0
          /\ p = [did |-> x[1].did, pid |-> x[2],
                  pc |-> ReadPc(x[1].dc, x[2], x[3]).pc]
    BY <1>4 DEF CurrentPc
  <2>2. x[1] \in known
    OBVIOUS
  <2>3. ~MisconfiguredPc(x[1].dc, p.pc) /\ x[1].did = p.did
    BY <1>3, <2>1
  <2> QED
    BY <2>2, <2>3
<1> QED
  BY <1>2, <1>4

LEMMA InvInit == Init => IInv
<1> SUFFICES ASSUME Init
             PROVE  IInv
  OBVIOUS
<1>1. TypeOK
  BY ConstantsAssumption DEF Init, TypeOK, Off, Levels
<1>2. CurrentDc = {} /\ CurrentPc(seenDc) = {}
  BY DEF Init, CurrentDc, CurrentPc, Off, Levels
<1> QED
  BY <1>1, <1>2 DEF Init, IInv, CurrentIsSeen, Coherent, SeenIsChecked

(* A victim of a replacement is a slot. *)
LEMMA VictimIsSlot ==
  ASSUME NEW slots, NEW i \in Victims(slots)
  PROVE  i \in 1 .. CacheSize
BY DEF Victims

LEMMA FillDcKeeps ==
  ASSUME IInv, mode \in Levels, NEW did \in Devices, ~TooWide(did, mode),
         FillDc(did)
  PROVE  /\ dcs' \in [1 .. CacheSize -> FoundDcs \cup {NoEntry}]
         /\ \A i \in 1 .. CacheSize : dcs'[i] # NoEntry => dcs'[i] \in seenDc
<1>1. dcs \in [1 .. CacheSize -> FoundDcs \cup {NoEntry}]
  BY DEF IInv, TypeOK
<1>2. \A i \in 1 .. CacheSize : dcs[i] # NoEntry => dcs[i] \in seenDc
  BY DEF IInv, Coherent
<1>3. CASE dcs' = dcs
  BY <1>1, <1>2, <1>3
<1>4. CASE dcs' # dcs
  <2> DEFINE new == [did |-> did, dc |-> ReadDc(did).dc]
  <2>1. PICK i \in Victims(dcs) : dcs' = [dcs EXCEPT ![i] = new]
    BY <1>4 DEF FillDc
  <2>2. ReadDc(did).cause = 0
    BY <1>4 DEF FillDc
  <2>3. i \in 1 .. CacheSize
    BY VictimIsSlot
  <2>4. new \in seenDc
    BY <2>2 DEF CurrentDc, IInv, CurrentIsSeen
  <2>5. new \in FoundDcs
    BY <2>4 DEF IInv, TypeOK
  <2> HIDE DEF new
  <2> QED
    BY <1>1, <1>2, <2>1, <2>3, <2>4, <2>5
<1> QED
  BY <1>3, <1>4

(* A process context read for a request is one memory holds.                *)
LEMMA ReadPcIsCurrent ==
  ASSUME NEW r \in Requests, NEW dc \in DCs, NEW known,
         [did |-> r.did, dc |-> dc] \in known,
         ~Disallowed(dc, r), UsesPc(dc, r),
         ReadPc(dc, ProcessOf(r), r.access).cause = 0
  PROVE  [did |-> r.did, pid |-> ProcessOf(r),
          pc |-> ReadPc(dc, ProcessOf(r), r.access).pc] \in CurrentPc(known)
<1> DEFINE pid == ProcessOf(r)
           new == [did |-> r.did, pid |-> pid, pc |-> ReadPc(dc, pid, r.access).pc]
           x == <<[did |-> r.did, dc |-> dc], pid, r.access>>
<1>1. pid < ProcessLimit(dc.fsc)
  BY ProcessFits
<1>2. dc.PDTV
  BY DEF UsesPc
<1>3. x \in known \X Processes \X Accesses
  BY RequestType
<1>4. x[1].did = r.did /\ x[1].dc = dc /\ x[2] = pid /\ x[3] = r.access
  OBVIOUS
<1>5. ReadPc(dc, pid, r.access).cause = 0
  OBVIOUS
<1> HIDE DEF x, pid
<1>6. new = [did |-> x[1].did, pid |-> x[2], pc |-> ReadPc(x[1].dc, x[2], x[3]).pc]
  BY <1>4
<1>7. /\ x[1].dc.PDTV /\ x[2] < ProcessLimit(x[1].dc.fsc)
      /\ ReadPc(x[1].dc, x[2], x[3]).cause = 0
  BY <1>5, <1>1, <1>2, <1>4
<1>8. new \in CurrentPc(known)
  BY <1>3, <1>6, <1>7 DEF CurrentPc
<1> QED
  BY <1>8 DEF pid

LEMMA FillPcKeeps ==
  ASSUME IInv, NEW r \in Requests, NEW dc \in DCs,
         [did |-> r.did, dc |-> dc] \in seenDc,
         ~Disallowed(dc, r), UsesPc(dc, r), FillPc(dc, r)
  PROVE  /\ pcs' \in [1 .. CacheSize -> FoundPcs \cup {NoEntry}]
         /\ \A i \in 1 .. CacheSize : pcs'[i] # NoEntry => pcs'[i] \in seenPc
<1>1. pcs \in [1 .. CacheSize -> FoundPcs \cup {NoEntry}]
  BY DEF IInv, TypeOK
<1>2. \A i \in 1 .. CacheSize : pcs[i] # NoEntry => pcs[i] \in seenPc
  BY DEF IInv, Coherent
<1>3. CASE pcs' = pcs
  BY <1>1, <1>2, <1>3
<1>4. CASE pcs' # pcs
  <2> DEFINE pid == ProcessOf(r)
             new == [did |-> r.did, pid |-> pid, pc |-> ReadPc(dc, pid, r.access).pc]
  <2>1. PICK i \in Victims(pcs) : pcs' = [pcs EXCEPT ![i] = new]
    BY <1>4 DEF FillPc
  <2>2. ReadPc(dc, pid, r.access).cause = 0
    BY <1>4 DEF FillPc
  <2>3. i \in 1 .. CacheSize
    BY VictimIsSlot
  <2>4. new \in CurrentPc(seenDc)
    BY <2>2, ReadPcIsCurrent
  <2>5. new \in seenPc
    BY <2>4 DEF IInv, CurrentIsSeen
  <2>6. new \in FoundPcs
    BY <2>5 DEF IInv, TypeOK
  <2> HIDE DEF new
  <2> QED
    BY <1>1, <1>2, <2>1, <2>3, <2>5, <2>6
<1> QED
  BY <1>3, <1>4

(* Tables that do not change hold the same contexts. *)
LEMMA SameTables ==
  ASSUME mode' = mode, ddt' = ddt, pdt' = pdt
  PROVE  /\ CurrentDc' = CurrentDc
         /\ CurrentPc(seenDc)' = CurrentPc(seenDc')
BY DEF CurrentDc, CurrentPc, ReadDc, ReadPc

LEMMA InvTranslate ==
  ASSUME IInv, NEW r \in Requests, iommu_translate_iova(r)
  PROVE  IInv'
<1>1. /\ mode' = mode /\ ddt' = ddt /\ pdt' = pdt /\ stores' = stores
      /\ seenDc' = seenDc /\ seenPc' = seenPc
  BY DEF iommu_translate_iova
<1>2. CurrentIsSeen' /\ SeenIsChecked'
  BY <1>1, SameTables DEF IInv, CurrentIsSeen, SeenIsChecked
<1>3. /\ dcs' \in [1 .. CacheSize -> FoundDcs \cup {NoEntry}]
      /\ \A i \in 1 .. CacheSize : dcs'[i] # NoEntry => dcs'[i] \in seenDc
      /\ pcs' \in [1 .. CacheSize -> FoundPcs \cup {NoEntry}]
      /\ \A i \in 1 .. CacheSize : pcs'[i] # NoEntry => pcs'[i] \in seenPc
  <2>1. CASE ~(ModeCause(r) = 0 /\ mode # Bare)
    BY <2>1 DEF iommu_translate_iova, IInv, TypeOK, Coherent
  <2>2. CASE ModeCause(r) = 0 /\ mode # Bare
    <3> DEFINE f == FindDc(dcs, r.did)
    <3>1. mode \in Levels /\ ~TooWide(r.did, mode)
      <4>1. mode # Off /\ ~TooWide(r.did, mode)
        BY <2>2 DEF ModeCause
      <4>2. mode \in 0 .. 4
        BY ConstantsAssumption DEF IInv, TypeOK, Levels
      <4> QED
        BY <2>2, <4>1, <4>2 DEF Off, Bare, Levels
    <3>2. FillDc(r.did)
      BY <2>2 DEF iommu_translate_iova
    <3>3. CASE f.cause = 0 /\ ~Disallowed(f.dc, r) /\ UsesPc(f.dc, r)
      <4>1. FillPc(f.dc, r)
        BY <2>2, <3>3 DEF iommu_translate_iova
      <4>2. [did |-> r.did, dc |-> f.dc] \in seenDc
        BY <3>1, <3>3, FoundDc, RequestType
      <4>3. f.dc \in DCs
        BY <4>2 DEF IInv, TypeOK, FoundDcs
      <4> HIDE DEF f
      <4> QED
        BY <3>1, <3>2, <3>3, <4>1, <4>2, <4>3, FillDcKeeps, FillPcKeeps, RequestType
    <3>4. CASE ~(f.cause = 0 /\ ~Disallowed(f.dc, r) /\ UsesPc(f.dc, r))
      <4>1. pcs' = pcs
        BY <2>2, <3>4 DEF iommu_translate_iova
      <4> QED
        BY <3>1, <3>2, <4>1, FillDcKeeps, RequestType DEF IInv, TypeOK, Coherent
    <3> QED
      BY <3>3, <3>4
  <2> QED
    BY <2>1, <2>2
<1> QED
  BY <1>1, <1>2, <1>3 DEF IInv, TypeOK, Coherent

LEMMA InvPageRequest ==
  ASSUME IInv, NEW did \in Devices, handle_page_request(did)
  PROVE  IInv'
<1>1. /\ mode' = mode /\ ddt' = ddt /\ pdt' = pdt /\ stores' = stores
      /\ seenDc' = seenDc /\ seenPc' = seenPc /\ pcs' = pcs
  BY DEF handle_page_request
<1>2. CurrentIsSeen' /\ SeenIsChecked'
  BY <1>1, SameTables DEF IInv, CurrentIsSeen, SeenIsChecked
<1>3. /\ dcs' \in [1 .. CacheSize -> FoundDcs \cup {NoEntry}]
      /\ \A i \in 1 .. CacheSize : dcs'[i] # NoEntry => dcs'[i] \in seenDc
  <2>1. CASE PageRequestMode(did) # 0
    BY <2>1 DEF handle_page_request, IInv, TypeOK, Coherent
  <2>2. CASE PageRequestMode(did) = 0
    <3>1. mode # Off /\ mode # Bare /\ ~TooWide(did, mode)
      BY <2>2 DEF PageRequestMode
    <3>2. mode \in 0 .. 4
      BY ConstantsAssumption DEF IInv, TypeOK, Levels
    <3>3. mode \in Levels
      BY <3>1, <3>2 DEF Off, Bare, Levels
    <3> QED
      BY <2>2, <3>1, <3>3, FillDcKeeps DEF handle_page_request
  <2> QED
    BY <2>1, <2>2
<1> QED
  BY <1>1, <1>2, <1>3 DEF IInv, TypeOK, Coherent

(* What memory holds now is typed and checked, in every state whose tables  *)
(* are typed.                                                               *)
LEMMA CurrentDcFacts ==
  TablesOK => /\ CurrentDc \subseteq FoundDcs
              /\ \A d \in CurrentDc : ~Misconfigured(d.dc)
BY CurrentDcType, CurrentIsChecked

LEMMA CurrentPcFacts ==
  TablesOK /\ seenDc \subseteq FoundDcs =>
    /\ CurrentPc(seenDc) \subseteq FoundPcs
    /\ \A p \in CurrentPc(seenDc) :
         \E d \in seenDc : d.did = p.did /\ ~MisconfiguredPc(d.dc, p.pc)
BY CurrentPcType, CurrentIsChecked

(* A step of software that stores to the tables or writes ddtp.             *)
LEMMA InvRemember ==
  ASSUME IInv, Remember, dcs' = dcs, pcs' = pcs, stores' \in 0 .. MaxStores,
         mode' \in 0 .. Caps.max_iommu_mode, TablesOK'
  PROVE  IInv'
<1>1. /\ CurrentDc' \subseteq FoundDcs
      /\ \A d \in CurrentDc' : ~Misconfigured(d.dc)
  <2>1. (TablesOK => /\ CurrentDc \subseteq FoundDcs
                     /\ \A d \in CurrentDc : ~Misconfigured(d.dc))'
    BY CurrentDcFacts, PTL
  <2> QED
    BY <2>1
<1>2. seenDc' = seenDc \cup CurrentDc' /\ seenPc' = seenPc \cup CurrentPc(seenDc)'
  BY DEF Remember
<1>3. seenDc' \subseteq FoundDcs
  BY <1>1, <1>2 DEF IInv, TypeOK
<1>4. /\ CurrentPc(seenDc)' \subseteq FoundPcs
      /\ \A p \in CurrentPc(seenDc)' :
           \E d \in seenDc' : d.did = p.did /\ ~MisconfiguredPc(d.dc, p.pc)
  <2>1. (TablesOK /\ seenDc \subseteq FoundDcs =>
           /\ CurrentPc(seenDc) \subseteq FoundPcs
           /\ \A p \in CurrentPc(seenDc) :
                \E d \in seenDc : d.did = p.did /\ ~MisconfiguredPc(d.dc, p.pc))'
    BY CurrentPcFacts, PTL
  <2> QED
    BY <1>3, <2>1
<1>5. TypeOK'
  BY <1>2, <1>3, <1>4 DEF IInv, TypeOK, TablesOK
<1>6. CurrentIsSeen'
  BY <1>2 DEF CurrentIsSeen
<1>7. Coherent'
  BY <1>2 DEF IInv, Coherent
<1>8. SeenIsChecked'
  BY <1>1, <1>2, <1>4 DEF IInv, SeenIsChecked
<1> QED
  BY <1>5, <1>6, <1>7, <1>8 DEF IInv

LEMMA InvWriteDdtp ==
  ASSUME IInv, NEW m \in {Off, Bare} \cup Levels, WriteDdtp(m)
  PROVE  IInv'
<1>1. mode' \in 0 .. Caps.max_iommu_mode
  BY ConstantsAssumption DEF WriteDdtp, LegalMode, IInv, TypeOK, Off, Bare, Levels
<1>2. TablesOK' /\ stores' \in 0 .. MaxStores
  BY DEF WriteDdtp, IInv, TypeOK, TablesOK, IsDdt, IsPdt
<1> QED
  BY <1>1, <1>2, InvRemember DEF WriteDdtp

LEMMA InvStoreDdt ==
  ASSUME IInv, NEW m \in Levels, NEW path \in DdtPaths[m], NEW cell \in DdtCells,
         StoreDdt(m, path, cell)
  PROVE  IInv'
<1>1. IsDdt(ddt')
  BY DEF StoreDdt, IInv, TypeOK, IsDdt
<1>2. TablesOK' /\ mode' \in 0 .. Caps.max_iommu_mode
  BY <1>1 DEF StoreDdt, IInv, TypeOK, TablesOK, IsDdt, IsPdt
<1>3. stores' \in 0 .. MaxStores
  BY ConstantsAssumption DEF StoreDdt, IInv, TypeOK
<1> QED
  BY <1>2, <1>3, InvRemember DEF StoreDdt

LEMMA InvStorePdt ==
  ASSUME IInv, NEW root \in PdtRoots, NEW path \in PdtPaths, NEW cell \in PdtCells,
         StorePdt(root, path, cell)
  PROVE  IInv'
<1>1. IsPdt(pdt')
  BY DEF StorePdt, IInv, TypeOK, IsPdt
<1>2. TablesOK' /\ mode' \in 0 .. Caps.max_iommu_mode
  BY <1>1 DEF StorePdt, IInv, TypeOK, TablesOK, IsDdt, IsPdt
<1>3. stores' \in 0 .. MaxStores
  BY ConstantsAssumption DEF StorePdt, IInv, TypeOK
<1> QED
  BY <1>2, <1>3, InvRemember DEF StorePdt

(* A command only shrinks the caches and the histories, and what memory     *)
(* holds stays in the histories.                                            *)
LEMMA InvInvalDdt ==
  ASSUME IInv, NEW dv \in BOOLEAN, NEW did \in Devices, NEW pid \in Processes,
         do_inval_ddt(dv, did, pid)
  PROVE  IInv'
<1>1. mode' = mode /\ ddt' = ddt /\ pdt' = pdt /\ stores' = stores
  BY DEF do_inval_ddt
<1>2. CASE UNCHANGED <<dcs, pcs, seenDc, seenPc>>
  BY <1>1, <1>2, SameTables
     DEF IInv, TypeOK, CurrentIsSeen, Coherent, SeenIsChecked
<1>3. CASE ~UNCHANGED <<dcs, pcs, seenDc, seenPc>>
  <2> DEFINE keptDc == {d \in seenDc : dv /\ d.did # did}
             keptPc == {p \in seenPc : dv /\ p.did # did}
  <2>1. /\ Drops(dv, did)
        /\ seenDc' = CurrentDc \cup keptDc
        /\ seenPc' = CurrentPc(seenDc') \cup keptPc
    BY <1>3 DEF do_inval_ddt
  <2>2. CurrentDc' = CurrentDc /\ CurrentPc(seenDc)' = CurrentPc(seenDc')
    BY <1>1, SameTables
  <2>3. TablesOK
    BY DEF IInv, TypeOK, TablesOK
  <2>4. seenDc' \subseteq FoundDcs /\ \A d \in seenDc' : ~Misconfigured(d.dc)
    BY <2>1, <2>3, CurrentDcFacts DEF IInv, TypeOK, SeenIsChecked
  <2>5. /\ CurrentPc(seenDc') \subseteq FoundPcs
        /\ \A p \in CurrentPc(seenDc') :
             \E d \in seenDc' : d.did = p.did /\ ~MisconfiguredPc(d.dc, p.pc)
    BY <2>3, <2>4, CurrentPcType, CurrentIsChecked
  <2>6. seenPc' \subseteq FoundPcs
    BY <2>1, <2>5 DEF IInv, TypeOK
  <2>7. SeenIsChecked'
    <3> SUFFICES ASSUME NEW p \in seenPc'
                 PROVE  \E d \in seenDc' : d.did = p.did /\ ~MisconfiguredPc(d.dc, p.pc)
      BY <2>4 DEF SeenIsChecked
    <3>1. CASE p \in CurrentPc(seenDc')
      BY <2>5, <3>1
    <3>2. CASE p \in keptPc
      <4>1. PICK d \in seenDc : d.did = p.did /\ ~MisconfiguredPc(d.dc, p.pc)
        BY <3>2 DEF IInv, SeenIsChecked
      <4>2. d \in seenDc'
        BY <2>1, <3>2, <4>1
      <4> QED
        BY <4>1, <4>2
    <3> QED
      BY <2>1, <3>1, <3>2
  <2>8. /\ dcs \in [1 .. CacheSize -> FoundDcs \cup {NoEntry}]
        /\ pcs \in [1 .. CacheSize -> FoundPcs \cup {NoEntry}]
    BY DEF IInv, TypeOK
  <2>9. /\ dcs' \in [1 .. CacheSize -> FoundDcs \cup {NoEntry}]
        /\ \A i \in 1 .. CacheSize :
             dcs'[i] # NoEntry => /\ dcs'[i] = dcs[i] /\ dv
                                  /\ i \notin DcHits(dcs, did)
    <3> DEFINE drops == IF dv THEN DcHits(dcs, did) ELSE 1 .. CacheSize
               S == FoundDcs \cup {NoEntry}
    <3>1. dcs' = Keep(dcs, drops)
      BY <2>1 DEF Drops
    <3>2. \A i \in 1 .. CacheSize : i \notin drops => dv /\ i \notin DcHits(dcs, did)
      OBVIOUS
    <3>3. NoEntry \in S /\ dcs \in [1 .. CacheSize -> S]
      BY <2>8
    <3> HIDE DEF drops, S
    <3>4. /\ dcs' \in [1 .. CacheSize -> S]
          /\ \A i \in 1 .. CacheSize :
               dcs'[i] # NoEntry => i \notin drops /\ dcs'[i] = dcs[i]
      BY <3>1, <3>3 DEF Keep
    <3> QED
      BY <3>2, <3>4 DEF S
  <2>10. /\ pcs' \in [1 .. CacheSize -> FoundPcs \cup {NoEntry}]
         /\ \A i \in 1 .. CacheSize :
              pcs'[i] # NoEntry => pcs'[i] = pcs[i] /\ dv /\ pcs[i].did # did
    <3> DEFINE drops == IF dv THEN {i \in 1 .. CacheSize : /\ pcs[i] # NoEntry
                                                           /\ pcs[i].did = did}
                        ELSE 1 .. CacheSize
               S == FoundPcs \cup {NoEntry}
    <3>1. pcs' = Keep(pcs, drops)
      BY <2>1 DEF Drops
    <3>2. \A i \in 1 .. CacheSize :
            i \notin drops => dv /\ (pcs[i] # NoEntry => pcs[i].did # did)
      OBVIOUS
    <3>3. NoEntry \in S /\ pcs \in [1 .. CacheSize -> S]
      BY <2>8
    <3> HIDE DEF drops, S
    <3>4. /\ pcs' \in [1 .. CacheSize -> S]
          /\ \A i \in 1 .. CacheSize :
               pcs'[i] # NoEntry => i \notin drops /\ pcs'[i] = pcs[i]
      BY <3>1, <3>3 DEF Keep
    <3> QED
      BY <3>2, <3>4 DEF S
  <2>11. Coherent'
    BY <2>1, <2>9, <2>10 DEF IInv, Coherent, DcHits
  <2>12. CurrentIsSeen'
    BY <2>1, <2>2 DEF CurrentIsSeen
  <2>13. TypeOK'
    BY <1>1, <2>4, <2>6, <2>9, <2>10 DEF IInv, TypeOK, IsDdt, IsPdt
  <2> QED
    BY <2>7, <2>11, <2>12, <2>13 DEF IInv
<1> QED
  BY <1>2, <1>3

LEMMA InvInvalPdt ==
  ASSUME IInv, NEW dv \in BOOLEAN, NEW did \in Devices, NEW pid \in Processes,
         do_inval_pdt(dv, did, pid)
  PROVE  IInv'
<1>1. /\ mode' = mode /\ ddt' = ddt /\ pdt' = pdt /\ stores' = stores
      /\ dcs' = dcs /\ seenDc' = seenDc
  BY DEF do_inval_pdt
<1>2. CASE UNCHANGED <<pcs, seenPc>>
  BY <1>1, <1>2, SameTables
     DEF IInv, TypeOK, CurrentIsSeen, Coherent, SeenIsChecked
<1>3. CASE ~UNCHANGED <<pcs, seenPc>>
  <2> DEFINE kept == {p \in seenPc : ~(p.did = did /\ p.pid = pid)}
  <2>1. /\ pcs' = Keep(pcs, PcHits(pcs, did, pid))
        /\ seenPc' = CurrentPc(seenDc) \cup kept
    BY <1>3 DEF do_inval_pdt
  <2>2. CurrentDc' = CurrentDc /\ CurrentPc(seenDc)' = CurrentPc(seenDc)
    BY <1>1, SameTables
  <2>3. TablesOK /\ seenDc \subseteq FoundDcs
    BY DEF IInv, TypeOK, TablesOK
  <2>4. /\ CurrentPc(seenDc) \subseteq FoundPcs
        /\ \A p \in CurrentPc(seenDc) :
             \E d \in seenDc : d.did = p.did /\ ~MisconfiguredPc(d.dc, p.pc)
    BY <2>3, CurrentPcFacts
  <2>5. seenPc' \subseteq FoundPcs
    BY <2>1, <2>4 DEF IInv, TypeOK
  <2>6. SeenIsChecked'
    BY <1>1, <2>1, <2>4 DEF IInv, SeenIsChecked
  <2>7. pcs \in [1 .. CacheSize -> FoundPcs \cup {NoEntry}]
    BY DEF IInv, TypeOK
  <2>8. /\ pcs' \in [1 .. CacheSize -> FoundPcs \cup {NoEntry}]
        /\ \A i \in 1 .. CacheSize :
             pcs'[i] # NoEntry => pcs'[i] = pcs[i] /\ i \notin PcHits(pcs, did, pid)
    <3> DEFINE drops == PcHits(pcs, did, pid)
               S == FoundPcs \cup {NoEntry}
    <3>1. pcs' = Keep(pcs, drops)
      BY <2>1
    <3>2. NoEntry \in S /\ pcs \in [1 .. CacheSize -> S]
      BY <2>7
    <3> HIDE DEF drops, S
    <3>3. /\ pcs' \in [1 .. CacheSize -> S]
          /\ \A i \in 1 .. CacheSize :
               pcs'[i] # NoEntry => i \notin drops /\ pcs'[i] = pcs[i]
      BY <3>1, <3>2 DEF Keep
    <3> QED
      BY <3>3 DEF drops, S
  <2>9. Coherent'
    BY <1>1, <2>1, <2>8 DEF IInv, Coherent, PcHits
  <2>10. CurrentIsSeen'
    BY <1>1, <2>1, <2>2 DEF IInv, CurrentIsSeen
  <2>11. TypeOK'
    BY <1>1, <2>5, <2>8 DEF IInv, TypeOK, IsDdt, IsPdt
  <2> QED
    BY <2>6, <2>9, <2>10, <2>11 DEF IInv
<1> QED
  BY <1>2, <1>3

LEMMA InvStep == IInv /\ [Next]_vars => IInv'
<1> SUFFICES ASSUME IInv, [Next]_vars
             PROVE  IInv'
  OBVIOUS
<1>1. CASE \E r \in Requests : iommu_translate_iova(r)
  BY <1>1, InvTranslate
<1>2. CASE \E d \in Devices : handle_page_request(d)
  BY <1>2, InvPageRequest
<1>3. CASE \E dv \in BOOLEAN, d \in Devices, p \in Processes : do_inval_ddt(dv, d, p)
  BY <1>3, InvInvalDdt
<1>4. CASE \E dv \in BOOLEAN, d \in Devices, p \in Processes : do_inval_pdt(dv, d, p)
  BY <1>4, InvInvalPdt
<1>5. CASE \E m \in {Off, Bare} \cup Levels : WriteDdtp(m)
  BY <1>5, InvWriteDdtp
<1>6. CASE \E m \in Levels \cap 2 .. Caps.max_iommu_mode :
             \E path \in DdtPaths[m], cell \in DdtCells : StoreDdt(m, path, cell)
  BY <1>6, InvStoreDdt
<1>7. CASE \E root \in PdtRoots, path \in PdtPaths, cell \in PdtCells :
             StorePdt(root, path, cell)
  BY <1>7, InvStorePdt
<1>8. CASE UNCHANGED vars
  <2>1. CurrentDc' = CurrentDc /\ CurrentPc(seenDc)' = CurrentPc(seenDc)
    BY <1>8, SameTables DEF vars
  <2> QED
    BY <1>8, <2>1
       DEF vars, IInv, TypeOK, CurrentIsSeen, Coherent, SeenIsChecked, IsDdt, IsPdt
<1> QED
  BY <1>1, <1>2, <1>3, <1>4, <1>5, <1>6, <1>7, <1>8 DEF Next

(* Every variable keeps its type: ddtp.iommu_mode never holds a mode the    *)
(* IOMMU does not support, whatever software writes.                        *)
THEOREM TypeCorrect == Spec => []TypeOK
<1>1. IInv => TypeOK
  BY DEF IInv
<1> QED
  BY <1>1, InvInit, InvStep, PTL DEF Spec

(* No IODIR command leaves a context it covers in a cache.                  *)
THEOREM CachesAreCoherent == Spec => []Coherent
<1>1. IInv => Coherent
  BY DEF IInv
<1> QED
  BY <1>1, InvInit, InvStep, PTL DEF Spec

-----------------------------------------------------------------------------
(* What a request gets. *)

(* The context of a hit is in the history of its device and process.        *)
LEMMA PcHit ==
  ASSUME IInv, NEW did, NEW pid, PcHits(pcs, did, pid) # {}
  PROVE  [did |-> did, pid |-> pid,
          pc |-> pcs[First(PcHits(pcs, did, pid))].pc] \in seenPc
<1> DEFINE i == First(PcHits(pcs, did, pid))
<1>1. i \in PcHits(pcs, did, pid)
  BY FirstIsHit DEF PcHits
<1>2. i \in 1 .. CacheSize /\ pcs[i] # NoEntry /\ pcs[i].did = did /\ pcs[i].pid = pid
  BY <1>1 DEF PcHits
<1>3. pcs[i] \in seenPc /\ pcs[i] \in FoundPcs
  BY <1>2 DEF IInv, Coherent, TypeOK
<1>4. pcs[i] = [did |-> did, pid |-> pid, pc |-> pcs[i].pc]
  BY <1>2, <1>3 DEF FoundPcs
<1> QED
  BY <1>3, <1>4

(* A process context that is found, cached or not, is in force. *)
LEMMA FoundPc ==
  ASSUME IInv, NEW r \in Requests, NEW dc \in DCs,
         [did |-> r.did, dc |-> dc] \in seenDc,
         ~Disallowed(dc, r), UsesPc(dc, r),
         FindPc(pcs, dc, r.did, ProcessOf(r), r.access).cause = 0
  PROVE  [did |-> r.did, pid |-> ProcessOf(r),
          pc |-> FindPc(pcs, dc, r.did, ProcessOf(r), r.access).pc] \in seenPc
<1>1. CASE PcHits(pcs, r.did, ProcessOf(r)) = {}
  <2>1. FindPc(pcs, dc, r.did, ProcessOf(r), r.access)
          = ReadPc(dc, ProcessOf(r), r.access)
    BY <1>1 DEF FindPc
  <2> QED
    BY <2>1, ReadPcIsCurrent DEF IInv, CurrentIsSeen
<1>2. CASE PcHits(pcs, r.did, ProcessOf(r)) # {}
  BY <1>2, PcHit DEF FindPc
<1> QED
  BY <1>1, <1>2

(* A request that reaches the page tables has been through the directory.   *)
LEMMA WalkFacts ==
  ASSUME IInv, NEW r \in Requests, Outcome(dcs, pcs, r).to = "walk"
  PROVE  LET dc == FindDc(dcs, r.did).dc
         IN  /\ mode \in Levels /\ ~TooWide(r.did, mode)
             /\ [did |-> r.did, dc |-> dc] \in seenDc /\ dc \in DCs
             /\ ~Disallowed(dc, r)
             /\ Outcome(dcs, pcs, r) = WithDc(pcs, dc, r)
<1> DEFINE f == FindDc(dcs, r.did)
<1>1. /\ ModeCause(r) = 0 /\ mode # Bare /\ f.cause = 0 /\ ~Disallowed(f.dc, r)
      /\ Outcome(dcs, pcs, r) = WithDc(pcs, f.dc, r)
  BY DEF Outcome, Fault, Identity
<1>2. mode # Off /\ ~TooWide(r.did, mode)
  BY <1>1 DEF ModeCause
<1>3. mode \in 0 .. 4
  BY ConstantsAssumption DEF IInv, TypeOK, Levels
<1>4. mode \in Levels
  BY <1>1, <1>2, <1>3 DEF Off, Bare, Levels
<1>5. [did |-> r.did, dc |-> f.dc] \in seenDc
  BY <1>1, <1>2, <1>4, FoundDc, RequestType
<1>6. f.dc \in DCs
  BY <1>5 DEF IInv, TypeOK, FoundDcs
<1> QED
  BY <1>1, <1>2, <1>4, <1>5, <1>6

(* A mode that passes its check is one the walk knows. *)
LEMMA GoodFirstStage ==
  ASSUME NEW m, NEW sxl \in BOOLEAN, ~BadFirstStage(m, sxl)
  PROVE  WalkKnows(m, sxl)
BY ConstantsAssumption DEF BadFirstStage, WalkKnows

LEMMA GoodSecondStage ==
  ASSUME NEW dc, ~BadSecond(dc)
  PROVE  WalkKnows(dc.gmode, Caps.gxl)
BY ConstantsAssumption DEF BadSecond, WalkKnows

LEMMA InvUsable == IInv => UsableContexts
<1> SUFFICES ASSUME IInv, NEW r \in Requests,
                    Outcome(dcs, pcs, r).to = "walk",
                    {d.dc.SXL : d \in {e \in seenDc : e.did = r.did}}
                      = {Outcome(dcs, pcs, r).dc.SXL}
             PROVE  LET o == Outcome(dcs, pcs, r)
                    IN  /\ WalkKnows(o.first, o.dc.SXL)
                        /\ WalkKnows(o.dc.gmode, Caps.gxl)
                        /\ r.at = "translated" => o.dc.gmode # 0
  BY DEF UsableContexts
<1> DEFINE o == Outcome(dcs, pcs, r)
           dc == FindDc(dcs, r.did).dc
           pc == FindPc(pcs, dc, r.did, ProcessOf(r), r.access).pc
<1>1. /\ [did |-> r.did, dc |-> dc] \in seenDc /\ dc \in DCs
      /\ ~Disallowed(dc, r) /\ o = WithDc(pcs, dc, r)
  BY WalkFacts
<1>2. ~Misconfigured(dc)
  BY <1>1 DEF IInv, SeenIsChecked
<1>3. dc.SXL \in BOOLEAN
  BY <1>1 DEF DCs
<1> HIDE DEF dc
<1>4. CASE UsesPc(dc, r)
  <2>1. /\ FindPc(pcs, dc, r.did, ProcessOf(r), r.access).cause = 0
        /\ o = Translate(dc, pc, pc.mode)
    BY <1>1, <1>4 DEF WithDc, Fault
  <2>2. [did |-> r.did, pid |-> ProcessOf(r), pc |-> pc] \in seenPc
    BY <1>1, <1>4, <2>1, FoundPc
  <2> HIDE DEF pc
  <2>3. PICK d \in seenDc : d.did = r.did /\ ~MisconfiguredPc(d.dc, pc)
    BY <2>2 DEF IInv, SeenIsChecked
  <2>4. o.dc = dc /\ o.first = pc.mode
    BY <2>1 DEF Translate
  <2>5. d.dc.SXL = dc.SXL
    BY <2>3, <2>4
  <2>6. ~BadFirstStage(pc.mode, dc.SXL)
    BY <2>3, <2>5 DEF MisconfiguredPc
  <2> QED
    BY <1>2, <1>3, <1>4, <2>4, <2>6, GoodFirstStage, GoodSecondStage
       DEF Misconfigured, UsesPc
<1>5. CASE ~UsesPc(dc, r)
  <2>1. /\ r.at = "translated" => dc.T2GPA
        /\ o = Translate(dc, NoContext,
                         IF r.at = "translated" \/ dc.PDTV THEN 0 ELSE dc.fsc)
    BY <1>1, <1>5 DEF WithDc, Identity
  <2>2. o.dc = dc /\ o.first = IF r.at = "translated" \/ dc.PDTV THEN 0 ELSE dc.fsc
    BY <2>1 DEF Translate
  <2>3. WalkKnows(o.first, dc.SXL)
    <3>1. CASE r.at = "translated" \/ dc.PDTV
      BY <2>2, <3>1 DEF WalkKnows
    <3>2. CASE ~(r.at = "translated" \/ dc.PDTV)
      BY <1>2, <1>3, <2>2, <3>2, GoodFirstStage DEF Misconfigured, BadFirst
    <3> QED
      BY <3>1, <3>2
  <2> QED
    BY <1>2, <2>1, <2>2, <2>3, GoodSecondStage DEF Misconfigured
<1> QED
  BY <1>4, <1>5

(* Every mode a request reaches the page tables with has a depth.           *)
THEOREM ContextsAreUsable == Spec => []UsableContexts
BY InvInit, InvStep, InvUsable, PTL DEF Spec

-----------------------------------------------------------------------------
(* The caches are invisible where the history holds what memory holds.      *)

LEMMA NoHits ==
  ASSUME NEW did, NEW pid
  PROVE  DcHits(NoCache, did) = {} /\ PcHits(NoCache, did, pid) = {}
BY DEF NoCache, DcHits, PcHits

LEMMA SameDc ==
  ASSUME IInv, NEW r \in Requests, Synchronized(r),
         mode \in Levels, ~TooWide(r.did, mode)
  PROVE  FindDc(dcs, r.did) = FindDc(NoCache, r.did)
<1>1. FindDc(NoCache, r.did) = ReadDc(r.did)
  BY NoHits DEF FindDc
<1>2. CASE DcHits(dcs, r.did) = {}
  BY <1>1, <1>2 DEF FindDc
<1>3. CASE DcHits(dcs, r.did) # {}
  <2> DEFINE dc == dcs[First(DcHits(dcs, r.did))].dc
  <2>1. FindDc(dcs, r.did) = [cause |-> 0, dc |-> dc]
    BY <1>3 DEF FindDc
  <2>2. [did |-> r.did, dc |-> dc] \in seenDc
    BY <2>1, FoundDc, RequestType
  <2> HIDE DEF dc
  <2>3. [did |-> r.did, dc |-> dc] \in CurrentDc
    BY <2>2 DEF Synchronized
  <2>4. ReadDc(r.did).cause = 0 /\ ReadDc(r.did).dc = dc
    BY <2>3 DEF CurrentDc
  <2>5. ReadDc(r.did) = [cause |-> 0, dc |-> dc]
    BY <2>4 DEF ReadDc
  <2> QED
    BY <1>1, <2>1, <2>5
<1> QED
  BY <1>2, <1>3

(* What a walk of a mapped process directory finds does not depend on the   *)
(* kind of access.                                                          *)
LEMMA AnyAccess ==
  ASSUME NEW dc \in DCs, NEW pid, NEW a \in Accesses, NEW b \in Accesses,
         ReadPc(dc, pid, a).cause = 0
  PROVE  ReadPc(dc, pid, b) = ReadPc(dc, pid, a)
<1>1. GuestTables[dc.pdt] \in {"mapped", "page_fault", "access", "corrupt"}
  BY ConstantsAssumption DEF DCs
<1>2. a \in {"r", "w", "x"}
  BY ConstantsAssumption
<1>3. CASE dc.gmode = 0
  BY <1>3 DEF ReadPc
<1>4. CASE dc.gmode # 0
  <2>1. GuestCause(dc.pdt, a) = 0
    BY <1>4 DEF ReadPc
  <2>2. GuestTables[dc.pdt] = "mapped"
    BY <1>1, <1>2, <2>1 DEF GuestCause, GuestPageFault
  <2>3. GuestCause(dc.pdt, b) = 0
    BY <2>2 DEF GuestCause
  <2> QED
    BY <2>1, <2>3 DEF ReadPc
<1> QED
  BY <1>3, <1>4

LEMMA SamePc ==
  ASSUME IInv, NEW r \in Requests, Synchronized(r), NEW dc \in DCs,
         dc = ReadDc(r.did).dc
  PROVE  FindPc(pcs, dc, r.did, ProcessOf(r), r.access)
           = FindPc(NoCache, dc, r.did, ProcessOf(r), r.access)
<1> DEFINE pid == ProcessOf(r)
<1>1. FindPc(NoCache, dc, r.did, pid, r.access) = ReadPc(dc, pid, r.access)
  BY NoHits DEF FindPc
<1>2. CASE PcHits(pcs, r.did, pid) = {}
  BY <1>1, <1>2 DEF FindPc
<1>3. CASE PcHits(pcs, r.did, pid) # {}
  <2> DEFINE pc == pcs[First(PcHits(pcs, r.did, pid))].pc
             p  == [did |-> r.did, pid |-> pid, pc |-> pc]
  <2>1. FindPc(pcs, dc, r.did, pid, r.access) = [cause |-> 0, pc |-> pc]
    BY <1>3 DEF FindPc
  <2>2. p \in seenPc
    BY <1>3, PcHit
  <2> HIDE DEF pc
  <2>3. p \in CurrentPc(CurrentDc)
    BY <2>2 DEF Synchronized
  <2>4. PICK d \in CurrentDc, a \in Accesses :
          d.did = r.did /\ ReadPc(d.dc, pid, a).cause = 0
          /\ pc = ReadPc(d.dc, pid, a).pc
    BY <2>3 DEF CurrentPc
  <2>5. d.dc = dc
    BY <2>4 DEF CurrentDc
  <2>6. ReadPc(dc, pid, r.access) = ReadPc(dc, pid, a)
    BY <2>4, <2>5, AnyAccess, RequestType
  <2>7. ReadPc(dc, pid, a) = [cause |-> 0, pc |-> pc]
    BY <2>4, <2>5 DEF ReadPc
  <2> QED
    BY <1>1, <2>1, <2>6, <2>7
<1> QED
  BY <1>2, <1>3

LEMMA InvInvisible == IInv => CachesAreInvisible
<1> SUFFICES ASSUME IInv, NEW r \in Requests, Synchronized(r)
             PROVE  Outcome(dcs, pcs, r) = Outcome(NoCache, NoCache, r)
  BY DEF CachesAreInvisible
<1>1. CASE ModeCause(r) # 0 \/ mode = Bare
  BY <1>1 DEF Outcome
<1>2. CASE ModeCause(r) = 0 /\ mode # Bare
  <2> DEFINE f == FindDc(dcs, r.did)
  <2>1. mode # Off /\ ~TooWide(r.did, mode)
    BY <1>2 DEF ModeCause
  <2>2. mode \in Levels
    BY <1>2, <2>1, ConstantsAssumption DEF IInv, TypeOK, Off, Bare, Levels
  <2>3. FindDc(NoCache, r.did) = f /\ f = ReadDc(r.did)
    BY <2>1, <2>2, SameDc, NoHits DEF FindDc
  <2>4. f.dc \in DCs
    BY <2>2, <2>3, ReadDcType, RequestType DEF IInv, TypeOK, TablesOK
  <2>5. WithDc(pcs, f.dc, r) = WithDc(NoCache, f.dc, r)
    BY <2>3, <2>4, SamePc DEF WithDc
  <2> HIDE DEF f
  <2> QED
    BY <1>2, <2>3, <2>5 DEF Outcome, f
<1> QED
  BY <1>1, <1>2

(* A device whose tables software changed, and which it then synchronized   *)
(* with IODIR, is translated as if there were no directory caches.          *)
THEOREM CachesInvisible == Spec => []CachesAreInvisible
BY InvInit, InvStep, InvInvisible, PTL DEF Spec

-----------------------------------------------------------------------------
(* Every refusal is in one of the lists of causes that set a response.      *)

Answered(cause) == cause \in Aborts \cup Unsupporteds \cup Denials

LEMMA DcCauses ==
  ASSUME TablesOK, mode \in Levels, NEW did \in Devices, NEW slots,
         FindDc(slots, did).cause # 0
  PROVE  Answered(FindDc(slots, did).cause)
<1> DEFINE c == ddt[mode][DdtPath(did, mode)]
<1>1. c.fault \in DdtFaults
  <2>1. DdtPath(did, mode) \in DdtPaths[mode]
    BY DEF DdtPaths
  <2>2. c \in DdtCells
    BY <2>1 DEF TablesOK, IsDdt
  <2> QED
    BY <2>2, ConstantsAssumption
<1>2. FindDc(slots, did).cause = ReadDc(did).cause
  BY DEF FindDc
<1>3. ReadDc(did).cause \in DdtFaults
  BY <1>1 DEF ReadDc, DdtFaults
<1> QED
  BY <1>2, <1>3 DEF DdtFaults, Answered, Aborts, Unsupporteds, Denials

LEMMA PcCauses ==
  ASSUME TablesOK, NEW dc \in DCs, NEW did, NEW pid \in Processes,
         NEW access \in Accesses, NEW slots,
         FindPc(slots, dc, did, pid, access).cause # 0
  PROVE  Answered(FindPc(slots, dc, did, pid, access).cause)
<1> DEFINE c == pdt[dc.pdt][PdtPath(pid, dc.fsc)]
<1>1. c.fault \in PdtFaults
  <2>1. PdtPath(pid, dc.fsc) \in PdtPaths
    <3>1. <<pid, dc.fsc>> \in Processes \X FscModes
      BY DEF DCs
    <3> QED
      BY <3>1 DEF PdtPaths
  <2>2. c \in PdtCells
    BY <2>1 DEF TablesOK, IsPdt, DCs
  <2> QED
    BY <2>2, ConstantsAssumption
<1>2. GuestCause(dc.pdt, access) \in {0, 20, 21, 23, 265, 269}
  <2>1. GuestTables[dc.pdt] \in {"mapped", "page_fault", "access", "corrupt"}
    BY ConstantsAssumption DEF DCs
  <2>2. access \in {"r", "w", "x"}
    BY ConstantsAssumption
  <2> QED
    BY <2>1, <2>2 DEF GuestCause, GuestPageFault
<1>3. FindPc(slots, dc, did, pid, access).cause = ReadPc(dc, pid, access).cause
  BY DEF FindPc
<1>4. ReadPc(dc, pid, access).cause \in {0, 20, 21, 23} \cup PdtFaults
  BY <1>1, <1>2 DEF ReadPc, PdtFaults
<1> QED
  BY <1>3, <1>4 DEF PdtFaults, Answered, Aborts, Unsupporteds, Denials

LEMMA ModeCauses == \A r : ModeCause(r) \in {0, 256, 260}
BY DEF ModeCause

LEMMA InvAnswered == IInv => EveryFaultIsAnswered
<1> SUFFICES ASSUME IInv, NEW r \in Requests, Outcome(dcs, pcs, r).to = "fault"
             PROVE  Response(r.at, Outcome(dcs, pcs, r).cause).status # "unset"
  BY DEF EveryFaultIsAnswered
<1> DEFINE o == Outcome(dcs, pcs, r)
           f == FindDc(dcs, r.did)
<1>1. Answered(256) /\ Answered(260)
  BY DEF Answered, Unsupporteds
<1>2. Answered(o.cause)
  <2>1. CASE ModeCause(r) # 0
    BY <1>1, <2>1, ModeCauses DEF Outcome, Fault
  <2>2. CASE ModeCause(r) = 0
    <3>1. mode # Bare
      BY <2>2 DEF Outcome, Identity
    <3>2. mode # Off /\ ~TooWide(r.did, mode)
      BY <2>2, <3>1 DEF ModeCause
    <3>3. mode \in Levels
      BY <3>1, <3>2, ConstantsAssumption DEF IInv, TypeOK, Off, Bare, Levels
    <3>4. TablesOK
      BY DEF IInv, TypeOK, TablesOK
    <3>5. CASE f.cause # 0
      <4>1. o.cause = f.cause
        BY <2>2, <3>1, <3>5 DEF Outcome, Fault
      <4> QED
        BY <3>3, <3>4, <3>5, <4>1, DcCauses, RequestType
    <3>6. CASE f.cause = 0 /\ Disallowed(f.dc, r)
      BY <1>1, <2>2, <3>1, <3>6 DEF Outcome, Fault
    <3>7. CASE f.cause = 0 /\ ~Disallowed(f.dc, r)
      <4>1. f.dc \in DCs
        BY <3>2, <3>3, <3>7, FoundDc, RequestType DEF IInv, TypeOK, FoundDcs
      <4> HIDE DEF f
      <4>2. o = WithDc(pcs, f.dc, r)
        BY <2>2, <3>1, <3>7 DEF Outcome, f
      <4>3. UsesPc(f.dc, r)
        BY <4>2 DEF WithDc, Identity, Translate
      <4> DEFINE g == FindPc(pcs, f.dc, r.did, ProcessOf(r), r.access)
      <4>4. CASE g.cause # 0
        <5>1. o.cause = g.cause
          BY <4>2, <4>3, <4>4 DEF WithDc, Fault
        <5> QED
          BY <3>4, <4>1, <4>4, <5>1, PcCauses, RequestType
      <4>5. CASE g.cause = 0
        BY <1>1, <4>2, <4>3, <4>5 DEF WithDc, Fault, Translate
      <4> QED
        BY <4>4, <4>5
    <3> QED
      BY <3>5, <3>6, <3>7
  <2> QED
    BY <2>1, <2>2
<1>3. CASE r.at # "ats"
  BY <1>3 DEF Response
<1>4. CASE r.at = "ats"
  BY <1>2, <1>4 DEF Response, Answered
<1> QED
  BY <1>3, <1>4

(* No fault leaves the response of a request as it was.                     *)
THEOREM FaultsAreAnswered == Spec => []EveryFaultIsAnswered
BY InvInit, InvStep, InvAnswered, PTL DEF Spec

-----------------------------------------------------------------------------
(* The width of identifiers.  DDI[3] holds eight of the nine bits of some   *)
(* indices; where the lost bit is clear the checks see the whole index.     *)

KeepsItsBits(did) == /\ (did \div DeviceLimit(2)) % 512 < 256
                     /\ did \div DeviceLimit(3) < 256

LEMMA WideDevice ==
  ASSUME NEW did \in Devices, KeepsItsBits(did), mode \in Levels,
         ~TooWide(did, mode)
  PROVE  did < DeviceLimit(mode)
<1>1. did \in Nat /\ did < 16777216
  BY ConstantsAssumption DEF DeviceIds
<1> DEFINE l2 == DeviceLimit(2)
           l3 == DeviceLimit(3)
<1>2. l2 \in {64, 128} /\ l3 = 512 * l2
  BY DEF DeviceLimit
<1>3. (did \div l2) % 512 < 256 /\ did \div l3 < 256
  BY DEF KeepsItsBits
<1>4. /\ mode = 3 => (did \div l3) % 256 = 0
      /\ mode = 2 => /\ (did \div l3) % 256 = 0
                    /\ ((did \div l2) % 512) % 256 = 0
  BY DEF TooWide, DDI1, DDI2
<1>5. /\ mode = 2 => DeviceLimit(mode) = l2
      /\ mode = 3 => DeviceLimit(mode) = l3
      /\ mode = 4 => DeviceLimit(mode) = 16777216
  BY DEF DeviceLimit
<1>6. mode \in {2, 3, 4}
  BY DEF Levels
<1> HIDE DEF l2, l3
<1>7. CASE mode = 4
  BY <1>1, <1>5, <1>7
<1>8. ASSUME mode \in {2, 3}
      PROVE  did < l3
  BY <1>1, <1>2, <1>3, <1>4, <1>8, SMT
<1>9. CASE mode = 3
  BY <1>5, <1>8, <1>9
<1>10. CASE mode = 2
  <2>1. did < l3
    BY <1>8, <1>10
  <2>2. did \div l2 < 512
    BY <1>1, <1>2, <2>1, SMT
  <2>3. did \div l2 = 0
    BY <1>1, <1>2, <1>3, <1>4, <1>10, <2>2, SMT
  <2>4. did < l2
    BY <1>1, <1>2, <2>3, SMT
  <2> QED
    BY <1>5, <1>10, <2>4
<1> QED
  BY <1>6, <1>7, <1>9, <1>10

LEMMA InvWide ==
  ASSUME \A d \in Devices : KeepsItsBits(d)
  PROVE  IInv => WideIdsAreRefused
<1> SUFFICES ASSUME IInv
             PROVE  WideIdsAreRefused
  OBVIOUS
<1>1. mode \in {Off, Bare} \cup Levels
  BY ConstantsAssumption DEF IInv, TypeOK, Off, Bare, Levels
<1>2. ASSUME NEW r \in Requests, mode \in Levels, Outcome(dcs, pcs, r).to # "fault"
      PROVE  /\ r.did < DeviceLimit(mode)
             /\ Outcome(dcs, pcs, r).to = "walk" /\ Outcome(dcs, pcs, r).pc # NoContext
                  => ProcessOf(r) < ProcessLimit(Outcome(dcs, pcs, r).dc.fsc)
  <2> DEFINE o == Outcome(dcs, pcs, r)
             f == FindDc(dcs, r.did)
  <2>1. ModeCause(r) = 0
    BY <1>2 DEF Outcome, Fault
  <2>2. ~TooWide(r.did, mode)
    BY <1>2, <2>1 DEF ModeCause, Levels, Off
  <2>3. mode # Bare
    BY <1>2 DEF Levels, Bare
  <2>4. f.cause = 0 /\ ~Disallowed(f.dc, r)
    BY <1>2, <2>1, <2>3 DEF Outcome, Fault
  <2>5. f.dc \in DCs
    BY <1>2, <2>2, <2>4, FoundDc, RequestType DEF IInv, TypeOK, FoundDcs
  <2>6. o = WithDc(pcs, f.dc, r)
    BY <2>1, <2>3, <2>4 DEF Outcome
  <2> HIDE DEF f
  <2>7. ASSUME o.to = "walk", o.pc # NoContext
        PROVE  ProcessOf(r) < ProcessLimit(o.dc.fsc)
    <3>1. UsesPc(f.dc, r)
      BY <2>6, <2>7 DEF WithDc, Identity, Translate
    <3>2. o.dc = f.dc
      BY <2>6, <2>7, <3>1 DEF WithDc, Fault, Translate
    <3> QED
      BY <2>4, <2>5, <3>1, <3>2, ProcessFits DEF f
  <2> QED
    BY <1>2, <2>2, <2>7, WideDevice, RequestType
<1>3. ASSUME NEW d \in Devices, PageRequestCause(d) = 0
      PROVE  d < DeviceLimit(mode)
  <2>1. PageRequestMode(d) = 0
    BY <1>3 DEF PageRequestCause
  <2>2. mode \in Levels /\ ~TooWide(d, mode)
    BY <1>1, <2>1 DEF PageRequestMode
  <2> QED
    BY <2>2, WideDevice
<1> QED
  BY <1>2, <1>3 DEF WideIdsAreRefused

(* An identifier the directory is too narrow for is refused, whatever the   *)
(* caches hold: a request or page request that goes on fits the mode of     *)
(* ddtp, and its process id the process directory it is looked up in.       *)
(* Devices whose index loses a bit in DDI[3] are the exception: see the run *)
(* contexts_device_id.                                                      *)
THEOREM WideIdsRefused ==
  ASSUME \A d \in Devices : KeepsItsBits(d)
  PROVE  Spec => []WideIdsAreRefused
BY InvInit, InvStep, InvWide, PTL DEF Spec

=============================================================================
