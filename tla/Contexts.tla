------------------------------ MODULE Contexts ------------------------------
(***************************************************************************)
(* Which device and process context a request is translated with: ddtp,    *)
(* the device directory table (DDT), the process directory tables (PDT),   *)
(* the two directory caches, steps 1 to 16 of iommu_translate_iova, the    *)
(* admission of page requests, and the IODIR commands.                     *)
(*                                                                         *)
(* Software stores to the tables and writes ddtp at any time; the IOMMU    *)
(* goes on using a cached context until a command covers it.  The          *)
(* variables seenDc and seenPc record what it may still use.               *)
(*                                                                         *)
(* Identifiers are numbers: the width checks and the table indices are     *)
(* arithmetic.  A table maps the identifiers it can tell apart to cells; a *)
(* cell says what walking down to the leaf meets (fault) and what the leaf *)
(* holds.  A table has one depth: software makes one per mode.             *)
(***************************************************************************)
EXTENDS Integers

CONSTANTS
  Devices,       \* device ids of requests and commands
  Processes,     \* process ids of requests and commands
  Accesses,      \* from {"r", "w", "x"}
  DdtCells,      \* what software stores in the device directory
  PdtRoots,      \* process directories; those in GuestTables are reached
  PdtCells,      \*   through the second stage if there is one
  GuestTables,   \* for each process directory, what the second stage says
  Caps,          \* capabilities, fctl and the parameters of reset_iommu
  CacheSize,     \* entries of each directory cache (2 in the code)
  MaxStores,     \* bound on the stores of software
  InitialDdt,    \* the directory software starts with
  InitialPdt,
  NoProcess,     \* a request without a process id
  NoContext,     \* a request without a process context
  NoEntry        \* a slot of a cache that is not valid

(* ddtp.iommu_mode *)
Off  == 0
Bare == 1
Levels == 2 .. 4     \* 1LVL, 2LVL, 3LVL

(* fsc.MODE is that of pdtp if PDTV is set, and of iosatp if it is not. *)
PD8  == 1
PD17 == 2
PD20 == 3
FscModes == 0 .. 15

(* What a cell of a directory says before its leaf is looked at: nothing    *)
(* (0), or the cause that a non-leaf entry or the access to one raises.     *)
DdtFaults == {0, 257, 258, 259, 268}
PdtFaults == {0, 265, 266, 267, 269}

(* "reserved" is a bit reserved for future use, "qos" an RCID or MCID that  *)
(* is not supported, "ADE" is SADE or GADE; gmode is iohgatp.MODE.          *)
DCs == [V : BOOLEAN, reserved : BOOLEAN, qos : BOOLEAN,
        EN_ATS : BOOLEAN, EN_PRI : BOOLEAN, PRPR : BOOLEAN, T2GPA : BOOLEAN,
        PDTV : BOOLEAN, DPE : BOOLEAN, SXL : BOOLEAN, SBE : BOOLEAN,
        ADE : BOOLEAN, fsc : FscModes, pdt : PdtRoots,
        gmode : FscModes, aligned : BOOLEAN, msi : FscModes]

PCs == [V : BOOLEAN, reserved : BOOLEAN, ENS : BOOLEAN, mode : FscModes]

DeviceIds  == {d \in Nat : d < 16777216}
ProcessIds == {p \in Nat : p < 1048576}

(* Widths of the identifiers a table of some depth tells apart. *)
DeviceLimit(m) ==
  IF m = 2 THEN (IF Caps.msi_flat THEN 64 ELSE 128)
  ELSE IF m = 3 THEN (IF Caps.msi_flat THEN 32768 ELSE 65536)
  ELSE 16777216

ProcessLimit(fsc) ==
  IF fsc = PD8 THEN 256 ELSE IF fsc = PD17 THEN 131072 ELSE 1048576

(* The cell that the indices DDI and PDI of an identifier lead to. *)
DdtPath(did, m) == did % DeviceLimit(m)
PdtPath(pid, fsc)  == pid % ProcessLimit(fsc)

DdtPaths == [m \in Levels |-> {DdtPath(did, m) : did \in Devices}]
PdtPaths == {PdtPath(x[1], x[2]) : x \in Processes \X FscModes}

IsDdt(t) == /\ DOMAIN t = Levels
            /\ \A m \in Levels : t[m] \in [DdtPaths[m] -> DdtCells]

IsPdt(t) == t \in [PdtRoots -> [PdtPaths -> PdtCells]]

ASSUME ConstantsAssumption ==
  /\ Devices \subseteq DeviceIds
  /\ Processes \subseteq ProcessIds /\ 0 \in Processes
  /\ NoProcess \notin Processes
  /\ DdtCells \subseteq [fault : DdtFaults, dc : DCs]
  /\ PdtCells \subseteq [fault : PdtFaults, pc : PCs]
  /\ GuestTables \in [PdtRoots -> {"mapped", "page_fault", "access", "corrupt"}]
  /\ IsDdt(InitialDdt) /\ IsPdt(InitialPdt)
  /\ CacheSize \in Nat \ {0} /\ MaxStores \in Nat
  /\ Accesses \subseteq {"r", "w", "x"}
  /\ Caps.max_iommu_mode \in Levels
  /\ Caps.max_devid \in Nat
  /\ Caps.iosatp \subseteq {8, 9, 10} /\ Caps.iohgatp \subseteq {8, 9, 10}

Types == {"untranslated", "translated", "ats"}

(* Only a request with a process id may ask for supervisor privilege.       *)
Requests ==
  {r \in [at : Types, did : Devices, pid : Processes \cup {NoProcess},
          priv : BOOLEAN, access : Accesses] : r.priv => r.pid # NoProcess}

(* The contexts located for a device and for a process of a device. *)
FoundDcs == [did : Devices, dc : DCs]
FoundPcs == [did : Devices, pid : Processes, pc : PCs]

VARIABLES
  mode,    \* ddtp.iommu_mode
  ddt,     \* the device directory, one of each depth
  pdt,     \* the process directories
  dcs,     \* ddt_cache
  pcs,     \* pdt_cache
  stores,  \* stores software made so far
  seenDc,  \* history: device contexts in force since a command covered them
  seenPc   \* history: process contexts

vars == <<mode, ddt, pdt, dcs, pcs, stores, seenDc, seenPc>>

-----------------------------------------------------------------------------
(* do_device_context_configuration_checks *)

Unsupported(dc) ==
  \/ dc.reserved \/ dc.qos
  \/ (dc.EN_ATS \/ dc.EN_PRI \/ dc.PRPR) /\ ~Caps.ats
  \/ (dc.T2GPA \/ dc.EN_PRI) /\ ~dc.EN_ATS
  \/ dc.PRPR /\ ~dc.EN_PRI
  \/ dc.T2GPA /\ ~Caps.t2gpa
  \/ dc.ADE /\ ~Caps.amo_hwad
  \/ dc.SBE # Caps.be /\ ~(Caps.end /\ Caps.fctl_be_writeable)
  \/ Caps.msi_flat /\ dc.msi \notin {0, 1}
  \/ dc.gmode = 0 /\ dc.msi # 0

(* A mode of a first stage: Sv32 with SXL, else one of Sv39, Sv48 and Sv57. *)
BadFirstStage(m, sxl) ==
  m # 0 /\ IF sxl THEN m # 8 \/ ~Caps.sv32
           ELSE m \notin Caps.iosatp

BadFirst(dc) ==
  \/ dc.PDTV /\ dc.fsc \notin {0} \cup Caps.pdtp
  \/ ~dc.PDTV /\ (dc.DPE \/ BadFirstStage(dc.fsc, dc.SXL))
  \/ Caps.gxl /\ ~dc.SXL
  \/ ~Caps.gxl /\ ~Caps.gxl_writeable /\ dc.SXL

BadSecond(dc) ==
  dc.gmode # 0 /\ \/ ~dc.aligned
                  \/ IF Caps.gxl THEN dc.gmode # 8 \/ ~Caps.sv32x4
                     ELSE dc.gmode \notin Caps.iohgatp

Misconfigured(dc) ==
  \/ Unsupported(dc) \/ BadFirst(dc) \/ BadSecond(dc)
  \/ dc.T2GPA /\ dc.gmode = 0

(* A check of a process context that trusts its mode. *)
OnlyReserved(dc, pc) == pc.reserved

(* do_process_context_configuration_checks *)
MisconfiguredPc(dc, pc) == pc.reserved \/ BadFirstStage(pc.mode, dc.SXL)

-----------------------------------------------------------------------------
(* locate_device_context and locate_process_context: what a walk of the     *)
(* tables in memory finds, and what a cache changes about it.               *)

ReadDc(did) ==
  LET c == ddt[mode][DdtPath(did, mode)]
  IN  [cause |-> IF c.fault # 0 THEN c.fault
                 ELSE IF ~c.dc.V THEN 258
                 ELSE IF Misconfigured(c.dc) THEN 259
                 ELSE 0,
       dc |-> c.dc]

GuestPageFault(access) ==
  CASE access = "x" -> 20 [] access = "r" -> 21 [] access = "w" -> 23

(* The causes of the second-stage translation of a table's address. *)
GuestCause(root, access) ==
  CASE GuestTables[root] = "mapped"     -> 0
    [] GuestTables[root] = "page_fault" -> GuestPageFault(access)
    [] GuestTables[root] = "access"     -> 265
    [] GuestTables[root] = "corrupt"    -> 269

ReadPc(dc, pid, access) ==
  LET c == pdt[dc.pdt][PdtPath(pid, dc.fsc)]
      g == IF dc.gmode = 0 THEN 0 ELSE GuestCause(dc.pdt, access)
  IN  [cause |-> IF g # 0 THEN g
                 ELSE IF c.fault # 0 THEN c.fault
                 ELSE IF ~c.pc.V THEN 266
                 ELSE IF MisconfiguredPc(dc, c.pc) THEN 267
                 ELSE 0,
       pc |-> c.pc]

DcHits(slots, did) ==
  {i \in 1 .. CacheSize : slots[i] # NoEntry /\ slots[i].did = did}

(* A lookup that compares the device only. *)
PcHitsOfDevice(slots, did, pid) ==
  {i \in 1 .. CacheSize : slots[i] # NoEntry /\ slots[i].did = did}

PcHits(slots, did, pid) ==
  {i \in 1 .. CacheSize : /\ slots[i] # NoEntry
                          /\ slots[i].did = did /\ slots[i].pid = pid}

First(hits) == CHOOSE i \in hits : \A j \in hits : i <= j

FindDc(slots, did) ==
  IF DcHits(slots, did) = {} THEN ReadDc(did)
  ELSE [cause |-> 0, dc |-> slots[First(DcHits(slots, did))].dc]

FindPc(slots, dc, did, pid, access) ==
  IF PcHits(slots, did, pid) = {} THEN ReadPc(dc, pid, access)
  ELSE [cause |-> 0, pc |-> slots[First(PcHits(slots, did, pid))].pc]

(* The first invalid slot, and if there is none one that depends on the age *)
(* of the entries.                                                          *)
Victims(slots) ==
  LET free == {i \in 1 .. CacheSize : slots[i] = NoEntry}
  IN  IF free = {} THEN 1 .. CacheSize
      ELSE {i \in free : \A j \in free : i <= j}

-----------------------------------------------------------------------------
(* Steps 1 to 16 of iommu_translate_iova. *)

(* A check that takes every bit above the leaf index for one number. *)
TooWideWithoutDDI2(did, m) ==
  \/ m = 3 /\ did >= DeviceLimit(3)
  \/ m = 2 /\ did % DeviceLimit(3) >= DeviceLimit(2)

(* The indices are kept in DDI[3] of type uint8_t: of nine bits eight stay. *)
DDI1(did) == ((did \div DeviceLimit(2)) % 512) % 256
DDI2(did) == (did \div DeviceLimit(3)) % 256

TooWide(did, m) ==
  \/ m = 3 /\ DDI2(did) # 0
  \/ m = 2 /\ (DDI2(did) # 0 \/ DDI1(did) # 0)

Fault(cause) == [to |-> "fault", cause |-> cause]
Identity     == [to |-> "identity"]
Translate(dc, pc, first) ==
  [to |-> "walk", dc |-> dc, pc |-> pc, first |-> first]

ModeCause(r) ==
  IF mode = Off THEN 256
  ELSE IF (mode = Bare /\ r.at # "untranslated") \/ TooWide(r.did, mode) THEN 260
  ELSE 0

(* Step 7: the transaction type is not allowed by the device context. *)
Disallowed(dc, r) ==
  \/ r.at # "untranslated" /\ ~dc.EN_ATS
  \/ /\ r.pid # NoProcess
     /\ \/ ~dc.PDTV
        \/ dc.fsc \in {PD17, PD8} /\ r.pid >= ProcessLimit(dc.fsc)

(* Steps 10 to 13: the request is translated with a process context. *)
UsesPc(dc, r) ==
  /\ r.at # "translated" /\ dc.PDTV
  /\ dc.fsc # 0 /\ (r.pid # NoProcess \/ dc.DPE)

ProcessOf(r) == IF r.pid = NoProcess THEN 0 ELSE r.pid

(* The outcome of a request that is allowed by its device context. *)
WithDc(slots, dc, r) ==
  IF UsesPc(dc, r)
  THEN LET f == FindPc(slots, dc, r.did, ProcessOf(r), r.access)
       IN  IF f.cause # 0 THEN Fault(f.cause)
           ELSE IF ~f.pc.ENS /\ r.priv THEN Fault(260)
           ELSE Translate(dc, f.pc, f.pc.mode)
  ELSE IF r.at = "translated" /\ ~dc.T2GPA THEN Identity
  ELSE Translate(dc, NoContext,
                 IF r.at = "translated" \/ dc.PDTV THEN 0 ELSE dc.fsc)

Outcome(dslots, pslots, r) ==
  IF ModeCause(r) # 0 THEN Fault(ModeCause(r))
  ELSE IF mode = Bare THEN Identity
  ELSE LET f == FindDc(dslots, r.did)
       IN  IF f.cause # 0 THEN Fault(f.cause)
           ELSE IF Disallowed(f.dc, r) THEN Fault(260)
           ELSE WithDc(pslots, f.dc, r)

(* The device context of a request for which the cache has none. *)
FillDc(did) ==
  IF DcHits(dcs, did) = {} /\ ReadDc(did).cause = 0
  THEN \E i \in Victims(dcs) :
         dcs' = [dcs EXCEPT ![i] = [did |-> did, dc |-> ReadDc(did).dc]]
  ELSE dcs' = dcs

FillPc(dc, r) ==
  LET pid == ProcessOf(r)
      f   == ReadPc(dc, pid, r.access)
  IN  IF PcHits(pcs, r.did, pid) = {} /\ f.cause = 0
      THEN \E i \in Victims(pcs) :
             pcs' = [pcs EXCEPT ![i] = [did |-> r.did, pid |-> pid, pc |-> f.pc]]
      ELSE pcs' = pcs

iommu_translate_iova(r) ==
  /\ IF ModeCause(r) = 0 /\ mode # Bare
     THEN LET f == FindDc(dcs, r.did)
          IN  /\ FillDc(r.did)
              /\ IF f.cause = 0 /\ ~Disallowed(f.dc, r) /\ UsesPc(f.dc, r)
                 THEN FillPc(f.dc, r)
                 ELSE pcs' = pcs
     ELSE UNCHANGED <<dcs, pcs>>
  /\ UNCHANGED <<mode, ddt, pdt, stores, seenDc, seenPc>>

(* The response to a request that fails, and whether a record is written:   *)
(* unsupported request, completer abort, or success without permissions.    *)
Aborts      == {1, 5, 7, 261, 263, 265, 267, 268, 269, 270, 271, 272, 274}
Unsupporteds == 256 .. 260

(* The list without the guest page faults. *)
FewerDenials == {12, 13, 15, 262, 266}

Denials     == {12, 13, 15, 20, 21, 23, 262, 266}

Response(at, cause) ==
  IF at # "ats" \/ cause \in Unsupporteds THEN [status |-> "UR", record |-> TRUE]
  ELSE IF cause \in Aborts THEN [status |-> "CA", record |-> TRUE]
  ELSE IF cause \in Denials THEN [status |-> "success", record |-> FALSE]
  ELSE [status |-> "unset", record |-> FALSE]

-----------------------------------------------------------------------------
(* The admission of a page request (handle_page_request): the cause that    *)
(* refuses it, 0 if it is queued for software.                              *)

PageRequestMode(did) ==
  IF mode = Off THEN 256
  ELSE IF mode = Bare \/ TooWide(did, mode) THEN 260
  ELSE 0

PageRequestCause(did) ==
  IF PageRequestMode(did) # 0 THEN PageRequestMode(did)
  ELSE LET f == FindDc(dcs, did)
       IN  IF f.cause # 0 THEN f.cause
           ELSE IF ~f.dc.EN_PRI THEN 260
           ELSE 0

handle_page_request(did) ==
  /\ IF PageRequestMode(did) = 0 THEN FillDc(did) ELSE dcs' = dcs
  /\ UNCHANGED <<mode, ddt, pdt, pcs, stores, seenDc, seenPc>>

-----------------------------------------------------------------------------
(* What the tables hold now: the contexts a walk finds for a device, and    *)
(* for a process with a device context the IOMMU may have found.            *)

CurrentDc ==
  IF mode \notin Levels THEN {}
  ELSE {[did |-> d, dc |-> ReadDc(d).dc] :
          d \in {e \in Devices : ~TooWide(e, mode) /\ ReadDc(e).cause = 0}}

CurrentPc(known) ==
  {[did |-> x[1].did, pid |-> x[2], pc |-> ReadPc(x[1].dc, x[2], x[3]).pc] :
     x \in {y \in known \X Processes \X Accesses :
              /\ y[1].dc.PDTV /\ y[2] < ProcessLimit(y[1].dc.fsc)
              /\ ReadPc(y[1].dc, y[2], y[3]).cause = 0}}

Init == /\ mode = Off
        /\ ddt = InitialDdt
        /\ pdt = InitialPdt
        /\ dcs = [i \in 1 .. CacheSize |-> NoEntry]
        /\ pcs = [i \in 1 .. CacheSize |-> NoEntry]
        /\ stores = 0
        /\ seenDc = {}
        /\ seenPc = {}

-----------------------------------------------------------------------------
(* IODIR commands.  An illegal command leaves the caches alone. *)

Keep(slots, drops) ==
  [i \in 1 .. CacheSize |-> IF i \in drops THEN NoEntry ELSE slots[i]]

(* A command that leaves the process contexts of the device. *)
KeepsProcesses(dv, did) ==
  /\ dcs' = Keep(dcs, IF dv THEN DcHits(dcs, did) ELSE 1 .. CacheSize)
  /\ pcs' = IF dv THEN pcs ELSE Keep(pcs, 1 .. CacheSize)

Drops(dv, did) ==
  /\ dcs' = Keep(dcs, IF dv THEN DcHits(dcs, did) ELSE 1 .. CacheSize)
  /\ pcs' = Keep(pcs, IF dv THEN {i \in 1 .. CacheSize : /\ pcs[i] # NoEntry
                                                         /\ pcs[i].did = did}
                      ELSE 1 .. CacheSize)

do_inval_ddt(dv, did, pid) ==
  /\ IF pid # 0 \/ (dv /\ did > Caps.max_devid)
     THEN UNCHANGED <<dcs, pcs, seenDc, seenPc>>
     ELSE /\ Drops(dv, did)
          /\ seenDc' = CurrentDc \cup {d \in seenDc : dv /\ d.did # did}
          /\ seenPc' = CurrentPc(seenDc') \cup {p \in seenPc : dv /\ p.did # did}
  /\ UNCHANGED <<mode, ddt, pdt, stores>>

WidePid(pid) ==
  \/ PD20 \notin Caps.pdtp /\ pid >= 131072
  \/ PD20 \notin Caps.pdtp /\ PD17 \notin Caps.pdtp /\ pid >= 256

do_inval_pdt(dv, did, pid) ==
  /\ IF ~dv \/ did > Caps.max_devid \/ WidePid(pid)
     THEN UNCHANGED <<pcs, seenPc>>
     ELSE /\ pcs' = Keep(pcs, PcHits(pcs, did, pid))
          /\ seenPc' = CurrentPc(seenDc)
                       \cup {p \in seenPc : ~(p.did = did /\ p.pid = pid)}
  /\ UNCHANGED <<mode, ddt, pdt, dcs, stores, seenDc>>

-----------------------------------------------------------------------------
(* Software. *)

Remember ==
  /\ seenDc' = seenDc \cup CurrentDc'
  /\ seenPc' = seenPc \cup CurrentPc(seenDc)'

(* A write of ddtp that does not look at the number of levels. *)
AnyMode(m) == mode \in {Off, Bare} \/ m \in {Off, Bare}

(* A write of ddtp: from one directory to another only through Off or Bare. *)
(* The caches keep what they hold.                                          *)
LegalMode(m) == /\ m <= Caps.max_iommu_mode
                /\ mode \in {Off, Bare} \/ m \in {Off, Bare}

WriteDdtp(m) ==
  /\ mode' = IF LegalMode(m) THEN m ELSE mode
  /\ UNCHANGED <<ddt, pdt, dcs, pcs, stores>>
  /\ Remember

StoreDdt(m, path, cell) ==
  /\ stores < MaxStores
  /\ stores' = stores + 1
  /\ ddt' = [ddt EXCEPT ![m][path] = cell]
  /\ UNCHANGED <<mode, pdt, dcs, pcs>>
  /\ Remember

StorePdt(root, path, cell) ==
  /\ stores < MaxStores
  /\ stores' = stores + 1
  /\ pdt' = [pdt EXCEPT ![root][path] = cell]
  /\ UNCHANGED <<mode, ddt, dcs, pcs>>
  /\ Remember

Next ==
  \/ \E r \in Requests : iommu_translate_iova(r)
  \/ \E d \in Devices : handle_page_request(d)
  \/ \E dv \in BOOLEAN, d \in Devices, p \in Processes : do_inval_ddt(dv, d, p)
  \/ \E dv \in BOOLEAN, d \in Devices, p \in Processes : do_inval_pdt(dv, d, p)
  \/ \E m \in {Off, Bare} \cup Levels : WriteDdtp(m)
  \/ \E m \in Levels \cap 2 .. Caps.max_iommu_mode :
       \E path \in DdtPaths[m], cell \in DdtCells : StoreDdt(m, path, cell)
  \/ \E root \in PdtRoots, path \in PdtPaths, cell \in PdtCells :
       StorePdt(root, path, cell)

Spec == Init /\ [][Next]_vars

-----------------------------------------------------------------------------
(* Properties. *)

TypeOK ==
  /\ mode \in 0 .. Caps.max_iommu_mode
  /\ IsDdt(ddt) /\ IsPdt(pdt)
  /\ dcs \in [1 .. CacheSize -> FoundDcs \cup {NoEntry}]
  /\ pcs \in [1 .. CacheSize -> FoundPcs \cup {NoEntry}]
  /\ stores \in 0 .. MaxStores
  /\ seenDc \subseteq FoundDcs /\ seenPc \subseteq FoundPcs

(* Every cached context is one a walk could have found since the last IODIR *)
(* that covers it: a process context, whose place in memory follows from a  *)
(* device context, is dropped with the device context, and no order of      *)
(* stores, ddtp writes, fills, evictions and commands leaves one behind.    *)
Coherent ==
  \A i \in 1 .. CacheSize :
    /\ dcs[i] # NoEntry => dcs[i] \in seenDc
    /\ pcs[i] # NoEntry => pcs[i] \in seenPc

(* The IOMMU may use for a request only the contexts that memory holds.     *)
Synchronized(r) ==
  /\ {d \in seenDc : d.did = r.did} = {d \in CurrentDc : d.did = r.did}
  /\ LET mine(p) == p.did = r.did /\ p.pid = ProcessOf(r)
     IN  {p \in seenPc : mine(p)} = {p \in CurrentPc(CurrentDc) : mine(p)}

NoCache == [i \in 1 .. CacheSize |-> NoEntry]

(* Once software has synchronized a device with its tables, the caches are  *)
(* invisible: every request of it, whatever its type, process id and        *)
(* privilege, is refused, passed or translated as an IOMMU without caches   *)
(* would, for the same cause and with the same contexts.                    *)
CachesAreInvisible ==
  \A r \in Requests : Synchronized(r) =>
    Outcome(dcs, pcs, r) = Outcome(NoCache, NoCache, r)

(* The modes for which the walks set LEVELS. *)
WalkKnows(first, sxl) == first = 0 \/ IF sxl THEN first = 8 ELSE first \in 8 .. 10

(* A request reaches the page tables only with modes the walks know: while  *)
(* software does not change SXL of a device under the IOMMU, no combination *)
(* of a cached or new device context with a cached or new process context,  *)
(* each checked when it was read, gives the walk a mode it has no depth for.*)
UsableContexts ==
  \A r \in Requests :
    LET o == Outcome(dcs, pcs, r)
        sxls == {d.dc.SXL : d \in {e \in seenDc : e.did = r.did}}
    IN  o.to = "walk" /\ sxls = {o.dc.SXL} =>
          /\ WalkKnows(o.first, o.dc.SXL)
          /\ WalkKnows(o.dc.gmode, Caps.gxl)
          /\ r.at = "translated" => o.dc.gmode # 0

(* A request is never served by the entry of another device or process:     *)
(* identifiers wider than the directory are refused ("The device_id is      *)
(* wider than that supported by the IOMMU mode", iommu_translate.c).        *)
WideIdsAreRefused ==
  /\ \A r \in Requests :
       LET o == Outcome(dcs, pcs, r)
       IN  mode \in Levels /\ o.to # "fault" =>
             /\ r.did < DeviceLimit(mode)
             /\ o.to = "walk" /\ o.pc # NoContext =>
                  ProcessOf(r) < ProcessLimit(o.dc.fsc)
  /\ \A d \in Devices : PageRequestCause(d) = 0 => d < DeviceLimit(mode)

(* Every refusal gets a response: the last of the lists of causes in        *)
(* iommu_translate_iova has no default, and a cause in none of them would   *)
(* leave the response as it was.                                            *)
EveryFaultIsAnswered ==
  \A r \in Requests :
    LET o == Outcome(dcs, pcs, r)
    IN  o.to = "fault" => Response(r.at, o.cause).status # "unset"
=============================================================================
