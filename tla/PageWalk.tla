------------------------------ MODULE PageWalk ------------------------------
(***************************************************************************)
(* The walk of the page tables on a miss of the translation cache: the     *)
(* first stage (two_stage_address_translation), the second stage that each *)
(* of its accesses goes through and that translates its result             *)
(* (second_stage_address_translation), the MSI page table                  *)
(* (msi_address_translation), and the answer of iommu_translate_iova.      *)
(*                                                                         *)
(* Harts store to the tables while the IOMMU walks them.  The walk reads   *)
(* one entry a step, and marks an entry accessed or dirty with a           *)
(* compare-and-swap that the code asks its environment to make atomic      *)
(* (read_memory_for_AMO, write_memory).                                    *)
(*                                                                         *)
(* An address is a page number; an entry of a table is in a cell, which is *)
(* a page and an index.  Both stages' tables are in one memory, so a table *)
(* may map itself.  G, PBMT and page sizes are left to the module Iotlb.   *)
(***************************************************************************)
EXTENDS Integers, FiniteSetsExt

CONSTANTS
  Levels1,     \* LEVELS of the first stage
  Levels2,     \* LEVELS of the second stage
  Span,        \* for each level, the pages below an entry (512^n; 1024^n)
  GuestLimit,  \* guest pages that the second stage can translate
  Cells,       \* memory for tables: <<page, index>>
  Poisoned,    \* cells whose data is corrupted
  ReadOnly,    \* cells that PMA or PMP do not let the IOMMU store to
  Requests,    \* requests that the walk may be asked to translate
  Stores,      \* <<cell, entry>> that harts may store
  MaxStores,   \* bound on the stores of the harts
  MsiMask,     \* msi_addr_mask and msi_addr_pattern: positions of the bits
  MsiPattern,  \*   set
  PageBits,    \* bits of a guest page number
  MsiTable,    \* entries of the MSI page table by interrupt file number
  MsiMrif,     \* capabilities.msi_mrif
  InitialMem,
  NoCell

(* "reserved" is a reserved bit or a reserved encoding of PBMT. *)
Ptes == [V : BOOLEAN, R : BOOLEAN, W : BOOLEAN, X : BOOLEAN, U : BOOLEAN,
         A : BOOLEAN, D : BOOLEAN, N : BOOLEAN, reserved : BOOLEAN, ppn : Nat]

MsiPtes == [V : BOOLEAN, C : BOOLEAN, M : 0 .. 3, reserved : BOOLEAN,
            poisoned : BOOLEAN, ppn : Nat]

(* What a request asks for (get_attribs_from_req) and what its contexts     *)
(* say: which stages are not Bare, their roots, and whether there is an MSI *)
(* page table.  An ATS request is a read, and a write too without no_write. *)
IsRequest(r) ==
  r \in [read : BOOLEAN, write : BOOLEAN, exec : BOOLEAN, exec_req : BOOLEAN,
         ats : BOOLEAN, priv : BOOLEAN, SUM : BOOLEAN, debug : BOOLEAN, iova : Nat,
         stage1 : BOOLEAN, stage2 : BOOLEAN, SADE : BOOLEAN, GADE : BOOLEAN,
         msi : BOOLEAN, root1 : Nat, root2 : Nat]

ASSUME ConstantsAssumption ==
  /\ Levels1 \in Nat \ {0} /\ Levels2 \in Nat \ {0}
  /\ \A n \in 0 .. Levels1 : Span[n] \in Nat \ {0}
  /\ \A n \in 0 .. Levels2 : Span[n] \in Nat \ {0}
  /\ Span[0] = 1
  /\ GuestLimit \in Nat
  /\ Cells \subseteq Nat \X Nat
  /\ Requests # {}
  /\ \A r \in Requests :
       /\ IsRequest(r)
       /\ r.exec => r.exec_req
       /\ IF r.ats THEN r.read ELSE r.read # (r.write # r.exec)
  /\ Stores \subseteq Cells \X Ptes
  /\ MaxStores \in Nat
  /\ InitialMem \in [Cells -> Ptes]
  /\ \A I \in DOMAIN MsiTable : MsiTable[I] \in MsiPtes
  /\ NoCell \notin Cells

VARIABLES
  mem,       \* the tables
  pc,        \* where the walk is
  req,       \* the request it translates
  i,         \* level of the first stage
  pte,       \* entry read from there
  vcell,     \* and its cell
  j,         \* level of the second stage
  a,         \* table of the second stage
  gpa,       \* guest page that the second stage translates
  gpte,      \* entry read from there
  gcell,     \* and its cell
  is_implicit,        \* gpa is a table of the first stage
  is_implicit_write,  \* the walk has wanted to write there
  answer,
  vstale,    \* history: harts stored to vcell since the walk last looked
  gstale,    \* history: harts stored to gcell since the walk last looked
  stores     \* stores of the harts

first   == <<i, pte, vcell, vstale, is_implicit_write>>
second  == <<j, a, gpte, gcell, gstale>>
target  == <<gpa, is_implicit>>
vars == <<mem, pc, req, first, second, target, answer, stores>>

(* An entry without protection: a stage that is Bare, an MSI. *)
AllRights(page) ==
  [V |-> TRUE, R |-> TRUE, W |-> TRUE, X |-> TRUE, U |-> TRUE,
   A |-> TRUE, D |-> TRUE, N |-> FALSE, reserved |-> FALSE, ppn |-> page]

Pcs == {"idle", "second", "gread", "gamo", "vread", "vamo", "msi", "reply"}

(* What the request gets: a cause and iotval2, a guest page and whether the *)
(* access to it was implicit and was a write; or, if the cause is 0, a page *)
(* and the rights to it.                                                    *)
Answers == [fault : Nat, iotval2 : Nat \X BOOLEAN \X BOOLEAN,
            page : Nat, R : BOOLEAN, W : BOOLEAN, X : BOOLEAN, mrif : BOOLEAN]

Failed(cause, iotval2) ==
  [fault |-> cause, iotval2 |-> iotval2,
   page |-> 0, R |-> FALSE, W |-> FALSE, X |-> FALSE, mrif |-> FALSE]

NoAnswer == Failed(0, <<0, FALSE, FALSE>>)

Init ==
  /\ mem = InitialMem
  /\ pc = "idle"
  /\ req = CHOOSE r \in Requests : TRUE
  /\ i = 0 /\ j = 0 /\ a = 0 /\ gpa = 0
  /\ pte = AllRights(0) /\ gpte = AllRights(0)
  /\ vcell = NoCell /\ gcell = NoCell
  /\ vstale = FALSE /\ gstale = FALSE
  /\ is_implicit = FALSE /\ is_implicit_write = FALSE
  /\ answer = NoAnswer
  /\ stores = 0

-----------------------------------------------------------------------------
(* Faults *)

ByAccess(r, exec, read, write) ==
  IF r.exec THEN exec ELSE IF r.read THEN read ELSE write

Fault(cause) ==
  /\ pc' = "idle"
  /\ answer' = Failed(cause, <<0, FALSE, FALSE>>)

PageFault   == Fault(ByAccess(req, 12, 13, 15))
AccessFault == Fault(ByAccess(req, 1, 5, 7))

(* The guest page reported for an implicit access is that of the table. *)
GuestPageFault(wrote) ==
  /\ pc' = "idle"
  /\ answer' = Failed(ByAccess(req, 20, 21, 23),
                      <<gpa, is_implicit, is_implicit /\ wrote>>)

-----------------------------------------------------------------------------
(* Entries of the page tables *)

Vpn(page, n, levels) ==
  (IF n = levels - 1 THEN page ELSE page % Span[n + 1]) \div Span[n]

Malformed(e, n) ==
  ~e.V \/ (~e.R /\ e.W) \/ e.reserved \/ (n # 0 /\ e.N)

IsLeaf(e) == e.R \/ e.X

(* A change: a pointer at the last level is followed. *)
OnlyReservedPointer(e, n) == e.D \/ e.A \/ e.U

(* A pointer to a table has A, D and U clear and is not at the last level. *)
BadPointer(e, n) == e.D \/ e.A \/ e.U \/ n = 0

(* A superpage that is not aligned, or a NAPOT encoding that is reserved. *)
Misplaced(e, n) ==
  \/ e.ppn % Span[n] # 0
  \/ n = 0 /\ e.N /\ e.ppn % 16 # 8

(* The page that the leaf e of level n gives for a page: NAPOT takes the    *)
(* last four bits from the page, a superpage all those below its size.      *)
Translated(e, n, page) ==
  LET size == IF e.N THEN 16 ELSE Span[n]
  IN (e.ppn - (e.ppn % size)) + (page % size)

(* The accesses that a leaf denies.  An ATS request gets the rights left. *)
Denied(e, read, write, exec) ==
  \/ exec /\ ~e.X
  \/ read /\ ~e.R
  \/ write /\ ~e.W

DeniedFirst(e) ==
  \/ ~req.ats /\ Denied(e, req.read, req.write, req.exec)
  \/ ~req.priv /\ ~e.U
  \/ req.priv /\ e.U /\ (req.exec \/ ~req.SUM)

(* An implicit access is a read and is always checked. *)
DeniedSecond(e) ==
  \/ IF is_implicit THEN Denied(e, TRUE, FALSE, FALSE)
     ELSE ~req.ats /\ Denied(e, req.read, req.write, req.exec)
  \/ ~e.U

Writes == ~is_implicit /\ req.write

(* Changes: the D bit of a first-stage leaf, and that of a second-stage     *)
(* leaf that maps a table, are not waited for.                              *)
AccessedFirst(e) == e.A
MarkedForRequest(e) == e.A /\ (e.D \/ ~Writes \/ ~e.W)

(* Steps 7 of the two walks. *)
MarkedFirst(e) == e.A /\ (e.D \/ ~req.write \/ ~e.W)

MarkedSecond(e) ==
  /\ e.A
  /\ e.D \/ ~Writes \/ ~e.W
  /\ e.D \/ ~is_implicit \/ ~e.W \/ ~req.SADE

Mark(e, dirty) == [e EXCEPT !.A = TRUE, !.D = @ \/ (dirty /\ e.W)]

-----------------------------------------------------------------------------
(* Memory *)

Readable(c) == c \in Cells /\ c \notin Poisoned

(* What the walk does when it cannot read a cell. *)
ReadFault(c) == IF c \in Cells THEN Fault(274) ELSE AccessFault

(* Changes: the comparison is with the marked entry; nothing is compared. *)
HoldsMarked(c, read) == mem[c] = Mark(read, FALSE)

MarkAnyway(c, read, dirty) == mem' = [mem EXCEPT ![c] = Mark(read, dirty)]

(* The walk puts a marked entry back only if the cell still holds the one   *)
(* it read; else the cell keeps its value and the entry is read again.      *)
Holds(c, read) == mem[c] = read

CompareAndMark(c, read, dirty) ==
  mem' = IF Holds(c, read) THEN [mem EXCEPT ![c] = Mark(read, dirty)] ELSE mem

-----------------------------------------------------------------------------
(* The request *)

(* A request whose translation is not cached.  A first stage that is Bare   *)
(* gives all rights; one that is not first needs its root translated.       *)
Start(r) ==
  /\ pc = "idle"
  /\ req' = r
  /\ vcell' = NoCell /\ gcell' = NoCell
  /\ vstale' = FALSE /\ gstale' = FALSE
  /\ is_implicit_write' = FALSE
  /\ is_implicit' = r.stage1
  /\ gpa' = IF r.stage1 THEN r.root1 ELSE r.iova
  /\ i' = IF r.stage1 THEN Levels1 - 1 ELSE 0
  /\ pte' = AllRights(0)
  /\ IF r.stage1 /\ r.iova >= Span[Levels1]
     THEN Fault(ByAccess(r, 12, 13, 15))
     ELSE /\ pc' = IF r.stage1 THEN "second" ELSE "msi"
          /\ answer' = NoAnswer
  /\ UNCHANGED <<mem, j, a, gpte, stores>>

(* Where the walk goes when the second stage has translated gpa. *)
AfterSecond == IF is_implicit THEN "vread" ELSE "reply"

(* The second stage begins, again after a failed mark of the first. *)
EnterSecond ==
  /\ pc = "second"
  /\ gcell' = NoCell /\ gstale' = FALSE
  /\ UNCHANGED <<mem, req, first, target, stores>>
  /\ \/ /\ ~req.stage2
        /\ gpte' = AllRights(gpa)
        /\ pc' = AfterSecond
        /\ j' = 0
        /\ UNCHANGED <<a, answer>>
     \/ /\ req.stage2 /\ gpa >= GuestLimit
        /\ GuestPageFault(is_implicit_write)
        /\ UNCHANGED <<j, a, gpte>>
     \/ /\ req.stage2 /\ gpa < GuestLimit
        /\ j' = Levels2 - 1
        /\ a' = req.root2
        /\ pc' = "gread"
        /\ UNCHANGED <<gpte, answer>>

(* Steps 2 to 7 of the second stage, for one entry. *)
ReadSecond ==
  /\ pc = "gread"
  /\ UNCHANGED <<mem, req, first, target, stores>>
  /\ LET c == <<a, Vpn(gpa, j, Levels2)>>
         e == mem[c]
         refused == \/ Malformed(e, j)
                    \/ ~IsLeaf(e) /\ BadPointer(e, j)
                    \/ IsLeaf(e) /\ (DeniedSecond(e) \/ Misplaced(e, j)
                                     \/ (~MarkedSecond(e) /\ ~req.GADE))
     IN IF ~Readable(c)
        THEN ReadFault(c) /\ UNCHANGED second
        ELSE /\ gpte' = e /\ gcell' = c /\ gstale' = FALSE
             /\ \/ /\ refused
                   /\ GuestPageFault(is_implicit_write)
                   /\ UNCHANGED <<j, a>>
                \/ /\ ~refused /\ ~IsLeaf(e)
                   /\ j' = j - 1 /\ a' = e.ppn
                   /\ UNCHANGED <<pc, answer>>
                \/ /\ ~refused /\ IsLeaf(e)
                   /\ pc' = IF MarkedSecond(e) THEN AfterSecond ELSE "gamo"
                   /\ UNCHANGED <<j, a, answer>>

(* The mark of a second-stage leaf.  The walk goes on with the entry it had *)
(* read, or reads it again if the cell has changed.                         *)
UpdateSecond ==
  /\ pc = "gamo"
  /\ UNCHANGED <<req, first, target, j, a, gpte, gcell, stores>>
  /\ IF gcell \in ReadOnly
     THEN AccessFault /\ UNCHANGED <<mem, gstale>>
     ELSE /\ CompareAndMark(gcell, gpte, Writes \/ is_implicit)
          /\ pc' = IF Holds(gcell, gpte) THEN AfterSecond ELSE "gread"
          /\ gstale' = FALSE
          /\ UNCHANGED answer

-----------------------------------------------------------------------------
(* The first stage *)

(* The result of the first stage goes to the MSI page table and then to the *)
(* second stage.                                                            *)
FirstDone(e) ==
  /\ gpa' = Translated(e, i, req.iova)
  /\ is_implicit' = FALSE
  /\ pc' = "msi"

(* Steps 2 to 7 of the first stage, for one entry whose table the second    *)
(* stage has translated.                                                    *)
ReadFirst ==
  /\ pc = "vread"
  /\ UNCHANGED <<mem, req, second, stores>>
  /\ LET c == <<Translated(gpte, j, gpa), Vpn(req.iova, i, Levels1)>>
         e == mem[c]
         refused == \/ Malformed(e, i)
                    \/ ~IsLeaf(e) /\ BadPointer(e, i)
                    \/ IsLeaf(e) /\ (DeniedFirst(e) \/ Misplaced(e, i)
                                     \/ (~MarkedFirst(e) /\ ~req.SADE))
     IN IF ~Readable(c)
        THEN ReadFault(c) /\ UNCHANGED <<first, target>>
        ELSE /\ pte' = e /\ vcell' = c /\ vstale' = FALSE
             /\ \/ /\ refused
                   /\ PageFault
                   /\ UNCHANGED <<i, target, is_implicit_write>>
                \/ /\ ~refused /\ ~IsLeaf(e)
                   /\ i' = i - 1 /\ gpa' = e.ppn
                   /\ pc' = "second"
                   /\ UNCHANGED <<is_implicit, is_implicit_write, answer>>
                \/ /\ ~refused /\ IsLeaf(e) /\ MarkedFirst(e)
                   /\ FirstDone(e)
                   /\ UNCHANGED <<i, is_implicit_write, answer>>
                \/ /\ ~refused /\ IsLeaf(e) /\ ~MarkedFirst(e)
                   /\ is_implicit_write' = TRUE
                   /\ IF gpte.W THEN pc' = "vamo" /\ UNCHANGED answer
                      ELSE GuestPageFault(TRUE)
                   /\ UNCHANGED <<i, target>>

(* The mark of a first-stage leaf.  If the cell has changed, the table is   *)
(* translated again and the entry read again.                               *)
UpdateFirst ==
  /\ pc = "vamo"
  /\ UNCHANGED <<req, i, pte, vcell, is_implicit_write, second, stores>>
  /\ IF vcell \in ReadOnly
     THEN AccessFault /\ UNCHANGED <<mem, vstale, target>>
     ELSE /\ CompareAndMark(vcell, pte, req.write)
          /\ vstale' = FALSE
          /\ IF Holds(vcell, pte) THEN FirstDone(pte)
             ELSE pc' = "second" /\ UNCHANGED target
          /\ UNCHANGED answer

-----------------------------------------------------------------------------
(* The MSI page table *)

Bit(n, k) == (n \div 2^k) % 2

IsMsi(page) ==
  \A k \in PageBits \ MsiMask : Bit(page, k) = IF k \in MsiPattern THEN 1 ELSE 0

(* The bits of a page number that the mask selects, packed together. *)
Extract(page) ==
  LET kept == {k \in MsiMask \cap PageBits : Bit(page, k) = 1}
      place(k) == 2^Cardinality({b \in MsiMask \cap PageBits : b < k})
  IN MapThenSumSet(place, kept)

(* The cause of an MSI entry that is not usable, or 0. *)
MsiFault(e) ==
  IF e.poisoned THEN 270
  ELSE IF ~e.V THEN 262
  ELSE IF \/ e.C \/ e.M \in {0, 2} \/ e.reserved
          \/ e.M = 1 /\ ~MsiMrif THEN 263
  ELSE IF req.exec /\ ~req.ats THEN 1
  ELSE IF e.M = 1 /\ req.debug THEN 260
  ELSE 0

(* An MSI grants reading and writing; its entry needs no mark. *)
Granted(page, e, mrif) ==
  [fault |-> 0, iotval2 |-> <<0, FALSE, FALSE>>, page |-> page,
   R |-> pte.R /\ e.R, W |-> pte.W /\ e.W /\ pte.D /\ e.D,
   X |-> pte.X /\ e.X /\ pte.R /\ e.R /\ req.exec_req, mrif |-> mrif]

TranslateMsi ==
  /\ pc = "msi"
  /\ gcell' = NoCell /\ gstale' = FALSE
  /\ UNCHANGED <<mem, req, first, target, j, a, stores>>
  /\ IF ~req.msi \/ ~IsMsi(gpa)
     THEN pc' = "second" /\ UNCHANGED <<gpte, answer>>
     ELSE LET I == Extract(gpa)
              e == MsiTable[I]
              rights == [AllRights(gpa) EXCEPT !.X = FALSE]
          IN IF I \notin DOMAIN MsiTable
             THEN Fault(261) /\ UNCHANGED gpte
             ELSE IF MsiFault(e) # 0
             THEN Fault(MsiFault(e)) /\ UNCHANGED gpte
             ELSE /\ gpte' = rights
                  /\ pc' = "idle"
                  /\ answer' = Granted(e.ppn, rights, e.M = 1)

(* Step 20 of iommu_translate_iova. *)
Reply ==
  /\ pc = "reply"
  /\ pc' = "idle"
  /\ answer' = Granted(Translated(gpte, j, gpa), gpte, FALSE)
  /\ UNCHANGED <<mem, req, first, second, target, stores>>

-----------------------------------------------------------------------------
(* A hart stores an entry. *)
Store(s) ==
  /\ stores < MaxStores
  /\ mem[s[1]] # s[2]
  /\ mem' = [mem EXCEPT ![s[1]] = s[2]]
  /\ stores' = stores + 1
  /\ vstale' = (vstale \/ s[1] = vcell)
  /\ gstale' = (gstale \/ s[1] = gcell)
  /\ UNCHANGED <<pc, req, i, pte, vcell, is_implicit_write, j, a, gpte, gcell,
                 target, answer>>

Walk == \/ EnterSecond \/ ReadSecond \/ UpdateSecond
        \/ ReadFirst \/ UpdateFirst \/ TranslateMsi \/ Reply

Next ==
  \/ \E r \in Requests : Start(r)
  \/ Walk
  \/ \E s \in Stores : Store(s)

Spec == Init /\ [][Next]_vars /\ WF_vars(Walk)

-----------------------------------------------------------------------------
(* Types: the walk stays within its levels, reads cells that exist and      *)
(* answers with a known cause or a page.                                    *)
TypeOK ==
  /\ mem \in [Cells -> Ptes]
  /\ pc \in Pcs
  /\ req \in Requests
  /\ i \in 0 .. Levels1 - 1 /\ j \in 0 .. Levels2 - 1
  /\ pte \in Ptes /\ gpte \in Ptes
  /\ vcell \in Cells \cup {NoCell} /\ gcell \in Cells \cup {NoCell}
  /\ a \in Nat /\ gpa \in Nat
  /\ is_implicit \in BOOLEAN /\ is_implicit_write \in BOOLEAN
  /\ answer \in Answers
  /\ vstale \in BOOLEAN /\ gstale \in BOOLEAN
  /\ stores \in 0 .. MaxStores

(* The walk never undoes what a hart stored between its read and its mark:  *)
(* a step of the walk changes the memory of a leaf it may use only by       *)
(* setting A, and D if the leaf is writable and either a write is asked     *)
(* for or the leaf maps a table of the first stage; and only in a stage     *)
(* whose updates the device context enables (SADE, GADE).                   *)
WritesOnlyMark ==
  [][\A c \in Cells : mem'[c] # mem[c] /\ stores' = stores =>
       /\ mem[c].V /\ IsLeaf(mem[c])
       /\ mem'[c] \in {Mark(mem[c], FALSE), Mark(mem[c], TRUE)}
       /\ mem'[c].D /\ ~mem[c].D => req.write \/ is_implicit
       /\ \/ req.SADE /\ c = vcell
          \/ req.GADE /\ c = gcell]_vars

(* When a request is answered with a page, the leaves it was translated     *)
(* with are marked in memory: accessed, and dirty if it may write through   *)
(* them; unless harts stored to them after the walk had looked.             *)
AnswersAreMarked ==
  pc = "idle" /\ answer.fault = 0 =>
    /\ vcell # NoCell /\ ~vstale =>
         mem[vcell].A /\ ((pte.W /\ req.write) \/ answer.W => mem[vcell].D)
    /\ gcell # NoCell /\ ~gstale =>
         mem[gcell].A /\ ((gpte.W /\ req.write) \/ answer.W => mem[gcell].D)

(* Before the walk stores to a first-stage table, the second-stage leaf     *)
(* that maps the page of the table says so: it is writable, accessed and    *)
(* dirty, unless harts stored to it after the walk had looked.              *)
TablesAreMarked ==
  [][pc = "vamo" /\ mem' # mem /\ stores' = stores /\ gcell # NoCell /\ ~gstale
       => mem[gcell].W /\ mem[gcell].A /\ mem[gcell].D]_vars

(* The steps the walk still takes if no comparison fails: those of the pass *)
(* through the second stage it is in, and a pass for every level of the     *)
(* first stage that is left.                                                *)
StepsAhead ==
  [vamo |-> 0, reply |-> 1, vread |-> 1, gamo |-> 2, gread |-> j + 3,
   second |-> Levels2 + 3, msi |-> Levels2 + 4]

StepsLeft ==
  IF pc = "idle" THEN 0
  ELSE StepsAhead[pc] + (IF is_implicit THEN (Levels2 + 5) * (i + 1) ELSE 0)

(* Every step of the walk brings it nearer to its answer, whatever the      *)
(* tables hold and even if they map themselves; except that a comparison    *)
(* fails, once, after a hart has stored to the cell it is about.            *)
WalkDescends ==
  [][Walk => \/ StepsLeft' < StepsLeft
             \/ pc = "gamo" /\ gstale
             \/ pc = "vamo" /\ vstale]_vars

(* Every walk ends with an answer: a failed comparison is due to a store of *)
(* a hart, and every other step goes down a level.                          *)
WalkEnds == (pc # "idle") ~> (pc = "idle")
=============================================================================
