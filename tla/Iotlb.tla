-------------------------------- MODULE Iotlb --------------------------------
(***************************************************************************)
(* The translation cache of the IOMMU (iommu_atc.c), how translation uses  *)
(* it (step 17 on of iommu_translate_iova), and the commands with which    *)
(* software synchronizes it (do_iotinval_vma and do_iotinval_gvma).        *)
(*                                                                         *)
(* Software stores to the page tables at any time; the IOMMU sees a store  *)
(* when it walks, but may go on using a cached translation until a command *)
(* covers it.  The variable seen records what it may still use.            *)
(*                                                                         *)
(* A naturally aligned range of pages is a set of pages, and a leaf page   *)
(* table entry maps such a range: its field "to" is a function from the    *)
(* range to the pages it is mapped to.  All leaves are of a last level.    *)
(***************************************************************************)
EXTENDS Integers

CONSTANTS
  Pages,        \* page numbers, of virtual, guest and host addresses alike
  Iovas,        \* the pages devices ask for
  Ranges,       \* address ranges of commands; Pages stands for AV = 0
  Contexts,     \* what the device and process contexts of requests say
  Accesses,     \* accesses devices make, from {"r", "w", "x"}
  Privileges,   \* privilege of requests, from {"U", "S"}
  FirstTables,  \* first-stage tables software stores
  SecondTables, \* second-stage tables software stores
  BareRange,    \* the range an entry of a bare stage maps, for each page
  TlbSize,      \* entries of the cache (2 in the code)
  FillAts,      \* fill_ats_trans_in_ioatc, from {"T2GPA", "ALWAYS"}
  WholeLeaf,    \* a command covers the leaf of an address, not only the page
  MaxStores,    \* bound on the stores of software to the tables
  NoEntry       \* a slot of the cache that is not valid

Rights  == {"r", "w", "x"}

FirstPtes  == [perm : SUBSET Rights, user : BOOLEAN, global : BOOLEAN,
               dirty : BOOLEAN]
SecondPtes == [perm : SUBSET Rights, dirty : BOOLEAN]

(* The leaves of a table, by the pages they map; a page outside the domain  *)
(* has no valid leaf.  All pages of a superpage have the same leaf.         *)
IsTable(t, ptes) ==
  /\ DOMAIN t \subseteq Pages
  /\ t = [p \in DOMAIN t |-> [to |-> t[p].to, pte |-> t[p].pte]]
  /\ \A p \in DOMAIN t :
       /\ t[p].pte \in ptes
       /\ t[p].to \in [DOMAIN t[p].to -> Pages]
       /\ p \in DOMAIN t[p].to
       /\ \A q \in DOMAIN t[p].to : q \in DOMAIN t /\ t[q] = t[p]

IsContext(c) ==
  /\ c.gv \in BOOLEAN /\ c.pscv \in BOOLEAN /\ c.sum \in BOOLEAN
  /\ c.sade \in BOOLEAN /\ c.gade \in BOOLEAN
  /\ c.t2gpa \in BOOLEAN /\ (c.t2gpa => c.gv)
  /\ c.gscid \in Nat /\ c.pscid \in Nat

ASSUME ConstantsAssumption ==
  /\ Iovas \subseteq Pages
  /\ Ranges \subseteq SUBSET Pages
  /\ \A c \in Contexts : IsContext(c)
  /\ FirstTables # {} /\ SecondTables # {}
  /\ \A t \in FirstTables : IsTable(t, FirstPtes)
  /\ \A t \in SecondTables : IsTable(t, SecondPtes)
  /\ BareRange \in [Pages -> SUBSET Pages]
  /\ \A p \in Pages : p \in BareRange[p]
  /\ \A p \in Pages : \A q \in BareRange[p] : BareRange[q] = BareRange[p]
  /\ TlbSize \in Nat \ {0}
  /\ Accesses \subseteq Rights
  /\ FillAts \subseteq {"T2GPA", "ALWAYS"}
  /\ WholeLeaf \in BOOLEAN /\ MaxStores \in Nat

-----------------------------------------------------------------------------
(* Requests and their address spaces. *)

(* An ATS request reads and may ask to write and to execute as well.        *)
Needs(at) == CASE at = "untranslated" -> {{"r"}, {"w"}, {"x"}}
               [] at = "translated"   -> {{"r"}, {"r", "x"}, {"w"}}
               [] at = "ats"          -> {{"r"} \cup n : n \in SUBSET {"w", "x"}}

Types == {"untranslated", "translated", "ats"}

(* A translated request gets here only if its address is a guest page.      *)
Requests ==
  {r \in [at : Types, ctx : Contexts, page : Iovas, needs : SUBSET Accesses,
          priv : Privileges] :
     /\ r.needs \in Needs(r.at)
     /\ r.at = "translated" => r.ctx.t2gpa}

(* The tag of an address space: a stage that is Bare has no identifier.     *)
Tag(gv, gscid, pscv, pscid) ==
  [gv |-> gv, gscid |-> IF gv THEN gscid ELSE 0,
   pscv |-> pscv, pscid |-> IF pscv THEN pscid ELSE 0]

(* The first stage of a translated request is Bare. *)
TagOf(at, c) ==
  Tag(c.gv, c.gscid, IF at = "translated" THEN FALSE ELSE c.pscv, c.pscid)

Tags == {TagOf("untranslated", c) : c \in Contexts}
        \cup {TagOf("translated", c) : c \in {d \in Contexts : d.t2gpa}}

Spaces == {t \in Tags : t.pscv}
Gscids == {t.gscid : t \in {u \in Tags : u.gv}}

VARIABLES
  first,   \* the first-stage table of every address space
  second,  \* the second-stage table of every virtual machine
  tlb,     \* the entries of the cache
  stores,  \* stores software made so far
  seen     \* history: translations the tables held since a command covered them

vars == <<first, second, tlb, stores, seen>>

BareTable(pte) ==
  [p \in Pages |-> [to |-> [q \in BareRange[p] |-> q], pte |-> pte]]

BareFirst  == [perm |-> Rights, user |-> TRUE, global |-> TRUE, dirty |-> TRUE]
BareSecond == [perm |-> Rights, dirty |-> TRUE]

Stage1(tag) == IF tag.pscv THEN first[tag] ELSE BareTable(BareFirst)
Stage2(tag) == IF tag.gv THEN second[tag.gscid] ELSE BareTable(BareSecond)

-----------------------------------------------------------------------------
(* What the tables say now. *)

Guest(tag, p) == Stage1(tag)[p].to[p]

Mapped(tag, p) == /\ p \in DOMAIN Stage1(tag)
                  /\ Guest(tag, p) \in DOMAIN Stage2(tag)

(* The translation of a page in an address space, with the leaf it is from. *)
Translation(tag, p) ==
  [tag |-> tag, page |-> p, guest |-> Guest(tag, p),
   to |-> Stage2(tag)[Guest(tag, p)].to[Guest(tag, p)],
   vs |-> Stage1(tag)[p].pte, g |-> Stage2(tag)[Guest(tag, p)].pte,
   leaf |-> DOMAIN Stage1(tag)[p].to]

Current == {Translation(x[1], x[2]) :
              x \in {y \in Tags \X Pages : Mapped(y[1], y[2])}}

Init == /\ first \in [Spaces -> FirstTables]
        /\ second \in [Gscids -> SecondTables]
        /\ tlb = [i \in 1 .. TlbSize |-> NoEntry]
        /\ stores = 0
        /\ seen = Current

-----------------------------------------------------------------------------
(* Lookup: lookup_ioatc_iotlb. *)

(* match_address_range: two aligned ranges match if one contains the other. *)
match_address_range(a, b) == a \cap b # {}

(* A lookup that forgets the process. *)
HitsAnyProcess(slots, r) ==
  {i \in 1 .. TlbSize : /\ slots[i] # NoEntry
                        /\ slots[i].tag.gv = r.ctx.gv
                        /\ slots[i].tag.gscid = TagOf(r.at, r.ctx).gscid
                        /\ match_address_range({r.page}, DOMAIN slots[i].to)}

Hits(slots, r) ==
  {i \in 1 .. TlbSize : /\ slots[i] # NoEntry
                        /\ slots[i].tag = TagOf(r.at, r.ctx)
                        /\ match_address_range({r.page}, DOMAIN slots[i].to)}

Hit(slots, r) == CHOOSE i \in Hits(slots, r) : \A j \in Hits(slots, r) : i <= j

(* The privilege of the request is refused by the U bit of the leaf. *)
PrivilegeRefused(vs, r) ==
  \/ r.priv = "U" /\ ~vs.user
  \/ r.priv = "S" /\ vs.user /\ ("x" \in r.needs \/ ~r.ctx.sum)

(* A refusal for the permissions of both stages. *)
RefusedByEither(e, r) ==
  \/ r.at # "ats" /\ ~(r.needs \subseteq e.vs.perm \cap e.g.perm)
  \/ TagOf(r.at, r.ctx).pscv /\ PrivilegeRefused(e.vs, r)

(* The first stage of a cached translation refuses the request. *)
Refused(e, r) ==
  \/ r.at # "ats" /\ ~(r.needs \subseteq e.vs.perm)
  \/ TagOf(r.at, r.ctx).pscv /\ PrivilegeRefused(e.vs, r)

(* The tables must be walked again: to report a fault of the second stage,  *)
(* or to set a dirty bit.                                                   *)
MustWalk(e, r) ==
  \/ ~(r.needs \subseteq e.g.perm)
  \/ "w" \in r.needs /\ ~(e.vs.dirty /\ e.g.dirty)

Lookup(slots, r) ==
  IF Hits(slots, r) = {} THEN "miss"
  ELSE LET e == slots[Hit(slots, r)]
       IN  IF Refused(e, r) THEN "fault"
           ELSE IF MustWalk(e, r) THEN "drop"
           ELSE "hit"

(* The page a hit answers with. *)
Answer(slots, r) == slots[Hit(slots, r)].to[r.page]

-----------------------------------------------------------------------------
(* Walk and fill: two_stage_address_translation,                            *)
(* second_stage_address_translation and cache_ioatc_iotlb.                  *)

(* A write needs the dirty bit of a leaf that permits it. *)
MustDirty(pte, r) == "w" \in r.needs /\ "w" \in pte.perm /\ ~pte.dirty

Permits(pte, r) == r.at = "ats" \/ r.needs \subseteq pte.perm

Passes1(r) ==
  LET tag == TagOf(r.at, r.ctx)
      pte == Stage1(tag)[r.page].pte
  IN  /\ r.page \in DOMAIN Stage1(tag)
      /\ Permits(pte, r)
      /\ tag.pscv => ~PrivilegeRefused(pte, r)
      /\ MustDirty(pte, r) => r.ctx.sade

Passes2(r) ==
  LET tag == TagOf(r.at, r.ctx)
      pte == Stage2(tag)[Guest(tag, r.page)].pte
  IN  /\ Guest(tag, r.page) \in DOMAIN Stage2(tag)
      /\ Permits(pte, r)
      /\ MustDirty(pte, r) => r.ctx.gade

DirtyLeaf(l) == [to |-> l.to, pte |-> [l.pte EXCEPT !.dirty = TRUE]]

(* A dirty bit that is set for one page of a leaf. *)
DirtiedOnePage(t, p) ==
  [q \in DOMAIN t |-> IF q = p THEN DirtyLeaf(t[q]) ELSE t[q]]

(* The leaf of page p with its dirty bit set, for all pages it maps. *)
Dirtied(t, p) ==
  [q \in DOMAIN t |-> IF q \in DOMAIN t[p].to THEN DirtyLeaf(t[q]) ELSE t[q]]

(* The entry maps the smaller of the ranges of the two leaves.  The tag     *)
(* keeps the GSCID of the context even if the second stage is Bare, and the *)
(* leaves are as they were before a dirty bit was set.  For a device whose  *)
(* ATS answers are guest pages the entry is one of the guest pages.         *)
EntryOf(r) ==
  LET tag == TagOf(r.at, r.ctx)
      l1  == Stage1(tag)[r.page]
      l2  == Stage2(tag)[l1.to[r.page]]
      range == {q \in DOMAIN l1.to : l1.to[q] \in DOMAIN l2.to}
      guests == {l1.to[q] : q \in range}
      ofGuest == r.at = "ats" /\ r.ctx.t2gpa
  IN  [tag |-> [gv    |-> tag.gv,
                gscid |-> r.ctx.gscid,
                pscv  |-> IF ofGuest THEN FALSE ELSE tag.pscv,
                pscid |-> IF ofGuest THEN 0 ELSE tag.pscid],
       to  |-> IF ofGuest THEN [g \in guests |-> l2.to[g]]
               ELSE [q \in range |-> l2.to[l1.to[q]]],
       vs  |-> l1.pte,
       g   |-> l2.pte]

Fills(r) == \/ r.at = "untranslated"
            \/ r.at = "ats" /\ r.ctx.t2gpa /\ "T2GPA" \in FillAts
            \/ r.at = "ats" /\ "ALWAYS" \in FillAts

(* The first invalid slot, and if there is none one that depends on the age *)
(* of the entries.                                                          *)
Victims(slots) ==
  LET free == {i \in 1 .. TlbSize : slots[i] = NoEntry}
  IN  IF free = {} THEN 1 .. TlbSize
      ELSE {i \in free : \A j \in free : i <= j}

(* The response of a walk, with the dirty bits and the entry it leaves. *)
Walk(r, slots) ==
  LET tag == TagOf(r.at, r.ctx)
      g   == Guest(tag, r.page)
  IN  /\ first' = IF Passes1(r) /\ MustDirty(Stage1(tag)[r.page].pte, r)
                  THEN [first EXCEPT ![tag] = Dirtied(first[tag], r.page)]
                  ELSE first
      /\ second' = IF Passes1(r) /\ Passes2(r) /\ MustDirty(Stage2(tag)[g].pte, r)
                   THEN [second EXCEPT ![tag.gscid] = Dirtied(second[tag.gscid], g)]
                   ELSE second
      /\ IF Passes1(r) /\ Passes2(r) /\ Fills(r)
         THEN \E i \in Victims(slots) : tlb' = [slots EXCEPT ![i] = EntryOf(r)]
         ELSE tlb' = slots
      /\ seen' = seen \cup Current'
      /\ UNCHANGED stores

(* iommu_translate_iova from step 17 on; a hit or a fault of a cached entry *)
(* changes nothing but the age of the entry.                                *)
iommu_translate_iova(r) ==
  \/ Lookup(tlb, r) \in {"hit", "fault"} /\ UNCHANGED vars
  \/ Lookup(tlb, r) = "miss" /\ Walk(r, tlb)
  \/ Lookup(tlb, r) = "drop" /\ Walk(r, [tlb EXCEPT ![Hit(tlb, r)] = NoEntry])

-----------------------------------------------------------------------------
(* The commands.  Their operands GV, GSCID, PSCV and PSCID are those of a    *)
(* tag; a command that names no process has PSCV off.                       *)

Operands == Tags \cup {Tag(t.gv, t.gscid, FALSE, 0) : t \in Tags}

(* A command that spares global entries even if it names no process. *)
VmaSparesGlobals(e, id, range) ==
  /\ e.tag.gv = id.gv /\ (id.gv => e.tag.gscid = id.gscid)
  /\ id.pscv => e.tag.pscv /\ e.tag.pscid = id.pscid
  /\ ~e.vs.global
  /\ match_address_range(range, DOMAIN e.to)

VmaMatches(e, id, range) ==
  /\ e.tag.gv = id.gv /\ (id.gv => e.tag.gscid = id.gscid)
  /\ id.pscv => e.tag.pscv /\ e.tag.pscid = id.pscid /\ ~e.vs.global
  /\ match_address_range(range, DOMAIN e.to)

GvmaGscidMatches(e, id) == e.tag.gv /\ (id.gv => e.tag.gscid = id.gscid)

GvmaAddressMatches(e, id, range) ==
  e.tag.pscv \/ ~id.gv \/ match_address_range(range, DOMAIN e.to)

(* The slots an IOTINVAL.GVMA empties.  The loop never resets its two match *)
(* flags: they stay on from one entry to the next, and before the first     *)
(* match they hold what was on the stack, the values gm and am.             *)
GvmaEmpties(id, range, gm, am) ==
  LET valid(i) == {j \in 1 .. i : tlb[j] # NoEntry}
  IN  {i \in 1 .. TlbSize :
        /\ tlb[i] # NoEntry
        /\ gm \/ \E j \in valid(i) : GvmaGscidMatches(tlb[j], id)
        /\ am \/ \E j \in valid(i) : GvmaAddressMatches(tlb[j], id, range)}

Without(empties) ==
  [i \in 1 .. TlbSize |-> IF i \in empties THEN NoEntry ELSE tlb[i]]

(* What the commands promise to synchronize.  Software addresses one page   *)
(* of a leaf (WholeLeaf), or every page it changed.                         *)
Addressed(t, range) == IF WholeLeaf THEN t.leaf \cap range # {}
                       ELSE t.page \in range

CoveredByVma(t, id, range) ==
  /\ t.tag.gv = id.gv /\ (id.gv => t.tag.gscid = id.gscid)
  /\ id.pscv => t.tag.pscv /\ t.tag.pscid = id.pscid /\ ~t.vs.global
  /\ Addressed(t, range)

CoveredByGvma(t, id, range) ==
  t.tag.gv /\ (id.gv => t.tag.gscid = id.gscid /\ t.guest \in range)

do_iotinval_vma(id, range) ==
  /\ tlb' = Without({i \in 1 .. TlbSize : /\ tlb[i] # NoEntry
                                          /\ VmaMatches(tlb[i], id, range)})
  /\ seen' = Current \cup {t \in seen : ~CoveredByVma(t, id, range)}
  /\ UNCHANGED <<first, second, stores>>

do_iotinval_gvma(id, range) ==
  /\ ~id.pscv
  /\ \E gm, am \in BOOLEAN : tlb' = Without(GvmaEmpties(id, range, gm, am))
  /\ seen' = Current \cup {t \in seen : ~CoveredByGvma(t, id, range)}
  /\ UNCHANGED <<first, second, stores>>

-----------------------------------------------------------------------------
(* Software stores another table. *)

StoreFirst(s, t) ==
  /\ stores < MaxStores
  /\ stores' = stores + 1
  /\ first' = [first EXCEPT ![s] = t]
  /\ UNCHANGED <<second, tlb>>
  /\ seen' = seen \cup Current'

StoreSecond(v, t) ==
  /\ stores < MaxStores
  /\ stores' = stores + 1
  /\ second' = [second EXCEPT ![v] = t]
  /\ UNCHANGED <<first, tlb>>
  /\ seen' = seen \cup Current'

Next ==
  \/ \E s \in Spaces, t \in FirstTables : StoreFirst(s, t)
  \/ \E v \in Gscids, t \in SecondTables : StoreSecond(v, t)
  \/ \E r \in Requests : iommu_translate_iova(r)
  \/ \E id \in Operands, range \in Ranges : do_iotinval_vma(id, range)
  \/ \E id \in Operands, range \in Ranges : do_iotinval_gvma(id, range)

Spec == Init /\ [][Next]_vars

-----------------------------------------------------------------------------
(* Properties. *)

IsTag(tag) == /\ tag.gv \in BOOLEAN /\ tag.pscv \in BOOLEAN
              /\ tag.gscid \in Nat /\ tag.pscid \in Nat

(* The tables stay well formed, all pages of a superpage with the same      *)
(* leaf, when the IOMMU sets dirty bits; an entry maps a range of pages.    *)
TypeOK ==
  /\ DOMAIN first = Spaces /\ \A s \in Spaces : IsTable(first[s], FirstPtes)
  /\ DOMAIN second = Gscids /\ \A v \in Gscids : IsTable(second[v], SecondPtes)
  /\ DOMAIN tlb = 1 .. TlbSize
  /\ \A i \in 1 .. TlbSize :
       \/ tlb[i] = NoEntry
       \/ /\ IsTag(tlb[i].tag)
          /\ tlb[i].to \in [DOMAIN tlb[i].to -> Pages]
          /\ tlb[i].vs \in FirstPtes /\ tlb[i].g \in SecondPtes
  /\ stores \in 0 .. MaxStores

(* The address space an entry belongs to: the GSCID of a host entry is      *)
(* that of a context that does not use it.                                  *)
SpaceOf(tag) == Tag(tag.gv, tag.gscid, tag.pscv, tag.pscid)

(* An entry holds for a page a translation of a history.  An entry for a    *)
(* guest page may carry permissions of the first stage it was found through. *)
HoldsIn(history, e, p) ==
  \E t \in history : /\ t.tag = SpaceOf(e.tag) /\ t.page = p /\ t.to = e.to[p]
                     /\ t.g = e.g
                     /\ e.tag.pscv => t.vs = e.vs

(* Every entry of the cache is, for each page it maps, a translation the    *)
(* tables of its address space held since the last IOTINVAL that covers it: *)
(* no command leaves a translation it covers in the cache, whatever the     *)
(* sizes of the leaves, their G bits and the order of stores, walks and     *)
(* evictions.                                                               *)
Coherent ==
  \A i \in 1 .. TlbSize : tlb[i] # NoEntry =>
    \A p \in DOMAIN tlb[i].to : HoldsIn(seen, tlb[i], p)

(* What a request gets from the cache it could have got from the tables of  *)
(* its own address space since the last command: the page, and for a write  *)
(* a permission and dirty bits in both stages.                              *)
AnswersAreInForce ==
  \A r \in Requests : Lookup(tlb, r) = "hit" =>
    \E t \in seen :
      /\ t.tag = TagOf(r.at, r.ctx) /\ t.page = r.page
      /\ t.to = Answer(tlb, r)
      /\ Permits(t.vs, r) /\ r.needs \subseteq t.g.perm
      /\ "w" \in r.needs => t.vs.dirty /\ t.g.dirty

(* A request the cache refuses was refused by its own first stage since the *)
(* last command: a permission of the second stage, which the walk must      *)
(* report, is never taken for one of the first.                             *)
RefusalsAreInForce ==
  \A r \in Requests : Lookup(tlb, r) = "fault" /\ r.ctx.pscv /\ r.at # "translated" =>
    \E t \in seen : /\ t.tag = TagOf(r.at, r.ctx) /\ t.page = r.page
                    /\ ~Permits(t.vs, r) \/ PrivilegeRefused(t.vs, r)

(* The answer to the ATS request of a device with T2GPA is a guest page     *)
(* (iommu_translate.c: "Return the GPA as translation response if T2GPA is  *)
(* 1"), whether the tables are walked or the cache answers.                 *)
T2gpaAnswersAreGuestPages ==
  \A r \in Requests : r.at = "ats" /\ r.ctx.t2gpa /\ Lookup(tlb, r) = "hit" =>
    \E t \in seen : /\ t.tag = TagOf(r.at, r.ctx) /\ t.page = r.page
                    /\ t.guest = Answer(tlb, r)
=============================================================================
