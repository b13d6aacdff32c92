----------------------------- MODULE IotlbProofs -----------------------------
(***************************************************************************)
(* Theorems about Iotlb for every set of pages, address spaces and tables. *)
(*                                                                         *)
(* Coherent is not inductive.  A walk fills an entry from the tables, so   *)
(* the translations the tables hold must be among those seen; and an       *)
(* IOTINVAL.GVMA selects entries of a guest page by the page in their tag, *)
(* so the translations of such a tag must map each page to itself.         *)
(***************************************************************************)
EXTENDS Iotlb, WellFoundedInduction, TLAPS

(* A first stage that is Bare maps a page to itself and permits everything. *)
BareIsIdentity ==
  \A t \in seen : ~t.tag.pscv => t.guest = t.page /\ t.vs = BareFirst

CurrentIsSeen == Current \subseteq seen

(* The entries of a cache hold what a history says. *)
Holds(slots, history) ==
  \A i \in 1 .. TlbSize : slots[i] # NoEntry =>
    \A p \in DOMAIN slots[i].to : HoldsIn(history, slots[i], p)

IInv == TypeOK /\ CurrentIsSeen /\ BareIsIdentity /\ Holds(tlb, seen)

-----------------------------------------------------------------------------
(* Tags and tables. *)

(* A tag in use is typed, and names a space and a virtual machine of the    *)
(* model if its stages are on.                                              *)
LEMMA TagFacts ==
  ASSUME NEW tag \in Tags
  PROVE  /\ IsTag(tag)
         /\ tag = [gv |-> tag.gv, gscid |-> tag.gscid,
                   pscv |-> tag.pscv, pscid |-> tag.pscid]
         /\ SpaceOf(tag) = tag
         /\ tag.pscv => tag \in Spaces
         /\ tag.gv => tag.gscid \in Gscids
<1>1. PICK at \in Types, c \in Contexts : tag = TagOf(at, c)
  BY DEF Tags, Types
<1>2. /\ c.gv \in BOOLEAN /\ c.pscv \in BOOLEAN
      /\ c.gscid \in Nat /\ c.pscid \in Nat
  BY ConstantsAssumption DEF IsContext
<1>3. tag = Tag(c.gv, c.gscid, IF at = "translated" THEN FALSE ELSE c.pscv, c.pscid)
  BY <1>1 DEF TagOf
<1>4. IsTag(tag) /\ SpaceOf(tag) = tag
  BY <1>2, <1>3 DEF Tag, IsTag, SpaceOf
<1>5. tag = [gv |-> tag.gv, gscid |-> tag.gscid,
             pscv |-> tag.pscv, pscid |-> tag.pscid]
  BY <1>3 DEF Tag
<1>6. tag.pscv => tag \in Spaces
  BY DEF Spaces
<1>7. tag.gv => tag.gscid \in Gscids
  BY DEF Gscids
<1> QED
  BY <1>4, <1>5, <1>6, <1>7

(* The tag of a request is one in use. *)
LEMMA RequestTag ==
  ASSUME NEW r \in Requests
  PROVE  /\ r.at \in Types /\ r.ctx \in Contexts /\ r.page \in Pages
         /\ r.at = "translated" => r.ctx.t2gpa
         /\ TagOf(r.at, r.ctx) \in Tags
<1>1. /\ r.at \in Types /\ r.ctx \in Contexts /\ r.page \in Pages
      /\ r.at = "translated" => r.ctx.t2gpa
  BY ConstantsAssumption DEF Requests
<1>2. CASE r.at = "translated"
  BY <1>1, <1>2 DEF Tags
<1>3. CASE r.at # "translated"
  <2>1. TagOf(r.at, r.ctx) = TagOf("untranslated", r.ctx)
    BY <1>3 DEF TagOf
  <2> QED
    BY <1>1, <2>1 DEF Tags
<1> QED
  BY <1>2, <1>3

(* The table of a bare stage is well formed. *)
LEMMA BareIsTable ==
  ASSUME NEW ptes, NEW pte \in ptes
  PROVE  IsTable(BareTable(pte), ptes)
<1> DEFINE t == BareTable(pte)
<1>1. DOMAIN t = Pages
  BY DEF BareTable
<1>2. \A p \in Pages : /\ t[p] = [to |-> [q \in BareRange[p] |-> q], pte |-> pte]
                       /\ t[p].to = [q \in BareRange[p] |-> q]
                       /\ t[p].pte = pte
                       /\ DOMAIN t[p].to = BareRange[p]
  BY DEF BareTable
<1>3. t = [p \in DOMAIN t |-> [to |-> t[p].to, pte |-> t[p].pte]]
  BY <1>1, <1>2 DEF BareTable
<1>4. ASSUME NEW p \in Pages
      PROVE  /\ t[p].to \in [DOMAIN t[p].to -> Pages]
             /\ p \in DOMAIN t[p].to
             /\ \A q \in DOMAIN t[p].to : q \in DOMAIN t /\ t[q] = t[p]
  <2>1. BareRange[p] \subseteq Pages /\ p \in BareRange[p]
    BY <1>4, ConstantsAssumption
  <2>2. \A q \in BareRange[p] : BareRange[q] = BareRange[p]
    BY <1>4, ConstantsAssumption
  <2> HIDE DEF t
  <2>3. t[p].to \in [DOMAIN t[p].to -> Pages] /\ p \in DOMAIN t[p].to
    BY <1>2, <2>1
  <2>4. \A q \in DOMAIN t[p].to : q \in DOMAIN t /\ t[q] = t[p]
    BY <1>1, <1>2, <2>1, <2>2
  <2> QED
    BY <2>3, <2>4
<1> HIDE DEF t
<1>5. IsTable(t, ptes)
  BY <1>1, <1>2, <1>3, <1>4 DEF IsTable
<1> QED
  BY <1>5 DEF t

(* Both stages of an address space are well-formed tables. *)
LEMMA StagesAreTables ==
  ASSUME TypeOK, NEW tag \in Tags
  PROVE  /\ IsTable(Stage1(tag), FirstPtes)
         /\ IsTable(Stage2(tag), SecondPtes)
<1>1. BareFirst \in FirstPtes /\ BareSecond \in SecondPtes
  BY DEF BareFirst, BareSecond, FirstPtes, SecondPtes, Rights
<1>2. /\ IsTable(BareTable(BareFirst), FirstPtes)
      /\ IsTable(BareTable(BareSecond), SecondPtes)
  BY <1>1, BareIsTable
<1>3. tag.pscv => IsTable(first[tag], FirstPtes)
  BY TagFacts DEF TypeOK
<1>4. tag.gv => IsTable(second[tag.gscid], SecondPtes)
  BY TagFacts DEF TypeOK
<1> QED
  BY <1>2, <1>3, <1>4 DEF Stage1, Stage2

(* Setting the dirty bit of a leaf, for all pages the leaf maps, leaves a   *)
(* table well formed.                                                       *)
LEMMA DirtiedIsTable ==
  ASSUME NEW t, NEW ptes \in {FirstPtes, SecondPtes}, IsTable(t, ptes),
         NEW p \in DOMAIN t
  PROVE  IsTable(Dirtied(t, p), ptes)
<1> DEFINE u == Dirtied(t, p)
           In(q) == q \in DOMAIN t[p].to
<1>1. DOMAIN u = DOMAIN t
  BY DEF Dirtied
<1>2. \A q \in DOMAIN t : /\ t[q] = [to |-> t[q].to, pte |-> t[q].pte]
                          /\ t[q].pte \in ptes
                          /\ q \in DOMAIN t[q].to
                          /\ t[q].to \in [DOMAIN t[q].to -> Pages]
                          /\ \A o \in DOMAIN t[q].to : o \in DOMAIN t /\ t[o] = t[q]
  BY Zenon DEF IsTable
<1>3. \A q \in DOMAIN t : In(q) => t[q] = t[p]
  BY <1>2
<1>4. \A x \in ptes : [x EXCEPT !.dirty = TRUE] \in ptes
  <2>1. \A x \in FirstPtes : [x EXCEPT !.dirty = TRUE] \in FirstPtes
    BY Zenon DEF FirstPtes
  <2>2. \A x \in SecondPtes : [x EXCEPT !.dirty = TRUE] \in SecondPtes
    BY Zenon DEF SecondPtes
  <2>3. ptes = FirstPtes \/ ptes = SecondPtes
    OBVIOUS
  <2> QED
    BY Zenon, <2>1, <2>2, <2>3
<1>5. \A q \in DOMAIN t : u[q] = IF In(q) THEN DirtyLeaf(t[q]) ELSE t[q]
  BY DEF Dirtied
<1>6. u = [q \in DOMAIN u |-> u[q]]
  BY DEF Dirtied
<1> HIDE DEF u
<1>7. \A q \in DOMAIN u : /\ u[q] = [to |-> u[q].to, pte |-> u[q].pte]
                          /\ u[q].to = t[q].to
                          /\ u[q].pte \in ptes
  <2> TAKE q \in DOMAIN u
  <2>1. CASE In(q)
    <3>1. u[q] = [to |-> t[q].to, pte |-> [t[q].pte EXCEPT !.dirty = TRUE]]
      BY <1>1, <1>5, <2>1 DEF DirtyLeaf
    <3>2. [t[q].pte EXCEPT !.dirty = TRUE] \in ptes
      BY <1>1, <1>2, <1>4
    <3> QED
      BY <3>1, <3>2
  <2>2. CASE ~In(q)
    BY <1>1, <1>2, <1>5, <2>2
  <2> QED
    BY <2>1, <2>2
<1>8. u = [q \in DOMAIN u |-> [to |-> u[q].to, pte |-> u[q].pte]]
  BY <1>6, <1>7
<1>9. ASSUME NEW q \in DOMAIN u, NEW o \in DOMAIN u[q].to
      PROVE  o \in DOMAIN u /\ u[o] = u[q]
  <2>1. o \in DOMAIN t /\ t[o] = t[q] /\ q \in DOMAIN t
    BY <1>1, <1>2, <1>7, <1>9
  <2>2. In(o) <=> In(q)
    BY <1>2, <1>3, <2>1
  <2> QED
    BY <1>1, <1>5, <2>1, <2>2
<1>10. DOMAIN u \subseteq Pages
  BY <1>1 DEF IsTable
<1>11. \A q \in DOMAIN u : /\ u[q].to \in [DOMAIN u[q].to -> Pages]
                           /\ q \in DOMAIN u[q].to
  BY <1>1, <1>2, <1>7
<1>12. IsTable(u, ptes)
  BY <1>7, <1>8, <1>9, <1>10, <1>11 DEF IsTable
<1> QED
  BY <1>12 DEF u

-----------------------------------------------------------------------------
(* What a walk finds. *)

(* The tables hold the translation of a page that is mapped. *)
LEMMA MappedIsCurrent ==
  ASSUME NEW tag \in Tags, NEW p \in Pages, Mapped(tag, p)
  PROVE  Translation(tag, p) \in Current
<1> DEFINE x == <<tag, p>>
<1>1. x \in Tags \X Pages /\ x[1] = tag /\ x[2] = p
  OBVIOUS
<1> HIDE DEF x
<1>2. x \in {y \in Tags \X Pages : Mapped(y[1], y[2])}
  BY <1>1
<1>3. Translation(x[1], x[2]) \in Current
  BY <1>2 DEF Current
<1> QED
  BY <1>1, <1>3

(* The leaves a walk uses say of every page they both map what they say of  *)
(* the page of the request.                                                 *)
LEMMA LeavesAgree ==
  ASSUME TypeOK, NEW tag \in Tags, NEW page \in DOMAIN Stage1(tag),
         NEW l1, l1 = Stage1(tag)[page],
         l1.to[page] \in DOMAIN Stage2(tag),
         NEW l2, l2 = Stage2(tag)[l1.to[page]],
         NEW q \in DOMAIN l1.to, l1.to[q] \in DOMAIN l2.to
  PROVE  /\ q \in Pages /\ l1.to[q] \in Pages /\ l2.to[l1.to[q]] \in Pages
         /\ l1.pte \in FirstPtes /\ l2.pte \in SecondPtes
         /\ Stage2(tag)[l1.to[q]] = l2 /\ l1.to[q] \in DOMAIN Stage2(tag)
         /\ Translation(tag, q) \in Current
         /\ Translation(tag, q).tag = tag
         /\ Translation(tag, q).page = q
         /\ Translation(tag, q).to = l2.to[l1.to[q]]
         /\ Translation(tag, q).vs = l1.pte
         /\ Translation(tag, q).g = l2.pte
<1>1. IsTable(Stage1(tag), FirstPtes) /\ IsTable(Stage2(tag), SecondPtes)
  BY StagesAreTables
<1>2. /\ l1.pte \in FirstPtes /\ l1.to \in [DOMAIN l1.to -> Pages]
      /\ q \in DOMAIN Stage1(tag) /\ Stage1(tag)[q] = l1 /\ q \in Pages
  BY <1>1 DEF IsTable
<1>3. /\ l2.pte \in SecondPtes /\ l2.to \in [DOMAIN l2.to -> Pages]
      /\ l1.to[q] \in DOMAIN Stage2(tag) /\ Stage2(tag)[l1.to[q]] = l2
  BY <1>1 DEF IsTable
<1>4. Guest(tag, q) = l1.to[q]
  BY <1>2 DEF Guest
<1>5. Mapped(tag, q)
  BY <1>2, <1>3, <1>4 DEF Mapped
<1>6. Translation(tag, q) \in Current
  BY <1>2, <1>5, MappedIsCurrent
<1>7. l1.to[q] \in Pages /\ l2.to[l1.to[q]] \in Pages
  BY <1>2, <1>3
<1>8. /\ Translation(tag, q).tag = tag
      /\ Translation(tag, q).page = q
      /\ Translation(tag, q).to = l2.to[l1.to[q]]
      /\ Translation(tag, q).vs = l1.pte
      /\ Translation(tag, q).g = l2.pte
  BY <1>2, <1>3, <1>4 DEF Translation
<1> QED
  BY <1>2, <1>3, <1>6, <1>7, <1>8

(* The entry a walk leaves is typed, and holds for every page it maps what  *)
(* the tables hold.                                                         *)
IsEntry(e) ==
  /\ IsTag(e.tag)
  /\ e.to \in [DOMAIN e.to -> Pages]
  /\ e.vs \in FirstPtes /\ e.g \in SecondPtes

LEMMA EntryHolds ==
  ASSUME TypeOK, NEW r \in Requests, Passes1(r), Passes2(r)
  PROVE  /\ IsEntry(EntryOf(r))
         /\ \A p \in DOMAIN EntryOf(r).to : HoldsIn(Current, EntryOf(r), p)
<1> DEFINE tag == TagOf(r.at, r.ctx)
           l1  == Stage1(tag)[r.page]
           l2  == Stage2(tag)[l1.to[r.page]]
           range == {q \in DOMAIN l1.to : l1.to[q] \in DOMAIN l2.to}
           guests == {l1.to[q] : q \in range}
           ofGuest == r.at = "ats" /\ r.ctx.t2gpa
           e == EntryOf(r)
<1>1. /\ tag \in Tags /\ r.ctx \in Contexts /\ r.page \in Pages /\ r.at \in Types
      /\ IsTag(tag)
      /\ r.ctx.gv \in BOOLEAN /\ r.ctx.gscid \in Nat /\ r.ctx.pscid \in Nat
      /\ r.ctx.pscv \in BOOLEAN /\ (r.ctx.t2gpa => r.ctx.gv)
  BY RequestTag, TagFacts, ConstantsAssumption DEF IsContext
<1>2. /\ r.page \in DOMAIN Stage1(tag)
      /\ l1.to[r.page] \in DOMAIN Stage2(tag)
  BY DEF Passes1, Passes2, Guest
<1>3. /\ tag.gv = r.ctx.gv
      /\ tag.gv => tag.gscid = r.ctx.gscid
      /\ tag = Tag(tag.gv, r.ctx.gscid, tag.pscv, tag.pscid)
  BY <1>1 DEF TagOf, Tag
<1>4. /\ e.tag = [gv    |-> tag.gv, gscid |-> r.ctx.gscid,
                  pscv  |-> IF ofGuest THEN FALSE ELSE tag.pscv,
                  pscid |-> IF ofGuest THEN 0 ELSE tag.pscid]
      /\ e.to = IF ofGuest THEN [g \in guests |-> l2.to[g]]
                ELSE [q \in range |-> l2.to[l1.to[q]]]
      /\ e.vs = l1.pte /\ e.g = l2.pte
  BY DEF EntryOf
<1> HIDE DEF tag, e, l1, l2
<1>5. IsTag(e.tag)
  <2>1. CASE ofGuest
    <3>1. e.tag = [gv |-> tag.gv, gscid |-> r.ctx.gscid, pscv |-> FALSE, pscid |-> 0]
      BY <1>4, <2>1
    <3> QED
      BY <1>1, <3>1 DEF IsTag
  <2>2. CASE ~ofGuest
    <3>1. e.tag = [gv |-> tag.gv, gscid |-> r.ctx.gscid,
                   pscv |-> tag.pscv, pscid |-> tag.pscid]
      BY <1>4, <2>2
    <3> QED
      BY <1>1, <3>1 DEF IsTag
  <2> QED
    BY <2>1, <2>2
<1>6. ASSUME NEW q \in range
      PROVE  /\ q \in Pages /\ l1.to[q] \in Pages /\ l2.to[l1.to[q]] \in Pages
             /\ Stage2(tag)[l1.to[q]] = l2 /\ l1.to[q] \in DOMAIN Stage2(tag)
             /\ Translation(tag, q) \in Current
             /\ Translation(tag, q).tag = tag
             /\ Translation(tag, q).page = q
             /\ Translation(tag, q).to = l2.to[l1.to[q]]
             /\ Translation(tag, q).vs = l1.pte
             /\ Translation(tag, q).g = l2.pte
  BY <1>1, <1>2, LeavesAgree DEF l1, l2
<1>7. l1.pte \in FirstPtes /\ l2.pte \in SecondPtes
  <2>1. IsTable(Stage1(tag), FirstPtes) /\ IsTable(Stage2(tag), SecondPtes)
    BY <1>1, StagesAreTables
  <2> QED
    BY <1>2, <2>1 DEF IsTable, l1, l2
<1>8. CASE ~ofGuest
  <2>1. e.to = [q \in range |-> l2.to[l1.to[q]]]
    BY <1>4, <1>8
  <2>2. e.to \in [DOMAIN e.to -> Pages]
    BY <1>6, <2>1
  <2>3. SpaceOf(e.tag) = tag
    <3>1. e.tag = [gv |-> tag.gv, gscid |-> r.ctx.gscid,
                   pscv |-> tag.pscv, pscid |-> tag.pscid]
      BY <1>4, <1>8
    <3> QED
      BY <1>3, <3>1 DEF SpaceOf
  <2>4. \A p \in DOMAIN e.to : HoldsIn(Current, e, p)
    <3> TAKE p \in DOMAIN e.to
    <3>1. p \in range
      BY <2>1
    <3>2. e.to[p] = l2.to[l1.to[p]]
      BY <2>1, <3>1
    <3>3. /\ Translation(tag, p) \in Current
          /\ Translation(tag, p).tag = tag
          /\ Translation(tag, p).page = p
          /\ Translation(tag, p).to = l2.to[l1.to[p]]
          /\ Translation(tag, p).vs = l1.pte
          /\ Translation(tag, p).g = l2.pte
      BY <1>6, <3>1
    <3>4. e.vs = l1.pte /\ e.g = l2.pte
      BY <1>4
    <3> QED
      BY Zenon, <2>3, <3>2, <3>3, <3>4 DEF HoldsIn
  <2> QED
    BY Zenon, <1>4, <1>5, <1>7, <2>2, <2>4 DEF IsEntry, e
<1>9. CASE ofGuest
  <2> DEFINE gt == TagOf("translated", r.ctx)
  <2>1. e.to = [g \in guests |-> l2.to[g]]
    BY <1>4, <1>9
  <2>2. e.to \in [DOMAIN e.to -> Pages]
    BY <1>6, <2>1
  <2>3. /\ gt \in Tags /\ ~gt.pscv /\ gt.gv /\ gt.gscid = r.ctx.gscid
        /\ SpaceOf(e.tag) = gt /\ ~e.tag.pscv /\ tag.gv
    <3>1. gt = [gv |-> TRUE, gscid |-> r.ctx.gscid, pscv |-> FALSE, pscid |-> 0]
      BY <1>1, <1>9 DEF TagOf, Tag
    <3>2. gt \in Tags
      BY <1>1, <1>9 DEF Tags
    <3>3. tag.gv
      BY <1>1, <1>3, <1>9
    <3>4. e.tag = [gv |-> TRUE, gscid |-> r.ctx.gscid, pscv |-> FALSE, pscid |-> 0]
      BY <1>3, <1>4, <1>9, <3>3, <1>1 DEF IsTag
    <3> HIDE DEF gt
    <3> QED
      BY <3>1, <3>2, <3>3, <3>4 DEF SpaceOf, Tag
  <2> HIDE DEF gt
  <2>4. Stage2(gt) = Stage2(tag)
    BY <1>3, <2>3 DEF Stage2
  <2>5. ASSUME NEW g \in guests
        PROVE  HoldsIn(Current, e, g)
    <3>1. PICK q \in range : g = l1.to[q]
      BY <2>5
    <3>2. g \in Pages /\ g \in DOMAIN Stage2(tag) /\ Stage2(tag)[g] = l2
      BY <1>6, <3>1
    <3>3. /\ Stage1(gt) = BareTable(BareFirst)
          /\ g \in DOMAIN Stage1(gt)
          /\ Guest(gt, g) = g
      BY <2>3, <3>2, ConstantsAssumption DEF Guest, Stage1, BareTable
    <3>4. Translation(gt, g) \in Current
      BY <2>3, <2>4, <3>2, <3>3, MappedIsCurrent DEF Mapped
    <3>5. /\ Translation(gt, g).tag = gt
          /\ Translation(gt, g).page = g
          /\ Translation(gt, g).to = l2.to[g]
          /\ Translation(gt, g).g = l2.pte
      BY <2>4, <3>2, <3>3 DEF Translation
    <3>6. e.to[g] = l2.to[g] /\ e.g = l2.pte
      BY <1>4, <2>1
    <3> QED
      BY <2>3, <3>4, <3>5, <3>6 DEF HoldsIn
  <2>6. \A p \in DOMAIN e.to : HoldsIn(Current, e, p)
    BY <2>1, <2>5
  <2> QED
    BY Zenon, <1>4, <1>5, <1>7, <2>2, <2>6 DEF IsEntry, e
<1> QED
  BY <1>8, <1>9

-----------------------------------------------------------------------------
(* Type correctness. *)

FirstOK  == DOMAIN first = Spaces
            /\ \A s \in Spaces : IsTable(first[s], FirstPtes)
SecondOK == DOMAIN second = Gscids
            /\ \A v \in Gscids : IsTable(second[v], SecondPtes)

IsCache(slots) == /\ DOMAIN slots = 1 .. TlbSize
                  /\ \A i \in 1 .. TlbSize : slots[i] = NoEntry \/ IsEntry(slots[i])

LEMMA TypeParts ==
  TypeOK <=> FirstOK /\ SecondOK /\ IsCache(tlb) /\ stores \in 0 .. MaxStores
BY DEF TypeOK, FirstOK, SecondOK, IsCache, IsEntry

LEMMA TypePartsNext ==
  TypeOK' <=> FirstOK' /\ SecondOK' /\ IsCache(tlb') /\ (stores \in 0 .. MaxStores)'
BY DEF TypeOK, FirstOK, SecondOK, IsCache, IsEntry

(* The cache of a state, or one of its entries dropped. *)
Emptied(slots) ==
  /\ DOMAIN slots = 1 .. TlbSize
  /\ \A i \in 1 .. TlbSize : slots[i] = NoEntry \/ slots[i] = tlb[i]

LEMMA EmptiedIsCache ==
  ASSUME TypeOK, NEW slots, Emptied(slots)
  PROVE  IsCache(slots)
BY TypeParts DEF Emptied, IsCache

(* A translation walks with the cache, or with one entry dropped. *)
LEMMA TranslationWalks ==
  ASSUME TypeOK, NEW r \in Requests, iommu_translate_iova(r)
  PROVE  UNCHANGED vars \/ \E slots : Emptied(slots) /\ Walk(r, slots)
<1>1. DOMAIN tlb = 1 .. TlbSize
  BY DEF TypeOK
<1>2. Emptied(tlb)
  BY <1>1 DEF Emptied
<1>3. \A i : Emptied([tlb EXCEPT ![i] = NoEntry])
  BY <1>1 DEF Emptied
<1> QED
  BY <1>2, <1>3 DEF iommu_translate_iova

(* A walk puts at most one new entry into a slot. *)
LEMMA WalkFills ==
  ASSUME NEW r \in Requests, NEW slots, Emptied(slots), Walk(r, slots)
  PROVE  \/ tlb' = slots
         \/ /\ Passes1(r) /\ Passes2(r)
            /\ DOMAIN tlb' = 1 .. TlbSize
            /\ \A i \in 1 .. TlbSize : tlb'[i] = slots[i] \/ tlb'[i] = EntryOf(r)
BY DEF Walk, Emptied

(* A walk that sets dirty bits leaves the tables well formed: a stage that  *)
(* has to set one is not Bare.                                              *)
LEMMA WalkKeepsFirst ==
  ASSUME TypeOK, NEW r \in Requests, NEW slots, Walk(r, slots)
  PROVE  FirstOK'
<1> DEFINE tag == TagOf(r.at, r.ctx)
           must == Passes1(r) /\ MustDirty(Stage1(tag)[r.page].pte, r)
<1>1. CASE must
  <2>1. tag \in Tags
    BY RequestTag
  <2>2. r.page \in DOMAIN Stage1(tag)
    BY <1>1 DEF Passes1
  <2>3. tag.pscv
    <3>1. SUFFICES ASSUME ~tag.pscv PROVE FALSE
      OBVIOUS
    <3>2. r.page \in Pages /\ Stage1(tag)[r.page].pte = BareFirst
      BY <3>1, RequestTag DEF Stage1, BareTable
    <3> QED
      BY <1>1, <3>2 DEF MustDirty, BareFirst
  <2>4. tag \in Spaces /\ Stage1(tag) = first[tag]
    BY <2>1, <2>3, TagFacts DEF Stage1
  <2>5. IsTable(first[tag], FirstPtes) /\ DOMAIN first = Spaces
    BY <2>4 DEF TypeOK
  <2>6. IsTable(Dirtied(first[tag], r.page), FirstPtes)
    BY <2>2, <2>4, <2>5, DirtiedIsTable
  <2>7. first' = [first EXCEPT ![tag] = Dirtied(first[tag], r.page)]
    BY <1>1 DEF Walk
  <2> HIDE DEF tag
  <2> QED
    BY <2>4, <2>5, <2>6, <2>7 DEF FirstOK, TypeOK
<1>2. CASE ~must
  <2>1. first' = first
    BY <1>2 DEF Walk
  <2> QED
    BY <2>1 DEF FirstOK, TypeOK
<1> QED
  BY <1>1, <1>2

LEMMA WalkKeepsSecond ==
  ASSUME TypeOK, NEW r \in Requests, NEW slots, Walk(r, slots)
  PROVE  SecondOK'
<1> DEFINE tag == TagOf(r.at, r.ctx)
           g == Guest(tag, r.page)
           must == Passes1(r) /\ Passes2(r) /\ MustDirty(Stage2(tag)[g].pte, r)
<1>1. CASE must
  <2>1. tag \in Tags
    BY RequestTag
  <2>2. g \in DOMAIN Stage2(tag)
    BY <1>1 DEF Passes2
  <2>3. tag.gv
    <3>1. SUFFICES ASSUME ~tag.gv PROVE FALSE
      OBVIOUS
    <3>2. Stage2(tag)[g].pte = BareSecond
      BY <2>2, <3>1 DEF Stage2, BareTable
    <3> QED
      BY <1>1, <3>2 DEF MustDirty, BareSecond
  <2>4. tag.gscid \in Gscids /\ Stage2(tag) = second[tag.gscid]
    BY <2>1, <2>3, TagFacts DEF Stage2
  <2>5. IsTable(second[tag.gscid], SecondPtes) /\ DOMAIN second = Gscids
    BY <2>4 DEF TypeOK
  <2>6. IsTable(Dirtied(second[tag.gscid], g), SecondPtes)
    BY <2>2, <2>4, <2>5, DirtiedIsTable
  <2>7. second' = [second EXCEPT ![tag.gscid] = Dirtied(second[tag.gscid], g)]
    BY <1>1 DEF Walk
  <2> HIDE DEF tag, g
  <2> QED
    BY <2>4, <2>5, <2>6, <2>7 DEF SecondOK, TypeOK
<1>2. CASE ~must
  <2>1. second' = second
    BY <1>2 DEF Walk
  <2> QED
    BY <2>1 DEF SecondOK, TypeOK
<1> QED
  BY <1>1, <1>2

LEMMA WalkKeepsCache ==
  ASSUME TypeOK, NEW r \in Requests, NEW slots, Emptied(slots), Walk(r, slots)
  PROVE  IsCache(tlb')
<1>1. IsCache(slots)
  BY EmptiedIsCache
<1>2. Passes1(r) /\ Passes2(r) => IsEntry(EntryOf(r))
  BY EntryHolds
<1> QED
  BY <1>1, <1>2, WalkFills DEF IsCache

LEMMA TypeStep ==
  ASSUME TypeOK, [Next]_vars
  PROVE  TypeOK'
<1> USE TypeParts, TypePartsNext
<1>1. ASSUME NEW s \in Spaces, NEW t \in FirstTables, StoreFirst(s, t)
      PROVE  TypeOK'
  <2>1. IsTable(t, FirstPtes)
    BY ConstantsAssumption
  <2>2. FirstOK'
    BY <1>1, <2>1 DEF StoreFirst, FirstOK
  <2>3. SecondOK' /\ IsCache(tlb') /\ stores' \in 0 .. MaxStores
    BY <1>1, ConstantsAssumption DEF StoreFirst, SecondOK
  <2> QED
    BY <2>2, <2>3
<1>2. ASSUME NEW v \in Gscids, NEW t \in SecondTables, StoreSecond(v, t)
      PROVE  TypeOK'
  <2>1. IsTable(t, SecondPtes)
    BY ConstantsAssumption
  <2>2. SecondOK'
    BY <1>2, <2>1 DEF StoreSecond, SecondOK
  <2>3. FirstOK' /\ IsCache(tlb') /\ stores' \in 0 .. MaxStores
    BY <1>2, ConstantsAssumption DEF StoreSecond, FirstOK
  <2> QED
    BY <2>2, <2>3
<1>3. ASSUME NEW r \in Requests, iommu_translate_iova(r)
      PROVE  TypeOK'
  <2>1. CASE UNCHANGED vars
    BY <2>1 DEF vars, FirstOK, SecondOK
  <2>2. ASSUME NEW slots, Emptied(slots), Walk(r, slots)
        PROVE  TypeOK'
    <3>1. FirstOK' /\ SecondOK' /\ IsCache(tlb')
      BY <2>2, WalkKeepsFirst, WalkKeepsSecond, WalkKeepsCache
    <3>2. stores' = stores
      BY <2>2 DEF Walk
    <3> QED
      BY <3>1, <3>2
  <2> QED
    BY <1>3, <2>1, <2>2, TranslationWalks
<1>4. ASSUME NEW empties, tlb' = Without(empties), UNCHANGED <<first, second, stores>>
      PROVE  TypeOK'
  <2>1. IsCache(tlb')
    BY <1>4 DEF Without, IsCache
  <2> QED
    BY <1>4, <2>1 DEF FirstOK, SecondOK
<1>5. ASSUME NEW id \in Operands, NEW range \in Ranges, do_iotinval_vma(id, range)
      PROVE  TypeOK'
  BY <1>4, <1>5 DEF do_iotinval_vma
<1>6. ASSUME NEW id \in Operands, NEW range \in Ranges, do_iotinval_gvma(id, range)
      PROVE  TypeOK'
  BY <1>4, <1>6 DEF do_iotinval_gvma
<1>7. CASE UNCHANGED vars
  BY <1>7 DEF vars, FirstOK, SecondOK
<1> QED
  BY <1>1, <1>2, <1>3, <1>5, <1>6, <1>7 DEF Next

LEMMA TypeInit ==
  ASSUME Init
  PROVE  TypeOK
<1>1. /\ \A t \in FirstTables : IsTable(t, FirstPtes)
      /\ \A t \in SecondTables : IsTable(t, SecondPtes)
      /\ MaxStores \in Nat
  BY ConstantsAssumption
<1>2. FirstOK /\ SecondOK
  BY <1>1 DEF Init, FirstOK, SecondOK
<1>3. IsCache(tlb) /\ stores \in 0 .. MaxStores
  BY <1>1 DEF Init, IsCache
<1> QED
  BY <1>2, <1>3, TypeParts

(* The tables stay well formed when the IOMMU sets dirty bits in them: all  *)
(* pages of a superpage keep one leaf; and every entry of the cache maps    *)
(* pages to pages.                                                          *)
THEOREM TypeCorrect == Spec => []TypeOK
<1>1. Init => TypeOK
  BY TypeInit
<1>2. TypeOK /\ [Next]_vars => TypeOK'
  BY TypeStep
<1> QED
  BY <1>1, <1>2, PTL DEF Spec

-----------------------------------------------------------------------------
(* Coherence. *)

LEMMA BareNow ==
  \A t \in Current : ~t.tag.pscv => t.guest = t.page /\ t.vs = BareFirst
<1> SUFFICES ASSUME NEW t \in Current, ~t.tag.pscv
             PROVE  t.guest = t.page /\ t.vs = BareFirst
  OBVIOUS
<1>1. PICK tag \in Tags, p \in Pages : t = Translation(tag, p)
  BY DEF Current
<1>2. t.tag = tag /\ t.page = p /\ t.guest = Guest(tag, p) /\ t.vs = Stage1(tag)[p].pte
  BY <1>1 DEF Translation
<1> QED
  BY <1>2, ConstantsAssumption DEF Guest, Stage1, BareTable

LEMMA BareNext ==
  \A t \in Current' : ~t.tag.pscv => t.guest = t.page /\ t.vs = BareFirst
<1> SUFFICES ASSUME NEW t \in Current', ~t.tag.pscv
             PROVE  t.guest = t.page /\ t.vs = BareFirst
  OBVIOUS
<1>1. PICK tag \in Tags, p \in Pages : t = Translation(tag, p)'
  BY DEF Current
<1>2. /\ t.tag = tag /\ t.page = p /\ t.guest = Guest(tag, p)'
      /\ t.vs = (Stage1(tag)[p].pte)'
  BY <1>1 DEF Translation
<1> QED
  BY <1>2, ConstantsAssumption DEF Guest, Stage1, BareTable

(* The tables determine the translations they hold. *)
LEMMA CurrentSame ==
  ASSUME UNCHANGED <<first, second>>
  PROVE  Current' = Current
BY DEF Current, Translation, Mapped, Guest, Stage1, Stage2

(* A longer history and fewer entries. *)
LEMMA HoldsMore ==
  ASSUME NEW h1, NEW h2, h1 \subseteq h2, NEW s1, NEW s2, Holds(s1, h1),
         \A i \in 1 .. TlbSize : s2[i] = NoEntry \/ s2[i] = s1[i]
  PROVE  Holds(s2, h2)
<1> SUFFICES ASSUME NEW i \in 1 .. TlbSize, s2[i] # NoEntry, NEW p \in DOMAIN s2[i].to
             PROVE  HoldsIn(h2, s2[i], p)
  BY DEF Holds
<1>1. s2[i] = s1[i]
  OBVIOUS
<1>2. HoldsIn(h1, s1[i], p)
  BY <1>1 DEF Holds
<1> QED
  BY <1>1, <1>2 DEF HoldsIn

(* What a step that only adds to the history leaves of the invariant. *)
LEMMA HistoryGrows ==
  ASSUME IInv, seen' = seen \cup Current'
  PROVE  /\ CurrentIsSeen' /\ BareIsIdentity'
         /\ seen \subseteq seen' /\ Current \subseteq seen'
BY BareNext DEF IInv, CurrentIsSeen, BareIsIdentity

LEMMA WalkHolds ==
  ASSUME IInv, NEW r \in Requests, NEW slots, Emptied(slots), Walk(r, slots)
  PROVE  IInv'
<1>1. TypeOK'
  BY WalkKeepsFirst, WalkKeepsSecond, WalkKeepsCache, TypeParts, TypePartsNext
     DEF IInv, Walk
<1>2. /\ CurrentIsSeen' /\ BareIsIdentity'
      /\ seen \subseteq seen' /\ Current \subseteq seen'
  BY HistoryGrows DEF Walk
<1>3. Holds(slots, seen')
  BY <1>2, HoldsMore DEF IInv, Emptied
<1>4. CASE tlb' = slots
  BY <1>1, <1>2, <1>3, <1>4 DEF IInv
<1>5. CASE /\ Passes1(r) /\ Passes2(r)
           /\ \A i \in 1 .. TlbSize : tlb'[i] = slots[i] \/ tlb'[i] = EntryOf(r)
  <2>1. \A p \in DOMAIN EntryOf(r).to : HoldsIn(Current, EntryOf(r), p)
    BY <1>5, EntryHolds DEF IInv
  <2>2. \A p \in DOMAIN EntryOf(r).to : HoldsIn(seen', EntryOf(r), p)
    BY <1>2, <2>1 DEF HoldsIn
  <2>3. Holds(tlb', seen')
    BY <1>3, <1>5, <2>2 DEF Holds
  <2> QED
    BY <1>1, <1>2, <2>3 DEF IInv
<1> QED
  BY <1>4, <1>5, WalkFills

(* A command keeps an entry only if none of the translations the entry      *)
(* holds is covered by the command.                                         *)
LEMMA CommandHolds ==
  ASSUME IInv, NEW empties, NEW covered,
         tlb' = Without(empties), UNCHANGED <<first, second, stores>>,
         seen' = Current \cup (seen \ covered),
         \A i \in 1 .. TlbSize, t \in seen :
           /\ tlb[i] # NoEntry
           /\ t.page \in DOMAIN tlb[i].to
           /\ t.tag = SpaceOf(tlb[i].tag)
           /\ tlb[i].tag.pscv => t.vs = tlb[i].vs
           /\ t \in covered
           => i \in empties
  PROVE  Holds(tlb', seen') /\ CurrentIsSeen' /\ BareIsIdentity'
<1>1. CurrentIsSeen'
  BY CurrentSame DEF CurrentIsSeen
<1>2. BareIsIdentity'
  BY BareNow DEF BareIsIdentity, IInv
<1>3. ASSUME NEW i \in 1 .. TlbSize, tlb'[i] # NoEntry, NEW p \in DOMAIN tlb'[i].to
      PROVE  HoldsIn(seen', tlb'[i], p)
  <2>1. tlb'[i] = tlb[i] /\ i \notin empties
    BY <1>3 DEF Without
  <2>2. HoldsIn(seen, tlb[i], p)
    BY <1>3, <2>1 DEF IInv, Holds
  <2>3. PICK t \in seen : /\ t.tag = SpaceOf(tlb[i].tag) /\ t.page = p
                          /\ t.to = tlb[i].to[p] /\ t.g = tlb[i].g
                          /\ tlb[i].tag.pscv => t.vs = tlb[i].vs
    BY <2>2 DEF HoldsIn
  <2>4. t \in seen'
    BY <1>3, <2>1, <2>3
  <2> QED
    BY <2>1, <2>3, <2>4 DEF HoldsIn
<1> QED
  BY <1>1, <1>2, <1>3 DEF Holds

LEMMA VmaHolds ==
  ASSUME IInv, ~WholeLeaf, NEW id, NEW range, do_iotinval_vma(id, range)
  PROVE  Holds(tlb', seen') /\ CurrentIsSeen' /\ BareIsIdentity'
<1> DEFINE covered == {t \in seen : CoveredByVma(t, id, range)}
           empties == {i \in 1 .. TlbSize : /\ tlb[i] # NoEntry
                                            /\ VmaMatches(tlb[i], id, range)}
<1>1. ASSUME NEW i \in 1 .. TlbSize, NEW t \in seen,
             tlb[i] # NoEntry, t.page \in DOMAIN tlb[i].to,
             t.tag = SpaceOf(tlb[i].tag),
             tlb[i].tag.pscv => t.vs = tlb[i].vs, t \in covered
      PROVE  i \in empties
  <2>1. IsTag(tlb[i].tag)
    BY <1>1 DEF IInv, TypeOK
  <2>2. /\ t.tag.gv = tlb[i].tag.gv /\ t.tag.pscv = tlb[i].tag.pscv
        /\ tlb[i].tag.gv => t.tag.gscid = tlb[i].tag.gscid
        /\ tlb[i].tag.pscv => t.tag.pscid = tlb[i].tag.pscid
    BY <1>1, <2>1 DEF SpaceOf, Tag, IsTag
  <2>3. match_address_range(range, DOMAIN tlb[i].to)
    BY <1>1 DEF match_address_range, CoveredByVma, Addressed
  <2>4. VmaMatches(tlb[i], id, range)
    BY <1>1, <2>2, <2>3 DEF VmaMatches, CoveredByVma
  <2> QED
    BY <1>1, <2>4
<1>2. /\ tlb' = Without(empties) /\ UNCHANGED <<first, second, stores>>
      /\ seen' = Current \cup (seen \ covered)
  BY DEF do_iotinval_vma
<1> HIDE DEF covered, empties
<1> QED
  BY <1>1, <1>2, CommandHolds

LEMMA GvmaHolds ==
  ASSUME IInv, NEW id, NEW range, do_iotinval_gvma(id, range)
  PROVE  Holds(tlb', seen') /\ CurrentIsSeen' /\ BareIsIdentity'
<1>1. PICK gm, am \in BOOLEAN : tlb' = Without(GvmaEmpties(id, range, gm, am))
  BY DEF do_iotinval_gvma
<1> DEFINE covered == {t \in seen : CoveredByGvma(t, id, range)}
           empties == GvmaEmpties(id, range, gm, am)
<1>2. ASSUME NEW i \in 1 .. TlbSize, NEW t \in seen,
             tlb[i] # NoEntry, t.page \in DOMAIN tlb[i].to,
             t.tag = SpaceOf(tlb[i].tag),
             tlb[i].tag.pscv => t.vs = tlb[i].vs, t \in covered
      PROVE  i \in empties
  <2>1. IsTag(tlb[i].tag)
    BY <1>2 DEF IInv, TypeOK
  <2>2. /\ t.tag.gv = tlb[i].tag.gv /\ t.tag.pscv = tlb[i].tag.pscv
        /\ tlb[i].tag.gv => t.tag.gscid = tlb[i].tag.gscid
    BY <1>2, <2>1 DEF SpaceOf, Tag, IsTag
  <2>3. GvmaGscidMatches(tlb[i], id)
    BY <1>2, <2>2 DEF GvmaGscidMatches, CoveredByGvma
  <2>4. ~t.tag.pscv => t.guest = t.page
    BY DEF IInv, BareIsIdentity
  <2>5. GvmaAddressMatches(tlb[i], id, range)
    BY <1>2, <2>2, <2>4 DEF GvmaAddressMatches, CoveredByGvma, match_address_range
  <2>6. i \in 1 .. i
    OBVIOUS
  <2> QED
    BY <1>2, <2>3, <2>5, <2>6 DEF GvmaEmpties
<1>3. /\ tlb' = Without(empties) /\ UNCHANGED <<first, second, stores>>
      /\ seen' = Current \cup (seen \ covered)
  BY <1>1 DEF do_iotinval_gvma
<1> HIDE DEF covered, empties
<1> QED
  BY <1>2, <1>3, CommandHolds

LEMMA InvInit ==
  ASSUME Init
  PROVE  IInv
<1>1. TypeOK
  BY TypeInit
<1>2. CurrentIsSeen /\ BareIsIdentity
  BY BareNow DEF Init, CurrentIsSeen, BareIsIdentity
<1>3. Holds(tlb, seen)
  BY DEF Init, Holds
<1> QED
  BY <1>1, <1>2, <1>3 DEF IInv

LEMMA InvStep ==
  ASSUME IInv, ~WholeLeaf, [Next]_vars
  PROVE  IInv'
<1>1. TypeOK'
  BY TypeStep DEF IInv
<1>2. ASSUME NEW s \in Spaces, NEW t \in FirstTables, StoreFirst(s, t)
      PROVE  IInv'
  <2>1. CurrentIsSeen' /\ BareIsIdentity' /\ seen \subseteq seen'
    BY <1>2, HistoryGrows DEF StoreFirst
  <2>2. Holds(tlb', seen')
    BY <1>2, <2>1, HoldsMore DEF StoreFirst, IInv
  <2> QED
    BY <1>1, <2>1, <2>2 DEF IInv
<1>3. ASSUME NEW v \in Gscids, NEW t \in SecondTables, StoreSecond(v, t)
      PROVE  IInv'
  <2>1. CurrentIsSeen' /\ BareIsIdentity' /\ seen \subseteq seen'
    BY <1>3, HistoryGrows DEF StoreSecond
  <2>2. Holds(tlb', seen')
    BY <1>3, <2>1, HoldsMore DEF StoreSecond, IInv
  <2> QED
    BY <1>1, <2>1, <2>2 DEF IInv
<1>4. CASE UNCHANGED vars
  <2>1. UNCHANGED <<first, second, tlb, seen>>
    BY <1>4 DEF vars
  <2>2. Current' = Current
    BY <2>1, CurrentSame
  <2> QED
    BY <1>1, <2>1, <2>2 DEF IInv, CurrentIsSeen, BareIsIdentity
<1>5. ASSUME NEW r \in Requests, iommu_translate_iova(r)
      PROVE  IInv'
  BY <1>4, <1>5, TranslationWalks, WalkHolds DEF IInv
<1>6. ASSUME NEW id \in Operands, NEW range \in Ranges, do_iotinval_vma(id, range)
      PROVE  IInv'
  BY <1>1, <1>6, VmaHolds DEF IInv
<1>7. ASSUME NEW id \in Operands, NEW range \in Ranges, do_iotinval_gvma(id, range)
      PROVE  IInv'
  BY <1>1, <1>7, GvmaHolds DEF IInv
<1> QED
  BY <1>2, <1>3, <1>4, <1>5, <1>6, <1>7 DEF Next

(* Software that addresses every page whose leaf it changed finds no stale  *)
(* translation in the cache: an entry holds, for each page, what the tables *)
(* of its address space held since the last command that covers it.         *)
THEOREM CacheIsCoherent == ASSUME ~WholeLeaf PROVE Spec => []Coherent
<1>1. Init => IInv
  BY InvInit
<1>2. IInv /\ [Next]_vars => IInv'
  BY InvStep
<1>3. IInv => Coherent
  BY DEF IInv, Holds, Coherent
<1> QED
  BY <1>1, <1>2, <1>3, PTL DEF Spec

-----------------------------------------------------------------------------
(* Answers. *)

(* A lookup with a match uses one of the matching entries. *)
LEMMA HitIsFound ==
  ASSUME NEW r \in Requests, Hits(tlb, r) # {}
  PROVE  Hit(tlb, r) \in Hits(tlb, r)
<1> DEFINE hits == Hits(tlb, r)
           less == OpToRel(<, Nat)
<1>1. hits \subseteq Nat
  BY ConstantsAssumption DEF Hits
<1>2. IsWellFoundedOn(less, Nat)
  BY NatLessThanWellFounded
<1>3. \A i, j \in Nat : i < j => <<i, j>> \in less
  BY DEF OpToRel
<1> HIDE DEF hits, less
<1>4. hits # {}
  BY DEF hits
<1>5. PICK i \in hits : \A j \in hits : <<j, i>> \notin less
  BY <1>1, <1>2, <1>4, WFMin
<1>6. ASSUME NEW j \in hits
      PROVE  i <= j
  <2>1. i \in Nat /\ j \in Nat
    BY <1>1
  <2>2. ~(j < i)
    BY Zenon, <1>3, <1>5, <2>1
  <2> QED
    BY <2>1, <2>2
<1> QED
  BY <1>5, <1>6 DEF Hit, hits

(* A match is an entry of the address space of the request that holds, for  *)
(* the page of the request, a translation seen.                             *)
LEMMA HitHolds ==
  ASSUME IInv, NEW r \in Requests, Hits(tlb, r) # {},
         NEW e, e = tlb[Hit(tlb, r)]
  PROVE  /\ e.tag = TagOf(r.at, r.ctx)
         /\ e.vs \in FirstPtes
         /\ \E t \in seen : /\ t.tag = TagOf(r.at, r.ctx) /\ t.page = r.page
                            /\ t.to = e.to[r.page] /\ t.g = e.g
                            /\ TagOf(r.at, r.ctx).pscv => t.vs = e.vs
                            /\ ~TagOf(r.at, r.ctx).pscv => t.vs = BareFirst
<1> DEFINE i == Hit(tlb, r)
           tag == TagOf(r.at, r.ctx)
<1>1. i \in Hits(tlb, r)
  BY HitIsFound
<1>2. /\ i \in 1 .. TlbSize /\ tlb[i] # NoEntry /\ e.tag = tag
      /\ r.page \in DOMAIN e.to
  BY <1>1 DEF Hits, match_address_range
<1>3. tag \in Tags /\ SpaceOf(tag) = tag
  BY RequestTag, TagFacts
<1>4. e.vs \in FirstPtes
  BY <1>2 DEF IInv, TypeOK
<1>5. HoldsIn(seen, e, r.page)
  BY <1>2 DEF IInv, Holds
<1>6. PICK t \in seen : /\ t.tag = tag /\ t.page = r.page
                        /\ t.to = e.to[r.page] /\ t.g = e.g
                        /\ tag.pscv => t.vs = e.vs
  BY <1>2, <1>3, <1>5 DEF HoldsIn
<1>7. ~tag.pscv => t.vs = BareFirst
  BY <1>6 DEF IInv, BareIsIdentity
<1> QED
  BY <1>2, <1>4, <1>6, <1>7

LEMMA InvAnswers ==
  ASSUME IInv
  PROVE  AnswersAreInForce
<1> SUFFICES ASSUME NEW r \in Requests, Lookup(tlb, r) = "hit"
             PROVE  \E t \in seen :
                      /\ t.tag = TagOf(r.at, r.ctx) /\ t.page = r.page
                      /\ t.to = Answer(tlb, r)
                      /\ Permits(t.vs, r) /\ r.needs \subseteq t.g.perm
                      /\ "w" \in r.needs => t.vs.dirty /\ t.g.dirty
  BY DEF AnswersAreInForce
<1> DEFINE tag == TagOf(r.at, r.ctx)
           e == tlb[Hit(tlb, r)]
<1>1. Hits(tlb, r) # {} /\ ~Refused(e, r) /\ ~MustWalk(e, r)
  BY DEF Lookup
<1>2. PICK t \in seen : /\ t.tag = tag /\ t.page = r.page
                        /\ t.to = e.to[r.page] /\ t.g = e.g
                        /\ tag.pscv => t.vs = e.vs
                        /\ ~tag.pscv => t.vs = BareFirst
  BY <1>1, HitHolds
<1>3. t.to = Answer(tlb, r)
  BY <1>2 DEF Answer
<1>4. r.needs \subseteq t.g.perm /\ ("w" \in r.needs => t.g.dirty /\ e.vs.dirty)
  BY <1>1, <1>2 DEF MustWalk
<1>5. r.needs \subseteq Rights
  BY ConstantsAssumption DEF Requests
<1>6. Permits(t.vs, r) /\ ("w" \in r.needs => t.vs.dirty)
  <2>1. CASE tag.pscv
    BY <1>1, <1>2, <1>4, <2>1 DEF Refused, Permits
  <2>2. CASE ~tag.pscv
    BY <1>2, <1>5, <2>2 DEF BareFirst, Permits
  <2> QED
    BY <2>1, <2>2
<1> QED
  BY <1>2, <1>3, <1>4, <1>6

LEMMA InvRefusals ==
  ASSUME IInv
  PROVE  RefusalsAreInForce
<1> SUFFICES ASSUME NEW r \in Requests, Lookup(tlb, r) = "fault",
                    r.ctx.pscv, r.at # "translated"
             PROVE  \E t \in seen :
                      /\ t.tag = TagOf(r.at, r.ctx) /\ t.page = r.page
                      /\ ~Permits(t.vs, r) \/ PrivilegeRefused(t.vs, r)
  BY DEF RefusalsAreInForce
<1> DEFINE tag == TagOf(r.at, r.ctx)
           e == tlb[Hit(tlb, r)]
<1>1. Hits(tlb, r) # {} /\ Refused(e, r)
  BY DEF Lookup
<1>2. tag.pscv
  BY DEF TagOf, Tag
<1>3. PICK t \in seen : /\ t.tag = tag /\ t.page = r.page
                        /\ tag.pscv => t.vs = e.vs
  BY <1>1, HitHolds
<1>4. t.vs = e.vs
  BY <1>2, <1>3
<1>5. ~Permits(t.vs, r) \/ PrivilegeRefused(t.vs, r)
  BY <1>1, <1>4 DEF Refused, Permits
<1> QED
  BY <1>3, <1>5

(* A request the cache answers gets the page, the permissions and the dirty *)
(* bits the tables of its own address space held since the last command     *)
(* that covers them.                                                        *)
THEOREM AnswersInForce == ASSUME ~WholeLeaf PROVE Spec => []AnswersAreInForce
<1>1. Init => IInv
  BY InvInit
<1>2. IInv /\ [Next]_vars => IInv'
  BY InvStep
<1>3. IInv => AnswersAreInForce
  BY InvAnswers
<1> QED
  BY <1>1, <1>2, <1>3, PTL DEF Spec

(* A request the cache refuses was refused by its own first stage since the *)
(* last command that covers it.                                             *)
THEOREM RefusalsInForce == ASSUME ~WholeLeaf PROVE Spec => []RefusalsAreInForce
<1>1. Init => IInv
  BY InvInit
<1>2. IInv /\ [Next]_vars => IInv'
  BY InvStep
<1>3. IInv => RefusalsAreInForce
  BY InvRefusals
<1> QED
  BY <1>1, <1>2, <1>3, PTL DEF Spec
=============================================================================
