# Formal model of the RISC-V IOMMU reference model

The repository is an executable reference model, in C, of the RISC-V IOMMU
(`src/iommu_ref_model/libiommu`), a library that builds tables in memory for tests
(`libtables`), a test application (`test`) and cocotb test benches (`tb`). This directory holds
TLA+ specifications of the model, TLC configurations that check them on small instances, and
theorems about them that TLAPS checks for every value of their constants.

Paths in this file are relative to `src/iommu_ref_model/libiommu/src` unless they start with `src/`.

## How the program runs

The library is single threaded: the test bench calls one function at a time
(`src/iommu_ref_model/README.md` lists them), and each call runs to its end. What is concurrent is
the system around it: software writes registers, commands and tables at any time between two
calls, devices send requests and answers when they like, timers expire, and accesses to memory may
fault. **One call is one action** in every module but `PageWalk`. What a call does inside, in which
order and with which early returns, is part of the action; the nondeterminism is in which call comes
next, in its operands, and in what memory and devices answer. `PageWalk` is inside one call: there a
step is one access to memory, because memory belongs to the harts too and the code marks its page
tables by compare-and-swap for that reason. In `Hpm` software is two threads, and each of their
register accesses is an action.

## Inventory

| component (source) | state it keeps | operations | talks to | hard behaviour | what makes it correct |
|---|---|---|---|---|---|
| Command queue (`iommu_command_queue.c`, CQ registers of `iommu_reg.c`) | queue in memory, cqb, cqh, cqt, cqcsr, a parked ATS.INVAL, a parked IOFENCE.C | `process_commands`, writes of cqb, cqt, cqcsr, ipsr | caches (IOTINVAL, IODIR), ITAG tracker, devices, interrupts | a command outlives the call that fetched it, and is resumed by somebody else; faults and retries; disabling under a waiting command | order; no command skipped or done twice; a fence covers what precedes it; whatever waits is woken |
| ITAG tracker (`iommu_ats.c:7-94`) | `itag_tracker`, `ats_inv_req_timeout` | `allocate_itag`, `handle_invalidation_completion`, `do_ats_timer_expiry` | command queue, devices | answers that are late, coalesced, unexpected; reuse of an ITAG; counting modulo 8 | a request is complete only if its device said so or it timed out |
| Fault queue (`iommu_faults.c`) | queue, fqh, fqt, fqcsr | `report_fault`, register writes | interrupts | full queue, failed stores, a fault while a fault is reported | software reads the faults in order, without a silent gap |
| Page requests (`iommu_ats.c:95-373`) | queue, pqh, pqt, pqcsr | `handle_page_request`, register writes | device context, interrupts, devices | a dozen early exits, each with its own response | exactly one response per request that asks for one |
| Interrupts (`iommu_interrupt.c`, ipsr, icvec, MSI table) | ipsr, `msi_pending`, masks, icvec | `generate_interrupt`, `do_msi`, `release_pending_interrupt` | fault queue (an MSI write may fault) | mutual recursion; masks; acknowledging while an event repeats | no event is lost, withheld messages go out |
| Translation cache (`iommu_atc.c:98-232`, IOTINVAL of `iommu_command_queue.c`) | two `tlb` entries | lookup, fill, replacement, `do_iotinval_vma`, `do_iotinval_gvma` | page tables in memory, command queue, all requests | staleness; superpages; global and dirty bits; two stages in one entry | a request never gets what its tables did not say since the last command |
| Directory caches (`iommu_atc.c:8-96`, IODIR) | two `ddt_cache`, two `pdt_cache` entries | `do_inval_ddt`, `do_inval_pdt`, lookups and fills | directories in memory | staleness; process contexts depend on device contexts | as above, for contexts |
| Page-table walks (`iommu_second_stage_trans.c`, `iommu_two_stage_trans.c`) | none (tables are in memory) | the two walks | memory, counters | A and D bits by compare-and-swap, restart of the walk, nested stages | result and fault are what the tables say |
| Device and process contexts (`iommu_device_context.c`, `iommu_process_context.c`) | none | the directory walks and configuration checks | directory caches, second stage | some forty conditions in a fixed order | misconfigured contexts are refused, with the right cause |
| MSI translation (`iommu_msi_trans.c`) | none | `msi_address_translation` | device context | `extract`, MRIF mode | virtual interrupt files are found and nothing else |
| Translation pipeline (`iommu_translate.c`) | none | `iommu_translate_iova` | everything above | order of the checks, requests of four types | cause, response class |
| Performance monitor (`iommu_hpm.c`) | counters, event selectors, overflow bits | `count_events`, register writes | interrupts | filters, inhibit bits, wrap, one interrupt per overflow | counts what is selected |
| Register file (`iommu_reg.c`) | all registers | `read_register`, `write_register`, `reset_iommu` | all of the above | read-only, RW1C and busy rules; offsets and widths | as documented in `iommu_registers.h` |

`PROJECT.json` lists the same components, with what is modelled of each, and the hazards: the places
of the code where a property can go wrong that a test would hardly reach. The properties below
are aimed at that list.

## Modules

| part | modules |
|---|---|
| command queue, ITAG tracker, IOFENCE.C | `CommandQueue`; its promise `FenceOrder`; the refinement `CommandQueueOrder`; `MCCommandQueue`; `CommandQueueProofs`, `CommandQueueOrderProofs` |
| fault queue, page-request queue, interrupts | `EventQueues`; its promise `EventLog`; the refinement `EventQueuesLog`; `MCEventQueues`; `EventQueuesProofs`, `EventQueuesLogProofs` |
| translation cache and its commands | `Iotlb`; `MCIotlb`; `IotlbProofs` |
| device and process contexts, directory caches, IODIR, steps 1 to 16 of a translation | `Contexts`; `MCContexts`; `ContextsProofs` |
| page-table walks, A and D bits, MSI translation | `PageWalk`; `MCPageWalk`; `PageWalkProofs` |
| performance monitor | `Hpm`; `MCHpm`; `HpmProofs` |

A definition whose comment calls it a mutant, or that differs from its neighbour by one dropped
guard, is not part of the model: it is a plausible bug, kept to see that a property finds it.

### CommandQueue

State: the registers cqb (as a number of entries), cqh, cqt, cqcsr, ipsr.cip; the queue in memory;
`command_queue_stall_for_itag` and `pending_inval_req`; `iofence_wait_pending_inv` and
`iofence_pending`; `ats_inv_req_timeout`; `itag_tracker`. `answers` are the completions devices still
owe, each remembering the ITAG it was asked with and whether its request has timed out (`late`).
Two history variables: `unreported`, a timeout no cmd_to has reported, and `expired`.

| action | code |
|---|---|
| `process_commands` | `process_commands`: fetch (which may fault), one disjunct per kind of command, `command_illegal`, the interrupt |
| `DeviceAnswers` | `handle_invalidation_completion` for one device, with the requests the completion names, and `do_pending_iofence_inval_reqs` |
| `TimerExpires` | `do_ats_timer_expiry` for any set of busy ITAGs |
| `Submit`, `WriteCqb`, `WriteCqcsr`, `WriteIpsr` | the driver's stores and `write_register` |
| `Reset` | `reset_iommu` |

Of a command only the operands that decide control are kept. IOTINVAL and IODIR only advance the
head here; their effect belongs to the caches. `RspWrap` is the 8 of the 3-bit counter.

### EventQueues

State: for each of the two queues its size, head, tail, enable and error bits and its memory; ipsr;
`msi_pending`, masks and icvec; what of cqcsr decides the command interrupt. The functions that
call each other (`report_fault`, `generate_interrupt`, `do_msi`, `release_pending_interrupt`) are
operators from the state of a call to its next state (`Now` is the state a call starts with,
`Install` makes the result the new state). The recursion report_fault -> generate_interrupt ->
do_msi -> report_fault is written out to the depth the code can reach: fip is set before the message
is sent, so a second fault record raises nothing. History: `claim`, how software was told of a
pending bit, and `exchange`, the page request of the step and its response.

Actions: `TranslationFault`, `handle_page_request`, `CommandEvent` and `CounterOverflow` (what the
other components do to this one), and the register writes. A memory that faults is a choice made
by each action (`Faults`). Of a fault record only the cause is kept, of a page request only its kind.
Software follows one rule of the repository's own driver (`enable_fq` in
`src/iommu_ref_model/test/test_utils.c`): it writes the base of a queue, which sets the head to 0,
before it enables it.

### Iotlb

State: `first`, a first-stage table for every address space; `second`, a second-stage table for
every virtual machine; `tlb`, the entries of the cache; and `seen`, a history of the translations the
tables held and that no command has covered since. Software stores tables whenever it wants; that a
cached translation outlives them is right until a command says otherwise, so the promise of the
cache is about `seen`, not about the tables of the moment.

| action | code |
|---|---|
| `iommu_translate_iova` | step 17 to the fill: the lookup (hit, fault, miss, or drop and walk again), both walks, dirty bits, `cache_ioatc_iotlb` |
| `do_iotinval_vma`, `do_iotinval_gvma` | the loops over the entries |
| `StoreFirst`, `StoreSecond` | the harts |

Abstractions: an aligned range of pages is a set of pages, and `match_address_range` is what it decides
for such ranges, that they intersect; a leaf maps a range to pages, so a 4K page, a superpage and a
NAPOT page are leaves of different ranges; the descent through the levels of a table is a lookup;
the victim of a full cache is any entry. Left out: the A bit, PBMT, MSI pages, faults of memory,
the second-stage translation of the pages that hold first-stage tables, and what an ATS response
grants. `do_iotinval_gvma` never resets its two match flags and reads them uninitialised; the
model carries them from entry to entry and starts them with any value. `Needs` lists the accesses
`get_attribs_from_req` can derive.

### Contexts

State: `mode` (ddtp.iommu_mode); `ddt`, one device directory per mode, and `pdt`, the process
directories; `dcs` and `pcs`, the directory caches. History: `seenDc` and `seenPc`, the contexts the
tables held and that no IODIR command has covered since. Identifiers are numbers, since the width
checks and the indices are arithmetic on them: `DdtPath` and `PdtPath` say which identifiers share
an entry, `TooWide` is the check of iommu_translate.c:119-146 on the bytes the code keeps them in.

| action | code |
|---|---|
| `iommu_translate_iova` | steps 1 to 16: ddtp, the width of the device id, the device context from cache or table (`ReadDc`, `Misconfigured`), what its flags disallow, the process context (`ReadPc`, `MisconfiguredPc`); both fills. `Outcome` is where the request goes, `Response` the class of its answer (step 20) |
| `handle_page_request` | the checks before the page-request queue (iommu_ats.c:95-200), which fill the device cache too |
| `do_inval_ddt`, `do_inval_pdt` | IODIR, with the checks that make it illegal |
| `WriteDdtp` | the write of ddtp: a mode that is not supported, or another number of levels without Off or Bare in between, is dropped |
| `StoreDdt`, `StorePdt` | the harts |

Abstractions: a table has one depth; a cell stands for the path to a leaf, either a cause that a
non-leaf entry or an access to one raises or a leaf; what the second stage says of a process directory
is one of four outcomes per directory; all reserved bits and encodings are one field, SADE and GADE
are one; the victim of a full cache is any entry (in the code a fresh slot keeps the age of the old
one). The address translation itself is where a request goes (`"walk"`), with the modes it takes there.

### PageWalk

State: `mem`, the entries of all tables of both stages in one memory, so that a table may map itself;
`pc`, `i`, `j`, `pte`, `gpte` and the cells they were read from, the local variables of the two walks;
`gpa` and `is_implicit`, what the second stage is asked for. History: `vstale` and `gstale`, a hart
stored to a cell after the walk last looked at it.

| action | code |
|---|---|
| `Start` | step 17 after a miss of the cache: the request, the roots, a stage that is Bare |
| `EnterSecond`, `ReadSecond`, `UpdateSecond` | `second_stage_address_translation`: the range check, one entry, the compare-and-swap of A and D (lines 282-321) and the restart |
| `ReadFirst`, `UpdateFirst` | `two_stage_address_translation` in the same way; each table address and the result go through the second stage |
| `TranslateMsi` | `msi_address_translation`: match, `extract`, the MSI entry |
| `Reply` | steps 18 to 20: the permissions granted, the answer |
| `Store` | a hart stores an entry, between any two steps |

Abstractions: addresses are page numbers; PBMT encodings are a reserved bit, and G and page sizes are
left to `Iotlb`; the read and the write of a compare-and-swap are one step, as
`read_memory_for_AMO` asks its environment for (two_stage:310, second_stage:282); a virtual address
beyond the span of the root is one that is not canonical; a cell that is `Poisoned` or `ReadOnly`
raises the access faults of memory.

### Hpm

State: `iohpmctr`, `iohpmevt`, `iocountinh`; ipsr.pmip, the mask and the withheld message of its vector, a
message under way; and two threads of software: a driver that selects events and loads a counter in
two 4-byte halves while it inhibits it, and a handler that clears pmip, reads iocountovf and clears
OF of what it found. History: `expected`, what a counter should read by a reference definition of
the filters (`Counted`: DMASK names a block of ids by its size and base), and `raised`, the
overflows that interrupt.

| action | code |
|---|---|
| `count_events` | `count_events` for one event: filters (`Selects`), wrap, OF, the interrupt on the 0-to-1 edge |
| `Select`, `LoadLow`, `LoadHigh`, `StartLoad`, `EndLoad`, `ClearOverflow` | `write_register` of iohpmevt, iohpmctr, iocountinh |
| `ReadOverflows` | `read_register` of iocountovf |
| `Acknowledge`, `WriteVecCtrl`, `Enter` | the write of ipsr.pmip, the mask bit, delivery |

Counters have their index in the array: number 0 is iohpmctr1. `capabilities.hpm = 0` is the same as no
counters. An MSI write does not fault here (that is in `EventQueues`). iohpmcycles is left out:
nothing in the code counts it. `Wrap`, `Half` and `IdBits` stand for 2^hpmctr_bits, 2^32 and 24; of the first
two it is assumed that one divides the other, as powers of two do. Powers of two are a recursive
function (`Pow2`), because the proof system knows nothing of `^`. A counter needs no bound, because it
wraps.

## Runs

Bounds are part of each `.cfg`; every action and disjunct of each next-state relation fires in the
passing runs.

| run | instance | shows |
|---|---|---|
| `command_queue` | two devices that differ only in their segment, one answering twice (the counter wraps), two ITAGs, a queue of two slots, every kind of command, faulting memory, coalesced completions | type, busy exactly behind a fence, every wait has a cause, `FenceGuarantee`, the head passes only commands that are done, errors stay visible in ipsr, the timeout flag is real. Timeouts are final (`MaxLate = 0`) |
| `command_queue_order` | queues of two and four slots, resized while off | the queue implements `FenceOrder`; the waiting IOFENCE.C is the command at the head |
| `command_queue_live` | one late answer may be under way | what a parked command waits for only shrinks; under fairness, every fence and every stalled ATS.INVAL ends and every disable completes; requests complete early only by a late answer to the same function |
| `event_queues_msi` | MSIs, two vectors, shared and separate, masks, stores and messages that fault, command and counter events | types; withheld messages stay pending; news are pended; errors stay visible in ipsr |
| `event_queues_wired` | page requests of two kinds, queues of two and four entries, faulting stores | both queues implement `EventLog`; every request gets its one response |
| `contexts` | devices 1, 65 and 32769 and processes 0 and 256, which share their low bits; caches of two entries; four device and two process contexts (host, guest, T2GPA, misconfigured); two stores | types, coherence of both caches, caches invisible once synchronized, usable contexts, wide ids refused, every fault answered |
| `page_walk` | two stages of two levels, twenty-one requests, stores of harts to a leaf, to the leaf that maps its table and to that of the data; two stores | what the walk writes, what an answer says of the tables, that every step but a failed comparison brings the walk nearer to its answer, that walks end |
| `hpm` | two counters of two bits and one that takes no writes, device, block, process and guest filters, six events, loads in halves, a masked vector | overflows reach the handler, counts are exact |
| `iotlb` | a guest with two stages whose device uses ATS and T2GPA, and the host; two iovas, superpages and pages in both stages, with and without W, U, G, D; two entries; one store | tables stay well formed, the cache is coherent, what it answers and refuses is in force |

Why the bounds are enough to show something. Two ITAGs are the code's own number, and the two
devices suffice to fill both, to stall a third request, and to answer in either order; two slots make
the ring full and wrap, and the run with sizes 2 and 4 is there because a wrap with the wrong size
cannot be seen with one size. Two vectors let a release meet a fault record for the same and for
another vector. Two cache entries are the code's own number; two pages under one leaf are what it
takes for entries to be smaller than a leaf, and one store between fill and command is what it takes
for an entry to be stale. Two stores in `contexts` change a device and a process context under the
same request; three devices compete for two slots, so that every fill may evict what another needs.
Two levels are the least with a non-leaf entry, and two stores of harts are what it takes to make a
walk restart and to change the leaf of the table as well. Counters of two bits overflow within four
events, so that an overflow can come between any two steps of the handler. Each property is shown to have teeth by one mutant of the code that
violates it under the run's own bounds. The theorems remove the bounds.

**Fairness.** `FairSpec` of `CommandQueue`: weak fairness of `process_commands`, which
`src/iommu_ref_model/README.md` says acts like a clock, and of `TimerExpires`, because a request that
stays unanswered has a timer running until it is answered. Devices and software owe nothing. No
liveness property of the queue needs more, and without the timer none holds. `Spec` of `PageWalk`: weak
fairness of `Walk`, since a walk is inside one call, which runs on. `WalkEnds` uses the bound on
stores: the code restarts a walk as often as memory changes under it and has no bound of its own, so
a hart that stores for ever can keep a walk from ending.

**What a counterexample run shows** (each has an entry under `findings` with the line it contradicts):

- `command_queue_coalesced_late`: a completion that names two ITAGs, of which one had timed out,
  frees the first tracker, returns at the second, and wakes nobody. The waiting IOFENCE.C waits
  for ever.
- `iotlb_t2gpa`: an ATS request of a T2GPA device that hits the cache is answered with the host page:
  the answer becomes a guest page only in the code that fills the cache.
- `contexts_device_id`: under a one-level directory of 64 entries, device 16385 is served by the entry of
  device 1. `DDI` is an array of bytes and its upper fields have nine bits, so that bit 8 is lost
  before the width check looks at it.

Observed while modelling, without a run. Commands and interrupts:

- a completion that comes after the timeout of its request is counted for the request that reuses the
  ITAG (iommu_ats.c:75), and an IOFENCE.C passes over it, which iommu_command_queue.c:549-550 excludes
  (`command_queue_live` shows that nothing else makes a request complete early);
- `reset_iommu` clears the register file (iommu_reg.c:913) but neither parked commands nor trackers;
- `release_pending_interrupt` clears `msi_pending` after `do_msi` (iommu_interrupt.c:117, 98-99): the
  message of a fault record for that very write is withheld and forgotten. `OthersWithheldArePending`
  therefore excepts the fault queue.

Translation cache:

- an IOTINVAL.VMA for one address of a first-stage superpage leaves the entries of its other pages
  (iommu_command_queue.c:383, 348-350), since an entry maps the smaller of two leaves. `WholeLeaf = FALSE`
  is software that addresses every page it changed;
- the stale flags of `do_iotinval_gvma` empty more than asked for, never less;
- the entry a T2GPA device's ATS request leaves carries the permissions of its first stage, so that a
  later translated request may be refused by them; with `fill_ats_trans_in_ioatc` off the walk too
  answers with the host page (the assignment of iommu_translate.c:388 is inside the fill);
- entries of the host are tagged with the GSCID of a context that does not use it, and are then never
  hit; an ATS answer that comes from a hit grants W by dirty bits it never set.

Contexts:

- the comment of IODIR.INVAL_DDT (iommu_command_queue.c:129-130) makes a device id illegal by
  ddtp.iommu_mode, the code by the largest id of its configuration; `handle_page_request` keeps
  the device id in the same array of bytes (iommu_ats.c:103), so that its width check fails in the same way;
- a device context is checked against its process contexts when they are read. If software changes SXL
  of a device and its context is read anew, a process context that was checked against the old one may
  give the walk a mode that sets no `LEVELS`. `UsableContexts` excludes exactly that.

Page-table walks:

- an ATS answer has W = 0 where the walk has just set D: the answer is made from the entry as it was read
  (iommu_translate.c:482; two_stage:336-339, second_stage:310-313);
- an implicit access to a first-stage table sets D in the second stage together with A even where a
  write would have to wait for SADE (second_stage:314, 275-278);
- iotval2 of a guest page fault of an implicit access holds the base of the table, not the address of the
  entry (two_stage:121-122, 405); `is_implicit_write` stays set after a restart.

Performance monitor:

- the comment of iohpmctr (iommu_hpm.c:19-22) gives bit X of iocountinh to iohpmctrX and bit 0 to
  iohpmcycles; the loop tests bit i for iohpmctr(i+1), while iocountovf does use bit i+1. The model
  follows the code;
- the last of the `num_hpm` counters takes no writes and never counts;
- pmip is not pended again by what is still set in iocountovf, so a handler must clear it before it reads
  them, as the modelled one does.

## Theorems

All proofs are in modules of their own and use only the assumptions on the constants that the
module under proof declares (`ConstantsAssumption`, which TLC evaluates in every run), and where a
theorem says so an assumption about the environment.

`CommandQueueProofs`

| theorem | statement |
|---|---|
| `TypeCorrect` | `Spec => []TypeOK`, which contains that head and tail stay in the queue and counters in their width |
| `ParkedCorrect` | `Spec => []OneParkedCommand` |
| `WaitsHaveCauses` | if completions name one request each, `Spec => []WaitHasCause` |
| `WaitingFenceStaysAtHead` | without a reset in use, `Spec => []WaitingFenceIsAtHead` |
| `HeadOnlyPassesDone` | without a reset in use, `Spec => HeadMovesOverDoneCommands` |
| `BusyBehindFence` | `Spec => []BusyOnlyBehindFence` |
| `TimeoutsAreReal` | `Spec => []TimeoutFlagIsReal` |
| `ErrorsAreHeard` | `Spec => SilentOnlyByLateEnable` |
| `FencesCover` | with final timeouts and without a reset in use, `Spec => FenceGuarantee` |
| `FinalTimeoutsEndWaits` | with final timeouts, `Spec => []WaitHasCause` |
| `EarlyOnlyByLateAnswer` | `Spec => []PrematureOnlyByLateAnswer` |
| `WaitsOnlyShrink` | `Spec => WaitsShrink` |

The parked-command invariants are not inductive: a resumed IOFENCE.C ends with an error bit, and what
keeps anything from being fetched behind it is that no error bit is set while it waits. `ParkedInv`
adds that. `HeadInv` adds the bounds of head and tail of a queue that is on; without them the
command at the head of a resized queue could be any. `WaitsHaveCauses` is the reason
why the resuming functions may be called only when trackers are freed: that happens in three
places, and each is shown to leave no wait without its cause. Its assumption is sharp:
`command_queue_coalesced_late` is what happens without it and without final timeouts, and
`FinalTimeoutsEndWaits` says that either of the two is enough.

`FencesCover` is the promise of IOFENCE.C. A timeout is final (`MaxLate = 0`) if the function that let it
pass answers nothing later. Its invariant `FenceInv` adds `Owed`: a completion is owed exactly for a
busy tracker, and what the tracker counted and what is left add up to what the function sends,
modulo the wrap. With it no completion can be unexpected, an answer frees exactly its own tracker,
and a fence that finds no tracker busy finds nothing owed. The remaining assumption is about
`reset_iommu`, which leaves a waiting fence behind. `EarlyOnlyByLateAnswer` has no assumption: where
late answers do come, `StoryNow` says of every completion still owed that its tracker is busy with its
request, or that a request of a function the tracker cannot tell from it expired before.

`WaitsOnlyShrink` is the safety half of `FenceResolves` and `StallResolves`, with no assumption at all. While an
IOFENCE.C waits the set of busy trackers never grows, and an expiry of the timer makes it smaller or ends
the wait; a stalled ATS.INVAL is sent by the next expiry. With the fairness of the timer, which only the
runs use, that is the argument why a wait ends: there are finitely many trackers.

`CommandQueueOrderProofs`

| theorem | statement |
|---|---|
| `FenceOrderKept` | with final timeouts and without a reset in use, `Spec => KeepsFenceOrder`: the command queue implements `FenceOrder` |

The refinement mapping sees the ring between head and tail as a sequence (`Todo`) and the answers owed as one
number per device (`Outstanding`); a stalled ATS.INVAL counts before it is sent. `Between` is the ring as a
sequence, with the lemmas that a head that moves takes its first element (`HeadMovesOn`) and a tail that moves
adds a last one (`TailMovesOn`), both over the wrap; `Due` is the number of answers owed by a device, with the
lemmas that a request that is sent adds one (`SendDue`) and that answers and expiries only take away
(`FewerDue`). `OrderInv` adds to `FenceInv` that the parked fence is an IOFENCE.C. Each action of the queue is
then shown to be one step of `FenceOrder` or a stutter: a resume may settle requests, end the fence, turn the
queue off and send the stalled request at once, and is still a single one (`FenceEndsOnce`,
`ResumeSendsStalled`, `ResumeSettles`). The assumptions are those of `FencesCover`.

`EventQueuesProofs`

| theorem | statement |
|---|---|
| `TypeCorrect`, `WithheldStaysPending` | the two invariants of `event_queues_msi` |
| `OneErrorAtATime` | `Spec => []OneError`: a full queue and a failed store are never reported together |
| `NewsIsPended` | `Spec => NewsPends` |
| `SilenceOnlyByLateEnable` | `Spec => SilentOnlyByLateEnable` |
| `EveryRequestAnsweredOnce` | `Spec => AnsweredOnce` |

The invariant is `Sound(Now) /\ Environment`. `Sound` is a predicate on the state of a call and is shown
to be kept by each function, in the order of their calls, so that the proof of an action is the
chain of its functions. `InvHolds` is this; the others follow. For the action properties each
function is in addition shown to pend what it stores, and the four acknowledgements of one
ipsr write are followed one by one. `AnsweredOnce` needs that a stored record moves the tail (no queue
has one entry) and that the interrupt it raises, with a fault record in its wake, leaves the
page-request queue as it is.

`EventQueuesLogProofs`

| theorem | statement |
|---|---|
| `FaultLogKept`, `PageLogKept` | `Spec => KeepsFaultLog` and `Spec => KeepsPageLog`: both queues implement `EventLog` |

`LogInv` adds to the invariant that every cell between head and tail holds a record (`Filled`). `Ring` and
`PutGrows` are the arithmetic of a queue that wraps; `Grows` is what a function may do to a log (extend
it at its end, if it is on and not broken, or break it), which composes, so that a call that stores
several fault records is one `Report`. `HeadLog` and `CsrLog` are the writes of head and control
register as `Take`, `Repair`, `TurnOn` or `TurnOff`.

`IotlbProofs`

| theorem | statement |
|---|---|
| `TypeCorrect` | `Spec => []TypeOK`: dirty bits leave all pages of a superpage with one leaf |
| `CacheIsCoherent` | if software addresses every page it changed, `Spec => []Coherent` |
| `AnswersInForce`, `RefusalsInForce` | under the same assumption, `Spec => []AnswersAreInForce` and `Spec => []RefusalsAreInForce` |

`Coherent` is not inductive. A walk fills an entry from the tables, so the tables must be among what
was seen (`CurrentIsSeen`); and IOTINVAL.GVMA selects the entry of a guest page by the page of its
tag, so a translation of a tag without a first stage must map a page to itself (`BareIsIdentity`).
The central lemma is `EntryHolds`: two leaves agree on every page of the smaller one. The theorem
covers what the run leaves out: any number of entries, contexts with any GSCID, Bare stages with
any range, any sets of tables.

`ContextsProofs`

| theorem | statement |
|---|---|
| `TypeCorrect` | `Spec => []TypeOK` |
| `CachesAreCoherent` | `Spec => []Coherent` |
| `ContextsAreUsable` | `Spec => []UsableContexts` |
| `CachesInvisible` | `Spec => []CachesAreInvisible` |
| `FaultsAreAnswered` | `Spec => []EveryFaultIsAnswered` |
| `WideIdsRefused` | if `KeepsItsBits(d)` for every device, `Spec => []WideIdsAreRefused` |

The invariant is `IInv`: what memory holds is in the histories, what is cached is in the histories, and
what is in the histories passed its checks, a process context those of some device context of the same
device that is still there. The last part is why IODIR.INVAL_DDT must drop process contexts too. For
`CachesInvisible` a synchronized device has one context in the history, so that a hit returns what the
table holds; for `FaultsAreAnswered` the causes each step can produce are collected. `WideIdsRefused` is
about the width checks on bytes: `KeepsItsBits` says that the upper indices of a device id have bit 8 clear,
the bit an element of `DDI[3]` has no room for. It does not hold without that, as `contexts_device_id` shows.

`PageWalkProofs`

| theorem | statement |
|---|---|
| `TypeCorrect` | `Spec => []TypeOK`: no address outside the tables is read |
| `AnswersMarked` | `Spec => []AnswersAreMarked` |
| `WritesMark` | `Spec => WritesOnlyMark` |
| `TablesMarked` | `Spec => TablesAreMarked` |
| `WalksDescend` | `Spec => WalkDescends` |

The invariant adds `Known` to the types: at each point of the walk, what of the two leaves it has
passed is marked in memory unless a hart stored there since. It is proved action by action.

`WalksDescend` is the safety half of `WalkEnds`, for tables of any depth, those that map themselves included.
`StepsLeft` counts what is left of the pass through the second stage, and a whole pass (at most
`Levels2 + 5` steps) for every level of the first stage that is left; every step makes it smaller, because a
pointer at the last level is refused. `AsRead` is the invariant that the one exception needs: where the walk is
about to mark an entry that no hart stored to since, memory still holds it, so the comparison succeeds.

`HpmProofs`

| theorem | statement |
|---|---|
| `TypeCorrect` | `Spec => []TypeOK` |
| `OverflowsNoticed` | `Spec => []OverflowIsNoticed` |
| `CountsExact` | `Spec => []CountsAreExact` |

`OverflowIsNoticed` is not inductive: an overflow while pmip is set raises nothing and relies on the
interrupt under way. `Signalled` says that there is one: a set pmip has the wire, a message on its way
or withheld, or a handler that has not cleared it yet.

For `CountsExact` the code and the reference agree on the filters: the code compares the bits that
`~((x + 1) ^ x)` keeps, the reference asks whether two ids lie in one block. The lemmas in the middle of the
module show that they are the same for every width: powers of two are shown to exist and to double
(`Pow2Facts`), and two numbers agree on the bits above the lowest zero of x exactly if their quotients by
the power of two above it are equal. They are proved by an induction over sets of numbers, since the induction
theorems of the library are out of reach. `CountInv` adds what the driver's load in two halves has done so
far (`LoadGoesOn`), and that selectors name identifiers of the width of the filters.

Only model-checked: liveness (`FenceResolves`, `StallResolves`, `DisableCompletes`, `WalkEnds`). With fairness and
ENABLED it is beyond the proof system; `WaitsOnlyShrink` and `WalksDescend` prove the decreasing measures
that it rests on. Every other property of a passing run is the statement of a theorem.

## Not modelled

Of the translation pipeline: the arithmetic that turns a NAPOT or superpage result into the size of an
ATS answer, and the events the pipeline counts (the events are the arguments of `count_events` in `Hpm`).
Of the register file: fctl (a constant of each module), iommu_qosid, the address and data of
MSIs, the TR_REQ debug interface (it calls `iommu_translate_iova`, whose `debug` walk is in `PageWalk`),
the table of offsets and widths of `is_access_valid`. Of MSI translation: the contents of an MRIF
entry, and `handle_virtual_interrupt_file_overlap` of the test harness. Endianness is one check of the
contexts. `libtables`, the test application and the test benches are the environment: what they do to
registers and memory is part of the specifications. Build files, scripts, containers and documents
have no behaviour.

The modules are not composed into one. The interfaces are narrow: a command queue treats IOTINVAL and
IODIR as done when it has fetched them, which is what the code does, since the caches are emptied
within the call; `Contexts` ends where `Iotlb` and `PageWalk` begin, at a device and a process context; and
`EventQueues` takes the events of all others as its own actions. A composition would multiply the state
of its parts without an order of events that one of them excludes.

## Plan

Done: `CommandQueue`, `EventQueues`, `Iotlb` with their abstract specifications, `Contexts`, `PageWalk`,
`Hpm`, and the proofs above, both refinements included. What is left, in order of importance:

1. A module of ATS responses: the size of the range answered for superpages and NAPOT pages, and
   `match_address_range` in its bit form against its set form.
2. A composition of `Contexts` with `Iotlb`: a guest that is moved to another GSCID or PSCID by a change of
   its device context, and the order of IODIR and IOTINVAL that this needs.
