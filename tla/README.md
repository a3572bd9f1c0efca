# A verification development for EMP

EMP (Elastic Memory Platform) gives virtual machines and ordinary processes
more memory than the host has DRAM. A kernel module (`src/module_gpl`) keeps a
bounded *local cache* of pages in DRAM and the rest on *donors*: remote DRAM
over RDMA, NVMe block devices, or memory devices. This directory holds TLA+
models of its core, TLC runs on small instances, and TLAPS proofs.

    tlc -config BlockFaults.cfg MCBlockLifecycle      # one run
    tlc -config ViewsFork.cfg MCVmdescViews
    tlc -config RemoteShared.cfg MCRemotePages
    tlc -config FreePages.cfg MCFreePages
    tlc -config BlockLocks.cfg MCBlockLocks
    tlapm BlockLifecycleProofs.tla                    # proofs (3-4 minutes)
    tlapm BlockListsProofs.tla                        # proofs (2-3 minutes)
    tlapm BlockWritesProofs.tla                       # proofs (2-3 minutes)
    tlapm RemotePagesProofs.tla                       # proofs (about 7 minutes)
    tlapm FreePagesProofs.tla                         # proofs (1-2 minutes)
    tlapm BlockLocksProofs.tla                        # proofs (about 10 minutes)
    tlapm VmdescViewsLemmas.tla                       # proofs (5-8 minutes)
    tlapm VmdescViewsProofs.tla                       # proofs (8-12 minutes)

`PROJECT.json` lists the components, the runs, the source lines each definition
stands for, the known divergences ("findings"), the hazards and the theorems.

## 1. Inventory of the system

Line numbers are of `src/module_gpl` unless another directory is given.

| part | state it keeps | operations | what makes it correct |
|---|---|---|---|
| **gpa descriptors** (`gpa.c`, `gpa.h`, `block.h`) | per subblock: flags, state (`GPA_INIT`, `ACTIVE`, `INACTIVE`, `WB`, hidden `TRANS_*`), `local_page`, `remote_page`; the first one of a block is its *head* and carries the block lock | creation on first touch, lock/trylock with re-validation of the head, `unmap_gpas`, `set_gpa_remote`, closing | everything about a block happens under its head's lock; a block is on the list its state names |
| **local pages** (`local_page.c`) | the page, its list marks, the pmds that map it, one pointer `w` to a work request | alloc/free, insert and pop pmds | `w` has one meaning at a time; a page that is freed is neither mapped nor under DMA |
| **reclaim** (`reclaim.c`, `lru.h`) | four lists with lengths: proactive (with the pin list inside), active, inactive, writeback; per-cpu MRU/LRU buffers and a global part | demote, unmap, eager writeback, evict, promote, pin, unpin under pressure | no change of a length is forgotten; pinned blocks stay; dirty data is never dropped |
| **fetch and writeback** (`donor_mem_rw.c`) | work requests, the writeback lists, `inflight_writeback_page_len` | post, poll, reap, cancel | no request is read as another kind; no page is released under a request |
| **faults** (`hva.c`, `page_mgmt.c`) | page tables (host ptes, KVM sptes) | local fault by state, remote fault, fetch, map | a mapped page is complete; every fault ends |
| **hints** (`emp_madvise.c`) | `GPA_PINNED`, `GPA_PROMOTE`, pin counters | pin, unpin, prefetch, populate, dontneed | counters follow flags; hints race with faults and reclaim without harm |
| **free pages** (`alloc.c`) | per-cpu and global free lists, `alloc_pages_len`, `free_pages_reclaim` | pop, push, pull from other cpus, wait, resize | no page lost or duplicated; an allocation ends |
| **remote pages** (`remote_page.c`) | per memory region: bitmap, `alloc_len`, `free_start`, `alloc_next` | allocate by policy (sequential, same region, different regions), free, release | no slot handed out twice; `alloc_len` counts the bits |
| **views of a vm descriptor** (`gpa.c` 2066-2424, `vm.c`) | per backing range (`vmdesc`): the directory of descriptor groups, a reference count, a sorted list of the intervals that vmrs view, `is_closing` | mmap, vma split, fork (shared: one vmdesc for several processes; private: a copied one), close | what one close releases nobody else views; no mapping record outlives its vmr; the last close leaves nothing |
| **copy on write** (`cow.c`) | shared remote pages with counts, duplicated descriptors | CoW faults from two entry points, fork | a writer never changes what another process sees |
| **elastic blocks** (`els_block.c`) | block order, stretched flag | stretch, reduce | a changed geometry is seen by all lockers |
| **donor management** (`donor_mgmt.c`) | the table of memory regions | create, check, disconnect | a region outlives its requests |
| **transports** (`rdma.c`, `bdev.c`, `memdev.c`, `udma.c`) | connections, queues | post and poll reads and writes | a request completes or fails once |
| **emm** (`vm.c`, `ioctl.c`, `iov.c`, `glue.c`) | one `emp_mm` per address space, its vmrs | ioctls, vma callbacks, lifetime | no vmr is used after it is freed |
| **debug and procfs** | statistics | print | |
| `src/module_kvm` | KVM of five kernels with hooks | vendored | |
| `src/mimalloc-emp` | an allocator; wrappers in `src/emp` | vendored | |
| `src/libemp`, `src/vmd` | user library, donor daemon | configuration and I/O | |

**How they interact.** A page fault locks the head of its block, and according
to the state waits for a request, takes the block off the inactive or writeback
list, or allocates a page and posts a fetch; it then inserts the block into the
proactive list and, *still holding its lock*, runs one round of reclaim over
other blocks, which it may only trylock. Reclaim takes victims off a list under
the list lock, and unmaps, writes or releases them after the list lock is gone.
The donors complete requests at any time; nobody is told, completions are
polled by whoever needs the block. A hint runs in its own thread and changes
flags that the scans look at later. Above the blocks, the mmap lock of a process
serializes its splits, forks and closes; the vmdesc of a shared mapping belongs to
several processes, whose callbacks meet only in `view_lock`, `is_closing`, the
reference counts and the block locks.

**What is hard about it.** (1) One pointer `w` for fetches, writebacks and eager
writebacks, interpreted by flags. (2) Dirtiness lives in three places: a pte,
`GPA_DIRTY_MASK`, and the question whether the remote page is the latest; an eager
writeback consumes it early. (3) A lost position: states, marks and five counters
change under three kinds of locks. (4) Errors in the middle of a cluster of
victims. (5) A cache so small or so pinned that nobody finds a victim. (6) Three
granularities, a page for a vma, a subblock for a slot, a group for an allocation,
and a close that has to be right in all of them while others fork and split.
Per hazard and line: `hazards` in `PROJECT.json`.

## 2. Modules

| module | models | checked with | proved in |
|---|---|---|---|
| `BlockLifecycle` | faults, hints, reclaim, writeback and the device on shared blocks | `MCBlockLifecycle` | `BlockLifecycleProofs`, `BlockListsProofs`, `BlockWritesProofs` |
| `VmdescViews` | vmdescs, their views and directories under mmap, split, fork, fault and close | `MCVmdescViews` | `VmdescViewsLemmas`, `VmdescViewsProofs` |
| `RemotePages` | the slots of the donors: allocation policies, release, sharing after a fork | `MCRemotePages` | `RemotePagesProofs` |
| `FreePages` | the pages of the cache between two uses, and the resizing of the cache | `MCFreePages` | `FreePagesProofs` |
| `BlockOwners` | what a block lock promises, abstractly | | |
| `BlockLocks` | the lock loops against creation, stretching, reduction and replacement of blocks; implements `BlockOwners` | `MCBlockLocks` | `BlockLocksProofs` |

The modules overlap on purpose where components meet. `BlockLifecycle` has one pool
of pages and asks of a remote page only what it is worth; `FreePages` and
`RemotePages` open these two up and see a block only as a number of pages or as a
row of slots. `BlockLifecycle` takes the lock of a block as one step on a fixed
block; `BlockLocks` shows that this is what the lock loops amount to
(`ImplementsOwners`). `VmdescViews` decides which descriptors exist and takes
`new_gpadesc` as one step; `BlockLocks` has its race.

What would come next: the abstract specification of the cache (a read returns the
last write) for `BlockLifecycle` to implement; blocks of several subblocks with
their partial fetches; the teardown of donors; proofs of the write faults of `BlockLocks`.

## 3. BlockLifecycle

### State

* `blk[b]` is a block: lock holder, state, list, flags, `w` with the completion
  of its request, whether it has a local page, whether the page is mapped and
  with a dirty pte, and what its remote page is worth: `none`, `stale` (not the
  latest content) or `fresh`. `fresh`/`stale` is the ghost by which lost updates
  are noticed; the code never reads it (`AfterNeedCheck` and
  `check_need_writeback` ask only whether it is `none`).
* `th[t]` is a kernel thread: the stage it is at, the entry point it serves, the
  block it holds for it, and its victims.
* `len` holds the counters that steer reclaim. Most of them change after the list
  lock is gone, many after the blocks are unlocked: `owed` is the set of
  `atomic_add`s and `atomic_sub`s that threads have still to make. In between everybody
  else decides by a length that is behind.
* `th[t].up` are the blocks a scan took off its list only to put them on a higher
  one: pinned blocks on their way to the pin list, promoted ones on their way to the
  proactive list. They are locked, on no list, and still in the state they had.
* `free` counts the free pages, `panic` is the reason the kernel stopped (`BUG`, or a
  request read as another kind, after which the C program has no defined behaviour).

### Actions

A stage is what happens between two points where other threads can interfere:
between taking the block's lock and giving it up only the blocks a thread holds
are its own, so the model splits a call where it waits, where it takes or
releases list locks, between an insertion, the unlocking of the blocks and each
change of a length, and between victims. A thread makes the updates it owes, in the
order of the code, and moves the blocks of `up`, before it goes on (`At`).

| actions | code |
|---|---|
| `ReapAhead`, `FaultLock` | `emp_page_fault_hva` up to the lock |
| `FaultActive`, `FaultInactive`, `FaultWriteback`, `FaultInvalid` | `handle_local_fault` and its handlers |
| `FaultRemote`, `AllocReclaim`, `ReapForPage`, `Fetch` | `handle_remote_fault`, `_alloc_pages`, `fetch_block` |
| `MapBlock`, `Finish`, `Fail` | the installation of ptes, the end of a hint, the error exits |
| `AdjustLength` | every `atomic_add` and `atomic_sub` of a length after its list lock |
| `MoveToPin`, `Promote` | `__move_to_pin_list`, `__promote_gpas`, the end of `select_victims_pin_list` |
| `UpdateProactive`, `UnpinVictims`, `SkipUnpin`, `Demote`, `Demoted`, `SkipProactive` | first third of `_update_lru_lists` |
| `UpdateActive`, `UnmapVictims`, `WriteEagerly`, `SkipActive` | second third, with eager writebacks |
| `UpdateInactive`, `EvictClean`, `Release`, `EvictPost`, `EvictFail`, `SkipInactive` | last third, and the forced round of `reclaim_emp_pages` |
| `Reap`, `ReapDone`, `Release` | `__wait_writeback_async` |
| `Pin`, `Unpin`, `Prefetch`, `Populate`, `DontNeed` | `emp_madvise.c` |
| `Write`, `CompleteIO` | a program stores through a mapping; a donor completes (external) |

The operators on one block (`clear_block_w`, `unmap_gpas`, `set_gpa_remote`, ...)
keep the names of the functions they stand for. The order of victims within a
scan, the per-cpu parts of a list and the LRU order are left open: a scan takes
any nonempty set of eligible unlocked blocks, at most `Cluster` victims.

`evict_block_errors` has both ways to fail. If `alloc_remote_page` finds no slot, the block
has none. If the post fails, the slot goes to `free_remote_page`, which with
`remote_reuse` keeps it, also when it is new and nothing was ever written to it.

`SoftPressure` subtracts without wrapping. The code computes in `size_t`, but
stores the result in an `int`, so that a "negative" length comes out as no
pressure there too.

### What is left out

Virtual machines (sptes, TLB flush times, stale blocks), blocks of more than one
subblock and with them CSF/CPF prefetching, partial maps and chained requests;
elastic blocks; CoW; the batching of hints (one block per call here; `BlockLocks`
has it); resizing of the cache (`FreePages`); the debug configuration. The state
`GPA_FETCHING` exists only inside one hold of the block's lock, between
`fetch_block` and the insertion into the lists, and `Fetch` is one step over it; the
flags for the features left out are not in `Flags`.

### Properties

* `NoLostUpdate`: a remote block that was ever used has its latest content on
  its donor.
* `NoTornPage`: a mapped page is not under DMA and is found by the unmapping.
* `ListAgreesWithState`: whoever locks a block finds it on the list its state and its
  mark speak of, and never in a transitional ("hidden", `gpa.h` 134) state.
* `LengthsExact`: a length may lag behind its list, but only by what some thread is about
  to add or to subtract (`Settled`): no update is forgotten or made twice by scans, faults
  and hints that move the same blocks under different locks. Every page is free or in a
  block.
* `PageReleasedUnused`, `PinnedStays`: what a step may never do.
* `RequestOfItsKind`: `w` means what flags and state say.
* `NumPinExact`: `num_pin_blocks` counts the pinned blocks, again but for the updates that
  are about to be made.
* `CallsEnd`: once no new call is made, every thread leaves the kernel.

## 4. VmdescViews

### State

* `vmr[v]` is a `struct emp_vmr`: its interval in pages of the backing range (`lo`,
  `hi`), its vmdesc, the pending split (`link`), and how far its close is, with the
  locals of `close_and_free_gpas` (`cnt`, `unc`, `todo`).
* `mm[m]` is what holds the mmap lock of a process: nothing (`idle`), a split, a
  fork as parent or as child, a close.
* `desc[d]` is a `struct emp_vmdesc`: the view list in list order, the reference
  count, the closer that has `is_closing`.
* `dir`, `used`, `ref` are `gpa_dir`, the allocated groups and `gpa->refcnt`; `rec` the
  mapping records (`local_page->pmds`) per subblock; `cut` where splits have cut a
  group into blocks of their own, that is the `max_block_order` tiling.

A view list is a sequence of `[start, end, count]`. That the first entry is embedded
in the vmdesc and moves when a smaller one comes is the representation of the
sequence and is not modelled. `view_add`, `view_del`, `view_split`, `find_uncovered`
and `is_covered` are functions on such sequences.

### Actions

| actions | code |
|---|---|
| `Mmap` | `gpas_open` for the first vmr of a range |
| `Fault` | `new_gpadesc` for a whole group, `emp_lp_insert_pmd` for what the vma has of the block |
| `SplitFails`, `SplitOpen`, `SplitViews` | `emp_vma_split`, then `__emp_vma_split`: the reference and the records, then the views |
| `ForkBegin`, `ForkEnd` | the kernel's `dup_mmap`, which holds both mmap locks (external) |
| `ForkSharedRef`, `ForkSharedView` | the two updates of a shared fork |
| `ForkSibling`, `ForkPrivate`, `ForkFails` | the private branches, with the copy of the directory; `wipe` is the fork policy |
| `CloseBegin` to `CloseDropRef` | `emp_vma_close`, the turn at `is_closing`, the view, the reference with the verdict of `find_uncovered` |
| `CloseQuery`, `ClosePut` | one group of the walk: the query per block, `__put_max_block` under the group's locks |
| `CloseClear`, `CloseWake`, `CloseLast` | the flag, the queue; the end of the vmdesc |

### What is left out

What the pages hold and everything that moves them: reclaim removes records too,
CoW replaces a slot. A record here stays until a split moves it or a close strips
it, which is the harder case for the close. A cut group is tiled with the largest
aligned blocks; for the groups of two subblocks of the runs that is the same as the
runs between its cuts. Two creators of one group (they are in `BlockLocks`), the
transfer of the records of a split block by block, the mmu notifier that may close
a vmr first (`gpas_closing`) and virtual machines are not modelled.

### Properties

* `ViewsMatchVmrs`: outside a split the list is sorted and counts exactly the vmrs
  that view, the reference count those that hold on (`debug_check_vmdesc_views`).
* `ViewersCovered`: also in the middle of a split or fork the interval of a vmr is
  inside one entry.
* `ViewedSlotsStay`: no close takes a slot away that another vmr views.
* `RecordsOfLiveVmrs`: no record points to a freed vmr or is in a freed group.
* `RefcntIsDirs`: a slot's reference count is the number of directories it is in.
* `LastCloseEmpties`: the last close leaves neither a slot nor a view.
* `UncoveredExact`: the one-pass trimming is right for every list that occurs and
  every range.
* `ClosesEnd`: every close ends.

## 5. RemotePages

### State

* `mr[m]` is a `struct memreg`: the bitmap (`bits`, a set bit is free), `alloc_len` in
  slots, `free_start`, `alloc_next`, and whether its spin lock is held; `last_alloc` and
  `num_alloc` steer at which region an allocation begins.
* `rp[b][i]` is `gpa->remote_page` of a subblock: free, a slot, or a pointer to one of
  the `cow_remote_page` records `cow`.
* `st[b]` and `reading[b]` reduce the life of a block to what decides about its remote
  pages: local, in writeback, only at the donor, with fetches in flight; `untouched` is
  a descriptor whose first fault got no page.
* `th[t]` is a thread with the blocks it has locked and the locals of the search.

### Actions

| actions | code |
|---|---|
| `Evict`, `LockMr`, `NextMr` | `alloc_remote_page`, `__lock_next_avail_mr` |
| `FillSubblock`, `RegionFull`, `FinishAlloc` | the loops of `remote_page_policy_sequential`, `_same_mr`, `_diff_mr` |
| `UndoAlloc`, `UndoEnd` | `__free_remote_page_block` after a failure |
| `PostWriteback`, `PostFails`, `WritebackDone`, `Discard` | `evict_block`, its error exit, the completion, an eviction without a write |
| `WritebackFault`, `DropSubblock`, `DropEnd` | a fault that takes a block back from its writeback |
| `Fetch`, `FetchDone` | `fetch_block`, `__clear_fetching_work_request` with `put_cow_remote_page` |
| `ForkCopy`, `GetCow`, `DupEnd`, `GetCowFails`, `PutCowBack`, `DupUndoEnd` | `dup_cow_gpadesc_remote`, `get_cow_remote_page_block` and its undo |
| `Handoff` | `dup_cow_gpadesc_handoff` |
| `Close`, `DestroySubblock`, `DestroyEnd` | `free_gpa_dir_region`, `remote_page_release` |

A step is a stretch under one region lock, or one subblock of a loop that takes the
lock anew for each. `alloc_len` is read without the lock, as in the code.

### What is left out

Where a subblock is larger than a DMA transfer; donors that connect or leave while
pages are allocated, and the switch to `same_mr` that a donor with chained operations
brings (`adjust_remote_page_policy`; every policy is an initial configuration);
`els_update_remote_page`, which frees the remote pages of a stretched block that lie on
different donors.

### Properties

* `NoSlotTwice`, `BitmapExact`: a slot has at most one holder, and is free in the bitmap
  exactly when it has none.
* `RefcntExact`: a shared record counts the subblocks that point at it.
* `RemoteHasCopy`, `RemoteCopyStays`: what lives only at a donor has a slot, and keeps it,
  whatever the parties that share it do.
* `ResidentOwnsAlone`: a block that will be written back shares no slot. The undo of an
  allocation relies on it: it releases without asking.
* `AllocLenKept`: `alloc_len` is what is taken and promised; with `same_mr` and reuse only
  at least that, because a block that already has some slots pays for all again
  (`remote_page.c` 198): a region can run full on paper.
* `RoomIsFound`: the `BUG_ON` of the policies is not reached.
* `AllocEnds`: every search ends, with a page or a failure.

## 6. FreePages

### State

`local` (per cpu), `glob`, `alloc`, `cache` and `debt` are the free lists,
`alloc_pages_len`, `local_cache_pages` and `free_pages_reclaim`, in subblocks; `mutex` is
`alloc_block_lock` of each cpu; `resident` counts the blocks in the cache that no fault
holds, and `th[t]` says what a thread has in hand: pages collected for its block, pages
between two lists, pages still to be freed.

### Actions

| actions | code |
|---|---|
| `StartFetch`, `LockCpu`, `StartCopy`, `Populate` | `alloc_block`; `dup_block_local_page`, which takes no mutex |
| `PopLocal`, `LocalEmpty`, `CheckHost`, `HostAlloc`, `HostFails` | `pop_free_page_list_local`, `__alloc_page_from_host` |
| `PullGlobal`, `PullOther`, `NoOther`, `Splice` | `pop_free_page_list_global` |
| `Reclaim`, `ReclaimFails`, `Wake` | the rest of `_alloc_pages`; an eviction may fail (`-ENXIO`) |
| `Killed`, `GiveUp` | a fatal signal while waiting for pages or for `alloc_block_lock`, and the pages collected so far going back |
| `FreeBlock`, `CheckDebt`, `Pay`, `Restore`, `FreeToHost` | `push_free_page_list` up to the debt |
| `PutLocal`, `PutNoCpu`, `ToGlobal`, `BackToLocal` | its lists, with the cut and the trylock |
| `Resize`, `AddDebt` | `adjust_local_cache_size` |

A step ends where a lock is given up or a shared counter was read, so the check of
`alloc_pages_len` and the allocation are two, and a payment is up to three.

### What is left out

The order of pages; `alloc_exit` and `flush_local_free_pages`; the writeback between
the choice of a victim and its release is inside `Reclaim`.

### Properties

* `PagesConserved`: `alloc_pages_len` counts the pages, also those between two lists.
* `AllocWithinMax`: the cache stays within `LOCAL_CACHE_MAX` but for what a shrink has
  not been paid yet and one page for each other thread that passed the check together.
  That excess is real: the check and the count are apart in the code too.
* `DebtNotOverpaid`: the debt is negative only for those about to restore their page.
* `SomeBlockCompletes`: as long as threads collect, some block gets complete; they do not
  all wait with half a block. `alloc_block_lock` is what this rests on, and only where
  more threads of one cpu collect than the headroom has pages.

## 7. BlockLocks and BlockOwners

### State

`dir` is the `gpa_dir` of each view, `order` the block order of each descriptor,
`lock` the lock word of each descriptor, `fresh` the groups not in use. One group of
descriptors covers all indices; with `MaxOrder = 2` it has four. `th[t]` holds the
locals: the descriptor found, the head derived, the buddy, the heads it has come to own.
The constant `Head[o][s]` is the rounding of `_emp_get_block_head`, stated by what is
assumed of it (`LocksAssumption`): blocks of one order are aligned and blocks of two
orders nest.

### Actions

| actions | code |
|---|---|
| `GetDesc`, `NewDesc`, `Publish`, `LateAgain`, `Fill`, `Await`, `Awaited`, `Got` | `get_gpadesc`, `new_gpadesc` with its two parties |
| `Derive`, `Spin`, `CheckDir`, `CheckHead`, `GiveUp` | `_emp_lock_block` |
| `Evict`, `Derive`, `Spin`, `TryFails`, `CheckHead` | `_emp_trylock_local_page` |
| `Unlock`, `Return` | `_emp_unlock_block`, the end of a call |
| `PickBuddy` to `Stretched`, `DontStretch` | `els_stretch_rep`, one level |
| `Reduce`, `TryAll`, `TryAllFails`, `Undo`, `TryHalf`, `AllLocked`, `Shrink`, `DontReduce` | `reduce_and_writeback`, `els_tryreduce_complete`, `els_reduce` |
| `Hint`, `KeepBlock`, `PassBlock`, `Flush` | `emp_blk_prefetch` with the blocks it keeps locked |
| `WriteFault`, `NoCow`, `WholeGroup`, `Copy`, `CopyFails`, `ChangeDir`, `UnlockNew`, `UnlockHead`, `Replaced` | `__handle_emp_cow_fault` |
| `Regroup`, `NextBlock`, `CowAgain`, `UnlockOld`, `StrideOld`, `UnlockRest`, `StrideRest` | `__handle_emp_cow_fault_reduced` |
| `UnlockDemand` | the end of the fault |

Each access to a lock word, an order or a directory entry that another thread may see is
a step of its own. The unlocking loops of `cow.c` read the order of a block after they
gave up its lock (`for (...; idx += num_subblock_in_block(old_head), ...)`), and so does the
model (`StrideOld`).

### What is left out

State and flags of blocks: whether a block is stretched, reduced, fetched or passed is a
free choice, which has more behaviours than the code. The blocking locks a vma split takes
inside a group (`vm.c` 732), the order ceilings it leaves behind, more than one group per
directory, and the wake-ups of a spinning thread.

### Properties

* `PublishedWhole`: a directory mixes two groups only while one thread publishes; a
  creator that lost the race finds the winner's descriptor.
* `NothingLeftLocked`: when all calls have returned no lock word is taken.
* `CallsEnd`: once no new call is made every call ends, hints that keep two blocks
  locked included: everybody who waits with a lock in hand goes in ascending order, and
  everybody else tries.
* `ImplementsOwners`: `BlockOwners` says that a thread takes only subblocks nobody has,
  and only it gives them up. The refinement mapping is `owns`: all subblocks of the
  blocks whose heads the thread has validated. That a block is halved while somebody spins
  on an inner lock, or doubled while somebody is between the derivation of the head and
  its lock, must not give a subblock two owners.

## 8. Runs

The Block runs use two threads: every race in question is between two parties (and
the device). Fewer pages than blocks make each fault compete for a page (`BlockHints`
has as many, so that hints meet resident blocks). Threads and blocks are symmetric except
in the run with liveness.

| run | instance | shows |
|---|---|---|
| `BlockFaults` | 3 blocks, 2 pages | faults and reclaim alone: no update, page or list position lost |
| `BlockHints` | 2 blocks, 2 pages, prefetch and dontneed, eager writeback, remote pages freed after a fetch | every request is of the kind its block says |
| `BlockEnds` | 2 blocks, 1 page, pin, fairness | every call ends, soft pressure dead or alive |
| `BlockDonorFails` | 2 blocks, 1 page, pin, unpin and populate, eager writeback, donors that refuse, no `remote_reuse` | no update lost by failures, the pin counter, pinned blocks stay |
| `ViewsFork` | 3 vmrs, 2 processes, shared and private, failing splits, fairness | all of `VmdescViews`'s properties but `UncoveredExact` |
| `ViewsSplits` | 4 vmrs, 1 group at a time | the trimming, with a view inside another one, the query per block, forked halves |
| `RemoteShared` | 1 thread, 3 blocks of 2 subblocks, 2 regions with 3 slots, 2 records, each policy, with and without reuse | slots, bits, records and copies agree |
| `RemoteContended` | 2 threads, 2 blocks, the same regions, fairness | lengths, `RoomIsFound`, every search ends |
| `FreePages` | 2 threads on one or two cpus, blocks of 2 pages, caches of 1, 3 or 5 pages, one resize, kills, failing evictions, a host without memory; 3 threads on one cpu and a cache of 1 page; fairness | pages, limit, debt, progress |
| `BlockLocks` | 2 threads, a group of 4 descriptors, fairness; either faults and evictions on new elastic blocks, or a hint and a writer after a fork | locks, publication, the refinement |
| `BlockCowLockLost` | two writers of one view, 2 descriptors | **violated**: a block stays locked |
| `RemoteUntouchedCow` | a fork after a first fault that got no page | **violated**: a shared record without a slot |

**Bounds of the Block runs.** With `Pages` of 1 or 2 `reclaim_set` gives an inactive list of length
zero (`InactiveMax = Pages \div 8`) and proactive and active lists of one or two:
every insertion puts every list at its limit, which is where the code decides.
`Cluster = 1` makes a second scan necessary where the code takes 8 victims at
once; the proofs do not depend on it. The in-flight counter, which only grows, is what
the writeback list holds and a drift. The drift is cut off at `DriftMax`, one more than
there are blocks: the inactive length counts each block at most once and `hard` is at most
1, so from there on `SoftPressure` is false whatever the lists hold, as it is in the code
once the counter has grown that far. `BlockEnds` has both phases: pressure that still works
while the drift grows, and the steady state in which only the forced rounds of
`reclaim_emp_pages` evict.

**Bounds of the Views runs.** The range has six pages in three subblocks, the first
two of one group, so that a page, a subblock and a group boundary all exist
inside it, and splits happen at pages of each kind. Two processes are enough for
each race: the mmap lock makes a process one actor. Three vmrs give a shared fork
and a split on either side, or the three pieces of one range; the fourth, in
`ViewsSplits`, a view strictly inside another one, and the fork of two private
halves. `MaxGpa` limits the groups that exist at a time (a fault that would need
one more does not happen); ids of vmrs and vmdescs are not reused, ids of groups
are. The runs split private ranges at group boundaries only, because of the cut
group below. They have no failing allocation of a view (`NodeMayFail`), because of
the divergence below.

**Bounds of the other runs.** `RemoteShared` has three slots for up to six subblocks:
regions run full and allocations fail; three blocks let a slot be shared by two
after a third was there, or by all three. One thread at a time makes no difference
to its six properties beyond the interleaving of single subblocks with fetches, which are not
bound to a thread; the races of two allocations are in `RemoteContended`. The region
sizes differ, so that a region search meets full and free ones.
`FreePages` has blocks of two pages: a thread can hold half a block. A list longer than 4
is cut. `ListMax`, `BlockSize` and the number of threads are constants of the proofs.
With three threads on one cpu and a cache of 1, `LOCAL_CACHE_MAX` is 3 (the headroom is one
block): without `alloc_block_lock` each thread may hold one page for ever
(`LockCpu_Mutant`). The other configurations have two threads (`threads`), where this cannot
happen, and what can fail. Private copies only run with room for two of them and the blocks
they are copied from; with less `SomeBlockCompletes` is false, see below.
`BlockLocks` with four descriptors has all three orders, a buddy on either side, and a
reduction in one or two steps; two groups are one in use and one to replace
or to lose a race with. Calls touch index 0 or 3, the head of everything and a
descriptor that is a head only when alone. Two writers of one view are only in
`BlockCowLockLost`, where nothing holds.

**Fairness.** `BlockEnds` assumes that a thread that can continue does
(`WF(Work(t))`: it runs in the kernel, and every wait is a polling loop) and that
the device completes what was posted. It assumes nothing of locks: a scan that
finds every block locked just finds no victim, and `AllocReclaim` tries again, as
`wait_pages_available` does after a jiffy. `CallsEnd` is about a system in which
calls end to be made; under an endless stream of them one fault may starve.

`ViewsFork` assumes that a thread goes on in its own system call: a closer that is
not asleep (`WF(Close(v))`), and a split or fork in progress (`WF(Locked(m))`). It
assumes nothing of who wins `is_closing`. `ClosesEnd` holds in the instance because
a vmdesc has finitely many closers, not because the queue is fair: with new vmrs
forked into a shared vmdesc for ever, a waiter could lose the flag each time.

`RemoteContended` assumes strong fairness of each thread, because a step may wait for the
queued spin lock of a region, which serves its waiters in order. `FreePages` and
`BlockLocks` need weak fairness only: a wait for pages ends after a jiffy, a spinning
thread yields and looks again. `SomeBlockCompletes` is about what happens once nobody is
killed any more and nothing fails: where each fault is killed in turn, no block gets
complete, and that is not what the lock is there to prevent. `CallsEnd` of `BlockLocks`, like that of
`BlockLifecycle`, is about a system in which calls end to be made.

**Two findings** are kept as runs that are expected to fail, each with the line it
contradicts:

* `BlockCowLockLost`: of two write faults on reduced blocks of one view, the second unlocks a
  head it does not hold and keeps one it does (`cow.c` 1491);
* `RemoteUntouchedCow`: a fork between the creation of a block and its first content makes a
  shared record that stands for no slot (`cow.c` 277).

**Further divergences**, met while modelling and not kept as runs:

* a block pinned during its writeback loses its page all the same. `emp_madvise.c` 370
  says "If head is on writeback list, set promote mask first to prevent removing the local
  page"; `__wait_writeback_async` (`donor_mem_rw.c` 504-518) calls
  `__clear_writeback_block` first, which frees the page and clears `GPA_PROMOTE_MASK`, and
  looks at the mask only then;
* a pinned inactive block with an eager writeback behind it is moved to the pin list
  with the eager request in `w` and marked as prefetched (`reclaim.c` 1143); the next
  reader takes it for a fetch, against the comment at `reclaim.c` 990. The sibling path
  for promoted blocks (1166) drains it;
* `inflight_writeback_page_len` is the length of the writeback list for its readers
  (`reclaim.c` 126, `procfs.c` 1254), but `__wait_writeback_async` (`donor_mem_rw.c` 463)
  never subtracts what it reaps. It only grows, and soft pressure dies away;
* a block whose first write could not be posted keeps, with `remote_reuse`, the slot it was
  given (`free_remote_page` at `reclaim.c` 1303 does nothing, `remote_page.c` 45-49): a slot
  that was never written. The block is clean, so its next eviction takes it for written,
  against `reclaim.c` 1375 ("no need to writeback any gpas because dbit is clean / so we know
  that the entire gpas are not updated"), and drops the only copy. `BlockDonorFails.cfg` with
  `RemoteReuse = TRUE` violates `NoLostUpdate`;
* victims that a failed eviction unlocks keep `GPA_TRANS_IL` (`reclaim.c` 1637) and are on no
  list, against `gpa.h` 134 ("hidden state"); the next fault on one is `BUG()` "invalid head
  state" (`page_mgmt.c` 312). `BlockDonorFails.cfg` violates `ListAgreesWithState`;
* `clear_in_flight_fetching_block` (`donor_mem_rw.c` 688-727) frees the request of a
  block that is already listed and goes on with `w` pointing at it (712), against `reclaim.c`
  997, "nothing in flight is overwritten and no reader finds a pointer of another kind"; the
  model has the value `freed` for that. `BlockHints.cfg` with `DonorMayFail = TRUE` and
  `Ops = {}` violates `RequestOfItsKind` in this way;
* `__emp_blk_prefetch_complete` (`emp_madvise.c` 265-273) takes the mark of a prefetch from a
  block without `GPA_HPT_MASK`, one that an earlier populate fetched, and does not wait for
  its request, against `reclaim.c` 995 (`w` holds "the fetch work requests of a block whose
  prefetch is still in flight"). `BlockHints.cfg` with `Ops = {"populate"}` violates
  `RequestOfItsKind`;
* with a single region `mrid_first` is its id for every subblock, and
  `remote_page_policy_diff_mr` (`remote_page.c` 265) keeps the region it locked for the first
  subblock without asking it for room again. `remote_page.c` 250 asserts
  `debug_BUG_ON(offset == mr->size >> sb_order)` after the search: `RemoteContended.cfg` with
  `Mrs = 1`, `Size <- MCOneRegion` and `Cows = {}` violates `RoomIsFound`;
* a fork after a split inside a descriptor group copies a part of the group
  (`cow.c` 2290), against `vm.h` 181: "A slot is therefore populated with the rest of its
  group or NULL with the rest of it". If the first slot is missing, the last close of the
  child skips the group; if another is, `remove_gpa_dir` follows a null pointer;
* `close_and_free_gpas` drops the reference before the walk (`gpa.c` 1848), while
  `debug.c` 2068 says that a close "keeps the reference until its backing cleanup has
  finished": after the flag is cleared (`gpa.c` 1927) a second closer may finish and free
  the vmdesc before the first one wakes the queue in it;
* `dup_block_local_page` and its caller (`cow.c` 838, 855) allocate the pages of a copy
  one by one without `alloc_block_lock`, against the reasoning of `page_mgmt.c` 347-354:
  with a cache too small for the old blocks and their copies `SomeBlockCompletes` fails;
* the error exit of a reduced CoW fault (`cow.c` 1529) frees `new_head`, which is not
  the start of the array that was allocated (`max_new_head`);
* the loops at `cow.c` 1569-1575 and 1608-1617 read the size of a block after unlocking
  it; the block may have been stretched or reduced, and the loop steps into a block or over one;
* `els_update_remote_page` (`els_block.c` 113) may free the remote pages of a block whose
  fetch is still in flight, when operations are chained;
* with no donor connected `__alloc_remote_page` (`remote_page.c` 303) divides by zero once
  the change of regions is due;
* `gpas_open` (`gpa.c` 2463) and `dup_vmdesc` (`cow.c` 2384) say of the first view of a
  vmdesc that it "cannot fail and cannot allocate", and pass `NULL` for a pointer that
  has become the flag `first_or_shared`: false, so that `emp_vmdesc_view_add` does
  allocate, and its `-ENOMEM` is ignored. With `NodeMayFail = TRUE` the first `Mmap`
  violates `ViewersCovered`: a mapping without a view, whose pages another close of the
  vmdesc releases;
* `emp_vma_open` (`vm.c` 1482) stops a debug build when a vma that has a split pending
  is opened in another mm. After a split that the kernel gave up
  (`finish_emp_vma_split` describes it) the link is still there at the next `fork()`,
  which is then taken for the second half of the split. `Opens` has no step there, so no
  property of `VmdescViews` says anything of such a fork; it is a hazard of its own in
  `PROJECT.json`, without a property;
* `fork_find_sibling_vmdesc` (`vm.c` 1227) takes the namespace of the preceding child
  vma also when that vma was wiped on fork while its parent shares the namespace;
* `__promote_gpas(mapped = false)` (`reclaim.c` 515-518) marks a block prefetched
  without a page table flag, which `wait_for_prefetched_block` (452) asserts;
* `__emp_blk_move_to_inactive` (`emp_madvise.c` 750) clears `GPA_PINNED_MASK` without
  counting the block out of `num_pin_blocks` (`vm.h` 394). `NumPinExact` therefore
  holds only without dontneed.

Five of these (the slot that was never written, the stranded victims,
`clear_in_flight_fetching_block`, `__emp_blk_prefetch_complete` and
`remote_page_policy_diff_mr`) are also why theorems below have hypotheses: each shows a
property false where the hypothesis does not hold.

## 9. Proofs

`BlockLifecycleProofs` proves for any sets of threads and blocks (blocks finite),
any `Pages`, `Cluster` and configuration, under `LifecycleAssumption` only:

* `TypeCorrect`: `Spec => []TypeOK`
* `MappedPagesAreQuiet`: `Spec => []NoTornPage`
* `PagesAreReleasedUnused`: `Spec => PageReleasedUnused`
* `PinnedBlocksStay`: `Spec => PinnedStays`

None of these is inductive. That a page which is released is unmapped depends on
which states a victim can be in at each stage of reclaim, which depends on nobody
else touching a locked block. The invariant `IInv` says so: `Literal` relates the
fields of one block (a page exists exactly outside `GPA_INIT`; a mapping implies
`GPA_HPT_MASK`, which implies an active state; a list implies its state), and
`ThreadOK` says which blocks a thread holds at each stage and in which state.
The proof has three layers: record lemmas (what an operator does to one block:
its lock, its state, and `Keeps`, the two action properties seen from one block),
one step lemma per action, and the temporal step. A step of one thread leaves
`ThreadOK` of the others alone because it changes only blocks that were unlocked
or its own (`StepPreserves`).

`BlockListsProofs` goes on from `IInv`, for any threads, blocks and pages:

* `LengthsStayExact`: `Spec => []LengthsExact`, in every configuration
* `ListsAgreeWithStates`: `Spec => []ListAgreesWithState`, if `~DonorMayFail`
* `NumPinStaysExact`: `Spec => []NumPinExact`, if `"dontneed" \notin Ops`

`LInv` has three main parts. `Listed` ties the `GPA_PROACTIVE_MASK` of a block to its list and
its state to the list it must be on. `Exact` says of each counter that with the updates
still owed it is the number of blocks it stands for. `Afloat` says that a block which is in
the cache and on no list is in the hands of some thread; it is what `ListAgreesWithState` adds to `Listed`, and what a failed eviction
breaks. The proof counts: the step lemmas give for each counter the blocks
that leave its class and those that enter it, which are just the updates the thread now
owes (`Booked`, `BooksKept`); when it makes them, `AdjustLengthLists` shows, the length
changes by what is owed no more. `Exact` cannot be proved without `Listed`: which counter a
scan or a hint adjusts is decided by the mask, what is counted is the list.
Dontneed forgets to count a pinned block out (see above), hence the hypothesis for `num_pin`.

`BlockWritesProofs` goes on from `IInv` too:

* `NoUpdateIsLost`: `Spec => []NoLostUpdate`, if `DonorMayFail => ~RemoteReuse \/ ~WritebackOpt`
* `RequestsKeepTheirKind`: `Spec => []RequestOfItsKind`, if `~DonorMayFail` and
  `"populate" \notin Ops`

`NoLostUpdate` looks at a block after it has left the cache. `Stored` says what is true before:
if the content of a resident block is newer than its remote copy, then the dirty flag is set, or
it is mapped with a dirty pte, or a write is under way; a write that is done leaves the copy
fresh. To carry this through an eager writeback, which clears `GPA_DIRTY_MASK` when it is
waited for, one has to know that what was waited for was that write, so `OfKind` is part of
it: `w` is an eager writeback exactly under `GPA_EAGER_WBR_MASK`, an ordinary one exactly in
`GPA_WB`. The step that decides is `EvictClean` (`CleanIsFresh`): a victim
is unmapped and has no request in flight, so without the flag there is nothing left that the copy lacks.
That argument needs a slot to have been written once it is there. A donor that fails can leave
one that was not (section 8), unless the slot is given back (no
`remote_reuse`) or every eviction writes (no writeback optimization): the hypothesis.
Most operators on a block are `Steady` (they touch neither request nor copies), and
one lemma deals with them all. For the fetches a second invariant (`Kept`) is needed: a block with a
fetch and without `GPA_PREFETCHED_MASK` is owed a mapping by the thread that faulted
on it. The error path drops this debt, a second populate takes the mark away, hence the two
hypotheses; section 8 names the configurations in which TLC finds either one needed.

`RemotePagesProofs` proves for any regions, threads, blocks, records and configurations, as long as
no first fault runs out of pages (`PagesSuffice`, a hypothesis of each theorem):

* `SlotsNotShared`: `Spec => []NoSlotTwice`
* `BitmapsExact`: `Spec => []BitmapExact`
* `RefcntsExact`: `Spec => []RefcntExact`
* `RemoteCopyHeld`: `Spec => []RemoteHasCopy`
* `CopyStays`: `Spec => RemoteCopyStays`
* `ResidentBlocksOwn`: `Spec => []ResidentOwnsAlone`
* `LengthKept`: `Spec => []AllocLenKept`
* `NoBugOn`: `Spec => []RoomIsFound`, if there is more than one region or no configuration
  with `different_mr` (`RegionsDiffer`)
* `TypeCorrect`: `Spec => []TypeOK`

The invariant has three parts that are proved one after the other. `Books`: each slot has one owner, a
subblock or a record; the bit of a slot is free when it has none; a record counts its pointers.
It needs to know nothing of threads, only how an entry changes hands
(`Changed`): a slot is taken, given back, made a record, or a pointer to a record is added or dropped.
`Regions`: who holds which region lock, `alloc_len` as what is taken and promised, and that a
search that was let into a region finds a bit there (`RoomOf`). `BlocksKept`: what each thread does
with the blocks it has locked (`EvictOK`, `DropOK`, `DupOK`), and what an unlocked block
is in each state (`UnlockedOK`). This third part is what makes the frees without a question harmless: the undo of
an allocation walks over slots the block had before, and none of them may be shared, because
a block that is written back had its shared pages put when it was fetched. Without `PagesSuffice`
a fork may make a record for a block that has no slot (`RemoteUntouchedCow`), and without
`RegionsDiffer` a region is not asked again (section 8).

`FreePagesProofs` proves for any number of threads, cpus, pages and resizes, with threads
that are killed, evictions that fail and a host that runs out of memory, under
`FreePagesAssumption` only:

* `DebtIsNotOverpaid`: `Spec => []DebtNotOverpaid`
* `AllocStaysWithinMax`: `Spec => []AllocWithinMax`
* `NoPageLost`: `Spec => []PagesConserved`
* `TypesKept`: `Spec => []TypeOK`

`AllocWithinMax` is not inductive: a thread between the check and the allocation has
not been counted yet. `IInv` counts it: `alloc` plus the threads that passed the check is
at most the limit, the unpaid debt, and one less than all threads that take part. The two places where this could
break are the ones a reader would look at: a thread passes the check, which needs
`alloc < LOCAL_CACHE_MAX`, so all others may have passed too, but it is not more than all;
and a thread takes a unit off the debt, which moves it among those who still owe
a page (`tohost`) or will restore it. The proof rests on one counting lemma
(`Moved`: a step of one thread changes the number of threads in a set of stages by that
thread alone), one lemma for the form of every step (`EveryMove`), and two for the invariant
(`MoveInv`, `ResizeInv`).

`PagesConserved` is inductive together with `Stage`, which says what a thread can have in hand at
each place: pages only of its own unfinished block while it gathers, a cut list only between
cutting and splicing, and so on. That is what the early returns of `push_free_page_list` need: a
thread that hands pages to the next list must not have any left. Each step moves pages between a
list, a thread, the blocks and `alloc_pages_len`, and one lemma (`Keep`) adds them up.

`BlockLocksProofs` proves for any number of threads, views, groups and block orders, under
`LocksAssumption`, and as long as no thread makes write faults on descriptors that were
duplicated by a fork (`NoWriters`, a hypothesis of each theorem):

* `TypesKept`: `Spec => []TypeOK`
* `GroupsPublishedWhole`: `Spec => []PublishedWhole`
* `IdleHoldsNothing`: `Spec => []NothingLeftLocked`
* `BlocksAreOwned`: `Spec => ImplementsOwners`, the refinement of `BlockOwners` (with
  `INSTANCE BlockOwners WITH ... owns <- owns`)
* `BlocksAreExclusive`: `Spec => []Owners!Exclusive`, what the abstract specification is for,
  of the concrete one: two threads never own a common subblock

`NoWriters` leaves out the replacement of groups: `__handle_emp_cow_fault` gives up and
retakes locks in several loops, and with it entries of a directory are overwritten, so
that nearly every part of the invariant below would have a weaker form. Publication,
locking, stretching, reduction, eviction and hints are all in.

The invariant `IInv` has four parts. `LocksKept`: a thread holds exactly the locks its
place in the code accounts for (`Locks(t)`): what it owns, and the one head it has locked but
not validated, or the first descriptor of a group it is publishing. `DirKept`: an entry of a
directory is either empty or of the group at index 0, and an empty one is still
to be filled by a thread that holds the head of that group. `OrderKept`: the descriptors
of a block agree on their order (`Agreed`), except inside a range that one thread is
working on, and of such a range it owns every old and every new head (`Working`). This is
the heart: a stretch or a reduction writes the orders one descriptor after the
other, so that in between two descriptors of one block derive different heads, and what
protects a third thread is only that each of these heads is locked. `ThreadsKept` has the
types and what a thread knows of its own head. None of it can be dropped: that a
validated head means the whole block needs `Agreed`, which needs that those who change
orders hold all heads, which needs `LocksKept`.

The proof has lemmas on the geometry of blocks (`Heads`, `Halves`: a block of one order is two
of the order below), a lemma per action for what it does (`GotDoes`, ...) and per
action that it keeps the invariant (`GotKeeps`, ...), with one common lemma for a
change of orders (`RegradeKeeps`). In the refinement (`OwnersStep`) a step that leaves the
orders alone takes or gives up whole blocks, which `Apart` shows disjoint from those of
others; a new order moves one descriptor between two heads of the same owner, which is a
stutter (`RegradeInside`).

`VmdescViewsProofs` (with the lemmas about operators and about the effect of each action in `VmdescViewsLemmas`) proves for any processes, vmrs, vmdescs,
descriptor groups, geometry and places of splits, under the assumptions of `VmdescViews` only:

* `UncoveredIsExact`: `Spec => []UncoveredExact`
* `ViewsInductive`: `Spec => []Frame`, the invariant it needs and the frame of any further proof
* `RefcntsCountDirs`: `Spec => []RefcntIsDirs`, if private vmas are split at group boundaries
  (`SplitsAtGroups`, as in both configurations)
* `ViewsMatch`: `Spec => []ViewsMatchVmrs`, if views can be allocated (`~NodeMayFail`, as in both
  configurations)
* `ViewersAreCovered`: `Spec => []ViewersCovered`, under the same hypothesis
* `BooksInductive`: the invariant behind the last two
* `ViewedSlotsAreKept`: `Spec => ViewedSlotsStay`, `LastCloseLeavesNothing`: `Spec => []LastCloseEmpties`
  and `RecordsAreOfLiveVmrs`: `Spec => []RecordsOfLiveVmrs`, under both hypotheses (`Provided`)
* `ClosesInductive`: the invariant behind these three
* `TypesKept`: `Spec => []TypeOK`, under the same hypotheses

`emp_vmdesc_view_find_uncovered` trims a range from both ends in one walk over a list sorted by
start, ends early, and must notice a view strictly inside. That it returns exactly the uncovered
pages (`FoundUncovered`) needs two things: an invariant of the walk, and that the list is sorted and
has nothing twice whenever somebody walks it. The walk is a fold, that is, a recursion over the list,
and so is the insertion point of `emp_vmdesc_view_add`; where their step-by-step descriptions are
needed, the proofs argue with the least position at which a claim fails (`LeastNat`) instead of an
induction theorem. `Frame` says the rest: `Lists` (each view list is sorted, of ranges
inside the vmdesc), `Places` (a placed vmr has a range and a used vmdesc, and only a close has it
in one of its phases), `Alone` (one close per process at a time), `Links`, `Splitting` and `Forks`
(what a split and a fork know of the vmrs and processes they work on: the vmr that is split is still
alive when its views are split, a child belongs to one fork). A view list is changed by a split after
the vmr it was called for was looked up, hence `Splitting`; and only because `Started` and
`Forks` tie a process to one operation does no other step take that vmr away. The proof has
one effect predicate for each action, and shows once for each part of `Frame` that these effects keep it.

`RefcntIsDirs` needs more (`RefInv`): a directory has a group as a whole or not at all (`Whole`), and all
directories that share one have it in the same place (`OwnGroup`). Otherwise the release, which
decides by the count of the first slot whether the group is freed, would free one that
another directory has in part. A fork keeps this only if what it duplicates are whole groups, hence
`AtGroups`: private vmrs begin and end at group boundaries (`InheritedWhole`). Without
`SplitsAtGroups` this fails, as section 8 describes, and so does `RefcntIsDirs`.

`Books` says what a view list is at every moment, also in the middle of a split, when the vmrs have
their new intervals and the list still has the old one. `Matching`: the count of an interval is the number of vmrs
that claim it (`Claimants`), where of the two vmrs of a split that has not reached the list yet the
first claims the whole (`First`) and the second nothing (`Second`). The list is compared by counts
(`CountOf`), so what an addition, a deletion and the replacement of a split do to it is one lemma
each (`BooksStepped` and those before it). `Halves` says that these two still have
the halves of the interval the list has, and `Counted` that the refcount counts holders. The reference a shared fork takes
before it has its view is covered by `Joining`: a vmr that joins has the interval of a parent that
is still in the list of vmas to fork, and the parent cannot go, because its process is in the fork. The
hypothesis `~NodeMayFail` is needed: a failed allocation leaves a vmr without a view (section 8), and
neither property holds then.

`Closes` is about what a close takes away while processes it knows nothing of go on. Of the vmrs of a vmdesc
only the one that has `is_closing` is in `own` or past it, up to the end of its walk (`Closers`), which is why nobody else changes what it
computed. What it computed can still become stale through others' forks and splits: the remainder of
`find_uncovered()`, the answer of `is_covered()` for a group, the refcount that told it is the last one.
`Walks` says that they do not: nobody views the remainder (`Misses`) or the group in question (`Queried`), and
when the count was 0 nobody holds a reference and every group in the directory is still in the walk (`LastWalks`).
It is kept because a fork or a split gives a view only to where a vmr of the same vmdesc has one (`Beside`), and because
a group appears in a directory only where somebody views it. The exception is the second child vma that joins the private
vmdesc of a sibling (`ForkSibling`): it views and fills slots that nobody viewed before. There no close may be under
way, which needs `OneSpace` (the vmrs of a private vmdesc are all of one process, the child, whose mmap lock
the fork holds) and `Alike` (as the parent is private, so is what its child has). `Records` places each mapping
record: in a slot its vmr views, in the group the directory has there, and once the close walks, in a group it
has yet to visit. That others put the group away under it is excluded by `Walks`. `Retired` is what is left of all this
when nobody stands in a vmdesc: no view and no group. `ViewedSlotsStay` is a property of steps and follows from
`Closes` in the state before: only `ClosePut` empties a slot (`StepTakes`), and what it releases is what `Walks` speaks of.

The proofs of `BlockLifecycle`, like its runs, describe the program up to the first `BUG()` or
misread request: there it stops (`Halted`).

`TypeOK` of `VmdescViews` comes last, as its bounds are those of sets that are counted: the count of a view
is that of its claimants (`Matching`), the refcount that of the holders (`Counted`), `gpa->refcnt` that of the
directories, and 0 once the group is free (`Freed`); what a close keeps of the refcount (`Tallied`) was taken from it
while the closer itself still held a reference, so it is not negative.

**Model-checked only**: the write faults of `BlockLocks`; the properties above where a hypothesis excludes a configuration that the runs have.
Liveness (`CallsEnd`, `ClosesEnd`, `AllocEnds`, `SomeBlockCompletes`) is out of the prover's reach.

## 10. Not modelled

Most of the lines of the repository are not EMP's own: `src/module_kvm` has KVM of five
kernels (about nine tenths of all lines), `src/mimalloc-emp` an allocator. Of
`src/module_gpl` (32000 lines):

* the transports (`rdma.c`, `bdev.c`, `memdev.c`, `udma.c`) are drivers; their interface is
  the external action `CompleteIO`;
* `donor_mgmt.c` sets up and tears down regions by ioctl; the models start with the
  regions `create_mr` makes;
* `debug.c`, `procfs.c` observe; `ioctl.c`, `iov.c`, `glue.c` dispatch;
* page tables: a mapping is one bit of a block (`BlockLifecycle`) or a record per vmr
  (`VmdescViews`); the copying of tables at a fork and the KVM half of faults are left out;
* blocks of several subblocks are in `RemotePages`, `FreePages` and `BlockLocks`, not in
  `BlockLifecycle`: partial fetches and chained requests are not modelled.

`src/libemp`, `src/vmd` and the wrappers in `src/mimalloc-emp/src/emp` do configuration
and I/O and keep no state of their own worth a model.
