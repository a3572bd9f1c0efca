----------------------------- MODULE FreePages -----------------------------
(***************************************************************************)
(* Where the pages of the local cache are while nobody maps them           *)
(* (src/module_gpl/alloc.c): per-cpu free lists, the global list, pages in *)
(* transit between two lists, pages that a fault has collected for its     *)
(* block (alloc_block() in page_mgmt.c, dup_block_local_page() in cow.c),  *)
(* and the debt a shrinking cache leaves to those who free pages           *)
(* (adjust_local_cache_size() in reclaim.c).                               *)
(*                                                                         *)
(* Pages are counted in subblocks and are alike.  A resident block can be  *)
(* evicted unless a fault holds its lock; its writeback is one step here.  *)
(***************************************************************************)
EXTENDS Integers, FiniteSets

CONSTANTS
    Threads,    \* kernel threads
    NoThread,
    BlockSize,  \* subblocks of a block, bvma_sib_size()
    ListMax,    \* ftm.per_vcpu_free_lpages_len
    Resizes,    \* bound: how often the cache is resized
    Configs     \* the threads that come to fault, the cpu of each thread, the
                \* sizes ftm.local_cache_pages is given, and what happens:
                \* threads "fetch", "copy" and "free", a "kill", a host without
                \* memory ("oom"), a failed eviction

ASSUME FreePagesAssumption ==
    /\ IsFiniteSet(Threads) /\ NoThread \notin Threads
    /\ {BlockSize, ListMax} \subseteq Nat \ {0}
    /\ Resizes \in Nat
    /\ \A c \in Configs :
        /\ DOMAIN c.cpu = Threads
        /\ c.threads \subseteq Threads /\ c.threads # {}
        /\ c.caches \subseteq Nat
        /\ c.ops \subseteq {"fetch", "copy", "free", "kill", "oom", "evict"}

VARIABLES
    config,    \* one of Configs
    local,     \* pages on the free list of each cpu
    glob,      \* pages on ftm.free_page_list
    alloc,     \* ftm.alloc_pages_len
    cache,     \* ftm.local_cache_pages
    debt,      \* ftm.free_pages_reclaim
    resize,    \* the resizer: resizes left and a shrink not yet in the debt
    resident,  \* blocks in the local cache that no fault holds
    mutex,     \* owner of alloc_block_lock of each cpu
    th         \* the threads

vars == <<config, local, glob, alloc, cache, debt, resize, resident, mutex, th>>

cpu == config.cpu
Cpus == {cpu[t] : t \in Threads}
(* LOCAL_CACHE_MAX: the headroom has room for one block per cpu.           *)
LocalCacheMax == cache + BlockSize * Cardinality(Cpus)

(***************************************************************************)
(* A thread: has are the pages collected for its block, tmp those between  *)
(* two lists, push those still to be freed (onto no cpu's list if nocpu),  *)
(* ret where it goes on then, and rest the lists it has not looked at.     *)
(***************************************************************************)
Idle == [pc |-> "idle", ret |-> "idle", has |-> 0, tmp |-> 0, push |-> 0,
         nocpu |-> FALSE, copy |-> FALSE, rest |-> {}]

Init ==
    /\ config \in Configs
    /\ local = [c \in Cpus |-> 0]
    /\ glob = 0 /\ alloc = 0 /\ debt = 0 /\ resident = 0
    /\ cache \in config.caches
    /\ resize = [left |-> Resizes, pending |-> 0]
    /\ mutex = [c \in Cpus |-> NoThread]
    /\ th = [t \in Threads |-> Idle]

At(t, pc) == th[t].pc = pc
Goto(t, pc) == th' = [th EXCEPT ![t].pc = pc]
Mine(t) == local[cpu[t]]

sizes == <<config, cache, resize>>
lists == <<local, glob>>

(***************************************************************************)
(* Starting to collect a block: a fetch takes the mutex of its cpu, a      *)
(* private copy keeps the old block locked and takes none.                 *)
(***************************************************************************)
StartFetch(t) ==
    /\ "fetch" \in config.ops /\ t \in config.threads
    /\ th[t] = Idle
    /\ Goto(t, "lock")
    /\ UNCHANGED <<sizes, lists, alloc, debt, resident, mutex>>

LockCpu_Mutant(t) ==
    /\ At(t, "lock")
    /\ mutex' = [mutex EXCEPT ![cpu[t]] = t]
    /\ Goto(t, "local")
    /\ UNCHANGED <<sizes, lists, alloc, debt, resident>>

LockCpu(t) ==
    /\ At(t, "lock")
    /\ mutex[cpu[t]] = NoThread
    /\ mutex' = [mutex EXCEPT ![cpu[t]] = t]
    /\ Goto(t, "local")
    /\ UNCHANGED <<sizes, lists, alloc, debt, resident>>

StartCopy(t) ==
    /\ "copy" \in config.ops /\ t \in config.threads
    /\ th[t] = Idle /\ resident > 0
    /\ resident' = resident - 1
    /\ th' = [th EXCEPT ![t] = [Idle EXCEPT !.pc = "local", !.copy = TRUE]]
    /\ UNCHANGED <<sizes, lists, alloc, debt, mutex>>

Unlock(t) == mutex' = [c \in Cpus |-> IF mutex[c] = t THEN NoThread ELSE mutex[c]]

(* One more page in hand; with the last one the block is populated.        *)
Got(x) == [x EXCEPT !.has = @ + 1,
                    !.pc = IF x.has + 1 = BlockSize THEN "populate" ELSE "local"]
TakePage(t, x) ==
    /\ th' = [th EXCEPT ![t] = Got(x)]
    /\ IF x.has + 1 = BlockSize THEN Unlock(t) ELSE UNCHANGED mutex

(***************************************************************************)
(* _alloc_pages(): the list of the cpu, the host, the list of the cpu      *)
(* again, the global list, the lists of other cpus, then reclaim.          *)
(***************************************************************************)
PopLocal(t) ==
    /\ th[t].pc \in {"local", "pull"}
    /\ Mine(t) > 0
    /\ local' = [local EXCEPT ![cpu[t]] = @ - 1]
    /\ TakePage(t, th[t])
    /\ UNCHANGED <<sizes, glob, alloc, debt, resident>>

LocalEmpty(t) ==
    /\ th[t].pc \in {"local", "pull"}
    /\ Mine(t) = 0
    /\ Goto(t, IF At(t, "local") THEN "host" ELSE "pullglobal")
    /\ UNCHANGED <<sizes, lists, alloc, debt, resident, mutex>>

(* The check and the allocation are two steps.                             *)
available_Mutant == alloc <= LocalCacheMax
available == alloc < LocalCacheMax
CheckHost(t) ==
    /\ At(t, "host")
    /\ Goto(t, IF available THEN "hostalloc" ELSE "pull")
    /\ UNCHANGED <<sizes, lists, alloc, debt, resident, mutex>>

HostAlloc(t) ==
    /\ At(t, "hostalloc")
    /\ alloc' = alloc + 1
    /\ TakePage(t, th[t])
    /\ UNCHANGED <<sizes, lists, debt, resident>>

HostFails(t) ==
    /\ At(t, "hostalloc") /\ "oom" \in config.ops
    /\ Goto(t, "pull")
    /\ UNCHANGED <<sizes, lists, alloc, debt, resident, mutex>>

PullGlobal_Mutant(t) ==
    /\ At(t, "pullglobal")
    /\ glob' = glob - BlockSize
    /\ th' = [th EXCEPT ![t].tmp = BlockSize, ![t].pc = "splice"]
    /\ UNCHANGED <<sizes, local, alloc, debt, resident, mutex>>

PullGlobal(t) ==
    /\ At(t, "pullglobal")
    /\ LET n == IF glob < BlockSize THEN glob ELSE BlockSize
       IN  /\ glob' = glob - n
           /\ th' = [th EXCEPT ![t].tmp = n, ![t].rest = Cpus \ {cpu[t]},
                               ![t].pc = IF n > 0 THEN "splice" ELSE "pullothers"]
    /\ UNCHANGED <<sizes, local, alloc, debt, resident, mutex>>

PullOther(t) ==
    /\ At(t, "pullothers")
    /\ \E c \in th[t].rest :
        LET n == IF local[c] < BlockSize THEN local[c] ELSE BlockSize
        IN  /\ local' = [local EXCEPT ![c] = @ - n]
            /\ th' = [th EXCEPT ![t].tmp = n, ![t].rest = @ \ {c},
                                ![t].pc = IF n > 0 THEN "splice" ELSE @]
    /\ UNCHANGED <<sizes, glob, alloc, debt, resident, mutex>>

NoOther(t) ==
    /\ At(t, "pullothers")
    /\ th[t].rest = {}
    /\ Goto(t, "reclaim")
    /\ UNCHANGED <<sizes, lists, alloc, debt, resident, mutex>>

(* The first pulled page is taken, the others go to the list of the cpu.   *)
Splice(t) ==
    /\ At(t, "splice")
    /\ local' = [local EXCEPT ![cpu[t]] = @ + th[t].tmp - 1]
    /\ TakePage(t, [th[t] EXCEPT !.tmp = 0, !.rest = {}])
    /\ UNCHANGED <<sizes, glob, alloc, debt, resident>>

(* wait_writeback_async() and reclaim_emp_pages(): a block leaves the      *)
(* cache and the thread frees its pages, then tries again.                 *)
Reclaim(t) ==
    /\ At(t, "reclaim")
    /\ IF resident > 0
       THEN /\ resident' = resident - 1
            /\ th' = [th EXCEPT ![t].pc = "debt", ![t].ret = "host",
                                ![t].push = BlockSize]
       ELSE Goto(t, IF available THEN "host" ELSE "wait") /\ UNCHANGED resident
    /\ UNCHANGED <<sizes, lists, alloc, debt, mutex>>

(* wait_pages_available(): the condition or one jiffy, whichever is first. *)
Wake(t) ==
    /\ At(t, "wait")
    /\ Goto(t, "host")
    /\ UNCHANGED <<sizes, lists, alloc, debt, resident, mutex>>

(* Giving up: what was collected is freed, the old block of a copy stays.  *)
GiveUp(t) ==
    /\ Unlock(t)
    /\ resident' = resident + IF th[t].copy THEN 1 ELSE 0
    /\ th' = [th EXCEPT ![t] = IF @.has = 0 THEN Idle
                               ELSE [Idle EXCEPT !.pc = "debt", !.push = th[t].has]]
    /\ UNCHANGED <<sizes, lists, alloc, debt>>

(* A fatal signal ends the wait for pages and the wait for the mutex.      *)
Killed(t) ==
    /\ "kill" \in config.ops
    /\ At(t, "wait") \/ (At(t, "lock") /\ mutex[cpu[t]] # NoThread)
    /\ GiveUp(t)

(* reclaim_emp_pages() fails: the victims keep their pages.                *)
ReclaimFails(t) ==
    /\ At(t, "reclaim") /\ "evict" \in config.ops
    /\ resident > 0
    /\ GiveUp(t)

(* The block is populated and listed; so is the old block of a copy.       *)
Populate(t) ==
    /\ At(t, "populate")
    /\ resident' = resident + IF th[t].copy THEN 2 ELSE 1
    /\ th' = [th EXCEPT ![t] = Idle]
    /\ UNCHANGED <<sizes, lists, alloc, debt, mutex>>

(***************************************************************************)
(* A block leaves the cache outside of an allocation: an eviction after a  *)
(* fault, by the resizer, or (without a cpu) the end of its process.       *)
(***************************************************************************)
FreeBlock(t) ==
    /\ "free" \in config.ops /\ t \in config.threads
    /\ th[t] = Idle /\ resident > 0
    /\ resident' = resident - 1
    /\ \E nocpu \in BOOLEAN :
        th' = [th EXCEPT ![t] = [Idle EXCEPT !.pc = "debt", !.push = BlockSize,
                                             !.nocpu = nocpu]]
    /\ UNCHANGED <<sizes, lists, alloc, debt, mutex>>

(***************************************************************************)
(* push_free_page_list(), once for every page: first the debt, then the    *)
(* list of the cpu, of which a part goes to the global list when it is too *)
(* long.                                                                   *)
(***************************************************************************)
Pushed(x) ==
    IF x.push = 1
    THEN [x EXCEPT !.push = 0, !.nocpu = FALSE, !.pc = x.ret, !.ret = "idle"]
    ELSE [x EXCEPT !.push = @ - 1, !.pc = "debt"]

CheckDebt(t) ==
    /\ At(t, "debt")
    /\ Goto(t, IF debt >= 1 THEN "pay" ELSE "put")
    /\ UNCHANGED <<sizes, lists, alloc, debt, resident, mutex>>

Pay(t) ==
    /\ At(t, "pay")
    /\ debt' = debt - 1
    /\ Goto(t, IF debt >= 1 THEN "tohost" ELSE "restore")
    /\ UNCHANGED <<sizes, lists, alloc, resident, mutex>>

Restore_Mutant(t) ==
    /\ At(t, "restore")
    /\ Goto(t, "put")
    /\ UNCHANGED <<sizes, lists, alloc, debt, resident, mutex>>

Restore(t) ==
    /\ At(t, "restore")
    /\ debt' = debt + 1
    /\ Goto(t, "put")
    /\ UNCHANGED <<sizes, lists, alloc, resident, mutex>>

FreeToHost(t) ==
    /\ At(t, "tohost")
    /\ alloc' = alloc - 1
    /\ th' = [th EXCEPT ![t] = Pushed(@)]
    /\ UNCHANGED <<sizes, lists, debt, resident, mutex>>

PutLocal(t) ==
    LET len == Mine(t) + 1
        cut == len - ListMax \div 2
    IN  /\ At(t, "put") /\ ~th[t].nocpu
        /\ IF len <= ListMax
           THEN /\ local' = [local EXCEPT ![cpu[t]] = len]
                /\ th' = [th EXCEPT ![t] = Pushed(@)]
           ELSE /\ local' = [local EXCEPT ![cpu[t]] = len - cut]
                /\ th' = [th EXCEPT ![t].tmp = cut, ![t].pc = "toglobal"]
        /\ UNCHANGED <<sizes, glob, alloc, debt, resident, mutex>>

PutNoCpu(t) ==
    /\ At(t, "put") /\ th[t].nocpu
    /\ th' = [th EXCEPT ![t].tmp = 1, ![t].pc = "toglobal"]
    /\ UNCHANGED <<sizes, lists, alloc, debt, resident, mutex>>

ToGlobal(t) ==
    /\ At(t, "toglobal")
    /\ glob' = glob + th[t].tmp
    /\ th' = [th EXCEPT ![t] = Pushed([@ EXCEPT !.tmp = 0])]
    /\ UNCHANGED <<sizes, local, alloc, debt, resident, mutex>>

(* A short cut does not wait for the lock of the global list, which        *)
(* somebody else may hold.                                                 *)
BackToLocal_Mutant(t) ==
    /\ At(t, "toglobal") /\ ~th[t].nocpu
    /\ th[t].tmp < ListMax
    /\ th' = [th EXCEPT ![t] = Pushed([@ EXCEPT !.tmp = 0])]
    /\ UNCHANGED <<sizes, lists, alloc, debt, resident, mutex>>

BackToLocal(t) ==
    /\ At(t, "toglobal") /\ ~th[t].nocpu
    /\ th[t].tmp < ListMax
    /\ local' = [local EXCEPT ![cpu[t]] = @ + th[t].tmp]
    /\ th' = [th EXCEPT ![t] = Pushed([@ EXCEPT !.tmp = 0])]
    /\ UNCHANGED <<sizes, glob, alloc, debt, resident, mutex>>

(***************************************************************************)
(* adjust_local_cache_size(): shrinking first lowers the limit and then    *)
(* adds to the debt; growing leaves the debt alone.                        *)
(***************************************************************************)
Resize(new) ==
    /\ resize.left > 0 /\ resize.pending = 0
    /\ new # cache
    /\ cache' = new
    /\ resize' = [left |-> resize.left - 1,
                  pending |-> IF new < cache THEN cache - new ELSE 0]
    /\ UNCHANGED <<config, lists, alloc, debt, resident, mutex, th>>

AddDebt ==
    /\ resize.pending > 0
    /\ debt' = debt + resize.pending
    /\ resize' = [resize EXCEPT !.pending = 0]
    /\ UNCHANGED <<config, cache, lists, alloc, resident, mutex, th>>

Collect(t) ==
    \/ LockCpu(t) \/ PopLocal(t) \/ LocalEmpty(t) \/ CheckHost(t) \/ HostAlloc(t)
    \/ PullGlobal(t) \/ PullOther(t) \/ NoOther(t) \/ Splice(t)
    \/ Reclaim(t) \/ Wake(t) \/ Populate(t)

Push(t) ==
    \/ CheckDebt(t) \/ Pay(t) \/ Restore(t) \/ FreeToHost(t)
    \/ PutLocal(t) \/ PutNoCpu(t) \/ ToGlobal(t) \/ BackToLocal(t)

Next ==
    \/ \E t \in Threads :
        \/ StartFetch(t) \/ StartCopy(t) \/ FreeBlock(t)
        \/ Killed(t) \/ HostFails(t) \/ ReclaimFails(t)
        \/ Collect(t) \/ Push(t)
    \/ \E new \in config.caches : Resize(new)
    \/ AddDebt

Spec == Init /\ [][Next]_vars

(* A thread in the kernel goes on; a wait of one jiffy ends.               *)
Fairness == \A t \in Threads : WF_vars(Collect(t) \/ Push(t))
FairSpec == Spec /\ Fairness

-----------------------------------------------------------------------------
(* The pages f counts, one element for each.                               *)
InAll(f) == Cardinality(UNION {{s} \X (1 .. f[s]) : s \in DOMAIN f})
Count(P(_)) == Cardinality({t \in Threads : P(t)})

TypeOK ==
    /\ config \in Configs
    /\ local \in [Cpus -> Nat] /\ glob \in Nat /\ alloc \in Nat
    /\ cache \in config.caches /\ debt \in Int /\ resident \in Nat
    /\ resize \in [left : 0 .. Resizes, pending : Nat]
    /\ mutex \in [Cpus -> Threads \cup {NoThread}]
    /\ th \in [Threads ->
        [pc : {"idle", "lock", "local", "host", "hostalloc", "pull", "pullglobal",
               "pullothers", "splice", "reclaim", "wait", "populate",
               "debt", "pay", "restore", "tohost", "put", "toglobal"},
         ret : {"idle", "host"}, has : 0 .. BlockSize, tmp : Nat, push : 0 .. BlockSize,
         nocpu : BOOLEAN, copy : BOOLEAN, rest : SUBSET Cpus]]

(***************************************************************************)
(* No page is lost or counted twice: alloc_pages_len is what lies on the   *)
(* lists, is in transit, is collected for a block, is resident, or is      *)
(* about to be freed.  A cut list keeps its last page in tmp.              *)
(***************************************************************************)
InHand(t) == LET x == th[t] IN
    x.has + x.tmp + x.push - (IF x.pc = "toglobal" THEN 1 ELSE 0)
        + IF x.copy THEN BlockSize ELSE 0
PagesConserved ==
    alloc = InAll(local) + glob + InAll([t \in Threads |-> InHand(t)])
                + BlockSize * resident

(***************************************************************************)
(* The local cache stays within LOCAL_CACHE_MAX, but for the pages a       *)
(* shrink has not got back yet and one for each thread that passed the     *)
(* check of alloc_pages_len together with the last.                        *)
(***************************************************************************)
Unpaid == debt + resize.pending
            + Count(LAMBDA t : th[t].pc \in {"restore", "tohost"})
AllocWithinMax == alloc <= LocalCacheMax + Unpaid + Cardinality(config.threads) - 1

(***************************************************************************)
(* free_pages_reclaim is never negative but for the payers that are about  *)
(* to take their page back.                                                *)
(***************************************************************************)
DebtNotOverpaid == debt + Count(LAMBDA t : th[t].pc = "restore") >= 0

(***************************************************************************)
(* Faults that collect the pages of their blocks do not take every page    *)
(* into half-allocated blocks and wait for each other forever: once nobody *)
(* is killed any more and neither host nor evictions fail, as long as some *)
(* thread collects some block gets complete.  It takes more faults on a    *)
(* cpu than the headroom has pages for, and alloc_block_lock.              *)
(***************************************************************************)
Collecting(t) == th[t].pc \in {"lock", "local", "host", "hostalloc", "pull", "pullglobal",
                               "pullothers", "splice", "reclaim", "wait"}
SomeBlockCompletes ==
    <>[][~\E t \in Threads : Killed(t) \/ HostFails(t) \/ ReclaimFails(t)]_vars
        => ((\E t \in Threads : Collecting(t))
               ~> (\E t \in Threads : At(t, "populate")) \/ (\A t \in Threads : ~Collecting(t)))
=============================================================================
