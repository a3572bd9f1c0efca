--------------------------- MODULE BlockLifecycle ---------------------------
(***************************************************************************)
(* The life of memory blocks in the local cache of the EMP kernel module:  *)
(* page faults, madvise() hints and reclaim (src/module_gpl/hva.c,         *)
(* page_mgmt.c, reclaim.c, donor_mem_rw.c, emp_madvise.c) working on the   *)
(* same gpa descriptors, each under the lock of the block's head, while    *)
(* the DMA engine completes their work requests whenever it likes.         *)
(*                                                                         *)
(* A block is one subblock (block order = subblock order), the emm serves  *)
(* host processes (emp_page_fault_hva), and one page counts as one page in *)
(* every list length.  The per-cpu MRU, LRU and global parts of a list are *)
(* one set here: reclaim may reach any unlocked block of a list.           *)
(*                                                                         *)
(* An action ends where the code gives up a lock others may be waiting     *)
(* for: a list lock at the end of a scan, the block locks after an         *)
(* insertion.  The counters of a list change after its lock is released,   *)
(* often after the blocks are unlocked too; what a thread has still to add *)
(* or to subtract is in owed.                                              *)
(*                                                                         *)
(* A definition named ..._Mutant is never used: it is the definition after *)
(* it with a slip in it, which the property it is paired with must notice. *)
(***************************************************************************)
EXTENDS Integers, FiniteSets

CONSTANTS
    Threads,        \* kernel threads that fault, advise and reclaim
    NoThread,       \* the lock of an unlocked block
    Blocks,         \* gpa block heads
    Pages,          \* ftm.local_cache_pages, one page per block
    Cluster,        \* NUM_VICTIM_CLUSTER: victims of one selection
    RemoteReuse,    \* config.remote_reuse
    EagerWriteback, \* config.eager_writeback
    WritebackOpt,   \* ~config.writeback_optimization_disable
    DonorMayFail,   \* may alloc_remote_page() or post_writeback_async() fail?
    Ops             \* the entry points used besides page faults

ASSUME LifecycleAssumption ==
    /\ IsFiniteSet(Blocks)
    /\ NoThread \notin Threads
    /\ {Pages, Cluster} \subseteq Nat \ {0}
    /\ {RemoteReuse, EagerWriteback, WritebackOpt, DonorMayFail} \subseteq BOOLEAN
    /\ Ops \subseteq {"pin", "unpin", "prefetch", "populate", "dontneed"}

VARIABLES
    blk,    \* the block: its gpa descriptor, local page and remote page
    th,     \* the threads: where each one is and which blocks it has in hand
    len,    \* the page_len and pin counters of emm->ftm
    owed,   \* the atomic_add()s and atomic_sub()s of len still to be made
    free,   \* pages on the free page lists
    panic   \* "none", or why the kernel stopped

vars == <<blk, th, len, owed, free, panic>>

(***************************************************************************)
(* Block records.  holder is the spin lock of the head, w the kind of      *)
(* request local_page->w points at and done its completion; "freed" is a   *)
(* pointer that was left behind after its request was freed.  remote is    *)
(* the remote page: none, or allocated with or without the latest content. *)
(***************************************************************************)
Flags == {"TOUCHED", "PINNED", "PROMOTE", "PREFETCHED", "EAGER_WBR",
          "DIRTY", "HPT", "PROACTIVE"}
KeepFlags == {"TOUCHED", "PINNED"}
States == {"INIT", "ACTIVE", "INACTIVE", "WB", "TRANS_PL", "TRANS_AL", "TRANS_IL"}
Lists == {"none", "proactive", "pin", "active", "inactive", "writeback"}
Requests == {"none", "fetch", "writeback", "eager", "freed"}

Block == [holder : Threads \cup {NoThread}, state : States, list : Lists,
          flags : SUBSET Flags, w : Requests, done : BOOLEAN,
          page : BOOLEAN, mapped : BOOLEAN, pteDirty : BOOLEAN,
          remote : {"none", "stale", "fresh"}]

NewBlock == [holder |-> NoThread, state |-> "INIT", list |-> "none",
             flags |-> {}, w |-> "none", done |-> TRUE, page |-> FALSE,
             mapped |-> FALSE, pteDirty |-> FALSE, remote |-> "none"]

Has(r, f) == f \in r.flags
Set(r, F) == [r EXCEPT !.flags = @ \cup F]
Clear(r, F) == [r EXCEPT !.flags = @ \ F]
Lock(r, t) == [r EXCEPT !.holder = t]
Unlock(r) == [r EXCEPT !.holder = NoThread]
(* A victim: locked by @t and off its list, mostly in a GPA_TRANS state.   *)
Take(r, t, state) == [r EXCEPT !.holder = t, !.state = state, !.list = "none"]
(* A block that only changes lists: locked, off its list, state and all.   *)
Lift(r, t) == [r EXCEPT !.holder = t, !.list = "none"]
Relist(r, list) == [r EXCEPT !.list = list]

(* A wait for the request of a block returns.                              *)
Ready_Mutant(r) == TRUE
Ready(r) == r.w \in {"none", "freed"} \/ r.done

free_remote_page(r) ==
    [r EXCEPT !.remote = IF RemoteReuse THEN @ ELSE "none"]

(* Reading @w as a fetch request is only meaningful for a fetch request.   *)
Misread(r) == r.w \in {"writeback", "eager", "freed"}
wait_read_async_Mutant(r) == r
wait_read_async(r) ==
    IF r.w = "fetch" THEN free_remote_page([r EXCEPT !.w = "none"]) ELSE r

check_eager_wbr_Mutant(r) == Clear(r, {"EAGER_WBR", "DIRTY"})
check_eager_wbr(r) ==
    IF Has(r, "EAGER_WBR") THEN Clear([r EXCEPT !.w = "none"], {"EAGER_WBR", "DIRTY"})
                           ELSE r

wait_for_prefetched_block(r) == Clear(wait_read_async(r), {"PREFETCHED"})

clear_block_w(r) ==
    LET e == check_eager_wbr(r)
    IN  IF Has(e, "PREFETCHED") THEN wait_for_prefetched_block(e) ELSE e

clear_writeback_block(r) == [r EXCEPT !.w = "none", !.list = "none"]

set_gpa_remote(r) ==
    [r EXCEPT !.state = "INIT", !.list = "none", !.flags = @ \cap KeepFlags,
              !.w = "none", !.page = FALSE]

unmap_gpas_Mutant(r) ==
    [Clear(r, {"HPT"}) EXCEPT !.mapped = FALSE, !.pteDirty = FALSE]
unmap_gpas(r) ==
    IF ~Has(r, "HPT") THEN r
    ELSE [Clear(r, {"HPT"}) EXCEPT
            !.mapped = FALSE, !.pteDirty = FALSE,
            !.flags = IF r.mapped /\ r.pteDirty THEN @ \cup {"DIRTY"} ELSE @]

(* References to the page other than those of its mappings.                *)
Refs(r) == IF r.w = "none" THEN 1 ELSE 2
map(r) == [r EXCEPT !.mapped = TRUE]
gpa_acquire(r) == Has(r, "HPT") => Refs(r) <= IF Has(r, "PREFETCHED") THEN 2 ELSE 1
check_block_free(r) == ~r.mapped /\ Refs(r) = IF Has(r, "EAGER_WBR") THEN 2 ELSE 1

(* add_gpas_to_active_list(): a pinned block goes to the pin list.         *)
ActiveTarget(r, target) == IF Has(r, "PINNED") THEN "pin" ELSE target
add_gpas_to_active_list_Mutant(r, target) ==
    [r EXCEPT !.state = "ACTIVE", !.list = ActiveTarget(r, target)]
add_gpas_to_active_list(r, target) ==
    LET l == ActiveTarget(r, target)
    IN  [r EXCEPT !.state = "ACTIVE", !.list = l,
                  !.flags = IF l = "active" THEN @ ELSE @ \cup {"PROACTIVE"}]

promote_gpas(r, mapped) ==
    [r EXCEPT !.state = "ACTIVE", !.list = "proactive",
              !.flags = @ \cup {"PROACTIVE"}
                          \cup IF mapped THEN {} ELSE {"PREFETCHED"}]

move_to_pin_list(r, mapped) ==
    [r EXCEPT !.state = "ACTIVE", !.list = "pin",
              !.flags = @ \cup {"PROACTIVE"}
                          \cup IF mapped THEN {} ELSE {"PREFETCHED", "HPT"}]

(* A write posted to the remote page makes its old content unusable.       *)
post_writeback(r, kind) ==
    [r EXCEPT !.w = kind, !.done = FALSE, !.remote = "stale"]
(* The two ways to fail: alloc_remote_page() finds no slot, or the post    *)
(* fails; then the slot, which may be a new one that was never written,    *)
(* goes to free_remote_page().                                             *)
evict_block_errors_Mutant(r) == {set_gpa_remote(clear_block_w(r))}
evict_block_errors(r) ==
    LET c == clear_block_w(r)
    IN  {free_remote_page([c EXCEPT !.remote = IF @ = "none" THEN "stale" ELSE @])}
        \cup IF c.remote = "none" THEN {c} ELSE {}
writeback_evict(r) ==
    [post_writeback(clear_block_w(r), "writeback") EXCEPT !.state = "WB", !.list = "writeback"]
eager_evict(r) == Set(post_writeback(clear_block_w(r), "eager"), {"EAGER_WBR"})
add_gpas_to_inactive(r) == [r EXCEPT !.state = "INACTIVE", !.list = "inactive"]

check_need_writeback(r) ==
    \/ ~WritebackOpt
    \/ ~RemoteReuse
    \/ r.remote = "none"
    \/ Has(r, "DIRTY")
(* DIRTY is consumed only when it is what decides.                         *)
AfterNeedCheck(r) ==
    IF WritebackOpt /\ RemoteReuse /\ r.remote # "none" THEN Clear(r, {"DIRTY"}) ELSE r

(***************************************************************************)
(* Counters.  Each page_len counts the pages of one list; cur_pin is       *)
(* ftm.cur_pin_pages, num_pin ftm.num_pin_blocks and inflight              *)
(* ftm.inflight_writeback_page_len.                                        *)
(***************************************************************************)
(* reclaim_set(): how the cache is divided between the lists.              *)
InactiveMax == Pages \div 8
InactiveKeep == InactiveMax - InactiveMax \div 4
ActiveMax == Pages \div 2
ProactiveMax == Pages - (InactiveMax + ActiveMax)

Counters == {"proactive", "active", "inactive", "cur_pin", "num_pin", "inflight"}

(* What thread @t has still to add to counter @c, or to subtract from it,  *)
(* for having moved the blocks of @V.                                      *)
Adds(t, c, V) == {<<t, c, "add", b>> : b \in V}
Subs(t, c, V) == {<<t, c, "sub", b>> : b \in V}
Owe(S) == owed' = owed \cup S
Owes(t) == \E d \in owed : d[1] = t
Of(D, kind) == {d \in D : d[3] = kind}

(* The pin list is a part of the proactive list.                           *)
AddsToList(t, target, V) ==
    IF target = "pin" THEN Adds(t, "proactive", V) \cup Adds(t, "cur_pin", V)
                      ELSE Adds(t, target, V)

sub_inactive_list_page_len_Mutant(t, V) == {}
sub_inactive_list_page_len(t, V) == Subs(t, "inactive", V)

PageAvailable_Mutant == TRUE
PageAvailable == free > 0

NewlyPinned_Mutant(b) == {b}
NewlyPinned(b) == IF Has(blk[b], "PINNED") THEN {} ELSE {b}

(* The lengths are compared as size_t: a negative one is a very large one. *)
Full(c, max) == len[c] >= max \/ len[c] < 0
SoftPressure(hard) == len["inactive"] - len["inflight"] + hard > InactiveKeep

(* Reaping a writeback request leaves inflight_writeback_page_len as it is *)
(* (__wait_writeback_async() never subtracts), so the counter drifts away  *)
(* from the number of blocks in writeback, upwards only.  From DriftMax on *)
(* no list can be long enough to make SoftPressure true again (an inactive *)
(* list counts at most every block, hard is at most 1), so a drift beyond  *)
(* that is not counted: it makes no difference any more.                   *)
DriftMax == Cardinality(Blocks) + 1
Drift == len["inflight"] - Cardinality({b \in Blocks : blk[b].list = "writeback"})
DriftedInflight(l) == [l EXCEPT !["inflight"] = IF Drift >= DriftMax THEN @ - 1 ELSE @]

(***************************************************************************)
(* Threads.  op is the entry point a thread is serving, cur the block it   *)
(* holds for it, vs the victims it has locked, up the blocks a scan took   *)
(* off a list only to put them on a higher one, and ret where it goes on   *)
(* when _update_lru_lists() or the reaping of a writeback is over.         *)
(***************************************************************************)
PCs == {"idle", "local", "alloc", "proactive", "unpin", "rescan", "demote",
        "demoted", "active", "unmap", "eager", "force", "inactive", "evict",
        "release", "reap", "map", "finish", "error"}
Entry == {"none", "read", "write", "prefetch", "populate", "dontneed"}
Thread == [pc : PCs, op : Entry, cur : SUBSET Blocks, vs : SUBSET Blocks,
           up : SUBSET Blocks, ret : {"idle", "alloc", "map", "finish"}]
IdleThread == [pc |-> "idle", op |-> "none", cur |-> {}, vs |-> {}, up |-> {},
               ret |-> "idle"]

(* A thread takes its next step, unless the kernel has stopped: first it   *)
(* adjusts the counters, then it puts the blocks of a scan where they      *)
(* belong, then it goes on.                                                *)
Runs(t) == panic = "none" /\ ~Owes(t)
At(t, p) == Runs(t) /\ th[t].up = {} /\ th[t].pc = p
Goto(t, p) == th' = [th EXCEPT ![t].pc = p]
GotoWith(t, p, V) == th' = [th EXCEPT ![t].pc = p, ![t].vs = V]
Call(t, p, r) == th' = [th EXCEPT ![t].pc = p, ![t].ret = r]
Return(t) == th' = [th EXCEPT ![t].pc = th[t].ret, ![t].vs = {}]
Enter(t, p, o, b) ==
    th' = [th EXCEPT ![t] = [pc |-> p, op |-> o, cur |-> {b}, vs |-> {}, up |-> {},
                             ret |-> "finish"]]
(* A scan ends with victims @V and blocks @U that are to move up.          *)
Scanned(t, p, V, U) == th' = [th EXCEPT ![t].pc = p, ![t].vs = V, ![t].up = U]
Leave(t) == th' = [th EXCEPT ![t] = IdleThread]

Unlocked(l) == {b \in Blocks : blk[b].list = l /\ blk[b].holder = NoThread}
Flagged_Mutant(S, f) == {b \in S : f # "PINNED" /\ Has(blk[b], f)}
Flagged(S, f) == {b \in S : Has(blk[b], f)}
(* The blocks of @S that one scan takes off their list: some, when there   *)
(* are some.  Those that only change lists are not counted as victims.     *)
Selection(S, moved) ==
    {V \in SUBSET S : Cardinality(V \ moved) <= Cluster /\ (S # {} => V # {})}
Update(V, f(_)) == blk' = [b \in Blocks |-> IF b \in V THEN f(b) ELSE blk[b]]
Panic(why) == panic' = why /\ UNCHANGED <<blk, th, len, owed, free>>

(***************************************************************************)
(* The fault path: emp_page_fault_hva().                                   *)
(***************************************************************************)
FaultLock(t, b, op) ==
    /\ At(t, "idle")
    /\ blk[b].holder = NoThread
    /\ blk' = [blk EXCEPT ![b] = Lock(@, t)]
    /\ Enter(t, "local", op, b)
    /\ UNCHANGED <<len, owed, free, panic>>

(* A block with a prefetch behind it is drained first, and mapped at once  *)
(* when it has the HPT flag; handle_active_fault() then sees the mapping   *)
(* and there is nothing left to do.                                        *)
FaultActive(t, b) ==
    /\ At(t, "local") /\ b \in th[t].cur /\ blk[b].state = "ACTIVE"
    /\ LET r == blk[b]
            c == clear_block_w(r)
            resumed == Has(r, "PREFETCHED") /\ Has(r, "HPT")
        IN  IF Has(r, "PREFETCHED") /\ Misread(check_eager_wbr(r))
            THEN Panic("misread")
            ELSE /\ Has(r, "PREFETCHED") => Ready(r)
                 /\ IF resumed \/ r.mapped
                    THEN /\ blk' = [blk EXCEPT ![b] =
                                Unlock(map(IF resumed THEN c ELSE r))]
                         /\ Leave(t)
                    ELSE /\ blk' = [blk EXCEPT ![b] =
                                IF Has(r, "PREFETCHED") THEN c ELSE r]
                         /\ Goto(t, "map")
                 /\ UNCHANGED <<len, owed, free, panic>>

(* handle_inactive_fault(): off the inactive list, whatever @w holds is    *)
(* waited for, and back to the proactive list or the pin list.             *)
FaultInactive(t, b) ==
    /\ At(t, "local") /\ b \in th[t].cur /\ blk[b].state = "INACTIVE"
    /\ Ready(blk[b])
    /\ LET c == clear_block_w(blk[b])
        IN  /\ blk' = [blk EXCEPT ![b] = add_gpas_to_active_list(c, "proactive")]
            /\ Owe(sub_inactive_list_page_len(t, {b})
                      \cup AddsToList(t, ActiveTarget(c, "proactive"), {b}))
    /\ Goto(t, "map")
    /\ UNCHANGED <<len, free, panic>>

(* handle_writeback_fault(): the write is waited for and the copy dropped. *)
FaultWriteback(t, b) ==
    /\ At(t, "local") /\ b \in th[t].cur /\ blk[b].state = "WB"
    /\ Ready(blk[b])
    /\ LET c == free_remote_page(clear_writeback_block(blk[b]))
        IN  /\ blk' = [blk EXCEPT ![b] = add_gpas_to_active_list(c, "proactive")]
            /\ Owe(sub_inactive_list_page_len(t, {b})
                      \cup AddsToList(t, ActiveTarget(c, "proactive"), {b}))
    /\ len' = [len EXCEPT !["inflight"] = @ - 1]
    /\ Call(t, "proactive", "map")
    /\ UNCHANGED <<free, panic>>

(* handle_local_fault() ends in BUG() for any other resident state.        *)
FaultInvalid(t, b) ==
    /\ At(t, "local") /\ b \in th[t].cur
    /\ blk[b].state \in {"TRANS_PL", "TRANS_AL", "TRANS_IL"}
    /\ Panic("BUG")

FaultRemote(t, b) ==
    /\ At(t, "local") /\ b \in th[t].cur /\ blk[b].state = "INIT"
    /\ Goto(t, "alloc")
    /\ UNCHANGED <<blk, len, owed, free, panic>>

(* _alloc_pages() without a free page, and without a writeback that        *)
(* emp_wait_for_writeback() could wait for: the rest of                    *)
(* reclaim_emp_pages(), and again.                                         *)
AllocReclaim(t) ==
    /\ At(t, "alloc") /\ ~PageAvailable /\ Unlocked("writeback") = {}
    /\ Call(t, "force", "alloc")
    /\ UNCHANGED <<blk, len, owed, free, panic>>

(* fetch_block() with a page at hand, and the insertion of the block into  *)
(* the lists.  A block that was never touched is zeroed instead of read.   *)
FetchedBlock(r, op) ==
    LET f == [Set(r, {"TOUCHED"}) EXCEPT !.page = TRUE,
                  !.w = IF Has(r, "TOUCHED") THEN "fetch" ELSE "none",
                  !.done = ~Has(r, "TOUCHED")]
    IN  CASE op = "prefetch" -> Set(f, {"PREFETCHED", "HPT"})
          [] op = "populate" -> Set(f, {"PREFETCHED", "PROMOTE"})
          [] OTHER -> f

Fetch(t, b) ==
    /\ At(t, "alloc") /\ b \in th[t].cur /\ PageAvailable
    /\ \E target \in IF th[t].op \in {"read", "write"} THEN {"proactive", "active"}
                                                      ELSE {"proactive"} :
        LET f == FetchedBlock(blk[b], th[t].op)
        IN  /\ blk' = [blk EXCEPT ![b] = add_gpas_to_active_list(f, target)]
            /\ Owe(AddsToList(t, ActiveTarget(f, target), {b}))
    /\ free' = free - 1
    /\ Call(t, "proactive", IF th[t].op \in {"read", "write"} THEN "map" ELSE "finish")
    /\ UNCHANGED <<len, panic>>

(* emp_page_fault_hptes_map(): the fetch barrier waits for what is still   *)
(* in flight, then the page is mapped and the block unlocked.              *)
MapBlock(t, b) ==
    /\ At(t, "map") /\ b \in th[t].cur
    /\ IF Misread(blk[b]) THEN Panic("misread")
       ELSE /\ Ready(blk[b])
            /\ blk' = [blk EXCEPT ![b] =
                  Unlock(map(Set(wait_read_async(@),
                              {"HPT"} \cup IF th[t].op = "write" THEN {"DIRTY"} ELSE {})))]
            /\ Leave(t)
            /\ UNCHANGED <<len, owed, free, panic>>

(* The last act of an madvise() call that put a block into the lists.      *)
Finish(t) ==
    /\ At(t, "finish")
    /\ blk' = [b \in Blocks |-> IF b \in th[t].cur THEN Unlock(blk[b]) ELSE blk[b]]
    /\ Leave(t)
    /\ UNCHANGED <<len, owed, free, panic>>

(* Reclaim failed under the operation: a fault that already fetched its    *)
(* block goes through clear_in_flight_fetching_block(), which frees the    *)
(* request and leaves @w and the reference behind; then all unlock.        *)
ClearInFlight(r) ==
    IF r.w = "fetch" THEN free_remote_page([r EXCEPT !.w = "freed"]) ELSE r

Fail(t) ==
    /\ At(t, "error")
    /\ \A b \in th[t].cur : Ready(blk[b])
    /\ blk' = [b \in Blocks |->
                 IF b \notin th[t].cur THEN blk[b]
                 ELSE Unlock(IF th[t].op \in {"read", "write"} THEN ClearInFlight(blk[b])
                                                               ELSE blk[b])]
    /\ Leave(t)
    /\ UNCHANGED <<len, owed, free, panic>>

(***************************************************************************)
(* Reclaim: reclaim_emp_pages() and _update_lru_lists().                   *)
(***************************************************************************)
(* __wait_writeback_async(): a written block leaves the writeback list,    *)
(* and its page is free when the write is done.  A fault does this before  *)
(* it locks its block, an allocation when there is no free page.           *)
Reap(t, b) ==
    /\ b \in Unlocked("writeback")
    /\ blk' = [blk EXCEPT ![b] = Take(@, t, "WB")]
    /\ len' = DriftedInflight(len)
    /\ th' = [th EXCEPT ![t].pc = "reap", ![t].vs = {b}, ![t].ret = th[t].pc]
    /\ UNCHANGED <<owed, free, panic>>

ReapAhead(t, b) == At(t, "idle") /\ Reap(t, b)
ReapForPage(t, b) == At(t, "alloc") /\ ~PageAvailable /\ Reap(t, b)

(* GPA_PROMOTE_MASK is looked at after set_gpa_remote() has cleared it.    *)
ReapDone(t) ==
    /\ At(t, "reap")
    /\ \A b \in th[t].vs : Ready(blk[b])
    /\ Update(th[t].vs, LAMBDA b : set_gpa_remote(blk[b]))
    /\ free' = free + Cardinality(th[t].vs)
    /\ Owe(sub_inactive_list_page_len(t, th[t].vs))
    /\ Goto(t, "release")
    /\ UNCHANGED <<len, panic>>

(* The atomic updates that a thread still owes, after the lock of the list *)
(* and perhaps those of the blocks were released: one counter at a time,   *)
(* in the order of the code.                                               *)
Turn == [inflight |-> 0, inactive |-> 1, active |-> 2, proactive |-> 3,
         cur_pin |-> 4, num_pin |-> 5]

AdjustLength(t, c) ==
    LET mine == {d \in owed : d[1] = t /\ d[2] = c}
    IN  /\ panic = "none" /\ mine # {}
        /\ \A d \in owed : d[1] = t => Turn[c] <= Turn[d[2]]
        /\ len' = [len EXCEPT ![c] = @ + Cardinality(Of(mine, "add"))
                                       - Cardinality(Of(mine, "sub"))]
        /\ owed' = owed \ mine
        /\ UNCHANGED <<blk, th, free, panic>>

(* __move_to_pin_list(): inserted and unlocked, then counted.              *)
MoveToPin(t) ==
    LET pinned == Flagged(th[t].up, "PINNED")
    IN  /\ Runs(t) /\ pinned # {}
        /\ Update(pinned, LAMBDA b :
              Unlock(move_to_pin_list(blk[b], blk[b].state = "ACTIVE")))
        /\ Owe(Adds(t, "cur_pin", pinned)
               \cup Adds(t, "proactive", pinned \ Flagged(pinned, "PROACTIVE")))
        /\ th' = [th EXCEPT ![t].up = @ \ pinned]
        /\ UNCHANGED <<len, free, panic>>

(* __promote_gpas(), after check_eager_wbr() for inactive blocks, and the  *)
(* end of select_victims_pin_list(), whose blocks were counted before.     *)
Promote(t) ==
    LET up == th[t].up
        inactive == {b \in up : blk[b].state = "INACTIVE"}
    IN  /\ Runs(t) /\ up # {} /\ Flagged(up, "PINNED") = {}
        /\ \A b \in Flagged(inactive, "EAGER_WBR") : Ready(blk[b])
        /\ Update(up, LAMBDA b :
              Unlock(IF b \in inactive THEN promote_gpas(check_eager_wbr(blk[b]), FALSE)
                                       ELSE promote_gpas(blk[b], TRUE)))
        /\ Owe(Adds(t, "proactive", up \ Flagged(up, "PROACTIVE")))
        /\ th' = [th EXCEPT ![t].up = {}]
        /\ UNCHANGED <<len, free, panic>>

(* select_victims_proactive_list(): pinned blocks move to the pin list and *)
(* stay counted.  After select_victims_pin_list() the list is scanned      *)
(* again ("rescan"), full or not.                                          *)
UpdateProactive(t) ==
    /\ \/ At(t, "proactive") /\ Full("proactive", ProactiveMax)
       \/ At(t, "rescan")
    /\ LET S == Unlocked("proactive")
           pinned == Flagged(S, "PINNED")
       IN  \E V \in Selection(S, pinned) :
            /\ Update(V, LAMBDA b :
                  IF b \in pinned THEN Lift(blk[b], t)
                  ELSE Clear(Take(blk[b], t, "TRANS_PL"), {"PROACTIVE"}))
            /\ Owe(Subs(t, "proactive", V \ pinned))
            /\ Scanned(t, IF V \subseteq pinned THEN "unpin" ELSE "demote",
                       V \ pinned, V \cap pinned)
    /\ UNCHANGED <<len, free, panic>>

SkipProactive(t) ==
    /\ At(t, "proactive") /\ ~Full("proactive", ProactiveMax)
    /\ Goto(t, "active")
    /\ UNCHANGED <<blk, len, owed, free, panic>>

(* select_victims_pin_list(): under pressure, blocks are unpinned and the  *)
(* proactive list is scanned again.                                        *)
UnpinVictims(t) ==
    /\ At(t, "unpin") /\ len["cur_pin"] # 0
    /\ \E V \in Selection(Unlocked("pin"), {}) :
        /\ Update(V, LAMBDA b : Clear(Lift(blk[b], t), {"PINNED"}))
        /\ Owe(Subs(t, "cur_pin", V) \cup Subs(t, "num_pin", V))
        /\ Scanned(t, IF V = {} THEN "active" ELSE "rescan", {}, V)
    /\ UNCHANGED <<len, free, panic>>

SkipUnpin(t) ==
    /\ At(t, "unpin") /\ len["cur_pin"] = 0
    /\ Goto(t, "active")
    /\ UNCHANGED <<blk, len, owed, free, panic>>

(* The victims go to the active list, are counted, and unlocked.           *)
Demote(t) ==
    /\ At(t, "demote")
    /\ Update(th[t].vs, LAMBDA b : add_gpas_to_active_list(blk[b], "active"))
    /\ LET pinned == Flagged(th[t].vs, "PINNED")
       IN  Owe(AddsToList(t, "pin", pinned)
               \cup AddsToList(t, "active", th[t].vs \ pinned))
    /\ Goto(t, "demoted")
    /\ UNCHANGED <<len, free, panic>>

Demoted(t) ==
    /\ At(t, "demoted")
    /\ Update(th[t].vs, LAMBDA b : Unlock(blk[b]))
    /\ GotoWith(t, "active", {})
    /\ UNCHANGED <<len, owed, free, panic>>

(* select_victims_active_list(): pinned and promoted blocks go back up.    *)
(* What the scan took off the list is subtracted at once here, for the     *)
(* victims, the pinned and the promoted blocks.                            *)
UpdateActive(t) ==
    /\ At(t, "active") /\ Full("active", ActiveMax)
    /\ LET S == Unlocked("active")
           pinned == Flagged(S, "PINNED")
           moved == pinned \cup Flagged(S, "PROMOTE")
           able == {b \in S : b \in moved \/ gpa_acquire(blk[b])}
       IN  \E V \in Selection(able, moved) :
            /\ Update(V, LAMBDA b :
                  IF b \in pinned THEN Lift(blk[b], t)
                  ELSE IF b \in moved THEN Clear(Lift(blk[b], t), {"PROMOTE"})
                  ELSE Take(blk[b], t, "TRANS_AL"))
            /\ Owe(Subs(t, "active", V))
            /\ Scanned(t, IF V \subseteq moved THEN "inactive" ELSE "unmap",
                       V \ moved, V \cap moved)
    /\ UNCHANGED <<len, free, panic>>

SkipActive(t) ==
    /\ At(t, "active") /\ ~Full("active", ActiveMax)
    /\ Goto(t, "inactive")
    /\ UNCHANGED <<blk, len, owed, free, panic>>

(* update_active_list() from wait_for_prefetched_blocks() on, and the      *)
(* insertion of the victims: off the page tables, onto the inactive list.  *)
Unmapped(r) ==
    add_gpas_to_inactive(unmap_gpas(
        IF Has(r, "PREFETCHED") THEN wait_for_prefetched_block(r) ELSE r))

UnmapVictims(t) ==
    /\ At(t, "unmap")
    /\ LET vs == th[t].vs
           prefetched == Flagged(vs, "PREFETCHED")
       IN  IF \E b \in prefetched : Misread(blk[b]) THEN Panic("misread")
           ELSE /\ \A b \in prefetched : Ready(blk[b])
                /\ Update(vs, LAMBDA b : Unmapped(blk[b]))
                /\ Owe(Adds(t, "inactive", vs))
                /\ Goto(t, "eager")
                /\ UNCHANGED <<len, free, panic>>

(* do_eager_writeback(): the victims whose page nobody holds are written   *)
(* back eagerly.  A failed alloc_eager_wbr() ends this quietly, a failed   *)
(* evict_block() with an error; all victims are unlocked in any case.      *)
WriteEagerly(t) ==
    /\ At(t, "eager")
    /\ LET vs == th[t].vs
           able == IF EagerWriteback THEN {b \in vs : check_block_free(blk[b])} ELSE {}
       IN  \E E \in SUBSET able :
            \/ /\ Update(vs, LAMBDA b : Unlock(IF b \in E THEN eager_evict(blk[b])
                                                         ELSE blk[b]))
               /\ IF th[t].op = "dontneed" THEN Leave(t) ELSE GotoWith(t, "inactive", {})
            \/ /\ DonorMayFail
               /\ \E f \in able \ E : \E r \in evict_block_errors(blk[f]) :
                    Update(vs, LAMBDA b : Unlock(IF b = f THEN r
                                                 ELSE IF b \in E THEN eager_evict(blk[b])
                                                 ELSE blk[b]))
               /\ IF th[t].op = "dontneed" THEN Leave(t) ELSE GotoWith(t, "error", {})
    /\ UNCHANGED <<len, owed, free, panic>>

(* select_victims_inactive_list(): pinned and promoted blocks go back up,  *)
(* the others are evicted.  reclaim_emp_pages() starts here ("force") and  *)
(* comes back by way of all lists if there was nothing to evict.           *)
Pressure_Mutant(t) == SoftPressure(IF th[t].ret = "alloc" THEN 1 ELSE 0)
Pressure(t) == At(t, "force") \/ SoftPressure(IF th[t].ret = "alloc" THEN 1 ELSE 0)

UpdateInactive(t) ==
    /\ At(t, "force") \/ At(t, "inactive")
    /\ Pressure(t)
    /\ LET S == Unlocked("inactive")
           pinned == Flagged(S, "PINNED")
           moved == pinned \cup Flagged(S, "PROMOTE")
           able == {b \in S : b \in moved \/ check_block_free(blk[b])}
       IN  \E V \in Selection(able, moved) :
            /\ Update(V, LAMBDA b :
                  IF b \in pinned THEN Lift(blk[b], t)
                  ELSE IF b \in moved THEN Clear(Lift(blk[b], t), {"PROMOTE"})
                  ELSE Take(blk[b], t, "TRANS_IL"))
            /\ Owe(sub_inactive_list_page_len(t, V \cap moved))
            /\ Scanned(t, IF V \ moved # {} THEN "evict"
                          ELSE IF At(t, "force") THEN "proactive" ELSE th[t].ret,
                       V \ moved, V \cap moved)
    /\ UNCHANGED <<len, free, panic>>

SkipInactive(t) ==
    /\ At(t, "inactive") /\ ~Pressure(t)
    /\ Return(t)
    /\ UNCHANGED <<blk, len, owed, free, panic>>

(* update_inactive_list(), per victim: emp_writeback_block().  A clean     *)
(* block gives its page back, is no longer counted, and is unlocked.       *)
Evicted(t, b) ==
    IF th[t].vs = {b} THEN Return(t) ELSE GotoWith(t, "evict", th[t].vs \ {b})

EvictClean(t, b) ==
    /\ At(t, "evict") /\ b \in th[t].vs /\ Ready(blk[b])
    /\ LET e == check_eager_wbr(blk[b])
       IN  /\ ~check_need_writeback(e)
           /\ blk' = [blk EXCEPT ![b] = set_gpa_remote(e)]
    /\ free' = free + 1
    /\ Owe(sub_inactive_list_page_len(t, {b}))
    /\ Goto(t, "release")
    /\ UNCHANGED <<len, panic>>

Release(t) ==
    /\ At(t, "release")
    /\ LET released == {b \in th[t].vs : blk[b].state = "INIT"}
       IN  /\ Update(released, LAMBDA b : Unlock(blk[b]))
           /\ IF th[t].vs = released THEN Return(t)
              ELSE GotoWith(t, "evict", th[t].vs \ released)
    /\ UNCHANGED <<len, owed, free, panic>>

EvictPost(t, b) ==
    /\ At(t, "evict") /\ b \in th[t].vs /\ Ready(blk[b])
    /\ LET e == check_eager_wbr(blk[b])
       IN  /\ check_need_writeback(e)
           /\ blk' = [blk EXCEPT ![b] = Unlock(writeback_evict(AfterNeedCheck(e)))]
    /\ len' = [len EXCEPT !["inflight"] = @ + 1]
    /\ Evicted(t, b)
    /\ UNCHANGED <<owed, free, panic>>

(* The error path of evict_block() and of update_inactive_list(): nobody   *)
(* puts the victims back on a list.                                        *)
EvictFail(t, b) ==
    /\ At(t, "evict") /\ b \in th[t].vs /\ Ready(blk[b]) /\ DonorMayFail
    /\ LET e == check_eager_wbr(blk[b])
       IN  /\ check_need_writeback(e)
           /\ \E r \in evict_block_errors(AfterNeedCheck(e)) :
                Update(th[t].vs, LAMBDA c : Unlock(IF c = b THEN r ELSE blk[c]))
    /\ GotoWith(t, "error", {})
    /\ UNCHANGED <<len, owed, free, panic>>

(***************************************************************************)
(* Hints: emp_madvise.c.  A call works on one block.                       *)
(***************************************************************************)
Pin(t, b) ==
    /\ "pin" \in Ops /\ At(t, "idle") /\ blk[b].holder = NoThread
    /\ blk' = [blk EXCEPT ![b] =
                  Set(@, {"PINNED"} \cup IF @.state = "WB" THEN {"PROMOTE"} ELSE {})]
    /\ Owe(Adds(t, "num_pin", NewlyPinned(b)))
    /\ UNCHANGED <<th, len, free, panic>>

Unpin(t, b) ==
    /\ "unpin" \in Ops /\ At(t, "idle") /\ blk[b].holder = NoThread
    /\ LET r == Clear(blk[b], {"PINNED"})
           listed == Has(r, "PROACTIVE") /\ r.list = "pin"
       IN  /\ blk' = [blk EXCEPT ![b] = IF listed THEN Relist(r, "proactive") ELSE r]
           /\ Owe(Subs(t, "num_pin", {b} \ NewlyPinned(b))
                  \cup Subs(t, "cur_pin", IF listed THEN {b} ELSE {}))
    /\ UNCHANGED <<th, len, free, panic>>

Remote(b) == blk[b].state = "INIT" /\ blk[b].flags \cap {"PREFETCHED", "PROMOTE"} = {}

(* __emp_blk_prefetch(): a remote block is fetched, a local one promoted.  *)
Prefetch(t, b) ==
    /\ "prefetch" \in Ops /\ At(t, "idle") /\ blk[b].holder = NoThread
    /\ IF Remote(b)
       THEN blk' = [blk EXCEPT ![b] = Lock(@, t)] /\ Enter(t, "alloc", "prefetch", b)
       ELSE blk' = [blk EXCEPT ![b] = Set(@, {"PROMOTE"})] /\ UNCHANGED th
    /\ UNCHANGED <<len, owed, free, panic>>

(* __emp_blk_prefetch_complete(): a prefetch with the HPT flag is waited   *)
(* for and mapped, any other loses its flag only.                          *)
Populate(t, b) ==
    /\ "populate" \in Ops /\ At(t, "idle") /\ blk[b].holder = NoThread
    /\ LET r == blk[b]
           resumed == Has(r, "PREFETCHED") /\ Has(r, "HPT")
           c == IF resumed THEN map(wait_read_async(r)) ELSE r
       IN  IF r.state = "INIT"
           THEN /\ blk' = [blk EXCEPT ![b] = Lock(Clear(@, {"PREFETCHED"}), t)]
                /\ Enter(t, "alloc", "populate", b)
                /\ UNCHANGED <<len, owed, free, panic>>
           ELSE IF resumed /\ Misread(r) THEN Panic("misread")
           ELSE /\ resumed => Ready(r)
                /\ blk' = [blk EXCEPT ![b] = Set(Clear(c, {"PREFETCHED"}), {"PROMOTE"})]
                /\ UNCHANGED <<th, len, owed, free, panic>>

(* __emp_blk_move_to_inactive(): GPA_PROMOTE_MASK and GPA_PINNED_MASK go;  *)
(* an active block nobody uses leaves its list and is unmapped.            *)
DontNeed(t, b) ==
    /\ "dontneed" \in Ops /\ At(t, "idle") /\ blk[b].holder = NoThread
    /\ ~Has(blk[b], "PREFETCHED")
    /\ LET r == Clear(blk[b], {"PROMOTE", "PINNED"})
           pin == IF Has(r, "PROACTIVE") /\ r.list = "pin" THEN 1 ELSE 0
           target == IF Has(r, "PROACTIVE") THEN "proactive" ELSE "active"
       IN  IF r.state = "ACTIVE" /\ gpa_acquire(r)
           THEN /\ blk' = [blk EXCEPT ![b] = Clear(Take(r, t, "TRANS_AL"), {"PROACTIVE"})]
                /\ len' = [len EXCEPT !["cur_pin"] = @ - pin]
                /\ Owe(Subs(t, target, {b}))
                /\ th' = [th EXCEPT ![t] =
                            [IdleThread EXCEPT !.pc = "unmap", !.op = "dontneed", !.vs = {b}]]
           ELSE blk' = [blk EXCEPT ![b] = r] /\ UNCHANGED <<th, len, owed>>
    /\ UNCHANGED <<free, panic>>

(***************************************************************************)
(* The memory and the DMA engine.                                          *)
(***************************************************************************)
Write(b) ==
    /\ panic = "none" /\ blk[b].mapped
    /\ blk' = [blk EXCEPT ![b].pteDirty = TRUE,
                          ![b].remote = IF @ = "fresh" THEN "stale" ELSE @]
    /\ UNCHANGED <<th, len, owed, free, panic>>

CompleteIO(b) ==
    /\ panic = "none" /\ ~blk[b].done
    /\ blk' = [blk EXCEPT ![b].done = TRUE,
                          ![b].remote = IF blk[b].w = "fetch" THEN @ ELSE "fresh"]
    /\ UNCHANGED <<th, len, owed, free, panic>>

-----------------------------------------------------------------------------
Init ==
    /\ blk = [b \in Blocks |-> NewBlock]
    /\ th = [t \in Threads |-> IdleThread]
    /\ len = [c \in Counters |-> 0]
    /\ owed = {}
    /\ free = Pages
    /\ panic = "none"

(* What a thread does on its own, once it has entered the kernel.          *)
Work(t) ==
    \/ \E b \in Blocks :
          \/ FaultActive(t, b) \/ FaultInactive(t, b) \/ FaultWriteback(t, b)
          \/ FaultInvalid(t, b) \/ FaultRemote(t, b) \/ Fetch(t, b) \/ MapBlock(t, b)
          \/ EvictClean(t, b) \/ EvictPost(t, b) \/ EvictFail(t, b)
          \/ ReapForPage(t, b)
    \/ \E c \in Counters : AdjustLength(t, c)
    \/ MoveToPin(t) \/ Promote(t)
    \/ AllocReclaim(t) \/ ReapDone(t) \/ Finish(t) \/ Fail(t)
    \/ UpdateProactive(t) \/ SkipProactive(t) \/ UnpinVictims(t) \/ SkipUnpin(t)
    \/ Demote(t) \/ Demoted(t)
    \/ UpdateActive(t) \/ SkipActive(t) \/ UnmapVictims(t) \/ WriteEagerly(t)
    \/ UpdateInactive(t) \/ SkipInactive(t) \/ Release(t)

(* What it may be called for.                                              *)
Syscall(t) ==
    \E b \in Blocks :
        \/ \E op \in {"read", "write"} : FaultLock(t, b, op)
        \/ ReapAhead(t, b)
        \/ Pin(t, b) \/ Unpin(t, b) \/ Prefetch(t, b) \/ Populate(t, b) \/ DontNeed(t, b)

Halted == panic # "none" /\ UNCHANGED vars
Next ==
    \/ \E t \in Threads : Work(t) \/ Syscall(t)
    \/ \E b \in Blocks : Write(b) \/ CompleteIO(b)
    \/ Halted

(* A thread in the kernel keeps running and the device completes requests; *)
(* nobody is obliged to fault, to advise or to write.                      *)
Fairness ==
    /\ \A t \in Threads : WF_vars(Work(t))
    /\ \A b \in Blocks : WF_vars(CompleteIO(b))

Spec == Init /\ [][Next]_vars
FairSpec == Spec /\ Fairness

-----------------------------------------------------------------------------
(* The variables keep their types; free never falls below zero:            *)
(* _alloc_pages() hands out no page that the cache does not have.          *)
TypeOK ==
    /\ blk \in [Blocks -> Block]
    /\ th \in [Threads -> Thread]
    /\ len \in [Counters -> Int]
    /\ owed \subseteq Threads \X Counters \X {"add", "sub"} \X Blocks
    /\ free \in Nat
    /\ panic \in {"none", "BUG", "misread"}

Resident(r) == r.state # "INIT"
Free(b) == blk[b].holder = NoThread

(* No update is ever lost: once a block that has been used is remote, its  *)
(* remote page holds what was last written to it, whatever dirty bits,     *)
(* eager writebacks and failures came before (check_need_writeback(),      *)
(* check_eager_wbr(), set_gpa_remote()).                                   *)
NoLostUpdate ==
    \A b \in Blocks : Free(b) /\ ~Resident(blk[b]) /\ Has(blk[b], "TOUCHED")
                         => blk[b].remote = "fresh"

(* Neither the device nor a program works on a page that the other one is  *)
(* using: a mapped page has no request in flight, and the mapping is one   *)
(* that unmap_gpas() will find (GPA_HPT_MASK).                             *)
NoTornPage ==
    \A b \in Blocks : blk[b].mapped =>
        blk[b].page /\ Has(blk[b], "HPT") /\ blk[b].w = "none"

(* Whoever locks a block finds it on the one list its state and its        *)
(* GPA_PROACTIVE_MASK speak of: remove_gpa_from_lru() and the victim scans *)
(* choose list and counter by these.  Nobody finds a transitional state    *)
(* (gpa.h: "hidden state"), on which handle_local_fault() relies when it   *)
(* ends in BUG().                                                          *)
ListOf(r) ==
    CASE r.state = "INIT" -> {"none"}
      [] r.state = "ACTIVE" -> IF Has(r, "PROACTIVE") THEN {"proactive", "pin"} ELSE {"active"}
      [] r.state = "INACTIVE" -> {"inactive"}
      [] r.state = "WB" -> {"writeback"}
      [] OTHER -> {}
ListAgreesWithState == \A b \in Blocks : Free(b) => blk[b].list \in ListOf(blk[b])

(* The lengths that decide about reclaim may lag behind the lists, but     *)
(* only by what a thread is about to add or to subtract: for all that      *)
(* scans, faults and hints move blocks between lists under different       *)
(* locks, no update is forgotten or made twice.  A block is counted as     *)
(* proactive while it has GPA_PROACTIVE_MASK, also on its way between the  *)
(* proactive list and the pin list.  And no page of the cache is lost or   *)
(* handed out twice.                                                       *)
Count(P(_)) == Cardinality({b \in Blocks : P(blk[b])})
Due(c) == {d \in owed : d[2] = c}
Settled(c) == len[c] + Cardinality(Of(Due(c), "add")) - Cardinality(Of(Due(c), "sub"))
LengthsExact ==
    /\ Settled("proactive") = Count(LAMBDA r : Has(r, "PROACTIVE"))
    /\ Settled("cur_pin") = Count(LAMBDA r : r.list = "pin")
    /\ Settled("active") = Count(LAMBDA r : r.list = "active")
    /\ Settled("inactive") =
          Count(LAMBDA r : r.list = "inactive" \/ r.state \in {"TRANS_IL", "WB"})
    /\ free + Count(LAMBDA r : r.page) = Pages

(* A page goes back to the free page lists only when no program maps it    *)
(* and the device is through with it (free_gpa() by way of                 *)
(* set_gpa_remote(), from three places).                                   *)
PageReleasedUnused ==
    [][\A b \in Blocks : blk[b].page /\ ~blk'[b].page
          => ~blk[b].mapped /\ (blk[b].w = "none" \/ blk[b].done)]_vars

(* Reclaim never takes a block away that is pinned: as long as it stays    *)
(* pinned, a resident block not yet on its way out stays resident.         *)
PinnedStays ==
    [][\A b \in Blocks :
          /\ blk[b].state \in {"ACTIVE", "INACTIVE"}
          /\ Has(blk[b], "PINNED") /\ Has(blk'[b], "PINNED")
          => blk'[b].state \in {"ACTIVE", "INACTIVE"}]_vars

(* vm.h: num_pin_blocks is the "number of blocks with GPA_PINNED_MASK",    *)
(* but for what pin, unpin and reclaim have still to add or to subtract.   *)
NumPinExact == Settled("num_pin") = Count(LAMBDA r : Has(r, "PINNED"))

(* @w means what the comment of __clear_block_w() says: an eager_wbr while *)
(* GPA_EAGER_WBR_MASK is set, the writeback while the block is GPA_WB, or  *)
(* a fetch while the prefetch is in flight.                                *)
RequestOfItsKind ==
    \A b \in Blocks : Free(b) =>
        blk[b].w = CASE Has(blk[b], "EAGER_WBR") -> "eager"
                     [] blk[b].state = "WB" -> "writeback"
                     [] OTHER -> IF blk[b].w = "fetch" /\ Has(blk[b], "PREFETCHED")
                                 THEN "fetch" ELSE "none"

(* Everybody gets out of the kernel: once no further call is made, every   *)
(* fault and every hint comes to its end, also those that wait for a page  *)
(* while the cache is full of active, prefetched or pinned blocks.         *)
CallsEnd ==
    <>[][~\E t \in Threads : Syscall(t)]_vars => \A t \in Threads : <>[](th[t].pc = "idle")
=============================================================================
