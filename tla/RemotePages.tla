---------------------------- MODULE RemotePages ----------------------------
(***************************************************************************)
(* Who owns which slot of the memory donors: the allocation policies of    *)
(* src/module_gpl/remote_page.c, the release of remote pages when a block  *)
(* is fetched, faulted back from its writeback or destroyed, and the       *)
(* remote pages that forked processes share through a cow_remote_page      *)
(* (src/module_gpl/cow.c).                                                 *)
(*                                                                         *)
(* Sizes are in subblocks (gpa_subblock_order = dma_order = one slot).     *)
(* The donors are connected before the first fault and stay.  A block is   *)
(* here what its remote pages can tell apart; its life in the local cache  *)
(* is the module BlockLifecycle.                                           *)
(***************************************************************************)
EXTENDS Integers, FiniteSets

CONSTANTS
    Threads,   \* kernel threads that evict, fault, fork-copy and close
    Blocks,    \* blocks of gpa descriptors
    NoBlock,   \* a thread has no (second) block in hand
    Subblocks, \* subblocks of a block
    Mrs,       \* number of memory regions, emm->mrs.memregs_last
    Size,      \* slots of each memory region, mr->size
    Cows,      \* identities of cow_remote_page records
    Configs,   \* the emm->config records to start from
    Failures   \* what may fail: "post"ing a write, a cow "record", "pages"

Policies == {"sequential", "same_mr", "diff_mr"}

ASSUME RemoteAssumption ==
    /\ {Subblocks, Mrs} \subseteq Nat \ {0}
    /\ Size \in [0 .. Mrs - 1 -> Nat]
    /\ NoBlock \notin Blocks
    /\ IsFiniteSet(Blocks)
    /\ IsFiniteSet(Cows)
    /\ Failures \subseteq {"post", "record", "pages"}
    /\ Configs \subseteq [policy : Policies, policy_block : Nat, reuse : BOOLEAN]

VARIABLES
    config,     \* emm->config: remote_policy_subblock, _block, remote_reuse
    mr,         \* the memory regions: bitmap, counters and lock
    last_alloc, \* emm->mrs.memregs_last_alloc
    num_alloc,  \* emm->mrs.memregs_num_alloc, modulo remote_policy_block
    rp,         \* gpa->remote_page of every subblock
    cow,        \* the cow_remote_page records
    st,         \* what each block is doing
    reading,    \* subblocks whose fetch from the donor is in flight
    th          \* the threads

vars == <<config, mr, last_alloc, num_alloc, rp, cow, st, reading, th>>

MrIds == 0 .. Mrs - 1
Offsets(m) == 0 .. Size[m] - 1
Subs == 1 .. Subblocks

(***************************************************************************)
(* A remote page: free, a slot of a region, or a pointer to a record that  *)
(* several subblocks share.                                                *)
(***************************************************************************)
Free == [kind |-> "free"]
Slot(m, o) == [kind |-> "slot", mr |-> m, off |-> o]
Cow(c) == [kind |-> "cow", id |-> c]
Slots == UNION {{Slot(m, o) : o \in Offsets(m)} : m \in MrIds}
RemotePage == {Free} \cup Slots \cup {Cow(c) : c \in Cows}
is_free(r) == r = Free
is_cow(r) == r.kind = "cow"

Unused == [refcnt |-> 0, val |-> Free]

NoMr == -1
Idle == [pc |-> "idle", blk |-> NoBlock, new |-> NoBlock, i |-> 1,
         mrid |-> 0, first |-> 0, held |-> NoMr]

Locked(b) == \E t \in Threads : b \in {th[t].blk, th[t].new}

(***************************************************************************)
(* create_mr() starts every region with all bits set (set = free).         *)
(***************************************************************************)
NewMr(m) == [bits |-> Offsets(m), alloc_len |-> 0, free_start |-> 0,
          alloc_next |-> 0, locked |-> FALSE]

Init ==
    /\ config \in Configs
    /\ mr = [m \in MrIds |-> NewMr(m)]
    /\ last_alloc = 0
    /\ num_alloc = 0
    /\ rp = [b \in Blocks |-> [i \in Subs |-> Free]]
    /\ cow = [c \in Cows |-> Unused]
    /\ st = [b \in Blocks |-> "none"]
    /\ reading = [b \in Blocks |-> {}]
    /\ th = [t \in Threads |-> Idle]

(***************************************************************************)
(* The bitmap of a region: the next free slot from alloc_next, else from   *)
(* free_start; the size of the region when there is none.                  *)
(***************************************************************************)
find_next_bit(m, from) ==
    LET ahead == {o \in mr[m].bits : o >= from}
    IN  IF ahead = {} THEN Size[m]
        ELSE CHOOSE o \in ahead : \A p \in ahead : o <= p

find_slot(m) ==
    LET next == find_next_bit(m, mr[m].alloc_next)
    IN  IF next # Size[m] THEN next ELSE find_next_bit(m, mr[m].free_start)

take_slot_Mutant(m, o) ==
    [m EXCEPT !.bits = @ \ {o}, !.alloc_next = o + 1, !.free_start = o + 1]
take_slot(m, o) ==
    [m EXCEPT !.bits = @ \ {o}, !.alloc_next = o + 1,
              !.free_start = IF @ = o THEN o + 1 ELSE @]

give_slot_Mutant(m, o) ==
    [m EXCEPT !.bits = @ \cup {o}, !.free_start = IF o < @ THEN o ELSE @]
give_slot(m, o) ==
    [m EXCEPT !.alloc_len = @ - 1, !.bits = @ \cup {o},
              !.free_start = IF o < @ THEN o ELSE @]

(* __remote_page_release() waits for the lock of the region.               *)
CanRelease(r) == ~mr[r.mr].locked
remote_page_release(r) == mr' = [mr EXCEPT ![r.mr] = give_slot(@, r.off)]

(***************************************************************************)
(* put_cow_remote_page(): a pointer to a shared record is dropped.  The    *)
(* last one gets the slot back, the others are left without remote page.   *)
(***************************************************************************)
LastRef_Mutant(r) == is_cow(r) => cow[r.id].refcnt <= 2
LastRef(r) == is_cow(r) => cow[r.id].refcnt = 1
Behind(r) == IF is_cow(r) THEN cow[r.id].val ELSE r
put_cow_Mutant(r) == UNCHANGED cow
put_cow(r) ==
    cow' = IF is_cow(r)
           THEN [cow EXCEPT ![r.id] = IF @.refcnt = 1 THEN Unused
                                      ELSE [@ EXCEPT !.refcnt = cow[r.id].refcnt - 1]]
           ELSE cow

SetRp(b, i, r) == rp' = [rp EXCEPT ![b][i] = r]

(* free_remote_page(): nothing for a shared page or when pages are reused. *)
free_remote_page(b, i) ==
    LET r == rp[b][i]
    IN  IF is_free(r) \/ is_cow(r) \/ config.reuse
        THEN UNCHANGED <<mr, rp>>
        ELSE CanRelease(r) /\ remote_page_release(r) /\ SetRp(b, i, Free)

(***************************************************************************)
(* Threads: a block in hand is locked for everybody else.                  *)
(***************************************************************************)
Start(t, pc, b) == th' = [th EXCEPT ![t] = [Idle EXCEPT !.pc = pc, !.blk = b]]
Done(t) == th' = [th EXCEPT ![t] = Idle]
Advance(t) == th' = [th EXCEPT ![t].i = @ + 1]
At(t, pc) == th[t].pc = pc /\ th[t].i \in Subs
AtEnd(t, pc) == th[t].pc = pc /\ th[t].i = Subblocks + 1
Become(b, s) == st' = [st EXCEPT ![b] = s]
Quiet(b) == ~Locked(b) /\ reading[b] = {}
AllHeld(b) == \A i \in Subs : ~is_free(rp[b][i])

regions == <<mr, last_alloc, num_alloc>>

(***************************************************************************)
(* A fault on a block that was never touched (or its private copy by       *)
(* dup_cow_gpadesc_local()) fetches nothing.  When it gets no pages the    *)
(* new descriptor stays behind, untouched.                                 *)
(***************************************************************************)
FirstTouch(b) ==
    /\ st[b] \in {"none", "untouched"} /\ Quiet(b)
    /\ Become(b, "resident")
    /\ UNCHANGED <<config, regions, rp, cow, reading, th>>

FirstTouchFails(b) ==
    /\ "pages" \in Failures
    /\ st[b] = "none" /\ Quiet(b)
    /\ Become(b, "untouched")
    /\ UNCHANGED <<config, regions, rp, cow, reading, th>>

(***************************************************************************)
(* evict_block() -> alloc_remote_page().  The scan starts at the region of *)
(* the last allocation, or at the next one every remote_policy_block       *)
(* allocations (__check_mr_change()).                                      *)
(***************************************************************************)
same_mr == config.policy = "same_mr"
check_mr_change == config.policy_block # 0 /\ num_alloc = 0
first_mr_Mutant == IF check_mr_change THEN last_alloc + 1 ELSE last_alloc
first_mr == IF check_mr_change THEN (last_alloc + 1) % Mrs ELSE last_alloc

Evict(t, b) ==
    /\ th[t] = Idle
    /\ st[b] = "resident" /\ Quiet(b)
    /\ IF AllHeld(b)
       THEN Start(t, "post", b) /\ UNCHANGED num_alloc
       ELSE /\ th' = [th EXCEPT ![t] = [Idle EXCEPT !.pc = "scan", !.blk = b,
                            !.mrid = first_mr, !.first = first_mr]]
            /\ num_alloc' = IF config.policy_block = 0 THEN num_alloc
                            ELSE (num_alloc + 1) % config.policy_block
    /\ UNCHANGED <<config, mr, last_alloc, rp, cow, st, reading>>

(* __lock_next_avail_mr(): same_mr looks for room for the whole block.     *)
need == IF same_mr THEN Subblocks ELSE 1
avail(m) == Size[m] >= mr[m].alloc_len + need

LockMr(t) ==
    LET m == th[t].mrid
    IN  /\ th[t].pc = "scan"
        /\ avail(m)
        /\ ~mr[m].locked
        /\ th' = [th EXCEPT ![t].pc = "hold", ![t].held = m]
        /\ mr' = [mr EXCEPT ![m].locked = TRUE,
                            ![m].alloc_len = @ + IF same_mr THEN Subblocks ELSE 0]
        /\ last_alloc' = IF same_mr THEN m ELSE last_alloc
        /\ UNCHANGED <<config, num_alloc, rp, cow, st, reading>>

(* The loop is back where it began.                                        *)
Around_Mutant(x, m) == m = x.first + Mrs
Around(x, m) == m = x.first

(* No room here.  Once around, the loop ends without a region: the         *)
(* subblocks that have none yet make the allocation fail.                  *)
NextMr(t) ==
    LET m == (th[t].mrid + 1) % Mrs
    IN  /\ th[t].pc = "scan"
        /\ ~avail(th[t].mrid)
        /\ th' = [th EXCEPT ![t] =
                    IF ~Around(th[t], m) THEN [@ EXCEPT !.mrid = m]
                    ELSE IF @.i = Subblocks + 1 THEN [@ EXCEPT !.pc = "post"]
                    ELSE [@ EXCEPT !.pc = "undo", !.i = 1]]
        /\ UNCHANGED <<config, regions, rp, cow, st, reading>>

(* The next thread state after a subblock: diff_mr goes on to another      *)
(* region, and looks for one even behind the last subblock.                *)
ToNextMr(x) == config.policy = "diff_mr" /\ (x.held + 1) % Mrs # x.held
Rescan(x) == [x EXCEPT !.pc = "scan", !.held = NoMr,
                       !.mrid = (x.held + 1) % Mrs,
                       !.first = (x.held + 1) % Mrs]

(* One turn of the loop of a policy, with the region locked.               *)
FillSubblock(t) ==
    LET x == th[t]
        m == mr[x.held]
        o == find_slot(x.held)
        r == rp[x.blk][x.i]
        got == IF is_free(r) THEN take_slot(m, o) ELSE m
        paid == IF same_mr \/ ~is_free(r) THEN got ELSE [got EXCEPT !.alloc_len = @ + 1]
    IN  /\ At(t, "hold")
        /\ is_free(r) => o # Size[x.held]
        /\ rp' = IF is_free(r) THEN [rp EXCEPT ![x.blk][x.i] = Slot(x.held, o)] ELSE rp
        /\ mr' = [mr EXCEPT ![x.held] = [paid EXCEPT !.locked = ~ToNextMr(x)]]
        /\ th' = [th EXCEPT ![t] = [IF ToNextMr(x) THEN Rescan(x) ELSE x
                                    EXCEPT !.i = x.i + 1]]
        /\ UNCHANGED <<config, last_alloc, num_alloc, cow, st, reading>>

(* sequential: the region turns out to be full, go on behind it.           *)
RegionFull(t) ==
    LET x == th[t]
    IN  /\ At(t, "hold")
        /\ config.policy = "sequential"
        /\ is_free(rp[x.blk][x.i])
        /\ find_slot(x.held) = Size[x.held]
        /\ mr' = [mr EXCEPT ![x.held].locked = FALSE]
        /\ th' = [th EXCEPT ![t] = [Rescan(x) EXCEPT !.first = x.first]]
        /\ UNCHANGED <<config, last_alloc, num_alloc, rp, cow, st, reading>>

FinishAlloc(t) ==
    LET m == th[t].held
    IN  /\ AtEnd(t, "hold")
        /\ mr' = [mr EXCEPT ![m].locked = FALSE]
        /\ last_alloc' = IF same_mr THEN last_alloc ELSE m
        /\ th' = [th EXCEPT ![t].pc = "post", ![t].held = NoMr]
        /\ UNCHANGED <<config, num_alloc, rp, cow, st, reading>>

(* The allocation failed: __free_remote_page_block() gives back what the   *)
(* block has, unless remote pages are reused.                              *)
UndoAlloc(t) ==
    LET b == th[t].blk
        i == th[t].i
    IN  /\ At(t, "undo")
        /\ IF is_free(rp[b][i]) \/ config.reuse
           THEN UNCHANGED <<mr, rp>>
           ELSE /\ CanRelease(Behind(rp[b][i]))
                /\ remote_page_release(Behind(rp[b][i]))
                /\ SetRp(b, i, Free)
        /\ Advance(t)
        /\ UNCHANGED <<config, last_alloc, num_alloc, cow, st, reading>>

UndoEnd(t) ==
    /\ AtEnd(t, "undo")
    /\ Done(t)
    /\ UNCHANGED <<config, regions, rp, cow, st, reading>>

PostWriteback(t) ==
    /\ th[t].pc = "post"
    /\ Become(th[t].blk, "writeback")
    /\ Done(t)
    /\ UNCHANGED <<config, regions, rp, cow, reading>>

PostFails(t) ==
    /\ th[t].pc = "post"
    /\ "post" \in Failures
    /\ Start(t, "drop", th[t].blk)
    /\ UNCHANGED <<config, regions, rp, cow, st, reading>>

(***************************************************************************)
(* The writeback completes, or a fault takes the block back and every      *)
(* subblock drops its remote page.                                         *)
(***************************************************************************)
WritebackDone(b) ==
    /\ st[b] = "writeback" /\ ~Locked(b)
    /\ Become(b, "remote")
    /\ UNCHANGED <<config, regions, rp, cow, reading, th>>

WritebackFault(t, b) ==
    /\ th[t] = Idle
    /\ st[b] = "writeback" /\ ~Locked(b)
    /\ Start(t, "drop", b)
    /\ UNCHANGED <<config, regions, rp, cow, st, reading>>

DropSubblock(t) ==
    /\ At(t, "drop")
    /\ free_remote_page(th[t].blk, th[t].i)
    /\ Advance(t)
    /\ UNCHANGED <<config, last_alloc, num_alloc, cow, st, reading>>

DropEnd(t) ==
    /\ AtEnd(t, "drop")
    /\ Become(th[t].blk, "resident")
    /\ Done(t)
    /\ UNCHANGED <<config, regions, rp, cow, reading>>

(* A clean block whose donor copy is complete is not written again.        *)
Discard(b) ==
    /\ config.reuse
    /\ st[b] = "resident" /\ Quiet(b) /\ AllHeld(b)
    /\ Become(b, "remote")
    /\ UNCHANGED <<config, regions, rp, cow, reading, th>>

(***************************************************************************)
(* A block comes back: its reads complete one by one, and each gives up    *)
(* the remote page it came from (__clear_fetching_work_request()).         *)
(***************************************************************************)
Fetch(b) ==
    /\ st[b] = "remote" /\ ~Locked(b)
    /\ Become(b, "resident")
    /\ reading' = [reading EXCEPT ![b] = Subs]
    /\ UNCHANGED <<config, regions, rp, cow, th>>

FetchDone_Mutant(b, i) ==
    /\ i \in reading[b] /\ ~Locked(b)
    /\ reading' = [reading EXCEPT ![b] = @ \ {i}]
    /\ free_remote_page(b, i)
    /\ UNCHANGED <<config, last_alloc, num_alloc, cow, st, th>>

FetchDone(b, i) ==
    LET r == rp[b][i]
    IN  /\ i \in reading[b] /\ ~Locked(b)
        /\ reading' = [reading EXCEPT ![b] = @ \ {i}]
        /\ put_cow(r)
        /\ IF ~LastRef(r)
           THEN SetRp(b, i, Free) /\ UNCHANGED mr
           ELSE IF config.reuse
           THEN SetRp(b, i, Behind(r)) /\ UNCHANGED mr
           ELSE /\ CanRelease(Behind(r))
                /\ remote_page_release(Behind(r))
                /\ SetRp(b, i, Free)
        /\ UNCHANGED <<config, last_alloc, num_alloc, st, th>>

(***************************************************************************)
(* The last view of a block closes: free_gpa_dir_region() ->               *)
(* remote_page_release().                                                  *)
(***************************************************************************)
Close(t, b) ==
    /\ th[t] = Idle
    /\ st[b] # "none" /\ Quiet(b)
    /\ Start(t, "destroy", b)
    /\ UNCHANGED <<config, regions, rp, cow, st, reading>>

DestroySubblock(t) ==
    LET b == th[t].blk
        i == th[t].i
        r == rp[b][i]
    IN  /\ At(t, "destroy")
        /\ IF is_free(r) THEN UNCHANGED <<mr, rp, cow>>
           ELSE /\ put_cow(r)
                /\ SetRp(b, i, Free)
                /\ IF LastRef(r)
                   THEN CanRelease(Behind(r)) /\ remote_page_release(Behind(r))
                   ELSE UNCHANGED mr
        /\ Advance(t)
        /\ UNCHANGED <<config, last_alloc, num_alloc, st, reading>>

DestroyEnd(t) ==
    /\ AtEnd(t, "destroy")
    /\ Become(th[t].blk, "none")
    /\ Done(t)
    /\ UNCHANGED <<config, regions, rp, cow, reading>>

(***************************************************************************)
(* A forked process writes to a block it shares and that has no local      *)
(* page: dup_cow_gpadesc_remote() lets the old and the new descriptor      *)
(* share every remote page.                                                *)
(***************************************************************************)
ForkCopy(t, old, new) ==
    /\ th[t] = Idle
    /\ st[old] \in {"remote", "untouched"} /\ ~Locked(old)
    /\ st[new] = "none" /\ ~Locked(new)
    /\ th' = [th EXCEPT ![t] = [Idle EXCEPT !.pc = "dup", !.blk = old, !.new = new]]
    /\ UNCHANGED <<config, regions, rp, cow, st, reading>>

get_cow_Mutant(r, c) == [refcnt |-> 1, val |-> r]
get_cow(r, c) == IF is_cow(r) THEN [cow[c] EXCEPT !.refcnt = @ + 1]
                 ELSE [refcnt |-> 2, val |-> r]

(* get_cow_remote_page(): the first copy allocates the record.             *)
GetCow(t) ==
    LET old == th[t].blk
        i == th[t].i
        r == rp[old][i]
    IN  /\ At(t, "dup")
        /\ \E c \in Cows :
            /\ IF is_cow(r) THEN c = r.id ELSE cow[c] = Unused
            /\ cow' = [cow EXCEPT ![c] = get_cow(r, c)]
            /\ rp' = [rp EXCEPT ![old][i] = Cow(c), ![th[t].new][i] = Cow(c)]
        /\ Advance(t)
        /\ UNCHANGED <<config, regions, st, reading>>

DupEnd(t) ==
    /\ AtEnd(t, "dup")
    /\ Become(th[t].new, st[th[t].blk])
    /\ Done(t)
    /\ UNCHANGED <<config, regions, rp, cow, reading>>

(* No memory for a record: the subblocks before it are put back.           *)
GetCowFails(t) ==
    /\ At(t, "dup")
    /\ "record" \in Failures
    /\ ~is_cow(rp[th[t].blk][th[t].i])
    /\ th' = [th EXCEPT ![t].pc = "dupundo"]
    /\ UNCHANGED <<config, regions, rp, cow, st, reading>>

UndoCow_Mutant(r) == [rp |-> Free, cow |-> Unused]
UndoCow(r) ==
    IF cow[r.id].refcnt = 2 THEN [rp |-> cow[r.id].val, cow |-> Unused]
    ELSE [rp |-> Free, cow |-> [cow[r.id] EXCEPT !.refcnt = @ - 2]]

PutCowBack(t) ==
    LET old == th[t].blk
        i == th[t].i - 1
        r == rp[old][i]
    IN  /\ th[t].pc = "dupundo" /\ i > 0
        /\ cow' = [cow EXCEPT ![r.id] = UndoCow(r).cow]
        /\ rp' = [rp EXCEPT ![old][i] = UndoCow(r).rp, ![th[t].new][i] = Free]
        /\ th' = [th EXCEPT ![t].i = i]
        /\ UNCHANGED <<config, regions, st, reading>>

DupUndoEnd(t) ==
    /\ th[t].pc = "dupundo" /\ th[t].i = 1
    /\ Done(t)
    /\ UNCHANGED <<config, regions, rp, cow, st, reading>>

(* dup_cow_gpadesc_handoff(): @new takes the pages of @old, which keeps    *)
(* its remote pages and nothing else.                                      *)
Handoff(old, new) ==
    /\ config.reuse
    /\ st[old] = "resident" /\ Quiet(old) /\ AllHeld(old)
    /\ st[new] = "none" /\ ~Locked(new)
    /\ st' = [st EXCEPT ![old] = "remote", ![new] = "resident"]
    /\ UNCHANGED <<config, regions, rp, cow, reading, th>>

AllocStep(t) ==
    LockMr(t) \/ NextMr(t) \/ FillSubblock(t) \/ RegionFull(t) \/ FinishAlloc(t)
        \/ UndoAlloc(t) \/ UndoEnd(t) \/ PostWriteback(t)

Step(t) ==
    \/ AllocStep(t) \/ PostFails(t)
    \/ DropSubblock(t) \/ DropEnd(t)
    \/ DestroySubblock(t) \/ DestroyEnd(t)
    \/ GetCow(t) \/ DupEnd(t) \/ GetCowFails(t) \/ PutCowBack(t) \/ DupUndoEnd(t)

Next ==
    \/ \E t \in Threads : Step(t)
    \/ \E t \in Threads, b \in Blocks : Evict(t, b) \/ WritebackFault(t, b) \/ Close(t, b)
    \/ \E b \in Blocks : FirstTouch(b) \/ FirstTouchFails(b) \/ WritebackDone(b)
                            \/ Discard(b) \/ Fetch(b)
    \/ \E b \in Blocks, i \in Subs : FetchDone(b, i)
    \/ \E t \in Threads, old, new \in Blocks : ForkCopy(t, old, new)
    \/ \E old, new \in Blocks : Handoff(old, new)

Spec == Init /\ [][Next]_vars

(* A thread on a cpu goes on, and the queued spin lock of a region reaches *)
(* its waiters in order: one that waits for it is not passed over forever. *)
Fairness == \A t \in Threads : SF_vars(Step(t))
FairSpec == Spec /\ Fairness

-----------------------------------------------------------------------------
TypeOK ==
    /\ config \in Configs
    /\ mr \in [MrIds -> [bits : SUBSET Nat, alloc_len : Int, free_start : Nat,
                         alloc_next : Nat, locked : BOOLEAN]]
    /\ \A m \in MrIds : mr[m].bits \subseteq Offsets(m)
    /\ last_alloc \in MrIds
    /\ num_alloc \in Nat
    /\ rp \in [Blocks -> [Subs -> RemotePage]]
    /\ cow \in [Cows -> [refcnt : Nat, val : {Free} \cup Slots]]
    /\ st \in [Blocks -> {"none", "untouched", "resident", "writeback", "remote"}]
    /\ reading \in [Blocks -> SUBSET Subs]
    /\ th \in [Threads ->
                [pc : {"idle", "scan", "hold", "undo", "post", "drop", "destroy",
                       "dup", "dupundo"},
                 blk : Blocks \cup {NoBlock}, new : Blocks \cup {NoBlock},
                 i : 1 .. Subblocks + 1, mrid : MrIds, first : MrIds,
                 held : MrIds \cup {NoMr}]]

(* The parties that may hold a slot: subblocks and shared records.         *)
Subpages == Blocks \X Subs
Page(p) == rp[p[1]][p[2]]
HolderSubs(s) == {p \in Subpages : Page(p) = s}
HolderCows(s) == {c \in Cows : cow[c].refcnt > 0 /\ cow[c].val = s}
Pointers(c) == {p \in Subpages : Page(p) = Cow(c)}

(***************************************************************************)
(* No slot of a donor is used by two blocks, unless they share it through  *)
(* one record: a writeback never overwrites somebody else's page.          *)
(***************************************************************************)
NoSlotTwice ==
    \A s \in Slots :
        /\ \A p, q \in HolderSubs(s) : p = q
        /\ \A c, d \in HolderCows(s) : c = d
        /\ HolderSubs(s) = {} \/ HolderCows(s) = {}

(***************************************************************************)
(* The bitmap says free exactly of the slots nobody holds: none is handed  *)
(* out while in use, none is lost when fetches, closes and fork copies     *)
(* give up their references in any order.                                  *)
(***************************************************************************)
BitmapExact ==
    \A m \in MrIds : \A o \in Offsets(m) :
        o \in mr[m].bits <=> HolderSubs(Slot(m, o)) = {} /\ HolderCows(Slot(m, o)) = {}

(***************************************************************************)
(* A cow_remote_page is counted once for each subblock that points at it.  *)
(***************************************************************************)
RefcntExact == \A c \in Cows : cow[c].refcnt = Cardinality(Pointers(c))

(***************************************************************************)
(* alloc_len never says less than what is taken, and exactly what is taken *)
(* except after same_mr paid for a whole block of which reused pages made  *)
(* up a part.                                                              *)
(***************************************************************************)
Taken(m) == Cardinality(Offsets(m) \ mr[m].bits)
Owed(m) == IF ~same_mr THEN 0
           ELSE LET T == {t \in Threads : th[t].held = m}
                IN  Cardinality({p \in T \X Subs : p[2] >= th[p[1]].i
                                    /\ is_free(rp[th[p[1]].blk][p[2]])})
AllocLenKept ==
    \A m \in MrIds :
        IF same_mr /\ config.reuse THEN mr[m].alloc_len >= Taken(m) + Owed(m)
        ELSE mr[m].alloc_len = Taken(m) + Owed(m)

(***************************************************************************)
(* The BUG_ON(offset == size) of same_mr and diff_mr is not reached: who   *)
(* found room under the lock also finds the bit.                           *)
(***************************************************************************)
RoomIsFound ==
    \A t \in Threads :
        /\ th[t].pc = "hold" /\ th[t].i <= Subblocks
        /\ is_free(rp[th[t].blk][th[t].i])
        /\ config.policy # "sequential"
        => find_slot(th[t].held) # Size[th[t].held]

(***************************************************************************)
(* A block without local pages has a remote page for every subblock, and   *)
(* so has every read in flight.                                            *)
(***************************************************************************)
RemoteHasCopy ==
    \A b \in Blocks, i \in Subs :
        \/ st[b] \in {"remote", "writeback"} /\ ~Locked(b)
        \/ i \in reading[b]
        => Behind(rp[b][i]) \in Slots

(***************************************************************************)
(* A block with local pages owns its remote pages alone, so its next       *)
(* writeback and an eviction that fails half-way touch no shared page.     *)
(***************************************************************************)
ResidentOwnsAlone ==
    \A b \in Blocks, i \in Subs :
        st[b] \in {"resident", "writeback"} /\ i \notin reading[b]
            => ~is_cow(rp[b][i])

(* A shared record always stands for a slot of a donor.                    *)
CowRecordsHoldSlots == \A c \in Cows : cow[c].refcnt > 0 => cow[c].val \in Slots

(***************************************************************************)
(* As long as a block lives only at the donor its content stays in the     *)
(* same slot, whoever shares it, fetches it, fails to share it or leaves.  *)
(***************************************************************************)
RemoteCopyStays ==
    [][\A b \in Blocks, i \in Subs :
        /\ st[b] = "remote" /\ st'[b] = "remote"
        /\ \A t \in Threads : th[t].pc = "destroy" => th[t].blk # b
        => Behind(rp[b][i])' = Behind(rp[b][i])]_vars

(***************************************************************************)
(* Every search for a remote page ends: with one, or with the failure of   *)
(* the eviction.                                                           *)
(***************************************************************************)
AllocEnds == \A t \in Threads : th[t].pc \in {"scan", "hold", "undo"} ~> th[t].pc \in {"idle", "post"}
=============================================================================
