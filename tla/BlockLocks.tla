----------------------------- MODULE BlockLocks -----------------------------
(***************************************************************************)
(* Who holds a block: the lock loops of src/module_gpl/block.h while other *)
(* threads stretch and reduce elastic blocks (els_block.c), publish a new  *)
(* group of descriptors (new_gpadesc() in gpa.c), replace a group on a     *)
(* write fault after a fork (cow.c), or keep several blocks locked for an  *)
(* madvise hint (emp_madvise.c).                                           *)
(*                                                                         *)
(* One group of descriptors covers all subblocks.  The state and the flags *)
(* of a block only decide whether it is stretched, reduced, fetched or     *)
(* left alone; that choice is free here.                                   *)
(***************************************************************************)
EXTENDS Integers, FiniteSets

CONSTANTS
    Threads,
    NoThread,
    Views,     \* vm descriptors, each with its gpa_dir
    Groups,    \* arrays of gpa descriptors, as allocated by alloc_gpadesc()
    NoGroup,
    MaxOrder,  \* gpa_max_block_order - gpa_subblock_order, and the region's
    Subs,      \* indices of the subblocks of a group
    Width,     \* Width[o]: subblocks of a block of order o
    Head,      \* Head[o][s]: head of the block of order o around s
    BatchMax,  \* LEN_FLUSH_HEADS
    Configs    \* what happens: the views in use, whether they share a group
               \* already, the calls, the threads that fault on writes, and
               \* the indices that are touched

Orders == 0 .. MaxOrder
Len == Width[MaxOrder]

(* _emp_get_block_head(): blocks of an order are aligned and nest.         *)
ASSUME LocksAssumption ==
    /\ IsFiniteSet(Threads) /\ NoThread \notin Threads /\ NoGroup \notin Groups
    /\ MaxOrder \in Nat
    /\ Width \in [Orders -> Nat] /\ Width[0] = 1
    /\ \A o \in Orders \ {MaxOrder} : Width[o + 1] = 2 * Width[o]
    /\ Subs = 0 .. Len - 1
    /\ Head \in [Orders -> [Subs -> Subs]]
    /\ \A o \in Orders : \A s, x \in Subs :
        Head[o][x] = Head[o][s] <=> Head[o][s] <= x /\ x < Head[o][s] + Width[o]
    /\ \A o, p \in Orders : o <= p => Width[o] <= Width[p] /\ \A s \in Subs :
        /\ Head[p][Head[o][s]] = Head[p][s] /\ Head[o][Head[p][s]] = Head[p][s]
        /\ Head[p][s] + Width[p] <= Len
    /\ BatchMax \in Nat \ {0}
    /\ \A c \in Configs :
        /\ c.views \subseteq Views /\ c.views # {} /\ c.writers \subseteq Threads
        /\ c.at \subseteq Subs /\ c.shared \in BOOLEAN
        /\ c.ops \subseteq {"fault", "evict", "hint"}

VARIABLES
    config, \* one of Configs
    dir,    \* gpa_dir of each view: the group of the descriptor of each index
    order,  \* gpa_block_order - gpa_subblock_order of each descriptor
    lock,   \* gpa->lock; who took it is known to the model only
    fresh,  \* groups that are not allocated
    th      \* the threads

vars == <<config, dir, order, lock, fresh, th>>

Descs == Groups \X Subs
Held(d) == lock[d[1]][d[2]]
Ord(d) == order[d[1]][d[2]]
emp_get_block_head(d) == <<d[1], Head[Ord(d)][d[2]]>>
Behind(h) == h[2] + Width[Ord(h)]  \* the index behind the block of head h

(***************************************************************************)
(* A thread works on the index i of the view v; gpa is the group it found  *)
(* there, hd the head it derived, bd the head of a buddy, own the heads it *)
(* has come to own, old and new the groups of a replacement, k and end the *)
(* bounds of a loop, nxt where it goes on with the block locked.           *)
(***************************************************************************)
NoDesc == <<NoGroup, 0>>
Idle == [pc |-> "idle", op |-> "none", v |-> CHOOSE v \in Views : TRUE, i |-> 0, dem |-> 0,
         gpa |-> NoGroup, hd |-> NoDesc, bd |-> NoDesc, own |-> {}, old |-> NoGroup,
         new |-> NoGroup, k |-> 0, end |-> 0, nxt |-> "idle"]

(* Descriptors of one block agree on their order.                          *)
Partition(f) == \A s \in Subs : \A x \in Subs :
    Head[f[s]][x] = Head[f[s]][s] => f[x] = f[s]

Init ==
    /\ config \in Configs
    /\ \E g \in Groups :
        /\ dir = [v \in Views |-> [s \in Subs |->
                    IF config.shared /\ v \in config.views THEN g ELSE NoGroup]]
        /\ fresh = IF config.shared THEN Groups \ {g} ELSE Groups
        /\ \E f \in [Subs -> Orders] :
            /\ Partition(f)
            /\ ~config.shared => \A s \in Subs : f[s] = MaxOrder
            /\ order = [h \in Groups |-> IF h = g THEN f ELSE [s \in Subs |-> MaxOrder]]
    /\ lock = [g \in Groups |-> [s \in Subs |-> NoThread]]
    /\ th = [t \in Threads |-> Idle]

At(t, pc) == th[t].pc = pc
gpa(t) == <<th[t].gpa, th[t].i>>
InDir(t, i) == dir[th[t].v][i]

(* ____emp_gpa_trylock() that succeeds, and ____emp_gpa_unlock().          *)
Take(t, d) == Held(d) = NoThread /\ lock' = [lock EXCEPT ![d[1]][d[2]] = t]
Drop(d) == lock' = [lock EXCEPT ![d[1]][d[2]] = NoThread]

-----------------------------------------------------------------------------
(* What a thread begins: a fault, a write fault, a hint, an eviction.      *)
Begin(t, op, v, i, nxt) ==
    /\ At(t, "idle")
    /\ th' = [th EXCEPT ![t] = [Idle EXCEPT !.pc = "get", !.op = op, !.v = v, !.i = i,
                                            !.dem = i, !.nxt = nxt, !.own = th[t].own]]
    /\ UNCHANGED <<config, dir, order, lock, fresh>>

Reads(t, op, nxt) ==
    /\ op \in config.ops
    /\ \E v \in config.views, i \in config.at : Begin(t, op, v, i, nxt)
Fault(t) == Reads(t, "fault", "fetched")
Hint(t) == Reads(t, "hint", "hinted")

WriteFault(t) ==
    /\ t \in config.writers
    /\ \E v \in config.views, i \in config.at : Begin(t, "cow", v, i, "cow")

(* Reclaim names the descriptor by its local page, not by an index.        *)
Evict(t) ==
    /\ "evict" \in config.ops /\ At(t, "idle")
    /\ \E v \in config.views, i \in config.at :
        /\ dir[v][i] # NoGroup
        /\ th' = [th EXCEPT ![t] = [Idle EXCEPT !.pc = "derive", !.op = "evict", !.i = i,
                            !.gpa = dir[v][i], !.nxt = "victim", !.own = th[t].own]]
    /\ UNCHANGED <<config, dir, order, lock, fresh>>

-----------------------------------------------------------------------------
(***************************************************************************)
(* get_gpadesc() and new_gpadesc(): who publishes the first descriptor of  *)
(* a group publishes them all, with the head locked; who comes late frees  *)
(* his group and waits for the lock.                                       *)
(***************************************************************************)
Found(x, g) == [x EXCEPT !.gpa = g, !.pc = "derive", !.new = NoGroup, !.k = 0]

GetDesc(t) ==
    /\ At(t, "get")
    /\ LET x == th[t] IN
       th' = [th EXCEPT ![t] =
            IF InDir(t, x.i) # NoGroup THEN Found(x, InDir(t, x.i))
            ELSE [x EXCEPT !.pc = IF x.op = "hint" THEN "done" ELSE "new"]]
    /\ UNCHANGED <<config, dir, order, lock, fresh>>

NewDesc(t) ==
    /\ At(t, "new")
    /\ \E g \in fresh :
        /\ fresh' = fresh \ {g}
        /\ order' = [order EXCEPT ![g] = [s \in Subs |-> MaxOrder]]
        /\ Take(t, <<g, 0>>)
        /\ th' = [th EXCEPT ![t].new = g, ![t].pc = "publish"]
    /\ UNCHANGED <<config, dir>>

Publish_Mutant(t) ==
    /\ At(t, "publish")
    /\ dir' = [dir EXCEPT ![th[t].v][0] = th[t].new]
    /\ th' = [th EXCEPT ![t].k = 1, ![t].pc = "fill"]
    /\ UNCHANGED <<config, order, lock, fresh>>

Publish(t) ==
    /\ At(t, "publish") /\ InDir(t, 0) = NoGroup
    /\ dir' = [dir EXCEPT ![th[t].v][0] = th[t].new]
    /\ th' = [th EXCEPT ![t].k = 1, ![t].pc = "fill"]
    /\ UNCHANGED <<config, order, lock, fresh>>

LateAgain_Mutant(t) ==
    /\ At(t, "publish") /\ InDir(t, 0) # NoGroup
    /\ fresh' = fresh \cup {InDir(t, 0)}
    /\ Drop(<<th[t].new, 0>>)
    /\ th' = [th EXCEPT ![t].new = NoGroup, ![t].hd = <<InDir(t, 0), 0>>, ![t].pc = "await"]
    /\ UNCHANGED <<config, dir, order>>

LateAgain(t) ==
    /\ At(t, "publish") /\ InDir(t, 0) # NoGroup
    /\ fresh' = fresh \cup {th[t].new}
    /\ Drop(<<th[t].new, 0>>)
    /\ th' = [th EXCEPT ![t].new = NoGroup, ![t].hd = <<InDir(t, 0), 0>>, ![t].pc = "await"]
    /\ UNCHANGED <<config, dir, order>>

Fill(t) ==
    /\ At(t, "fill")
    /\ LET x == th[t] IN
       IF x.k < Len
       THEN /\ dir' = [dir EXCEPT ![x.v][x.k] = IF @ = NoGroup THEN x.new ELSE @]
            /\ th' = [th EXCEPT ![t].k = x.k + 1]
            /\ UNCHANGED lock
       ELSE /\ Drop(<<x.new, 0>>)
            /\ th' = [th EXCEPT ![t].pc = "got"]
            /\ UNCHANGED dir
    /\ UNCHANGED <<config, order, fresh>>

Await(t) ==
    /\ At(t, "await")
    /\ Take(t, th[t].hd)
    /\ th' = [th EXCEPT ![t].pc = "awaited"]
    /\ UNCHANGED <<config, dir, order, fresh>>

Awaited(t) ==
    /\ At(t, "awaited")
    /\ Drop(th[t].hd)
    /\ th' = [th EXCEPT ![t].pc = "got"]
    /\ UNCHANGED <<config, dir, order, fresh>>

Got(t) ==
    /\ At(t, "got")
    /\ th' = [th EXCEPT ![t] = Found(@, InDir(t, th[t].i))]
    /\ UNCHANGED <<config, dir, order, lock, fresh>>

-----------------------------------------------------------------------------
(***************************************************************************)
(* emp_lock_block(): derive the head from the order, spin on its lock,     *)
(* then look again at the directory and at the order.  An eviction tries   *)
(* the lock once, and names the descriptor itself.                         *)
(***************************************************************************)
Derive(t) ==
    /\ At(t, "derive")
    /\ th' = [th EXCEPT ![t].hd = emp_get_block_head(gpa(t)), ![t].pc = "spin"]
    /\ UNCHANGED <<config, dir, order, lock, fresh>>

Spin(t) ==
    /\ At(t, "spin")
    /\ Take(t, th[t].hd)
    /\ th' = [th EXCEPT ![t].pc = IF th[t].op = "evict" THEN "checkhead" ELSE "checkdir"]
    /\ UNCHANGED <<config, dir, order, fresh>>

TryFails(t) ==
    /\ At(t, "spin") /\ th[t].op = "evict"
    /\ Held(th[t].hd) # NoThread
    /\ th' = [th EXCEPT ![t].pc = "done"]
    /\ UNCHANGED <<config, dir, order, lock, fresh>>

CheckDir_Mutant(t) ==
    /\ At(t, "checkdir")
    /\ th' = [th EXCEPT ![t].pc = IF InDir(t, th[t].i) = th[t].gpa THEN "checkhead" ELSE "giveup"]
    /\ UNCHANGED <<config, dir, order, lock, fresh>>

CheckDir(t) ==
    /\ At(t, "checkdir")
    /\ th' = [th EXCEPT ![t].gpa = InDir(t, th[t].i),
                        ![t].pc = IF InDir(t, th[t].i) = th[t].gpa THEN "checkhead" ELSE "giveup"]
    /\ UNCHANGED <<config, dir, order, lock, fresh>>

CheckHead(t) ==
    /\ At(t, "checkhead")
    /\ LET x == th[t] IN
       th' = [th EXCEPT ![t] = IF emp_get_block_head(gpa(t)) = x.hd
                               THEN [x EXCEPT !.own = @ \cup {x.hd}, !.pc = x.nxt]
                               ELSE [x EXCEPT !.pc = "giveup"]]
    /\ UNCHANGED <<config, dir, order, lock, fresh>>

GiveUp_Mutant(t) ==
    /\ At(t, "giveup")
    /\ th' = [th EXCEPT ![t].pc = "derive"]
    /\ UNCHANGED <<config, dir, order, lock, fresh>>

GiveUp(t) ==
    /\ At(t, "giveup")
    /\ Drop(th[t].hd)
    /\ th' = [th EXCEPT ![t].pc = "derive"]
    /\ UNCHANGED <<config, dir, order, fresh>>

(* The thread unlocks what it owns, head by head.                          *)
Disown(t, d, pc) ==
    /\ Drop(d)
    /\ th' = [th EXCEPT ![t].own = @ \ {d}, ![t].pc = pc]
    /\ UNCHANGED <<config, dir, order, fresh>>

IsFirst(d, D) == d \in D /\ \A e \in D : d[2] <= e[2]

Unlock(t) ==
    /\ At(t, "done") /\ th[t].op # "cow"
    /\ \E d \in th[t].own : IsFirst(d, th[t].own) /\ Disown(t, d, "done")

Return(t) ==
    /\ At(t, "done") /\ th[t].op # "cow" /\ th[t].own = {}
    /\ th' = [th EXCEPT ![t] = Idle]
    /\ UNCHANGED <<config, dir, order, lock, fresh>>

-----------------------------------------------------------------------------
(***************************************************************************)
(* els_stretch_rep(), one level: a block is merged with its buddy of the   *)
(* same order, while both heads are locked, descriptor by descriptor.      *)
(***************************************************************************)
DontStretch(t) ==
    /\ At(t, "fetched")
    /\ th' = [th EXCEPT ![t].pc = "done"]
    /\ UNCHANGED <<config, dir, order, lock, fresh>>

Buddy(h) ==
    LET super == Head[Ord(h) + 1][h[2]]
    IN  <<h[1], IF super = h[2] THEN Behind(h) ELSE super>>

PickBuddy(t) ==
    /\ At(t, "fetched")
    /\ LET h == th[t].hd IN
        /\ Ord(h) < MaxOrder
        /\ Ord(Buddy(h)) = Ord(h)
        /\ th' = [th EXCEPT ![t].bd = Buddy(h), ![t].pc = "trybuddy"]
    /\ UNCHANGED <<config, dir, order, lock, fresh>>

TryBuddy(t) ==
    /\ At(t, "trybuddy")
    /\ Take(t, th[t].bd)
    /\ th' = [th EXCEPT ![t].pc = "buddy"]
    /\ UNCHANGED <<config, dir, order, fresh>>

BuddyBusy(t) ==
    /\ At(t, "trybuddy") /\ Held(th[t].bd) # NoThread
    /\ th' = [th EXCEPT ![t].pc = "done"]
    /\ UNCHANGED <<config, dir, order, lock, fresh>>

(* Only under its lock can the buddy be judged.                            *)
Unsuitable(t) ==
    /\ At(t, "buddy")
    /\ Drop(th[t].bd)
    /\ th' = [th EXCEPT ![t].pc = "done"]
    /\ UNCHANGED <<config, dir, order, fresh>>

OrderUnchanged_Mutant(t) == TRUE
OrderUnchanged(t) == Ord(th[t].bd) = Ord(th[t].hd)

Suitable(t) ==
    /\ At(t, "buddy")
    /\ OrderUnchanged(t)
    /\ LET s == Head[Ord(th[t].hd) + 1][th[t].hd[2]] IN
        th' = [th EXCEPT ![t].own = @ \cup {th[t].bd}, ![t].pc = "stretch",
                         ![t].k = s, ![t].end = s + Width[Ord(th[t].hd) + 1]]
    /\ UNCHANGED <<config, dir, order, lock, fresh>>

Stretch(t) ==
    /\ At(t, "stretch")
    /\ order' = [order EXCEPT ![th[t].hd[1]][th[t].k] = @ + 1]
    /\ th' = [th EXCEPT ![t].k = @ + 1,
                        ![t].pc = IF th[t].k + 1 = th[t].end THEN "stretched" ELSE @]
    /\ UNCHANGED <<config, dir, lock, fresh>>

Stretched(t) ==
    /\ At(t, "stretched")
    /\ \E d \in th[t].own : ~IsFirst(d, th[t].own) /\ Disown(t, d, "done")

-----------------------------------------------------------------------------
(***************************************************************************)
(* reduce_and_writeback(): every descriptor of the victim becomes a block  *)
(* of its own if all can be locked, else the victim is halved, else not.   *)
(***************************************************************************)
DontReduce(t) ==
    /\ At(t, "victim")
    /\ th' = [th EXCEPT ![t].pc = "done"]
    /\ UNCHANGED <<config, dir, order, lock, fresh>>

Reduce(t) ==
    /\ At(t, "victim") /\ Ord(th[t].hd) > 0
    /\ th' = [th EXCEPT ![t].pc = "tryall", ![t].k = th[t].hd[2] + 1,
                        ![t].end = Behind(th[t].hd)]
    /\ UNCHANGED <<config, dir, order, lock, fresh>>

TryAll(t) ==
    /\ At(t, "tryall")
    /\ LET x == th[t]
           d == <<x.hd[1], x.k>>
       IN  /\ x.k < x.end
           /\ Take(t, d)
           /\ th' = [th EXCEPT ![t].own = @ \cup {d}, ![t].k = @ + 1]
    /\ UNCHANGED <<config, dir, order, fresh>>

TryAllFails(t) ==
    /\ At(t, "tryall")
    /\ th[t].k < th[t].end /\ Held(<<th[t].hd[1], th[t].k>>) # NoThread
    /\ th' = [th EXCEPT ![t].pc = "undo"]
    /\ UNCHANGED <<config, dir, order, lock, fresh>>

Undo(t) ==
    /\ At(t, "undo")
    /\ LET others == th[t].own \ {th[t].hd} IN
        \E d \in others : IsFirst(d, others) /\ Disown(t, d, "undo")

TryHalf(t) ==
    /\ At(t, "undo") /\ th[t].own = {th[t].hd}
    /\ LET d == <<th[t].hd[1], th[t].hd[2] + Width[Ord(th[t].hd) - 1]>> IN
       IF Held(d) = NoThread
       THEN /\ Take(t, d)
            /\ th' = [th EXCEPT ![t].own = @ \cup {d}, ![t].bd = d, ![t].pc = "halve",
                                ![t].k = th[t].hd[2]]
       ELSE /\ th' = [th EXCEPT ![t].pc = "done"]
            /\ UNCHANGED lock
    /\ UNCHANGED <<config, dir, order, fresh>>

AllLocked(t) ==
    /\ At(t, "tryall") /\ th[t].k = th[t].end
    /\ th' = [th EXCEPT ![t].pc = "single", ![t].k = th[t].hd[2]]
    /\ UNCHANGED <<config, dir, order, lock, fresh>>

Shrink(t) ==
    /\ th[t].pc \in {"single", "halve"}
    /\ order' = [order EXCEPT ![th[t].hd[1]][th[t].k] = IF At(t, "halve") THEN @ - 1 ELSE 0]
    /\ th' = [th EXCEPT ![t].k = @ + 1,
                        ![t].pc = IF th[t].k + 1 = th[t].end THEN "done" ELSE @]
    /\ UNCHANGED <<config, dir, lock, fresh>>

-----------------------------------------------------------------------------
(***************************************************************************)
(* emp_blk_prefetch_complete(): ascending; a block that is fetched stays   *)
(* locked until LEN_FLUSH_HEADS of them are flushed.                       *)
(***************************************************************************)
Onward(x) == IF x.i = Len THEN "done" ELSE "get"

KeepBlock(t) ==
    /\ At(t, "hinted")
    /\ LET x == [th[t] EXCEPT !.i = Behind(th[t].hd)] IN
        th' = [th EXCEPT ![t] = [x EXCEPT !.pc =
                    IF Cardinality(x.own) = BatchMax THEN "flush" ELSE Onward(x)]]
    /\ UNCHANGED <<config, dir, order, lock, fresh>>

PassBlock(t) ==
    /\ At(t, "hinted")
    /\ LET x == [th[t] EXCEPT !.i = Behind(th[t].hd)] IN
        th' = [th EXCEPT ![t] = [x EXCEPT !.own = @ \ {x.hd}, !.pc = Onward(x)]]
    /\ Drop(th[t].hd)
    /\ UNCHANGED <<config, dir, order, fresh>>

Flush(t) ==
    /\ At(t, "flush")
    /\ \E d \in th[t].own :
        /\ IsFirst(d, th[t].own)
        /\ Disown(t, d, IF th[t].own = {d} THEN Onward(th[t]) ELSE "flush")

-----------------------------------------------------------------------------
(***************************************************************************)
(* __handle_emp_cow_fault(): a write fault on descriptors that other views *)
(* share replaces the whole group in the directory of its view.            *)
(***************************************************************************)
Shared(d) == Cardinality({v \in Views : dir[v][d[2]] = d[1]}) > 1

NoCow(t) ==
    /\ At(t, "cow") /\ ~Shared(th[t].hd)
    /\ th' = [th EXCEPT ![t].pc = "done"]
    /\ UNCHANGED <<config, dir, order, lock, fresh>>

WholeGroup(t) ==
    /\ At(t, "cow") /\ Shared(th[t].hd) /\ Ord(th[t].hd) = MaxOrder
    /\ th' = [th EXCEPT ![t].pc = "copy", ![t].old = th[t].hd[1]]
    /\ UNCHANGED <<config, dir, order, lock, fresh>>

(* __handle_emp_cow_fault_reduced(): the block is unlocked and all blocks  *)
(* of the group are locked, in ascending order.                            *)
Regroup(t) ==
    /\ At(t, "cow") /\ Shared(th[t].hd) /\ Ord(th[t].hd) < MaxOrder
    /\ Drop(th[t].hd)
    /\ th' = [th EXCEPT ![t].own = @ \ {th[t].hd}, ![t].old = th[t].hd[1], ![t].i = 0,
                        ![t].nxt = "again", ![t].pc = "get"]
    /\ UNCHANGED <<config, dir, order, fresh>>

NextBlock(t) ==
    /\ At(t, "again")
    /\ LET n == Behind(th[t].hd) IN
        th' = [th EXCEPT ![t].i = n, ![t].pc = IF n < Len THEN "get" ELSE "allofthem"]
    /\ UNCHANGED <<config, dir, order, lock, fresh>>

demand(t) == emp_get_block_head(<<InDir(t, th[t].dem), th[t].dem>>)

(* The head of the demanded index is derived once more.                    *)
CowAgain(t) ==
    /\ At(t, "allofthem")
    /\ th' = [th EXCEPT ![t].hd = demand(t), ![t].i = th[t].dem, ![t].k = 0,
                        ![t].bd = <<th[t].old, 0>>,
                        ![t].pc = IF Shared(demand(t)) THEN "copy" ELSE "unlockrest"]
    /\ UNCHANGED <<config, dir, order, lock, fresh>>

Reduced(t) == th[t].nxt = "again"

(* The new descriptors are all locked until they are published.            *)
Copy(t) ==
    /\ At(t, "copy")
    /\ \E g \in fresh :
        /\ fresh' = fresh \ {g}
        /\ order' = [order EXCEPT ![g] = order[th[t].old]]
        /\ lock' = [lock EXCEPT ![g] = [s \in Subs |-> t]]
        /\ th' = [th EXCEPT ![t].new = g, ![t].pc = "change", ![t].k = 0,
                            ![t].own = @ \cup ({g} \X Subs)]
    /\ UNCHANGED <<config, dir>>

CopyFails(t) ==
    /\ At(t, "copy")
    /\ th' = [th EXCEPT ![t].pc = IF Reduced(t) THEN "unlockrest" ELSE "done"]
    /\ UNCHANGED <<config, dir, order, lock, fresh>>

ChangeDir(t) ==
    /\ At(t, "change")
    /\ LET x == th[t] IN
        /\ dir' = [dir EXCEPT ![x.v][x.k] = x.new]
        /\ th' = [th EXCEPT ![t].k = IF x.k + 1 = Len THEN 0 ELSE x.k + 1,
                            ![t].bd = <<x.old, 0>>,
                            ![t].pc = IF x.k + 1 < Len THEN "change"
                                      ELSE IF Reduced(t) THEN "unlockold" ELSE "unlocknew"]
    /\ UNCHANGED <<config, order, lock, fresh>>

(* Of the new descriptors the demanded head stays locked.                  *)
UnlockNew(t) ==
    /\ At(t, "unlocknew")
    /\ LET keep == <<th[t].new, th[t].hd[2]>>
           rest == {d \in th[t].own : d[1] = th[t].new /\ d # keep}
           pc == IF Cardinality(rest) > 1 THEN "unlocknew"
                 ELSE IF Reduced(t) THEN "replaced" ELSE "unlockhead"
       IN  IF rest # {}
           THEN \E d \in rest : IsFirst(d, rest) /\ Disown(t, d, pc)
           ELSE th' = [th EXCEPT ![t].pc = pc] /\ UNCHANGED <<config, dir, order, lock, fresh>>

UnlockHead(t) ==
    /\ At(t, "unlockhead")
    /\ Disown(t, th[t].hd, "replaced")

Replaced(t) ==
    /\ At(t, "replaced")
    /\ th' = [th EXCEPT ![t].hd = demand(t), ![t].pc = "done"]
    /\ UNCHANGED <<config, dir, order, lock, fresh>>

(* The loops that unlock the old heads: bd is old_head, k its index; the   *)
(* order is read after the lock was given up.                              *)
UnlockOld(t) ==
    /\ At(t, "unlockold")
    /\ Disown(t, th[t].bd, "strideold")

StrideOld(t) ==
    /\ At(t, "strideold")
    /\ LET n == Behind(th[t].bd) IN
        th' = [th EXCEPT ![t].bd = <<th[t].old, n>>,
                         ![t].pc = IF n < Len THEN "unlockold" ELSE "unlocknew"]
    /\ UNCHANGED <<config, dir, order, lock, fresh>>

UnlockRest(t) ==
    /\ At(t, "unlockrest")
    /\ IF th[t].bd = th[t].hd
       THEN th' = [th EXCEPT ![t].pc = "striderest"] /\ UNCHANGED <<config, dir, order, lock, fresh>>
       ELSE Disown(t, th[t].bd, "striderest")

StrideRest(t) ==
    /\ At(t, "striderest")
    /\ LET n == Behind(th[t].bd) IN
        th' = [th EXCEPT ![t].bd = IF n < Len THEN <<InDir(t, n), n>> ELSE @,
                         ![t].pc = IF n < Len THEN "unlockrest" ELSE "done"]
    /\ UNCHANGED <<config, dir, order, lock, fresh>>

(* The fault ends with the block of the demanded index unlocked.           *)
UnlockDemand(t) ==
    /\ At(t, "done") /\ th[t].op = "cow"
    /\ Drop(th[t].hd)
    /\ th' = [th EXCEPT ![t] = [Idle EXCEPT !.own = th[t].own \ {th[t].hd}]]
    /\ UNCHANGED <<config, dir, order, fresh>>

-----------------------------------------------------------------------------
Call(t) == Fault(t) \/ WriteFault(t) \/ Hint(t) \/ Evict(t)

Step(t) ==
    \/ GetDesc(t) \/ NewDesc(t) \/ Publish(t) \/ LateAgain(t) \/ Fill(t) \/ Await(t)
    \/ Awaited(t) \/ Got(t)
    \/ Derive(t) \/ Spin(t) \/ TryFails(t) \/ CheckDir(t) \/ CheckHead(t) \/ GiveUp(t)
    \/ Unlock(t) \/ Return(t)
    \/ DontStretch(t) \/ PickBuddy(t) \/ TryBuddy(t) \/ BuddyBusy(t) \/ Unsuitable(t)
    \/ Suitable(t) \/ Stretch(t) \/ Stretched(t)
    \/ DontReduce(t) \/ Reduce(t) \/ TryAll(t) \/ TryAllFails(t) \/ Undo(t) \/ TryHalf(t)
    \/ AllLocked(t) \/ Shrink(t)
    \/ KeepBlock(t) \/ PassBlock(t) \/ Flush(t)
    \/ NoCow(t) \/ WholeGroup(t) \/ Regroup(t) \/ NextBlock(t) \/ CowAgain(t)
    \/ Copy(t) \/ CopyFails(t) \/ ChangeDir(t) \/ UnlockNew(t) \/ UnlockHead(t)
    \/ Replaced(t) \/ UnlockOld(t) \/ StrideOld(t) \/ UnlockRest(t) \/ StrideRest(t)
    \/ UnlockDemand(t)

Next == \E t \in Threads : Call(t) \/ Step(t)

Spec == Init /\ [][Next]_vars

(* A spinning thread yields its cpu, so every thread goes on running.      *)
Fairness == \A t \in Threads : WF_vars(Step(t))
FairSpec == Spec /\ Fairness

-----------------------------------------------------------------------------
TypeOK ==
    /\ config \in Configs
    /\ dir \in [Views -> [Subs -> Groups \cup {NoGroup}]]
    /\ order \in [Groups -> [Subs -> Orders]]
    /\ lock \in [Groups -> [Subs -> Threads \cup {NoThread}]]
    /\ fresh \subseteq Groups
    /\ \A v \in Views, s \in Subs : dir[v][s] \notin fresh
    /\ \A t \in Threads :
        /\ th[t].own \subseteq Descs
        /\ th[t].gpa \in Groups \cup {NoGroup}
        /\ th[t].pc = "spin" => th[t].hd \in Descs

(***************************************************************************)
(* The directory of a view never mixes two groups, but while a replacement *)
(* is being published: the loser of a race in new_gpadesc() and everybody  *)
(* who reads the directory find all of the winner's descriptors.           *)
(***************************************************************************)
PublishedWhole ==
    /\ \A v \in Views : \A i, j \in Subs :
        dir[v][i] # dir[v][j] =>
            \E t \in Threads : th[t].v = v /\ th[t].pc \in {"fill", "change"}
    /\ \A t \in Threads : At(t, "got") => InDir(t, th[t].i) # NoGroup

(* When nobody is at work no block is locked.                              *)
NothingLeftLocked ==
    (\A t \in Threads : At(t, "idle")) => \A d \in Descs : Held(d) = NoThread

(* Nobody holds a block and waits for one that can never come: once no     *)
(* further call is made, every call ends.                                  *)
CallsEnd ==
    <>[][~\E t \in Threads : Call(t)]_vars => \A t \in Threads : <>[](At(t, "idle"))

(***************************************************************************)
(* What a lock on a head promises (BlockOwners): a thread has the whole    *)
(* block around each head it owns to itself, whatever others do to the     *)
(* orders from which the head is derived.  A lock word inside a block      *)
(* promises nothing.                                                       *)
(***************************************************************************)
Block(h) == {d \in {h[1]} \X Subs : emp_get_block_head(d) = h}
owns == [t \in Threads |-> UNION {Block(h) : h \in th[t].own}]
Owners == INSTANCE BlockOwners WITH Threads <- Threads, Descs <- Descs, owns <- owns
ImplementsOwners == Owners!Spec
=============================================================================
