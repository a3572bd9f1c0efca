---------------------------- MODULE VmdescViews ----------------------------
(***************************************************************************)
(* The vm descriptors of EMP and who views them (src/module_gpl/gpa.c,     *)
(* vm.c, cow.c): a vmdesc is the directory of one backing range, and the   *)
(* vmrs of several processes view intervals of it.  fork() and vma splits  *)
(* add views under the mmap lock of one mm, while vmrs of other mms close, *)
(* strip their mapping records and release what nobody views any more.     *)
(*                                                                         *)
(* Coordinates are base pages of the one range that is mapped here, from   *)
(* its vm_base on; a slot of the directory is a subblock of SbSize pages,  *)
(* and a descriptor group is allocated and freed as a whole.  What a page  *)
(* holds, reclaim and CoW are left out: a mapping record of a vmr, once    *)
(* made, stays until a split moves it or a close strips it.                *)
(*                                                                         *)
(* A definition named ..._Mutant is never used: it is the definition after *)
(* it with a slip in it, which the property it is paired with must notice. *)
(***************************************************************************)
EXTENDS Integers, FiniteSets, Sequences, SequencesExt

CONSTANTS
    MaxVmr,        \* bound: vmrs made in one run, ids are not reused
    MaxDesc,       \* bound: vmdescs made in one run
    MaxGpa,        \* bound: descriptor groups allocated at a time
    MaxMm,         \* bound: processes
    NPages,        \* base pages of the mapped range
    SbSize,        \* base pages of a subblock
    Regions,       \* desc->regions[], each [start, end, step] in subblocks
    SharedSplits,  \* bound: pages at which a MAP_SHARED vma is split
    PrivateSplits, \* bound: pages at which a private vma is split
    Sharing,       \* bound: may the range be mapped shared (TRUE), private?
    SplitMayFail,  \* may the kernel give up a vma split it has announced?
    NodeMayFail    \* may emp_kzalloc() fail for a view?

Vmrs == 1..MaxVmr
Descs == 1..MaxDesc
Gpas == 1..MaxGpa
Mms == 1..MaxMm
None == 0
GpaLen == (NPages + SbSize - 1) \div SbSize
Idx == 0..(GpaLen - 1)

ASSUME ViewsAssumption ==
    /\ {MaxVmr, MaxDesc, MaxGpa, MaxMm, NPages, SbSize} \subseteq Nat \ {0}
    /\ SharedSplits \cup PrivateSplits \subseteq 1..(NPages - 1)
    /\ Sharing \subseteq BOOLEAN /\ {SplitMayFail, NodeMayFail} \subseteq BOOLEAN
    /\ DOMAIN Regions \subseteq Nat
    /\ \A r \in DOMAIN Regions :
          /\ Regions[r].start \in Idx
          /\ Regions[r].end \in 1..GpaLen
          /\ Regions[r].step \in Nat \ {0}
          /\ Regions[r].start < Regions[r].end
          /\ (Regions[r].end - Regions[r].start) % Regions[r].step = 0
    /\ \A i \in Idx : \E r \in DOMAIN Regions :
          /\ Regions[r].start <= i /\ i < Regions[r].end
          /\ \A q \in DOMAIN Regions \ {r} :
                ~(Regions[q].start <= i /\ i < Regions[q].end)

VARIABLES
    vmr,    \* the vmrs: their vma, vmdesc and how far their close has come
    mm,     \* the processes: what holds the mmap lock
    desc,   \* the vmdescs: views, refcount, is_closing
    dir,    \* desc->gpa_dir: the group in each slot
    used,   \* allocated descriptor groups
    ref,    \* gpa->refcnt of each slot of a group
    rec,    \* mapping records (local_page->pmds) of each slot of a group
    cut     \* where a split cut a group into blocks of its own

vars == <<vmr, mm, desc, dir, used, ref, rec, cut>>
dirVars == <<dir, used, ref, cut>>

(***************************************************************************)
(* The view list of a vmdesc: the entries in list order.  The embedded     *)
(* entry is the first one, and the list is empty while its count is 0.     *)
(***************************************************************************)
View(s, e, n) == [start |-> s, end |-> e, count |-> n]
SortsBefore(v, s, e) == v.start < s \/ (v.start = s /\ v.end < e)
EntriesOf(views, s, e) ==
    {k \in DOMAIN views : views[k].start = s /\ views[k].end = e}

(* @node: the caller brings a preallocated entry.  An identical interval   *)
(* or an empty list does without; otherwise it is -ENOMEM.                 *)
view_add_Mutant(views, s, e, node) == Append(views, View(s, e, 1))
view_add(views, s, e, node) ==
    LET same == EntriesOf(views, s, e)
        pos  == Cardinality({k \in DOMAIN views : SortsBefore(views[k], s, e)}) + 1
    IN  IF same # {}
        THEN [k \in DOMAIN views |->
                 IF k \in same THEN [views[k] EXCEPT !.count = @ + 1] ELSE views[k]]
        ELSE IF views = <<>> \/ node THEN InsertAt(views, pos, View(s, e, 1))
                                     ELSE views

view_del_Mutant(views, s, e) ==
    [k \in DOMAIN views |->
        IF k \in EntriesOf(views, s, e) THEN [views[k] EXCEPT !.count = @ - 1]
                                        ELSE views[k]]
view_del(views, s, e) ==
    LET k == CHOOSE k \in EntriesOf(views, s, e) : TRUE
    IN  IF EntriesOf(views, s, e) = {} THEN views
        ELSE IF views[k].count > 1 THEN [views EXCEPT ![k].count = @ - 1]
        ELSE RemoveAt(views, k)

(* emp_vmdesc_view_add(): without first_or_shared it allocates first.      *)
view_add_alloc(views, s, e, first_or_shared, fails) ==
    IF ~first_or_shared /\ fails THEN views
                                 ELSE view_add(views, s, e, ~first_or_shared)

view_split_Mutant(views, s, e, mid, fails) ==
    view_add(view_del(views, s, e), s, mid, TRUE)
view_split(views, s, e, mid, fails) ==
    IF fails THEN views
    ELSE view_add(view_add(view_del(views, s, e), s, mid, TRUE), mid, e, TRUE)

(***************************************************************************)
(* emp_vmdesc_view_find_uncovered(): one walk over the sorted list.  The   *)
(* result is the remainder [lo, hi), empty when all is covered, or not     *)
(* fine when a view lies inside it.                                        *)
(***************************************************************************)
TrimBy_Mutant(u, v) ==
    IF u.stop \/ v.end <= u.lo THEN u
    ELSE IF v.start >= u.hi THEN [u EXCEPT !.stop = TRUE]
    ELSE IF v.start <= u.lo /\ v.end >= u.hi THEN [u EXCEPT !.lo = 0, !.hi = 0, !.stop = TRUE]
    ELSE IF u.lo < v.start /\ v.end < u.hi THEN [u EXCEPT !.fine = FALSE, !.stop = TRUE]
    ELSE IF v.start <= u.lo THEN [u EXCEPT !.lo = v.end, !.hi = v.start]
    ELSE [u EXCEPT !.hi = v.start, !.stop = TRUE]
TrimBy(u, v) ==
    IF u.stop \/ v.end <= u.lo THEN u
    ELSE IF v.start >= u.hi THEN [u EXCEPT !.stop = TRUE]
    ELSE IF v.start <= u.lo /\ v.end >= u.hi THEN [u EXCEPT !.lo = 0, !.hi = 0, !.stop = TRUE]
    ELSE IF u.lo < v.start /\ v.end < u.hi THEN [u EXCEPT !.fine = FALSE, !.stop = TRUE]
    ELSE IF v.start <= u.lo THEN [u EXCEPT !.lo = v.end]
    ELSE [u EXCEPT !.hi = v.start, !.stop = TRUE]

find_uncovered(views, s, e) ==
    LET all == [lo |-> s, hi |-> e, fine |-> TRUE, stop |-> FALSE]
        left[k \in 0..Len(views)] == IF k = 0 THEN all ELSE TrimBy(left[k - 1], views[k])
    IN  left[Len(views)]

is_covered(views, s, e) ==
    \E k \in DOMAIN views : views[k].start < e /\ views[k].end > s

(***************************************************************************)
(* Subblocks and descriptor groups.  Group boundaries are those of the     *)
(* regions, and a close walks the groups region by region.                 *)
(***************************************************************************)
SbDown(p) == p \div SbSize
SbUp(p) == (p + SbSize - 1) \div SbSize
Slots(lo, hi) == SbDown(lo)..(SbUp(hi) - 1)

GroupsOf(r) ==
    LET start == Regions[r].start
        step  == Regions[r].step
    IN  {[region |-> r, first |-> i, end |-> i + step] :
            i \in {j \in start..(Regions[r].end - 1) : (j - start) % step = 0}}
Groups == UNION {GroupsOf(r) : r \in DOMAIN Regions}
Members(g) == g.first..(g.end - 1)
GroupOf == [i \in Idx |-> CHOOSE g \in Groups : i \in Members(g)]
WalkedBefore(g, h) ==
    g.region < h.region \/ (g.region = h.region /\ g.first <= h.first)

(* The walk of a close rounds out to whole groups: every group that the    *)
(* subblocks [first, end) touch.                                           *)
WalkOf_Mutant(first, end) == {g \in Groups : first <= g.first /\ g.end <= end}
WalkOf(first, end) == {g \in Groups : g.first < end /\ first < g.end}

(* The blocks of a group are the runs between its cuts, as emp_vma_split() *)
(* leaves them.  (The code tiles a run with aligned blocks, which is the   *)
(* same for groups of two subblocks.)                                      *)
BlockOf(o, i) ==
    {j \in Members(GroupOf[i]) :
        \A c \in cut[o] : (c <= i) <=> (c <= j)}

(***************************************************************************)
(* State.  A vmr is pending between ->may_split and ->open, joining while  *)
(* a shared fork holds its reference but not yet its view, live, and then  *)
(* goes through the steps of its close.                                    *)
(***************************************************************************)
Phases == {"unused", "pending", "joining", "live", "enter", "asleep", "own",
           "dropped", "walk", "put", "wake", "dead"}
(* In these phases the vmr has its interval in the view list, ...          *)
Viewing == {"live", "enter", "asleep", "own"}
(* ... a reference on the vmdesc, ...                                      *)
Holding == Viewing \cup {"joining", "dropped"}
(* ... and in these it still works on the vmdesc.                          *)
Closing == {"own", "dropped", "walk", "put", "wake"}

Uncovered == [lo : 0..GpaLen, hi : 0..GpaLen, fine : BOOLEAN]
Nothing == [lo |-> 0, hi |-> 0, fine |-> TRUE]
NewVmr == [st |-> "unused", mm |-> None, desc |-> None,
           lo |-> 0, hi |-> 0, link |-> None, cnt |-> 0, unc |-> Nothing,
           todo |-> {}, rel |-> FALSE]
NewDesc == [st |-> "unused", shared |-> FALSE, views |-> <<>>, refcount |-> 0,
            closer |-> None]

Init ==
    /\ vmr = [v \in Vmrs |-> NewVmr]
    /\ mm = [m \in Mms |-> [op |-> "unused"]]
    /\ desc = [d \in Descs |-> NewDesc]
    /\ dir = [d \in Descs |-> [i \in Idx |-> None]]
    /\ used = {}
    /\ ref = [o \in Gpas |-> [i \in Idx |-> 0]]
    /\ rec = [o \in Gpas |-> [i \in Idx |-> {}]]
    /\ cut = [o \in Gpas |-> {}]

Dead == [NewVmr EXCEPT !.st = "dead"]
Idle == [op |-> "idle"]
Outcomes == IF NodeMayFail THEN {FALSE, TRUE} ELSE {FALSE}
Unused == {v \in Vmrs : vmr[v].st = "unused"}
NextVmr == CHOOSE v \in Unused : \A w \in Unused : v <= w
FreeDescs == {d \in Descs : desc[d].st = "unused"}
UnusedMms == {m \in Mms : mm[m].op = "unused"}
NextMm == CHOOSE m \in UnusedMms : \A k \in UnusedMms : m <= k
NextDesc == CHOOSE d \in FreeDescs : \A e \in FreeDescs : d <= e
Splits(d) == IF desc[d].shared THEN SharedSplits ELSE PrivateSplits

(* emp_mmap() and gpas_open(): a vmr with a vmdesc of its own.             *)
Mmap(shared) ==
    /\ Unused = Vmrs
    /\ \E fails \in Outcomes :
          LET views == view_add_alloc(<<>>, 0, NPages, FALSE, fails)
          IN  desc' = [desc EXCEPT ![1] = [NewDesc EXCEPT
                  !.st = "alive", !.shared = shared, !.refcount = 1, !.views = views]]
    /\ vmr' = [vmr EXCEPT ![1] = [NewVmr EXCEPT
                  !.st = "live", !.mm = 1, !.desc = 1, !.hi = NPages]]
    /\ mm' = [mm EXCEPT ![1] = Idle]
    /\ UNCHANGED <<dirVars, rec>>

(***************************************************************************)
(* Faults take the mmap lock for reading.                                  *)
(***************************************************************************)
SlotsOf(v) == Slots(vmr[v].lo, vmr[v].hi)

(* new_gpadesc() for an empty slot: a whole group, where there is none.    *)
NextGpa == CHOOSE o \in Gpas \ used : \A p \in Gpas \ used : o <= p
new_gpadesc(d, i) ==
    LET M == {j \in Members(GroupOf[i]) : dir[d][j] = None}
    IN  /\ dir[d][GroupOf[i].first] = None
        /\ used # Gpas
        /\ used' = used \cup {NextGpa}
        /\ dir' = [dir EXCEPT ![d] = [j \in Idx |-> IF j \in M THEN NextGpa ELSE @[j]]]
        /\ ref' = [ref EXCEPT ![NextGpa] = [j \in Idx |-> IF j \in M THEN 1 ELSE 0]]
(* get_gpadesc()                                                           *)
Gpa(d, i) == IF dir[d][i] = None THEN NextGpa ELSE dir[d][i]
get_gpadesc(d, i) ==
    IF dir[d][i] = None THEN new_gpadesc(d, i) ELSE UNCHANGED <<dir, used, ref>>

(* A fault maps what the vma has of the block and records it.              *)
Fault(v, i) ==
    LET d == vmr[v].desc
        o == Gpa(d, i)
        mapped == BlockOf(o, i) \cap SlotsOf(v)
    IN  /\ vmr[v].st = "live" /\ mm[vmr[v].mm].op \in {"idle", "close"}
        /\ i \in SlotsOf(v)
        /\ get_gpadesc(d, i)
        /\ v \notin rec[o][i]
        /\ rec' = [rec EXCEPT ![o] = [j \in Idx |->
                      IF j \in mapped THEN @[j] \cup {v} ELSE @[j]]]
        /\ UNCHANGED <<vmr, mm, desc, cut>>

(***************************************************************************)
(* A vma split, under the mmap lock for writing: ->may_split makes the new *)
(* vmr and links it, ->open gives it its half.  The kernel may fail in     *)
(* between and tells nobody; the link stays.                               *)
(***************************************************************************)
(* finish_emp_vma_split(): a linked vmr that never became a vma's is freed. *)
finish_split(vs, p) ==
    LET q == vs[p].link
        unlinked == [vs EXCEPT ![p].link = None]
    IN  IF q # None /\ vs[q].st = "pending"
        THEN [unlinked EXCEPT ![q] = Dead] ELSE unlinked

may_split(p, n) ==
    finish_split([vmr EXCEPT ![n] = [NewVmr EXCEPT !.st = "pending", !.mm = vmr[p].mm]], p)

SplitFails(p) ==
    /\ SplitMayFail
    /\ vmr[p].st = "live"
    /\ mm[vmr[p].mm] = Idle
    /\ Unused # {}
    /\ vmr' = [may_split(p, NextVmr) EXCEPT ![p].link = NextVmr]
    /\ UNCHANGED <<mm, desc, dirVars, rec>>

(* The first half of __emp_vma_split(): the intervals, the reference and,  *)
(* block by block, the cut and the records of the new half.  A subblock at *)
(* an unaligned boundary is mapped by both halves.                         *)
SplitOpen(p, mid, newIsFront) ==
    LET n == NextVmr
        d == vmr[p].desc
        b == SbDown(mid)
        o == Gpa(d, b)
        front == [lo |-> vmr[p].lo, hi |-> mid]
        back  == [lo |-> mid, hi |-> vmr[p].hi]
        old == IF newIsFront THEN back ELSE front
        new == IF newIsFront THEN front ELSE back
        moved(S, i) ==
            IF p \notin S \/ i \notin Slots(new.lo, new.hi) THEN S
            ELSE IF i \in Slots(old.lo, old.hi) THEN S \cup {n} ELSE (S \ {p}) \cup {n}
    IN  /\ vmr[p].st = "live"
        /\ mm[vmr[p].mm] = Idle
        /\ Unused # {}
        /\ mid \in Splits(d) /\ vmr[p].lo < mid /\ mid < vmr[p].hi
        /\ get_gpadesc(d, b)
        /\ vmr' = [may_split(p, n) EXCEPT
              ![p].lo = old.lo, ![p].hi = old.hi, ![p].link = n,
              ![n].st = "live", ![n].desc = d, ![n].lo = new.lo, ![n].hi = new.hi]
        /\ desc' = [desc EXCEPT ![d].refcount = @ + 1]
        /\ rec' = [x \in Gpas |-> [i \in Idx |->
                      IF dir[d][i] = x THEN moved(rec[x][i], i) ELSE rec[x][i]]]
        /\ cut' = [cut EXCEPT ![o] = @ \cup {b, SbUp(mid)}]
        /\ mm' = [mm EXCEPT ![vmr[p].mm] = [op |-> "views", prev |-> p, mid |-> mid,
                                            lo |-> vmr[p].lo, hi |-> vmr[p].hi]]

(* The second half: the views, and the link is done with.                  *)
SplitViews(m) ==
    LET s == mm[m]
        d == vmr[s.prev].desc
    IN  /\ s.op = "views"
        /\ \E fails \in Outcomes :
              desc' = [desc EXCEPT ![d].views = view_split(@, s.lo, s.hi, s.mid, fails)]
        /\ vmr' = finish_split(vmr, s.prev)
        /\ mm' = [mm EXCEPT ![m] = Idle]
        /\ UNCHANGED <<dirVars, rec>>

(***************************************************************************)
(* fork(): dup_mmap() holds both mmap locks and opens the child's vmas in  *)
(* ascending order.                                                        *)
(***************************************************************************)
ForkBegin(m) ==
    LET live == {v \in Vmrs : vmr[v].st = "live" /\ vmr[v].mm = m}
    IN  /\ mm[m] = Idle
        /\ UnusedMms # {}
        /\ live # {}
        /\ Cardinality(live) <= Cardinality(Unused)
        /\ \A v \in live : desc[vmr[v].desc].shared \/ FreeDescs # {}
        /\ mm' = [mm EXCEPT ![m] = [op |-> "fork", kid |-> NextMm, todo |-> live],
                            ![NextMm] = [op |-> "child"]]
        /\ UNCHANGED <<vmr, desc, dirVars, rec>>

(* emp_vma_open() in dup_mmap(), for the next vma.  A vma with a split     *)
(* pending is not forked but split: a debug build stops there.             *)
Forking(m) == mm[m].op = "fork" /\ mm[m].todo # {}
NextVma(m) == CHOOSE p \in mm[m].todo : \A q \in mm[m].todo : vmr[p].lo <= vmr[q].lo
Opens(m, shared) ==
    /\ Forking(m) /\ Unused # {}
    /\ vmr[NextVma(m)].link = None
    /\ desc[vmr[NextVma(m)].desc].shared = shared
    /\ \A v \in Vmrs : vmr[v].mm = mm[m].kid => vmr[v].st # "joining"
Forked(m) == [mm EXCEPT ![m].todo = @ \ {NextVma(m)}]
Child(m, p, st, d) ==
    [NewVmr EXCEPT !.st = st, !.mm = mm[m].kid, !.desc = d,
                   !.lo = vmr[p].lo, !.hi = vmr[p].hi]

(* MAP_SHARED: the reference first, then the view.                         *)
ForkSharedRef(m) ==
    LET p == NextVma(m)
        d == vmr[p].desc
    IN  /\ Opens(m, TRUE)
        /\ vmr' = [vmr EXCEPT ![NextVmr] = Child(m, p, "joining", d)]
        /\ desc' = [desc EXCEPT ![d].refcount = @ + 1]
        /\ UNCHANGED <<mm, dirVars, rec>>

ForkSharedView(m, v) ==
    /\ Forking(m)
    /\ vmr[v].st = "joining" /\ vmr[v].mm = mm[m].kid
    /\ vmr' = [vmr EXCEPT ![v].st = "live"]
    /\ desc' = [desc EXCEPT ![vmr[v].desc].views =
                   view_add_alloc(@, vmr[v].lo, vmr[v].hi, TRUE, FALSE)]
    /\ mm' = Forked(m)
    /\ UNCHANGED <<dirVars, rec>>

(* fork_find_sibling_vmdesc(): the namespace of the child vma that ends    *)
(* where this one begins, if the parents of the two share one.             *)
Siblings(m, p) ==
    {v \in Vmrs :
        /\ vmr[v].st = "live" /\ vmr[v].mm = mm[m].kid /\ vmr[v].hi = vmr[p].lo
        /\ \E q \in Vmrs : vmr[q].st = "live" /\ vmr[q].mm = m
              /\ vmr[q].hi = vmr[p].lo /\ vmr[q].desc = vmr[p].desc}

(* __dup_vmdesc(): the child shares every block of the parent's interval.  *)
dup_slots(p) ==
    UNION {BlockOf(dir[vmr[p].desc][i], i) :
              i \in {j \in SlotsOf(p) : dir[vmr[p].desc][j] # None}}

dup_vmdesc(p, d, dup) ==
    LET inherited == IF dup THEN dup_slots(p) ELSE {}
        filled == {i \in inherited : dir[d][i] = None}
    IN  /\ dir' = [dir EXCEPT ![d] = [i \in Idx |->
                      IF i \in filled THEN dir[vmr[p].desc][i] ELSE @[i]]]
        /\ ref' = [o \in Gpas |-> [i \in Idx |->
                      IF i \in filled /\ dir[vmr[p].desc][i] = o
                      THEN ref[o][i] + 1 ELSE ref[o][i]]]
        /\ UNCHANGED <<used, cut, rec>>

(* Private, and a sibling has made the child namespace.                    *)
ForkSibling(m) ==
    LET p == NextVma(m)
    IN  /\ Opens(m, FALSE)
        /\ \E w \in Siblings(m, p), fails \in Outcomes :
              LET d == vmr[w].desc
              IN  /\ vmr' = [vmr EXCEPT ![NextVmr] = Child(m, p, "live", d)]
                  /\ desc' = [desc EXCEPT
                        ![d].refcount = @ + 1,
                        ![d].views = view_add_alloc(@, vmr[p].lo, vmr[p].hi, FALSE, fails)]
                  /\ dup_vmdesc(p, d, TRUE)
        /\ mm' = Forked(m)

(* Private without a sibling, or wiped on fork: a new namespace.           *)
ForkPrivate(m, wipe) ==
    LET p == NextVma(m)
        d == NextDesc
    IN  /\ Opens(m, FALSE)
        /\ wipe \/ Siblings(m, p) = {}
        /\ FreeDescs # {}
        /\ \E fails \in Outcomes :
              LET views == view_add_alloc(<<>>, vmr[p].lo, vmr[p].hi, FALSE, fails)
              IN  desc' = [desc EXCEPT ![d] = [NewDesc EXCEPT
                      !.st = "alive", !.refcount = 1, !.views = views]]
        /\ vmr' = [vmr EXCEPT ![NextVmr] = Child(m, p, "live", d)]
        /\ dup_vmdesc(p, d, ~wipe)
        /\ mm' = Forked(m)

(* No memory for the vmr, or for a vmdesc of its own: the child vma stays  *)
(* without a vmr.                                                          *)
ForkFails(m) ==
    /\ \E shared \in BOOLEAN : Opens(m, shared)
    /\ vmr' = [vmr EXCEPT ![NextVmr] = Dead]
    /\ mm' = Forked(m)
    /\ UNCHANGED <<desc, dirVars, rec>>

ForkEnd(m) ==
    /\ mm[m].op = "fork" /\ mm[m].todo = {}
    /\ mm' = [mm EXCEPT ![m] = Idle, ![mm[m].kid] = Idle]
    /\ UNCHANGED <<vmr, desc, dirVars, rec>>

(***************************************************************************)
(* gpas_close(): by munmap() or by the exit of the process.  Closers of    *)
(* one vmdesc in different mms take turns by is_closing.                   *)
(***************************************************************************)
In(v, st) == [vmr EXCEPT ![v].st = st]

CloseBegin(v) ==
    /\ vmr[v].st = "live"
    /\ mm[vmr[v].mm] = Idle
    /\ vmr' = [finish_split(vmr, v) EXCEPT ![v].st = "enter"]
    /\ mm' = [mm EXCEPT ![vmr[v].mm] = [op |-> "close"]]
    /\ UNCHANGED <<desc, dirVars, rec>>

CloseEnter(v) ==
    LET d == vmr[v].desc
    IN  /\ vmr[v].st = "enter"
        /\ \/ /\ desc[d].closer = None
              /\ desc' = [desc EXCEPT ![d].closer = v]
              /\ vmr' = In(v, "own")
           \/ /\ desc[d].closer # None
              /\ vmr' = In(v, "asleep")
              /\ UNCHANGED desc
        /\ UNCHANGED <<mm, dirVars, rec>>

CloseDropView(v) ==
    LET d == vmr[v].desc
    IN  /\ vmr[v].st = "own"
        /\ desc' = [desc EXCEPT ![d].views = view_del(@, vmr[v].lo, vmr[v].hi)]
        /\ vmr' = In(v, "dropped")
        /\ UNCHANGED <<mm, dirVars, rec>>

(* The last one walks the whole directory.                                 *)
LastWalk_Mutant(v) == WalkOf(SbDown(vmr[v].lo), SbUp(vmr[v].hi))
LastWalk(v) == Groups

(* The others walk their view, and release what no view covers: whole      *)
(* subblocks of the remainder, so it is rounded inward.                    *)
Released_Mutant(u) == [fine |-> u.fine, lo |-> SbDown(u.lo), hi |-> SbUp(u.hi)]
Released(u) ==
    IF u.fine /\ u.lo < u.hi
    THEN [fine |-> TRUE, lo |-> SbUp(u.lo), hi |-> SbDown(u.hi)]
    ELSE [Nothing EXCEPT !.fine = u.fine]

CloseDropRef(v) ==
    LET d == vmr[v].desc
        n == desc[d].refcount - 1
        u == find_uncovered(desc[d].views, vmr[v].lo, vmr[v].hi)
    IN  /\ vmr[v].st = "dropped"
        /\ desc' = [desc EXCEPT ![d].refcount = n]
        /\ vmr' = [vmr EXCEPT
              ![v].st = "walk", ![v].cnt = n,
              ![v].unc = IF n > 0 THEN Released(u) ELSE Nothing,
              ![v].todo = IF n > 0 THEN WalkOf(SbDown(vmr[v].lo), SbUp(vmr[v].hi))
                                   ELSE LastWalk(v)]
        /\ UNCHANGED <<mm, dirVars, rec>>

(* free_gpa_dir_region(): the next group that is there.                    *)
Present(v) == {g \in vmr[v].todo : dir[vmr[v].desc][g.first] # None}
Group(v) == CHOOSE g \in Present(v) : \A h \in Present(v) : WalkedBefore(g, h)

(* Release is decided per group if the remainder was not one range, ...    *)
CloseQuery(v) ==
    LET g == Group(v)
    IN  /\ vmr[v].st = "walk" /\ ~vmr[v].unc.fine
        /\ Present(v) # {}
        /\ vmr' = [vmr EXCEPT ![v].st = "put", ![v].todo = Present(v),
                      ![v].rel = ~is_covered(desc[vmr[v].desc].views,
                                             g.first * SbSize, g.end * SbSize)]
        /\ UNCHANGED <<mm, desc, dirVars, rec>>

(* ... and before that query is used, others may have had the view_lock.   *)
Releases(v) ==
    LET u == vmr[v].unc
    IN  IF vmr[v].cnt = 0 THEN TRUE
        ELSE IF u.fine THEN Group(v).first >= u.lo /\ Group(v).end <= u.hi
        ELSE vmr[v].rel

(* __put_max_block() under the locks of the group: the records of the vmr  *)
(* go in any case, the slots if released, and the group with its last      *)
(* reference.  (An empty slot in a released group is a null pointer here.) *)
puts_ref_Mutant(v) == TRUE
puts_ref(v) == Releases(v)

ClosePut(v) ==
    LET d == vmr[v].desc
        M == Members(Group(v))
        o == dir[d][Group(v).first]
        rest == [i \in Idx |-> ref[o][i] - (IF i \in M /\ puts_ref(v) THEN 1 ELSE 0)]
        gone == Releases(v) /\ rest[Group(v).first] = 0
    IN  /\ \/ vmr[v].st = "put"
           \/ vmr[v].st = "walk" /\ vmr[v].unc.fine
        /\ Present(v) # {}
        /\ Releases(v) => \A i \in M : dir[d][i] = o
        /\ rec' = [rec EXCEPT ![o] = [i \in Idx |-> IF i \in M THEN @[i] \ {v} ELSE @[i]]]
        /\ ref' = [ref EXCEPT ![o] = rest]
        /\ dir' = IF Releases(v)
                  THEN [dir EXCEPT ![d] = [i \in Idx |-> IF i \in M THEN None ELSE @[i]]]
                  ELSE dir
        /\ used' = IF gone THEN used \ {o} ELSE used
        /\ cut' = IF gone THEN [cut EXCEPT ![o] = {}] ELSE cut
        /\ vmr' = [vmr EXCEPT ![v].st = "walk", ![v].todo = Present(v) \ {Group(v)}, ![v].rel = FALSE]
        /\ UNCHANGED <<mm, desc>>

(* Not the last one: let the next closer in.                               *)
CloseClear(v) ==
    /\ vmr[v].st = "walk" /\ Present(v) = {} /\ vmr[v].cnt > 0
    /\ desc' = [desc EXCEPT ![vmr[v].desc].closer = None]
    /\ vmr' = In(v, "wake")
    /\ UNCHANGED <<mm, dirVars, rec>>

woken_Mutant(v) == {}
woken(v) == {w \in Vmrs : vmr[w].st = "asleep" /\ vmr[w].desc = vmr[v].desc}
Ended(v) == [mm EXCEPT ![vmr[v].mm] = Idle]

CloseWake(v) ==
    /\ vmr[v].st = "wake"
    /\ vmr' = [w \in Vmrs |->
                  IF w = v THEN Dead
                  ELSE IF w \in woken(v) THEN [vmr[w] EXCEPT !.st = "enter"]
                  ELSE vmr[w]]
    /\ mm' = Ended(v)
    /\ UNCHANGED <<desc, dirVars, rec>>

(* The last one: the directory, the views and the vmdesc are freed.        *)
CloseLast(v) ==
    /\ vmr[v].st = "walk" /\ Present(v) = {} /\ vmr[v].cnt = 0
    /\ desc' = [desc EXCEPT ![vmr[v].desc].st = "freed"]
    /\ vmr' = [vmr EXCEPT ![v] = Dead]
    /\ mm' = Ended(v)
    /\ UNCHANGED <<dirVars, rec>>

(***************************************************************************)
(* The specification.                                                      *)
(***************************************************************************)
Close(v) ==
    \/ CloseEnter(v) \/ CloseDropView(v) \/ CloseDropRef(v)
    \/ CloseQuery(v) \/ ClosePut(v)
    \/ CloseClear(v) \/ CloseWake(v) \/ CloseLast(v)

(* What goes on under a mmap lock held for writing.                        *)
Locked(m) ==
    \/ SplitViews(m)
    \/ ForkSharedRef(m)
    \/ \E v \in Vmrs : ForkSharedView(m, v)
    \/ ForkSibling(m)
    \/ \E wipe \in BOOLEAN : ForkPrivate(m, wipe)
    \/ ForkFails(m)
    \/ ForkEnd(m)

Next ==
    \/ \E shared \in Sharing : Mmap(shared)
    \/ \E v \in Vmrs, i \in Idx : Fault(v, i)
    \/ \E v \in Vmrs : SplitFails(v) \/ CloseBegin(v) \/ Close(v)
    \/ \E v \in Vmrs, mid \in SharedSplits \cup PrivateSplits, newIsFront \in BOOLEAN :
          SplitOpen(v, mid, newIsFront)
    \/ \E m \in Mms : ForkBegin(m) \/ Locked(m)

Spec == Init /\ [][Next]_vars

(* A thread in a system call of its own process goes on: a closer that is  *)
(* not asleep, a split or a fork that has begun.                           *)
Fairness ==
    /\ \A v \in Vmrs : WF_vars(Close(v))
    /\ \A m \in Mms : WF_vars(Locked(m))
FairSpec == Spec /\ Fairness

(***************************************************************************)
(* Properties.                                                             *)
(***************************************************************************)
VmrType ==
    [st : Phases, mm : Mms \cup {None}, desc : Descs \cup {None}, lo : 0..NPages, hi : 0..NPages,
     link : Vmrs \cup {None}, cnt : 0..MaxVmr, unc : Uncovered,
     todo : SUBSET Groups, rel : BOOLEAN]
ViewType == [start : 0..NPages, end : 1..NPages, count : 1..MaxVmr]

(* The fields of vmrs, vmdescs and groups have their types; the counts of  *)
(* views, references and vmrs stay in range (struct emp_vmr, emp_vmdesc,   *)
(* emp_gpa), no entry of a view list has count 0.                          *)
TypeOK ==
    /\ vmr \in [Vmrs -> VmrType]
    /\ \A m \in Mms : mm[m].op \in {"unused", "idle", "views", "fork", "child", "close"}
    /\ \A d \in Descs :
          /\ desc[d].st \in {"unused", "alive", "freed"} /\ desc[d].shared \in BOOLEAN
          /\ desc[d].refcount \in 0..MaxVmr
          /\ desc[d].closer \in Vmrs \cup {None}
          /\ ToSet(desc[d].views) \subseteq ViewType
    /\ dir \in [Descs -> [Idx -> Gpas \cup {None}]]
    /\ used \subseteq Gpas
    /\ ref \in [Gpas -> [Idx -> 0..MaxDesc]]
    /\ rec \in [Gpas -> [Idx -> SUBSET Vmrs]]
    /\ cut \in [Gpas -> SUBSET (0..GpaLen)]

(* Vmrs of a vmdesc in some phases.                                        *)
Of(d, S) == {v \in Vmrs : vmr[v].desc = d /\ vmr[v].st \in S}
(* The views of @d are not between two steps of a split.                   *)
InSplit(d) == \E m \in Mms : mm[m].op = "views" /\ vmr[mm[m].prev].desc = d

(* debug_check_vmdesc_views() and more: outside a split the view list is   *)
(* sorted, has every interval once, and counts exactly the vmrs that view  *)
(* it; the refcount counts the vmrs that have not given it up.             *)
ViewsMatchVmrs ==
    \A d \in Descs : (desc[d].st = "alive" /\ ~InSplit(d)) =>
        LET views == desc[d].views
        IN  /\ \A k \in 1..(Len(views) - 1) :
                  SortsBefore(views[k], views[k + 1].start, views[k + 1].end)
            /\ ToSet(views) =
                  {View(vmr[v].lo, vmr[v].hi,
                        Cardinality({w \in Of(d, Viewing) :
                            vmr[w].lo = vmr[v].lo /\ vmr[w].hi = vmr[v].hi})) :
                      v \in Of(d, Viewing)}
            /\ desc[d].refcount = Cardinality(Of(d, Holding))

(* Also in the middle of a split or a fork, a vmr that has not begun to    *)
(* give up its view has its interval inside one entry of the list, so that *)
(* a close in another mm never sees it uncovered.                          *)
ViewersCovered ==
    \A d \in Descs : \A v \in Of(d, Viewing \cup {"joining"}) :
        \E k \in DOMAIN desc[d].views :
            desc[d].views[k].start <= vmr[v].lo /\ vmr[v].hi <= desc[d].views[k].end

(* A close never takes a slot out of the directory that another vmr views, *)
(* forks and splits that overtake it included.                             *)
ViewedSlotsStay ==
    [][\A d \in Descs, i \in Idx :
          (dir[d][i] # None /\ dir'[d][i] = None) =>
              \A v \in Of(d, Viewing \cup {"joining"}) : i \notin SlotsOf(v)]_vars

(* No mapping record outlives its vmr or the group it is in: the strip of  *)
(* a close reaches every record that faults and splits made.               *)
RecordsOfLiveVmrs ==
    \A o \in Gpas, i \in Idx : \A v \in rec[o][i] :
        o \in used /\ vmr[v].st \in Viewing \cup Closing

(* gpa->refcnt of a slot is the number of directories it is in, and no     *)
(* directory names a group that was freed.                                 *)
RefcntIsDirs ==
    \A o \in Gpas, i \in Idx :
        LET n == Cardinality({d \in Descs : dir[d][i] = o})
        IN  IF o \in used THEN ref[o][i] = n ELSE n = 0

(* When the last vmr of a vmdesc has closed, nothing is left in the        *)
(* directory that is freed with it, not even groups that earlier closes    *)
(* kept because they straddle views, and no view is left.                  *)
LastCloseEmpties ==
    \A d \in Descs : desc[d].st = "freed" =>
        desc[d].views = <<>> /\ \A i \in Idx : dir[d][i] = None

(* For the lists that occur and every range: a fine result is exactly the  *)
(* part no view covers, and the per-block query is the intersection test   *)
(* that a result which is not fine is replaced by.                         *)
UncoveredExact ==
    \A d \in {x \in Descs : desc[x].st = "alive"} :
    \A s \in 0..(NPages - 1) : \A e \in (s + 1)..NPages :
        LET views == desc[d].views
            u == find_uncovered(views, s, e)
            bare == {p \in s..(e - 1) : \A k \in DOMAIN views :
                        ~(views[k].start <= p /\ p < views[k].end)}
        IN  /\ u.fine => bare = u.lo..(u.hi - 1)
            /\ ~u.fine => bare # {}
            /\ is_covered(views, s, e) <=> bare # s..(e - 1)

(* Every close ends: a closer that sleeps behind another one is woken, and *)
(* is not left behind by the last one.                                     *)
ClosesEnd == \A v \in Vmrs : vmr[v].st = "enter" ~> vmr[v].st = "dead"
=============================================================================
