------------------------- MODULE RemotePagesProofs -------------------------
(***************************************************************************)
(* Proofs about RemotePages, for any regions, threads, blocks, records and *)
(* configurations.  The invariant has three parts: Books says who holds    *)
(* which slot, Regions what the regions count and promise, BlocksKept what *)
(* the threads do with the blocks they have locked.  Each of them comes    *)
(* with lemmas on how a step may change what it speaks of.                 *)
(***************************************************************************)
EXTENDS RemotePages, FiniteSetTheorems, TLAPS

(* Every first fault gets its pages, so there is no untouched block for a  *)
(* fork to share (the run RemoteUntouchedCow shows what happens then).     *)
PagesSuffice == "pages" \notin Failures

(***************************************************************************)
(* Books: who holds which slot, in the bitmaps and the shared records.     *)
(***************************************************************************)
OneOwner ==
    /\ \A a, b \in Blocks, i, j \in Subs :
        rp[a][i] \in Slots /\ rp[a][i] = rp[b][j] => a = b /\ i = j
    /\ \A c, d \in Cows :
        cow[c].refcnt > 0 /\ cow[d].refcnt > 0 /\ cow[c].val = cow[d].val => c = d
    /\ \A b \in Blocks, i \in Subs, c \in Cows : cow[c].refcnt > 0 => rp[b][i] # cow[c].val

BitsAgree ==
    \A m \in MrIds : \A o \in Offsets(m) :
        o \in mr[m].bits <=>
            /\ \A b \in Blocks, i \in Subs : rp[b][i] # Slot(m, o)
            /\ \A c \in Cows : cow[c].refcnt > 0 => cow[c].val # Slot(m, o)

CowsKept ==
    /\ RefcntExact
    /\ \A c \in Cows : IF cow[c].refcnt = 0 THEN cow[c] = Unused ELSE cow[c].val \in Slots

Books == OneOwner /\ BitsAgree /\ CowsKept

PageTypes ==
    /\ rp \in [Blocks -> [Subs -> RemotePage]]
    /\ cow \in [Cows -> [refcnt : Nat, val : {Free} \cup Slots]]

------------------------------------------------------------------------------
(***************************************************************************)
(* The three kinds of remote pages.                                        *)
(***************************************************************************)
LEMMA Kinds ==
    /\ ~is_cow(Free)
    /\ \A c : is_cow(Cow(c)) /\ Cow(c).id = c /\ Cow(c) # Free
    /\ \A m, o : /\ ~is_cow(Slot(m, o)) /\ Slot(m, o) # Free
                 /\ Slot(m, o).mr = m /\ Slot(m, o).off = o
    /\ \A m, o, c : Slot(m, o) # Cow(c)
BY DEF is_cow, Free, Cow, Slot

LEMMA SlotsAre == \A s : s \in Slots <=> \E m \in MrIds : \E o \in Offsets(m) : s = Slot(m, o)
BY DEF Slots

LEMMA OfSlot ==
    ASSUME NEW s \in Slots
    PROVE  /\ s.mr \in MrIds /\ s.off \in Offsets(s.mr) /\ s = Slot(s.mr, s.off)
           /\ ~is_cow(s) /\ s # Free
<1>1. PICK m \in MrIds : \E o \in Offsets(m) : s = Slot(m, o)
  BY SlotsAre
<1>2. PICK o \in Offsets(m) : s = Slot(m, o)
  BY <1>1
<1>3. QED
  BY <1>1, <1>2, Kinds

LEMMA OfPage ==
    ASSUME NEW r \in RemotePage
    PROVE  /\ r = Free \/ r \in Slots \/ \E c \in Cows : r = Cow(c)
           /\ is_cow(r) <=> \E c \in Cows : r = Cow(c)
           /\ is_cow(r) => r.id \in Cows /\ r = Cow(r.id) /\ r # Free /\ r \notin Slots
           /\ ~is_cow(r) /\ r # Free => r \in Slots
<1>1. r = Free \/ r \in Slots \/ \E c \in Cows : r = Cow(c)
  BY DEF RemotePage
<1>2. QED
  BY <1>1, Kinds, OfSlot

LEMMA PointersFinite ==
    ASSUME NEW c
    PROVE  IsFiniteSet(Pointers(c)) /\ Cardinality(Pointers(c)) \in Nat
<1>1. IsFiniteSet(Blocks \X Subs)
  <2>1. Subblocks \in Int /\ IsFiniteSet(Blocks)
    BY RemoteAssumption
  <2>2. IsFiniteSet(Subs)
    BY <2>1, FS_Interval DEF Subs
  <2>3. QED
    BY <2>1, <2>2, FS_Product
<1>2. Pointers(c) \subseteq Blocks \X Subs
  BY DEF Pointers, Subpages
<1>3. QED
  BY <1>1, <1>2, FS_Subset, FS_CardinalityType

LEMMA PointsAt ==
    ASSUME NEW c, NEW b \in Blocks, NEW i \in Subs
    PROVE  <<b, i>> \in Pointers(c) <=> rp[b][i] = Cow(c)
BY DEF Pointers, Subpages, Page

(* Whoever points at a record finds it counted, with a slot.               *)
LEMMA PointedAt ==
    ASSUME PageTypes, CowsKept, NEW c \in Cows, NEW b \in Blocks, NEW i \in Subs, rp[b][i] = Cow(c)
    PROVE  cow[c].refcnt > 0 /\ cow[c].val \in Slots
<1>1. Pointers(c) # {}
  BY PointsAt
<1>2. Cardinality(Pointers(c)) # 0 /\ Cardinality(Pointers(c)) \in Nat
  BY <1>1, PointersFinite, FS_EmptySet
<1>3. QED
  BY <1>2 DEF CowsKept, RefcntExact

------------------------------------------------------------------------------
(***************************************************************************)
(* How an entry changes hands.  Changed: one subblock gets page r.         *)
(***************************************************************************)
Changed(b, i, r) ==
    /\ PageTypes'
    /\ \A a \in Blocks, j \in Subs : rp'[a][j] = IF a = b /\ j = i THEN r ELSE rp[a][j]

SameBits == \A m \in MrIds : mr'[m].bits = mr[m].bits
OneCow(c, x) == \A d \in Cows : cow'[d] = IF d = c THEN x ELSE cow[d]

LEMMA PointersChange ==
    ASSUME NEW b \in Blocks, NEW i \in Subs, NEW r, Changed(b, i, r), NEW c
    PROVE  Pointers(c)' = IF r = Cow(c) THEN Pointers(c) \cup {<<b, i>>}
                                        ELSE Pointers(c) \ {<<b, i>>}
<1>1. \A p : p \in Pointers(c) <=> p \in Blocks \X Subs /\ rp[p[1]][p[2]] = Cow(c)
  BY DEF Pointers, Subpages, Page
<1>2. \A p : p \in Pointers(c)' <=> p \in Blocks \X Subs /\ rp'[p[1]][p[2]] = Cow(c)
  BY DEF Pointers, Subpages, Page
<1>3. \A p \in Blocks \X Subs : p = <<b, i>> <=> p[1] = b /\ p[2] = i
  OBVIOUS
<1>4. \A p \in Blocks \X Subs : rp'[p[1]][p[2]] = IF p = <<b, i>> THEN r ELSE rp[p[1]][p[2]]
  BY <1>3 DEF Changed
<1>5. <<b, i>> \in Blocks \X Subs
  OBVIOUS
<1>6. CASE r = Cow(c)
  <2>1. \A p : p \in Pointers(c)' <=> p \in Pointers(c) \cup {<<b, i>>}
    BY <1>1, <1>2, <1>4, <1>5, <1>6
  <2>2. QED
    BY <1>6, <2>1
<1>7. CASE r # Cow(c)
  <2>1. \A p : p \in Pointers(c)' <=> p \in Pointers(c) \ {<<b, i>>}
    BY <1>1, <1>2, <1>4, <1>5, <1>7
  <2>2. QED
    BY <1>7, <2>1
<1>8. QED
  BY <1>6, <1>7

(* A free subblock takes a free slot.                                      *)
LEMMA Take ==
    ASSUME Books, PageTypes, NEW b \in Blocks, NEW i \in Subs, rp[b][i] = Free,
           NEW m \in MrIds, NEW o \in Offsets(m), o \in mr[m].bits,
           Changed(b, i, Slot(m, o)), cow' = cow,
           \A k \in MrIds : mr'[k].bits = IF k = m THEN mr[k].bits \ {o} ELSE mr[k].bits
    PROVE  Books'
<1>1. /\ \A a \in Blocks, j \in Subs : rp[a][j] # Slot(m, o)
      /\ \A c \in Cows : cow[c].refcnt > 0 => cow[c].val # Slot(m, o)
  BY DEF Books, BitsAgree
<1>2. OneOwner'
  BY <1>1 DEF Books, OneOwner, Changed
<1>3. BitsAgree'
  <2> SUFFICES ASSUME NEW k \in MrIds, NEW q \in Offsets(k)
               PROVE  q \in mr'[k].bits <=>
                        /\ \A a \in Blocks, j \in Subs : rp'[a][j] # Slot(k, q)
                        /\ \A c \in Cows : cow[c].refcnt > 0 => cow[c].val # Slot(k, q)
    BY DEF BitsAgree
  <2>1. Slot(k, q) = Slot(m, o) <=> k = m /\ q = o
    BY Kinds
  <2>2. Free # Slot(k, q)
    BY Kinds
  <2>3. rp[b][i] # Slot(k, q)
    BY <2>2
  <2>4. CASE k = m /\ q = o
    BY <2>1, <2>4 DEF Changed
  <2>5. CASE ~(k = m /\ q = o)
    <3>1. q \in mr'[k].bits <=> q \in mr[k].bits
      BY <2>5
    <3>2. \A a \in Blocks, j \in Subs : rp'[a][j] = Slot(k, q) <=> rp[a][j] = Slot(k, q)
      BY <2>1, <2>3, <2>5 DEF Changed
    <3>3. QED
      BY <3>1, <3>2 DEF Books, BitsAgree
  <2>6. QED
    BY <2>4, <2>5
<1>4. CowsKept'
  <2>1. ASSUME NEW c \in Cows
        PROVE  Pointers(c)' = Pointers(c)
    <3>1. Slot(m, o) # Cow(c) /\ <<b, i>> \notin Pointers(c)
      BY Kinds, PointsAt
    <3>2. QED
      BY <3>1, PointersChange
  <2>2. QED
    BY <2>1 DEF Books, CowsKept, RefcntExact
<1>5. QED
  BY <1>2, <1>3, <1>4 DEF Books

(* A subblock gives its slot back.                                         *)
LEMMA Give ==
    ASSUME Books, PageTypes, NEW b \in Blocks, NEW i \in Subs,
           NEW m \in MrIds, NEW o \in Offsets(m), rp[b][i] = Slot(m, o),
           Changed(b, i, Free), cow' = cow,
           \A k \in MrIds : mr'[k].bits = IF k = m THEN mr[k].bits \cup {o} ELSE mr[k].bits
    PROVE  Books' /\ o \notin mr[m].bits
<1>1. Slot(m, o) \in Slots /\ Free \notin Slots
  BY SlotsAre, Kinds
<1>2. o \notin mr[m].bits
  BY DEF Books, BitsAgree
<1>3. OneOwner'
  <2>1. \A c \in Cows : cow[c].refcnt > 0 => cow[c].val # Free
    BY <1>1 DEF Books, CowsKept
  <2>2. QED
    BY <1>1, <2>1 DEF Books, OneOwner, Changed
<1>4. BitsAgree'
  <2> SUFFICES ASSUME NEW k \in MrIds, NEW q \in Offsets(k)
               PROVE  q \in mr'[k].bits <=>
                        /\ \A a \in Blocks, j \in Subs : rp'[a][j] # Slot(k, q)
                        /\ \A c \in Cows : cow[c].refcnt > 0 => cow[c].val # Slot(k, q)
    BY DEF BitsAgree
  <2>1. Slot(k, q) = Slot(m, o) <=> k = m /\ q = o
    BY Kinds
  <2>2. Free # Slot(k, q)
    BY Kinds
  <2>3. CASE k = m /\ q = o
    <3>1. \A a \in Blocks, j \in Subs : rp'[a][j] # Slot(m, o)
      BY <1>1, <2>2, <2>3 DEF Books, OneOwner, Changed
    <3>2. \A c \in Cows : cow[c].refcnt > 0 => cow[c].val # Slot(m, o)
      BY DEF Books, OneOwner
    <3>3. QED
      BY <2>3, <3>1, <3>2
  <2>4. CASE ~(k = m /\ q = o)
    <3>1. q \in mr'[k].bits <=> q \in mr[k].bits
      BY <2>4
    <3>2. \A a \in Blocks, j \in Subs : rp'[a][j] = Slot(k, q) <=> rp[a][j] = Slot(k, q)
      BY <2>1, <2>2, <2>4 DEF Changed
    <3>3. QED
      BY <3>1, <3>2 DEF Books, BitsAgree
  <2>5. QED
    BY <2>3, <2>4
<1>5. CowsKept'
  <2>1. ASSUME NEW c \in Cows
        PROVE  Pointers(c)' = Pointers(c)
    <3>1. Free # Cow(c) /\ <<b, i>> \notin Pointers(c)
      BY Kinds, PointsAt
    <3>2. QED
      BY <3>1, PointersChange
  <2>2. QED
    BY <2>1 DEF Books, CowsKept, RefcntExact
<1>6. QED
  BY <1>2, <1>3, <1>4, <1>5 DEF Books

(* A subblock gives up a record that others share.                         *)
LEMMA Drop ==
    ASSUME Books, PageTypes, NEW b \in Blocks, NEW i \in Subs, NEW c \in Cows,
           rp[b][i] = Cow(c), cow[c].refcnt # 1, Changed(b, i, Free), SameBits,
           OneCow(c, [cow[c] EXCEPT !.refcnt = @ - 1])
    PROVE  Books'
<1>1. cow[c].refcnt \in Nat /\ cow[c].refcnt > 1 /\ cow[c].val \in Slots
  BY PointedAt DEF Books, PageTypes
<1>2. /\ cow'[c].refcnt = cow[c].refcnt - 1 /\ cow'[c].refcnt > 0 /\ cow'[c].val = cow[c].val
      /\ \A d \in Cows \ {c} : cow'[d] = cow[d]
  BY <1>1 DEF OneCow, PageTypes
<1>3. \A d \in Cows : (cow'[d].refcnt > 0 <=> cow[d].refcnt > 0) /\ cow'[d].val = cow[d].val
  BY <1>1, <1>2
<1>4. \A s \in Slots : s # Free /\ s # rp[b][i]
  BY Kinds, OfSlot, SlotsAre
<1>5. \A a \in Blocks, j \in Subs : \A s \in Slots : rp'[a][j] = s <=> rp[a][j] = s
  BY <1>4 DEF Changed
<1>6. OneOwner'
  <2>1. ASSUME NEW a \in Blocks, NEW d \in Blocks, NEW j \in Subs, NEW k \in Subs,
               rp'[a][j] \in Slots, rp'[a][j] = rp'[d][k]
        PROVE  a = d /\ j = k
    BY <1>5, <2>1 DEF Books, OneOwner
  <2>2. \A d \in Cows : cow[d].refcnt > 0 => cow[d].val \in Slots
    BY DEF Books, CowsKept
  <2>3. ASSUME NEW a \in Blocks, NEW j \in Subs, NEW d \in Cows, cow'[d].refcnt > 0
        PROVE  rp'[a][j] # cow'[d].val
    BY <1>3, <1>5, <2>2, <2>3 DEF Books, OneOwner
  <2>4. QED
    BY <1>3, <2>1, <2>3 DEF Books, OneOwner
<1>7. BitsAgree'
  <2>1. \A m \in MrIds : \A o \in Offsets(m) : Slot(m, o) \in Slots
    BY SlotsAre
  <2>2. QED
    BY <1>3, <1>5, <2>1 DEF Books, BitsAgree, SameBits
<1>8. CowsKept'
  <2>1. \A d \in Cows : Pointers(d)' = Pointers(d) \ {<<b, i>>}
    BY Kinds, PointersChange
  <2>2. \A d \in Cows : <<b, i>> \in Pointers(d) <=> d = c
    BY Kinds, PointsAt
  <2>3. Cardinality(Pointers(c)') = Cardinality(Pointers(c)) - 1
    BY ZenonT(60), <2>1, <2>2, PointersFinite, FS_RemoveElement
  <2>4. \A d \in Cows \ {c} : Pointers(d)' = Pointers(d)
    BY <2>1, <2>2
  <2>5. QED
    BY <1>1, <1>2, <1>3, <2>3, <2>4 DEF Books, CowsKept, RefcntExact
<1>9. QED
  BY <1>6, <1>7, <1>8 DEF Books

(* The last reference to a record: nobody else points at it.               *)
LEMMA LastPointer ==
    ASSUME Books, PageTypes, NEW b \in Blocks, NEW i \in Subs, NEW c \in Cows,
           rp[b][i] = Cow(c), cow[c].refcnt = 1
    PROVE  Pointers(c) = {<<b, i>>} /\ cow[c].val \in Slots
<1>1. IsFiniteSet(Pointers(c)) /\ Cardinality(Pointers(c)) = 1
  BY PointersFinite DEF Books, CowsKept, RefcntExact
<1>2. <<b, i>> \in Pointers(c)
  BY PointsAt
<1>3. QED
  BY <1>1, <1>2, FS_Singleton, PointedAt DEF Books

LEMMA RecordGone ==
    ASSUME CowsKept, PageTypes, NEW b \in Blocks, NEW i \in Subs, NEW c \in Cows, NEW r,
           Pointers(c) = {<<b, i>>}, Changed(b, i, r), r = Free \/ r \in Slots,
           OneCow(c, Unused)
    PROVE  CowsKept'
<1>1. \A d \in Cows : r # Cow(d)
  BY Kinds, OfSlot, SlotsAre
<1>2. \A d \in Cows : Pointers(d)' = Pointers(d) \ {<<b, i>>}
  BY <1>1, PointersChange
<1>3. \A d \in Cows : <<b, i>> \in Pointers(d) <=> d = c
  <2>1. rp[b][i] = Cow(c)
    BY PointsAt
  <2>2. QED
    BY <2>1, Kinds, PointsAt
<1>4. Pointers(c)' = {} /\ \A d \in Cows \ {c} : Pointers(d)' = Pointers(d)
  BY <1>2, <1>3
<1>5. cow'[c] = Unused /\ \A d \in Cows \ {c} : cow'[d] = cow[d]
  BY DEF OneCow
<1>6. Unused.refcnt = 0
  BY DEF Unused
<1>7. QED
  BY <1>4, <1>5, <1>6, FS_EmptySet DEF CowsKept, RefcntExact

(* ... it gives back the slot behind the record, ...                       *)
LEMMA LastGives ==
    ASSUME Books, PageTypes, NEW b \in Blocks, NEW i \in Subs, NEW c \in Cows,
           rp[b][i] = Cow(c), cow[c].refcnt = 1, Changed(b, i, Free), OneCow(c, Unused),
           NEW m \in MrIds, NEW o \in Offsets(m), cow[c].val = Slot(m, o),
           \A k \in MrIds : mr'[k].bits = IF k = m THEN mr[k].bits \cup {o} ELSE mr[k].bits
    PROVE  Books' /\ o \notin mr[m].bits
<1>1. CowsKept'
  BY LastPointer, RecordGone DEF Books
<1>2. o \notin mr[m].bits
  BY DEF Books, BitsAgree
<1>3. cow'[c].refcnt = 0 /\ \A d \in Cows \ {c} : cow'[d] = cow[d]
  BY DEF OneCow, Unused
<1>4. \A s \in Slots : s # Free /\ s # rp[b][i]
  BY Kinds, OfSlot, SlotsAre
<1>5. \A a \in Blocks, j \in Subs : \A s \in Slots : rp'[a][j] = s <=> rp[a][j] = s
  BY <1>4 DEF Changed
<1>6. \A d \in Cows : cow'[d].refcnt > 0 => d # c /\ cow'[d] = cow[d] /\ cow[d].val \in Slots
  BY <1>3 DEF Books, CowsKept
<1>7. OneOwner'
  <2>1. ASSUME NEW a \in Blocks, NEW d \in Blocks, NEW j \in Subs, NEW k \in Subs,
               rp'[a][j] \in Slots, rp'[a][j] = rp'[d][k]
        PROVE  a = d /\ j = k
    BY <1>5, <2>1 DEF Books, OneOwner
  <2>2. ASSUME NEW a \in Blocks, NEW j \in Subs, NEW d \in Cows, cow'[d].refcnt > 0
        PROVE  rp'[a][j] # cow'[d].val
    BY <1>5, <1>6, <2>2 DEF Books, OneOwner
  <2>3. QED
    BY <1>6, <2>1, <2>2 DEF Books, OneOwner
<1>8. BitsAgree'
  <2> SUFFICES ASSUME NEW k \in MrIds, NEW q \in Offsets(k)
               PROVE  q \in mr'[k].bits <=>
                        /\ \A a \in Blocks, j \in Subs : rp'[a][j] # Slot(k, q)
                        /\ \A d \in Cows : cow'[d].refcnt > 0 => cow'[d].val # Slot(k, q)
    BY DEF BitsAgree
  <2>1. Slot(k, q) = Slot(m, o) <=> k = m /\ q = o
    BY Kinds
  <2>2. Slot(k, q) \in Slots
    BY SlotsAre
  <2>3. cow[c].refcnt > 0
    OBVIOUS
  <2>4. CASE k = m /\ q = o
    <3>1. \A a \in Blocks, j \in Subs : rp'[a][j] # Slot(k, q)
      BY <1>5, <2>1, <2>2, <2>3, <2>4 DEF Books, OneOwner
    <3>2. \A d \in Cows : cow'[d].refcnt > 0 => cow'[d].val # Slot(k, q)
      BY <1>6, <2>1, <2>3, <2>4 DEF Books, OneOwner
    <3>3. QED
      BY <2>4, <3>1, <3>2
  <2>5. CASE ~(k = m /\ q = o)
    <3>1. q \in mr'[k].bits <=> q \in mr[k].bits
      BY <2>5
    <3>2. \A d \in Cows : (cow'[d].refcnt > 0 /\ cow'[d].val = Slot(k, q))
                            <=> (cow[d].refcnt > 0 /\ cow[d].val = Slot(k, q))
      BY <1>3, <2>1, <2>5
    <3>3. QED
      BY <1>5, <2>2, <3>1, <3>2 DEF Books, BitsAgree
  <2>6. QED
    BY <2>4, <2>5
<1>9. QED
  BY <1>1, <1>2, <1>7, <1>8 DEF Books

(* ... or keeps it.                                                        *)
LEMMA LastKeeps ==
    ASSUME Books, PageTypes, NEW b \in Blocks, NEW i \in Subs, NEW c \in Cows,
           rp[b][i] = Cow(c), cow[c].refcnt = 1, Changed(b, i, cow[c].val), OneCow(c, Unused),
           SameBits
    PROVE  Books'
<1>1. cow[c].val \in Slots /\ CowsKept'
  BY LastPointer, RecordGone DEF Books
<1>2. cow'[c].refcnt = 0 /\ \A d \in Cows \ {c} : cow'[d] = cow[d]
  BY DEF OneCow, Unused
<1>3. \A s \in Slots : s # rp[b][i]
  BY Kinds, SlotsAre
<1>4. \A a \in Blocks, j \in Subs : \A s \in Slots :
        rp'[a][j] = s <=> rp[a][j] = s \/ (a = b /\ j = i /\ s = cow[c].val)
  BY <1>3 DEF Changed
<1>5. \A d \in Cows : cow'[d].refcnt > 0 => d # c /\ cow'[d] = cow[d] /\ cow[d].val \in Slots
  BY <1>2 DEF Books, CowsKept
<1>6. cow[c].refcnt > 0 /\ \A a \in Blocks, j \in Subs : rp[a][j] # cow[c].val
  BY DEF Books, OneOwner
<1>7. OneOwner'
  <2>0. \A a \in Blocks, j \in Subs : rp'[a][j] = cow[c].val => a = b /\ j = i
    BY <1>1, <1>4, <1>6
  <2>1. ASSUME NEW a \in Blocks, NEW d \in Blocks, NEW j \in Subs, NEW k \in Subs,
               rp'[a][j] \in Slots, rp'[a][j] = rp'[d][k]
        PROVE  a = d /\ j = k
    <3>1. CASE rp'[a][j] = cow[c].val
      BY <2>0, <2>1, <3>1
    <3>2. CASE rp'[a][j] # cow[c].val
      BY <1>4, <2>1, <3>2 DEF Books, OneOwner
    <3>3. QED
      BY <3>1, <3>2
  <2>2. ASSUME NEW a \in Blocks, NEW j \in Subs, NEW d \in Cows, cow'[d].refcnt > 0
        PROVE  rp'[a][j] # cow'[d].val
    BY <1>4, <1>5, <1>6, <2>2 DEF Books, OneOwner
  <2>3. QED
    BY <1>5, <2>1, <2>2 DEF Books, OneOwner
<1>8. BitsAgree'
  <2> SUFFICES ASSUME NEW k \in MrIds, NEW q \in Offsets(k)
               PROVE  q \in mr[k].bits <=>
                        /\ \A a \in Blocks, j \in Subs : rp'[a][j] # Slot(k, q)
                        /\ \A d \in Cows : cow'[d].refcnt > 0 => cow'[d].val # Slot(k, q)
    BY DEF BitsAgree, SameBits
  <2>1. Slot(k, q) \in Slots
    BY SlotsAre
  <2>2. CASE Slot(k, q) = cow[c].val
    BY <1>4, <1>6, <2>1, <2>2 DEF Books, BitsAgree
  <2>3. CASE Slot(k, q) # cow[c].val
    <3>1. \A d \in Cows : (cow'[d].refcnt > 0 /\ cow'[d].val = Slot(k, q))
                            <=> (cow[d].refcnt > 0 /\ cow[d].val = Slot(k, q))
      BY <1>2, <2>3
    <3>2. QED
      BY <1>4, <2>1, <2>3, <3>1 DEF Books, BitsAgree
  <2>4. QED
    BY <2>2, <2>3
<1>9. QED
  BY <1>1, <1>7, <1>8 DEF Books

(* A fork makes one more descriptor point at a record.                     *)
LEMMA ShareOld ==
    ASSUME Books, PageTypes, NEW a \in Blocks, NEW b \in Blocks, NEW i \in Subs, NEW c \in Cows,
           rp[a][i] = Cow(c), rp[b][i] = Free, Changed(b, i, Cow(c)), SameBits,
           OneCow(c, [cow[c] EXCEPT !.refcnt = @ + 1])
    PROVE  Books'
<1>1. cow[c].refcnt \in Nat /\ cow[c].refcnt > 0 /\ cow[c].val \in Slots
  BY PointedAt DEF Books, PageTypes
<1>2. /\ cow'[c].refcnt = cow[c].refcnt + 1 /\ cow'[c].refcnt > 0 /\ cow'[c].val = cow[c].val
      /\ \A d \in Cows \ {c} : cow'[d] = cow[d]
  BY <1>1 DEF OneCow, PageTypes
<1>3. \A d \in Cows : (cow'[d].refcnt > 0 <=> cow[d].refcnt > 0) /\ cow'[d].val = cow[d].val
  BY <1>1, <1>2
<1>4. \A s \in Slots : s # Cow(c) /\ s # rp[b][i]
  BY Kinds, OfSlot, SlotsAre
<1>5. \A d \in Blocks, j \in Subs : \A s \in Slots : rp'[d][j] = s <=> rp[d][j] = s
  BY <1>4 DEF Changed
<1>6. OneOwner'
  <2>1. ASSUME NEW e \in Blocks, NEW d \in Blocks, NEW j \in Subs, NEW k \in Subs,
               rp'[e][j] \in Slots, rp'[e][j] = rp'[d][k]
        PROVE  e = d /\ j = k
    BY <1>5, <2>1 DEF Books, OneOwner
  <2>2. \A d \in Cows : cow[d].refcnt > 0 => cow[d].val \in Slots
    BY DEF Books, CowsKept
  <2>3. ASSUME NEW e \in Blocks, NEW j \in Subs, NEW d \in Cows, cow'[d].refcnt > 0
        PROVE  rp'[e][j] # cow'[d].val
    BY <1>3, <1>5, <2>2, <2>3 DEF Books, OneOwner
  <2>4. QED
    BY <1>3, <2>1, <2>3 DEF Books, OneOwner
<1>7. BitsAgree'
  <2>1. \A m \in MrIds : \A o \in Offsets(m) : Slot(m, o) \in Slots
    BY SlotsAre
  <2>2. QED
    BY <1>3, <1>5, <2>1 DEF Books, BitsAgree, SameBits
<1>8. CowsKept'
  <2>1. <<b, i>> \notin Pointers(c)
    BY Kinds, PointsAt
  <2>2. Pointers(c)' = Pointers(c) \cup {<<b, i>>}
    BY PointersChange
  <2>3. \A d \in Cows \ {c} : Cow(c) # Cow(d) /\ <<b, i>> \notin Pointers(d)
    BY Kinds, PointsAt
  <2>4. ASSUME NEW d \in Cows \ {c}
        PROVE  Pointers(d)' = Pointers(d)
    <3>1. Pointers(d)' = Pointers(d) \ {<<b, i>>}
      BY <2>3, PointersChange
    <3>2. QED
      BY <2>3, <3>1
  <2>5. Cardinality(Pointers(c)') = Cardinality(Pointers(c)) + 1
    BY <2>1, <2>2, PointersFinite, FS_AddElement
  <2>6. QED
    BY <1>1, <1>2, <1>3, <2>4, <2>5 DEF Books, CowsKept, RefcntExact
<1>9. QED
  BY <1>6, <1>7, <1>8 DEF Books

(* The same subblock of two blocks changes.                                *)
Changed2(a, b, i, r, q) ==
    /\ PageTypes'
    /\ \A d \in Blocks, j \in Subs :
        rp'[d][j] = IF d = a /\ j = i THEN r ELSE IF d = b /\ j = i THEN q ELSE rp[d][j]

LEMMA PointersChange2 ==
    ASSUME NEW a \in Blocks, NEW b \in Blocks, a # b, NEW i \in Subs, NEW r, NEW q,
           Changed2(a, b, i, r, q), NEW c
    PROVE  \A p : p \in Pointers(c)' <=>
             \/ p \in Pointers(c) /\ p # <<a, i>> /\ p # <<b, i>>
             \/ p = <<a, i>> /\ r = Cow(c)
             \/ p = <<b, i>> /\ q = Cow(c)
<1>1. \A p : p \in Pointers(c) <=> p \in Blocks \X Subs /\ rp[p[1]][p[2]] = Cow(c)
  BY DEF Pointers, Subpages, Page
<1>2. \A p : p \in Pointers(c)' <=> p \in Blocks \X Subs /\ rp'[p[1]][p[2]] = Cow(c)
  BY DEF Pointers, Subpages, Page
<1>3. \A d \in Blocks : \A p \in Blocks \X Subs : p = <<d, i>> <=> p[1] = d /\ p[2] = i
  OBVIOUS
<1>4. \A p \in Blocks \X Subs :
        rp'[p[1]][p[2]] = IF p = <<a, i>> THEN r ELSE IF p = <<b, i>> THEN q ELSE rp[p[1]][p[2]]
  BY <1>3 DEF Changed2
<1>5. <<a, i>> \in Blocks \X Subs /\ <<b, i>> \in Blocks \X Subs /\ <<a, i>> # <<b, i>>
  OBVIOUS
<1>6. QED
  BY <1>1, <1>2, <1>4, <1>5

LEMMA PairOfPointers ==
    ASSUME NEW p, NEW q, p # q
    PROVE  Cardinality({p, q}) = 2
<1>1. {p, q} = {p} \cup {q} /\ q \notin {p}
  OBVIOUS
<1>2. IsFiniteSet({p}) /\ Cardinality({p}) = 1
  BY FS_Singleton
<1>3. Cardinality({p} \cup {q}) = 1 + 1
  BY <1>1, <1>2, FS_AddElement
<1>4. QED
  BY <1>1, <1>3

(* A fork makes a record of a slot.                                        *)
LEMMA ShareNew ==
    ASSUME Books, PageTypes, NEW a \in Blocks, NEW b \in Blocks, a # b, NEW i \in Subs,
           NEW c \in Cows, rp[a][i] \in Slots, rp[b][i] = Free, cow[c] = Unused,
           Changed2(a, b, i, Cow(c), Cow(c)), SameBits,
           OneCow(c, [refcnt |-> 2, val |-> rp[a][i]])
    PROVE  Books' /\ Pointers(c)' = {<<a, i>>, <<b, i>>} /\ Pointers(c) = {}
<1>1. Unused.refcnt = 0
  BY DEF Unused
<1>2. /\ cow'[c].refcnt = 2 /\ cow'[c].val = rp[a][i]
      /\ \A d \in Cows \ {c} : cow'[d] = cow[d]
  BY DEF OneCow
<1>3. Pointers(c) = {}
  BY <1>1, PointersFinite, FS_EmptySet DEF Books, CowsKept, RefcntExact
<1>4. Pointers(c)' = {<<a, i>>, <<b, i>>}
  BY <1>3, PointersChange2
<1>5. ASSUME NEW d \in Cows \ {c}
      PROVE  Pointers(d)' = Pointers(d)
  <2>1. Cow(c) # Cow(d) /\ rp[a][i] # Cow(d) /\ rp[b][i] # Cow(d)
    BY Kinds, SlotsAre
  <2>2. <<a, i>> \notin Pointers(d) /\ <<b, i>> \notin Pointers(d)
    BY <2>1, PointsAt
  <2>3. \A p : p \in Pointers(d)' <=> p \in Pointers(d)
    BY <2>1, <2>2, PointersChange2
  <2>4. QED
    BY <2>3
<1>6. CowsKept'
  <2>1. <<a, i>> # <<b, i>>
    OBVIOUS
  <2>2. Cardinality(Pointers(c)') = 2
    BY <1>4, <2>1, PairOfPointers
  <2>3. QED
    BY <1>2, <1>5, <2>2 DEF Books, CowsKept, RefcntExact
<1>7. \A s \in Slots : s # Cow(c) /\ s # rp[b][i]
  BY Kinds, OfSlot, SlotsAre
<1>8. \A d \in Blocks, j \in Subs : \A s \in Slots :
        rp'[d][j] = s <=> rp[d][j] = s /\ s # rp[a][i]
  BY <1>7 DEF Books, OneOwner, Changed2
<1>9. \A d \in Cows : cow'[d].refcnt > 0 =>
        /\ cow'[d].val \in Slots
        /\ d # c => cow[d].refcnt > 0 /\ cow'[d].val = cow[d].val /\ cow[d].val # rp[a][i]
  BY <1>2 DEF Books, CowsKept, OneOwner
<1>10. OneOwner'
  <2>1. ASSUME NEW e \in Blocks, NEW d \in Blocks, NEW j \in Subs, NEW k \in Subs,
               rp'[e][j] \in Slots, rp'[e][j] = rp'[d][k]
        PROVE  e = d /\ j = k
    BY <1>8, <2>1 DEF Books, OneOwner
  <2>2. ASSUME NEW e \in Blocks, NEW j \in Subs, NEW d \in Cows, cow'[d].refcnt > 0
        PROVE  rp'[e][j] # cow'[d].val
    <3>1. CASE d = c
      BY <1>2, <1>8, <3>1
    <3>2. CASE d # c
      BY <1>8, <1>9, <2>2, <3>2 DEF Books, OneOwner
    <3>3. QED
      BY <3>1, <3>2
  <2>3. QED
    BY <1>2, <1>9, <2>1, <2>2 DEF Books, OneOwner
<1>11. BitsAgree'
  <2> SUFFICES ASSUME NEW k \in MrIds, NEW q \in Offsets(k)
               PROVE  q \in mr[k].bits <=>
                        /\ \A d \in Blocks, j \in Subs : rp'[d][j] # Slot(k, q)
                        /\ \A d \in Cows : cow'[d].refcnt > 0 => cow'[d].val # Slot(k, q)
    BY DEF BitsAgree, SameBits
  <2>1. Slot(k, q) \in Slots
    BY SlotsAre
  <2>2. CASE Slot(k, q) = rp[a][i]
    BY <1>2, <1>8, <2>1, <2>2 DEF Books, BitsAgree
  <2>3. CASE Slot(k, q) # rp[a][i]
    <3>1. \A d \in Cows : (cow'[d].refcnt > 0 /\ cow'[d].val = Slot(k, q))
                            <=> (cow[d].refcnt > 0 /\ cow[d].val = Slot(k, q))
      BY <1>1, <1>2, <2>3
    <3>2. QED
      BY <1>8, <2>1, <2>3, <3>1 DEF Books, BitsAgree
  <2>4. QED
    BY <2>2, <2>3
<1>12. QED
  BY <1>3, <1>4, <1>6, <1>10, <1>11 DEF Books

(* ... and takes it back when a later one cannot be made.                  *)
LEMMA Unshare ==
    ASSUME Books, PageTypes, NEW a \in Blocks, NEW b \in Blocks, a # b, NEW i \in Subs,
           NEW c \in Cows, Pointers(c) = {<<a, i>>, <<b, i>>},
           Changed2(a, b, i, cow[c].val, Free), SameBits, OneCow(c, Unused)
    PROVE  Books'
<1>1. Unused.refcnt = 0
  BY DEF Unused
<1>2. rp[a][i] = Cow(c) /\ rp[b][i] = Cow(c)
  BY PointsAt
<1>3. cow[c].refcnt > 0 /\ cow[c].val \in Slots
  BY <1>2, PointedAt DEF Books
<1>4. cow'[c] = Unused /\ \A d \in Cows \ {c} : cow'[d] = cow[d]
  BY DEF OneCow
<1>5. cow[c].val # Free /\ Free # Cow(c) /\ \A d : cow[c].val # Cow(d) /\ Free # Cow(d)
  BY <1>3, Kinds, SlotsAre
<1>6. Pointers(c)' = {}
  BY <1>5, PointersChange2
<1>7. ASSUME NEW d \in Cows \ {c}
      PROVE  Pointers(d)' = Pointers(d)
  <2>1. Cow(c) # Cow(d)
    BY Kinds
  <2>2. <<a, i>> \notin Pointers(d) /\ <<b, i>> \notin Pointers(d)
    BY <1>2, <2>1, PointsAt
  <2>3. \A p : p \in Pointers(d)' <=> p \in Pointers(d)
    BY <1>5, <2>2, PointersChange2
  <2>4. QED
    BY <2>3
<1>8. CowsKept'
  BY <1>1, <1>4, <1>6, <1>7, FS_EmptySet DEF Books, CowsKept, RefcntExact
<1>9. \A s \in Slots : s # Cow(c) /\ s # Free
  BY Kinds, OfSlot, SlotsAre
<1>10. \A d \in Blocks, j \in Subs : \A s \in Slots :
         rp'[d][j] = s <=> rp[d][j] = s \/ (d = a /\ j = i /\ s = cow[c].val)
  BY <1>2, <1>9 DEF Changed2
<1>11. \A d \in Cows : cow'[d].refcnt > 0 => d # c /\ cow'[d] = cow[d] /\ cow[d].val \in Slots
  BY <1>1, <1>4 DEF Books, CowsKept
<1>12. \A d \in Blocks, j \in Subs : rp[d][j] # cow[c].val
  BY <1>3 DEF Books, OneOwner
<1>13. OneOwner'
  <2>0. \A d \in Blocks, j \in Subs : rp'[d][j] = cow[c].val => d = a /\ j = i
    BY <1>3, <1>10, <1>12
  <2>1. ASSUME NEW e \in Blocks, NEW d \in Blocks, NEW j \in Subs, NEW k \in Subs,
               rp'[e][j] \in Slots, rp'[e][j] = rp'[d][k]
        PROVE  e = d /\ j = k
    <3>1. CASE rp'[e][j] = cow[c].val
      BY <2>0, <2>1, <3>1
    <3>2. CASE rp'[e][j] # cow[c].val
      BY <1>10, <2>1, <3>2 DEF Books, OneOwner
    <3>3. QED
      BY <3>1, <3>2
  <2>2. ASSUME NEW e \in Blocks, NEW j \in Subs, NEW d \in Cows, cow'[d].refcnt > 0
        PROVE  rp'[e][j] # cow'[d].val
    BY <1>3, <1>10, <1>11, <2>2 DEF Books, OneOwner
  <2>3. QED
    BY <1>11, <2>1, <2>2 DEF Books, OneOwner
<1>14. BitsAgree'
  <2> SUFFICES ASSUME NEW k \in MrIds, NEW q \in Offsets(k)
               PROVE  q \in mr[k].bits <=>
                        /\ \A d \in Blocks, j \in Subs : rp'[d][j] # Slot(k, q)
                        /\ \A d \in Cows : cow'[d].refcnt > 0 => cow'[d].val # Slot(k, q)
    BY DEF BitsAgree, SameBits
  <2>1. Slot(k, q) \in Slots
    BY SlotsAre
  <2>2. CASE Slot(k, q) = cow[c].val
    BY <1>3, <1>10, <2>1, <2>2 DEF Books, BitsAgree
  <2>3. CASE Slot(k, q) # cow[c].val
    <3>1. \A d \in Cows : (cow'[d].refcnt > 0 /\ cow'[d].val = Slot(k, q))
                            <=> (cow[d].refcnt > 0 /\ cow[d].val = Slot(k, q))
      BY <1>1, <1>4, <2>3
    <3>2. QED
      BY <1>10, <2>1, <2>3, <3>1 DEF Books, BitsAgree
  <2>4. QED
    BY <2>2, <2>3
<1>15. QED
  BY <1>8, <1>13, <1>14 DEF Books

------------------------------------------------------------------------------
(***************************************************************************)
(* The regions: who has a region locked, what alloc_len counts, and how    *)
(* much room is left for the thread that has it locked.                    *)
(***************************************************************************)
LocksKept ==
    /\ \A t \in Threads : (th[t].held # NoMr) <=> (th[t].pc = "hold")
    /\ \A t \in Threads : th[t].pc = "hold" => mr[th[t].held].locked
    /\ \A t, u \in Threads : t # u /\ th[t].held = th[u].held => th[t].held = NoMr

RoomOf(t) ==
    LET m == th[t].held IN
    /\ same_mr => mr[m].alloc_len <= Size[m]
    /\ config.policy = "diff_mr" /\ Mrs > 1 /\ th[t].i <= Subblocks => mr[m].alloc_len < Size[m]

RoomKept ==
    /\ \A m \in MrIds : \A o \in mr[m].bits : mr[m].free_start <= o
    /\ \A t \in Threads : same_mr /\ th[t].pc = "scan" => th[t].i = 1
    /\ \A t \in Threads : th[t].pc = "hold" => RoomOf(t)

Regions == LocksKept /\ AllocLenKept /\ RoomKept

LEMMA Sizes ==
    /\ Subblocks \in Nat /\ Subblocks >= 1 /\ Mrs \in Nat /\ Mrs >= 1
    /\ \A m \in MrIds : Size[m] \in Nat /\ m \in Int /\ m # NoMr /\ m >= 0 /\ m < Mrs
    /\ Subs = 1 .. Subblocks /\ MrIds = 0 .. Mrs - 1
<1>1. Subblocks \in Nat \ {0} /\ Mrs \in Nat \ {0}
  BY RemoteAssumption
<1>2. \A m \in MrIds : Size[m] \in Nat
  BY <1>1, RemoteAssumption DEF MrIds
<1>3. QED
  BY <1>1, <1>2 DEF MrIds, Subs, NoMr

LEMMA SlotsFinite ==
    ASSUME NEW m \in MrIds
    PROVE  IsFiniteSet(Offsets(m)) /\ Cardinality(Offsets(m)) = Size[m]
<1>1. Size[m] \in Nat /\ 0 \in Int /\ Size[m] - 1 \in Int
  BY Sizes
<1>2. /\ IsFiniteSet(0 .. Size[m] - 1)
      /\ Cardinality(0 .. Size[m] - 1) = IF 0 > Size[m] - 1 THEN 0 ELSE Size[m] - 1 - 0 + 1
  BY <1>1, FS_Interval
<1>3. QED
  BY <1>1, <1>2 DEF Offsets

LEMMA TakenIs ==
    ASSUME NEW m \in MrIds
    PROVE  /\ IsFiniteSet(Offsets(m) \ mr[m].bits) /\ Taken(m) \in Nat
           /\ mr[m].bits = {} => Taken(m) = Size[m]
<1>1. Offsets(m) \ mr[m].bits \in SUBSET Offsets(m)
  OBVIOUS
<1>2. IsFiniteSet(Offsets(m) \ mr[m].bits)
  BY <1>1, SlotsFinite, FS_Subset
<1>3. mr[m].bits = {} => Offsets(m) \ mr[m].bits = Offsets(m)
  OBVIOUS
<1>4. QED
  BY <1>2, <1>3, SlotsFinite, FS_CardinalityType DEF Taken

LEMMA TakenMore ==
    ASSUME NEW m \in MrIds, NEW o \in Offsets(m), o \in mr[m].bits, mr'[m].bits = mr[m].bits \ {o}
    PROVE  Taken(m)' = Taken(m) + 1
<1>1. /\ Offsets(m) \ mr'[m].bits = (Offsets(m) \ mr[m].bits) \cup {o}
      /\ o \notin Offsets(m) \ mr[m].bits
  OBVIOUS
<1>2. QED
  BY <1>1, TakenIs, FS_AddElement DEF Taken

LEMMA TakenLess ==
    ASSUME NEW m \in MrIds, NEW o \in Offsets(m), o \notin mr[m].bits,
           mr'[m].bits = mr[m].bits \cup {o}
    PROVE  Taken(m)' = Taken(m) - 1
<1>1. /\ Offsets(m) \ mr'[m].bits = (Offsets(m) \ mr[m].bits) \ {o}
      /\ o \in Offsets(m) \ mr[m].bits
  OBVIOUS
<1>2. QED
  BY <1>1, TakenIs, FS_RemoveElement DEF Taken

(* What is owed to the holder of a region: the free subblocks ahead.       *)
Ahead(t) == {p \in {t} \X Subs : p[2] >= th[t].i /\ is_free(rp[th[t].blk][p[2]])}
Holders(m) == {t \in Threads : th[t].held = m}

LEMMA AheadFinite ==
    ASSUME NEW t, NEW F, F \subseteq {t} \X Subs
    PROVE  /\ IsFiniteSet(F) /\ Cardinality(F) \in Nat /\ Cardinality(F) <= Subblocks
           /\ F = {t} \X Subs => Cardinality(F) = Subblocks
<1>1. Subblocks \in Nat /\ Subblocks >= 1 /\ 1 \in Int /\ Subblocks \in Int
  BY Sizes
<1>2. IsFiniteSet(Subs) /\ Cardinality(Subs) = Subblocks
  <2>1. IsFiniteSet(1 .. Subblocks) /\ Cardinality(1 .. Subblocks) = IF 1 > Subblocks THEN 0 ELSE Subblocks - 1 + 1
    BY <1>1, FS_Interval
  <2>2. QED
    BY <1>1, <2>1 DEF Subs
<1>3. IsFiniteSet({t}) /\ Cardinality({t}) = 1
  BY FS_Singleton
<1>4. IsFiniteSet({t} \X Subs) /\ Cardinality({t} \X Subs) = 1 * Subblocks
  BY <1>2, <1>3, FS_Product
<1>5. IsFiniteSet(F) /\ Cardinality(F) <= Cardinality({t} \X Subs) /\ Cardinality(F) \in Nat
  BY <1>4, FS_Subset, FS_CardinalityType
<1>6. QED
  BY <1>1, <1>4, <1>5

LEMMA OwedHeld ==
    ASSUME NEW m, NEW t, Holders(m) = {t}
    PROVE  Owed(m) = IF same_mr THEN Cardinality(Ahead(t)) ELSE 0
<1>1. {p \in Holders(m) \X Subs : p[2] >= th[p[1]].i /\ is_free(rp[th[p[1]].blk][p[2]])} = Ahead(t)
  BY DEF Ahead
<1>2. QED
  BY <1>1 DEF Owed, Holders

LEMMA OwedNot ==
    ASSUME NEW m, Holders(m) = {}
    PROVE  Owed(m) = 0
<1>1. {p \in Holders(m) \X Subs : p[2] >= th[p[1]].i /\ is_free(rp[th[p[1]].blk][p[2]])} = {}
  OBVIOUS
<1>2. QED
  BY <1>1, FS_EmptySet DEF Owed, Holders

LEMMA OwedType ==
    ASSUME LocksKept, NEW m \in MrIds
    PROVE  Owed(m) \in Nat
<1>1. CASE Holders(m) = {}
  BY <1>1, OwedNot
<1>2. CASE Holders(m) # {}
  <2>1. PICK t \in Threads : t \in Holders(m)
    BY <1>2 DEF Holders
  <2>2. Holders(m) = {t}
    BY <2>1, Sizes DEF Holders, LocksKept
  <2>3. Ahead(t) \subseteq {t} \X Subs
    BY DEF Ahead
  <2>4. Cardinality(Ahead(t)) \in Nat
    BY <2>3, AheadFinite
  <2>5. QED
    BY <2>2, <2>4, OwedHeld
<1>3. QED
  BY <1>1, <1>2

Counted(m) ==
    IF same_mr /\ config.reuse THEN mr[m].alloc_len >= Taken(m) + Owed(m)
    ELSE mr[m].alloc_len = Taken(m) + Owed(m)

MrType == [bits : SUBSET Nat, alloc_len : Int, free_start : Nat, alloc_next : Nat, locked : BOOLEAN]

LEMMA OwedSame ==
    ASSUME NEW m, config' = config, Holders(m)' = Holders(m),
           \A u \in Holders(m) : th'[u].i = th[u].i /\ th'[u].blk = th[u].blk
                                 /\ \A i \in Subs : rp'[th[u].blk][i] = rp[th[u].blk][i]
    PROVE  Owed(m)' = Owed(m)
<1>1. {p \in Holders(m)' \X Subs : p[2] >= th'[p[1]].i /\ is_free(rp'[th'[p[1]].blk][p[2]])}
        = {p \in Holders(m) \X Subs : p[2] >= th[p[1]].i /\ is_free(rp[th[p[1]].blk][p[2]])}
  BY DEF is_free
<1>2. QED
  BY <1>1 DEF Owed, Holders, same_mr

LEMMA TakenSame ==
    ASSUME NEW m, mr'[m].bits = mr[m].bits
    PROVE  Taken(m)' = Taken(m)
BY DEF Taken

(* A slot comes back to a region that nobody has locked.                   *)
LEMMA Returned ==
    ASSUME NEW m \in MrIds, mr[m] \in MrType, NEW o \in Offsets(m)
    PROVE  /\ give_slot(mr[m], o).bits = mr[m].bits \cup {o}
           /\ give_slot(mr[m], o).alloc_len = mr[m].alloc_len - 1
           /\ give_slot(mr[m], o).locked = mr[m].locked
           /\ give_slot(mr[m], o).free_start = IF o < mr[m].free_start THEN o ELSE mr[m].free_start
           /\ give_slot(mr[m], o).alloc_next = mr[m].alloc_next
BY DEF give_slot, MrType

LEMMA RegionsQuiet ==
    ASSUME TypeOK, Regions, config' = config,
           \A u \in Threads :
             \/ th'[u] = th[u]
                  /\ (th[u].pc = "hold" => \A i \in Subs : rp'[th[u].blk][i] = rp[th[u].blk][i])
             \/ th[u].held = NoMr /\ th'[u].held = NoMr /\ th'[u].pc # "hold"
                  /\ (same_mr /\ th'[u].pc = "scan" => th'[u].i = 1),
           \A m \in MrIds :
             \/ mr'[m] = mr[m]
             \/ \E o \in Offsets(m) : /\ ~mr[m].locked /\ o \notin mr[m].bits
                                      /\ mr'[m] = give_slot(mr[m], o)
    PROVE  Regions'
<1>1. LocksKept /\ AllocLenKept /\ RoomKept
  BY DEF Regions
<1>2. \A u \in Threads : th'[u].held = th[u].held
  OBVIOUS
<1>3. \A m \in MrIds : mr[m].locked => mr'[m] = mr[m]
  OBVIOUS
<1>4. \A u \in Threads : th'[u].pc = "hold" <=> th[u].pc = "hold"
  BY <1>1 DEF LocksKept
<1>5. \A u \in Threads : th[u].pc = "hold" =>
        /\ th'[u] = th[u] /\ th[u].held \in MrIds /\ mr'[th[u].held] = mr[th[u].held]
        /\ mr[th[u].held].locked
  BY <1>1, <1>3, <1>4 DEF LocksKept, TypeOK
<1>6. LocksKept'
  BY <1>1, <1>2, <1>4, <1>5 DEF LocksKept
<1>7. \A m \in MrIds : mr[m] \in MrType /\ \A o \in mr[m].bits : o \in Offsets(m) /\ mr[m].free_start <= o
  BY <1>1 DEF RoomKept, TypeOK, MrType
<1>8. ASSUME NEW m \in MrIds
      PROVE  Counted(m)' /\ \A o \in mr'[m].bits : mr'[m].free_start <= o
  <2>1. Holders(m)' = Holders(m)
    BY <1>2 DEF Holders
  <2>2. \A u \in Holders(m) : u \in Threads /\ th[u].held = m /\ th[u].pc = "hold"
    BY <1>1, Sizes DEF Holders, LocksKept
  <2>3. Owed(m)' = Owed(m)
    BY <1>4, <2>1, <2>2, OwedSame
  <2>4. Counted(m)
    BY <1>1 DEF AllocLenKept, Counted
  <2>5. CASE mr'[m] = mr[m]
    BY <1>7, <2>3, <2>4, <2>5, TakenSame DEF Counted, same_mr
  <2>6. ASSUME NEW o \in Offsets(m), ~mr[m].locked, o \notin mr[m].bits, mr'[m] = give_slot(mr[m], o)
        PROVE  Counted(m)' /\ \A p \in mr'[m].bits : mr'[m].free_start <= p
    <3>1. mr'[m].bits = mr[m].bits \cup {o} /\ mr'[m].alloc_len = mr[m].alloc_len - 1
          /\ mr'[m].free_start = IF o < mr[m].free_start THEN o ELSE mr[m].free_start
      BY <1>7, <2>6, Returned
    <3>2. Taken(m)' = Taken(m) - 1
      BY <2>6, <3>1, TakenLess
    <3>a. mr[m].alloc_len \in Int /\ mr[m].free_start \in Int
      BY <1>7 DEF MrType
    <3>b. o \in Int
      BY <2>6, Sizes DEF Offsets
    <3>c. Taken(m) \in Nat /\ Owed(m) \in Nat
      BY <1>1, TakenIs, OwedType
    <3>3. Taken(m) \in Int /\ Owed(m) \in Int /\ mr[m].alloc_len \in Int /\ o \in Int
          /\ mr[m].free_start \in Int
      BY <3>a, <3>b, <3>c
    <3>4. Counted(m)'
      BY <2>3, <2>4, <3>1, <3>2, <3>3 DEF Counted, same_mr
    <3>5. \A p \in mr[m].bits : p \in Int /\ mr[m].free_start <= p
      BY <1>7 DEF MrType
    <3>6. QED
      BY <3>1, <3>3, <3>4, <3>5
  <2>7. QED
    BY <2>5, <2>6
<1>9. AllocLenKept'
  BY <1>8 DEF AllocLenKept, Counted
<1>10. RoomKept'
  <2>1. \A u \in Threads : th'[u].pc = "hold" => RoomOf(u)'
    BY <1>1, <1>4, <1>5 DEF RoomKept, RoomOf, same_mr
  <2>2. \A u \in Threads : same_mr /\ th'[u].pc = "scan" => th'[u].i = 1
    BY <1>1 DEF RoomKept
  <2>3. QED
    BY <1>8, <2>1, <2>2 DEF RoomKept, same_mr
<1>11. QED
  BY <1>6, <1>9, <1>10 DEF Regions

(* The thread that locks a region, or has it locked, changes it.           *)
LEMMA RegionsHolder ==
    ASSUME TypeOK, Regions, config' = config, NEW t \in Threads, NEW m \in MrIds,
           \/ th[t].held = m
           \/ th[t].held = NoMr /\ ~mr[m].locked,
           \A u \in Threads \ {t} : th'[u] = th[u]
                /\ (th[u].pc = "hold" => \A i \in Subs : rp'[th[u].blk][i] = rp[th[u].blk][i]),
           \A k \in MrIds \ {m} : mr'[k] = mr[k],
           th'[t].pc = "hold" => th'[t].held = m /\ mr'[m].locked /\ RoomOf(t)',
           th'[t].pc # "hold" => th'[t].held = NoMr,
           same_mr /\ th'[t].pc = "scan" => th'[t].i = 1,
           \A o \in mr'[m].bits : mr'[m].free_start <= o,
           Counted(m)'
    PROVE  Regions'
<1>1. LocksKept /\ AllocLenKept /\ RoomKept
  BY DEF Regions
<1>2. \A u \in Threads \ {t} : th[u].held # m
  BY <1>1, Sizes DEF LocksKept
<1>3. \A u \in Threads \ {t} : th[u].pc = "hold" => th[u].held \in MrIds \ {m}
  BY <1>1, <1>2 DEF LocksKept, TypeOK
<1>4. LocksKept'
  BY <1>1, <1>2, <1>3, Sizes DEF LocksKept
<1>5. ASSUME NEW k \in MrIds, k # m
      PROVE  Counted(k)'
  <2>1. Holders(k)' = Holders(k)
    BY <1>5, Sizes DEF Holders
  <2>2. \A u \in Holders(k) : u \in Threads \ {t} /\ th[u].pc = "hold"
    BY <1>1, <1>5, Sizes DEF Holders, LocksKept
  <2>3. Owed(k)' = Owed(k)
    BY <2>1, <2>2, OwedSame
  <2>4. QED
    BY <1>1, <1>5, <2>3, TakenSame DEF AllocLenKept, Counted, same_mr
<1>6. AllocLenKept'
  BY <1>5 DEF AllocLenKept, Counted
<1>7. RoomKept'
  <2>1. \A u \in Threads \ {t} : th'[u].pc = "hold" => RoomOf(u)'
    BY <1>1, <1>3 DEF RoomKept, RoomOf, same_mr
  <2>2. \A k \in MrIds : \A o \in mr'[k].bits : mr'[k].free_start <= o
    BY <1>1 DEF RoomKept
  <2>3. QED
    BY <1>1, <2>1, <2>2 DEF RoomKept, same_mr
<1>8. QED
  BY <1>4, <1>6, <1>7 DEF Regions

(* The search of the bitmap returns the first bit that is set.             *)
LEMMA FirstOf ==
    ASSUME NEW S, S \subseteq Nat, S # {}
    PROVE  \E o \in S : \A p \in S : o <= p
<1>1. \E o \in S : \A p \in S : ~ (<<p, o>> \in OpToRel(<, Nat))
  BY WFMin, NatLessThanWellFounded, Zenon
<1>2. PICK o \in S : \A p \in S : ~ (<<p, o>> \in OpToRel(<, Nat))
  BY <1>1, Zenon
<1>3. ASSUME NEW p \in S PROVE o <= p
  <2>1. p \in Nat /\ o \in Nat
    OBVIOUS
  <2>2. ~ (p < o)
    BY <1>2, <2>1 DEF OpToRel
  <2>3. QED
    BY <2>1, <2>2
<1>4. QED
  BY <1>3

LEMMA NextBit ==
    ASSUME TypeOK, NEW m \in MrIds, NEW from
    PROVE  LET ahead == {o \in mr[m].bits : o >= from}
           IN  IF ahead = {} THEN find_next_bit(m, from) = Size[m]
               ELSE find_next_bit(m, from) \in mr[m].bits
<1> DEFINE ahead == {o \in mr[m].bits : o >= from}
<1>1. ahead \subseteq Nat
  BY DEF TypeOK
<1>2. ahead # {} => \E o \in ahead : \A p \in ahead : o <= p
  BY <1>1, FirstOf
<1>3. QED
  BY <1>2 DEF find_next_bit

LEMMA SlotFound ==
    ASSUME TypeOK, RoomKept, NEW m \in MrIds
    PROVE  /\ find_slot(m) # Size[m] => find_slot(m) \in mr[m].bits
           /\ mr[m].bits # {} => find_slot(m) # Size[m]
           /\ \A o \in mr[m].bits : o \in Offsets(m)
<1>1. mr[m].bits \subseteq Offsets(m) /\ mr[m].bits \subseteq Nat
  BY DEF TypeOK
<1>2. \A o \in mr[m].bits : o # Size[m]
  BY <1>1, Sizes DEF Offsets
<1>3. \A from : find_next_bit(m, from) = Size[m] \/ find_next_bit(m, from) \in mr[m].bits
  BY NextBit
<1>4. mr[m].bits # {} => {o \in mr[m].bits : o >= mr[m].free_start} # {}
  BY <1>1 DEF RoomKept, TypeOK
<1>5. mr[m].bits # {} => find_next_bit(m, mr[m].free_start) \in mr[m].bits
  BY <1>4, NextBit
<1>6. QED
  BY <1>1, <1>2, <1>3, <1>5 DEF find_slot

(* Who found room under the lock finds the bit.                            *)
LEMMA RoomMeansBit ==
    ASSUME TypeOK, Regions, NEW m \in MrIds, Owed(m) > 0 \/ mr[m].alloc_len < Size[m],
           mr[m].alloc_len <= Size[m]
    PROVE  mr[m].bits # {}
<1>1. Taken(m) \in Nat /\ Owed(m) \in Nat /\ Size[m] \in Nat
  BY TakenIs, OwedType, Sizes DEF Regions
<1>2. mr[m].alloc_len >= Taken(m) + Owed(m) /\ mr[m].alloc_len \in Int
  BY <1>1 DEF Regions, AllocLenKept, TypeOK
<1>3. Taken(m) < Size[m]
  BY <1>1, <1>2
<1>4. QED
  BY <1>3, TakenIs, <1>1

LEMMA RoomFound ==
    ASSUME TypeOK, Regions, NEW t \in Threads, th[t].pc = "hold", th[t].i <= Subblocks,
           is_free(rp[th[t].blk][th[t].i]),
           same_mr \/ (config.policy = "diff_mr" /\ Mrs > 1)
    PROVE  find_slot(th[t].held) # Size[th[t].held]
<1> DEFINE m == th[t].held
<1>1. m \in MrIds /\ m # NoMr
  BY DEF Regions, LocksKept, TypeOK
<1>2. RoomOf(t)
  BY DEF Regions, RoomKept
<1>3. mr[m].alloc_len \in Int /\ Size[m] \in Nat
  BY <1>1, Sizes DEF TypeOK
<1>4. CASE same_mr
  <2>1. th[t].i \in Subs
    BY Sizes DEF TypeOK, Subs
  <2>2. <<t, th[t].i>> \in Ahead(t)
    BY <2>1, Sizes DEF Ahead, Subs
  <2>3. Ahead(t) \subseteq {t} \X Subs
    BY DEF Ahead
  <2>4. IsFiniteSet(Ahead(t)) /\ Cardinality(Ahead(t)) \in Nat
    BY <2>3, AheadFinite
  <2>5. Cardinality(Ahead(t)) > 0
    BY <2>2, <2>4, FS_EmptySet
  <2>6. Holders(m) = {t}
    BY <1>1 DEF Holders, Regions, LocksKept
  <2>7. Owed(m) > 0 /\ mr[m].alloc_len <= Size[m]
    BY <1>2, <1>4, <2>5, <2>6, OwedHeld DEF RoomOf
  <2>8. mr[m].bits # {}
    BY <1>1, <2>7, RoomMeansBit
  <2>9. QED
    BY <1>1, <2>8, SlotFound DEF Regions
<1>5. CASE config.policy = "diff_mr" /\ Mrs > 1
  <2>1. mr[m].alloc_len < Size[m] /\ mr[m].alloc_len <= Size[m]
    BY <1>2, <1>3, <1>5 DEF RoomOf
  <2>2. mr[m].bits # {}
    BY <1>1, <2>1, RoomMeansBit
  <2>3. QED
    BY <1>1, <2>2, SlotFound DEF Regions
<1>6. QED
  BY <1>4, <1>5

------------------------------------------------------------------------------
(***************************************************************************)
(* The steps of an allocation keep the regions.                            *)
(***************************************************************************)
LEMMA OwedToHolder ==
    ASSUME NEW m, NEW t, Holders(m)' = {t}
    PROVE  Owed(m)' = IF same_mr' THEN Cardinality(Ahead(t)') ELSE 0
<1>1. {p \in Holders(m)' \X Subs : p[2] >= th'[p[1]].i /\ is_free(rp'[th'[p[1]].blk][p[2]])}
        = Ahead(t)'
  BY DEF Ahead
<1>2. QED
  BY <1>1 DEF Owed, Holders

LEMMA OwedToNobody ==
    ASSUME NEW m, Holders(m)' = {}
    PROVE  Owed(m)' = 0
<1>1. {p \in Holders(m)' \X Subs : p[2] >= th'[p[1]].i /\ is_free(rp'[th'[p[1]].blk][p[2]])} = {}
  OBVIOUS
<1>2. QED
  BY <1>1, FS_EmptySet DEF Owed, Holders

LEMMA RegionFacts ==
    ASSUME TypeOK, Regions, NEW m \in MrIds
    PROVE  /\ mr[m] \in MrType /\ mr[m].alloc_len \in Int /\ mr[m].free_start \in Nat
           /\ mr[m].locked \in BOOLEAN /\ Size[m] \in Nat
           /\ Taken(m) \in Nat /\ Owed(m) \in Nat /\ Counted(m)
           /\ \A o \in mr[m].bits : o \in Nat /\ mr[m].free_start <= o /\ o \in Offsets(m)
<1>1. mr[m] \in MrType /\ mr[m].bits \subseteq Offsets(m)
  BY DEF TypeOK, MrType
<1>2. Taken(m) \in Nat /\ Owed(m) \in Nat /\ Size[m] \in Nat
  BY TakenIs, OwedType, Sizes DEF Regions
<1>3. QED
  BY <1>1, <1>2 DEF Regions, AllocLenKept, RoomKept, Counted, MrType

LEMMA LockRegion ==
    ASSUME TypeOK, Regions, NEW t \in Threads, LockMr(t), NEW m \in MrIds, m = th[t].mrid,
           same_mr => \A i \in Subs : config.reuse \/ rp[th[t].blk][i] = Free
    PROVE  Regions'
<1>1. /\ m # NoMr /\ th[t].held = NoMr
      /\ th'[t] = [th[t] EXCEPT !.pc = "hold", !.held = m]
      /\ \A u \in Threads \ {t} : th'[u] = th[u]
  BY Sizes DEF TypeOK, LockMr, Regions, LocksKept
<1>2. /\ th'[t].pc = "hold" /\ th'[t].held = m /\ th'[t].i = th[t].i /\ th'[t].blk = th[t].blk
  BY <1>1 DEF TypeOK
<1>3. /\ ~mr[m].locked /\ avail(m) /\ rp' = rp /\ config' = config
      /\ mr'[m] = [mr[m] EXCEPT !.locked = TRUE,
                                !.alloc_len = mr[m].alloc_len + IF same_mr THEN Subblocks ELSE 0]
      /\ \A k \in MrIds \ {m} : mr'[k] = mr[k]
  BY <1>1 DEF LockMr, TypeOK
<1>4. /\ mr'[m].locked /\ mr'[m].bits = mr[m].bits /\ mr'[m].free_start = mr[m].free_start
      /\ mr'[m].alloc_len = mr[m].alloc_len + IF same_mr THEN Subblocks ELSE 0
  BY <1>1, <1>3 DEF TypeOK
<1>5. /\ mr[m].alloc_len \in Int /\ Size[m] \in Nat /\ Subblocks \in Nat /\ Subblocks >= 1
      /\ Taken(m) \in Nat /\ Counted(m) /\ \A o \in mr[m].bits : mr[m].free_start <= o
  BY <1>1, RegionFacts, Sizes
<1>6. Holders(m) = {} /\ Holders(m)' = {t}
  <2>1. \A u \in Threads : th[u].held # m
    BY <1>1, <1>3 DEF Regions, LocksKept
  <2>2. \A u \in Threads : th'[u].held = m <=> u = t
    BY <1>1, <1>2, <2>1
  <2>3. Holders(m)' = {t}
    BY <2>2 DEF Holders
  <2>4. QED
    BY <2>1, <2>3 DEF Holders
<1>7. Owed(m) = 0
  BY <1>6, OwedNot
<1>8. Counted(m)'
  <2>1. CASE same_mr
    <3>1. Ahead(t)' \subseteq {t} \X Subs
      BY DEF Ahead
    <3>2. /\ Cardinality(Ahead(t)') \in Nat /\ Cardinality(Ahead(t)') <= Subblocks
          /\ Ahead(t)' = {t} \X Subs => Cardinality(Ahead(t)') = Subblocks
      BY <3>1, AheadFinite
    <3>3. ~config.reuse => Ahead(t)' = {t} \X Subs
      <4>1. th[t].i = 1
        BY <2>1 DEF Regions, RoomKept, LockMr
      <4>2. \A i \in Subs : i >= 1
        BY Sizes
      <4>3. QED
        BY <1>2, <1>3, <2>1, <4>1, <4>2 DEF Ahead, is_free
    <3>4. Owed(m)' = Cardinality(Ahead(t)')
      BY <1>3, <1>6, <2>1, OwedToHolder DEF same_mr
    <3>5. Taken(m)' = Taken(m)
      BY <1>4, TakenSame
    <3>6. mr'[m].alloc_len = mr[m].alloc_len + Subblocks
      BY <1>4, <2>1
    <3>7. CASE config.reuse
      <4>1. mr[m].alloc_len >= Taken(m)
        BY <1>5, <1>7, <2>1, <3>7 DEF Counted
      <4>2. mr'[m].alloc_len >= Taken(m)' + Owed(m)'
        BY <1>5, <3>2, <3>4, <3>5, <3>6, <4>1
      <4>3. QED
        BY <1>3, <2>1, <3>7, <4>2 DEF Counted, same_mr
    <3>8. CASE ~config.reuse
      <4>1. mr[m].alloc_len = Taken(m)
        BY <1>5, <1>7, <3>8 DEF Counted
      <4>2. mr'[m].alloc_len = Taken(m)' + Owed(m)'
        BY <1>5, <3>2, <3>3, <3>4, <3>5, <3>6, <3>8, <4>1
      <4>3. QED
        BY <1>3, <3>8, <4>2 DEF Counted, same_mr
    <3>9. QED
      BY <3>7, <3>8
  <2>2. CASE ~same_mr
    <3>1. Owed(m)' = 0 /\ Taken(m)' = Taken(m) /\ mr'[m].alloc_len = mr[m].alloc_len
      <4>1. ~same_mr'
        BY <1>3, <2>2 DEF same_mr
      <4>2. Owed(m)' = 0
        BY <1>6, <4>1, OwedToHolder
      <4>3. QED
        BY <1>4, <1>5, <2>2, <4>2, TakenSame
    <3>2. QED
      BY <1>3, <1>5, <1>7, <2>2, <3>1 DEF Counted, same_mr
  <2>3. QED
    BY <2>1, <2>2
<1>9. RoomOf(t)'
  BY <1>2, <1>3, <1>4, <1>5 DEF RoomOf, avail, need, same_mr
<1>10. QED
  BY ZenonT(60), <1>1, <1>2, <1>3, <1>4, <1>5, <1>8, <1>9, RegionsHolder

LEMMA LeaveRegion ==
    ASSUME TypeOK, Regions, NEW t \in Threads, NEW m \in MrIds, th[t].held = m,
           ~same_mr \/ th[t].i = Subblocks + 1,
           config' = config, rp' = rp, mr' = [mr EXCEPT ![m].locked = FALSE],
           \A u \in Threads \ {t} : th'[u] = th[u],
           th'[t].pc # "hold", th'[t].held = NoMr, same_mr => th'[t].pc # "scan"
    PROVE  Regions'
<1>1. /\ \A k \in MrIds \ {m} : mr'[k] = mr[k]
      /\ mr'[m].bits = mr[m].bits /\ mr'[m].free_start = mr[m].free_start
      /\ mr'[m].alloc_len = mr[m].alloc_len
  BY DEF TypeOK
<1>2. Counted(m) /\ \A o \in mr[m].bits : mr[m].free_start <= o
  BY RegionFacts
<1>3. Holders(m) = {t} /\ Holders(m)' = {}
  BY Sizes DEF Holders, Regions, LocksKept
<1>4. Owed(m) = 0
  <2>1. CASE ~same_mr
    BY <2>1, <1>3, OwedHeld
  <2>2. CASE th[t].i = Subblocks + 1
    <3>1. Ahead(t) = {}
      BY <2>2, Sizes DEF Ahead
    <3>2. QED
      BY <1>3, <3>1, OwedHeld, FS_EmptySet
  <2>3. QED
    BY <2>1, <2>2
<1>5. Owed(m)' = 0 /\ Taken(m)' = Taken(m)
  BY <1>1, <1>3, OwedToNobody, TakenSame
<1>6. Counted(m)'
  BY <1>1, <1>2, <1>4, <1>5 DEF Counted, same_mr
<1>7. QED
  BY <1>1, <1>2, <1>6, RegionsHolder

LEMMA NextRegion ==
    ASSUME NEW m \in MrIds
    PROVE  (m + 1) % Mrs \in MrIds /\ (Mrs > 1 => (m + 1) % Mrs # m)
<1>1. Mrs \in Nat /\ Mrs >= 1 /\ m \in Nat /\ m < Mrs
  BY Sizes
<1>2. (m + 1) % Mrs \in 0 .. Mrs - 1
  BY <1>1
<1>3. CASE m + 1 = Mrs
  <2>1. (m + 1) % Mrs = 0
    BY <1>1, <1>3
  <2>2. QED
    BY <1>1, <1>2, <1>3, <2>1 DEF MrIds
<1>4. CASE m + 1 < Mrs
  <2>1. (m + 1) % Mrs = m + 1
    BY <1>1, <1>4
  <2>2. QED
    BY <1>1, <1>2, <2>1 DEF MrIds
<1>5. QED
  BY <1>1, <1>3, <1>4

LEMMA TakenSlot ==
    ASSUME NEW r \in MrType, NEW o
    PROVE  /\ take_slot(r, o).bits = r.bits \ {o}
           /\ take_slot(r, o).alloc_len = r.alloc_len
           /\ take_slot(r, o).alloc_next = o + 1
           /\ take_slot(r, o).free_start = IF r.free_start = o THEN o + 1 ELSE r.free_start
           /\ take_slot(r, o).locked = r.locked
           /\ o \in Nat => take_slot(r, o) \in MrType
<1> DEFINE start == IF r.free_start = o THEN o + 1 ELSE r.free_start
           taken == [r EXCEPT !.bits = r.bits \ {o}, !.alloc_next = o + 1, !.free_start = start]
<1>1. take_slot(r, o) = taken
  BY DEF take_slot
<1> HIDE DEF start
<1>2. /\ taken.bits = r.bits \ {o} /\ taken.alloc_len = r.alloc_len
      /\ taken.alloc_next = o + 1 /\ taken.free_start = start /\ taken.locked = r.locked
  BY DEF MrType
<1>3. o \in Nat => start \in Nat /\ o + 1 \in Nat /\ r.bits \ {o} \in SUBSET Nat
  BY DEF start, MrType
<1>4. o \in Nat => taken \in MrType
  BY <1>3 DEF MrType
<1>5. QED
  BY <1>1, <1>2, <1>4 DEF start

(* Thread t fills subblock i of block b, with slot s of region m if it is  *)
(* free.                                                                   *)
Fills(t, b, i, m, s) ==
    /\ t \in Threads /\ FillSubblock(t)
    /\ m \in MrIds /\ m = th[t].held /\ s = find_slot(m)
    /\ b \in Blocks /\ b = th[t].blk /\ i \in Subs /\ i = th[t].i

(* Region m becomes x, locked or not.                                      *)
Paid(m, x, locked) ==
    /\ mr'[m].bits = x.bits /\ mr'[m].free_start = x.free_start /\ mr'[m].alloc_len = x.alloc_len
    /\ mr'[m].locked <=> locked
    /\ \A k \in MrIds \ {m} : mr'[k] = mr[k]
    /\ mr' \in [MrIds -> MrType]

LEMMA PaysRegion ==
    ASSUME TypeOK, NEW m \in MrIds, NEW x \in MrType, NEW locked \in BOOLEAN,
           mr' = [mr EXCEPT ![m] = [x EXCEPT !.locked = locked]]
    PROVE  Paid(m, x, locked)
<1>1. mr \in [MrIds -> MrType]
  BY DEF TypeOK, MrType
<1>2. [x EXCEPT !.locked = locked] \in MrType
  BY DEF MrType
<1>3. QED
  BY <1>1, <1>2 DEF Paid, MrType

LEMMA FilledFree ==
    ASSUME TypeOK, Regions, NEW t, NEW b, NEW i, NEW m, NEW s, Fills(t, b, i, m, s), rp[b][i] = Free
    PROVE  /\ s \in mr[m].bits /\ s \in Offsets(m) /\ s \in Nat
           /\ mr'[m].bits = mr[m].bits \ {s}
           /\ mr[m].free_start = s => mr'[m].free_start = s + 1
           /\ mr[m].free_start # s => mr'[m].free_start = mr[m].free_start
           /\ same_mr => mr'[m].alloc_len = mr[m].alloc_len
           /\ ~same_mr => mr'[m].alloc_len = mr[m].alloc_len + 1
           /\ \A k \in MrIds \ {m} : mr'[k] = mr[k]
           /\ mr'[m].locked <=> ~ToNextMr(th[t])
           /\ mr' \in [MrIds -> MrType]
<1> DEFINE got == take_slot(mr[m], s)
           paid == IF same_mr THEN got ELSE [got EXCEPT !.alloc_len = @ + 1]
<1>1. /\ t \in Threads /\ FillSubblock(t) /\ m \in MrIds /\ m = th[t].held /\ s = find_slot(m)
      /\ b \in Blocks /\ b = th[t].blk /\ i \in Subs /\ i = th[t].i
  BY DEF Fills
<1>2. /\ mr[m] \in MrType /\ \A p \in mr[m].bits : p \in Nat /\ p \in Offsets(m)
  BY <1>1, RegionFacts
<1>3. s \in mr[m].bits /\ s \in Offsets(m) /\ s \in Nat
  <2>1. s # Size[m]
    BY <1>1 DEF FillSubblock, is_free
  <2>2. QED
    BY <1>1, <1>2, <2>1, SlotFound DEF Regions
<1>4. mr' = [mr EXCEPT ![m] = [paid EXCEPT !.locked = ~ToNextMr(th[t])]]
  BY <1>1 DEF FillSubblock, is_free
<1>5. /\ got \in MrType /\ got.bits = mr[m].bits \ {s} /\ got.alloc_len = mr[m].alloc_len
      /\ got.free_start = IF mr[m].free_start = s THEN s + 1 ELSE mr[m].free_start
  BY <1>2, <1>3, TakenSlot
<1> HIDE DEF got
<1>6. /\ paid \in MrType /\ paid.bits = got.bits /\ paid.free_start = got.free_start
      /\ same_mr => paid.alloc_len = got.alloc_len
      /\ ~same_mr => paid.alloc_len = got.alloc_len + 1
  BY <1>5 DEF MrType
<1> HIDE DEF paid
<1>7. Paid(m, paid, ~ToNextMr(th[t]))
  BY <1>1, <1>4, <1>6, PaysRegion DEF ToNextMr
<1>8. QED
  BY <1>3, <1>5, <1>6, <1>7 DEF Paid

LEMMA FilledHeld ==
    ASSUME TypeOK, Regions, NEW t, NEW b, NEW i, NEW m, NEW s, Fills(t, b, i, m, s), rp[b][i] # Free
    PROVE  /\ mr'[m].bits = mr[m].bits /\ mr'[m].free_start = mr[m].free_start
           /\ mr'[m].alloc_len = mr[m].alloc_len
           /\ \A k \in MrIds \ {m} : mr'[k] = mr[k]
           /\ mr'[m].locked <=> ~ToNextMr(th[t])
           /\ mr' \in [MrIds -> MrType]
<1>1. /\ t \in Threads /\ FillSubblock(t) /\ m \in MrIds /\ m = th[t].held
      /\ b = th[t].blk /\ i = th[t].i
  BY DEF Fills
<1>2. mr[m] \in MrType
  BY <1>1, RegionFacts
<1>3. mr' = [mr EXCEPT ![m] = [mr[m] EXCEPT !.locked = ~ToNextMr(th[t])]]
  BY <1>1 DEF FillSubblock, is_free
<1>4. Paid(m, mr[m], ~ToNextMr(th[t]))
  BY <1>1, <1>2, <1>3, PaysRegion DEF ToNextMr
<1>5. QED
  BY <1>4 DEF Paid

LEMMA FillRegion ==
    ASSUME TypeOK, Regions, NEW t \in Threads, NEW m \in MrIds, NEW i \in Subs, NEW b \in Blocks,
           NEW o, Fills(t, b, i, m, o),
           rp'[b] = IF rp[b][i] = Free THEN [rp[b] EXCEPT ![i] = Slot(m, o)] ELSE rp[b],
           \A u \in Threads \ {t} : th[u].pc = "hold" => \A j \in Subs : rp'[th[u].blk][j] = rp[th[u].blk][j]
    PROVE  Regions'
<1> DEFINE free == rp[b][i] = Free
<1>0. FillSubblock(t) /\ m = th[t].held /\ b = th[t].blk /\ i = th[t].i
  BY DEF Fills
<1>1. /\ th[t].pc = "hold" /\ m # NoMr /\ mr[m].locked
      /\ config' = config
      /\ th[t] \in [pc : {"hold"}, blk : Blocks \cup {NoBlock}, new : Blocks \cup {NoBlock},
                    i : 1 .. Subblocks + 1, mrid : MrIds, first : MrIds, held : MrIds]
  BY <1>0, Sizes DEF TypeOK, FillSubblock, At, Regions, LocksKept
<1>2. Holders(m) = {t}
  BY <1>0, <1>1 DEF Holders, Regions, LocksKept
<1>a. Subblocks \in Nat /\ i \in Int /\ i <= Subblocks
  BY Sizes
<1>3. /\ mr[m] \in MrType /\ mr[m].alloc_len \in Int /\ mr[m].free_start \in Nat
      /\ Size[m] \in Nat /\ Counted(m) /\ Taken(m) \in Nat
      /\ \A p \in mr[m].bits : p \in Nat /\ mr[m].free_start <= p /\ p \in Offsets(m)
  BY RegionFacts
<1>4. free => o \in mr[m].bits /\ o \in Offsets(m) /\ o \in Nat
  <2>1. SUFFICES ASSUME free PROVE o \in mr[m].bits /\ o \in Offsets(m) /\ o \in Nat
    OBVIOUS
  <2>2. QED
    BY <2>1, FilledFree
<1>5. /\ \A k \in MrIds \ {m} : mr'[k] = mr[k]
      /\ mr'[m].bits = IF free THEN mr[m].bits \ {o} ELSE mr[m].bits
      /\ mr'[m].free_start = IF free /\ mr[m].free_start = o THEN o + 1 ELSE mr[m].free_start
      /\ mr'[m].alloc_len = IF same_mr \/ ~free THEN mr[m].alloc_len ELSE mr[m].alloc_len + 1
      /\ mr'[m].locked <=> ~ToNextMr(th[t])
  <2>1. \A k \in MrIds \ {m} : mr'[k] = mr[k]
    BY FilledFree, FilledHeld
  <2>2. mr'[m].locked <=> ~ToNextMr(th[t])
    BY FilledFree, FilledHeld
  <2>3. CASE free
    BY <2>1, <2>2, <2>3, FilledFree
  <2>4. CASE ~free
    BY <2>1, <2>2, <2>4, FilledHeld
  <2>5. QED
    BY <2>3, <2>4
<1>6. /\ \A u \in Threads \ {t} : th'[u] = th[u]
      /\ th'[t].i = i + 1 /\ th'[t].blk = b
      /\ th'[t].pc = IF ToNextMr(th[t]) THEN "scan" ELSE "hold"
      /\ th'[t].held = IF ToNextMr(th[t]) THEN NoMr ELSE m
  BY <1>0, <1>1 DEF FillSubblock, TypeOK, Rescan
<1>7. same_mr => ~ToNextMr(th[t])
  BY DEF same_mr, ToNextMr
<1>8. Taken(m)' = IF free THEN Taken(m) + 1 ELSE Taken(m)
  BY <1>4, <1>5, TakenMore, TakenSame
<1>b. /\ th[t].held = m
      /\ th'[t].pc = "hold" => th'[t].held = m /\ mr'[m].locked /\ ~ToNextMr(th[t])
      /\ th'[t].pc # "hold" => th'[t].held = NoMr
      /\ \A u \in Threads \ {t} : th'[u] = th[u]
           /\ (th[u].pc = "hold" => \A j \in Subs : rp'[th[u].blk][j] = rp[th[u].blk][j])
      /\ \A k \in MrIds \ {m} : mr'[k] = mr[k]
  BY <1>0, <1>5, <1>6
<1>9. CASE same_mr
  <2>1. th'[t].pc = "hold" /\ th'[t].held = m /\ same_mr'
    BY <1>1, <1>6, <1>7, <1>9 DEF same_mr
  <2>2. \A u \in Threads : th'[u].held = m <=> u = t
    BY <1>0, <1>1, <1>6, <2>1 DEF Regions, LocksKept
  <2>3. Holders(m)' = {t}
    BY <2>2 DEF Holders
  <2>4. Owed(m) = Cardinality(Ahead(t)) /\ Owed(m)' = Cardinality(Ahead(t)')
    BY <1>2, <1>9, <2>1, <2>3, OwedHeld, OwedToHolder
  <2>5. Ahead(t) \subseteq {t} \X Subs
    BY DEF Ahead
  <2>6. IsFiniteSet(Ahead(t)) /\ Cardinality(Ahead(t)) \in Nat
    BY <2>5, AheadFinite
  <2>8. \A j \in Subs : j >= i + 1 <=> j >= i /\ j # i
    BY <1>a, Sizes
  <2>9. Ahead(t)' = Ahead(t) \ {<<t, i>>}
    <3>1. ASSUME NEW p \in {t} \X Subs
          PROVE  p[2] >= th'[t].i /\ is_free(rp'[th'[t].blk][p[2]])
                   <=> p[2] >= th[t].i /\ is_free(rp[th[t].blk][p[2]]) /\ p # <<t, i>>
      <4>1. p[2] \in Subs /\ p = <<t, p[2]>>
        OBVIOUS
      <4>2. p[2] # i => rp'[b][p[2]] = rp[b][p[2]]
        BY <4>1 DEF TypeOK
      <4>3. p = <<t, i>> <=> p[2] = i
        BY <4>1
      <4>4. QED
        BY <1>0, <1>6, <2>8, <4>1, <4>2, <4>3 DEF is_free
    <3>2. QED
      BY <3>1 DEF Ahead
  <2>10. <<t, i>> \in Ahead(t) <=> free
    BY <1>0, <1>a DEF Ahead, is_free
  <2>11. Owed(m)' = IF free THEN Owed(m) - 1 ELSE Owed(m)
    <3>1. free => Cardinality(Ahead(t)') = Cardinality(Ahead(t)) - 1
      BY <2>6, <2>9, <2>10, FS_RemoveElement
    <3>2. ~free => Ahead(t)' = Ahead(t)
      BY <2>9, <2>10
    <3>3. QED
      BY <2>4, <3>1, <3>2
  <2>12. Taken(m)' + Owed(m)' = Taken(m) + Owed(m)
    BY <1>3, <1>8, <2>4, <2>6, <2>11
  <2>13. mr'[m].alloc_len = mr[m].alloc_len
    BY <1>5, <1>9
  <2>14. Counted(m)'
    BY <1>1, <1>3, <2>1, <2>12, <2>13, <1>9 DEF Counted
  <2>15. RoomOf(t)'
    <3>1. RoomOf(t)
      BY <1>1 DEF Regions, RoomKept
    <3>2. QED
      BY <1>0, <1>1, <1>9, <2>1, <2>13, <3>1 DEF RoomOf, same_mr
  <2>16. \A p \in mr'[m].bits : mr'[m].free_start <= p
    BY <1>3, <1>4, <1>5
  <2>17. QED
    BY <1>1, <1>b, <2>1, <2>14, <2>15, <2>16, RegionsHolder
<1>10. CASE ~same_mr
  <2>1. ~same_mr'
    BY <1>1, <1>10 DEF same_mr
  <2>2. Owed(m) = 0
    BY <1>2, <1>10, OwedHeld
  <2>3. Owed(m)' = 0
    BY <2>1 DEF Owed
  <2>4. Counted(m)'
    BY <1>3, <1>5, <1>8, <1>10, <2>1, <2>2, <2>3 DEF Counted
  <2>5. \A p \in mr'[m].bits : mr'[m].free_start <= p
    BY <1>3, <1>4, <1>5
  <2>6. ~ToNextMr(th[t]) => RoomOf(t)'
    <3>1. Mrs > 1 => (m + 1) % Mrs # m
      BY NextRegion
    <3>2. ~ToNextMr(th[t]) => ~(config.policy = "diff_mr" /\ Mrs > 1)
      BY <1>0, <3>1 DEF ToNextMr
    <3>3. QED
      BY <1>1, <2>1, <3>2 DEF RoomOf
  <2>7. QED
    BY <1>1, <1>b, <1>10, <2>4, <2>5, <2>6, RegionsHolder
<1>11. QED
  BY <1>9, <1>10

------------------------------------------------------------------------------
(***************************************************************************)
(* The life of the blocks: what their remote pages look like while nobody  *)
(* has them locked and at every step of the thread that does.              *)
(***************************************************************************)
(* A remote page that is not free stands for a slot.                       *)
Has(b, i) == rp[b][i] # Free
Plain(b, i) == ~is_cow(rp[b][i])

(***************************************************************************)
(* Blocks that nobody has locked.                                          *)
(***************************************************************************)
Resident(b) ==
    \A i \in Subs :
        IF i \in reading[b] THEN Has(b, i)
        ELSE Plain(b, i) /\ (config.reuse \/ rp[b][i] = Free)
Uniform(b) == (\A i \in Subs : is_cow(rp[b][i])) \/ (\A i \in Subs : Plain(b, i))

UnlockedOK(b) ==
    /\ st[b] # "resident" => reading[b] = {}
    /\ st[b] = "none" => \A i \in Subs : rp[b][i] = Free
    /\ st[b] = "resident" => Resident(b)
    /\ st[b] = "writeback" => \A i \in Subs : Has(b, i) /\ Plain(b, i)
    /\ st[b] = "remote" => Uniform(b) /\ \A i \in Subs : Has(b, i)

(***************************************************************************)
(* Blocks in the hands of a thread, up to and from the subblock it is at.  *)
(***************************************************************************)
Evicting == {"scan", "hold", "undo", "post"}
Duplicating == {"dup", "dupundo"}

EvictOK(x) ==
    x.pc \in Evicting =>
        /\ st[x.blk] = "resident"
        /\ \A i \in Subs : Plain(x.blk, i)
        /\ x.pc = "post" => \A i \in Subs : Has(x.blk, i)
        /\ x.pc \in {"scan", "hold"} =>
            \A i \in Subs : IF i < x.i THEN Has(x.blk, i)
                            ELSE config.reuse \/ rp[x.blk][i] = Free
        /\ x.pc = "undo" => \A i \in Subs : i < x.i => config.reuse \/ rp[x.blk][i] = Free

DropOK(x) ==
    /\ x.pc = "drop" =>
        /\ st[x.blk] \in {"resident", "writeback"}
        /\ \A i \in Subs :
            Plain(x.blk, i) /\ (i < x.i => config.reuse \/ rp[x.blk][i] = Free)
    /\ x.pc = "destroy" =>
        /\ st[x.blk] # "none"
        /\ st[x.blk] \in {"resident", "writeback"} => \A i \in Subs : Plain(x.blk, i)
        /\ \A i \in Subs : i < x.i => rp[x.blk][i] = Free

(* Records made by a fork that may still fail have these two pointers.     *)
Fresh(x, i) ==
    \E c \in Cows : rp[x.blk][i] = Cow(c) /\ Pointers(c) = {<<x.blk, i>>, <<x.new, i>>}
HalfFresh(x) == \A i \in Subs : IF i < x.i THEN Fresh(x, i) ELSE Plain(x.blk, i)

DupOK(x) ==
    x.pc \in Duplicating =>
        /\ st[x.blk] = "remote" /\ st[x.new] = "none"
        /\ \A i \in Subs :
            /\ Has(x.blk, i)
            /\ rp[x.new][i] = IF i < x.i THEN rp[x.blk][i] ELSE Free
        /\ HalfFresh(x) \/ (x.pc = "dup" /\ \A i \in Subs : is_cow(rp[x.blk][i]))

BlocksOf(x) == {x.blk, x.new} \cap Blocks

ThreadOK(t) ==
    LET x == th[t] IN
    /\ x.pc = "idle" => x = Idle
    /\ x.pc # "idle" => x.blk \in Blocks
    /\ IF x.pc \in Duplicating THEN x.new \in Blocks /\ x.new # x.blk ELSE x.new = NoBlock
    /\ \A b \in BlocksOf(x) : reading[b] = {}
    /\ EvictOK(x) /\ DropOK(x) /\ DupOK(x)

BlocksKept ==
    /\ \A t \in Threads : ThreadOK(t)
    /\ \A t, u \in Threads : t # u => BlocksOf(th[t]) \cap BlocksOf(th[u]) = {}
    /\ \A b \in Blocks : Locked(b) \/ UnlockedOK(b)

(* No first fault has failed.                                              *)
AllTouched == \A b \in Blocks : st[b] # "untouched"

IInv == TypeOK /\ AllTouched /\ BlocksKept /\ Books /\ Regions

LEMMA LockedIs ==
    ASSUME NEW b \in Blocks
    PROVE  Locked(b) <=> \E t \in Threads : b \in BlocksOf(th[t])
BY DEF Locked, BlocksOf

LEMMA Pages ==
    ASSUME TypeOK
    PROVE  /\ PageTypes
           /\ \A b \in Blocks, i \in Subs : rp[b][i] \in RemotePage
BY DEF TypeOK, PageTypes

(* What a step does not touch: the blocks outside B.                       *)
Untouched(B) ==
    /\ config' = config
    /\ \A b \in Blocks \ B : /\ st'[b] = st[b] /\ reading'[b] = reading[b]
                             /\ \A i \in Subs : rp'[b][i] = rp[b][i]
    /\ \A b \in B, i \in Subs : \A c \in Cows : rp'[b][i] = Cow(c) =>
         Pointers(c) = {} \/ \E a \in B, j \in Subs : rp[a][j] = Cow(c)

LEMMA FreshFrame ==
    ASSUME NEW B \in SUBSET Blocks, Untouched(B), NEW x, NEW i \in Subs, Fresh(x, i),
           x.blk \in Blocks \ B, x.new \in Blocks \ B
    PROVE  Fresh(x, i)'
<1>1. PICK c \in Cows : /\ rp[x.blk][i] = Cow(c)
                        /\ Pointers(c) = {<<x.blk, i>>, <<x.new, i>>}
  BY DEF Fresh
<1>2. ASSUME NEW a \in B, NEW j \in Subs PROVE rp[a][j] # Cow(c)
  <2>1. <<a, j>> \notin Pointers(c)
    BY <1>1
  <2>2. QED
    BY <2>1, PointsAt
<1>3. ASSUME NEW a \in B, NEW j \in Subs PROVE rp'[a][j] # Cow(c)
  <2>1. Pointers(c) # {}
    BY <1>1
  <2>2. QED
    BY <1>2, <2>1 DEF Untouched
<1>4. ASSUME NEW p \in Subpages PROVE rp'[p[1]][p[2]] = Cow(c) <=> rp[p[1]][p[2]] = Cow(c)
  <2>1. p[1] \in Blocks /\ p[2] \in Subs
    BY DEF Subpages
  <2>2. CASE p[1] \in B
    BY <1>2, <1>3, <2>1, <2>2
  <2>3. CASE p[1] \notin B
    BY <2>1, <2>3 DEF Untouched
  <2>4. QED
    BY <2>2, <2>3
<1>5. Pointers(c)' = Pointers(c)
  BY <1>4 DEF Pointers, Page
<1>6. rp'[x.blk][i] = Cow(c)
  BY <1>1 DEF Untouched
<1>7. QED
  BY <1>1, <1>5, <1>6 DEF Fresh

LEMMA ThreadFrame ==
    ASSUME TypeOK, NEW B \in SUBSET Blocks, Untouched(B), NEW u \in Threads, ThreadOK(u),
           BlocksOf(th[u]) \cap B = {}, th'[u] = th[u]
    PROVE  ThreadOK(u)'
<1> DEFINE x == th[u]
<1>1. CASE x.pc = "idle"
  <2>1. x = Idle /\ BlocksOf(x) = {}
    BY <1>1, RemoteAssumption DEF ThreadOK, BlocksOf, Idle
  <2>2. QED
    BY <1>1, <2>1 DEF ThreadOK, BlocksOf, EvictOK, DropOK, DupOK, Evicting, Duplicating, Idle
<1>2. CASE x.pc # "idle"
  <2>1. x.blk \in Blocks \ B
    BY <1>2 DEF ThreadOK, BlocksOf
  <2>2. /\ st'[x.blk] = st[x.blk] /\ reading'[x.blk] = reading[x.blk] /\ config' = config
        /\ \A i \in Subs : rp'[x.blk][i] = rp[x.blk][i]
    BY <2>1 DEF Untouched
  <2>3. \A b \in BlocksOf(th'[u]) : reading'[b] = {}
    BY DEF Untouched, ThreadOK, BlocksOf
  <2>4. EvictOK(x)'
    <3>1. EvictOK(x)
      BY DEF ThreadOK
    <3>2. QED
      BY <2>2, <3>1 DEF EvictOK, Plain, Has
  <2>5. DropOK(x)'
    <3>1. DropOK(x)
      BY DEF ThreadOK
    <3>2. QED
      BY <2>2, <3>1 DEF DropOK, Plain
  <2>6. DupOK(x)'
    <3>1. SUFFICES ASSUME x.pc \in Duplicating PROVE DupOK(x)'
      BY DEF DupOK
    <3>2. x.new \in Blocks \ B /\ x.new # x.blk
      BY <3>1 DEF ThreadOK, BlocksOf
    <3>3. st'[x.new] = st[x.new] /\ \A i \in Subs : rp'[x.new][i] = rp[x.new][i]
      BY <3>2 DEF Untouched
    <3>4. DupOK(x)
      BY DEF ThreadOK
    <3>5. ASSUME NEW i \in Subs, Fresh(x, i) PROVE Fresh(x, i)'
      <4>1. th'[u] = x /\ Fresh(x, i)
        BY <3>5
      <4>2. PICK y : y = x
        OBVIOUS
      <4>3. Fresh(y, i)'
        BY <2>1, <3>2, <4>1, <4>2, FreshFrame
      <4>4. QED
        BY <4>1, <4>2, <4>3 DEF Fresh
    <3>6. HalfFresh(x) => HalfFresh(x)'
      BY <2>2, <3>5 DEF HalfFresh, Plain
    <3>7. QED
      BY <2>2, <3>1, <3>3, <3>4, <3>6 DEF DupOK, Has
  <2>7. QED
    BY <1>2, <2>1, <2>3, <2>4, <2>5, <2>6 DEF ThreadOK
<1>3. QED
  BY <1>1, <1>2

LEMMA BlockFrame ==
    ASSUME NEW B \in SUBSET Blocks, Untouched(B), NEW b \in Blocks \ B, UnlockedOK(b)
    PROVE  UnlockedOK(b)'
BY DEF Untouched, UnlockedOK, Resident, Uniform, Has, Plain

(* A step of a thread on the blocks that it has or takes into its hands.   *)
LEMMA ThreadStep ==
    ASSUME TypeOK, BlocksKept, NEW t \in Threads, NEW B \in SUBSET Blocks, Untouched(B),
           BlocksOf(th[t]) \subseteq B, BlocksOf(th'[t]) \subseteq B,
           \A b \in B : b \in BlocksOf(th[t]) \/ ~Locked(b),
           \A u \in Threads \ {t} : th'[u] = th[u],
           ThreadOK(t)',
           \A b \in B : b \in BlocksOf(th'[t]) \/ UnlockedOK(b)'
    PROVE  BlocksKept'
<1>1. \A u \in Threads \ {t} : BlocksOf(th[u]) \cap B = {}
  BY LockedIs DEF BlocksKept
<1>2. \A u \in Threads : ThreadOK(u)'
  BY <1>1, ThreadFrame DEF BlocksKept
<1>3. \A u, v \in Threads : u # v => BlocksOf(th'[u]) \cap BlocksOf(th'[v]) = {}
  BY <1>1 DEF BlocksKept
<1>4. ASSUME NEW b \in Blocks PROVE Locked(b)' \/ UnlockedOK(b)'
  <2>1. CASE b \in B
    BY <2>1 DEF Locked, BlocksOf
  <2>2. CASE b \notin B
    <3>1. Locked(b) => Locked(b)'
      BY <2>2 DEF Locked, BlocksOf
    <3>2. QED
      BY <2>2, <3>1, BlockFrame DEF BlocksKept
  <2>3. QED
    BY <2>1, <2>2
<1>5. QED
  BY <1>2, <1>3, <1>4 DEF BlocksKept, BlocksOf

(* A step on blocks that nobody has locked.                                *)
LEMMA BlockStep ==
    ASSUME TypeOK, BlocksKept, NEW B \in SUBSET Blocks, Untouched(B), th' = th,
           \A b \in B : ~Locked(b) /\ UnlockedOK(b)'
    PROVE  BlocksKept'
<1>1. \A u \in Threads : BlocksOf(th[u]) \cap B = {}
  BY LockedIs
<1>2. \A u \in Threads : ThreadOK(u)'
  BY <1>1, ThreadFrame DEF BlocksKept
<1>3. \A b \in Blocks : Locked(b) => Locked(b)'
  BY DEF Locked
<1>4. \A b \in Blocks \ B : UnlockedOK(b) => UnlockedOK(b)'
  BY BlockFrame
<1>5. QED
  BY <1>2, <1>3, <1>4 DEF BlocksKept, BlocksOf

------------------------------------------------------------------------------
(***************************************************************************)
(* Steps that change neither a remote page nor a region.                   *)
(***************************************************************************)
ThreadType ==
    [pc : {"idle", "scan", "hold", "undo", "post", "drop", "destroy", "dup", "dupundo"},
     blk : Blocks \cup {NoBlock}, new : Blocks \cup {NoBlock},
     i : 1 .. Subblocks + 1, mrid : MrIds, first : MrIds, held : MrIds \cup {NoMr}]

LEMMA BooksSame ==
    ASSUME Books, rp' = rp, cow' = cow, SameBits
    PROVE  Books'
<1>1. \A c : Pointers(c)' = Pointers(c)
  BY DEF Pointers, Page
<1>2. CowsKept'
  BY <1>1 DEF Books, CowsKept, RefcntExact
<1>3. QED
  BY <1>2 DEF Books, OneOwner, BitsAgree, SameBits

LEMMA Started ==
    ASSUME TypeOK, NEW t \in Threads, NEW b \in Blocks,
           NEW pc, Start(t, pc, b)
    PROVE  /\ pc \in {"post", "drop", "destroy"} => th' \in [Threads -> ThreadType]
           /\ \A u \in Threads \ {t} : th'[u] = th[u]
           /\ th'[t].pc = pc /\ th'[t].blk = b /\ th'[t].new = NoBlock /\ th'[t].i = 1
           /\ th'[t].held = NoMr /\ BlocksOf(th'[t]) = {b}
<1>1. th'[t] = [Idle EXCEPT !.pc = pc, !.blk = b] /\ \A u \in Threads \ {t} : th'[u] = th[u]
  BY DEF TypeOK, Start
<1>2. Idle \in ThreadType
  BY Sizes DEF Idle, ThreadType, MrIds
<1>3. pc \in {"post", "drop", "destroy"} => th'[t] \in ThreadType
  BY <1>1, <1>2 DEF ThreadType
<1>4. pc \in {"post", "drop", "destroy"} => th' \in [Threads -> ThreadType]
  BY <1>3 DEF TypeOK, Start, ThreadType
<1>5. th'[t].pc = pc /\ th'[t].blk = b /\ th'[t].new = NoBlock /\ th'[t].i = 1 /\ th'[t].held = NoMr
  BY <1>1 DEF Idle
<1>6. QED
  BY <1>1, <1>4, <1>5, RemoteAssumption DEF BlocksOf

LEMMA Ended ==
    ASSUME TypeOK, NEW t \in Threads, Done(t)
    PROVE  /\ th' \in [Threads -> ThreadType]
           /\ \A u \in Threads \ {t} : th'[u] = th[u]
           /\ th'[t] = Idle /\ th'[t].pc = "idle" /\ th'[t].held = NoMr /\ BlocksOf(th'[t]) = {}
           /\ ThreadOK(t)'
<1>1. th'[t] = Idle /\ \A u \in Threads \ {t} : th'[u] = th[u]
  BY DEF TypeOK, Done
<1>2. Idle \in ThreadType
  BY Sizes DEF Idle, ThreadType, MrIds
<1>3. th' \in [Threads -> ThreadType]
  BY <1>1, <1>2 DEF TypeOK, Done, ThreadType
<1>4. th'[t].pc = "idle" /\ th'[t].held = NoMr /\ BlocksOf(th'[t]) = {}
  BY <1>1, RemoteAssumption DEF Idle, BlocksOf
<1>5. ThreadOK(t)'
  BY <1>1, RemoteAssumption
     DEF Idle, BlocksOf, ThreadOK, EvictOK, DropOK, DupOK, Evicting, Duplicating
<1>6. QED
  BY <1>1, <1>3, <1>4, <1>5

LEMMA IdleHasNone ==
    ASSUME NEW x, x = Idle
    PROVE  BlocksOf(x) = {} /\ x.held = NoMr /\ x.pc = "idle"
BY RemoteAssumption DEF Idle, BlocksOf

LEMMA BlockQuiet ==
    ASSUME IInv, NEW B \in SUBSET Blocks, UNCHANGED <<config, mr, rp, cow, th>>,
           \A b \in Blocks \ B : st'[b] = st[b] /\ reading'[b] = reading[b],
           \A b \in B : ~Locked(b) /\ UnlockedOK(b)',
           TypeOK', AllTouched'
    PROVE  IInv'
<1>1. BlocksKept'
  <2>1. Untouched(B)
    BY DEF Untouched
  <2>2. QED
    BY <2>1, BlockStep DEF IInv
<1>2. Books'
  BY BooksSame DEF IInv, SameBits
<1>3. Regions'
  BY RegionsQuiet DEF IInv
<1>4. QED
  BY <1>1, <1>2, <1>3 DEF IInv

LEMMA OneBlockQuiet ==
    ASSUME IInv, NEW b \in Blocks, UNCHANGED <<config, mr, rp, cow, th>>,
           \A a \in Blocks \ {b} : st'[a] = st[a] /\ reading'[a] = reading[a],
           ~Locked(b), UnlockedOK(b)', TypeOK', AllTouched'
    PROVE  IInv'
<1>1. PICK B \in SUBSET Blocks : B = {b}
  OBVIOUS
<1>2. \A a \in Blocks \ B : st'[a] = st[a] /\ reading'[a] = reading[a]
  BY <1>1
<1>3. \A a \in B : ~Locked(a) /\ UnlockedOK(a)'
  BY <1>1
<1>4. QED
  BY <1>2, <1>3, BlockQuiet

LEMMA ThreadQuiet ==
    ASSUME IInv, NEW t \in Threads, NEW B \in SUBSET Blocks, UNCHANGED <<config, mr, rp, cow, reading>>,
           BlocksOf(th[t]) \subseteq B, BlocksOf(th'[t]) \subseteq B,
           \A b \in Blocks \ B : st'[b] = st[b],
           \A b \in B : b \in BlocksOf(th[t]) \/ ~Locked(b),
           \A b \in B : b \in BlocksOf(th'[t]) \/ UnlockedOK(b)',
           \A u \in Threads \ {t} : th'[u] = th[u],
           th[t].pc # "hold", th'[t].pc # "hold", th'[t].held = NoMr,
           same_mr /\ th'[t].pc = "scan" => th'[t].i = 1,
           ThreadOK(t)', TypeOK', AllTouched'
    PROVE  IInv'
<1>1. BlocksKept'
  <2>1. Untouched(B)
    BY DEF Untouched
  <2>2. QED
    BY <2>1, ThreadStep DEF IInv
<1>2. Books'
  BY BooksSame DEF IInv, SameBits
<1>3. Regions'
  <2>1. th[t].held = NoMr
    BY DEF IInv, Regions, LocksKept
  <2>2. QED
    BY <2>1, RegionsQuiet DEF IInv
<1>4. QED
  BY <1>1, <1>2, <1>3 DEF IInv

LEMMA FirstTouchKeeps ==
    ASSUME IInv, NEW b \in Blocks, FirstTouch(b)
    PROVE  IInv'
<1>1. /\ st[b] = "none" /\ ~Locked(b) /\ reading[b] = {} /\ UnlockedOK(b)
      /\ st'[b] = "resident" /\ \A a \in Blocks \ {b} : st'[a] = st[a]
      /\ UNCHANGED <<config, mr, rp, cow, th, reading>>
  BY DEF FirstTouch, IInv, AllTouched, TypeOK, Become, Quiet, BlocksKept, regions
<1>2. UnlockedOK(b)'
  BY <1>1, Kinds DEF UnlockedOK, Resident, Plain, Has
<1>3. TypeOK' /\ AllTouched'
  BY <1>1 DEF FirstTouch, IInv, AllTouched, TypeOK, Become, regions
<1>4. QED
  BY <1>1, <1>2, <1>3, OneBlockQuiet

LEMMA WritebackDoneKeeps ==
    ASSUME IInv, NEW b \in Blocks, WritebackDone(b)
    PROVE  IInv'
<1>1. /\ st[b] = "writeback" /\ ~Locked(b) /\ UnlockedOK(b)
      /\ st'[b] = "remote" /\ \A a \in Blocks \ {b} : st'[a] = st[a]
      /\ UNCHANGED <<config, mr, rp, cow, th, reading>>
  BY DEF WritebackDone, IInv, TypeOK, Become, BlocksKept, regions
<1>2. UnlockedOK(b)'
  BY <1>1 DEF UnlockedOK, Uniform, Plain, Has
<1>3. TypeOK' /\ AllTouched'
  BY <1>1 DEF WritebackDone, IInv, AllTouched, TypeOK, Become, regions
<1>4. QED
  BY <1>1, <1>2, <1>3, OneBlockQuiet

LEMMA DiscardKeeps ==
    ASSUME IInv, NEW b \in Blocks, Discard(b)
    PROVE  IInv'
<1>1. /\ st[b] = "resident" /\ ~Locked(b) /\ reading[b] = {} /\ UnlockedOK(b)
      /\ \A i \in Subs : rp[b][i] # Free
      /\ st'[b] = "remote" /\ \A a \in Blocks \ {b} : st'[a] = st[a]
      /\ UNCHANGED <<config, mr, rp, cow, th, reading>>
  BY DEF Discard, IInv, TypeOK, Become, Quiet, AllHeld, is_free, BlocksKept, regions
<1>2. UnlockedOK(b)'
  BY <1>1 DEF UnlockedOK, Resident, Uniform, Plain, Has
<1>3. TypeOK' /\ AllTouched'
  BY <1>1 DEF Discard, IInv, AllTouched, TypeOK, Become, regions
<1>4. QED
  BY <1>1, <1>2, <1>3, OneBlockQuiet

LEMMA FetchKeeps ==
    ASSUME IInv, NEW b \in Blocks, Fetch(b)
    PROVE  IInv'
<1>1. /\ st[b] = "remote" /\ ~Locked(b) /\ UnlockedOK(b)
      /\ st'[b] = "resident" /\ reading'[b] = Subs
      /\ \A a \in Blocks \ {b} : st'[a] = st[a] /\ reading'[a] = reading[a]
      /\ UNCHANGED <<config, mr, rp, cow, th>>
  BY DEF Fetch, IInv, TypeOK, Become, BlocksKept, regions
<1>2. UnlockedOK(b)'
  BY <1>1 DEF UnlockedOK, Resident, Has
<1>3. TypeOK' /\ AllTouched'
  BY <1>1 DEF Fetch, IInv, AllTouched, TypeOK, Become, regions
<1>4. QED
  BY <1>1, <1>2, <1>3, OneBlockQuiet

LEMMA HandoffKeeps ==
    ASSUME IInv, NEW old \in Blocks, NEW new \in Blocks, Handoff(old, new)
    PROVE  IInv'
<1>1. /\ st[old] = "resident" /\ ~Locked(old) /\ reading[old] = {} /\ UnlockedOK(old)
      /\ st[new] = "none" /\ ~Locked(new) /\ UnlockedOK(new) /\ old # new
      /\ \A i \in Subs : rp[old][i] # Free
      /\ st'[old] = "remote" /\ st'[new] = "resident"
      /\ \A a \in Blocks \ {old, new} : st'[a] = st[a]
      /\ UNCHANGED <<config, mr, rp, cow, th, reading>>
  BY DEF Handoff, IInv, TypeOK, Quiet, AllHeld, is_free, BlocksKept, regions
<1>2. UnlockedOK(old)'
  BY <1>1 DEF UnlockedOK, Resident, Uniform, Plain, Has
<1>3. UnlockedOK(new)'
  BY <1>1, Kinds DEF UnlockedOK, Resident, Plain, Has
<1>4. TypeOK' /\ AllTouched'
  BY <1>1 DEF Handoff, IInv, AllTouched, TypeOK, regions
<1>5. \A b \in {old, new} : ~Locked(b) /\ UnlockedOK(b)'
  BY <1>1, <1>2, <1>3
<1>6. /\ UNCHANGED <<config, mr, rp, cow, th>>
      /\ \A a \in Blocks \ {old, new} : st'[a] = st[a] /\ reading'[a] = reading[a]
  BY <1>1
<1>7. PICK B \in SUBSET Blocks : B = {old, new}
  OBVIOUS
<1>8. QED
  BY <1>4, <1>5, <1>6, <1>7, BlockQuiet

LEMMA OneThreadQuiet ==
    ASSUME IInv, NEW t \in Threads, NEW b \in Blocks, UNCHANGED <<config, mr, rp, cow, reading>>,
           BlocksOf(th[t]) \subseteq {b}, BlocksOf(th'[t]) \subseteq {b},
           \A a \in Blocks \ {b} : st'[a] = st[a],
           b \in BlocksOf(th[t]) \/ ~Locked(b),
           b \in BlocksOf(th'[t]) \/ UnlockedOK(b)',
           \A u \in Threads \ {t} : th'[u] = th[u],
           th[t].pc # "hold", th'[t].pc # "hold", th'[t].held = NoMr,
           same_mr /\ th'[t].pc = "scan" => th'[t].i = 1,
           ThreadOK(t)', TypeOK', AllTouched'
    PROVE  IInv'
<1>1. PICK B \in SUBSET Blocks : B = {b}
  OBVIOUS
<1>2. /\ \A a \in B : a \in BlocksOf(th[t]) \/ ~Locked(a)
      /\ \A a \in B : a \in BlocksOf(th'[t]) \/ UnlockedOK(a)'
  BY <1>1
<1>3. /\ BlocksOf(th[t]) \subseteq B /\ BlocksOf(th'[t]) \subseteq B
      /\ \A a \in Blocks \ B : st'[a] = st[a]
  BY <1>1
<1>4. QED
  BY <1>2, <1>3, ThreadQuiet

LEMMA PairThreadQuiet ==
    ASSUME IInv, NEW t \in Threads, NEW a \in Blocks, NEW b \in Blocks,
           UNCHANGED <<config, mr, rp, cow, reading>>,
           BlocksOf(th[t]) \subseteq {a, b}, BlocksOf(th'[t]) \subseteq {a, b},
           \A d \in Blocks \ {a, b} : st'[d] = st[d],
           a \in BlocksOf(th[t]) \/ ~Locked(a), b \in BlocksOf(th[t]) \/ ~Locked(b),
           a \in BlocksOf(th'[t]) \/ UnlockedOK(a)', b \in BlocksOf(th'[t]) \/ UnlockedOK(b)',
           \A u \in Threads \ {t} : th'[u] = th[u],
           th[t].pc # "hold", th'[t].pc # "hold", th'[t].held = NoMr, th'[t].pc # "scan",
           ThreadOK(t)', TypeOK', AllTouched'
    PROVE  IInv'
<1>1. PICK B \in SUBSET Blocks : B = {a, b}
  OBVIOUS
<1>2. /\ \A d \in B : d \in BlocksOf(th[t]) \/ ~Locked(d)
      /\ \A d \in B : d \in BlocksOf(th'[t]) \/ UnlockedOK(d)'
  BY <1>1
<1>3. /\ BlocksOf(th[t]) \subseteq B /\ BlocksOf(th'[t]) \subseteq B
      /\ \A d \in Blocks \ B : st'[d] = st[d]
  BY <1>1
<1>4. QED
  BY <1>2, <1>3, ThreadQuiet

(* What a thread has in hand.                                              *)
LEMMA InHand ==
    ASSUME IInv, NEW t \in Threads, th[t].pc # "idle"
    PROVE  /\ th[t].blk \in Blocks /\ reading[th[t].blk] = {} /\ th[t].blk \in BlocksOf(th[t])
           /\ th[t].pc \notin Duplicating => th[t].new = NoBlock /\ BlocksOf(th[t]) = {th[t].blk}
           /\ th[t].pc \in Duplicating => /\ th[t].new \in Blocks /\ th[t].new # th[t].blk
                                          /\ BlocksOf(th[t]) = {th[t].blk, th[t].new}
                                          /\ reading[th[t].new] = {}
           /\ EvictOK(th[t]) /\ DropOK(th[t]) /\ DupOK(th[t])
           /\ th[t] \in ThreadType
           /\ th[t].pc # "hold" => th[t].held = NoMr
<1>1. ThreadOK(t) /\ th[t] \in ThreadType /\ (th[t].pc # "hold" => th[t].held = NoMr)
  BY DEF IInv, BlocksKept, TypeOK, ThreadType, Regions, LocksKept
<1>2. QED
  BY <1>1, RemoteAssumption DEF ThreadOK, BlocksOf

LEMMA Touched ==
    ASSUME IInv, NEW b \in Blocks
    PROVE  st[b] \in {"none", "resident", "writeback", "remote"}
BY DEF IInv, AllTouched, TypeOK

LEMMA NumAlloc ==
    ASSUME IInv
    PROVE  num_alloc \in Nat
BY DEF IInv, TypeOK

LEMMA FirstMr ==
    ASSUME TypeOK
    PROVE  first_mr \in MrIds
BY NextRegion DEF first_mr, TypeOK

(* An idle thread takes a block in hand.                                   *)
LEMMA TakesBlock ==
    ASSUME IInv, NEW t \in Threads, th[t] = Idle, NEW b \in Blocks, ~Locked(b),
           UNCHANGED <<config, mr, last_alloc, rp, cow, reading, st>>, num_alloc' \in Nat,
           th' \in [Threads -> ThreadType], \A u \in Threads \ {t} : th'[u] = th[u],
           th'[t].pc \notin {"idle", "hold"} \cup Duplicating,
           th'[t].blk = b, th'[t].new = NoBlock, th'[t].i = 1, th'[t].held = NoMr,
           reading[b] = {}, EvictOK(th[t])', DropOK(th[t])'
    PROVE  IInv'
<1>1. BlocksOf(th'[t]) = {b}
  BY RemoteAssumption DEF BlocksOf
<1>2. BlocksOf(th[t]) = {} /\ th[t].pc # "hold"
  BY IdleHasNone
<1>3. ThreadOK(t)'
  BY <1>1 DEF ThreadOK, DupOK, BlocksOf
<1>4. TypeOK' /\ AllTouched'
  BY DEF IInv, TypeOK, AllTouched, ThreadType
<1>5. QED
  BY <1>1, <1>2, <1>3, <1>4, OneThreadQuiet

LEMMA EvictKeeps ==
    ASSUME IInv, NEW t \in Threads, NEW b \in Blocks, Evict(t, b)
    PROVE  IInv'
<1>1. /\ th[t] = Idle /\ st[b] = "resident" /\ ~Locked(b) /\ reading[b] = {} /\ UnlockedOK(b)
      /\ UNCHANGED <<config, mr, last_alloc, rp, cow, reading, st>>
  BY DEF Evict, IInv, BlocksKept, Quiet
<1>2. \A i \in Subs : Plain(b, i) /\ (config.reuse \/ rp[b][i] = Free)
  BY <1>1 DEF UnlockedOK, Resident
<1>3. CASE AllHeld(b)
  <2>1. Start(t, "post", b) /\ num_alloc' = num_alloc
    BY <1>3 DEF Evict
  <2>2. /\ th' \in [Threads -> ThreadType] /\ \A u \in Threads \ {t} : th'[u] = th[u]
        /\ th'[t].pc = "post" /\ th'[t].blk = b /\ th'[t].new = NoBlock /\ th'[t].i = 1
        /\ th'[t].held = NoMr
    <3>1. TypeOK /\ Start(t, "post", b)
      BY <2>1 DEF IInv
    <3>2. QED
      BY <3>1, Started
  <2>3. EvictOK(th[t])' /\ DropOK(th[t])'
    BY <1>1, <1>2, <1>3, <2>2 DEF EvictOK, DropOK, Plain, Has, AllHeld, is_free
  <2>4. QED
    BY <1>1, <2>1, <2>2, <2>3, NumAlloc, TakesBlock DEF Duplicating
<1>4. CASE ~AllHeld(b)
  <2>1. /\ th' = [th EXCEPT ![t] = [Idle EXCEPT !.pc = "scan", !.blk = b,
                            !.mrid = first_mr, !.first = first_mr]]
        /\ num_alloc' \in Nat
    <3>1. config.policy_block \in Nat /\ num_alloc \in Nat
      BY RemoteAssumption DEF IInv, TypeOK
    <3>2. QED
      BY <1>4, <3>1 DEF Evict
  <2>2. /\ \A u \in Threads \ {t} : th'[u] = th[u]
        /\ th'[t] = [Idle EXCEPT !.pc = "scan", !.blk = b, !.mrid = first_mr, !.first = first_mr]
    BY <2>1 DEF IInv, TypeOK
  <2>3. /\ th'[t].pc = "scan" /\ th'[t].blk = b /\ th'[t].new = NoBlock /\ th'[t].i = 1
        /\ th'[t].held = NoMr /\ th'[t] \in ThreadType
    <3>1. first_mr \in MrIds /\ Idle \in ThreadType
      BY FirstMr, Sizes DEF IInv, Idle, ThreadType, MrIds
    <3>2. /\ th'[t].pc = "scan" /\ th'[t].blk = b /\ th'[t].new = NoBlock /\ th'[t].i = 1
          /\ th'[t].held = NoMr
      BY <2>2 DEF Idle
    <3>3. th'[t] \in ThreadType
      BY <2>2, <3>1 DEF ThreadType
    <3>4. QED
      BY <3>2, <3>3
  <2>4. th' \in [Threads -> ThreadType]
    BY <2>1, <2>3 DEF IInv, TypeOK, ThreadType
  <2>5. \A i \in Subs : ~(i < 1)
    BY Sizes
  <2>6. EvictOK(th[t])' /\ DropOK(th[t])'
    BY <1>1, <1>2, <2>3, <2>5 DEF EvictOK, DropOK, Plain, Has
  <2>7. QED
    BY <1>1, <2>1, <2>2, <2>3, <2>4, <2>6, TakesBlock DEF Duplicating
<1>5. QED
  BY <1>3, <1>4

LEMMA WritebackFaultKeeps ==
    ASSUME IInv, NEW t \in Threads, NEW b \in Blocks, WritebackFault(t, b)
    PROVE  IInv'
<1>1. /\ th[t] = Idle /\ st[b] = "writeback" /\ ~Locked(b) /\ UnlockedOK(b) /\ reading[b] = {}
      /\ UNCHANGED <<config, mr, last_alloc, num_alloc, rp, cow, reading, st>> /\ Start(t, "drop", b)
  BY DEF WritebackFault, IInv, BlocksKept, regions, UnlockedOK
<1>2. /\ th' \in [Threads -> ThreadType] /\ \A u \in Threads \ {t} : th'[u] = th[u]
      /\ th'[t].pc = "drop" /\ th'[t].blk = b /\ th'[t].new = NoBlock /\ th'[t].i = 1
      /\ th'[t].held = NoMr
  <2>1. TypeOK /\ Start(t, "drop", b)
    BY <1>1 DEF IInv
  <2>2. QED
    BY <2>1, Started
<1>3. \A i \in Subs : ~(i < 1) /\ Plain(b, i)
  BY <1>1, Sizes DEF UnlockedOK
<1>4. EvictOK(th[t])' /\ DropOK(th[t])'
  BY <1>1, <1>2, <1>3 DEF EvictOK, DropOK, Plain, Evicting
<1>5. QED
  BY <1>1, <1>2, <1>4, NumAlloc, TakesBlock DEF Duplicating

LEMMA CloseKeeps ==
    ASSUME IInv, NEW t \in Threads, NEW b \in Blocks, Close(t, b)
    PROVE  IInv'
<1>1. /\ th[t] = Idle /\ st[b] # "none" /\ ~Locked(b) /\ reading[b] = {}
      /\ UNCHANGED <<config, mr, last_alloc, num_alloc, rp, cow, reading, st>> /\ Start(t, "destroy", b)
  BY DEF Close, IInv, Quiet, regions
<1>2. /\ th' \in [Threads -> ThreadType] /\ \A u \in Threads \ {t} : th'[u] = th[u]
      /\ th'[t].pc = "destroy" /\ th'[t].blk = b /\ th'[t].new = NoBlock /\ th'[t].i = 1
      /\ th'[t].held = NoMr
  <2>1. TypeOK /\ Start(t, "destroy", b)
    BY <1>1 DEF IInv
  <2>2. QED
    BY <2>1, Started
<1>3. \A i \in Subs : ~(i < 1)
  BY Sizes
<1>4. st[b] \in {"resident", "writeback"} => \A i \in Subs : Plain(b, i)
  <2>1. UnlockedOK(b)
    BY <1>1 DEF IInv, BlocksKept
  <2>2. QED
    BY <1>1, <2>1 DEF UnlockedOK, Resident
<1>5. EvictOK(th[t])' /\ DropOK(th[t])'
  BY <1>1, <1>2, <1>3, <1>4 DEF EvictOK, DropOK, Evicting, Plain
<1>6. QED
  BY <1>1, <1>2, <1>5, NumAlloc, TakesBlock DEF Duplicating

(* A thread goes on with the blocks that it has in hand.                   *)
LEMMA KeepsBlocks ==
    ASSUME IInv, NEW t \in Threads, th[t].pc \notin {"idle", "hold"},
           UNCHANGED <<config, mr, last_alloc, num_alloc, rp, cow, reading, st>>,
           th' \in [Threads -> ThreadType], \A u \in Threads \ {t} : th'[u] = th[u],
           th'[t].pc \notin {"idle", "hold"}, th'[t].pc \in Duplicating <=> th[t].pc \in Duplicating,
           th'[t].blk = th[t].blk, th'[t].new = th[t].new, th'[t].held = NoMr,
           same_mr /\ th'[t].pc = "scan" => th'[t].i = 1,
           EvictOK(th[t])', DropOK(th[t])', DupOK(th[t])'
    PROVE  IInv'
<1>1. BlocksOf(th'[t]) = BlocksOf(th[t]) /\ BlocksOf(th[t]) \in SUBSET Blocks
  BY DEF BlocksOf
<1>2. ThreadOK(t)
  BY DEF IInv, BlocksKept
<1>3. ThreadOK(t)'
  <2>1. \A b \in BlocksOf(th'[t]) : reading'[b] = {}
    BY <1>1, <1>2 DEF ThreadOK
  <2>2. QED
    BY <1>2, <2>1 DEF ThreadOK
<1>4. TypeOK' /\ AllTouched'
  BY DEF IInv, TypeOK, AllTouched, ThreadType
<1>5. PICK B \in SUBSET Blocks : B = BlocksOf(th[t])
  BY <1>1
<1>6. QED
  BY <1>1, <1>3, <1>4, <1>5, ThreadQuiet

LEMMA NextMrKeeps ==
    ASSUME IInv, NEW t \in Threads, NextMr(t)
    PROVE  IInv'
<1> DEFINE x == th[t]
           m == (x.mrid + 1) % Mrs
<1>1. /\ x.pc = "scan" /\ x.blk \in Blocks /\ x.new = NoBlock /\ EvictOK(x) /\ x \in ThreadType
      /\ x.held = NoMr
      /\ UNCHANGED <<config, mr, last_alloc, num_alloc, rp, cow, reading, st>>
  BY InHand DEF NextMr, Duplicating, regions
<1>2. m \in MrIds
  BY <1>1, NextRegion DEF ThreadType
<1>3. \A u \in Threads \ {t} : th'[u] = th[u]
  BY DEF NextMr, IInv, TypeOK
<1>4. \/ th'[t] = [x EXCEPT !.mrid = m]
      \/ x.i = Subblocks + 1 /\ th'[t] = [x EXCEPT !.pc = "post"]
      \/ th'[t] = [x EXCEPT !.pc = "undo", !.i = 1]
  BY DEF NextMr, IInv, TypeOK
<1>5. th' \in [Threads -> ThreadType]
  <2>1. 1 \in 1 .. Subblocks + 1
    BY Sizes
  <2>2. th'[t] \in ThreadType
    BY ZenonT(60), <1>1, <1>2, <1>4, <2>1 DEF ThreadType
  <2>3. th' = [th EXCEPT ![t] = th'[t]]
    BY DEF NextMr, IInv, TypeOK
  <2>4. QED
    BY <1>3, <2>2, <2>3 DEF IInv, TypeOK, ThreadType
<1>6. /\ th'[t].blk = x.blk /\ th'[t].new = x.new /\ th'[t].held = NoMr
      /\ \/ th'[t].pc = "scan" /\ th'[t].i = x.i
         \/ th'[t].pc = "post" /\ x.i = Subblocks + 1
         \/ th'[t].pc = "undo" /\ th'[t].i = 1
  BY <1>1, <1>4 DEF ThreadType
<1>7. \A i \in Subs : ~(i < 1) /\ i < Subblocks + 1
  BY Sizes
<1>8. EvictOK(x)' /\ DropOK(x)' /\ DupOK(x)'
  BY <1>1, <1>6, <1>7 DEF EvictOK, DropOK, DupOK, Plain, Has, Evicting, Duplicating
<1>9. same_mr /\ th'[t].pc = "scan" => th'[t].i = 1
  <2>1. same_mr => x.i = 1
    BY <1>1 DEF IInv, Regions, RoomKept
  <2>2. QED
    BY <1>6, <2>1
<1>10. QED
  BY <1>1, <1>3, <1>5, <1>6, <1>8, <1>9, KeepsBlocks DEF Duplicating

LEMMA PostFailsKeeps ==
    ASSUME IInv, NEW t \in Threads, PostFails(t)
    PROVE  IInv'
<1>1. /\ th[t].pc = "post" /\ th[t].blk \in Blocks /\ th[t].new = NoBlock /\ EvictOK(th[t])
      /\ UNCHANGED <<config, mr, last_alloc, num_alloc, rp, cow, reading, st>>
      /\ Start(t, "drop", th[t].blk) /\ TypeOK
  BY InHand DEF PostFails, Duplicating, regions, IInv
<1>2. /\ th' \in [Threads -> ThreadType] /\ \A u \in Threads \ {t} : th'[u] = th[u]
      /\ th'[t].pc = "drop" /\ th'[t].blk = th[t].blk /\ th'[t].new = NoBlock /\ th'[t].i = 1
      /\ th'[t].held = NoMr
  BY <1>1, Started
<1>3. \A i \in Subs : ~(i < 1)
  BY Sizes
<1>4. EvictOK(th[t])' /\ DropOK(th[t])' /\ DupOK(th[t])'
  BY <1>1, <1>2, <1>3 DEF EvictOK, DropOK, DupOK, Plain, Has, Evicting, Duplicating
<1>5. QED
  BY <1>1, <1>2, <1>4, KeepsBlocks DEF Duplicating

LEMMA GetCowFailsKeeps ==
    ASSUME IInv, NEW t \in Threads, GetCowFails(t)
    PROVE  IInv'
<1>1. /\ th[t].pc = "dup" /\ th[t].i \in Subs /\ th[t] \in ThreadType /\ DupOK(th[t])
      /\ ~is_cow(rp[th[t].blk][th[t].i]) /\ th[t].held = NoMr
      /\ UNCHANGED <<config, mr, last_alloc, num_alloc, rp, cow, reading, st>>
  BY InHand DEF GetCowFails, Duplicating, regions, At
<1>2. \A u \in Threads \ {t} : th'[u] = th[u]
  BY DEF GetCowFails, IInv, TypeOK
<1>3. /\ th'[t].pc = "dupundo" /\ th'[t].blk = th[t].blk /\ th'[t].new = th[t].new
      /\ th'[t].i = th[t].i /\ th'[t].held = NoMr
  BY <1>1 DEF GetCowFails, IInv, TypeOK
<1>4. th' \in [Threads -> ThreadType]
  <2>1. [th[t] EXCEPT !.pc = "dupundo"] \in ThreadType
    BY <1>1 DEF ThreadType
  <2>2. th' = [th EXCEPT ![t] = [th[t] EXCEPT !.pc = "dupundo"]]
    BY DEF GetCowFails, IInv, TypeOK
  <2>3. QED
    BY <2>1, <2>2 DEF IInv, TypeOK, ThreadType
<1>5. EvictOK(th[t])' /\ DropOK(th[t])'
  BY <1>3 DEF EvictOK, DropOK, Evicting
<1>6. DupOK(th[t])'
  <2>1. \A c : Pointers(c)' = Pointers(c)
    BY <1>1 DEF Pointers, Page
  <2>2. HalfFresh(th[t])
    BY <1>1 DEF DupOK, Duplicating
  <2>3. HalfFresh(th[t])'
    BY <1>1, <1>3, <2>1, <2>2 DEF HalfFresh, Fresh, Plain
  <2>4. QED
    BY <1>1, <1>3, <2>3 DEF DupOK, Has, Duplicating
<1>7. QED
  BY <1>1, <1>2, <1>3, <1>4, <1>5, <1>6, KeepsBlocks DEF Duplicating

(* A thread is done with its block.                                        *)
LEMMA LetsGo ==
    ASSUME IInv, NEW t \in Threads, th[t].pc \notin {"idle", "hold"} \cup Duplicating, Done(t),
           UNCHANGED <<config, mr, last_alloc, num_alloc, rp, cow, reading>>,
           NEW b \in Blocks, b = th[t].blk,
           st' \in [Blocks -> {"none", "resident", "writeback", "remote"}],
           \A a \in Blocks \ {b} : st'[a] = st[a],
           UnlockedOK(b)'
    PROVE  IInv'
<1>1. BlocksOf(th[t]) = {b}
  BY InHand
<1>2. /\ th' \in [Threads -> ThreadType] /\ \A u \in Threads \ {t} : th'[u] = th[u]
      /\ th'[t].pc = "idle" /\ th'[t].held = NoMr /\ BlocksOf(th'[t]) = {} /\ ThreadOK(t)'
  BY Ended DEF IInv
<1>3. TypeOK' /\ AllTouched'
  <2>1. \A a \in Blocks : st'[a] \in {"none", "resident", "writeback", "remote"}
    OBVIOUS
  <2>2. st' \in [Blocks -> {"none", "untouched", "resident", "writeback", "remote"}]
    OBVIOUS
  <2>3. AllTouched'
    BY <2>1 DEF AllTouched
  <2>4. QED
    BY <1>2, <2>2, <2>3 DEF IInv, TypeOK, ThreadType
<1>4. QED
  BY <1>1, <1>2, <1>3, OneThreadQuiet

LEMMA States ==
    ASSUME IInv
    PROVE  st \in [Blocks -> {"none", "resident", "writeback", "remote"}]
BY DEF IInv, TypeOK, AllTouched

LEMMA UndoEndKeeps ==
    ASSUME IInv, NEW t \in Threads, UndoEnd(t)
    PROVE  IInv'
<1>1. PICK b \in Blocks : b = th[t].blk
  BY InHand DEF UndoEnd, AtEnd
<1>2. /\ th[t].pc = "undo" /\ th[t].i = Subblocks + 1 /\ EvictOK(th[t]) /\ reading[b] = {}
      /\ UNCHANGED <<config, mr, last_alloc, num_alloc, rp, cow, reading, st>> /\ Done(t)
  BY <1>1, InHand DEF UndoEnd, AtEnd, regions
<1>3. \A i \in Subs : i < Subblocks + 1
  BY Sizes
<1>4. UnlockedOK(b)'
  BY <1>1, <1>2, <1>3 DEF EvictOK, Evicting, UnlockedOK, Resident, Plain
<1>5. QED
  BY <1>1, <1>2, <1>4, LetsGo, States DEF Duplicating

LEMMA PostWritebackKeeps ==
    ASSUME IInv, NEW t \in Threads, PostWriteback(t)
    PROVE  IInv'
<1>1. PICK b \in Blocks : b = th[t].blk
  BY InHand DEF PostWriteback
<1>2. /\ th[t].pc = "post" /\ EvictOK(th[t]) /\ reading[b] = {}
      /\ UNCHANGED <<config, mr, last_alloc, num_alloc, rp, cow, reading>> /\ Done(t)
  BY <1>1, InHand DEF PostWriteback, regions
<1>3. /\ st' \in [Blocks -> {"none", "resident", "writeback", "remote"}]
      /\ st'[b] = "writeback" /\ \A a \in Blocks \ {b} : st'[a] = st[a]
  BY <1>1, States DEF PostWriteback, Become
<1>4. UnlockedOK(b)'
  BY <1>1, <1>2, <1>3 DEF EvictOK, Evicting, UnlockedOK, Plain, Has
<1>5. QED
  BY <1>1, <1>2, <1>3, <1>4, LetsGo DEF Duplicating

LEMMA DropEndKeeps ==
    ASSUME IInv, NEW t \in Threads, DropEnd(t)
    PROVE  IInv'
<1>1. PICK b \in Blocks : b = th[t].blk
  BY InHand DEF DropEnd, AtEnd
<1>2. /\ th[t].pc = "drop" /\ th[t].i = Subblocks + 1 /\ DropOK(th[t]) /\ reading[b] = {}
      /\ UNCHANGED <<config, mr, last_alloc, num_alloc, rp, cow, reading>> /\ Done(t)
  BY <1>1, InHand DEF DropEnd, AtEnd, regions
<1>3. /\ st' \in [Blocks -> {"none", "resident", "writeback", "remote"}]
      /\ st'[b] = "resident" /\ \A a \in Blocks \ {b} : st'[a] = st[a]
  BY <1>1, States DEF DropEnd, Become
<1>4. \A i \in Subs : i < Subblocks + 1
  BY Sizes
<1>5. UnlockedOK(b)'
  BY <1>1, <1>2, <1>3, <1>4 DEF DropOK, UnlockedOK, Resident, Plain
<1>6. QED
  BY <1>1, <1>2, <1>3, <1>5, LetsGo DEF Duplicating

LEMMA DestroyEndKeeps ==
    ASSUME IInv, NEW t \in Threads, DestroyEnd(t)
    PROVE  IInv'
<1>1. PICK b \in Blocks : b = th[t].blk
  BY InHand DEF DestroyEnd, AtEnd
<1>2. /\ th[t].pc = "destroy" /\ th[t].i = Subblocks + 1 /\ DropOK(th[t]) /\ reading[b] = {}
      /\ UNCHANGED <<config, mr, last_alloc, num_alloc, rp, cow, reading>> /\ Done(t)
  BY <1>1, InHand DEF DestroyEnd, AtEnd, regions
<1>3. /\ st' \in [Blocks -> {"none", "resident", "writeback", "remote"}]
      /\ st'[b] = "none" /\ \A a \in Blocks \ {b} : st'[a] = st[a]
  BY <1>1, States DEF DestroyEnd, Become
<1>4. \A i \in Subs : i < Subblocks + 1
  BY Sizes
<1>5. UnlockedOK(b)'
  BY <1>1, <1>2, <1>3, <1>4 DEF DropOK, UnlockedOK
<1>6. QED
  BY <1>1, <1>2, <1>3, <1>5, LetsGo DEF Duplicating

LEMMA ForkCopyKeeps ==
    ASSUME IInv, NEW t \in Threads, NEW old \in Blocks, NEW new \in Blocks, ForkCopy(t, old, new)
    PROVE  IInv'
<1>1. /\ th[t] = Idle /\ st[old] = "remote" /\ ~Locked(old) /\ UnlockedOK(old)
      /\ st[new] = "none" /\ ~Locked(new) /\ UnlockedOK(new) /\ old # new
      /\ reading[old] = {} /\ reading[new] = {}
      /\ UNCHANGED <<config, mr, last_alloc, num_alloc, rp, cow, reading, st>>
  BY DEF ForkCopy, IInv, AllTouched, BlocksKept, UnlockedOK, regions
<1>2. /\ \A u \in Threads \ {t} : th'[u] = th[u]
      /\ th'[t] = [Idle EXCEPT !.pc = "dup", !.blk = old, !.new = new]
  BY DEF ForkCopy, IInv, TypeOK
<1>3. /\ th'[t].pc = "dup" /\ th'[t].blk = old /\ th'[t].new = new /\ th'[t].i = 1
      /\ th'[t].held = NoMr
  BY <1>2 DEF Idle
<1>4. th' \in [Threads -> ThreadType]
  <2>1. Idle \in ThreadType
    BY Sizes DEF Idle, ThreadType, MrIds
  <2>2. [Idle EXCEPT !.pc = "dup", !.blk = old, !.new = new] \in ThreadType
    BY <2>1 DEF ThreadType
  <2>3. QED
    BY <2>2 DEF ForkCopy, IInv, TypeOK, ThreadType
<1>5. BlocksOf(th[t]) = {} /\ th[t].pc = "idle" /\ BlocksOf(th'[t]) = {old, new}
  BY <1>1, <1>3, IdleHasNone DEF BlocksOf
<1>6. DupOK(th[t])'
  <2>1. \A i \in Subs : ~(i < 1)
    BY Sizes
  <2>2. \A i \in Subs : Has(old, i)' /\ rp'[new][i] = Free
    BY <1>1 DEF UnlockedOK, Has
  <2>3. (\A i \in Subs : is_cow(rp'[old][i])) \/ (\A i \in Subs : Plain(old, i)')
    BY <1>1 DEF UnlockedOK, Uniform, Plain
  <2>4. (\A i \in Subs : Plain(old, i)') => HalfFresh(th[t])'
    BY <1>3, <2>1 DEF HalfFresh, Plain
  <2>5. QED
    BY <1>1, <1>3, <2>1, <2>2, <2>3, <2>4 DEF DupOK, Has
<1>7. ThreadOK(t)'
  <2>1. EvictOK(th[t])' /\ DropOK(th[t])'
    BY <1>3 DEF EvictOK, DropOK, Evicting
  <2>2. QED
    BY <1>1, <1>3, <1>5, <1>6, <2>1 DEF ThreadOK, Duplicating
<1>8. TypeOK' /\ AllTouched'
  BY <1>1, <1>4 DEF IInv, TypeOK, AllTouched, ThreadType
<1>9. QED
  BY <1>1, <1>2, <1>3, <1>5, <1>7, <1>8, PairThreadQuiet

(* A fork is done with its two blocks.                                     *)
LEMMA LetsBothGo ==
    ASSUME IInv, NEW t \in Threads, th[t].pc \in Duplicating, Done(t),
           UNCHANGED <<config, mr, last_alloc, num_alloc, rp, cow, reading>>,
           NEW a \in Blocks, a = th[t].blk, NEW b \in Blocks, b = th[t].new,
           st' \in [Blocks -> {"none", "resident", "writeback", "remote"}],
           \A d \in Blocks \ {a, b} : st'[d] = st[d],
           UnlockedOK(a)', UnlockedOK(b)'
    PROVE  IInv'
<1>1. BlocksOf(th[t]) = {a, b} /\ th[t].pc # "hold"
  BY InHand DEF Duplicating
<1>2. /\ th' \in [Threads -> ThreadType] /\ \A u \in Threads \ {t} : th'[u] = th[u]
      /\ th'[t].pc = "idle" /\ th'[t].held = NoMr /\ BlocksOf(th'[t]) = {} /\ ThreadOK(t)'
  BY Ended DEF IInv
<1>3. TypeOK' /\ AllTouched'
  <2>1. \A d \in Blocks : st'[d] \in {"none", "resident", "writeback", "remote"}
    OBVIOUS
  <2>2. st' \in [Blocks -> {"none", "untouched", "resident", "writeback", "remote"}]
    OBVIOUS
  <2>3. AllTouched'
    BY <2>1 DEF AllTouched
  <2>4. QED
    BY <1>2, <2>2, <2>3 DEF IInv, TypeOK, ThreadType
<1>4. QED
  BY <1>1, <1>2, <1>3, PairThreadQuiet

LEMMA DupEndKeeps ==
    ASSUME IInv, NEW t \in Threads, DupEnd(t)
    PROVE  IInv'
<1>0. th[t].pc = "dup" /\ th[t].pc # "idle" /\ th[t].pc \in Duplicating
  BY DEF DupEnd, AtEnd, Duplicating
<1>1. PICK a \in Blocks : a = th[t].blk
  BY <1>0, InHand
<1>2. PICK b \in Blocks : b = th[t].new
  BY <1>0, InHand
<1>3. /\ a # b /\ reading[a] = {} /\ reading[b] = {} /\ DupOK(th[t]) /\ th[t].i = Subblocks + 1
      /\ UNCHANGED <<config, mr, last_alloc, num_alloc, rp, cow, reading>> /\ Done(t)
  BY <1>0, <1>1, <1>2, InHand DEF DupEnd, AtEnd, regions
<1>4. /\ st[a] = "remote" /\ st[b] = "none"
      /\ \A i \in Subs : Has(a, i) /\ rp[b][i] = rp[a][i] /\ is_cow(rp[a][i])
  <2>1. \A i \in Subs : i < Subblocks + 1
    BY Sizes
  <2>2. HalfFresh(th[t]) => \A i \in Subs : is_cow(rp[a][i])
    BY <1>1, <1>3, <2>1, Kinds DEF HalfFresh, Fresh
  <2>3. QED
    BY <1>0, <1>1, <1>2, <1>3, <2>1, <2>2 DEF DupOK
<1>5. /\ st' \in [Blocks -> {"none", "resident", "writeback", "remote"}]
      /\ st'[a] = "remote" /\ st'[b] = "remote" /\ \A d \in Blocks \ {a, b} : st'[d] = st[d]
  BY <1>1, <1>2, <1>3, <1>4, States DEF DupEnd, Become
<1>6. UnlockedOK(a)' /\ UnlockedOK(b)'
  BY <1>3, <1>4, <1>5 DEF UnlockedOK, Uniform, Has
<1>7. QED
  BY <1>0, <1>1, <1>2, <1>3, <1>5, <1>6, LetsBothGo

LEMMA DupUndoEndKeeps ==
    ASSUME IInv, NEW t \in Threads, DupUndoEnd(t)
    PROVE  IInv'
<1>0. th[t].pc = "dupundo" /\ th[t].pc # "idle" /\ th[t].pc \in Duplicating
  BY DEF DupUndoEnd, Duplicating
<1>1. PICK a \in Blocks : a = th[t].blk
  BY <1>0, InHand
<1>2. PICK b \in Blocks : b = th[t].new
  BY <1>0, InHand
<1>3. /\ a # b /\ reading[a] = {} /\ reading[b] = {} /\ DupOK(th[t]) /\ th[t].i = 1
      /\ UNCHANGED <<config, mr, last_alloc, num_alloc, rp, cow, reading, st>> /\ Done(t)
  BY <1>0, <1>1, <1>2, InHand DEF DupUndoEnd, regions
<1>4. /\ st[a] = "remote" /\ st[b] = "none"
      /\ \A i \in Subs : Has(a, i) /\ rp[b][i] = Free /\ Plain(a, i)
  <2>1. \A i \in Subs : ~(i < 1)
    BY Sizes
  <2>2. HalfFresh(th[t])
    BY <1>0, <1>3 DEF DupOK
  <2>3. QED
    BY <1>0, <1>1, <1>2, <1>3, <2>1, <2>2 DEF DupOK, HalfFresh
<1>5. UnlockedOK(a)' /\ UnlockedOK(b)'
  BY <1>3, <1>4 DEF UnlockedOK, Uniform, Has, Plain
<1>6. QED
  BY <1>0, <1>1, <1>2, <1>3, <1>5, LetsBothGo, States

------------------------------------------------------------------------------
(***************************************************************************)
(* Steps of the allocation with a region, and steps that change a page of  *)
(* a block in hand.                                                        *)
(***************************************************************************)
LEMMA PageStep ==
    ASSUME IInv, NEW t \in Threads, th[t].pc # "idle", th'[t].pc # "idle",
           UNCHANGED <<config, reading, st>>,
           \A u \in Threads \ {t} : th'[u] = th[u],
           th'[t].blk = th[t].blk, th'[t].new = th[t].new,
           th'[t].pc \in Duplicating <=> th[t].pc \in Duplicating,
           \A a \in Blocks \ BlocksOf(th[t]), i \in Subs : rp'[a][i] = rp[a][i],
           \A b \in BlocksOf(th[t]), i \in Subs : \A c \in Cows : rp'[b][i] = Cow(c) =>
             Pointers(c) = {} \/ \E a \in BlocksOf(th[t]), j \in Subs : rp[a][j] = Cow(c),
           EvictOK(th[t])', DropOK(th[t])', DupOK(th[t])',
           TypeOK', Books', Regions'
    PROVE  IInv'
<1>1. BlocksOf(th'[t]) = BlocksOf(th[t]) /\ BlocksOf(th[t]) \in SUBSET Blocks
  BY DEF BlocksOf
<1>2. ThreadOK(t)
  BY DEF IInv, BlocksKept
<1>3. ThreadOK(t)'
  <2>1. \A b \in BlocksOf(th'[t]) : reading'[b] = {}
    BY <1>1, <1>2 DEF ThreadOK
  <2>2. QED
    BY <1>2, <2>1 DEF ThreadOK
<1>4. PICK B \in SUBSET Blocks : B = BlocksOf(th[t])
  BY <1>1
<1>5. Untouched(B)
  BY <1>4 DEF Untouched
<1>6. \A b \in B : b \in BlocksOf(th[t]) \/ ~Locked(b)
  BY <1>4
<1>7. \A b \in B : b \in BlocksOf(th'[t]) \/ UnlockedOK(b)'
  BY <1>1, <1>4
<1>8. BlocksOf(th[t]) \subseteq B /\ BlocksOf(th'[t]) \subseteq B
  BY <1>1, <1>4
<1>9. TypeOK /\ BlocksKept
  BY DEF IInv
<1>10. BlocksKept'
  BY <1>3, <1>5, <1>6, <1>7, <1>8, <1>9, ThreadStep
<1>11. AllTouched'
  BY DEF IInv, AllTouched
<1>12. QED
  BY <1>10, <1>11 DEF IInv

LEMMA LockMrKeeps ==
    ASSUME IInv, NEW t \in Threads, LockMr(t)
    PROVE  IInv'
<1>1. PICK m \in MrIds : m = th[t].mrid
  BY DEF IInv, TypeOK
<1>2. /\ th[t].pc = "scan" /\ EvictOK(th[t]) /\ th[t] \in ThreadType /\ TypeOK /\ Regions
      /\ UNCHANGED <<config, num_alloc, rp, cow, st, reading>>
  BY InHand DEF LockMr, IInv
<1>3. same_mr => \A i \in Subs : config.reuse \/ rp[th[t].blk][i] = Free
  <2>1. same_mr => th[t].i = 1
    BY <1>2 DEF Regions, RoomKept
  <2>2. \A i \in Subs : ~(i < 1)
    BY Sizes
  <2>3. QED
    BY <1>2, <2>1, <2>2 DEF EvictOK, Evicting
<1>4. Regions'
  BY <1>1, <1>2, <1>3, LockRegion
<1>5. /\ \A u \in Threads \ {t} : th'[u] = th[u]
      /\ th'[t] = [th[t] EXCEPT !.pc = "hold", !.held = m]
  BY <1>1, <1>2 DEF LockMr, TypeOK
<1>6. /\ th'[t].pc = "hold" /\ th'[t].blk = th[t].blk /\ th'[t].new = th[t].new
      /\ th'[t].i = th[t].i /\ th'[t] \in ThreadType
  BY <1>2, <1>5 DEF ThreadType
<1>7. th' \in [Threads -> ThreadType]
  <2>1. th' = [th EXCEPT ![t] = th'[t]]
    BY <1>2 DEF LockMr, TypeOK
  <2>2. QED
    BY ZenonT(60), <1>2, <1>6, <2>1 DEF TypeOK, ThreadType
<1>8. /\ mr' \in [MrIds -> MrType] /\ \A k \in MrIds : mr'[k].bits = mr[k].bits
  <2> DEFINE x == mr[m]
             n == x.alloc_len + IF same_mr THEN Subblocks ELSE 0
             y == [x EXCEPT !.locked = TRUE, !.alloc_len = n]
  <2>1. x \in MrType /\ Subblocks \in Int
    BY <1>1, <1>2, Sizes DEF TypeOK, MrType
  <2>2. y \in MrType /\ y.bits = x.bits
    <3>1. n \in Int
      BY <2>1 DEF MrType
    <3> HIDE DEF n
    <3>2. QED
      BY <2>1, <3>1 DEF MrType
  <2>3. mr' = [mr EXCEPT ![m] = y]
    BY <1>1, <1>2 DEF LockMr, TypeOK
  <2> HIDE DEF y
  <2>4. QED
    BY <1>2, <2>2, <2>3 DEF TypeOK, MrType
<1>9. TypeOK'
  <2>1. last_alloc' \in MrIds
    BY <1>1, <1>2 DEF LockMr, TypeOK
  <2>2. QED
    BY <1>2, <1>7, <1>8, <2>1 DEF TypeOK, ThreadType, MrType
<1>10. Books'
  BY <1>2, <1>8, BooksSame DEF SameBits, IInv
<1>11. EvictOK(th[t])' /\ DropOK(th[t])' /\ DupOK(th[t])'
  BY <1>2, <1>6 DEF EvictOK, DropOK, DupOK, Plain, Has, Evicting, Duplicating
<1>12. QED
  BY <1>2, <1>4, <1>5, <1>6, <1>9, <1>10, <1>11, PageStep DEF Duplicating

(* A thread unlocks its region without a slot of it.                       *)
LEMMA LeavesRegion ==
    ASSUME IInv, NEW t \in Threads, th[t].pc = "hold", NEW m \in MrIds, m = th[t].held,
           UNCHANGED <<config, num_alloc, rp, cow, reading, st>>, last_alloc' \in MrIds,
           mr' = [mr EXCEPT ![m].locked = FALSE],
           ~same_mr \/ th[t].i = Subblocks + 1,
           th' \in [Threads -> ThreadType], \A u \in Threads \ {t} : th'[u] = th[u],
           \/ th'[t].pc = "scan" /\ ~same_mr
           \/ th'[t].pc = "post" /\ th[t].i = Subblocks + 1,
           th'[t].blk = th[t].blk, th'[t].new = th[t].new, th'[t].i = th[t].i, th'[t].held = NoMr
    PROVE  IInv'
<1>1. TypeOK /\ Regions /\ EvictOK(th[t])
  BY InHand DEF IInv
<1>2. Regions'
  BY <1>1, LeaveRegion
<1>3. /\ mr' \in [MrIds -> MrType] /\ \A k \in MrIds : mr'[k].bits = mr[k].bits
  <2>1. mr \in [MrIds -> MrType]
    BY <1>1 DEF TypeOK, MrType
  <2>2. [mr[m] EXCEPT !.locked = FALSE] \in MrType /\ [mr[m] EXCEPT !.locked = FALSE].bits = mr[m].bits
    BY <2>1 DEF MrType
  <2>3. mr' = [mr EXCEPT ![m] = [mr[m] EXCEPT !.locked = FALSE]]
    BY <2>1
  <2>4. QED
    BY <2>1, <2>2, <2>3
<1>4. TypeOK'
  BY <1>1, <1>3 DEF TypeOK, ThreadType, MrType
<1>5. Books'
  BY <1>3, BooksSame DEF SameBits, IInv
<1>6. \A i \in Subs : i < Subblocks + 1
  BY Sizes
<1>7. EvictOK(th[t])' /\ DropOK(th[t])' /\ DupOK(th[t])'
  BY <1>1, <1>6 DEF EvictOK, DropOK, DupOK, Plain, Has, Evicting, Duplicating
<1>8. QED
  BY <1>2, <1>4, <1>5, <1>7, PageStep DEF Duplicating

LEMMA HeldRegion ==
    ASSUME IInv, NEW t \in Threads, th[t].pc = "hold"
    PROVE  th[t].held \in MrIds /\ th[t] \in ThreadType /\ TypeOK
BY DEF IInv, Regions, LocksKept, TypeOK, ThreadType

LEMMA RegionFullKeeps ==
    ASSUME IInv, NEW t \in Threads, RegionFull(t)
    PROVE  IInv'
<1>0. th[t].pc = "hold"
  BY DEF RegionFull, At
<1>1. PICK m \in MrIds : m = th[t].held
  BY <1>0, HeldRegion
<1>2. /\ UNCHANGED <<config, num_alloc, rp, cow, st, reading, last_alloc>> /\ ~same_mr
      /\ th[t] \in ThreadType /\ TypeOK /\ mr' = [mr EXCEPT ![m].locked = FALSE]
  BY <1>0, <1>1, HeldRegion DEF RegionFull, same_mr
<1>3. (m + 1) % Mrs \in MrIds
  BY NextRegion
<1>4. /\ \A u \in Threads \ {t} : th'[u] = th[u]
      /\ th'[t] = [th[t] EXCEPT !.pc = "scan", !.held = NoMr, !.mrid = (m + 1) % Mrs,
                                !.first = th[t].first]
  BY <1>1, <1>2 DEF RegionFull, Rescan, TypeOK
<1>5. /\ th'[t].pc = "scan" /\ th'[t].blk = th[t].blk /\ th'[t].new = th[t].new
      /\ th'[t].i = th[t].i /\ th'[t].held = NoMr /\ th'[t] \in ThreadType
  BY <1>2, <1>3, <1>4 DEF ThreadType
<1>6. th' \in [Threads -> ThreadType]
  <2>1. th' = [th EXCEPT ![t] = th'[t]]
    BY <1>2 DEF RegionFull, TypeOK
  <2>2. QED
    BY <1>2, <1>5, <2>1 DEF TypeOK, ThreadType
<1>7. last_alloc' \in MrIds
  BY <1>2 DEF TypeOK
<1>8. QED
  BY <1>0, <1>1, <1>2, <1>4, <1>5, <1>6, <1>7, LeavesRegion

LEMMA FinishAllocKeeps ==
    ASSUME IInv, NEW t \in Threads, FinishAlloc(t)
    PROVE  IInv'
<1>0. th[t].pc = "hold" /\ th[t].i = Subblocks + 1
  BY DEF FinishAlloc, AtEnd
<1>1. PICK m \in MrIds : m = th[t].held
  BY <1>0, HeldRegion
<1>2. /\ UNCHANGED <<config, num_alloc, rp, cow, st, reading>>
      /\ th[t] \in ThreadType /\ TypeOK /\ mr' = [mr EXCEPT ![m].locked = FALSE]
  BY <1>0, <1>1, HeldRegion DEF FinishAlloc
<1>3. /\ \A u \in Threads \ {t} : th'[u] = th[u]
      /\ th'[t] = [th[t] EXCEPT !.pc = "post", !.held = NoMr]
  BY <1>2 DEF FinishAlloc, TypeOK
<1>4. /\ th'[t].pc = "post" /\ th'[t].blk = th[t].blk /\ th'[t].new = th[t].new
      /\ th'[t].i = th[t].i /\ th'[t].held = NoMr /\ th'[t] \in ThreadType
  BY <1>2, <1>3 DEF ThreadType
<1>5. th' \in [Threads -> ThreadType]
  <2>1. th' = [th EXCEPT ![t] = th'[t]]
    BY <1>2 DEF FinishAlloc, TypeOK
  <2>2. QED
    BY <1>2, <1>4, <2>1 DEF TypeOK, ThreadType
<1>6. last_alloc' \in MrIds
  BY <1>1, <1>2 DEF FinishAlloc, TypeOK
<1>7. QED
  BY <1>0, <1>1, <1>2, <1>3, <1>4, <1>5, <1>6, LeavesRegion

LEMMA RegionsType ==
    ASSUME TypeOK
    PROVE  mr \in [MrIds -> MrType] /\ th \in [Threads -> ThreadType]
BY DEF TypeOK, MrType, ThreadType

(* One page of a block changes.                                            *)
LEMMA PageSet ==
    ASSUME TypeOK, NEW b \in Blocks, NEW i \in Subs, NEW r \in RemotePage, SetRp(b, i, r),
           cow' \in [Cows -> [refcnt : Nat, val : {Free} \cup Slots]]
    PROVE  /\ Changed(b, i, r) /\ rp' \in [Blocks -> [Subs -> RemotePage]]
           /\ rp'[b] = [rp[b] EXCEPT ![i] = r] /\ \A a \in Blocks \ {b} : rp'[a] = rp[a]
           /\ rp'[b][i] = r /\ \A j \in Subs \ {i} : rp'[b][j] = rp[b][j]
<1>1. rp \in [Blocks -> [Subs -> RemotePage]] /\ rp' = [rp EXCEPT ![b] = [rp[b] EXCEPT ![i] = r]]
  BY DEF TypeOK, SetRp
<1>2. [rp[b] EXCEPT ![i] = r] \in [Subs -> RemotePage]
  BY <1>1
<1>3. /\ rp' \in [Blocks -> [Subs -> RemotePage]]
      /\ rp'[b] = [rp[b] EXCEPT ![i] = r] /\ \A a \in Blocks \ {b} : rp'[a] = rp[a]
  BY <1>1, <1>2
<1>4. rp'[b][i] = r /\ \A j \in Subs \ {i} : rp'[b][j] = rp[b][j]
  BY <1>1, <1>3
<1>5. \A a \in Blocks, j \in Subs : rp'[a][j] = IF a = b /\ j = i THEN r ELSE rp[a][j]
  BY <1>3, <1>4
<1>6. QED
  BY <1>3, <1>4, <1>5 DEF Changed, PageTypes

(* The pages of the blocks that other threads have in hand are elsewhere.  *)
LEMMA OthersPages ==
    ASSUME IInv, NEW t \in Threads, NEW B, B = BlocksOf(th[t]),
           \A a \in Blocks \ B, i \in Subs : rp'[a][i] = rp[a][i]
    PROVE  \A u \in Threads \ {t} : th[u].pc = "hold" =>
             \A i \in Subs : rp'[th[u].blk][i] = rp[th[u].blk][i]
<1>1. ASSUME NEW u \in Threads \ {t}, th[u].pc = "hold"
      PROVE  \A i \in Subs : rp'[th[u].blk][i] = rp[th[u].blk][i]
  <2>1. th[u].blk \in Blocks /\ th[u].blk \in BlocksOf(th[u])
    BY <1>1, InHand
  <2>2. th[u].blk \notin BlocksOf(th[t])
    BY <2>1 DEF IInv, BlocksKept
  <2>3. QED
    BY <2>1, <2>2
<1>2. QED
  BY <1>1

LEMMA FillSubblockKeeps ==
    ASSUME IInv, NEW t \in Threads, FillSubblock(t)
    PROVE  IInv'
<1>0. th[t].pc = "hold" /\ th[t].i \in Subs /\ th[t].pc # "idle"
  BY DEF FillSubblock, At
<1>1. PICK b \in Blocks : b = th[t].blk
  BY <1>0, InHand
<1>2. PICK i \in Subs : i = th[t].i
  BY <1>0
<1>3. PICK m \in MrIds : m = th[t].held
  BY <1>0, HeldRegion
<1>4. PICK o : o = find_slot(m)
  OBVIOUS
<1>5. Fills(t, b, i, m, o) /\ TypeOK /\ Regions /\ Books /\ PageTypes
  BY <1>1, <1>2, <1>3, <1>4, Pages DEF Fills, IInv
<1>6. /\ UNCHANGED <<config, last_alloc, num_alloc, cow, st, reading>>
      /\ th[t] \in ThreadType /\ EvictOK(th[t]) /\ BlocksOf(th[t]) = {b}
      /\ cow \in [Cows -> [refcnt : Nat, val : {Free} \cup Slots]]
  <2>1. UNCHANGED <<config, last_alloc, num_alloc, cow, st, reading>>
    BY DEF FillSubblock
  <2>2. th[t] \in ThreadType /\ EvictOK(th[t]) /\ BlocksOf(th[t]) = {b}
    BY <1>0, <1>1, InHand DEF Duplicating
  <2>3. QED
    BY <1>5, <2>1, <2>2 DEF PageTypes
<1>7. /\ rp[b][i] = Free => o \in mr[m].bits /\ o \in Offsets(m) /\ SetRp(b, i, Slot(m, o))
      /\ rp[b][i] # Free => rp' = rp
  <2>1. rp[b][i] = Free => o \in mr[m].bits /\ o \in Offsets(m)
    BY <1>5, FilledFree
  <2>2. QED
    <3>1. /\ rp[b][i] = Free => rp' = [rp EXCEPT ![b][i] = Slot(m, o)]
          /\ rp[b][i] # Free => rp' = rp
      BY <1>1, <1>2, <1>3, <1>4 DEF FillSubblock, is_free
    <3>2. QED
      BY <2>1, <3>1 DEF SetRp
<1>8. /\ rp' \in [Blocks -> [Subs -> RemotePage]] /\ \A a \in Blocks \ {b} : rp'[a] = rp[a]
      /\ rp'[b] = IF rp[b][i] = Free THEN [rp[b] EXCEPT ![i] = Slot(m, o)] ELSE rp[b]
      /\ rp[b][i] = Free => rp'[b][i] = Slot(m, o) /\ Changed(b, i, Slot(m, o))
      /\ \A j \in Subs \ {i} : rp'[b][j] = rp[b][j]
      /\ rp[b][i] # Free => rp'[b][i] = rp[b][i]
  <2>1. CASE rp[b][i] = Free
    <3>1. Slot(m, o) \in RemotePage
      BY <1>7, <2>1, SlotsAre DEF RemotePage
    <3>2. QED
      BY <1>5, <1>6, <1>7, <2>1, <3>1, PageSet
  <2>2. CASE rp[b][i] # Free
    BY <1>5, <1>7, <2>2 DEF PageTypes
  <2>3. QED
    BY <2>1, <2>2
<1>9. Books' /\ mr' \in [MrIds -> MrType]
  <2>1. CASE rp[b][i] = Free
    <3>1. /\ mr' \in [MrIds -> MrType]
          /\ mr'[m].bits = mr[m].bits \ {o} /\ \A k \in MrIds \ {m} : mr'[k] = mr[k]
      BY <1>5, <2>1, FilledFree
    <3>2. \A k \in MrIds : mr'[k].bits = IF k = m THEN mr[k].bits \ {o} ELSE mr[k].bits
      BY <3>1
    <3>3. Books'
      BY ZenonT(60), <1>5, <1>6, <1>7, <1>8, <2>1, <3>2, Take
    <3>4. QED
      BY <3>1, <3>3
  <2>2. CASE rp[b][i] # Free
    <3>1. /\ mr' \in [MrIds -> MrType]
          /\ mr'[m].bits = mr[m].bits /\ \A k \in MrIds \ {m} : mr'[k] = mr[k]
      BY <1>5, <2>2, FilledHeld
    <3>2. SameBits
      BY <3>1 DEF SameBits
    <3>3. Books'
      BY <1>5, <1>6, <1>7, <2>2, <3>2, BooksSame
    <3>4. QED
      BY <3>1, <3>3
  <2>3. QED
    BY <2>1, <2>2
<1>10. \A u \in Threads \ {t} : th[u].pc = "hold" =>
         \A j \in Subs : rp'[th[u].blk][j] = rp[th[u].blk][j]
  BY <1>6, <1>8, OthersPages
<1>11. Regions'
  BY <1>5, <1>8, <1>10, FillRegion
<1>12. /\ \A u \in Threads \ {t} : th'[u] = th[u]
       /\ th' \in [Threads -> ThreadType]
       /\ th'[t].i = i + 1 /\ th'[t].blk = b /\ th'[t].new = th[t].new
       /\ th'[t].pc \in {"scan", "hold"}
  <2> DEFINE x == IF ToNextMr(th[t]) THEN Rescan(th[t]) ELSE th[t]
  <2>1. th' = [th EXCEPT ![t] = [x EXCEPT !.i = th[t].i + 1]]
    BY DEF FillSubblock
  <2>2. i + 1 \in 1 .. Subblocks + 1
    BY Sizes
  <2>3. (m + 1) % Mrs \in MrIds
    BY NextRegion
  <2>4. /\ x \in ThreadType /\ x.blk = b /\ x.new = th[t].new /\ x.pc \in {"scan", "hold"}
    <3>1. CASE ToNextMr(th[t])
      BY <1>1, <1>3, <1>6, <2>3, <3>1 DEF Rescan, ThreadType
    <3>2. CASE ~ToNextMr(th[t])
      BY <1>0, <1>1, <1>6, <3>2
    <3>3. QED
      BY <3>1, <3>2
  <2> HIDE DEF x
  <2>5. [x EXCEPT !.i = i + 1] \in ThreadType
    BY <2>2, <2>4 DEF ThreadType
  <2>6. th' = [th EXCEPT ![t] = [x EXCEPT !.i = i + 1]] /\ th \in [Threads -> ThreadType]
    BY <1>2, <1>5, <2>1, RegionsType
  <2>7. QED
    BY <2>4, <2>5, <2>6 DEF ThreadType
<1>13. TypeOK'
  <2>1. \A k \in MrIds : mr'[k].bits \subseteq Offsets(k)
    <3>1. mr'[m].bits \subseteq mr[m].bits
      BY <1>5, FilledFree, FilledHeld
    <3>2. \A k \in MrIds \ {m} : mr'[k].bits = mr[k].bits
      BY <1>5, FilledFree, FilledHeld
    <3>3. QED
      BY <1>5, <3>1, <3>2 DEF TypeOK
  <2>2. QED
    BY <1>5, <1>6, <1>8, <1>9, <1>12, <2>1 DEF TypeOK, ThreadType, MrType
<1>14. EvictOK(th[t])' /\ DropOK(th[t])' /\ DupOK(th[t])'
  <2>1. \A j \in Subs : Plain(b, j) /\ (j < i => Has(b, j)) /\ (~(j < i) => config.reuse \/ rp[b][j] = Free)
    BY <1>0, <1>1, <1>2, <1>6 DEF EvictOK, Evicting
  <2>2. \A j \in Subs : Plain(b, j)' /\ (j \in Subs /\ j # i => rp'[b][j] = rp[b][j])
    BY <1>8, <2>1, Kinds DEF Plain
  <2>3. Has(b, i)'
    BY <1>8, Kinds DEF Has
  <2>4. \A j \in Subs : j < i + 1 <=> j < i \/ j = i
    BY Sizes
  <2>5. \A j \in Subs : IF j < i + 1 THEN Has(b, j)' ELSE config.reuse \/ rp'[b][j] = Free
    BY <2>1, <2>2, <2>3, <2>4 DEF Has
  <2>6. st[b] = "resident"
    BY <1>0, <1>1, <1>6 DEF EvictOK, Evicting
  <2>7. EvictOK(th[t])'
    BY <1>6, <1>12, <2>2, <2>5, <2>6 DEF EvictOK, Plain, Has
  <2>8. QED
    BY <1>12, <2>7 DEF DropOK, DupOK, Duplicating
<1>15. \A c \in Cows : rp'[b][i] = Cow(c) => rp[b][i] = Cow(c)
  BY <1>8, Kinds
<1>16. QED
  BY <1>0, <1>1, <1>6, <1>8, <1>9, <1>11, <1>12, <1>13, <1>14, <1>15, PageStep DEF Duplicating

------------------------------------------------------------------------------
(***************************************************************************)
(* Steps that give up remote pages.                                        *)
(***************************************************************************)
LEMMA Advanced ==
    ASSUME TypeOK, NEW t \in Threads, NEW i \in Subs, i = th[t].i, Advance(t)
    PROVE  /\ th' \in [Threads -> ThreadType] /\ \A u \in Threads \ {t} : th'[u] = th[u]
           /\ th'[t].i = i + 1 /\ th'[t].pc = th[t].pc /\ th'[t].blk = th[t].blk
           /\ th'[t].new = th[t].new /\ th'[t].held = th[t].held
           /\ \A j \in Subs : j < i + 1 <=> j < i \/ j = i
<1>1. th \in [Threads -> ThreadType] /\ i + 1 \in 1 .. Subblocks + 1
  BY Sizes, RegionsType
<1>2. th' = [th EXCEPT ![t] = [th[t] EXCEPT !.i = i + 1]]
  BY <1>1 DEF Advance
<1>3. [th[t] EXCEPT !.i = i + 1] \in ThreadType
  BY <1>1 DEF ThreadType
<1>4. \A j \in Subs : j < i + 1 <=> j < i \/ j = i
  BY Sizes
<1>5. QED
  BY <1>1, <1>2, <1>3, <1>4 DEF ThreadType

(* Regions get slots back that nobody uses, while nobody has them locked.  *)
GivesSlots ==
    \A m \in MrIds :
        \/ mr'[m] = mr[m]
        \/ \E o \in Offsets(m) : ~mr[m].locked /\ o \notin mr[m].bits /\ mr'[m] = give_slot(mr[m], o)

RegionsOK == mr \in [MrIds -> MrType] /\ \A m \in MrIds : mr[m].bits \subseteq Offsets(m)

LEMMA Release ==
    ASSUME TypeOK, NEW s \in Slots, CanRelease(s), remote_page_release(s)
    PROVE  /\ RegionsOK'
           /\ ~mr[s.mr].locked /\ mr'[s.mr] = give_slot(mr[s.mr], s.off)
           /\ \A k \in MrIds \ {s.mr} : mr'[k] = mr[k]
           /\ \A k \in MrIds : mr'[k].bits = IF k = s.mr THEN mr[k].bits \cup {s.off} ELSE mr[k].bits
<1>1. s.mr \in MrIds /\ s.off \in Offsets(s.mr)
  BY OfSlot
<1>2. /\ mr \in [MrIds -> MrType] /\ \A m \in MrIds : mr[m].bits \subseteq Offsets(m)
  BY RegionsType DEF TypeOK
<1>3. mr' = [mr EXCEPT ![s.mr] = give_slot(mr[s.mr], s.off)]
  BY DEF remote_page_release
<1>4. give_slot(mr[s.mr], s.off) \in MrType
  <2>1. s.off \in Nat
    BY <1>1, Sizes DEF Offsets
  <2> DEFINE x == mr[s.mr]
             o == s.off
             start == IF o < x.free_start THEN o ELSE x.free_start
             len == x.alloc_len - 1
  <2>2. x \in MrType
    BY <1>1, <1>2
  <2>3. start \in Nat /\ len \in Int /\ x.bits \cup {o} \in SUBSET Nat
    BY <2>1, <2>2 DEF MrType
  <2>4. give_slot(x, o) = [x EXCEPT !.alloc_len = len, !.bits = x.bits \cup {o}, !.free_start = start]
    BY DEF give_slot
  <2> HIDE DEF start, len
  <2>5. [x EXCEPT !.alloc_len = len, !.bits = x.bits \cup {o}, !.free_start = start] \in MrType
    BY <2>2, <2>3 DEF MrType
  <2>6. QED
    BY <2>4, <2>5
<1>5. give_slot(mr[s.mr], s.off).bits = mr[s.mr].bits \cup {s.off}
  BY <1>1, <1>2, Returned
<1>6. /\ mr' \in [MrIds -> MrType] /\ mr'[s.mr] = give_slot(mr[s.mr], s.off)
      /\ \A k \in MrIds \ {s.mr} : mr'[k] = mr[k]
  BY <1>1, <1>2, <1>3, <1>4
<1>7. \A m \in MrIds : mr'[m].bits \subseteq Offsets(m)
  BY <1>1, <1>2, <1>5, <1>6
<1>8. QED
  BY <1>1, <1>5, <1>6, <1>7 DEF RegionsOK, CanRelease

LEMMA CowPut ==
    ASSUME TypeOK, Books, NEW c \in Cows, put_cow(Cow(c)), cow[c].refcnt > 0
    PROVE  /\ cow' \in [Cows -> [refcnt : Nat, val : {Free} \cup Slots]]
           /\ cow[c].refcnt = 1 => OneCow(c, Unused)
           /\ cow[c].refcnt # 1 => OneCow(c, [cow[c] EXCEPT !.refcnt = @ - 1])
<1>1. cow \in [Cows -> [refcnt : Nat, val : {Free} \cup Slots]]
  BY DEF TypeOK
<1>2. cow' = [cow EXCEPT ![c] = IF cow[c].refcnt = 1 THEN Unused
                                ELSE [cow[c] EXCEPT !.refcnt = @ - 1]]
  BY Kinds DEF put_cow
<1>3. Unused \in [refcnt : Nat, val : {Free} \cup Slots]
  BY DEF Unused
<1>4. cow[c].refcnt # 1 => [cow[c] EXCEPT !.refcnt = @ - 1] \in [refcnt : Nat, val : {Free} \cup Slots]
  BY <1>1
<1>5. QED
  BY <1>1, <1>2, <1>3, <1>4 DEF OneCow

(* A subblock drops its page.                                              *)
Dropped(b, i) ==
    /\ PageTypes' /\ RegionsOK' /\ Books' /\ GivesSlots
    /\ Changed(b, i, Free)

LEMMA DropPage ==
    ASSUME IInv, NEW b \in Blocks, NEW i \in Subs, NEW r, r = rp[b][i], r # Free,
           put_cow(r), SetRp(b, i, Free),
           IF LastRef(r) THEN CanRelease(Behind(r)) /\ remote_page_release(Behind(r)) ELSE mr' = mr
    PROVE  Dropped(b, i)
<1>1. TypeOK /\ Books /\ PageTypes /\ r \in RemotePage /\ Free \in RemotePage
  BY Pages DEF IInv, RemotePage
<1>2. CASE ~is_cow(r)
  <2>1. r \in Slots /\ cow' = cow /\ Behind(r) = r /\ LastRef(r)
    BY <1>1, <1>2, OfPage DEF put_cow, Behind, LastRef
  <2>2. cow' \in [Cows -> [refcnt : Nat, val : {Free} \cup Slots]]
    BY <1>1, <2>1 DEF TypeOK
  <2>3. Changed(b, i, Free) /\ PageTypes'
    BY ZenonT(60), <1>1, <2>2, PageSet DEF Changed
  <2>4. PICK m \in MrIds : m = r.mr
    BY <2>1, OfSlot
  <2>5. PICK o \in Offsets(m) : o = r.off
    BY <2>1, <2>4, OfSlot
  <2>6. rp[b][i] = Slot(m, o)
    BY <2>1, <2>4, <2>5, OfSlot
  <2>7. /\ RegionsOK' /\ ~mr[m].locked /\ mr'[m] = give_slot(mr[m], o)
        /\ \A k \in MrIds \ {m} : mr'[k] = mr[k]
        /\ \A k \in MrIds : mr'[k].bits = IF k = m THEN mr[k].bits \cup {o} ELSE mr[k].bits
    BY <1>1, <2>1, <2>4, <2>5, Release
  <2>8. Books' /\ o \notin mr[m].bits
    BY <1>1, <2>1, <2>3, <2>6, <2>7, Give
  <2>9. QED
    BY <2>3, <2>7, <2>8 DEF Dropped, GivesSlots
<1>3. CASE is_cow(r)
  <2>1. PICK c \in Cows : r = Cow(c)
    BY <1>1, <1>3, OfPage
  <2>2. /\ r.id = c /\ Behind(r) = cow[c].val /\ (LastRef(r) <=> cow[c].refcnt = 1)
        /\ cow[c].refcnt > 0 /\ cow[c].val \in Slots
    <3>1. cow[c].refcnt > 0 /\ cow[c].val \in Slots
      BY <1>1, <2>1, PointedAt DEF Books
    <3>2. QED
      BY <1>3, <2>1, <3>1, Kinds DEF Behind, LastRef
  <2>3. /\ cow' \in [Cows -> [refcnt : Nat, val : {Free} \cup Slots]]
        /\ cow[c].refcnt = 1 => OneCow(c, Unused)
        /\ cow[c].refcnt # 1 => OneCow(c, [cow[c] EXCEPT !.refcnt = @ - 1])
    BY <1>1, <2>1, <2>2, CowPut
  <2>4. Changed(b, i, Free) /\ PageTypes'
    BY ZenonT(60), <1>1, <2>3, PageSet DEF Changed
  <2>5. CASE cow[c].refcnt = 1
    <3>1. PICK m \in MrIds : m = cow[c].val.mr
      BY <2>2, OfSlot
    <3>2. PICK o \in Offsets(m) : o = cow[c].val.off
      BY <2>2, <3>1, OfSlot
    <3>3. cow[c].val = Slot(m, o)
      BY <2>2, <3>1, <3>2, OfSlot
    <3>4. PICK s \in Slots : s = cow[c].val
      BY <2>2
    <3>5. CanRelease(s) /\ remote_page_release(s)
      BY <2>2, <2>5, <3>4
    <3>6. /\ RegionsOK' /\ ~mr[m].locked /\ mr'[m] = give_slot(mr[m], o)
          /\ \A k \in MrIds \ {m} : mr'[k] = mr[k]
          /\ \A k \in MrIds : mr'[k].bits = IF k = m THEN mr[k].bits \cup {o} ELSE mr[k].bits
      BY <1>1, <3>1, <3>2, <3>4, <3>5, Release
    <3>7. Books' /\ o \notin mr[m].bits
      <4>1. /\ rp[b][i] = Cow(c) /\ OneCow(c, Unused)
            /\ \A k \in MrIds : mr'[k].bits = IF k = m THEN mr[k].bits \cup {o} ELSE mr[k].bits
        BY <2>1, <2>3, <2>5, <3>6
      <4>2. QED
        BY <1>1, <2>4, <2>5, <3>3, <4>1, LastGives
    <3>8. QED
      BY <2>4, <3>6, <3>7 DEF Dropped, GivesSlots
  <2>6. CASE cow[c].refcnt # 1
    <3>1. mr' = mr
      BY <2>2, <2>6
    <3>2. SameBits /\ GivesSlots
      BY <3>1 DEF SameBits, GivesSlots
    <3>3. RegionsOK'
      BY <1>1, <3>1, RegionsType DEF RegionsOK, TypeOK
    <3>4. Books'
      BY <1>1, <2>1, <2>3, <2>4, <2>6, <3>2, Drop
    <3>5. QED
      BY <2>4, <3>2, <3>3, <3>4 DEF Dropped
  <2>7. QED
    BY <2>5, <2>6
<1>4. QED
  BY <1>2, <1>3

LEMMA ThreadDrops ==
    ASSUME IInv, NEW t \in Threads, NEW b \in Blocks, b = th[t].blk, NEW i \in Subs, i = th[t].i,
           th[t].pc \in {"undo", "drop", "destroy"}, Advance(t),
           UNCHANGED <<config, last_alloc, num_alloc, st, reading>>,
           \/ Dropped(b, i)
           \/ UNCHANGED <<mr, rp, cow>> /\ (rp[b][i] = Free \/ (config.reuse /\ th[t].pc # "destroy"))
    PROVE  IInv'
<1>1. /\ TypeOK /\ Regions /\ Books /\ PageTypes /\ BlocksOf(th[t]) = {b}
      /\ EvictOK(th[t]) /\ DropOK(th[t]) /\ th[t].held = NoMr
  BY InHand, Pages DEF IInv, Duplicating
<1>2. /\ th' \in [Threads -> ThreadType] /\ \A u \in Threads \ {t} : th'[u] = th[u]
      /\ th'[t].i = i + 1 /\ th'[t].pc = th[t].pc /\ th'[t].blk = b
      /\ th'[t].new = th[t].new /\ th'[t].held = NoMr
      /\ \A j \in Subs : j < i + 1 <=> j < i \/ j = i
  BY <1>1, Advanced
<1>3. /\ PageTypes' /\ RegionsOK' /\ Books' /\ GivesSlots
      /\ \A a \in Blocks, j \in Subs : (a # b \/ j # i) => rp'[a][j] = rp[a][j]
      /\ rp'[b][i] = Free \/ (rp'[b][i] = rp[b][i] /\ config.reuse /\ th[t].pc # "destroy")
  <2>1. CASE Dropped(b, i)
    BY <2>1 DEF Dropped, Changed
  <2>2. CASE UNCHANGED <<mr, rp, cow>> /\ (rp[b][i] = Free \/ (config.reuse /\ th[t].pc # "destroy"))
    <3>1. Books'
      BY <1>1, <2>2, BooksSame DEF SameBits
    <3>2. RegionsOK'
      BY <1>1, <2>2, RegionsType DEF RegionsOK, TypeOK
    <3>3. PageTypes' /\ GivesSlots
      BY <1>1, <2>2 DEF PageTypes, GivesSlots
    <3>4. QED
      BY <2>2, <3>1, <3>2, <3>3
  <2>3. QED
    BY <2>1, <2>2
<1>4. TypeOK'
  BY <1>1, <1>2, <1>3 DEF TypeOK, PageTypes, RegionsOK, ThreadType, MrType
<1>5. Regions'
  <2>1. \A u \in Threads \ {t} : th[u].pc = "hold" =>
          \A j \in Subs : rp'[th[u].blk][j] = rp[th[u].blk][j]
    BY <1>1, <1>3, OthersPages
  <2>2. \A u \in Threads :
             \/ th'[u] = th[u]
                  /\ (th[u].pc = "hold" => \A j \in Subs : rp'[th[u].blk][j] = rp[th[u].blk][j])
             \/ th[u].held = NoMr /\ th'[u].held = NoMr /\ th'[u].pc # "hold"
                  /\ (same_mr /\ th'[u].pc = "scan" => th'[u].i = 1)
    BY <1>1, <1>2, <2>1
  <2>3. \A m \in MrIds :
             \/ mr'[m] = mr[m]
             \/ \E o \in Offsets(m) : /\ ~mr[m].locked /\ o \notin mr[m].bits
                                      /\ mr'[m] = give_slot(mr[m], o)
    BY <1>3 DEF GivesSlots
  <2>4. QED
    BY <1>1, <2>2, <2>3, RegionsQuiet
<1>6. \A j \in Subs : (Plain(b, j) => Plain(b, j)') /\ (rp[b][j] = Free => rp'[b][j] = Free)
  BY <1>3, Kinds DEF Plain
<1>7. EvictOK(th[t])'
  <2>1. SUFFICES ASSUME th[t].pc = "undo" PROVE EvictOK(th[t])'
    BY <1>2 DEF EvictOK, Evicting
  <2>2. /\ st[b] = "resident" /\ \A j \in Subs : Plain(b, j)
        /\ \A j \in Subs : j < i => config.reuse \/ rp[b][j] = Free
    BY <1>1, <2>1 DEF EvictOK, Evicting
  <2>3. \A j \in Subs : j < i + 1 => config.reuse \/ rp'[b][j] = Free
    BY <1>2, <1>3, <1>6, <2>2
  <2>4. QED
    BY <1>2, <1>6, <2>1, <2>2, <2>3 DEF EvictOK, Plain
<1>8. DropOK(th[t])'
  <2>1. CASE th[t].pc = "drop"
    <3>1. /\ st[b] \in {"resident", "writeback"} /\ \A j \in Subs : Plain(b, j)
          /\ \A j \in Subs : j < i => config.reuse \/ rp[b][j] = Free
      BY <1>1, <2>1 DEF DropOK
    <3>2. \A j \in Subs : j < i + 1 => config.reuse \/ rp'[b][j] = Free
      BY <1>2, <1>3, <1>6, <3>1
    <3>3. QED
      BY <1>2, <1>6, <2>1, <3>1, <3>2 DEF DropOK, Plain
  <2>2. CASE th[t].pc = "destroy"
    <3>1. /\ st[b] # "none" /\ \A j \in Subs : j < i => rp[b][j] = Free
          /\ st[b] \in {"resident", "writeback"} => \A j \in Subs : Plain(b, j)
      BY <1>1, <2>2 DEF DropOK
    <3>2. \A j \in Subs : j < i + 1 => rp'[b][j] = Free
      BY <1>2, <1>3, <1>6, <2>2, <3>1
    <3>3. QED
      BY <1>2, <1>6, <2>2, <3>1, <3>2 DEF DropOK, Plain
  <2>3. CASE th[t].pc = "undo"
    BY <1>2, <2>3 DEF DropOK
  <2>4. QED
    BY <2>1, <2>2, <2>3
<1>9. DupOK(th[t])'
  BY <1>2 DEF DupOK, Duplicating
<1>10. /\ \A a \in Blocks \ BlocksOf(th[t]), j \in Subs : rp'[a][j] = rp[a][j]
       /\ \A a \in BlocksOf(th[t]), j \in Subs : \A c \in Cows : rp'[a][j] = Cow(c) =>
             Pointers(c) = {} \/ \E d \in BlocksOf(th[t]), k \in Subs : rp[d][k] = Cow(c)
  <2>1. \A c \in Cows, j \in Subs : rp'[b][j] = Cow(c) => rp[b][j] = Cow(c)
    BY <1>3, Kinds
  <2>2. QED
    BY <1>1, <1>3, <2>1
<1>11. QED
  BY <1>1, <1>2, <1>3, <1>4, <1>5, <1>7, <1>8, <1>9, <1>10, PageStep DEF Duplicating

(* free_remote_page() and the like on a page that is not shared.           *)
LEMMA DropPlain ==
    ASSUME IInv, NEW b \in Blocks, NEW i \in Subs, NEW r, r = rp[b][i], r # Free, ~is_cow(r),
           cow' = cow, SetRp(b, i, Free), CanRelease(r), remote_page_release(r)
    PROVE  Dropped(b, i)
<1>1. put_cow(r) /\ LastRef(r) /\ Behind(r) = r
  BY DEF put_cow, LastRef, Behind
<1>2. QED
  BY <1>1, DropPage

LEMMA UndoAllocKeeps ==
    ASSUME IInv, NEW t \in Threads, UndoAlloc(t)
    PROVE  IInv'
<1>1. /\ th[t].pc = "undo" /\ th[t].i \in Subs /\ Advance(t)
      /\ UNCHANGED <<config, last_alloc, num_alloc, cow, st, reading>>
  BY DEF UndoAlloc, At
<1>2. PICK b \in Blocks : b = th[t].blk
  BY <1>1, InHand
<1>3. PICK i \in Subs : i = th[t].i
  BY <1>1
<1>4. PICK r : r = rp[b][i]
  OBVIOUS
<1>5. ~is_cow(r)
  BY <1>1, <1>2, <1>4, InHand DEF EvictOK, Evicting, Plain
<1>6. Behind(r) = r
  BY <1>5 DEF Behind
<1>7. CASE r = Free \/ config.reuse
  <2>1. UNCHANGED <<mr, rp>>
    BY <1>2, <1>3, <1>4, <1>7 DEF UndoAlloc, is_free
  <2>2. QED
    BY <1>1, <1>2, <1>3, <1>4, <1>7, <2>1, ThreadDrops
<1>8. CASE ~(r = Free \/ config.reuse)
  <2>1. CanRelease(r) /\ remote_page_release(r) /\ SetRp(b, i, Free)
    BY <1>2, <1>3, <1>4, <1>6, <1>8 DEF UndoAlloc, is_free
  <2>2. Dropped(b, i)
    BY <1>1, <1>4, <1>5, <1>8, <2>1, DropPlain
  <2>3. QED
    BY <1>1, <1>2, <1>3, <2>2, ThreadDrops
<1>9. QED
  BY <1>7, <1>8

LEMMA DropSubblockKeeps ==
    ASSUME IInv, NEW t \in Threads, DropSubblock(t)
    PROVE  IInv'
<1>1. /\ th[t].pc = "drop" /\ th[t].i \in Subs /\ Advance(t)
      /\ UNCHANGED <<config, last_alloc, num_alloc, cow, st, reading>>
  BY DEF DropSubblock, At
<1>2. PICK b \in Blocks : b = th[t].blk
  BY <1>1, InHand
<1>3. PICK i \in Subs : i = th[t].i
  BY <1>1
<1>4. PICK r : r = rp[b][i]
  OBVIOUS
<1>5. ~is_cow(r)
  BY <1>1, <1>2, <1>4, InHand DEF DropOK, Plain
<1>6. CASE r = Free \/ config.reuse
  <2>1. UNCHANGED <<mr, rp>>
    BY <1>2, <1>3, <1>4, <1>6 DEF DropSubblock, free_remote_page, is_free
  <2>2. QED
    BY <1>1, <1>2, <1>3, <1>4, <1>6, <2>1, ThreadDrops
<1>7. CASE ~(r = Free \/ config.reuse)
  <2>1. CanRelease(r) /\ remote_page_release(r) /\ SetRp(b, i, Free)
    BY <1>2, <1>3, <1>4, <1>5, <1>7 DEF DropSubblock, free_remote_page, is_free
  <2>2. Dropped(b, i)
    BY <1>1, <1>4, <1>5, <1>7, <2>1, DropPlain
  <2>3. QED
    BY <1>1, <1>2, <1>3, <2>2, ThreadDrops
<1>8. QED
  BY <1>6, <1>7

LEMMA DestroySubblockKeeps ==
    ASSUME IInv, NEW t \in Threads, DestroySubblock(t)
    PROVE  IInv'
<1>1. /\ th[t].pc = "destroy" /\ th[t].i \in Subs /\ Advance(t)
      /\ UNCHANGED <<config, last_alloc, num_alloc, st, reading>>
  BY DEF DestroySubblock, At
<1>2. PICK b \in Blocks : b = th[t].blk
  BY <1>1, InHand
<1>3. PICK i \in Subs : i = th[t].i
  BY <1>1
<1>4. PICK r : r = rp[b][i]
  OBVIOUS
<1>5. CASE r = Free
  <2>1. UNCHANGED <<mr, rp, cow>>
    BY <1>2, <1>3, <1>4, <1>5 DEF DestroySubblock, is_free
  <2>2. QED
    BY <1>1, <1>2, <1>3, <1>4, <1>5, <2>1, ThreadDrops
<1>6. CASE r # Free
  <2>1. /\ put_cow(r) /\ SetRp(b, i, Free)
        /\ IF LastRef(r) THEN CanRelease(Behind(r)) /\ remote_page_release(Behind(r)) ELSE mr' = mr
    BY <1>2, <1>3, <1>4, <1>6 DEF DestroySubblock, is_free
  <2>2. Dropped(b, i)
    BY <1>4, <1>6, <2>1, DropPage
  <2>3. QED
    BY <1>1, <1>2, <1>3, <2>2, ThreadDrops
<1>7. QED
  BY <1>5, <1>6

------------------------------------------------------------------------------
(***************************************************************************)
(* A read completes and the subblock gives up the page it came from.       *)
(***************************************************************************)
(* What the completion leaves in the regions, the records and the pages.   *)
Completed(b, i) ==
    /\ PageTypes' /\ RegionsOK' /\ Books' /\ GivesSlots
    /\ \A a \in Blocks, j \in Subs : (a # b \/ j # i) => rp'[a][j] = rp[a][j]
    /\ Plain(b, i)'
    /\ config.reuse \/ rp'[b][i] = Free

LEMMA FetchDonePage ==
    ASSUME IInv, NEW b \in Blocks, NEW i \in Subs, rp[b][i] # Free, FetchDone(b, i)
    PROVE  Completed(b, i)
<1>1. TypeOK /\ Books /\ PageTypes /\ rp[b][i] \in RemotePage
  BY Pages DEF IInv
<1>2. PICK r : r = rp[b][i]
  OBVIOUS
<1>3. put_cow(r)
  BY <1>2 DEF FetchDone
<1>4. ASSUME Dropped(b, i) PROVE Completed(b, i)
  <2>1. rp'[b][i] = Free
    BY <1>4 DEF Dropped, Changed
  <2>2. Plain(b, i)'
    BY <2>1, Kinds DEF Plain
  <2>3. QED
    BY <1>4, <2>1, <2>2 DEF Dropped, Changed, Completed
<1>5. CASE ~(LastRef(r) /\ config.reuse)
  <2>1. /\ SetRp(b, i, Free)
        /\ IF LastRef(r) THEN CanRelease(Behind(r)) /\ remote_page_release(Behind(r)) ELSE mr' = mr
    BY <1>2, <1>5 DEF FetchDone
  <2>2. QED
    BY <1>2, <1>3, <1>4, <2>1, DropPage
<1>6. CASE LastRef(r) /\ config.reuse
  <2>1. SetRp(b, i, Behind(r)) /\ mr' = mr
    BY <1>2, <1>6 DEF FetchDone
  <2>2. SameBits /\ GivesSlots /\ RegionsOK'
    BY <1>1, <2>1, RegionsType DEF SameBits, GivesSlots, RegionsOK, TypeOK
  <2>3. CASE ~is_cow(r)
    <3>1. Behind(r) = r /\ cow' = cow
      BY <1>3, <2>3 DEF Behind, put_cow
    <3>2. rp' = rp
      BY <1>1, <1>2, <2>1, <3>1 DEF SetRp, PageTypes
    <3>3. Books'
      BY <1>1, <2>2, <3>1, <3>2, BooksSame
    <3>4. PageTypes' /\ Plain(b, i)'
      BY <1>1, <1>2, <2>3, <3>1, <3>2 DEF PageTypes, Plain
    <3>5. QED
      BY <1>6, <2>2, <3>2, <3>3, <3>4 DEF Completed
  <2>4. CASE is_cow(r)
    <3>1. PICK c \in Cows : r = Cow(c)
      BY <1>1, <1>2, <2>4, OfPage
    <3>2. cow[c].refcnt > 0 /\ cow[c].val \in Slots
      BY <1>1, <1>2, <3>1, PointedAt DEF Books
    <3>3. cow[c].refcnt = 1 /\ Behind(r) = cow[c].val
      BY <1>6, <2>4, <3>1, Kinds DEF LastRef, Behind
    <3>4. OneCow(c, Unused) /\ cow' \in [Cows -> [refcnt : Nat, val : {Free} \cup Slots]]
      BY <1>1, <1>3, <3>1, <3>2, <3>3, CowPut
    <3>5. PICK s \in Slots : s = cow[c].val
      BY <3>2
    <3>6. s \in RemotePage
      BY <3>5 DEF RemotePage
    <3>7. Changed(b, i, s) /\ PageTypes'
      <4>1. SetRp(b, i, s)
        BY <2>1, <3>3, <3>5
      <4>2. Changed(b, i, s)
        BY <1>1, <3>4, <3>6, <4>1, PageSet
      <4>3. QED
        BY <4>2 DEF Changed
    <3>8. Books'
      BY <1>1, <1>2, <2>2, <3>1, <3>3, <3>4, <3>5, <3>7, LastKeeps
    <3>9. Plain(b, i)'
      <4>1. rp'[b][i] = s
        BY <3>7 DEF Changed
      <4>2. QED
        BY <4>1, OfSlot DEF Plain
    <3>10. QED
      BY <1>6, <2>2, <3>7, <3>8, <3>9 DEF Completed, Changed
  <2>5. QED
    BY <2>3, <2>4
<1>7. QED
  BY <1>5, <1>6

LEMMA FetchDoneKeeps ==
    ASSUME IInv, NEW b \in Blocks, NEW i \in Subs, FetchDone(b, i)
    PROVE  IInv'
<1>1. /\ i \in reading[b] /\ ~Locked(b) /\ UNCHANGED <<config, last_alloc, num_alloc, st, th>>
      /\ reading' = [reading EXCEPT ![b] = @ \ {i}]
      /\ TypeOK /\ Regions /\ BlocksKept /\ UnlockedOK(b)
  BY DEF FetchDone, IInv, BlocksKept
<1>2. /\ reading' \in [Blocks -> SUBSET Subs] /\ reading'[b] = reading[b] \ {i}
      /\ \A a \in Blocks \ {b} : reading'[a] = reading[a]
  BY <1>1 DEF TypeOK
<1>3. st[b] = "resident" /\ Resident(b) /\ rp[b][i] # Free
  BY <1>1 DEF UnlockedOK, Resident, Has
<1>4. Completed(b, i)
  BY <1>3, FetchDonePage
<1>5. /\ \A a \in Blocks, j \in Subs : (a # b \/ j # i) => rp'[a][j] = rp[a][j]
      /\ Plain(b, i)' /\ (config.reuse \/ rp'[b][i] = Free)
      /\ PageTypes' /\ RegionsOK' /\ Books' /\ GivesSlots
  BY <1>4 DEF Completed
<1>6. UnlockedOK(b)'
  <2>1. Resident(b)'
    BY <1>1, <1>2, <1>3, <1>5 DEF Resident, Has, Plain
  <2>2. QED
    BY <1>1, <1>3, <2>1 DEF UnlockedOK
<1>7. PICK B \in SUBSET Blocks : B = {b}
  OBVIOUS
<1>8. Untouched(B)
  <2>1. \A j \in Subs : \A c \in Cows : rp'[b][j] = Cow(c) => rp[b][j] = Cow(c)
    BY <1>5, Kinds DEF Plain
  <2>2. QED
    BY <1>1, <1>2, <1>5, <1>7, <2>1 DEF Untouched
<1>9. BlocksKept'
  BY <1>1, <1>6, <1>7, <1>8, BlockStep
<1>10. TypeOK' /\ AllTouched'
  BY <1>1, <1>2, <1>5 DEF IInv, TypeOK, AllTouched, PageTypes, RegionsOK, MrType
<1>11. Regions'
  <2>1. \A u \in Threads : th[u].pc = "hold" => \A j \in Subs : rp'[th[u].blk][j] = rp[th[u].blk][j]
    <3>1. ASSUME NEW u \in Threads, th[u].pc = "hold"
          PROVE  th[u].blk \in Blocks /\ th[u].blk # b
      BY <1>1, <3>1, InHand, LockedIs
    <3>2. QED
      BY <1>5, <3>1
  <2>2. \A m \in MrIds :
             \/ mr'[m] = mr[m]
             \/ \E o \in Offsets(m) : /\ ~mr[m].locked /\ o \notin mr[m].bits
                                      /\ mr'[m] = give_slot(mr[m], o)
    BY <1>5 DEF GivesSlots
  <2>3. QED
    BY <1>1, <2>1, <2>2, RegionsQuiet
<1>12. QED
  BY <1>5, <1>9, <1>10, <1>11 DEF IInv

------------------------------------------------------------------------------
(***************************************************************************)
(* A fork shares the pages of a block one by one, and puts them back when  *)
(* a record is missing.                                                    *)
(***************************************************************************)
LEMMA PagePair ==
    ASSUME TypeOK, NEW a \in Blocks, NEW b \in Blocks, a # b, NEW i \in Subs,
           NEW r \in RemotePage, NEW q \in RemotePage,
           rp' = [rp EXCEPT ![a][i] = r, ![b][i] = q],
           cow' \in [Cows -> [refcnt : Nat, val : {Free} \cup Slots]]
    PROVE  Changed2(a, b, i, r, q) /\ rp' \in [Blocks -> [Subs -> RemotePage]]
<1>1. rp \in [Blocks -> [Subs -> RemotePage]]
  BY DEF TypeOK
<1>2. rp' = [rp EXCEPT ![a] = [rp[a] EXCEPT ![i] = r], ![b] = [rp[b] EXCEPT ![i] = q]]
  BY <1>1
<1>3. [rp[a] EXCEPT ![i] = r] \in [Subs -> RemotePage] /\ [rp[b] EXCEPT ![i] = q] \in [Subs -> RemotePage]
  BY <1>1
<1>4. /\ rp' \in [Blocks -> [Subs -> RemotePage]]
      /\ rp'[a] = [rp[a] EXCEPT ![i] = r] /\ rp'[b] = [rp[b] EXCEPT ![i] = q]
      /\ \A d \in Blocks \ {a, b} : rp'[d] = rp[d]
  BY <1>1, <1>2, <1>3
<1>5. \A d \in Blocks, j \in Subs :
        rp'[d][j] = IF d = a /\ j = i THEN r ELSE IF d = b /\ j = i THEN q ELSE rp[d][j]
  BY <1>1, <1>4
<1>6. QED
  BY <1>4, <1>5 DEF Changed2, PageTypes

(* One record gets another value.                                          *)
LEMMA CowSet ==
    ASSUME TypeOK, NEW c \in Cows, NEW x \in [refcnt : Nat, val : {Free} \cup Slots],
           cow' = [cow EXCEPT ![c] = x]
    PROVE  OneCow(c, x) /\ cow' \in [Cows -> [refcnt : Nat, val : {Free} \cup Slots]]
BY DEF TypeOK, OneCow

(* What is known of a fork at one of its subblocks.                        *)
LEMMA ForkAt ==
    ASSUME IInv, NEW t \in Threads, th[t].pc \in Duplicating
    PROVE  /\ TypeOK /\ Books /\ PageTypes /\ Regions /\ CowsKept
           /\ th[t].blk \in Blocks /\ th[t].new \in Blocks /\ th[t].blk # th[t].new
           /\ BlocksOf(th[t]) = {th[t].blk, th[t].new}
           /\ st[th[t].blk] = "remote" /\ st[th[t].new] = "none"
           /\ \A i \in Subs :
                /\ rp[th[t].blk][i] # Free
                /\ i < th[t].i => rp[th[t].new][i] = rp[th[t].blk][i]
                /\ ~(i < th[t].i) => rp[th[t].new][i] = Free
           /\ HalfFresh(th[t]) \/ (th[t].pc = "dup" /\ \A i \in Subs : is_cow(rp[th[t].blk][i]))
           /\ th[t].held = NoMr /\ th[t] \in ThreadType
<1>1. th[t].pc # "idle" /\ th[t].pc # "hold"
  BY DEF Duplicating
<1>2. DupOK(th[t]) /\ th[t].held = NoMr /\ th[t] \in ThreadType
  BY <1>1, InHand
<1>3. /\ th[t].blk \in Blocks /\ th[t].new \in Blocks /\ th[t].blk # th[t].new
      /\ BlocksOf(th[t]) = {th[t].blk, th[t].new}
  BY <1>1, InHand
<1>4. TypeOK /\ Books /\ PageTypes /\ Regions /\ CowsKept
  BY Pages DEF IInv, Books
<1>5. QED
  BY <1>2, <1>3, <1>4 DEF DupOK, Has

(* A step of a fork on one pair of subblocks.                              *)
Forks(t, a, b, i, r, q) ==
    /\ a = th[t].blk /\ b = th[t].new
    /\ Changed2(a, b, i, r, q) /\ rp' \in [Blocks -> [Subs -> RemotePage]]
    /\ cow' \in [Cows -> [refcnt : Nat, val : {Free} \cup Slots]]
    /\ UNCHANGED <<config, mr, last_alloc, num_alloc, st, reading>>
    /\ th' \in [Threads -> ThreadType]
    /\ \A u \in Threads \ {t} : th'[u] = th[u]
    /\ th'[t].pc = th[t].pc /\ th'[t].blk = a /\ th'[t].new = b /\ th'[t].held = NoMr
    /\ \A c \in Cows : r = Cow(c) \/ q = Cow(c) =>
         Pointers(c) = {} \/ \E d \in {a, b}, j \in Subs : rp[d][j] = Cow(c)

LEMMA ForkStep ==
    ASSUME IInv, NEW t \in Threads, th[t].pc \in Duplicating,
           NEW a \in Blocks, NEW b \in Blocks, NEW i \in Subs,
           NEW r \in RemotePage, NEW q \in RemotePage,
           Forks(t, a, b, i, r, q), DupOK(th[t])', Books'
    PROVE  IInv'
<1>0. a = th[t].blk /\ b = th[t].new
  BY DEF Forks
<1>1. /\ TypeOK /\ Regions /\ BlocksOf(th[t]) = {a, b} /\ a # b /\ th[t].held = NoMr
      /\ th[t].pc # "idle" /\ th[t].pc # "hold" /\ th[t].pc # "scan"
      /\ th[t].pc \notin Evicting /\ th[t].pc # "drop" /\ th[t].pc # "destroy"
  <2>1. TypeOK /\ Regions /\ BlocksOf(th[t]) = {a, b} /\ a # b /\ th[t].held = NoMr
    BY <1>0, ForkAt
  <2>2. QED
    BY <2>1 DEF Duplicating, Evicting
<1>2. \A d \in Blocks, j \in Subs : d \notin {a, b} => rp'[d][j] = rp[d][j]
  BY DEF Forks, Changed2
<1>3. \A d \in {a, b}, j \in Subs : \A c \in Cows : rp'[d][j] = Cow(c) =>
        Pointers(c) = {} \/ \E e \in {a, b}, k \in Subs : rp[e][k] = Cow(c)
  BY DEF Forks, Changed2
<1>4. TypeOK'
  BY <1>1 DEF Forks, TypeOK, ThreadType
<1>5. EvictOK(th[t])' /\ DropOK(th[t])'
  BY <1>1 DEF Forks, EvictOK, DropOK
<1>6. Regions'
  <2>1. \A u \in Threads \ {t} : th[u].pc = "hold" =>
          \A j \in Subs : rp'[th[u].blk][j] = rp[th[u].blk][j]
    <3>1. PICK B : B = {a, b}
      OBVIOUS
    <3>2. \A d \in Blocks \ B, j \in Subs : rp'[d][j] = rp[d][j]
      BY <1>2, <3>1
    <3>3. QED
      BY <1>1, <3>1, <3>2, OthersPages
  <2>2. \A u \in Threads :
             \/ th'[u] = th[u]
                  /\ (th[u].pc = "hold" => \A j \in Subs : rp'[th[u].blk][j] = rp[th[u].blk][j])
             \/ th[u].held = NoMr /\ th'[u].held = NoMr /\ th'[u].pc # "hold"
                  /\ (same_mr /\ th'[u].pc = "scan" => th'[u].i = 1)
    BY <1>1, <2>1 DEF Forks
  <2>3. QED
    BY <1>1, <2>2, RegionsQuiet DEF Forks
<1>7. /\ \A d \in Blocks \ BlocksOf(th[t]), j \in Subs : rp'[d][j] = rp[d][j]
      /\ \A d \in BlocksOf(th[t]), j \in Subs : \A c \in Cows : rp'[d][j] = Cow(c) =>
           Pointers(c) = {} \/ \E e \in BlocksOf(th[t]), k \in Subs : rp[e][k] = Cow(c)
  BY <1>1, <1>2, <1>3
<1>8. /\ UNCHANGED <<config, reading, st>>
      /\ \A u \in Threads \ {t} : th'[u] = th[u]
      /\ th'[t].pc = th[t].pc /\ th'[t].blk = a /\ th'[t].new = b
  BY DEF Forks
<1>9. QED
  BY <1>0, <1>1, <1>4, <1>5, <1>6, <1>7, <1>8, PageStep

LEMMA GetCowKeeps ==
    ASSUME IInv, NEW t \in Threads, GetCow(t)
    PROVE  IInv'
<1>1. /\ th[t].pc = "dup" /\ th[t].i \in Subs /\ Advance(t) /\ th[t].pc \in Duplicating
      /\ UNCHANGED <<config, mr, last_alloc, num_alloc, st, reading>>
  BY DEF GetCow, At, Duplicating, regions
<1>2. PICK i \in Subs : i = th[t].i
  BY <1>1
<1>3. PICK a \in Blocks : a = th[t].blk
  BY <1>1, ForkAt
<1>4. PICK b \in Blocks : b = th[t].new
  BY <1>1, ForkAt
<1>5. PICK r \in RemotePage : r = rp[a][i]
  BY Pages DEF IInv
<1>6. /\ TypeOK /\ Books /\ PageTypes /\ a # b /\ th[t].held = NoMr
      /\ st[a] = "remote" /\ st[b] = "none" /\ r # Free
      /\ \A j \in Subs : /\ rp[a][j] # Free
                         /\ j < i => rp[b][j] = rp[a][j]
                         /\ ~(j < i) => rp[b][j] = Free
      /\ HalfFresh(th[t]) \/ \A j \in Subs : is_cow(rp[a][j])
  BY <1>1, <1>2, <1>3, <1>4, <1>5, ForkAt
<1>7. /\ th' \in [Threads -> ThreadType] /\ \A u \in Threads \ {t} : th'[u] = th[u]
      /\ th'[t].i = i + 1 /\ th'[t].pc = "dup" /\ th'[t].blk = a
      /\ th'[t].new = b /\ th'[t].held = NoMr
      /\ \A j \in Subs : j < i + 1 <=> j < i \/ j = i
      /\ ~(i < i)
  <2>1. ~(i < i)
    BY Sizes
  <2>2. QED
    BY <1>1, <1>2, <1>3, <1>4, <1>6, <2>1, Advanced
<1>8. PICK c \in Cows :
        /\ IF is_cow(r) THEN c = r.id ELSE cow[c] = Unused
        /\ cow' = [cow EXCEPT ![c] = get_cow(r, c)]
        /\ rp' = [rp EXCEPT ![a][i] = Cow(c), ![b][i] = Cow(c)]
  BY <1>2, <1>3, <1>4, <1>5 DEF GetCow
<1>9. PICK q \in RemotePage : q = Cow(c)
  BY DEF RemotePage
<1>10. rp[b][i] = Free
  BY <1>6, <1>7
<1>11. CASE is_cow(r)
  <2>1. r = Cow(c)
    BY <1>8, <1>11, OfPage
  <2>2. \A j \in Subs : is_cow(rp[a][j])
    <3>1. ~Plain(a, i)
      BY <1>5, <1>11 DEF Plain
    <3>2. ~HalfFresh(th[t])
      BY <1>2, <1>3, <1>7, <3>1 DEF HalfFresh
    <3>3. QED
      BY <1>6, <3>2
  <2>3. [cow[c] EXCEPT !.refcnt = @ + 1] \in [refcnt : Nat, val : {Free} \cup Slots]
    <3>1. cow[c] \in [refcnt : Nat, val : {Free} \cup Slots]
      BY <1>6 DEF TypeOK
    <3>2. QED
      BY <3>1
  <2>4. cow' = [cow EXCEPT ![c] = [cow[c] EXCEPT !.refcnt = @ + 1]]
    BY <1>8, <1>11 DEF get_cow
  <2>5. /\ OneCow(c, [cow[c] EXCEPT !.refcnt = @ + 1])
        /\ cow' \in [Cows -> [refcnt : Nat, val : {Free} \cup Slots]]
    BY <1>6, <2>3, <2>4, CowSet
  <2>6. Changed2(a, b, i, q, q) /\ rp' \in [Blocks -> [Subs -> RemotePage]]
    BY <1>6, <1>8, <1>9, <2>5, PagePair
  <2>7. Changed(b, i, Cow(c))
    BY <1>5, <1>9, <2>1, <2>6 DEF Changed, Changed2
  <2>8. SameBits
    BY <1>1 DEF SameBits
  <2>9. Books'
    BY <1>5, <1>6, <1>10, <2>1, <2>5, <2>7, <2>8, ShareOld
  <2>10. DupOK(th[t])'
    <3>1. \A j \in Subs : rp'[a][j] = rp[a][j] /\ (j # i => rp'[b][j] = rp[b][j])
      BY <1>6, <2>7 DEF Changed
    <3>2. rp'[b][i] = rp'[a][i]
      BY <1>5, <2>1, <2>7, <3>1 DEF Changed
    <3>3. \A j \in Subs : /\ rp'[a][j] # Free /\ is_cow(rp'[a][j])
                          /\ j < i + 1 => rp'[b][j] = rp'[a][j]
                          /\ ~(j < i + 1) => rp'[b][j] = Free
      BY <1>6, <1>7, <2>2, <3>1, <3>2
    <3>4. QED
      BY <1>1, <1>6, <1>7, <3>3 DEF DupOK, Has
  <2>11. \A d \in Cows : q = Cow(d) \/ q = Cow(d) =>
             Pointers(d) = {} \/ \E e \in {a, b}, j \in Subs : rp[e][j] = Cow(d)
    BY <1>5, <1>9, <2>1
  <2>12. Forks(t, a, b, i, q, q)
    BY <1>1, <1>3, <1>4, <1>7, <2>5, <2>6, <2>11 DEF Forks
  <2>13. QED
    BY <1>1, <2>9, <2>10, <2>12, ForkStep
<1>12. CASE ~is_cow(r)
  <2>1. r \in Slots /\ cow[c] = Unused /\ HalfFresh(th[t])
    BY <1>5, <1>6, <1>8, <1>12, OfPage
  <2>2. [refcnt |-> 2, val |-> r] \in [refcnt : Nat, val : {Free} \cup Slots]
    BY <2>1
  <2>3. cow' = [cow EXCEPT ![c] = [refcnt |-> 2, val |-> r]]
    BY <1>8, <1>12 DEF get_cow
  <2>4. /\ OneCow(c, [refcnt |-> 2, val |-> r])
        /\ cow' \in [Cows -> [refcnt : Nat, val : {Free} \cup Slots]]
    BY <1>6, <2>2, <2>3, CowSet
  <2>5. Changed2(a, b, i, q, q) /\ rp' \in [Blocks -> [Subs -> RemotePage]]
    BY <1>6, <1>8, <1>9, <2>4, PagePair
  <2>6. SameBits
    BY <1>1 DEF SameBits
  <2>7. Books' /\ Pointers(c)' = {<<a, i>>, <<b, i>>} /\ Pointers(c) = {}
    BY <1>5, <1>6, <1>9, <1>10, <2>1, <2>4, <2>5, <2>6, ShareNew
  <2>8. /\ rp'[a][i] = Cow(c) /\ rp'[b][i] = Cow(c)
        /\ \A j \in Subs \ {i} : rp'[a][j] = rp[a][j] /\ rp'[b][j] = rp[b][j]
    BY <1>6, <1>9, <2>5 DEF Changed2
  <2>9. HalfFresh(th[t])'
    <3>1. ASSUME NEW j \in Subs, j < i + 1 PROVE Fresh(th[t], j)'
      <4>1. CASE j = i
        BY <1>7, <2>7, <2>8, <4>1 DEF Fresh
      <4>2. CASE j # i
        <5>1. Fresh(th[t], j)
          BY <1>2, <1>7, <2>1, <3>1, <4>2 DEF HalfFresh
        <5>2. PICK d \in Cows : rp[a][j] = Cow(d) /\ Pointers(d) = {<<a, j>>, <<b, j>>}
          BY <1>3, <1>4, <5>1 DEF Fresh
        <5>3. Cow(c) # Cow(d)
          <6>1. c # d
            BY <2>7, <5>2
          <6>2. QED
            BY <6>1, Kinds
        <5>4. \A p : p \in Pointers(d)' <=>
                \/ p \in Pointers(d) /\ p # <<a, i>> /\ p # <<b, i>>
                \/ p = <<a, i>> /\ q = Cow(d)
                \/ p = <<b, i>> /\ q = Cow(d)
          BY <1>6, <2>5, PointersChange2
        <5>5. Pointers(d)' = {<<a, j>>, <<b, j>>}
          BY <1>9, <4>2, <5>2, <5>3, <5>4
        <5>6. rp'[a][j] = Cow(d)
          BY <2>8, <4>2, <5>2
        <5>7. QED
          BY <1>7, <5>5, <5>6 DEF Fresh
      <4>3. QED
        BY <4>1, <4>2
    <3>2. ASSUME NEW j \in Subs, ~(j < i + 1) PROVE Plain(a, j)'
      <4>1. ~(j < i) /\ j # i
        BY <1>7, <3>2
      <4>2. Plain(a, j)
        BY <1>2, <1>3, <2>1, <4>1 DEF HalfFresh
      <4>3. QED
        BY <2>8, <4>1, <4>2 DEF Plain
    <3>3. QED
      BY <1>7, <3>1, <3>2 DEF HalfFresh
  <2>10. DupOK(th[t])'
    <3>1. \A j \in Subs : /\ rp'[a][j] # Free
                          /\ j < i + 1 => rp'[b][j] = rp'[a][j]
                          /\ ~(j < i + 1) => rp'[b][j] = Free
      BY <1>6, <1>7, <2>8, Kinds
    <3>2. QED
      BY <1>1, <1>6, <1>7, <2>9, <3>1 DEF DupOK, Has
  <2>11. \A d \in Cows : q = Cow(d) \/ q = Cow(d) =>
             Pointers(d) = {} \/ \E e \in {a, b}, j \in Subs : rp[e][j] = Cow(d)
    BY <1>9, <2>7, Kinds
  <2>12. Forks(t, a, b, i, q, q)
    BY <1>1, <1>3, <1>4, <1>7, <2>4, <2>5, <2>11 DEF Forks
  <2>13. QED
    BY <1>1, <2>7, <2>10, <2>12, ForkStep
<1>13. QED
  BY <1>11, <1>12

LEMMA PutCowBackKeeps ==
    ASSUME IInv, NEW t \in Threads, PutCowBack(t)
    PROVE  IInv'
<1>1. /\ th[t].pc = "dupundo" /\ th[t].i - 1 > 0 /\ th[t].pc \in Duplicating
      /\ UNCHANGED <<config, mr, last_alloc, num_alloc, st, reading>>
  BY DEF PutCowBack, Duplicating, regions
<1>2. th[t].i \in 1 .. Subblocks + 1 /\ th[t] \in ThreadType
  BY <1>1, ForkAt DEF ThreadType
<1>3. PICK i \in Subs : i = th[t].i - 1
  BY <1>1, <1>2, Sizes
<1>4. i < th[t].i /\ \A j \in Subs : j < th[t].i <=> j < i \/ j = i
  <2>1. \A j \in Subs : j \in Int
    BY Sizes
  <2>2. th[t].i = i + 1 /\ i \in Int
    BY <1>2, <1>3, <2>1
  <2>3. QED
    BY <2>1, <2>2
<1>5. PICK a \in Blocks : a = th[t].blk
  BY <1>1, ForkAt
<1>6. PICK b \in Blocks : b = th[t].new
  BY <1>1, ForkAt
<1>7. /\ TypeOK /\ Books /\ PageTypes /\ a # b /\ th[t].held = NoMr /\ CowsKept
      /\ st[a] = "remote" /\ st[b] = "none"
      /\ \A j \in Subs : /\ rp[a][j] # Free
                         /\ j < i => rp[b][j] = rp[a][j]
                         /\ ~(j < i) /\ j # i => rp[b][j] = Free
      /\ HalfFresh(th[t])
  BY <1>1, <1>4, <1>5, <1>6, ForkAt
<1>8. PICK c \in Cows : rp[a][i] = Cow(c) /\ Pointers(c) = {<<a, i>>, <<b, i>>}
  BY <1>4, <1>5, <1>6, <1>7 DEF HalfFresh, Fresh
<1>9. cow[c].refcnt = 2 /\ cow[c].val \in Slots
  <2>1. <<a, i>> # <<b, i>>
    BY <1>7
  <2>2. Cardinality(Pointers(c)) = 2
    <3>1. PICK p : p = <<a, i>>
      OBVIOUS
    <3>2. PICK q : q = <<b, i>>
      OBVIOUS
    <3>3. Pointers(c) = {p, q} /\ p # q
      BY <1>8, <2>1, <3>1, <3>2
    <3>4. Cardinality({p, q}) = 2
      BY <3>3, PairOfPointers
    <3>5. QED
      BY <3>3, <3>4
  <2>3. QED
    BY <1>7, <1>8, <2>2, PointedAt DEF CowsKept, RefcntExact
<1>10. PICK s \in Slots : s = cow[c].val
  BY <1>9
<1>11. PICK f \in RemotePage : f = Free
  BY DEF RemotePage
<1>12. cow' = [cow EXCEPT ![c] = Unused] /\ rp' = [rp EXCEPT ![a][i] = s, ![b][i] = f]
  <2>1. Cow(c).id = c
    BY Kinds
  <2>2. UndoCow(Cow(c)) = [rp |-> s, cow |-> Unused]
    BY <1>9, <1>10, <2>1 DEF UndoCow
  <2>3. QED
    BY <1>3, <1>5, <1>6, <1>8, <1>11, <2>1, <2>2 DEF PutCowBack
<1>13. OneCow(c, Unused) /\ cow' \in [Cows -> [refcnt : Nat, val : {Free} \cup Slots]]
  <2>1. Unused \in [refcnt : Nat, val : {Free} \cup Slots]
    BY DEF Unused
  <2>2. QED
    BY <1>7, <1>12, <2>1, CowSet
<1>14. s \in RemotePage /\ Changed2(a, b, i, s, f) /\ rp' \in [Blocks -> [Subs -> RemotePage]]
  <2>1. s \in RemotePage
    BY DEF RemotePage
  <2>2. QED
    BY <1>7, <1>12, <1>13, <2>1, PagePair
<1>15. Books'
  <2>1. SameBits
    BY <1>1 DEF SameBits
  <2>2. Changed2(a, b, i, cow[c].val, Free)
    BY <1>10, <1>11, <1>14
  <2>3. QED
    BY <1>7, <1>8, <1>13, <2>1, <2>2, Unshare
<1>16. /\ th' \in [Threads -> ThreadType] /\ \A u \in Threads \ {t} : th'[u] = th[u]
       /\ th'[t].i = i /\ th'[t].pc = th[t].pc /\ th'[t].blk = a
       /\ th'[t].new = b /\ th'[t].held = NoMr
  <2>1. th \in [Threads -> ThreadType] /\ i \in 1 .. Subblocks + 1
    BY <1>7, RegionsType, Sizes
  <2>2. th' = [th EXCEPT ![t] = [th[t] EXCEPT !.i = i]]
    BY <1>3, <2>1 DEF PutCowBack
  <2>3. [th[t] EXCEPT !.i = i] \in ThreadType
    BY <1>2, <2>1 DEF ThreadType
  <2>4. QED
    BY <1>2, <1>5, <1>6, <1>7, <2>1, <2>2, <2>3 DEF ThreadType
<1>17. /\ rp'[a][i] = s /\ rp'[b][i] = Free /\ ~is_cow(s) /\ s # Free /\ \A d : s # Cow(d) /\ Free # Cow(d)
       /\ \A j \in Subs \ {i} : rp'[a][j] = rp[a][j] /\ rp'[b][j] = rp[b][j]
  <2>1. ~is_cow(s) /\ s # Free /\ \A d : s # Cow(d) /\ Free # Cow(d)
    BY OfSlot, Kinds
  <2>2. QED
    BY <1>7, <1>11, <1>14, <2>1 DEF Changed2
<1>18. HalfFresh(th[t])'
  <2>1. ASSUME NEW j \in Subs, j < i PROVE Fresh(th[t], j)'
    <3>1. j # i /\ Fresh(th[t], j)
      BY <1>4, <1>7, <2>1, Sizes DEF HalfFresh
    <3>2. PICK d \in Cows : rp[a][j] = Cow(d) /\ Pointers(d) = {<<a, j>>, <<b, j>>}
      BY <1>5, <1>6, <3>1 DEF Fresh
    <3>3. \A p : p \in Pointers(d)' <=>
            \/ p \in Pointers(d) /\ p # <<a, i>> /\ p # <<b, i>>
            \/ p = <<a, i>> /\ s = Cow(d)
            \/ p = <<b, i>> /\ f = Cow(d)
      BY <1>7, <1>14, PointersChange2
    <3>4. Pointers(d)' = {<<a, j>>, <<b, j>>}
      BY <1>11, <1>17, <3>1, <3>2, <3>3
    <3>5. QED
      BY <1>16, <1>17, <3>1, <3>2, <3>4 DEF Fresh
  <2>2. ASSUME NEW j \in Subs, ~(j < i) PROVE Plain(a, j)'
    <3>1. CASE j = i
      BY <1>17, <3>1 DEF Plain
    <3>2. CASE j # i
      <4>1. Plain(a, j)
        BY <1>4, <1>5, <1>7, <2>2, <3>2 DEF HalfFresh
      <4>2. QED
        BY <1>17, <3>2, <4>1 DEF Plain
    <3>3. QED
      BY <3>1, <3>2
  <2>3. QED
    BY <1>16, <2>1, <2>2 DEF HalfFresh
<1>19. DupOK(th[t])'
  <2>1. \A j \in Subs : /\ rp'[a][j] # Free
                        /\ j < i => rp'[b][j] = rp'[a][j]
                        /\ ~(j < i) => rp'[b][j] = Free
    <3>1. ~(i < i)
      BY Sizes
    <3>2. QED
      BY <1>7, <1>17, <3>1
  <2>2. QED
    BY <1>1, <1>7, <1>16, <1>18, <2>1 DEF DupOK, Has
<1>20. \A d \in Cows : s = Cow(d) \/ f = Cow(d) =>
             Pointers(d) = {} \/ \E e \in {a, b}, j \in Subs : rp[e][j] = Cow(d)
  BY <1>11, <1>17
<1>21. Forks(t, a, b, i, s, f)
  BY <1>1, <1>5, <1>6, <1>13, <1>14, <1>16, <1>20 DEF Forks
<1>22. QED
  BY <1>1, <1>14, <1>15, <1>19, <1>21, ForkStep

------------------------------------------------------------------------------
(***************************************************************************)
(* The invariant holds from the start and after every step.                *)
(***************************************************************************)
LEMMA Starts ==
    ASSUME Init
    PROVE  IInv
<1>1. /\ config \in Configs /\ mr = [m \in MrIds |-> NewMr(m)] /\ last_alloc = 0 /\ num_alloc = 0
      /\ rp = [b \in Blocks |-> [i \in Subs |-> Free]] /\ cow = [c \in Cows |-> Unused]
      /\ st = [b \in Blocks |-> "none"] /\ reading = [b \in Blocks |-> {}]
      /\ th = [t \in Threads |-> Idle]
  BY DEF Init
<1>2. /\ \A b \in Blocks, i \in Subs : rp[b][i] = Free
      /\ \A c \in Cows : cow[c] = Unused /\ cow[c].refcnt = 0
      /\ \A t \in Threads : th[t] = Idle
      /\ \A m \in MrIds : mr[m] = NewMr(m)
  BY <1>1 DEF Unused
<1>3. mr \in [MrIds -> MrType] /\ \A m \in MrIds : mr[m].bits = Offsets(m)
  <2>1. ASSUME NEW m \in MrIds PROVE NewMr(m) \in MrType /\ NewMr(m).bits = Offsets(m)
    <3>1. Offsets(m) \in SUBSET Nat
      BY Sizes DEF Offsets
    <3>2. QED
      BY <3>1 DEF NewMr, MrType
  <2>2. QED
    BY <1>1, <2>1
<1>4. TypeOK
  <2>1. Idle \in ThreadType
    BY Sizes DEF Idle, ThreadType
  <2>2. th \in [Threads -> ThreadType]
    BY <1>1, <2>1
  <2>3. 0 \in MrIds
    BY Sizes
  <2>4. rp \in [Blocks -> [Subs -> RemotePage]]
    BY <1>1 DEF RemotePage
  <2>5. cow \in [Cows -> [refcnt : Nat, val : {Free} \cup Slots]]
    BY <1>1 DEF Unused
  <2>6. QED
    BY <1>1, <1>3, <2>2, <2>3, <2>4, <2>5 DEF TypeOK, ThreadType, MrType
<1>5. Books
  <2>1. OneOwner
    BY <1>2, Kinds, OfSlot DEF OneOwner
  <2>2. BitsAgree
    BY <1>2, <1>3, Kinds DEF BitsAgree
  <2>3. ASSUME NEW c \in Cows PROVE cow[c].refcnt = Cardinality(Pointers(c))
    <3>1. Pointers(c) = {}
      BY <1>2, Kinds DEF Pointers, Page, Subpages
    <3>2. QED
      BY <1>2, <3>1, FS_EmptySet
  <2>4. QED
    BY <1>2, <2>1, <2>2, <2>3 DEF Books, CowsKept, RefcntExact
<1>6. Regions
  <2>1. \A t \in Threads : th[t].held = NoMr /\ th[t].pc = "idle"
    BY <1>2, IdleHasNone
  <2>2. LocksKept
    BY <2>1 DEF LocksKept
  <2>3. AllocLenKept
    <3>1. ASSUME NEW m \in MrIds PROVE mr[m].alloc_len = Taken(m) + Owed(m) /\ mr[m].alloc_len \in Int
      <4>1. Offsets(m) \ mr[m].bits = {}
        BY <1>3
      <4>2. Taken(m) = 0
        BY <4>1, FS_EmptySet DEF Taken
      <4>3. Holders(m) = {}
        BY <2>1, Sizes DEF Holders
      <4>4. Owed(m) = 0
        BY <4>3, OwedNot
      <4>5. mr[m].alloc_len = 0
        <5>1. NewMr(m).alloc_len = 0
          BY DEF NewMr
        <5>2. QED
          BY <1>2, <5>1
      <4>6. QED
        BY <4>2, <4>4, <4>5
    <3>2. QED
      BY <3>1 DEF AllocLenKept
  <2>4. RoomKept
    <3>1. ASSUME NEW m \in MrIds, NEW o \in mr[m].bits PROVE mr[m].free_start <= o
      <4>1. mr[m].free_start = 0 /\ o \in Offsets(m)
        BY <1>2, <1>3 DEF NewMr
      <4>2. QED
        BY <4>1, Sizes DEF Offsets
    <3>2. QED
      BY <2>1, <3>1 DEF RoomKept
  <2>5. QED
    BY <2>2, <2>3, <2>4 DEF Regions
<1>7. AllTouched
  BY <1>1 DEF AllTouched
<1>8. BlocksKept
  <2>1. ASSUME NEW t \in Threads PROVE ThreadOK(t) /\ BlocksOf(th[t]) = {}
    BY <1>2, RemoteAssumption
       DEF Idle, BlocksOf, ThreadOK, EvictOK, DropOK, DupOK, Evicting, Duplicating
  <2>2. ASSUME NEW b \in Blocks PROVE UnlockedOK(b)
    BY <1>1 DEF UnlockedOK
  <2>3. QED
    BY <2>1, <2>2 DEF BlocksKept
<1>9. QED
  BY <1>4, <1>5, <1>6, <1>7, <1>8 DEF IInv

LEMMA StepKeeps ==
    ASSUME IInv, NEW t \in Threads, Step(t)
    PROVE  IInv'
<1>1. CASE AllocStep(t)
  BY <1>1, LockMrKeeps, NextMrKeeps, FillSubblockKeeps, RegionFullKeeps, FinishAllocKeeps,
     UndoAllocKeeps, UndoEndKeeps, PostWritebackKeeps DEF AllocStep
<1>2. CASE ~AllocStep(t)
  BY <1>2, PostFailsKeeps, DropSubblockKeeps, DropEndKeeps, DestroySubblockKeeps, DestroyEndKeeps,
     GetCowKeeps, DupEndKeeps, GetCowFailsKeeps, PutCowBackKeeps, DupUndoEndKeeps DEF Step
<1>3. QED
  BY <1>1, <1>2

LEMMA StutterKeeps ==
    ASSUME IInv, UNCHANGED vars
    PROVE  IInv'
<1>1. PICK B \in SUBSET Blocks : B = {}
  OBVIOUS
<1>2. UNCHANGED <<config, mr, last_alloc, num_alloc, rp, cow, st, reading, th>>
  BY DEF vars
<1>3. TypeOK' /\ AllTouched'
  BY <1>2 DEF IInv, TypeOK, AllTouched
<1>4. QED
  BY <1>1, <1>2, <1>3, BlockQuiet

LEMMA NextKeeps ==
    ASSUME PagesSuffice, IInv, [Next]_vars
    PROVE  IInv'
<1>1. CASE \E t \in Threads : Step(t)
  BY <1>1, StepKeeps
<1>2. CASE \E t \in Threads, b \in Blocks : Evict(t, b) \/ WritebackFault(t, b) \/ Close(t, b)
  BY <1>2, EvictKeeps, WritebackFaultKeeps, CloseKeeps
<1>3. CASE \E b \in Blocks : FirstTouch(b) \/ FirstTouchFails(b) \/ WritebackDone(b)
                            \/ Discard(b) \/ Fetch(b)
  <2>1. \A b \in Blocks : ~FirstTouchFails(b)
    BY DEF FirstTouchFails, PagesSuffice
  <2>2. QED
    BY <1>3, <2>1, FirstTouchKeeps, WritebackDoneKeeps, DiscardKeeps, FetchKeeps
<1>4. CASE \E b \in Blocks, i \in Subs : FetchDone(b, i)
  BY <1>4, FetchDoneKeeps
<1>5. CASE \E t \in Threads, old, new \in Blocks : ForkCopy(t, old, new)
  BY <1>5, ForkCopyKeeps
<1>6. CASE \E old, new \in Blocks : Handoff(old, new)
  BY <1>6, HandoffKeeps
<1>7. CASE UNCHANGED vars
  BY <1>7, StutterKeeps
<1>8. QED
  BY <1>1, <1>2, <1>3, <1>4, <1>5, <1>6, <1>7 DEF Next

(***************************************************************************)
(* The bitmaps, counters, locks and records of the regions and the pages   *)
(* of every block fit each other whenever all threads are between steps.   *)
(***************************************************************************)
THEOREM Inductive ==
    ASSUME PagesSuffice
    PROVE  Spec => []IInv
<1>1. Init => IInv
  BY Starts
<1>2. IInv /\ [Next]_vars => IInv'
  BY NextKeeps
<1>3. QED
  BY <1>1, <1>2, PTL DEF Spec

------------------------------------------------------------------------------
(***************************************************************************)
(* What follows from it.                                                   *)
(***************************************************************************)
(* Every variable keeps its type through all handlers.                     *)
THEOREM TypeCorrect ==
    ASSUME PagesSuffice
    PROVE  Spec => []TypeOK
<1>1. IInv => TypeOK
  BY DEF IInv
<1>2. QED
  BY <1>1, Inductive, PTL

LEMMA SlotsOnce == IInv => NoSlotTwice
<1>1. ASSUME IInv, NEW s \in Slots
      PROVE  /\ \A p, q \in HolderSubs(s) : p = q
             /\ \A c, d \in HolderCows(s) : c = d
             /\ HolderSubs(s) = {} \/ HolderCows(s) = {}
  <2>1. OneOwner
    BY <1>1 DEF IInv, Books
  <2>2. \A p \in HolderSubs(s) : /\ p[1] \in Blocks /\ p[2] \in Subs /\ p = <<p[1], p[2]>>
                                 /\ rp[p[1]][p[2]] = s
    BY DEF HolderSubs, Subpages, Page
  <2>3. \A p, q \in HolderSubs(s) : p = q
    <3>1. ASSUME NEW p \in HolderSubs(s), NEW q \in HolderSubs(s) PROVE p = q
      <4>1. p[1] = q[1] /\ p[2] = q[2]
        BY <2>1, <2>2 DEF OneOwner
      <4>2. QED
        BY <2>2, <4>1
    <3>2. QED
      BY <3>1
  <2>4. \A c, d \in HolderCows(s) : c = d
    BY <2>1 DEF HolderCows, OneOwner
  <2>5. HolderSubs(s) = {} \/ HolderCows(s) = {}
    BY <2>1, <2>2 DEF HolderCows, OneOwner
  <2>6. QED
    BY <2>3, <2>4, <2>5
<1>2. QED
  BY <1>1 DEF NoSlotTwice

(* No two blocks write to one slot of a donor, unless they share it.       *)
THEOREM SlotsNotShared ==
    ASSUME PagesSuffice
    PROVE  Spec => []NoSlotTwice
BY SlotsOnce, Inductive, PTL

LEMMA BitsExact == IInv => BitmapExact
<1>1. ASSUME IInv, NEW m \in MrIds, NEW o \in Offsets(m)
      PROVE  o \in mr[m].bits <=> HolderSubs(Slot(m, o)) = {} /\ HolderCows(Slot(m, o)) = {}
  <2>1. o \in mr[m].bits <=> /\ \A b \in Blocks, i \in Subs : rp[b][i] # Slot(m, o)
                             /\ \A c \in Cows : cow[c].refcnt > 0 => cow[c].val # Slot(m, o)
    BY <1>1 DEF IInv, Books, BitsAgree
  <2>2. HolderSubs(Slot(m, o)) = {} <=> \A b \in Blocks, i \in Subs : rp[b][i] # Slot(m, o)
    <3>1. \A b \in Blocks, i \in Subs : <<b, i>> \in HolderSubs(Slot(m, o)) <=> rp[b][i] = Slot(m, o)
      BY DEF HolderSubs, Subpages, Page
    <3>2. \A p \in HolderSubs(Slot(m, o)) : p[1] \in Blocks /\ p[2] \in Subs /\ rp[p[1]][p[2]] = Slot(m, o)
      BY DEF HolderSubs, Subpages, Page
    <3>3. ASSUME HolderSubs(Slot(m, o)) = {} PROVE \A b \in Blocks, i \in Subs : rp[b][i] # Slot(m, o)
      BY <3>1, <3>3
    <3>4. ASSUME HolderSubs(Slot(m, o)) # {} PROVE \E b \in Blocks, i \in Subs : rp[b][i] = Slot(m, o)
      <4>1. PICK p : p \in HolderSubs(Slot(m, o))
        BY <3>4
      <4>2. QED
        BY <3>2, <4>1
    <3>5. QED
      BY <3>3, <3>4
  <2>3. HolderCows(Slot(m, o)) = {} <=> \A c \in Cows : cow[c].refcnt > 0 => cow[c].val # Slot(m, o)
    BY DEF HolderCows
  <2>4. QED
    BY <2>1, <2>2, <2>3
<1>2. QED
  BY <1>1 DEF BitmapExact

(* Fetches, closes, forks and failed evictions neither lose a slot nor     *)
(* give one back that is in use.                                           *)
THEOREM BitmapsExact ==
    ASSUME PagesSuffice
    PROVE  Spec => []BitmapExact
BY BitsExact, Inductive, PTL

(* put_cow_remote_page() sees the last pointer exactly when it is the last.*)
THEOREM RefcntsExact ==
    ASSUME PagesSuffice
    PROVE  Spec => []RefcntExact
<1>1. IInv => RefcntExact
  BY DEF IInv, Books, CowsKept
<1>2. QED
  BY <1>1, Inductive, PTL

LEMMA CopyHeld == IInv => RemoteHasCopy
<1>1. ASSUME IInv, NEW b \in Blocks, NEW i \in Subs,
             (st[b] \in {"remote", "writeback"} /\ ~Locked(b)) \/ i \in reading[b]
      PROVE  Behind(rp[b][i]) \in Slots
  <2>1. ~Locked(b)
    <3>1. ASSUME NEW t \in Threads, b \in BlocksOf(th[t]) PROVE reading[b] = {}
      BY <1>1, <3>1 DEF IInv, BlocksKept, ThreadOK
    <3>2. QED
      BY <1>1, <3>1, LockedIs
  <2>2. UnlockedOK(b)
    BY <1>1, <2>1 DEF IInv, BlocksKept
  <2>3. rp[b][i] # Free
    BY <1>1, <2>2 DEF UnlockedOK, Resident, Has
  <2>4. rp[b][i] \in RemotePage /\ PageTypes /\ CowsKept
    BY <1>1, Pages DEF IInv, Books
  <2>5. CASE is_cow(rp[b][i])
    <3>1. PICK c \in Cows : rp[b][i] = Cow(c)
      BY <2>4, <2>5, OfPage
    <3>2. Cow(c).id = c
      BY Kinds
    <3>3. QED
      BY <2>4, <2>5, <3>1, <3>2, PointedAt DEF Behind
  <2>6. CASE ~is_cow(rp[b][i])
    BY <2>3, <2>4, <2>6, OfPage DEF Behind
  <2>7. QED
    BY <2>5, <2>6
<1>2. QED
  BY <1>1 DEF RemoteHasCopy

(* A block that lives at the donor has a slot for every subblock, and no   *)
(* read in flight has lost the page it reads from.                         *)
THEOREM RemoteCopyHeld ==
    ASSUME PagesSuffice
    PROVE  Spec => []RemoteHasCopy
BY CopyHeld, Inductive, PTL

LEMMA OwnsAlone == IInv => ResidentOwnsAlone
<1>1. ASSUME IInv, NEW b \in Blocks, NEW i \in Subs,
             st[b] \in {"resident", "writeback"}, i \notin reading[b]
      PROVE  ~is_cow(rp[b][i])
  <2>1. CASE Locked(b)
    <3>1. PICK t \in Threads : b \in BlocksOf(th[t])
      BY <2>1, LockedIs
    <3>2. ThreadOK(t)
      BY <1>1 DEF IInv, BlocksKept
    <3>3. th[t].pc # "idle"
      BY <3>1, <3>2, IdleHasNone DEF ThreadOK
    <3>4. th[t].pc \notin Duplicating
      BY <1>1, <3>1, <3>3, InHand DEF DupOK
    <3>5. b = th[t].blk
      BY <1>1, <3>1, <3>3, <3>4, InHand
    <3>6. th[t].pc \in Evicting \cup {"drop", "destroy"}
      BY <1>1, <3>3, <3>4 DEF IInv, TypeOK, Evicting, Duplicating
    <3>7. EvictOK(th[t]) /\ DropOK(th[t])
      BY <3>2 DEF ThreadOK
    <3>8. QED
      BY <1>1, <3>5, <3>6, <3>7 DEF EvictOK, DropOK, Plain
  <2>2. CASE ~Locked(b)
    <3>1. UnlockedOK(b)
      BY <1>1, <2>2 DEF IInv, BlocksKept
    <3>2. QED
      BY <1>1, <3>1 DEF UnlockedOK, Resident, Plain
  <2>3. QED
    BY <2>1, <2>2
<1>2. QED
  BY <1>1 DEF ResidentOwnsAlone

(* Neither a writeback nor a failing eviction touches a page that another  *)
(* process shares: free_remote_page() may leave shared pages alone.        *)
THEOREM ResidentBlocksOwn ==
    ASSUME PagesSuffice
    PROVE  Spec => []ResidentOwnsAlone
BY OwnsAlone, Inductive, PTL

(* alloc_len counts the slots that are taken and those a thread still has  *)
(* to take, so a region is not given up as full while it has room.         *)
THEOREM LengthKept ==
    ASSUME PagesSuffice
    PROVE  Spec => []AllocLenKept
<1>1. IInv => AllocLenKept
  BY DEF IInv, Regions
<1>2. QED
  BY <1>1, Inductive, PTL

(* diff_mr has another region to go to.                                    *)
RegionsDiffer == Mrs > 1 \/ \A c \in Configs : c.policy # "diff_mr"

LEMMA BitFound == RegionsDiffer /\ IInv => RoomIsFound
<1>1. ASSUME RegionsDiffer, IInv, NEW t \in Threads, th[t].pc = "hold", th[t].i <= Subblocks,
             is_free(rp[th[t].blk][th[t].i]), config.policy # "sequential"
      PROVE  find_slot(th[t].held) # Size[th[t].held]
  <2>1. TypeOK /\ Regions
    BY <1>1 DEF IInv
  <2>2. config \in Configs /\ config.policy \in Policies
    BY <2>1, RemoteAssumption DEF TypeOK
  <2>3. same_mr \/ (config.policy = "diff_mr" /\ Mrs > 1)
    BY <1>1, <2>2 DEF RegionsDiffer, Policies, same_mr
  <2>4. QED
    BY <1>1, <2>1, <2>3, RoomFound
<1>2. QED
  BY <1>1 DEF RoomIsFound

(* The BUG_ON(offset == size) of same_mr and, with more than one region,   *)
(* of diff_mr is never reached.                                            *)
THEOREM NoBugOn ==
    ASSUME PagesSuffice, RegionsDiffer
    PROVE  Spec => []RoomIsFound
BY BitFound, Inductive, PTL

------------------------------------------------------------------------------
(***************************************************************************)
(* What a step leaves behind the remote pages of a block.                  *)
(***************************************************************************)
LEMMA PointsToRecord ==
    ASSUME NEW r \in RemotePage, NEW d, r = Cow(d)
    PROVE  d \in Cows
<1>1. is_cow(Cow(d)) /\ Cow(d).id = d
  BY Kinds
<1>2. QED
  BY <1>1, OfPage

LEMMA BehindStays ==
    ASSUME NEW b, NEW i, rp'[b][i] = rp[b][i],
           \A c : rp[b][i] = Cow(c) => cow'[c].val = cow[c].val,
           rp[b][i] \in RemotePage
    PROVE  Behind(rp[b][i])' = Behind(rp[b][i])
<1>1. CASE is_cow(rp[b][i])
  <2>1. PICK c \in Cows : rp[b][i] = Cow(c)
    BY <1>1, OfPage
  <2>2. Cow(c).id = c
    BY Kinds
  <2>3. QED
    BY <1>1, <2>1, <2>2 DEF Behind
<1>2. CASE ~is_cow(rp[b][i])
  BY <1>2 DEF Behind
<1>3. QED
  BY <1>1, <1>2

(* The blocks that RemoteCopyStays is about.                               *)
OnlyRemote(b) ==
    /\ st[b] = "remote" /\ st'[b] = "remote"
    /\ \A t \in Threads : th[t].pc = "destroy" => th[t].blk # b
Stays(b, i) == Behind(rp[b][i])' = Behind(rp[b][i])

LEMMA QuietStays ==
    ASSUME IInv, NEW b \in Blocks, NEW i \in Subs, rp' = rp, cow' = cow
    PROVE  Stays(b, i)
<1>1. rp[b][i] \in RemotePage
  BY Pages DEF IInv
<1>2. QED
  BY <1>1, BehindStays DEF Stays

(* A page of another block goes, and with it at most a record that no one  *)
(* else points at.                                                         *)
LEMMA OtherGoes ==
    ASSUME IInv, NEW b \in Blocks, NEW i \in Subs, NEW a \in Blocks, NEW j \in Subs, a # b,
           rp[a][j] # Free, put_cow(rp[a][j]), rp'[b][i] = rp[b][i]
    PROVE  Stays(b, i)
<1>1. TypeOK /\ Books /\ PageTypes /\ CowsKept /\ rp[a][j] \in RemotePage /\ rp[b][i] \in RemotePage
  BY Pages DEF IInv, Books
<1>2. CASE ~is_cow(rp[a][j])
  <2>1. cow' = cow
    BY <1>2 DEF put_cow
  <2>2. QED
    BY <1>1, <2>1, BehindStays DEF Stays
<1>3. CASE is_cow(rp[a][j])
  <2>1. PICK c \in Cows : rp[a][j] = Cow(c)
    BY <1>1, <1>3, OfPage
  <2>2. cow[c].refcnt > 0 /\ put_cow(Cow(c))
    BY <1>1, <2>1, PointedAt
  <2>3. /\ cow[c].refcnt = 1 => OneCow(c, Unused)
        /\ cow[c].refcnt # 1 => OneCow(c, [cow[c] EXCEPT !.refcnt = @ - 1])
    BY <1>1, <2>2, CowPut
  <2>4. cow[c].refcnt = 1 => rp[b][i] # Cow(c)
    <3>1. SUFFICES ASSUME cow[c].refcnt = 1 PROVE rp[b][i] # Cow(c)
      OBVIOUS
    <3>2. Pointers(c) = {<<a, j>>}
      BY <1>1, <2>1, <3>1, LastPointer
    <3>3. <<b, i>> \notin Pointers(c)
      BY <3>2
    <3>4. QED
      BY <3>3, PointsAt
  <2>5. cow[c].refcnt # 1 => [cow[c] EXCEPT !.refcnt = @ - 1].val = cow[c].val
    <3>1. cow[c] \in [refcnt : Nat, val : {Free} \cup Slots]
      BY <1>1 DEF PageTypes
    <3>2. QED
      BY <3>1
  <2>6. ASSUME NEW d, rp[b][i] = Cow(d) PROVE cow'[d].val = cow[d].val
    <3>1. d \in Cows
      BY <1>1, <2>6, PointsToRecord
    <3>2. CASE d = c
      BY <2>3, <2>4, <2>5, <2>6, <3>2 DEF OneCow
    <3>3. CASE d # c
      BY <2>3, <3>1, <3>3 DEF OneCow
    <3>4. QED
      BY <3>2, <3>3
  <2>7. QED
    BY <1>1, <2>6, BehindStays DEF Stays
<1>4. QED
  BY <1>2, <1>3

LEMMA FillSubblockStays ==
    ASSUME IInv, NEW b \in Blocks, NEW i \in Subs, OnlyRemote(b), NEW t \in Threads, FillSubblock(t)
    PROVE  Stays(b, i)
<1>1. th[t].pc = "hold" /\ cow' = cow
  BY DEF FillSubblock, At
<1>2. th[t].blk # b
  BY <1>1, InHand DEF EvictOK, Evicting, OnlyRemote
<1>3. /\ rp' = rp \/ \E r : rp' = [rp EXCEPT ![th[t].blk][th[t].i] = r]
      /\ rp \in [Blocks -> [Subs -> RemotePage]]
  BY DEF FillSubblock, IInv, TypeOK
<1>4. rp'[b] = rp[b]
  BY <1>2, <1>3
<1>5. QED
  BY <1>1, <1>4, Pages, BehindStays DEF IInv, Stays

LEMMA FreeStays ==
    ASSUME IInv, NEW b \in Blocks, NEW i \in Subs, OnlyRemote(b), NEW t \in Threads,
           UndoAlloc(t) \/ DropSubblock(t)
    PROVE  Stays(b, i)
<1>1. th[t].pc \in {"undo", "drop"} /\ cow' = cow
  BY DEF UndoAlloc, DropSubblock, At
<1>2. th[t].blk # b
  BY <1>1, InHand DEF EvictOK, DropOK, Evicting, OnlyRemote
<1>3. /\ rp' = rp \/ \E r : rp' = [rp EXCEPT ![th[t].blk][th[t].i] = r]
      /\ rp \in [Blocks -> [Subs -> RemotePage]]
  BY DEF UndoAlloc, DropSubblock, free_remote_page, SetRp, IInv, TypeOK
<1>4. rp'[b] = rp[b]
  BY <1>2, <1>3
<1>5. QED
  BY <1>1, <1>4, Pages, BehindStays DEF IInv, Stays

LEMMA DestroySubblockStays ==
    ASSUME IInv, NEW b \in Blocks, NEW i \in Subs, OnlyRemote(b), NEW t \in Threads,
           DestroySubblock(t)
    PROVE  Stays(b, i)
<1>1. th[t].pc = "destroy" /\ th[t].i \in Subs
  BY DEF DestroySubblock, At
<1>2. PICK a \in Blocks : a = th[t].blk
  BY <1>1, InHand
<1>3. PICK j \in Subs : j = th[t].i
  BY <1>1
<1>4. a # b
  BY <1>1, <1>2 DEF OnlyRemote
<1>5. CASE rp[a][j] = Free
  <2>1. UNCHANGED <<rp, cow>>
    BY <1>2, <1>3, <1>5 DEF DestroySubblock, is_free
  <2>2. QED
    BY <2>1, QuietStays
<1>6. CASE rp[a][j] # Free
  <2>1. put_cow(rp[a][j]) /\ SetRp(a, j, Free)
    BY <1>2, <1>3, <1>6 DEF DestroySubblock, is_free
  <2>2. rp'[b][i] = rp[b][i]
    BY <1>4, <2>1 DEF SetRp, IInv, TypeOK
  <2>3. QED
    BY <1>4, <1>6, <2>1, <2>2, OtherGoes
<1>7. QED
  BY <1>5, <1>6

LEMMA FetchDoneStays ==
    ASSUME IInv, NEW b \in Blocks, NEW i \in Subs, OnlyRemote(b), NEW a \in Blocks, NEW j \in Subs,
           FetchDone(a, j)
    PROVE  Stays(b, i)
<1>1. j \in reading[a] /\ ~Locked(a) /\ put_cow(rp[a][j]) /\ \E r : SetRp(a, j, r)
  BY DEF FetchDone
<1>2. UnlockedOK(a)
  BY <1>1 DEF IInv, BlocksKept
<1>3. st[a] = "resident" /\ rp[a][j] # Free
  BY <1>1, <1>2 DEF UnlockedOK, Resident, Has
<1>4. a # b
  BY <1>3 DEF OnlyRemote
<1>5. rp'[b][i] = rp[b][i]
  BY <1>1, <1>4 DEF SetRp, IInv, TypeOK
<1>6. QED
  BY <1>1, <1>3, <1>4, <1>5, OtherGoes

LEMMA GetCowStays ==
    ASSUME IInv, NEW b \in Blocks, NEW i \in Subs, OnlyRemote(b), NEW t \in Threads, GetCow(t)
    PROVE  Stays(b, i)
<1>1. th[t].pc \in Duplicating /\ th[t].i \in Subs
  BY DEF GetCow, At, Duplicating
<1>2. PICK j \in Subs : j = th[t].i
  BY <1>1
<1>3. PICK a \in Blocks : a = th[t].blk
  BY <1>1, ForkAt
<1>4. PICK n \in Blocks : n = th[t].new
  BY <1>1, ForkAt
<1>5. PICK r \in RemotePage : r = rp[a][j]
  BY Pages DEF IInv
<1>6. /\ TypeOK /\ PageTypes /\ CowsKept /\ a # n /\ n # b /\ r # Free
      /\ rp[b][i] \in RemotePage
  BY <1>1, <1>3, <1>4, <1>5, ForkAt, Pages DEF OnlyRemote
<1>7. PICK c \in Cows :
        /\ IF is_cow(r) THEN c = r.id ELSE cow[c] = Unused
        /\ cow' = [cow EXCEPT ![c] = get_cow(r, c)]
        /\ rp' = [rp EXCEPT ![a][j] = Cow(c), ![n][j] = Cow(c)]
  BY <1>2, <1>3, <1>4, <1>5 DEF GetCow
<1>8. /\ \A k \in Subs : (a # b \/ k # j) => rp'[b][k] = rp[b][k]
      /\ rp'[a][j] = Cow(c)
  BY <1>6, <1>7 DEF TypeOK
<1>9. cow'[c] = get_cow(r, c) /\ \A d \in Cows \ {c} : cow'[d] = cow[d]
  BY <1>6, <1>7 DEF TypeOK
<1>10. /\ is_cow(r) => r = Cow(c) /\ get_cow(r, c).val = cow[c].val
       /\ ~is_cow(r) => r \in Slots /\ get_cow(r, c).val = r
  <2>1. CASE is_cow(r)
    <3>1. r = Cow(c) /\ cow[c] \in [refcnt : Nat, val : {Free} \cup Slots]
      BY <1>6, <1>7, <2>1, OfPage DEF PageTypes
    <3>2. QED
      BY <2>1, <3>1 DEF get_cow
  <2>2. CASE ~is_cow(r)
    BY <1>6, <2>2, OfPage DEF get_cow
  <2>3. QED
    BY <2>1, <2>2
<1>11. CASE a = b /\ i = j
  <2>1. Behind(rp[b][i])' = cow'[c].val
    <3>1. is_cow(Cow(c)) /\ Cow(c).id = c
      BY Kinds
    <3>2. QED
      BY <1>8, <1>11, <3>1 DEF Behind, is_cow
  <2>2. Behind(r) = cow'[c].val
    <3>1. Cow(c).id = c
      BY Kinds
    <3>2. QED
      BY <1>9, <1>10, <3>1 DEF Behind
  <2>3. QED
    BY <1>5, <1>11, <2>1, <2>2 DEF Stays
<1>12. CASE a # b \/ i # j
  <2>1. rp'[b][i] = rp[b][i]
    BY <1>8, <1>12
  <2>2. ASSUME NEW d, rp[b][i] = Cow(d) PROVE cow'[d].val = cow[d].val
    <3>1. d \in Cows
      BY <1>6, <2>2, PointsToRecord
    <3>2. CASE d = c /\ is_cow(r)
      BY <1>9, <1>10, <3>2
    <3>3. CASE d = c /\ ~is_cow(r)
      <4>1. cow[c].refcnt = 0
        BY <1>7, <3>3 DEF Unused
      <4>2. FALSE
        BY <1>6, <2>2, <3>1, <3>3, <4>1, PointedAt
      <4>3. QED
        BY <4>2
    <3>4. CASE d # c
      BY <1>9, <3>1, <3>4
    <3>5. QED
      BY <3>2, <3>3, <3>4
  <2>3. QED
    BY <1>6, <2>1, <2>2, BehindStays DEF Stays
<1>13. QED
  BY <1>11, <1>12

LEMMA PutCowBackStays ==
    ASSUME IInv, NEW b \in Blocks, NEW i \in Subs, OnlyRemote(b), NEW t \in Threads, PutCowBack(t)
    PROVE  Stays(b, i)
<1>1. th[t].pc = "dupundo" /\ th[t].i - 1 > 0 /\ th[t].pc \in Duplicating
  BY DEF PutCowBack, Duplicating
<1>2. th[t].i \in 1 .. Subblocks + 1
  BY <1>1, ForkAt DEF ThreadType
<1>3. PICK j \in Subs : j = th[t].i - 1
  BY <1>1, <1>2, Sizes
<1>4. j < th[t].i
  <2>1. j \in Int
    BY Sizes
  <2>2. QED
    BY <1>2, <1>3, <2>1
<1>5. PICK a \in Blocks : a = th[t].blk
  BY <1>1, ForkAt
<1>6. PICK n \in Blocks : n = th[t].new
  BY <1>1, ForkAt
<1>7. /\ TypeOK /\ PageTypes /\ CowsKept /\ a # n /\ n # b /\ HalfFresh(th[t])
      /\ rp[b][i] \in RemotePage
  BY <1>1, <1>5, <1>6, ForkAt, Pages DEF OnlyRemote
<1>8. PICK c \in Cows : rp[a][j] = Cow(c) /\ Pointers(c) = {<<a, j>>, <<n, j>>}
  BY <1>4, <1>5, <1>6, <1>7 DEF HalfFresh, Fresh
<1>9. cow[c].refcnt = 2 /\ cow[c].val \in Slots
  <2>1. <<a, j>> # <<n, j>>
    BY <1>7
  <2>2. Cardinality(Pointers(c)) = 2
    <3>1. PICK p : p = <<a, j>>
      OBVIOUS
    <3>2. PICK q : q = <<n, j>>
      OBVIOUS
    <3>3. Pointers(c) = {p, q} /\ p # q
      BY <1>8, <2>1, <3>1, <3>2
    <3>4. Cardinality({p, q}) = 2
      BY <3>3, PairOfPointers
    <3>5. QED
      BY <3>3, <3>4
  <2>3. QED
    BY <1>7, <1>8, <2>2, PointedAt DEF CowsKept, RefcntExact
<1>10. cow' = [cow EXCEPT ![c] = Unused] /\ rp' = [rp EXCEPT ![a][j] = cow[c].val, ![n][j] = Free]
  <2>1. Cow(c).id = c
    BY Kinds
  <2>2. UndoCow(Cow(c)) = [rp |-> cow[c].val, cow |-> Unused]
    BY <1>9, <2>1 DEF UndoCow
  <2>3. QED
    BY <1>3, <1>5, <1>6, <1>8, <2>1, <2>2 DEF PutCowBack
<1>11. /\ \A k \in Subs : (a # b \/ k # j) => rp'[b][k] = rp[b][k]
       /\ rp'[a][j] = cow[c].val
       /\ \A d \in Cows \ {c} : cow'[d] = cow[d]
  BY <1>7, <1>10 DEF TypeOK
<1>12. CASE a = b /\ i = j
  <2>1. Behind(rp[b][i]) = cow[c].val
    BY <1>8, <1>12, Kinds DEF Behind
  <2>2. Behind(rp[b][i])' = cow[c].val
    <3>1. ~is_cow(cow[c].val)
      BY <1>9, OfSlot
    <3>2. QED
      BY <1>11, <1>12, <3>1 DEF Behind, is_cow
  <2>3. QED
    BY <2>1, <2>2 DEF Stays
<1>13. CASE a # b \/ i # j
  <2>1. rp'[b][i] = rp[b][i]
    BY <1>11, <1>13
  <2>2. ASSUME NEW d, rp[b][i] = Cow(d) PROVE cow'[d].val = cow[d].val
    <3>1. d \in Cows
      BY <1>7, <2>2, PointsToRecord
    <3>2. d # c
      <4>1. <<b, i>> \notin Pointers(c)
        BY <1>7, <1>8, <1>13
      <4>2. QED
        BY <2>2, <4>1, PointsAt
    <3>3. QED
      BY <1>11, <3>1, <3>2
  <2>3. QED
    BY <1>7, <2>1, <2>2, BehindStays DEF Stays
<1>14. QED
  BY <1>12, <1>13

LEMMA StepStays ==
    ASSUME IInv, [Next]_vars, NEW b \in Blocks, NEW i \in Subs, OnlyRemote(b)
    PROVE  Stays(b, i)
<1>1. ASSUME NEW t \in Threads, Step(t) PROVE Stays(b, i)
  <2>1. CASE FillSubblock(t)
    BY <2>1, FillSubblockStays
  <2>2. CASE UndoAlloc(t) \/ DropSubblock(t)
    BY <2>2, FreeStays
  <2>3. CASE DestroySubblock(t)
    BY <2>3, DestroySubblockStays
  <2>4. CASE GetCow(t)
    BY <2>4, GetCowStays
  <2>5. CASE PutCowBack(t)
    BY <2>5, PutCowBackStays
  <2>6. CASE \/ LockMr(t) \/ NextMr(t) \/ RegionFull(t) \/ FinishAlloc(t) \/ UndoEnd(t)
             \/ PostWriteback(t) \/ PostFails(t) \/ DropEnd(t) \/ DestroyEnd(t)
             \/ DupEnd(t) \/ GetCowFails(t) \/ DupUndoEnd(t)
    <3>1. rp' = rp /\ cow' = cow
      BY <2>6 DEF LockMr, NextMr, RegionFull, FinishAlloc, UndoEnd, PostWriteback, PostFails,
                  DropEnd, DestroyEnd, DupEnd, GetCowFails, DupUndoEnd
    <3>2. QED
      BY <3>1, QuietStays
  <2>7. QED
    BY <1>1, <2>1, <2>2, <2>3, <2>4, <2>5, <2>6 DEF Step, AllocStep
<1>2. ASSUME NEW a \in Blocks, NEW j \in Subs, FetchDone(a, j) PROVE Stays(b, i)
  BY <1>2, FetchDoneStays
<1>3. CASE \E t \in Threads, a \in Blocks : Evict(t, a) \/ WritebackFault(t, a) \/ Close(t, a)
  <2>1. rp' = rp /\ cow' = cow
    BY <1>3 DEF Evict, WritebackFault, Close
  <2>2. QED
    BY <2>1, QuietStays
<1>4. CASE \E a \in Blocks : FirstTouch(a) \/ FirstTouchFails(a) \/ WritebackDone(a)
                                \/ Discard(a) \/ Fetch(a)
  <2>1. rp' = rp /\ cow' = cow
    BY <1>4 DEF FirstTouch, FirstTouchFails, WritebackDone, Discard, Fetch
  <2>2. QED
    BY <2>1, QuietStays
<1>5. CASE \/ \E t \in Threads, old, new \in Blocks : ForkCopy(t, old, new)
           \/ \E old, new \in Blocks : Handoff(old, new)
           \/ UNCHANGED vars
  <2>1. rp' = rp /\ cow' = cow
    <3>1. CASE \E t \in Threads, old, new \in Blocks : ForkCopy(t, old, new)
      BY <3>1 DEF ForkCopy
    <3>2. CASE \E old, new \in Blocks : Handoff(old, new)
      BY <3>2 DEF Handoff
    <3>3. CASE UNCHANGED vars
      BY <3>3 DEF vars
    <3>4. QED
      BY <1>5, <3>1, <3>2, <3>3
  <2>2. QED
    BY <2>1, QuietStays
<1>6. QED
  BY <1>1, <1>2, <1>3, <1>4, <1>5 DEF Next

(* While a block lives at the donor only, no fetch, fork, failed fork or   *)
(* close of the blocks that share its pages moves its content.             *)
THEOREM CopyStays ==
    ASSUME PagesSuffice
    PROVE  Spec => RemoteCopyStays
<1>1. IInv /\ [Next]_vars => [\A b \in Blocks, i \in Subs :
        /\ st[b] = "remote" /\ st'[b] = "remote"
        /\ \A t \in Threads : th[t].pc = "destroy" => th[t].blk # b
        => Behind(rp[b][i])' = Behind(rp[b][i])]_vars
  BY StepStays DEF OnlyRemote, Stays
<1>2. QED
  BY <1>1, Inductive, PTL DEF Spec, RemoteCopyStays
=============================================================================
