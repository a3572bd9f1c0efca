------------------------- MODULE VmdescViewsLemmas -------------------------
(***************************************************************************)
(* What VmdescViewsProofs needs to know of the operators of VmdescViews,   *)
(* for any values of its constants: descriptor groups tile the directory,  *)
(* view_add(), view_del() and view_split() keep a list sorted and count    *)
(* what they should, emp_vmdesc_view_find_uncovered() finds what no view   *)
(* covers.  The recursion over a view list is dealt with by the least      *)
(* number of views for which a claim fails (LeastNat).                     *)
(*                                                                         *)
(* Then the frame of all further invariants, what each action does (its    *)
(* effect), and that it keeps the frame.                                   *)
(***************************************************************************)
EXTENDS VmdescViews, FiniteSetTheorems, SequenceTheorems, WellFoundedInduction, TLAPS

(***************************************************************************)
(* Least elements.                                                         *)
(***************************************************************************)
LEMMA LessIsWellFounded == IsWellFoundedOn({p \in Nat \X Nat : p[1] < p[2]}, Nat)
  BY NatLessThanWellFounded, Zenon DEF OpToRel

LEMMA LeastNat ==
    ASSUME NEW S, S \subseteq Nat, S # {}
    PROVE  \E n \in S : \A m \in S : n <= m
  <1> DEFINE R == {p \in Nat \X Nat : p[1] < p[2]}
  <1>1. IsWellFoundedOn(R, Nat)
    BY LessIsWellFounded
  <1>2. \A m, n \in Nat : <<m, n>> \in R <=> m < n
    OBVIOUS
  <1> HIDE DEF R
  <1>3. PICK n \in S : \A m \in S : ~ (<<m, n>> \in R)
    BY <1>1, WFMin
  <1>4. \A m \in S : m \in Nat /\ n \in Nat /\ ~(m < n)
    BY <1>2, <1>3
  <1>5. \A m \in S : n <= m
    BY <1>4
  <1> QED BY <1>5

(***************************************************************************)
(* The geometry: groups tile the directory.                                *)
(***************************************************************************)
LEMMA DivMod ==
    ASSUME NEW a \in Int, NEW n \in Nat \ {0}
    PROVE  \E q, r \in Int : /\ q = a \div n /\ r = a % n
                            /\ a = n * q + r /\ 0 <= r /\ r < n
  OBVIOUS

LEMMA NextMultiple ==
    ASSUME NEW a \in Int, NEW b \in Int, NEW n \in Nat \ {0},
           a % n = 0, b % n = 0, a < b
    PROVE  a + n <= b
  <1>1. PICK q \in Int, x \in Int : x = a % n /\ a = n * q + x
    BY DivMod
  <1>2. PICK p \in Int, y \in Int : y = b % n /\ b = n * p + y
    BY ZenonT(60), DivMod
  <1>3. a = n * q /\ b = n * p
    BY <1>1, <1>2
  <1>4. n * (p - q) > 0
    BY <1>3
  <1>5. p - q >= 1
    BY <1>4
  <1>6. PICK k \in Nat : p = q + 1 + k
    BY <1>5
  <1>7. b = a + n + n * k
    BY <1>3, <1>6
  <1>8. n * k >= 0
    BY <1>6
  <1> QED BY <1>7, <1>8

LEMMA MultipleBelow ==
    ASSUME NEW a \in Nat, NEW n \in Nat \ {0}
    PROVE  \E b \in Nat : b % n = 0 /\ b <= a /\ a < b + n
  <1>1. PICK q \in Int, r \in Int :
            /\ q = a \div n /\ r = a % n
            /\ a = n * q + r /\ 0 <= r /\ r < n
    BY DivMod
  <1>2. n * q \in Int /\ n * q > 0 - n
    BY <1>1
  <1>3. n * (q + 1) > 0
    BY <1>1, <1>2
  <1>4. q + 1 > 0
    <2>1. CASE q + 1 <= 0
      <3>1. PICK k \in Nat : q + 1 = 0 - k
        BY <2>1
      <3>2. n * k >= 0
        BY <3>1
      <3>3. n * (q + 1) = 0 - n * k
        BY <3>1
      <3> QED BY <1>3, <3>2, <3>3
    <2> QED BY <2>1
  <1>5. n * q >= 0
    BY <1>1, <1>4
  <1>6. (n * q) % n = 0
    BY <1>1
  <1>7. n * q \in Nat /\ n * q <= a /\ a < n * q + n
    BY <1>1, <1>2, <1>5
  <1> QED BY <1>6, <1>7

GroupsTyped ==
    /\ GpaLen \in Nat
    /\ \A g \in Groups : /\ g.region \in Nat /\ g.first \in Idx /\ g.end \in 1..GpaLen
                         /\ g.first < g.end
                         /\ g = [region |-> g.region, first |-> g.first, end |-> g.end]

LEMMA GroupsType == GroupsTyped
  <1>1. GpaLen \in Nat
    <2>1. NPages \in Nat \ {0} /\ SbSize \in Nat \ {0}
      BY ViewsAssumption
    <2>2. NPages + SbSize - 1 \in Nat
      BY <2>1
    <2>3. PICK a \in Nat : a = NPages + SbSize - 1
      BY <2>2
    <2>4. a \div SbSize \in Nat
      BY <2>1
    <2> QED BY <2>3, <2>4 DEF GpaLen
  <1>2. ASSUME NEW g \in Groups
        PROVE  /\ g.region \in Nat /\ g.first \in Idx /\ g.end \in 1..GpaLen
               /\ g.first < g.end
               /\ g = [region |-> g.region, first |-> g.first, end |-> g.end]
    <2>1. PICK r \in DOMAIN Regions : g \in GroupsOf(r)
      BY DEF Groups
    <2>2. PICK i \in Regions[r].start..(Regions[r].end - 1) :
              /\ (i - Regions[r].start) % Regions[r].step = 0
              /\ g = [region |-> r, first |-> i, end |-> i + Regions[r].step]
      BY <2>1 DEF GroupsOf
    <2>3. /\ r \in Nat /\ Regions[r].start \in Idx /\ Regions[r].end \in 1..GpaLen
          /\ Regions[r].step \in Nat \ {0}
          /\ (Regions[r].end - Regions[r].start) % Regions[r].step = 0
      BY ViewsAssumption
    <2>4. i + Regions[r].step <= Regions[r].end
      <3>1. PICK s \in Nat, e \in Nat, n \in Nat \ {0} :
                s = Regions[r].start /\ e = Regions[r].end /\ n = Regions[r].step
        BY <1>1, <2>3 DEF Idx
      <3>2. i \in Int /\ s <= i /\ i < e /\ (i - s) % n = 0 /\ (e - s) % n = 0
        BY <2>2, <2>3, <3>1
      <3>3. (i - s) + n <= e - s
        BY <3>1, <3>2, NextMultiple
      <3> QED BY <3>1, <3>2, <3>3
    <2> QED BY <1>1, <2>2, <2>3, <2>4 DEF Idx
  <1> QED BY <1>1, <1>2 DEF GroupsTyped

LEMMA GroupAt ==
    ASSUME NEW i \in Idx
    PROVE  \E g \in Groups : i \in Members(g)
  <1>1. PICK r \in DOMAIN Regions : Regions[r].start <= i /\ i < Regions[r].end
    BY ViewsAssumption
  <1>2. PICK s \in Nat, e \in Nat, n \in Nat \ {0} :
            s = Regions[r].start /\ e = Regions[r].end /\ n = Regions[r].step
    BY GroupsType, ViewsAssumption DEF GroupsTyped, Idx
  <1>3. i \in Nat /\ i - s \in Nat
    BY <1>1, <1>2, GroupsType DEF GroupsTyped, Idx
  <1>4. PICK b \in Nat : b % n = 0 /\ b <= i - s /\ i - s < b + n
    BY <1>2, <1>3, MultipleBelow
  <1>5. s + b \in s..(e - 1) /\ (s + b) - s = b
    BY <1>1, <1>2, <1>3, <1>4
  <1>6. s + b \in {j \in Regions[r].start..(Regions[r].end - 1) :
                       (j - Regions[r].start) % Regions[r].step = 0}
    BY <1>2, <1>4, <1>5
  <1>7. [region |-> r, first |-> s + b, end |-> s + b + n] \in GroupsOf(r)
    BY <1>2, <1>6 DEF GroupsOf
  <1>8. i \in (s + b)..((s + b + n) - 1)
    BY <1>3, <1>4
  <1> QED BY <1>7, <1>8 DEF Groups, Members

LEMMA OneGroup ==
    ASSUME NEW g \in Groups, NEW h \in Groups, NEW i \in Idx,
           i \in Members(g), i \in Members(h)
    PROVE  g = h
  <1>1. PICK r \in DOMAIN Regions : g \in GroupsOf(r)
    BY DEF Groups
  <1>2. PICK q \in DOMAIN Regions : h \in GroupsOf(q)
    BY DEF Groups
  <1>3. PICK a \in Regions[r].start..(Regions[r].end - 1) :
            /\ (a - Regions[r].start) % Regions[r].step = 0
            /\ g = [region |-> r, first |-> a, end |-> a + Regions[r].step]
    BY <1>1 DEF GroupsOf
  <1>4. PICK b \in Regions[q].start..(Regions[q].end - 1) :
            /\ (b - Regions[q].start) % Regions[q].step = 0
            /\ h = [region |-> q, first |-> b, end |-> b + Regions[q].step]
    BY <1>2 DEF GroupsOf
  <1>5. r = q
    <2>1. /\ i \in Nat /\ \A p \in DOMAIN Regions : /\ Regions[p].start \in Nat
                                                /\ Regions[p].end \in Nat
                                                /\ Regions[p].step \in Nat \ {0}
      BY GroupsType, ViewsAssumption DEF GroupsTyped, Idx
    <2>2. a + Regions[r].step <= Regions[r].end
      <3>1. PICK s \in Nat, e \in Nat, n \in Nat \ {0} :
                s = Regions[r].start /\ e = Regions[r].end /\ n = Regions[r].step
        BY <2>1
      <3>2. a \in Int /\ s <= a /\ a < e /\ (a - s) % n = 0 /\ (e - s) % n = 0
        BY <1>3, <3>1, ViewsAssumption
      <3>3. (a - s) + n <= e - s
        BY <3>1, <3>2, NextMultiple
      <3> QED BY <3>1, <3>2, <3>3
    <2>3. b + Regions[q].step <= Regions[q].end
      <3>1. PICK s \in Nat, e \in Nat, n \in Nat \ {0} :
                s = Regions[q].start /\ e = Regions[q].end /\ n = Regions[q].step
        BY <2>1
      <3>2. b \in Int /\ s <= b /\ b < e /\ (b - s) % n = 0 /\ (e - s) % n = 0
        BY <1>4, <3>1, ViewsAssumption
      <3>3. (b - s) + n <= e - s
        BY <3>1, <3>2, NextMultiple
      <3> QED BY <3>1, <3>2, <3>3
    <2>4. Regions[r].start <= i /\ i < Regions[r].end
      BY <1>3, <2>1, <2>2 DEF Members
    <2>5. Regions[q].start <= i /\ i < Regions[q].end
      BY <1>4, <2>1, <2>3 DEF Members
    <2> QED BY <2>4, <2>5, ViewsAssumption
  <1>6. a = b
    <2>1. PICK s \in Nat, n \in Nat \ {0} : s = Regions[r].start /\ n = Regions[r].step
      BY GroupsType, ViewsAssumption DEF GroupsTyped, Idx
    <2>2. /\ i \in Nat /\ a \in Int /\ b \in Int
          /\ a <= i /\ i < a + n /\ b <= i /\ i < b + n
          /\ (a - s) % n = 0 /\ (b - s) % n = 0
      BY <1>3, <1>4, <1>5, <2>1, GroupsType DEF GroupsTyped, Members, Idx
    <2>3. ~(a - s < b - s)
      <3> SUFFICES ASSUME a - s < b - s PROVE FALSE
        OBVIOUS
      <3>1. (a - s) + n <= b - s
        BY <2>1, <2>2, NextMultiple
      <3> QED BY <2>1, <2>2, <3>1
    <2>4. ~(b - s < a - s)
      <3> SUFFICES ASSUME b - s < a - s PROVE FALSE
        OBVIOUS
      <3>1. (b - s) + n <= a - s
        BY <2>1, <2>2, NextMultiple
      <3> QED BY <2>1, <2>2, <3>1
    <2> QED BY <2>1, <2>2, <2>3, <2>4
  <1> QED BY <1>3, <1>4, <1>5, <1>6

(* Every slot is in one group, the one GroupOf names.                      *)
LEMMA Tiling ==
    /\ \A i \in Idx : GroupOf[i] \in Groups /\ i \in Members(GroupOf[i])
    /\ \A g \in Groups : g.first \in Members(g) /\ Members(g) \subseteq Idx
    /\ \A g \in Groups : \A i \in Members(g) : GroupOf[i] = g
  <1>1. \A i \in Idx : GroupOf[i] \in Groups /\ i \in Members(GroupOf[i])
    BY GroupAt DEF GroupOf
  <1>2. ASSUME NEW g \in Groups PROVE g.first \in Members(g) /\ Members(g) \subseteq Idx
    BY GroupsType DEF GroupsTyped, Members, Idx
  <1>3. ASSUME NEW g \in Groups, NEW i \in Members(g) PROVE GroupOf[i] = g
    BY <1>1, <1>2, OneGroup
  <1> QED BY <1>1, <1>2, <1>3

(***************************************************************************)
(* Types.  A view list is a sequence of views that are not empty, counted  *)
(* by positive numbers.                                                    *)
(***************************************************************************)
LEMMA Sizes ==
    /\ MaxVmr \in Nat \ {0} /\ MaxDesc \in Nat \ {0} /\ MaxGpa \in Nat \ {0}
    /\ MaxMm \in Nat \ {0} /\ NPages \in Nat \ {0} /\ SbSize \in Nat \ {0} /\ GpaLen \in Nat
  BY ViewsAssumption, GroupsType DEF GroupsTyped

LEMMA NoneIsNone ==
    /\ None \notin Vmrs /\ None \notin Descs /\ None \notin Gpas /\ None \notin Mms
    /\ 1 \in Vmrs /\ 1 \in Descs /\ 1 \in Mms
    /\ Vmrs \subseteq Nat /\ Descs \subseteq Nat /\ Gpas \subseteq Nat /\ Mms \subseteq Nat
    /\ Idx \subseteq Nat
  BY Sizes DEF None, Vmrs, Descs, Gpas, Mms, Idx

VmrRec ==
    [st : Phases, mm : Mms \cup {None}, desc : Descs \cup {None},
     lo : 0..NPages, hi : 0..NPages, link : Vmrs \cup {None}, cnt : Int,
     unc : Uncovered, todo : SUBSET Groups, rel : BOOLEAN]
ViewRec == {v \in [start : 0..NPages, end : 0..NPages, count : Nat \ {0}] : v.start < v.end}
DescRec ==
    [st : {"unused", "alive", "freed"}, shared : BOOLEAN, views : Seq(ViewRec),
     refcount : Int, closer : Vmrs \cup {None}]
MmRec ==
    [op : {"unused", "idle", "child", "close"}]
    \cup [op : {"views"}, prev : Vmrs, mid : 0..NPages, lo : 0..NPages, hi : 0..NPages]
    \cup [op : {"fork"}, kid : Mms, todo : SUBSET Vmrs]

Types ==
    /\ vmr \in [Vmrs -> VmrRec]
    /\ mm \in [Mms -> MmRec]
    /\ desc \in [Descs -> DescRec]
    /\ dir \in [Descs -> [Idx -> Gpas \cup {None}]]
    /\ used \subseteq Gpas
    /\ ref \in [Gpas -> [Idx -> Int]]
    /\ rec \in [Gpas -> [Idx -> SUBSET Vmrs]]
    /\ cut \in [Gpas -> SUBSET (0..GpaLen)]

(* Phases in which a vmr has an interval and a vmdesc, and those of its    *)
(* close.                                                                  *)
Busy == {"enter", "asleep", "own", "dropped", "walk", "put", "wake"}
Placed == {"joining", "live"} \cup Busy

-----------------------------------------------------------------------------
(* What is chosen exists.                                                  *)
LEMMA NextVmrUnused ==
    ASSUME Unused # {}
    PROVE  NextVmr \in Vmrs /\ vmr[NextVmr].st = "unused"
  <1>1. Unused \subseteq Nat
    BY NoneIsNone DEF Unused
  <1>2. \E v \in Unused : \A w \in Unused : v <= w
    BY <1>1, LeastNat
  <1>3. NextVmr \in Unused
    BY <1>2 DEF NextVmr
  <1> QED BY <1>3 DEF Unused

LEMMA NextDescUnused ==
    ASSUME FreeDescs # {}
    PROVE  NextDesc \in Descs /\ desc[NextDesc].st = "unused"
  <1>1. FreeDescs \subseteq Nat
    BY NoneIsNone DEF FreeDescs
  <1>2. \E d \in FreeDescs : \A e \in FreeDescs : d <= e
    BY <1>1, LeastNat
  <1>3. NextDesc \in FreeDescs
    BY <1>2 DEF NextDesc
  <1> QED BY <1>3 DEF FreeDescs

LEMMA NextMmUnused ==
    ASSUME UnusedMms # {}
    PROVE  NextMm \in Mms /\ mm[NextMm].op = "unused"
  <1>1. UnusedMms \subseteq Nat
    BY NoneIsNone DEF UnusedMms
  <1>2. \E m \in UnusedMms : \A k \in UnusedMms : m <= k
    BY <1>1, LeastNat
  <1>3. NextMm \in UnusedMms
    BY <1>2 DEF NextMm
  <1> QED BY <1>3 DEF UnusedMms

LEMMA NextGpaUnused ==
    ASSUME used # Gpas, used \subseteq Gpas
    PROVE  NextGpa \in Gpas \ used
  <1>1. Gpas \ used \subseteq Nat /\ Gpas \ used # {}
    BY NoneIsNone
  <1>2. \E o \in Gpas \ used : \A p \in Gpas \ used : o <= p
    BY <1>1, LeastNat
  <1> QED BY <1>2 DEF NextGpa

LEMMA NextVmaInTodo ==
    ASSUME Types, NEW m \in Mms, Forking(m)
    PROVE  NextVma(m) \in mm[m].todo /\ NextVma(m) \in Vmrs
  <1>1. mm[m].todo \in SUBSET Vmrs /\ mm[m].todo # {}
    BY DEF Types, Forking, MmRec
  <1> DEFINE S == {vmr[p].lo : p \in mm[m].todo}
  <1>2. S \subseteq Nat /\ S # {}
    BY <1>1 DEF Types, VmrRec
  <1>3. PICK n \in S : \A k \in S : n <= k
    BY <1>2, LeastNat
  <1>4. PICK p \in mm[m].todo : vmr[p].lo = n
    BY <1>3
  <1>5. \A q \in mm[m].todo : vmr[p].lo <= vmr[q].lo
    BY <1>3, <1>4
  <1>6. NextVma(m) \in mm[m].todo
    BY <1>4, <1>5 DEF NextVma
  <1> QED BY <1>1, <1>6

LEMMA GroupPresent ==
    ASSUME Types, NEW v \in Vmrs, Present(v) # {}
    PROVE  Group(v) \in Present(v) /\ Group(v) \in Groups /\ Group(v) \in vmr[v].todo
  <1>1. Present(v) \subseteq vmr[v].todo /\ Present(v) \subseteq Groups
    BY DEF Types, VmrRec, Present
  <1> DEFINE R == {g.region : g \in Present(v)}
  <1>2. R \subseteq Nat /\ R # {}
    BY <1>1, GroupsType DEF GroupsTyped
  <1>3. PICK r \in R : \A q \in R : r <= q
    BY <1>2, LeastNat
  <1> DEFINE F == {g.first : g \in {h \in Present(v) : h.region = r}}
  <1>4. F \subseteq Nat /\ F # {}
    BY <1>1, <1>3, GroupsType, NoneIsNone DEF GroupsTyped
  <1>5. PICK f \in F : \A e \in F : f <= e
    BY <1>4, LeastNat
  <1>6. PICK g \in Present(v) : g.region = r /\ g.first = f
    BY <1>5
  <1>7. ASSUME NEW h \in Present(v) PROVE WalkedBefore(g, h)
    <2>1. r \in Nat /\ h.region \in Nat /\ r <= h.region
      BY <1>1, <1>2, <1>3, GroupsType DEF GroupsTyped
    <2>2. CASE h.region = r
      BY <1>5, <1>6, <2>2 DEF WalkedBefore
    <2>3. CASE h.region # r
      BY <1>6, <2>1, <2>3 DEF WalkedBefore
    <2> QED BY <2>2, <2>3
  <1>8. Group(v) \in Present(v)
    BY <1>6, <1>7 DEF Group
  <1> QED BY <1>1, <1>8

-----------------------------------------------------------------------------
(* View lists: sorted, each interval once.                                 *)
Listed(views) ==
    /\ views \in Seq(ViewRec)
    /\ \A j, k \in DOMAIN views : j < k => SortsBefore(views[j], views[k].start, views[k].end)
CountOf(views, s, e) ==
    IF EntriesOf(views, s, e) = {} THEN 0
    ELSE views[CHOOSE k \in EntriesOf(views, s, e) : TRUE].count

LEMMA ViewFields ==
    ASSUME NEW x \in ViewRec
    PROVE  /\ x.start \in 0..NPages /\ x.end \in 0..NPages /\ x.count \in Nat \ {0}
           /\ x.start \in Nat /\ x.end \in Nat /\ x.start < x.end
           /\ x = View(x.start, x.end, x.count)
  BY Sizes DEF ViewRec, View

LEMMA ListedFields ==
    ASSUME NEW views, Listed(views), NEW k \in DOMAIN views
    PROVE  views[k] \in ViewRec
  BY DEF Listed

LEMMA OneEntry ==
    ASSUME NEW views, Listed(views), NEW j \in DOMAIN views, NEW k \in DOMAIN views,
           views[j].start = views[k].start, views[j].end = views[k].end
    PROVE  j = k
  <1>1. j \in Nat /\ k \in Nat
    BY DEF Listed
  <1>2. /\ views[j].start \in Nat /\ views[j].end \in Nat
        /\ views[k].start \in Nat /\ views[k].end \in Nat
    BY ListedFields, ViewFields
  <1>3. ~(j < k) /\ ~(k < j)
    BY <1>2 DEF Listed, SortsBefore
  <1> QED BY <1>1, <1>3

LEMMA CountAt ==
    ASSUME NEW views, Listed(views), NEW k \in DOMAIN views
    PROVE  CountOf(views, views[k].start, views[k].end) = views[k].count
  <1>1. EntriesOf(views, views[k].start, views[k].end) = {k}
    BY OneEntry DEF EntriesOf
  <1> QED BY <1>1 DEF CountOf

LEMMA CountNone ==
    ASSUME NEW views, NEW s, NEW e,
           \A k \in DOMAIN views : ~(views[k].start = s /\ views[k].end = e)
    PROVE  CountOf(views, s, e) = 0
  BY DEF CountOf, EntriesOf

LEMMA CountPositive ==
    ASSUME NEW views, Listed(views), NEW s, NEW e
    PROVE  /\ CountOf(views, s, e) \in Nat
           /\ CountOf(views, s, e) > 0 <=>
                 \E k \in DOMAIN views : views[k].start = s /\ views[k].end = e
  <1>1. CASE \E k \in DOMAIN views : views[k].start = s /\ views[k].end = e
    <2>1. PICK k \in DOMAIN views : views[k].start = s /\ views[k].end = e
      BY <1>1
    <2>2. CountOf(views, s, e) = views[k].count
      BY <2>1, CountAt
    <2>3. views[k].count \in Nat \ {0}
      BY ListedFields, ViewFields
    <2> QED BY <1>1, <2>2, <2>3
  <1>2. CASE ~ \E k \in DOMAIN views : views[k].start = s /\ views[k].end = e
    BY <1>2, CountNone
  <1> QED BY <1>1, <1>2

LEMMA Sorts ==
    ASSUME NEW v \in ViewRec, NEW w \in ViewRec, NEW s \in Nat, NEW e \in Nat
    PROVE  /\ SortsBefore(v, w.start, w.end) /\ SortsBefore(w, s, e) => SortsBefore(v, s, e)
           /\ ~SortsBefore(v, s, e) /\ SortsBefore(v, w.start, w.end) => ~SortsBefore(w, s, e)
           /\ ~SortsBefore(v, s, e) /\ ~(v.start = s /\ v.end = e) =>
                 s < v.start \/ (s = v.start /\ e < v.end)
  BY ViewFields DEF SortsBefore

(* Where an interval goes that is not in the list.                         *)
LEMMA Position ==
    ASSUME NEW views, Listed(views), NEW s \in Nat, NEW e \in Nat
    PROVE  LET pos == Cardinality({k \in DOMAIN views : SortsBefore(views[k], s, e)}) + 1
           IN  /\ pos \in 1..(Len(views) + 1)
               /\ \A k \in DOMAIN views : k < pos => SortsBefore(views[k], s, e)
               /\ \A k \in DOMAIN views : pos <= k => ~SortsBefore(views[k], s, e)
  <1> DEFINE S == {k \in DOMAIN views : SortsBefore(views[k], s, e)}
             T == {k \in 1..(Len(views) + 1) :
                      k = Len(views) + 1 \/ ~SortsBefore(views[k], s, e)}
  <1>1. Len(views) \in Nat /\ DOMAIN views = 1..Len(views)
    BY DEF Listed
  <1>2. T \subseteq Nat /\ Len(views) + 1 \in T
    BY <1>1
  <1>3. PICK m \in T : \A k \in T : m <= k
    BY <1>2, LeastNat
  <1>4. m \in 1..(Len(views) + 1)
    BY <1>3
  <1>5. ASSUME NEW k \in DOMAIN views, k < m PROVE SortsBefore(views[k], s, e)
    <2>1. k \notin T
      BY <1>1, <1>3, <1>4, <1>5
    <2> QED BY <1>1, <2>1
  <1>6. ASSUME NEW k \in DOMAIN views, m <= k PROVE ~SortsBefore(views[k], s, e)
    <2>1. m \in DOMAIN views /\ ~SortsBefore(views[m], s, e)
      BY <1>1, <1>3, <1>4, <1>6
    <2>2. m = k \/ SortsBefore(views[m], views[k].start, views[k].end)
      BY <1>1, <1>4, <1>6, <2>1 DEF Listed
    <2> QED BY <2>1, <2>2, ListedFields, Sorts
  <1>7. S = 1..(m - 1)
    BY <1>1, <1>4, <1>5, <1>6
  <1>8. Cardinality(S) = m - 1
    <2>1. PICK n \in Nat : n = m - 1
      BY <1>1, <1>4
    <2>2. Cardinality(1..n) = IF 1 > n THEN 0 ELSE n - 1 + 1
      BY <2>1, FS_Interval
    <2>3. Cardinality(1..n) = n
      BY <2>1, <2>2
    <2> HIDE DEF S
    <2> QED BY <1>7, <2>1, <2>3
  <1> HIDE DEF S
  <1>9. Cardinality(S) + 1 = m
    BY <1>1, <1>4, <1>8
  <1> QED BY <1>4, <1>5, <1>6, <1>9 DEF S

InsertedAt(s, t, p, x, n) ==
    /\ Len(t) = n + 1 /\ DOMAIN t = 1..(n + 1)
    /\ \A k \in 1..(n + 1) : t[k] = IF k < p THEN s[k] ELSE IF k = p THEN x ELSE s[k - 1]

LEMMA Inserted ==
    ASSUME NEW R, NEW s \in Seq(R), NEW x \in R, NEW p \in 1..(Len(s) + 1),
           NEW n \in Nat, n = Len(s)
    PROVE  InsertAt(s, p, x) \in Seq(R) /\ InsertedAt(s, InsertAt(s, p, x), p, x, n)
  <1> DEFINE a == SubSeq(s, 1, p - 1)
             b == SubSeq(s, p, Len(s))
             c == <<x>>
             ac == a \o c
             t == ac \o b
  <1>1. n \in Nat /\ p \in Nat /\ 1 <= p /\ p <= n + 1
    OBVIOUS
  <1>2. a \in Seq(R) /\ Len(a) = p - 1 /\ \A k \in 1..(p - 1) : a[k] = s[k]
    BY <1>1
  <1>3. b \in Seq(R) /\ Len(b) = n + 1 - p /\ \A k \in 1..(n + 1 - p) : b[k] = s[k + p - 1]
    BY <1>1
  <1>4. c \in Seq(R) /\ Len(c) = 1 /\ c[1] = x
    OBVIOUS
  <1>5. InsertAt(s, p, x) = t
    BY DEF InsertAt
  <1> HIDE DEF a, b, c
  <1>6. /\ ac \in Seq(R) /\ Len(ac) = Len(a) + Len(c)
        /\ \A k \in 1..(Len(a) + Len(c)) : ac[k] = IF k <= Len(a) THEN a[k] ELSE c[k - Len(a)]
    <2>1. a \in Seq(R) /\ c \in Seq(R)
      BY <1>2, <1>4
    <2> QED BY <2>1, ConcatProperties
  <1> HIDE DEF ac
  <1>7. /\ ac \in Seq(R) /\ Len(ac) = p
        /\ \A k \in 1..p : ac[k] = IF k <= p - 1 THEN a[k] ELSE c[k - (p - 1)]
    <2>1. Len(a) + Len(c) = p
      BY <1>1, <1>2, <1>4
    <2> QED BY <1>2, <1>6, <2>1
  <1>8. /\ t \in Seq(R) /\ Len(t) = Len(ac) + Len(b)
        /\ \A k \in 1..(Len(ac) + Len(b)) : t[k] = IF k <= Len(ac) THEN ac[k] ELSE b[k - Len(ac)]
    <2>1. ac \in Seq(R) /\ b \in Seq(R)
      BY <1>3, <1>7
    <2> HIDE DEF ac, b
    <2> QED BY <2>1, ConcatProperties
  <1> HIDE DEF t
  <1>9. /\ t \in Seq(R) /\ Len(t) = n + 1
        /\ \A k \in 1..(n + 1) : t[k] = IF k <= p THEN ac[k] ELSE b[k - p]
    <2>1. Len(ac) + Len(b) = n + 1
      BY <1>1, <1>3, <1>7
    <2> QED BY <1>7, <1>8, <2>1
  <1>10. ASSUME NEW k \in 1..(n + 1)
        PROVE  t[k] = IF k < p THEN s[k] ELSE IF k = p THEN x ELSE s[k - 1]
    <2>1. CASE k > p
      <3>1. k - p \in 1..(n + 1 - p) /\ (k - p) + p - 1 = k - 1
        BY <1>1, <2>1
      <3>2. b[k - p] = s[(k - p) + p - 1]
        BY <1>3, <3>1
      <3>3. t[k] = b[k - p]
        BY <1>1, <1>9, <2>1
      <3> QED BY <1>1, <2>1, <3>1, <3>2, <3>3
    <2>2. CASE k = p
      <3>1. t[k] = c[p - (p - 1)] /\ p - (p - 1) = 1
        BY <1>1, <1>7, <1>9, <2>2
      <3> QED BY <1>1, <1>4, <2>2, <3>1
    <2>3. CASE k < p
      <3>1. k \in 1..(p - 1) /\ k \in 1..p
        BY <1>1, <2>3
      <3> QED BY <1>1, <1>2, <1>7, <1>9, <2>3, <3>1
    <2> QED BY <1>1, <2>1, <2>2, <2>3
  <1>11. DOMAIN t = 1..(n + 1)
    BY <1>9
  <1> QED BY <1>5, <1>9, <1>10, <1>11 DEF InsertedAt

LEMMA Removed ==
    ASSUME NEW R, NEW s \in Seq(R), NEW p \in DOMAIN s,
           NEW n \in Nat, n = Len(s)
    PROVE  LET t == RemoveAt(s, p)
           IN  /\ t \in Seq(R) /\ DOMAIN t = 1..(n - 1)
               /\ \A k \in 1..(n - 1) : t[k] = IF k < p THEN s[k] ELSE s[k + 1]
  <1> DEFINE a == SubSeq(s, 1, p - 1)
             b == SubSeq(s, p + 1, Len(s))
             t == a \o b
  <1>1. n \in Nat /\ p \in Nat /\ 1 <= p /\ p <= n
    OBVIOUS
  <1>2. a \in Seq(R) /\ Len(a) = p - 1 /\ \A k \in 1..(p - 1) : a[k] = s[k]
    BY <1>1
  <1>3. b \in Seq(R) /\ Len(b) = n - p /\ \A k \in 1..(n - p) : b[k] = s[k + p]
    BY <1>1
  <1>4. RemoveAt(s, p) = t
    BY DEF RemoveAt
  <1> HIDE DEF a, b
  <1>5. /\ t \in Seq(R) /\ Len(t) = Len(a) + Len(b)
        /\ \A k \in 1..(Len(a) + Len(b)) : t[k] = IF k <= Len(a) THEN a[k] ELSE b[k - Len(a)]
    <2>1. a \in Seq(R) /\ b \in Seq(R)
      BY <1>2, <1>3
    <2> QED BY <2>1, ConcatProperties
  <1> HIDE DEF t
  <1>6. /\ t \in Seq(R) /\ Len(t) = n - 1
        /\ \A k \in 1..(n - 1) : t[k] = IF k <= p - 1 THEN a[k] ELSE b[k - (p - 1)]
    <2>1. Len(a) + Len(b) = n - 1
      BY <1>1, <1>2, <1>3
    <2> QED BY <1>2, <1>5, <2>1
  <1>7. ASSUME NEW k \in 1..(n - 1)
        PROVE  t[k] = IF k < p THEN s[k] ELSE s[k + 1]
    <2>1. CASE k >= p
      <3>1. k - (p - 1) \in 1..(n - p) /\ (k - (p - 1)) + p = k + 1
        BY <1>1, <2>1
      <3>2. b[k - (p - 1)] = s[(k - (p - 1)) + p]
        BY <1>3, <3>1
      <3>3. t[k] = b[k - (p - 1)]
        BY <1>1, <1>6, <2>1
      <3> QED BY <1>1, <2>1, <3>1, <3>2, <3>3
    <2>2. CASE k < p
      <3>1. k \in 1..(p - 1) /\ k <= p - 1
        BY <1>1, <2>2
      <3> QED BY <1>2, <1>6, <2>2, <3>1
    <2> QED BY <1>1, <2>1, <2>2
  <1>8. DOMAIN t = 1..(n - 1)
    BY <1>6
  <1> QED BY <1>4, <1>6, <1>7, <1>8

(* Counting one more or less in place.                                     *)
Recount(views, t, j, c) ==
    /\ t \in Seq(ViewRec) /\ DOMAIN t = DOMAIN views
    /\ \A k \in DOMAIN views :
          t[k] = IF k = j THEN [views[k] EXCEPT !.count = c] ELSE views[k]
CountIs(views, t, s, e, c) ==
    \A a, b \in 0..NPages :
        CountOf(t, a, b) = IF a = s /\ b = e THEN c ELSE CountOf(views, a, b)

LEMMA Recounted ==
    ASSUME NEW views, Listed(views), NEW t,
           NEW j \in DOMAIN views, NEW c \in Nat \ {0}, Recount(views, t, j, c)
    PROVE  Listed(t) /\ CountIs(views, t, views[j].start, views[j].end, c)
  <1>0. /\ t \in Seq(ViewRec) /\ DOMAIN t = DOMAIN views
        /\ \A k \in DOMAIN views :
              t[k] = IF k = j THEN [views[k] EXCEPT !.count = c] ELSE views[k]
    BY DEF Recount
  <1>1. \A k \in DOMAIN views :
           /\ t[k].start = views[k].start /\ t[k].end = views[k].end
           /\ t[k].count = IF k = j THEN c ELSE views[k].count
    BY <1>0, ListedFields DEF ViewRec
  <1>2. Listed(t)
    BY <1>0, <1>1 DEF Listed, SortsBefore
  <1>3. ASSUME NEW s \in 0..NPages, NEW e \in 0..NPages
        PROVE  CountOf(t, s, e) = IF s = views[j].start /\ e = views[j].end
                                  THEN c ELSE CountOf(views, s, e)
    <2>1. CASE \E k \in DOMAIN views : views[k].start = s /\ views[k].end = e
      <3>1. PICK k \in DOMAIN views : views[k].start = s /\ views[k].end = e
        BY <2>1
      <3>2. CountOf(views, s, e) = views[k].count
        BY <3>1, CountAt
      <3>3. CountOf(t, s, e) = t[k].count
        BY <1>0, <1>1, <1>2, <3>1, CountAt
      <3>4. k = j <=> (s = views[j].start /\ e = views[j].end)
        BY <3>1, OneEntry
      <3> QED BY <1>1, <3>2, <3>3, <3>4
    <2>2. CASE ~ \E k \in DOMAIN views : views[k].start = s /\ views[k].end = e
      <3>1. CountOf(views, s, e) = 0
        BY <2>2, CountNone
      <3>2. CountOf(t, s, e) = 0
        BY <1>0, <1>1, <2>2, CountNone
      <3> QED BY <2>2, <3>1, <3>2
    <2> QED BY <2>1, <2>2
  <1> QED BY <1>2, <1>3 DEF CountIs

(* view_add() of an interval that needs no node, or with one.              *)
AddedTo(views, t, s, e) ==
    /\ Listed(t)
    /\ \A a, b \in 0..NPages :
          CountOf(t, a, b) = CountOf(views, a, b) + (IF a = s /\ b = e THEN 1 ELSE 0)

LEMMA AddSame ==
    ASSUME NEW views, Listed(views), NEW s \in 0..NPages, NEW e \in 0..NPages,
           NEW node, EntriesOf(views, s, e) # {}
    PROVE  AddedTo(views, view_add(views, s, e, node), s, e)
  <1>1. PICK j \in DOMAIN views : views[j].start = s /\ views[j].end = e
    BY DEF EntriesOf
  <1>2. EntriesOf(views, s, e) = {j}
    BY <1>1, OneEntry DEF EntriesOf
  <1> DEFINE t == [k \in DOMAIN views |->
                     IF k = j THEN [views[k] EXCEPT !.count = @ + 1] ELSE views[k]]
  <1>3. view_add(views, s, e, node) = t
    BY <1>2 DEF view_add
  <1>4. PICK c \in Nat \ {0} : c = views[j].count + 1
    BY <1>1, ListedFields, ViewFields
  <1>5. \A k \in DOMAIN views :
           t[k] = IF k = j THEN [views[k] EXCEPT !.count = c] ELSE views[k]
    BY <1>4
  <1>6. DOMAIN t = DOMAIN views
    OBVIOUS
  <1>7. t \in Seq(ViewRec)
    <2>1. views \in Seq(ViewRec)
      BY DEF Listed
    <2>2. PICK n \in Nat : DOMAIN views = 1..n
      BY <2>1
    <2>3. \A k \in 1..n : t[k] \in ViewRec
      BY SMTT(30), <1>5, <2>2, ListedFields DEF ViewRec
    <2>4. t \in [1..n -> ViewRec]
      BY <2>2, <2>3
    <2> HIDE DEF t
    <2> QED BY <2>2, <2>4
  <1> HIDE DEF t
  <1>11. Recount(views, t, j, c)
    BY <1>5, <1>6, <1>7 DEF Recount
  <1>12. Listed(t) /\ CountIs(views, t, views[j].start, views[j].end, c)
    BY <1>1, <1>4, <1>11, Recounted
  <1>8. /\ Listed(t)
        /\ \A a, b \in 0..NPages :
              CountOf(t, a, b) = IF a = views[j].start /\ b = views[j].end
                                 THEN c ELSE CountOf(views, a, b)
    BY <1>12 DEF CountIs
  <1>9. CountOf(views, s, e) = views[j].count
    BY <1>1, CountAt
  <1>10. ASSUME NEW a \in 0..NPages, NEW b \in 0..NPages
         PROVE  CountOf(t, a, b) = CountOf(views, a, b) + (IF a = s /\ b = e THEN 1 ELSE 0)
    <2>1. CountOf(views, a, b) \in Nat
      BY CountPositive
    <2> QED BY <1>1, <1>4, <1>8, <1>9, <2>1
  <1> QED BY <1>3, <1>8, <1>10 DEF AddedTo

LEMMA AddNew ==
    ASSUME NEW views, Listed(views), NEW s \in 0..NPages, NEW e \in 0..NPages, s < e,
           NEW node, EntriesOf(views, s, e) = {}, views = <<>> \/ node
    PROVE  AddedTo(views, view_add(views, s, e, node), s, e)
  <1>1. PICK n \in Nat : n = Len(views) /\ DOMAIN views = 1..n
    BY DEF Listed
  <1>2. views \in Seq(ViewRec)
    BY DEF Listed
  <1>3. s \in Nat /\ e \in Nat
    BY Sizes
  <1>4. PICK p \in 1..(n + 1) :
            /\ p = Cardinality({k \in DOMAIN views : SortsBefore(views[k], s, e)}) + 1
            /\ \A k \in DOMAIN views : k < p => SortsBefore(views[k], s, e)
            /\ \A k \in DOMAIN views : p <= k => ~SortsBefore(views[k], s, e)
    BY <1>1, <1>3, Position
  <1> DEFINE x == View(s, e, 1)
  <1>5. x \in ViewRec /\ x.start = s /\ x.end = e /\ x.count = 1
    BY <1>3 DEF View, ViewRec
  <1> HIDE DEF x
  <1>0. p \in 1..(Len(views) + 1)
    BY <1>1
  <1> DEFINE t == InsertAt(views, p, x)
  <1>6. /\ t \in Seq(ViewRec) /\ DOMAIN t = 1..(n + 1)
        /\ \A k \in 1..(n + 1) :
              t[k] = IF k < p THEN views[k] ELSE IF k = p THEN x ELSE views[k - 1]
    <2>1. t \in Seq(ViewRec) /\ InsertedAt(views, t, p, x, n)
      BY <1>0, <1>1, <1>2, <1>5, Inserted
    <2> HIDE DEF t
    <2> QED BY <2>1 DEF InsertedAt
  <1>7. view_add(views, s, e, node) = t
    BY <1>4 DEF view_add, x
  <1> HIDE DEF t
  <1>8. p \in Nat /\ p <= n + 1 /\ p >= 1
    BY <1>1
  <1>9. \A k \in 1..n : views[k] \in ViewRec /\ ~(views[k].start = s /\ views[k].end = e)
    BY <1>1, ListedFields DEF EntriesOf
  <1>10. ASSUME NEW j \in DOMAIN t, NEW k \in DOMAIN t, j < k
         PROVE  SortsBefore(t[j], t[k].start, t[k].end)
    <2>1. j \in Nat /\ k \in Nat /\ j >= 1 /\ k <= n + 1
      BY <1>6
    <2>2. CASE k < p
      <3>1. j \in DOMAIN views /\ k \in DOMAIN views /\ t[j] = views[j] /\ t[k] = views[k]
        BY <1>1, <1>6, <1>8, <1>10, <2>1, <2>2
      <3> QED BY <1>10, <3>1 DEF Listed
    <2>3. CASE k = p
      <3>1. j \in DOMAIN views /\ j < p /\ t[j] = views[j] /\ t[k] = x
        BY <1>1, <1>6, <1>8, <1>10, <2>1, <2>3
      <3> QED BY <1>4, <1>5, <3>1
    <2>4. CASE p < k /\ j < p
      <3>1. /\ j \in DOMAIN views /\ k - 1 \in DOMAIN views /\ j < k - 1
            /\ t[j] = views[j] /\ t[k] = views[k - 1]
        BY <1>1, <1>6, <1>8, <1>10, <2>1, <2>4
      <3> QED BY <3>1 DEF Listed
    <2>5. CASE j = p
      <3>1. k - 1 \in DOMAIN views /\ p <= k - 1 /\ t[j] = x /\ t[k] = views[k - 1]
        BY <1>1, <1>6, <1>8, <1>10, <2>1, <2>5
      <3>2. ~SortsBefore(views[k - 1], s, e)
        BY <1>4, <3>1
      <3>3. k - 1 \in 1..n
        BY <1>1, <3>1
      <3>4. s < views[k - 1].start \/ (s = views[k - 1].start /\ e < views[k - 1].end)
        BY <1>3, <1>9, <3>2, <3>3, Sorts
      <3> QED BY <1>5, <3>1, <3>4 DEF SortsBefore
    <2>6. CASE p < j
      <3>1. /\ j - 1 \in DOMAIN views /\ k - 1 \in DOMAIN views /\ j - 1 < k - 1
            /\ t[j] = views[j - 1] /\ t[k] = views[k - 1]
        BY <1>1, <1>6, <1>8, <1>10, <2>1, <2>6
      <3> QED BY <3>1 DEF Listed
    <2> QED BY <1>8, <1>10, <2>1, <2>2, <2>3, <2>4, <2>5, <2>6
  <1>11. Listed(t)
    BY <1>6, <1>10 DEF Listed
  <1>12. ASSUME NEW a \in 0..NPages, NEW b \in 0..NPages
         PROVE  CountOf(t, a, b) = CountOf(views, a, b) + (IF a = s /\ b = e THEN 1 ELSE 0)
    <2>1. CASE a = s /\ b = e
      <3>1. CountOf(views, a, b) = 0
        BY <1>1, <1>9, <2>1, CountNone
      <3>2. p \in DOMAIN t /\ t[p] = x
        BY <1>6, <1>8
      <3>3. CountOf(t, a, b) = 1
        BY <1>5, <1>11, <2>1, <3>2, CountAt
      <3> QED BY <2>1, <3>1, <3>3
    <2>2. CASE ~(a = s /\ b = e) /\ \E k \in DOMAIN views : views[k].start = a /\ views[k].end = b
      <3>1. PICK k \in DOMAIN views : views[k].start = a /\ views[k].end = b
        BY <2>2
      <3>2. PICK j \in DOMAIN t : t[j] = views[k]
        <4>1. CASE k < p
          BY <1>1, <1>6, <1>8, <3>1, <4>1
        <4>2. CASE p <= k
          <5>1. k + 1 \in 1..(n + 1) /\ ~(k + 1 < p) /\ k + 1 # p /\ (k + 1) - 1 = k
            BY <1>1, <1>8, <3>1, <4>2
          <5>2. t[k + 1] = views[(k + 1) - 1]
            BY <1>6, <5>1
          <5> QED BY <1>6, <5>1, <5>2
        <4> QED BY <1>1, <1>8, <3>1, <4>1, <4>2
      <3>3. CountOf(views, a, b) = views[k].count
        BY <3>1, CountAt
      <3>4. CountOf(t, a, b) = views[k].count
        BY <1>11, <3>1, <3>2, CountAt
      <3>5. views[k].count \in Nat
        BY <3>1, ListedFields, ViewFields
      <3> QED BY <2>2, <3>3, <3>4, <3>5
    <2>3. CASE ~(a = s /\ b = e) /\ ~ \E k \in DOMAIN views : views[k].start = a /\ views[k].end = b
      <3>1. ASSUME NEW j \in DOMAIN t PROVE ~(t[j].start = a /\ t[j].end = b)
        <4>1. j = p \/ (j < p /\ j \in DOMAIN views) \/ (p < j /\ j - 1 \in DOMAIN views)
          BY <1>1, <1>6, <1>8
        <4>2. t[j] = x \/ \E k \in DOMAIN views : t[j] = views[k]
          BY <1>6, <1>8, <4>1
        <4> QED BY <1>5, <2>3, <4>2
      <3> QED BY <2>3, <3>1, CountNone
    <2> QED BY <2>1, <2>2, <2>3
  <1> QED BY <1>7, <1>11, <1>12 DEF AddedTo

LEMMA AddView ==
    ASSUME NEW views, Listed(views), NEW s \in 0..NPages, NEW e \in 0..NPages, s < e,
           NEW node
    PROVE  /\ Listed(view_add(views, s, e, node))
           /\ EntriesOf(views, s, e) # {} \/ views = <<>> \/ node =>
                 AddedTo(views, view_add(views, s, e, node), s, e)
  <1>1. CASE EntriesOf(views, s, e) # {} \/ views = <<>> \/ node
    BY <1>1, AddSame, AddNew DEF AddedTo
  <1>2. CASE ~(EntriesOf(views, s, e) # {} \/ views = <<>> \/ node)
    BY <1>2 DEF view_add
  <1> QED BY <1>1, <1>2

LEMMA NoViews == Listed(<<>>) /\ \A s, e : CountOf(<<>>, s, e) = 0
  BY DEF Listed, CountOf, EntriesOf

(* view_del() of an interval that is in the list, or is not.               *)
LEMMA DelView ==
    ASSUME NEW views, Listed(views), NEW s \in 0..NPages, NEW e \in 0..NPages
    PROVE  /\ Listed(view_del(views, s, e))
           /\ \A a, b \in 0..NPages :
                 CountOf(view_del(views, s, e), a, b) =
                    IF a = s /\ b = e /\ CountOf(views, s, e) > 0
                    THEN CountOf(views, a, b) - 1 ELSE CountOf(views, a, b)
  <1>1. CASE EntriesOf(views, s, e) = {}
    <2>1. view_del(views, s, e) = views
      BY <1>1 DEF view_del
    <2>2. CountOf(views, s, e) = 0
      BY <1>1 DEF CountOf
    <2> QED BY <2>1, <2>2
  <1>2. CASE EntriesOf(views, s, e) # {}
    <2>1. PICK j \in DOMAIN views : views[j].start = s /\ views[j].end = e
      BY <1>2 DEF EntriesOf
    <2>2. EntriesOf(views, s, e) = {j}
      BY <2>1, OneEntry DEF EntriesOf
    <2>3. CountOf(views, s, e) = views[j].count /\ views[j].count \in Nat \ {0}
      BY <2>1, CountAt, ListedFields, ViewFields
    <2>4. CASE views[j].count > 1
      <3> DEFINE t == [views EXCEPT ![j].count = @ - 1]
      <3>1. view_del(views, s, e) = t
        BY <2>2, <2>4 DEF view_del
      <3>2. PICK c \in Nat \ {0} : c = views[j].count - 1
        BY <2>3, <2>4
      <3>3. \A k \in DOMAIN views :
               t[k] = IF k = j THEN [views[k] EXCEPT !.count = c] ELSE views[k]
        BY <2>1, <3>2
      <3>4. DOMAIN t = DOMAIN views
        OBVIOUS
      <3>5. t \in Seq(ViewRec)
        <4>1. views \in Seq(ViewRec)
          BY DEF Listed
        <4>2. PICK n \in Nat : DOMAIN views = 1..n
          BY <4>1
        <4>3. \A k \in 1..n : t[k] \in ViewRec
          BY ZenonT(60), <3>3, <4>2, ListedFields DEF ViewRec
        <4>4. t = [k \in 1..n |-> t[k]]
          BY <4>1, <4>2
        <4>5. t \in [1..n -> ViewRec]
          BY <4>3, <4>4
        <4> HIDE DEF t
        <4> QED BY <4>2, <4>5
      <3> HIDE DEF t
      <3>8. Recount(views, t, j, c)
        BY <3>3, <3>4, <3>5 DEF Recount
      <3>9. Listed(t) /\ CountIs(views, t, views[j].start, views[j].end, c)
        BY <2>1, <3>2, <3>8, Recounted
      <3>6. /\ Listed(t)
            /\ \A a, b \in 0..NPages :
                  CountOf(t, a, b) = IF a = views[j].start /\ b = views[j].end
                                     THEN c ELSE CountOf(views, a, b)
        BY <3>9 DEF CountIs
      <3>7. \A a, b \in 0..NPages : CountOf(views, a, b) \in Nat
        BY CountPositive
      <3> QED BY <2>1, <2>3, <3>1, <3>2, <3>6, <3>7
    <2>5. CASE views[j].count = 1
      <3>1. PICK n \in Nat : n = Len(views) /\ DOMAIN views = 1..n
        BY DEF Listed
      <3>2. views \in Seq(ViewRec)
        BY DEF Listed
      <3> DEFINE t == RemoveAt(views, j)
      <3>3. /\ t \in Seq(ViewRec) /\ DOMAIN t = 1..(n - 1)
            /\ \A k \in 1..(n - 1) : t[k] = IF k < j THEN views[k] ELSE views[k + 1]
        BY <2>1, <3>1, <3>2, Removed
      <3>4. view_del(views, s, e) = t
        BY <2>2, <2>5 DEF view_del
      <3> HIDE DEF t
      <3>5. j \in Nat /\ 1 <= j /\ j <= n
        BY <2>1, <3>1
      <3>6. ASSUME NEW i \in DOMAIN t, NEW k \in DOMAIN t, i < k
            PROVE  SortsBefore(t[i], t[k].start, t[k].end)
        <4>1. i \in 1..(n - 1) /\ k \in 1..(n - 1)
          BY <3>3
        <4>2. PICK x, y \in DOMAIN views : x < y /\ t[i] = views[x] /\ t[k] = views[y]
          <5>1. CASE k < j
            BY <3>1, <3>3, <3>5, <3>6, <4>1, <5>1
          <5>2. CASE i < j /\ j <= k
            <6>1. i \in DOMAIN views /\ k + 1 \in DOMAIN views /\ i < k + 1
              BY <3>1, <3>6, <4>1
            <6> QED BY <3>3, <3>5, <4>1, <5>2, <6>1
          <5>3. CASE j <= i
            <6>1. i + 1 \in DOMAIN views /\ k + 1 \in DOMAIN views /\ i + 1 < k + 1
              BY <3>1, <3>6, <4>1
            <6> QED BY <3>3, <3>5, <3>6, <4>1, <5>3, <6>1
          <5> QED BY <3>5, <3>6, <4>1, <5>1, <5>2, <5>3
        <4> QED BY <4>2 DEF Listed
      <3>7. Listed(t)
        BY <3>3, <3>6 DEF Listed
      <3>8. ASSUME NEW k \in DOMAIN t
            PROVE  \E x \in DOMAIN views : x # j /\ t[k] = views[x]
        <4>1. CASE k < j
          BY <3>1, <3>3, <3>5, <4>1
        <4>2. CASE j <= k
          <5>1. k + 1 \in DOMAIN views /\ k + 1 # j
            BY <3>1, <3>3, <3>5, <4>2
          <5> QED BY <3>3, <3>5, <4>2, <5>1
        <4> QED BY <3>3, <3>5, <4>1, <4>2
      <3>9. ASSUME NEW x \in DOMAIN views, x # j
            PROVE  \E k \in DOMAIN t : t[k] = views[x]
        <4>1. CASE x < j
          BY <3>1, <3>3, <3>5, <4>1
        <4>2. CASE j < x
          <5>1. x - 1 \in DOMAIN t /\ ~(x - 1 < j) /\ (x - 1) + 1 = x
            BY <3>1, <3>3, <3>5, <4>2
          <5>2. t[x - 1] = views[(x - 1) + 1]
            BY <3>3, <5>1
          <5> QED BY <5>1, <5>2
        <4> QED BY <3>1, <3>5, <3>9, <4>1, <4>2
      <3>10. ASSUME NEW a \in 0..NPages, NEW b \in 0..NPages
             PROVE  CountOf(t, a, b) = IF a = s /\ b = e /\ CountOf(views, s, e) > 0
                                       THEN CountOf(views, a, b) - 1 ELSE CountOf(views, a, b)
        <4>1. CASE a = s /\ b = e
          <5>1. \A k \in DOMAIN t : ~(t[k].start = a /\ t[k].end = b)
            BY <2>1, <3>8, <4>1, OneEntry
          <5>2. CountOf(t, a, b) = 0
            BY <5>1, CountNone
          <5> QED BY <2>3, <2>5, <4>1, <5>2
        <4>2. CASE ~(a = s /\ b = e) /\ \E x \in DOMAIN views : views[x].start = a /\ views[x].end = b
          <5>1. PICK x \in DOMAIN views : views[x].start = a /\ views[x].end = b
            BY <4>2
          <5>2. x # j
            BY <2>1, <4>2, <5>1
          <5>3. PICK k \in DOMAIN t : t[k] = views[x]
            BY <3>9, <5>1, <5>2
          <5>4. CountOf(views, a, b) = views[x].count
            BY <5>1, CountAt
          <5>5. CountOf(t, a, b) = t[k].count
            BY <3>7, <5>1, <5>3, CountAt
          <5> QED BY <4>2, <5>3, <5>4, <5>5
        <4>3. CASE ~ \E x \in DOMAIN views : views[x].start = a /\ views[x].end = b
          <5>1. \A k \in DOMAIN t : ~(t[k].start = a /\ t[k].end = b)
            BY <3>8, <4>3
          <5>2. CountOf(t, a, b) = 0 /\ CountOf(views, a, b) = 0
            BY <4>3, <5>1, CountNone
          <5> QED BY <2>1, <4>3, <5>2
        <4> QED BY <4>1, <4>2, <4>3
      <3> QED BY <3>4, <3>7, <3>10
    <2> QED BY <2>3, <2>4, <2>5
  <1> QED BY <1>1, <1>2

LEMMA SplitView ==
    ASSUME NEW views, Listed(views), NEW s \in 0..NPages, NEW e \in 0..NPages,
           NEW mid \in 0..NPages, s < mid, mid < e, NEW fails
    PROVE  /\ Listed(view_split(views, s, e, mid, fails))
           /\ ~fails => \A a, b \in 0..NPages :
                 CountOf(view_split(views, s, e, mid, fails), a, b) =
                    IF a = s /\ b = e /\ CountOf(views, s, e) > 0
                    THEN CountOf(views, a, b) - 1
                    ELSE CountOf(views, a, b) + (IF a = s /\ b = mid THEN 1 ELSE 0)
                                              + (IF a = mid /\ b = e THEN 1 ELSE 0)
  <1>1. CASE fails
    BY <1>1 DEF view_split
  <1>2. CASE ~fails
    <2> DEFINE x == view_del(views, s, e)
               y == view_add(x, s, mid, TRUE)
               z == view_add(y, mid, e, TRUE)
    <2>4. view_split(views, s, e, mid, fails) = z
      BY <1>2 DEF view_split
    <2>5. /\ Listed(x)
          /\ \A a, b \in 0..NPages :
                CountOf(x, a, b) = IF a = s /\ b = e /\ CountOf(views, s, e) > 0
                                   THEN CountOf(views, a, b) - 1 ELSE CountOf(views, a, b)
      BY ZenonT(60), DelView
    <2> HIDE DEF x
    <2>6. AddedTo(x, y, s, mid)
      BY <2>5, AddView
    <2> HIDE DEF y
    <2>1. Listed(y)
      BY <2>6 DEF AddedTo
    <2>7. AddedTo(y, z, mid, e)
      BY <2>1, AddView
    <2> HIDE DEF z
    <2>8. s # mid /\ mid # e
      BY Sizes
    <2>9. \A a, b \in 0..NPages : CountOf(views, a, b) \in Nat
      BY CountPositive
    <2>10. \A a, b \in 0..NPages :
              CountOf(z, a, b) = IF a = s /\ b = e /\ CountOf(views, s, e) > 0
                    THEN CountOf(views, a, b) - 1
                    ELSE CountOf(views, a, b) + (IF a = s /\ b = mid THEN 1 ELSE 0)
                                              + (IF a = mid /\ b = e THEN 1 ELSE 0)
      <3> TAKE a, b \in 0..NPages
      <3>1. CountOf(z, a, b) = CountOf(y, a, b) + (IF a = mid /\ b = e THEN 1 ELSE 0)
        BY <2>7 DEF AddedTo
      <3>2. CountOf(y, a, b) = CountOf(x, a, b) + (IF a = s /\ b = mid THEN 1 ELSE 0)
        BY <2>6 DEF AddedTo
      <3> QED BY <2>5, <2>8, <2>9, <3>1, <3>2
    <2> QED BY <2>4, <2>7, <2>10 DEF AddedTo
  <1> QED BY <1>1, <1>2

-----------------------------------------------------------------------------
(* The walk of emp_vmdesc_view_find_uncovered().  Bare(views, k, p): the   *)
(* first k views leave page p uncovered.                                   *)
Walked == [lo : 0..NPages, hi : 0..NPages, fine : BOOLEAN, stop : BOOLEAN]
Steps(f, n, views, u) ==
    f[0] = u /\ \A k \in 1..n : f[k] = TrimBy(f[k - 1], views[k])
Bare(views, k, p) ==
    \A j \in 1..k : ~(views[j].start <= p /\ p < views[j].end)

LEMMA TrimByTyped ==
    ASSUME NEW u \in Walked, NEW v \in ViewRec
    PROVE  TrimBy(u, v) \in Walked
  <1>1. v.start \in 0..NPages /\ v.end \in 0..NPages
    BY ViewFields
  <1>2. 0 \in 0..NPages
    BY Sizes
  <1> QED BY <1>1, <1>2 DEF TrimBy, Walked

LEMMA WalkExists ==
    ASSUME NEW views \in Seq(ViewRec), NEW u \in Walked
    PROVE  \E f \in [0..Len(views) -> Walked] : Steps(f, Len(views), views, u)
  <1>1. PICK n \in Nat : n = Len(views)
    OBVIOUS
  <1> DEFINE S == {k \in 0..n : ~ \E f \in [0..k -> Walked] : Steps(f, k, views, u)}
  <1>2. CASE S = {}
    <2>1. n \notin S /\ n \in 0..n
      BY <1>1, <1>2
    <2> QED BY <1>1, <2>1
  <1>3. CASE S # {}
    <2>1. S \subseteq Nat
      OBVIOUS
    <2>2. PICK k \in S : \A m \in S : k <= m
      BY <1>3, <2>1, LeastNat
    <2>3. k # 0
      <3>1. [x \in 0..0 |-> u] \in [0..0 -> Walked]
        OBVIOUS
      <3>2. Steps([x \in 0..0 |-> u], 0, views, u)
        BY DEF Steps
      <3>3. 0 \notin S
        BY <3>1, <3>2
      <3> QED BY <3>3, <2>2
    <2>4. k \in Nat /\ k - 1 \in 0..n /\ k \in 1..n /\ k - 1 \notin S
      BY <1>1, <2>2, <2>3
    <2>5. PICK f \in [0..(k - 1) -> Walked] : Steps(f, k - 1, views, u)
      BY <2>4
    <2> DEFINE g == [x \in 0..k |-> IF x = k THEN TrimBy(f[k - 1], views[k]) ELSE f[x]]
    <2>6. views[k] \in ViewRec /\ f[k - 1] \in Walked
      BY <1>1, <2>4
    <2>7. \A x \in 0..k : g[x] \in Walked
      <3> TAKE x \in 0..k
      <3>1. CASE x = k
        BY <2>6, <3>1, TrimByTyped
      <3>2. CASE x # k
        BY <2>4, <3>2
      <3> QED BY <3>1, <3>2
    <2>8. g \in [0..k -> Walked]
      BY <2>7
    <2>9. \A x \in 1..k : g[x] = TrimBy(g[x - 1], views[x])
      <3> TAKE x \in 1..k
      <3>1. g[x - 1] = f[x - 1] /\ x - 1 \in 0..k
        BY <2>4
      <3>2. CASE x = k
        BY <2>4, <3>1, <3>2
      <3>3. CASE x # k
        <4>1. x \in 1..(k - 1) /\ g[x] = f[x]
          BY <2>4, <3>3
        <4> QED BY <2>5, <3>1, <4>1 DEF Steps
      <3> QED BY <3>2, <3>3
    <2>10. g[0] = u
      BY <2>4, <2>5 DEF Steps
    <2> HIDE DEF g
    <2>11. Steps(g, k, views, u)
      BY <2>9, <2>10 DEF Steps
    <2>12. k \notin S
      BY <2>8, <2>11
    <2> QED BY <2>2, <2>12
  <1> QED BY <1>2, <1>3

Start(s, e) == [lo |-> s, hi |-> e, fine |-> TRUE, stop |-> FALSE]

LEMMA WalkIs ==
    ASSUME NEW views \in Seq(ViewRec), NEW s \in 0..NPages, NEW e \in 0..NPages
    PROVE  \E f \in [0..Len(views) -> Walked] :
              /\ Steps(f, Len(views), views, Start(s, e))
              /\ find_uncovered(views, s, e) = f[Len(views)]
  <1>1. PICK n \in Nat : n = Len(views)
    OBVIOUS
  <1>2. Start(s, e) \in Walked
    BY DEF Start, Walked
  <1> DEFINE Rec(f) == f = [k \in 0..n |-> IF k = 0 THEN Start(s, e)
                                           ELSE TrimBy(f[k - 1], views[k])]
             left == CHOOSE f : Rec(f)
  <1>3. find_uncovered(views, s, e) = left[n]
    BY <1>1 DEF find_uncovered, Start
  <1>4. PICK f \in [0..n -> Walked] : Steps(f, n, views, Start(s, e))
    BY <1>1, <1>2, WalkExists
  <1>5. Rec(f)
    <2>1. \A k \in 0..n : f[k] = IF k = 0 THEN Start(s, e) ELSE TrimBy(f[k - 1], views[k])
      BY <1>4 DEF Steps
    <2> QED BY <2>1
  <1>6. Rec(left)
    BY <1>5
  <1>7. \A k \in 0..n : left[k] = IF k = 0 THEN Start(s, e) ELSE TrimBy(left[k - 1], views[k])
    BY <1>6
  <1> HIDE DEF left, Rec
  <1> DEFINE S == {k \in 0..n : left[k] # f[k]}
  <1>8. S = {}
    <2> SUFFICES ASSUME S # {} PROVE FALSE
      OBVIOUS
    <2>1. S \subseteq Nat
      OBVIOUS
    <2>2. PICK k \in S : \A m \in S : k <= m
      BY <2>1, LeastNat
    <2>3. CASE k = 0
      BY <1>1, <1>4, <1>7, <2>2, <2>3 DEF Steps
    <2>4. CASE k # 0
      <3>1. k \in 1..n /\ k - 1 \in 0..n /\ k - 1 \notin S
        BY <1>1, <2>2, <2>4
      <3>2. left[k - 1] = f[k - 1]
        BY <3>1
      <3>3. left[k] = TrimBy(left[k - 1], views[k])
        BY <1>7, <3>1
      <3> QED BY <1>4, <2>2, <3>1, <3>2, <3>3 DEF Steps
    <2> QED BY <2>3, <2>4
  <1>9. left[n] = f[n]
    BY <1>1, <1>8
  <1> QED BY <1>1, <1>3, <1>4, <1>9

(* What holds of the remainder after k views: as long as the walk goes on  *)
(* it is what they leave; once it has stopped the other views change       *)
(* nothing.                                                                *)
LeftBy(views, s, e, n, k, u) ==
    /\ ~u.stop =>
          /\ u.fine /\ s <= u.lo /\ u.lo < u.hi /\ u.hi = e
          /\ \A p \in s..(e - 1) : Bare(views, k, p) <=> u.lo <= p
    /\ u.stop /\ u.fine =>
          /\ \A p \in s..(e - 1) : Bare(views, n, p) <=> (u.lo <= p /\ p < u.hi)
          /\ u.lo = u.hi \/ (s <= u.lo /\ u.hi <= e)
    /\ u.stop /\ ~u.fine => \E p \in s..(e - 1) : Bare(views, n, p)

LEMMA BareStep ==
    ASSUME NEW views, NEW k \in Nat \ {0}, NEW p
    PROVE  Bare(views, k, p) <=>
              Bare(views, k - 1, p) /\ ~(views[k].start <= p /\ p < views[k].end)
  BY DEF Bare

LEMMA BareRest ==
    ASSUME NEW views, Listed(views), NEW n \in Nat, n = Len(views),
           NEW k \in 0..n, NEW p \in Nat, Bare(views, k, p),
           k < n => p < views[k + 1].start
    PROVE  Bare(views, n, p)
  <1> SUFFICES ASSUME NEW j \in 1..n PROVE ~(views[j].start <= p /\ p < views[j].end)
    BY DEF Bare
  <1>1. CASE j <= k
    BY <1>1 DEF Bare
  <1>2. CASE k < j
    <2>1. k + 1 \in DOMAIN views /\ j \in DOMAIN views /\ k + 1 <= j /\ DOMAIN views = 1..n
      BY <1>2 DEF Listed
    <2>2. views[k + 1].start \in Nat /\ views[j].start \in Nat
      BY <2>1, ListedFields, ViewFields
    <2>3. k + 1 = j \/ SortsBefore(views[k + 1], views[j].start, views[j].end)
      BY <2>1 DEF Listed
    <2>4. views[k + 1].start <= views[j].start
      BY <2>2, <2>3 DEF SortsBefore
    <2>5. p < views[k + 1].start
      BY <1>2
    <2> QED BY <2>2, <2>4, <2>5
  <1> QED BY <1>1, <1>2

LEMMA LeftByStep ==
    ASSUME NEW views, Listed(views), NEW n \in Nat, n = Len(views),
           NEW s \in 0..NPages, NEW e \in 0..NPages, s < e,
           NEW k \in 1..n, NEW u \in Walked, LeftBy(views, s, e, n, k - 1, u)
    PROVE  LeftBy(views, s, e, n, k, TrimBy(u, views[k]))
  <1>1. /\ k \in DOMAIN views /\ views[k] \in ViewRec
        /\ k \in Nat \ {0} /\ k <= n /\ k - 1 \in 0..n /\ k \in 0..n
    BY ListedFields DEF Listed
  <1>2. PICK a, b \in Nat : a = views[k].start /\ b = views[k].end /\ a < b
    BY <1>1, ViewFields
  <1>3. /\ s \in Nat /\ e \in Nat /\ u.lo \in Nat /\ u.hi \in Nat
        /\ u.fine \in BOOLEAN /\ u.stop \in BOOLEAN
        /\ u = [lo |-> u.lo, hi |-> u.hi, fine |-> u.fine, stop |-> u.stop]
    BY Sizes DEF Walked
  <1>4. CASE u.stop
    BY <1>4 DEF TrimBy, LeftBy
  <1>5. CASE ~u.stop
    <2>1. /\ u.fine /\ s <= u.lo /\ u.lo < u.hi /\ u.hi = e
          /\ \A p \in s..(e - 1) : Bare(views, k - 1, p) <=> u.lo <= p
      BY <1>5 DEF LeftBy
    <2>2. \A p \in s..(e - 1) : Bare(views, k, p) <=> u.lo <= p /\ ~(a <= p /\ p < b)
      BY <1>1, <1>2, <2>1, BareStep
    <2>3. ASSUME NEW p \in s..(e - 1), Bare(views, k - 1, p), p < a
          PROVE  Bare(views, n, p)
      <3>1. p \in Nat /\ (k - 1) + 1 = k
        BY <1>1, <1>3
      <3>2. k - 1 < n => p < views[(k - 1) + 1].start
        BY <1>2, <2>3, <3>1
      <3> QED BY <1>1, <2>3, <3>1, <3>2, BareRest
    <2>4. ASSUME NEW p \in s..(e - 1), Bare(views, n, p) PROVE Bare(views, k, p)
      BY <1>1, <2>4 DEF Bare
    <2>5. CASE b <= u.lo
      <3>1. TrimBy(u, views[k]) = u
        BY <1>2, <2>5 DEF TrimBy
      <3>2. \A p \in s..(e - 1) : Bare(views, k, p) <=> u.lo <= p
        BY <1>2, <1>3, <2>2, <2>5
      <3> QED BY <1>5, <2>1, <3>1, <3>2 DEF LeftBy
    <2>6. CASE u.lo < b /\ a >= u.hi
      <3>1. TrimBy(u, views[k]) = [u EXCEPT !.stop = TRUE]
        BY <1>2, <1>3, <1>5, <2>6 DEF TrimBy
      <3>2. PICK t : t = TrimBy(u, views[k])
        OBVIOUS
      <3>3. t.lo = u.lo /\ t.hi = u.hi /\ t.fine /\ t.stop
        BY <1>3, <2>1, <3>1, <3>2
      <3>4. \A p \in s..(e - 1) : Bare(views, n, p) <=> (u.lo <= p /\ p < u.hi)
        <4> TAKE p \in s..(e - 1)
        <4>1. p < u.hi /\ p < a
          BY <1>2, <1>3, <2>1, <2>6
        <4> QED BY <2>1, <2>2, <2>3, <2>4, <4>1
      <3>5. s <= t.lo /\ t.hi <= e
        BY <1>3, <2>1, <3>3
      <3> QED BY <3>2, <3>3, <3>4, <3>5 DEF LeftBy
    <2>7. CASE a <= u.lo /\ b >= u.hi
      <3>1. TrimBy(u, views[k]) = [u EXCEPT !.lo = 0, !.hi = 0, !.stop = TRUE]
        BY <1>2, <1>3, <1>5, <2>1, <2>7 DEF TrimBy
      <3>2. PICK t : t = TrimBy(u, views[k])
        OBVIOUS
      <3>3. t.lo = 0 /\ t.hi = 0 /\ t.fine /\ t.stop
        BY <1>3, <2>1, <3>1, <3>2
      <3>4. \A p \in s..(e - 1) : ~Bare(views, n, p)
        <4> TAKE p \in s..(e - 1)
        <4>1. u.lo <= p => a <= p /\ p < b
          BY <1>2, <1>3, <2>1, <2>7
        <4> QED BY <2>2, <2>4, <4>1
      <3>5. \A p \in s..(e - 1) : Bare(views, n, p) <=> (t.lo <= p /\ p < t.hi)
        BY <1>3, <3>3, <3>4
      <3> QED BY <3>2, <3>3, <3>5 DEF LeftBy
    <2>8. CASE u.lo < a /\ b < u.hi
      <3>1. TrimBy(u, views[k]) = [u EXCEPT !.fine = FALSE, !.stop = TRUE]
        BY <1>2, <1>3, <1>5, <2>1, <2>8 DEF TrimBy
      <3>2. PICK t : t = TrimBy(u, views[k])
        OBVIOUS
      <3>3. ~t.fine /\ t.stop
        BY <1>3, <3>1, <3>2
      <3>4. u.lo \in s..(e - 1) /\ Bare(views, n, u.lo)
        BY <1>2, <1>3, <2>1, <2>3, <2>8
      <3> QED BY <3>2, <3>3, <3>4 DEF LeftBy
    <2>9. CASE u.lo < b /\ a <= u.lo /\ b < u.hi
      <3>1. TrimBy(u, views[k]) = [u EXCEPT !.lo = b]
        BY <1>2, <1>3, <1>5, <2>1, <2>9 DEF TrimBy
      <3>2. PICK t : t = TrimBy(u, views[k])
        OBVIOUS
      <3>3. t.lo = b /\ t.hi = u.hi /\ t.fine /\ ~t.stop
        BY <1>3, <1>5, <2>1, <3>1, <3>2
      <3>4. \A p \in s..(e - 1) : Bare(views, k, p) <=> b <= p
        BY <1>2, <1>3, <2>2, <2>9
      <3>5. s <= b /\ b < e
        BY <1>2, <1>3, <2>1, <2>9
      <3> QED BY <2>1, <3>2, <3>3, <3>4, <3>5 DEF LeftBy
    <2>10. CASE u.lo < a /\ a < u.hi /\ b >= u.hi
      <3>1. TrimBy(u, views[k]) = [u EXCEPT !.hi = a, !.stop = TRUE]
        BY <1>2, <1>3, <1>5, <2>1, <2>10 DEF TrimBy
      <3>2. PICK t : t = TrimBy(u, views[k])
        OBVIOUS
      <3>3. t.lo = u.lo /\ t.hi = a /\ t.fine /\ t.stop
        BY <1>3, <2>1, <3>1, <3>2
      <3>4. \A p \in s..(e - 1) : Bare(views, n, p) <=> (u.lo <= p /\ p < a)
        <4> TAKE p \in s..(e - 1)
        <4>1. p < b
          BY <1>2, <1>3, <2>1, <2>10
        <4>2. Bare(views, n, p) => u.lo <= p /\ p < a
          BY <1>2, <1>3, <2>2, <2>4, <4>1
        <4>3. u.lo <= p /\ p < a => Bare(views, n, p)
          BY <2>1, <2>3
        <4> QED BY <4>2, <4>3
      <3>5. s <= u.lo /\ a <= e
        BY <1>2, <1>3, <2>1, <2>10
      <3> QED BY <3>2, <3>3, <3>4, <3>5 DEF LeftBy
    <2> QED BY <1>2, <1>3, <2>1, <2>5, <2>6, <2>7, <2>8, <2>9, <2>10
  <1> QED BY <1>3, <1>4, <1>5

LEMMA FoundUncovered ==
    ASSUME NEW views, Listed(views), NEW s \in 0..NPages, NEW e \in 0..NPages, s < e
    PROVE  /\ find_uncovered(views, s, e) \in Walked
           /\ find_uncovered(views, s, e).fine =>
                 {p \in s..(e - 1) : Bare(views, Len(views), p)} =
                    find_uncovered(views, s, e).lo..(find_uncovered(views, s, e).hi - 1)
           /\ ~find_uncovered(views, s, e).fine =>
                 \E p \in s..(e - 1) : Bare(views, Len(views), p)
  <1>1. views \in Seq(ViewRec)
    BY DEF Listed
  <1>2. PICK n \in Nat : n = Len(views)
    BY <1>1
  <1>3. PICK f \in [0..n -> Walked] :
            Steps(f, n, views, Start(s, e)) /\ find_uncovered(views, s, e) = f[n]
    BY <1>1, <1>2, WalkIs
  <1> DEFINE S == {k \in 0..n : ~LeftBy(views, s, e, n, k, f[k])}
  <1>4. S = {}
    <2> SUFFICES ASSUME S # {} PROVE FALSE
      OBVIOUS
    <2>1. S \subseteq Nat
      OBVIOUS
    <2>2. PICK k \in S : \A m \in S : k <= m
      BY <2>1, LeastNat
    <2>3. CASE k = 0
      <3>1. f[0] = Start(s, e)
        BY <1>3 DEF Steps
      <3>2. LeftBy(views, s, e, n, 0, Start(s, e))
        BY Sizes DEF LeftBy, Start, Bare
      <3> QED BY <2>2, <2>3, <3>1, <3>2
    <2>4. CASE k # 0
      <3>1. k \in 1..n /\ k - 1 \in 0..n /\ k - 1 \notin S
        BY <1>2, <2>2, <2>4
      <3>2. LeftBy(views, s, e, n, k - 1, f[k - 1]) /\ f[k - 1] \in Walked
        BY <3>1
      <3>3. f[k] = TrimBy(f[k - 1], views[k])
        BY <1>3, <3>1 DEF Steps
      <3>4. LeftBy(views, s, e, n, k, f[k])
        BY <1>2, <3>1, <3>2, <3>3, LeftByStep
      <3> QED BY <2>2, <3>4
    <2> QED BY <2>3, <2>4
  <1>5. PICK u \in Walked : u = f[n]
    BY <1>2
  <1>6. LeftBy(views, s, e, n, n, u)
    BY <1>2, <1>4, <1>5
  <1>7. s \in Nat /\ e \in Nat /\ u.lo \in Nat /\ u.hi \in Nat
    BY Sizes DEF Walked
  <1>8. ASSUME u.fine PROVE {p \in s..(e - 1) : Bare(views, n, p)} = u.lo..(u.hi - 1)
    <2>1. /\ \A p \in s..(e - 1) : Bare(views, n, p) <=> (u.lo <= p /\ p < u.hi)
          /\ u.lo = u.hi \/ (s <= u.lo /\ u.hi <= e)
      BY <1>6, <1>7, <1>8 DEF LeftBy, Walked
    <2> QED BY <1>7, <2>1
  <1>9. ASSUME ~u.fine PROVE \E p \in s..(e - 1) : Bare(views, n, p)
    BY <1>6, <1>9 DEF LeftBy, Walked
  <1> QED BY <1>2, <1>3, <1>5, <1>8, <1>9

-----------------------------------------------------------------------------
(* Pages and subblocks.                                                    *)
LEMMA TimesMono ==
    ASSUME NEW n \in Nat, NEW a \in Int, NEW b \in Int, a <= b
    PROVE  n * a <= n * b
  <1>1. PICK k \in Nat : b = a + k
    <2>1. b - a \in Nat /\ b = a + (b - a)
      OBVIOUS
    <2> QED BY <2>1
  <1>2. n * k >= 0
    OBVIOUS
  <1>3. n * b = n * a + n * k
    BY <1>1
  <1>4. n * a \in Int /\ n * k \in Int
    OBVIOUS
  <1> QED BY <1>2, <1>3, <1>4

LEMMA DivLess ==
    ASSUME NEW a \in Int, NEW i \in Int, NEW n \in Nat \ {0}
    PROVE  a \div n <= i <=> a < n * i + n
  <1>1. PICK q \in Int, r \in Int : q = a \div n /\ a = n * q + r /\ 0 <= r /\ r < n
    BY DivMod
  <1>2. CASE q <= i
    <2>1. n * q <= n * i
      BY <1>2, TimesMono
    <2> QED BY <1>1, <1>2, <2>1
  <1>3. CASE i + 1 <= q
    <2>1. n * (i + 1) <= n * q
      BY <1>3, TimesMono
    <2>2. n * (i + 1) = n * i + n
      OBVIOUS
    <2> QED BY <1>1, <1>3, <2>1, <2>2
  <1> QED BY <1>2, <1>3

LEMMA DownUp ==
    ASSUME NEW p \in Int, NEW i \in Int
    PROVE  /\ SbDown(p) \in Int /\ SbUp(p) \in Int
           /\ SbDown(p) <= i <=> p < SbSize * i + SbSize
           /\ i < SbUp(p) <=> SbSize * i < p
           /\ i < GpaLen <=> SbSize * i < NPages
  <1>1. PICK n \in Nat \ {0} : n = SbSize
    BY Sizes
  <1>2. PICK q \in Int : q = p \div n /\ (q <= i <=> p < n * i + n)
    BY DivMod, DivLess
  <1>3. \A a \in Int : \E u \in Int : u = (a + n - 1) \div n /\ (u <= i <=> (a + n - 1) < n * i + n)
    <2> TAKE a \in Int
    <2>1. a + n - 1 \in Int
      OBVIOUS
    <2> QED BY <2>1, DivMod, DivLess
  <1>4. \A a \in Int : \E u \in Int : u = (a + n - 1) \div n /\ (i < u <=> n * i < a)
    <2> TAKE a \in Int
    <2>1. PICK u \in Int : u = (a + n - 1) \div n /\ (u <= i <=> (a + n - 1) < n * i + n)
      BY <1>3
    <2>2. n * i \in Int
      OBVIOUS
    <2>3. i < u <=> n * i < a
      BY <2>1, <2>2
    <2> QED BY <2>1, <2>3
  <1>5. NPages \in Int
    BY Sizes
  <1> QED BY <1>1, <1>2, <1>4, <1>5 DEF SbDown, SbUp, GpaLen

LEMMA DownBelow ==
    ASSUME NEW p \in Int
    PROVE  /\ SbDown(p) \in Int
           /\ SbSize * SbDown(p) <= p /\ p < SbSize * SbDown(p) + SbSize
  <1>1. PICK n \in Nat \ {0} : n = SbSize
    BY Sizes
  <1>2. PICK q \in Int, r \in Int : q = p \div n /\ p = n * q + r /\ 0 <= r /\ r < n
    BY DivMod
  <1> QED BY <1>1, <1>2 DEF SbDown

LEMMA SlotOfPage ==
    ASSUME NEW p \in 0..(NPages - 1)
    PROVE  SbDown(p) \in Idx
  <1>1. p \in Int /\ p < NPages /\ p >= 0 /\ NPages \in Nat /\ SbSize \in Nat \ {0} /\ GpaLen \in Nat
    BY Sizes
  <1>2. PICK i \in Int : i = SbDown(p) /\ SbSize * i <= p
    BY <1>1, DownBelow
  <1>3. PICK x \in Int : x = SbSize * i
    BY <1>1
  <1>4. i < GpaLen
    BY <1>1, <1>2, <1>3, DownUp
  <1>5. ~(i <= 0 - 1)
    <2>1. SbSize * (0 - 1) + SbSize = 0
      BY <1>1
    <2>2. SbDown(p) <= 0 - 1 <=> p < SbSize * (0 - 1) + SbSize
      BY <1>1, DownUp
    <2> QED BY <1>1, <1>2, <2>1, <2>2
  <1>6. i >= 0
    BY <1>2, <1>5
  <1> QED BY <1>1, <1>2, <1>4, <1>6 DEF Idx

LEMMA RoundedPages ==
    ASSUME NEW p \in 0..NPages
    PROVE  SbDown(p) \in 0..GpaLen /\ SbUp(p) \in 0..GpaLen
  <1>1. p \in Int /\ p <= NPages /\ p >= 0 /\ NPages \in Nat /\ SbSize \in Nat \ {0} /\ GpaLen \in Nat
    BY Sizes
  <1>2. PICK i \in Int, j \in Int : i = SbDown(p) /\ j = SbUp(p)
    BY <1>1, DownUp
  <1>3. SbSize * (0 - 1) + SbSize = 0 /\ SbSize * (0 - 1) < 0 /\ SbSize * (0 - 1) \in Int
    BY <1>1
  <1>4. i >= 0
    <2>1. SbDown(p) <= 0 - 1 <=> p < SbSize * (0 - 1) + SbSize
      BY <1>1, DownUp
    <2> QED BY <1>1, <1>2, <1>3, <2>1
  <1>5. j >= 0
    <2>1. 0 - 1 < SbUp(p) <=> SbSize * (0 - 1) < p
      BY <1>1, DownUp
    <2> QED BY <1>1, <1>2, <1>3, <2>1
  <1>6. PICK x \in Int : x = SbSize * GpaLen /\ x >= NPages
    <2>1. SbSize * GpaLen \in Int
      BY <1>1
    <2>2. GpaLen < GpaLen <=> SbSize * GpaLen < NPages
      BY <1>1, DownUp
    <2> QED BY <1>1, <2>1, <2>2
  <1>7. i <= GpaLen
    <2>1. SbDown(p) <= GpaLen <=> p < SbSize * GpaLen + SbSize
      BY <1>1, DownUp
    <2> QED BY <1>1, <1>2, <1>6, <2>1
  <1>8. j <= GpaLen
    <2>1. GpaLen < SbUp(p) <=> SbSize * GpaLen < p
      BY <1>1, DownUp
    <2> QED BY <1>1, <1>2, <1>6, <2>1
  <1> QED BY <1>1, <1>2, <1>4, <1>5, <1>7, <1>8

(* A slot is in an interval if a page of its subblock is.                  *)
LEMMA SlotIn ==
    ASSUME NEW lo \in 0..NPages, NEW hi \in 0..NPages, NEW i \in Int
    PROVE  /\ i \in Slots(lo, hi) <=> lo < SbSize * i + SbSize /\ SbSize * i < hi
           /\ i \in Slots(lo, hi) => i \in Idx
  <1>1. /\ lo \in Int /\ hi \in Int /\ hi <= NPages /\ lo >= 0 /\ NPages \in Nat
        /\ SbSize \in Nat \ {0} /\ GpaLen \in Nat
    BY Sizes
  <1>2. PICK a \in 0..GpaLen, b \in 0..GpaLen : a = SbDown(lo) /\ b = SbUp(hi)
    BY RoundedPages
  <1>3. a <= i <=> lo < SbSize * i + SbSize
    BY <1>1, <1>2, DownUp
  <1>4. i < b <=> SbSize * i < hi
    BY <1>1, <1>2, DownUp
  <1>5. i \in a..(b - 1) <=> a <= i /\ i < b
    BY <1>1, <1>2
  <1>6. i \in a..(b - 1) => i \in Idx
    BY <1>1, <1>2 DEF Idx
  <1> QED BY <1>2, <1>3, <1>4, <1>5, <1>6 DEF Slots
-----------------------------------------------------------------------------
(* The frame of everything else: types, and what a vmr in each phase has.  *)
Lists == \A d \in Descs : Listed(desc[d].views)
Place(v) ==
    vmr[v].st \in Placed =>
        /\ vmr[v].mm \in Mms /\ vmr[v].desc \in Descs /\ vmr[v].lo < vmr[v].hi
        /\ desc[vmr[v].desc].st # "unused"
        /\ vmr[v].st \in Busy => mm[vmr[v].mm].op = "close"
Places == \A v \in Vmrs : Place(v)
Alone ==
    \A v, w \in Vmrs :
        vmr[v].st \in Busy /\ vmr[w].st \in Busy /\ vmr[v].mm = vmr[w].mm => v = w
Link(v) == vmr[v].link # None => vmr[vmr[v].link].st # "unused"
Links == \A v \in Vmrs : Link(v)
Started == Unused = Vmrs => \A m \in Mms : mm[m].op = "unused"
SplitAt(m) ==
    mm[m].op = "views" =>
        /\ mm[m].lo < mm[m].mid /\ mm[m].mid < mm[m].hi
        /\ vmr[mm[m].prev].st = "live" /\ vmr[mm[m].prev].mm = m
Splitting == \A m \in Mms : SplitAt(m)
ForkAt(m) ==
    mm[m].op = "fork" =>
        /\ mm[mm[m].kid].op = "child"
        /\ \A n \in Mms : mm[n].op = "fork" /\ mm[n].kid = mm[m].kid => n = m
        /\ \A v \in mm[m].todo : vmr[v].st = "live" /\ vmr[v].mm = m
Forks == \A m \in Mms : ForkAt(m)
Frame == Types /\ Lists /\ Places /\ Alone /\ Links /\ Started /\ Splitting /\ Forks

LEMMA VmrRecs ==
    ASSUME NEW x \in VmrRec
    PROVE  /\ x.st \in Phases /\ x.mm \in Mms \cup {None} /\ x.desc \in Descs \cup {None}
           /\ x.lo \in 0..NPages /\ x.hi \in 0..NPages /\ x.lo \in Nat /\ x.hi \in Nat
           /\ x.link \in Vmrs \cup {None} /\ x.cnt \in Int /\ x.unc \in Uncovered
           /\ x.todo \subseteq Groups /\ x.rel \in BOOLEAN
  BY Sizes DEF VmrRec

LEMMA NewVmrRec == NewVmr \in VmrRec /\ Dead \in VmrRec
  <1>1. 0 \in 0..NPages /\ 0 \in 0..GpaLen
    BY Sizes
  <1>2. Nothing \in Uncovered
    BY <1>1 DEF Nothing, Uncovered
  <1>3. NewVmr \in VmrRec
    BY <1>1, <1>2 DEF NewVmr, VmrRec, Phases, None
  <1>4. Dead \in VmrRec
    BY <1>3 DEF Dead, VmrRec, Phases
  <1> QED BY <1>3, <1>4

LEMMA InPhase ==
    ASSUME NEW x \in VmrRec, NEW st \in Phases
    PROVE  LET y == [x EXCEPT !.st = st]
           IN  /\ y \in VmrRec /\ y.st = st
               /\ y.mm = x.mm /\ y.desc = x.desc /\ y.lo = x.lo /\ y.hi = x.hi
               /\ y.link = x.link /\ y.cnt = x.cnt /\ y.unc = x.unc
               /\ y.todo = x.todo /\ y.rel = x.rel
  BY DEF VmrRec

LEMMA Unlinked ==
    ASSUME NEW x \in VmrRec
    PROVE  LET y == [x EXCEPT !.link = None]
           IN  /\ y \in VmrRec /\ y.st = x.st
               /\ y.mm = x.mm /\ y.desc = x.desc /\ y.lo = x.lo /\ y.hi = x.hi
               /\ y.link = None /\ y.cnt = x.cnt /\ y.unc = x.unc
               /\ y.todo = x.todo /\ y.rel = x.rel
  BY DEF VmrRec

LEMMA DeadFields ==
    /\ Dead.st = "dead" /\ Dead.link = None /\ Dead.desc = None /\ Dead.mm = None
    /\ "dead" \notin Placed
  BY DEF Dead, NewVmr, Placed, Busy

(* finish_emp_vma_split(), vmr by vmr.                                     *)
LEMMA FinishSplit ==
    ASSUME NEW vs \in [Vmrs -> VmrRec], NEW p \in Vmrs, vs[p].st # "pending"
    PROVE  LET fs == finish_split(vs, p)
           IN  /\ fs \in [Vmrs -> VmrRec]
               /\ fs[p] = [vs[p] EXCEPT !.link = None]
               /\ \A w \in Vmrs \ {p} :
                     \/ fs[w] = vs[w]
                     \/ fs[w] = Dead /\ vs[w].st = "pending" /\ w = vs[p].link
  <1> DEFINE u == [vs EXCEPT ![p].link = None]
             q == vs[p].link
  <1>1. /\ u \in [Vmrs -> VmrRec] /\ u[p] = [vs[p] EXCEPT !.link = None]
        /\ \A w \in Vmrs \ {p} : u[w] = vs[w]
    <2>1. [vs[p] EXCEPT !.link = None] \in VmrRec
      BY Unlinked
    <2> QED BY <2>1
  <1>2. CASE q # None /\ vs[q].st = "pending"
    <2>1. finish_split(vs, p) = [u EXCEPT ![q] = Dead]
      BY <1>2 DEF finish_split
    <2>2. q \in Vmrs /\ q # p
      BY <1>2, VmrRecs
    <2> HIDE DEF u
    <2> QED BY <1>1, <1>2, <2>1, <2>2, NewVmrRec
  <1>3. CASE ~(q # None /\ vs[q].st = "pending")
    <2>1. finish_split(vs, p) = u
      BY <1>3 DEF finish_split
    <2> HIDE DEF u
    <2> QED BY <1>1, <2>1
  <1> QED BY <1>2, <1>3

(* split_emp_vma(): a vmr for the new half.                                *)
LEMMA MaySplit ==
    ASSUME Types, Links, NEW p \in Vmrs, NEW n \in Vmrs,
           vmr[p].st = "live", vmr[n].st = "unused"
    PROVE  LET ms == may_split(p, n)
           IN  /\ ms \in [Vmrs -> VmrRec] /\ n # p
               /\ ms[p] = [vmr[p] EXCEPT !.link = None]
               /\ ms[n] = [NewVmr EXCEPT !.st = "pending", !.mm = vmr[p].mm]
               /\ \A w \in Vmrs \ {p, n} :
                     ms[w] = vmr[w] \/ (ms[w] = Dead /\ vmr[w].st = "pending")
  <1> DEFINE x == [NewVmr EXCEPT !.st = "pending", !.mm = vmr[p].mm]
             vs == [vmr EXCEPT ![n] = x]
  <1>1. vmr \in [Vmrs -> VmrRec] /\ n # p
    BY DEF Types
  <1>2. x \in VmrRec /\ x.st = "pending"
    BY <1>1, NewVmrRec, VmrRecs DEF NewVmr, VmrRec, Phases
  <1>3. may_split(p, n) = finish_split(vs, p)
    BY DEF may_split
  <1>4. /\ vs \in [Vmrs -> VmrRec] /\ vs[p] = vmr[p] /\ vs[n] = x
        /\ \A w \in Vmrs \ {n} : vs[w] = vmr[w]
    BY <1>1, <1>2
  <1>5. n # vmr[p].link
    BY NoneIsNone DEF Links, Link
  <1> HIDE DEF x, vs
  <1>6. /\ finish_split(vs, p) \in [Vmrs -> VmrRec]
        /\ finish_split(vs, p)[p] = [vs[p] EXCEPT !.link = None]
        /\ \A w \in Vmrs \ {p} :
              \/ finish_split(vs, p)[w] = vs[w]
              \/ finish_split(vs, p)[w] = Dead /\ vs[w].st = "pending" /\ w = vs[p].link
    BY <1>4, FinishSplit
  <1>7. finish_split(vs, p)[n] = x
    BY <1>1, <1>4, <1>5, <1>6
  <1> QED BY <1>1, <1>3, <1>4, <1>6, <1>7 DEF x

-----------------------------------------------------------------------------
(* A vmr an action does not name stays as it is, or was a pending one that *)
(* finish_emp_vma_split() frees.                                           *)
Stays(w) == vmr'[w] = vmr[w] \/ (vmr'[w] = Dead /\ vmr[w].st = "pending")
Others(S) == \A w \in Vmrs \ S : Stays(w)

LEMMA Phase == /\ Placed \subseteq Phases /\ Busy \subseteq Placed
               /\ Viewing \subseteq Placed /\ Holding \subseteq Placed /\ Closing \subseteq Busy
               /\ "unused" \notin Placed /\ "pending" \notin Placed /\ "dead" \notin Placed
               /\ "live" \notin Busy /\ "joining" \notin Busy /\ "live" \in Placed /\ "joining" \in Placed
  BY DEF Placed, Busy, Phases, Viewing, Holding, Closing

LEMMA StaysFacts ==
    ASSUME Types, NEW w \in Vmrs, Stays(w)
    PROVE  /\ vmr'[w].st \in Placed => vmr'[w] = vmr[w]
           /\ vmr[w].st \in Placed => vmr'[w] = vmr[w]
           /\ vmr[w].st # "unused" => vmr'[w].st # "unused"
           /\ vmr'[w].link \in {None, vmr[w].link}
  BY DeadFields, Phase DEF Stays

(* A step in which only the vmrs in S change, and at most b begins a close. *)
FrameStep(S, b) ==
    /\ Others(S)
    /\ \A w \in S : /\ Place(w)'
                    /\ vmr[w].st # "unused" => vmr'[w].st # "unused"
                    /\ vmr'[w].link \in {None, vmr[w].link} \/ Link(w)'
                    /\ vmr'[w].st \in Busy =>
                          \/ vmr[w].st \in Busy /\ vmr'[w].mm = vmr[w].mm
                          \/ w = b /\ mm[vmr'[w].mm].op # "close"
    /\ \A d \in Descs : desc[d].st # "unused" => desc'[d].st # "unused"
    /\ \A m \in Mms : mm[m].op = "close" /\ mm'[m].op # "close" =>
          \A w \in Vmrs \ S : ~(vmr[w].st \in Busy /\ vmr[w].mm = m)
    /\ \E w \in Vmrs : vmr'[w].st # "unused"

LEMMA FrameKept ==
    ASSUME Frame, NEW S \in SUBSET Vmrs, NEW b, FrameStep(S, b)
    PROVE  (Places /\ Alone /\ Links /\ Started)'
  <1>1. ASSUME NEW w \in Vmrs PROVE vmr[w].st # "unused" => vmr'[w].st # "unused"
    BY StaysFacts DEF Frame, FrameStep, Others
  <1>2. ASSUME NEW w \in Vmrs PROVE Place(w)'
    <2>1. CASE w \in S
      BY <2>1 DEF FrameStep
    <2>2. CASE w \notin S
      <3>1. vmr'[w].st \in Placed => vmr'[w] = vmr[w]
        BY <2>2, StaysFacts DEF Frame, FrameStep, Others
      <3>2. Place(w)
        BY DEF Frame, Places
      <3> QED BY <2>2, <3>1, <3>2 DEF FrameStep, Place
    <2> QED BY <2>1, <2>2
  <1>3. ASSUME NEW w \in Vmrs, vmr'[w].st \in Busy
        PROVE  \/ vmr[w].st \in Busy /\ vmr'[w].mm = vmr[w].mm
               \/ w = b /\ mm[vmr'[w].mm].op # "close"
    <2>1. CASE w \in S
      BY <1>3, <2>1 DEF FrameStep
    <2>2. CASE w \notin S
      BY <1>3, <2>2, StaysFacts, Phase DEF Frame, FrameStep, Others
    <2> QED BY <2>1, <2>2
  <1>4. \A w \in Vmrs : vmr[w].st \in Busy => mm[vmr[w].mm].op = "close"
    BY Phase DEF Frame, Places, Place
  <1>5. Alone'
    BY <1>3, <1>4 DEF Frame, Alone
  <1>6. ASSUME NEW w \in Vmrs PROVE Link(w)'
    <2>1. vmr'[w].link \in {None, vmr[w].link} \/ Link(w)'
      BY StaysFacts DEF Frame, FrameStep, Others
    <2>2. Link(w) /\ vmr[w].link \in Vmrs \cup {None}
      BY VmrRecs DEF Frame, Links, Types
    <2> QED BY <1>1, <2>1, <2>2 DEF Link
  <1>7. Started'
    BY DEF FrameStep, Started, Unused
  <1> QED BY <1>2, <1>5, <1>6, <1>7 DEF Places, Links

(* The splits and forks of the mms outside of K go on as they were.        *)
SpaceStep(K) ==
    /\ \A m \in Mms \ K : mm'[m] = mm[m]
    /\ \A w \in Vmrs : vmr[w].st = "live" /\ vmr[w].mm \in Mms \ K /\ mm[vmr[w].mm].op \in {"views", "fork"} =>
          vmr'[w].st = "live" /\ vmr'[w].mm = vmr[w].mm
    /\ \A m \in K : SplitAt(m)' /\ ForkAt(m)'
    /\ \A m \in K : \A n \in Mms \ K : mm[n].op = "fork" /\ mm[n].kid = m => mm'[m].op = "child"
    /\ \A m \in K : \A n \in Mms \ K : mm'[m].op = "fork" /\ mm[n].op = "fork" => mm[n].kid # mm'[m].kid

LEMMA SpacesKept ==
    ASSUME Frame, NEW K \in SUBSET Mms, SpaceStep(K)
    PROVE  (Splitting /\ Forks)'
  <1>1. ASSUME NEW m \in Mms \ K PROVE SplitAt(m)'
    <2>1. SplitAt(m) /\ mm'[m] = mm[m]
      BY DEF Frame, Splitting, SpaceStep
    <2>2. mm[m].op = "views" => mm[m].prev \in Vmrs
      BY DEF Frame, Types, MmRec
    <2> QED BY <2>1, <2>2 DEF SplitAt, SpaceStep
  <1>2. ASSUME NEW m \in Mms \ K PROVE ForkAt(m)'
    <2> SUFFICES ASSUME mm'[m].op = "fork"
                 PROVE  /\ mm'[mm'[m].kid].op = "child"
                        /\ \A n \in Mms : mm'[n].op = "fork" /\ mm'[n].kid = mm'[m].kid => n = m
                        /\ \A v \in mm'[m].todo : vmr'[v].st = "live" /\ vmr'[v].mm = m
      BY DEF ForkAt
    <2>1. ForkAt(m) /\ mm'[m] = mm[m] /\ mm[m].op = "fork"
      BY DEF Frame, Forks, SpaceStep
    <2>2. mm[m].kid \in Mms /\ mm[m].todo \subseteq Vmrs
      BY <2>1 DEF Frame, Types, MmRec
    <2>3. mm'[mm'[m].kid].op = "child"
      BY <2>1, <2>2 DEF ForkAt, SpaceStep
    <2>4. \A n \in Mms : mm'[n].op = "fork" /\ mm'[n].kid = mm'[m].kid => n = m
      BY <2>1 DEF ForkAt, SpaceStep
    <2>5. \A v \in mm'[m].todo : vmr'[v].st = "live" /\ vmr'[v].mm = m
      BY <2>1, <2>2 DEF ForkAt, SpaceStep
    <2> QED BY <2>3, <2>4, <2>5
  <1>3. \A m \in Mms : SplitAt(m)' /\ ForkAt(m)'
    BY <1>1, <1>2 DEF SpaceStep
  <1> QED BY <1>3 DEF Splitting, Forks

-----------------------------------------------------------------------------
LEMMA DescRecs ==
    ASSUME NEW x \in DescRec
    PROVE  /\ x.st \in {"unused", "alive", "freed"} /\ x.shared \in BOOLEAN
           /\ x.views \in Seq(ViewRec) /\ x.refcount \in Int /\ x.closer \in Vmrs \cup {None}
  BY DEF DescRec

LEMMA DescViews ==
    ASSUME NEW x \in DescRec, NEW l \in Seq(ViewRec)
    PROVE  LET y == [x EXCEPT !.views = l]
           IN  /\ y \in DescRec /\ y.views = l
               /\ y.st = x.st /\ y.shared = x.shared /\ y.refcount = x.refcount /\ y.closer = x.closer
  BY DEF DescRec

LEMMA DescRefcount ==
    ASSUME NEW x \in DescRec, NEW n \in Int
    PROVE  LET y == [x EXCEPT !.refcount = n]
           IN  /\ y \in DescRec /\ y.refcount = n
               /\ y.st = x.st /\ y.shared = x.shared /\ y.views = x.views /\ y.closer = x.closer
  BY DEF DescRec

LEMMA DescCloser ==
    ASSUME NEW x \in DescRec, NEW c \in Vmrs \cup {None}
    PROVE  LET y == [x EXCEPT !.closer = c]
           IN  /\ y \in DescRec /\ y.closer = c
               /\ y.st = x.st /\ y.shared = x.shared /\ y.views = x.views /\ y.refcount = x.refcount
  BY DEF DescRec

LEMMA DescFreed ==
    ASSUME NEW x \in DescRec
    PROVE  LET y == [x EXCEPT !.st = "freed"]
           IN  /\ y \in DescRec /\ y.st = "freed"
               /\ y.closer = x.closer /\ y.shared = x.shared /\ y.views = x.views /\ y.refcount = x.refcount
  BY DEF DescRec

(* What a vmr in its close keeps.                                          *)
Onward(v) ==
    /\ vmr[v].st \in Busy /\ vmr'[v].st \in Busy
    /\ vmr'[v].mm = vmr[v].mm /\ vmr'[v].desc = vmr[v].desc
    /\ vmr'[v].lo = vmr[v].lo /\ vmr'[v].hi = vmr[v].hi /\ vmr'[v].link = vmr[v].link
SameLocals(v) ==
    /\ vmr'[v].cnt = vmr[v].cnt /\ vmr'[v].unc = vmr[v].unc
    /\ vmr'[v].todo = vmr[v].todo /\ vmr'[v].rel = vmr[v].rel
OnlyVmr(v) == \A w \in Vmrs \ {v} : vmr'[w] = vmr[w]

LEMMA InEffect ==
    ASSUME Types, NEW v \in Vmrs, NEW st \in Phases, vmr' = In(v, st)
    PROVE  /\ vmr' \in [Vmrs -> VmrRec] /\ OnlyVmr(v)
           /\ vmr'[v].st = st
           /\ vmr'[v].mm = vmr[v].mm /\ vmr'[v].desc = vmr[v].desc
           /\ vmr'[v].lo = vmr[v].lo /\ vmr'[v].hi = vmr[v].hi /\ vmr'[v].link = vmr[v].link
           /\ vmr'[v].cnt = vmr[v].cnt /\ vmr'[v].unc = vmr[v].unc
           /\ vmr'[v].todo = vmr[v].todo /\ vmr'[v].rel = vmr[v].rel
  <1>1. vmr \in [Vmrs -> VmrRec] /\ vmr[v] \in VmrRec
    BY DEF Types
  <1>2. PICK y \in VmrRec : y = [vmr[v] EXCEPT !.st = st]
    BY <1>1, InPhase
  <1>3. /\ y.st = st
        /\ y.mm = vmr[v].mm /\ y.desc = vmr[v].desc /\ y.lo = vmr[v].lo /\ y.hi = vmr[v].hi
        /\ y.link = vmr[v].link /\ y.cnt = vmr[v].cnt /\ y.unc = vmr[v].unc
        /\ y.todo = vmr[v].todo /\ y.rel = vmr[v].rel
    BY <1>1, <1>2, InPhase
  <1>4. vmr' = [vmr EXCEPT ![v] = y]
    BY <1>2 DEF In
  <1>5. vmr' \in [Vmrs -> VmrRec] /\ vmr'[v] = y /\ OnlyVmr(v)
    BY <1>1, <1>4 DEF OnlyVmr
  <1> QED BY <1>3, <1>5

LEMMA CloserFrame ==
    ASSUME Frame, NEW v \in Vmrs, Onward(v), OnlyVmr(v), mm' = mm,
           \A d \in Descs : desc[d].st # "unused" => desc'[d].st # "unused"
    PROVE  (Places /\ Alone /\ Links /\ Started /\ Splitting /\ Forks)'
  <1>1. Place(v)'
    <2>1. Place(v) /\ vmr[v].st \in Placed
      BY Phase DEF Frame, Places, Onward
    <2> QED BY <2>1 DEF Onward, Place
  <1>2. FrameStep({v}, v)
    BY <1>1, Phase DEF FrameStep, Onward, OnlyVmr, Others, Stays
  <1>3. SpaceStep({})
    BY Phase DEF SpaceStep, Onward, OnlyVmr
  <1>4. (Places /\ Alone /\ Links /\ Started)'
    BY <1>2, FrameKept
  <1>5. (Splitting /\ Forks)'
    BY <1>3, SpacesKept
  <1> QED BY <1>4, <1>5

LEMMA SameDesc == ASSUME Frame, desc' = desc
    PROVE /\ desc' \in [Descs -> DescRec] /\ Lists'
          /\ \A d \in Descs : desc[d].st # "unused" => desc'[d].st # "unused"
  BY DEF Frame, Types, Lists

LEMMA BusyPlace ==
    ASSUME Frame, NEW v \in Vmrs, vmr[v].st \in Busy
    PROVE  /\ vmr[v].desc \in Descs /\ vmr[v].mm \in Mms /\ vmr[v].lo < vmr[v].hi
           /\ vmr[v].lo \in 0..NPages /\ vmr[v].hi \in 0..NPages
           /\ desc[vmr[v].desc] \in DescRec /\ Listed(desc[vmr[v].desc].views)
           /\ vmr[v] \in VmrRec
  BY Phase, VmrRecs DEF Frame, Places, Place, Types, Lists

(* What a step does to one vmdesc.                                         *)
OnlyDesc(d, y) ==
    /\ desc' \in [Descs -> DescRec] /\ desc'[d] = y
    /\ \A e \in Descs \ {d} : desc'[e] = desc[e]

LEMMA CloserSet ==
    ASSUME Types, NEW d \in Descs, NEW c \in Vmrs \cup {None},
           desc' = [desc EXCEPT ![d].closer = c]
    PROVE  /\ OnlyDesc(d, desc'[d])
           /\ desc'[d].closer = c /\ desc'[d].st = desc[d].st /\ desc'[d].shared = desc[d].shared
           /\ desc'[d].views = desc[d].views /\ desc'[d].refcount = desc[d].refcount
  <1>1. desc \in [Descs -> DescRec] /\ desc[d] \in DescRec
    BY DEF Types
  <1>2. PICK y \in DescRec : y = [desc[d] EXCEPT !.closer = c]
    BY <1>1, DescCloser
  <1>3. /\ y.closer = c /\ y.st = desc[d].st /\ y.shared = desc[d].shared
        /\ y.views = desc[d].views /\ y.refcount = desc[d].refcount
    BY <1>1, <1>2, DescCloser
  <1>4. desc' = [desc EXCEPT ![d] = y]
    BY <1>2
  <1>5. desc' \in [Descs -> DescRec] /\ desc'[d] = y /\ \A e \in Descs \ {d} : desc'[e] = desc[e]
    BY <1>1, <1>4
  <1> QED BY <1>3, <1>5 DEF OnlyDesc

LEMMA ViewsSet ==
    ASSUME Types, NEW d \in Descs, NEW l \in Seq(ViewRec),
           desc' = [desc EXCEPT ![d].views = l]
    PROVE  /\ OnlyDesc(d, desc'[d])
           /\ desc'[d].views = l /\ desc'[d].st = desc[d].st /\ desc'[d].shared = desc[d].shared
           /\ desc'[d].closer = desc[d].closer /\ desc'[d].refcount = desc[d].refcount
  <1>1. desc \in [Descs -> DescRec] /\ desc[d] \in DescRec
    BY DEF Types
  <1>2. PICK y \in DescRec : y = [desc[d] EXCEPT !.views = l]
    BY <1>1, DescViews
  <1>3. /\ y.views = l /\ y.st = desc[d].st /\ y.shared = desc[d].shared
        /\ y.closer = desc[d].closer /\ y.refcount = desc[d].refcount
    BY <1>1, <1>2, DescViews
  <1>4. desc' = [desc EXCEPT ![d] = y]
    BY <1>2
  <1>5. desc' \in [Descs -> DescRec] /\ desc'[d] = y /\ \A e \in Descs \ {d} : desc'[e] = desc[e]
    BY <1>1, <1>4
  <1> QED BY <1>3, <1>5 DEF OnlyDesc

LEMMA RefcountSet ==
    ASSUME Types, NEW d \in Descs, NEW n \in Int,
           desc' = [desc EXCEPT ![d].refcount = n]
    PROVE  /\ OnlyDesc(d, desc'[d])
           /\ desc'[d].refcount = n /\ desc'[d].st = desc[d].st /\ desc'[d].shared = desc[d].shared
           /\ desc'[d].closer = desc[d].closer /\ desc'[d].views = desc[d].views
  <1>1. desc \in [Descs -> DescRec] /\ desc[d] \in DescRec
    BY DEF Types
  <1>2. PICK y \in DescRec : y = [desc[d] EXCEPT !.refcount = n]
    BY <1>1, DescRefcount
  <1>3. /\ y.refcount = n /\ y.st = desc[d].st /\ y.shared = desc[d].shared
        /\ y.closer = desc[d].closer /\ y.views = desc[d].views
    BY <1>1, <1>2, DescRefcount
  <1>4. desc' = [desc EXCEPT ![d] = y]
    BY <1>2
  <1>5. desc' \in [Descs -> DescRec] /\ desc'[d] = y /\ \A e \in Descs \ {d} : desc'[e] = desc[e]
    BY <1>1, <1>4
  <1> QED BY <1>3, <1>5 DEF OnlyDesc

LEMMA FreedSet ==
    ASSUME Types, NEW d \in Descs, desc' = [desc EXCEPT ![d].st = "freed"]
    PROVE  /\ OnlyDesc(d, desc'[d])
           /\ desc'[d].refcount = desc[d].refcount /\ desc'[d].st = "freed" /\ desc'[d].shared = desc[d].shared
           /\ desc'[d].closer = desc[d].closer /\ desc'[d].views = desc[d].views
  <1>1. desc \in [Descs -> DescRec] /\ desc[d] \in DescRec
    BY DEF Types
  <1>2. PICK y \in DescRec : y = [desc[d] EXCEPT !.st = "freed"]
    BY <1>1, DescFreed
  <1>3. /\ y.refcount = desc[d].refcount /\ y.st = "freed" /\ y.shared = desc[d].shared
        /\ y.closer = desc[d].closer /\ y.views = desc[d].views
    BY <1>1, <1>2, DescFreed
  <1>4. desc' = [desc EXCEPT ![d] = y]
    BY <1>2
  <1>5. desc' \in [Descs -> DescRec] /\ desc'[d] = y /\ \A e \in Descs \ {d} : desc'[e] = desc[e]
    BY <1>1, <1>4
  <1> QED BY <1>3, <1>5 DEF OnlyDesc

LEMMA OneDesc ==
    ASSUME Frame, NEW d \in Descs, OnlyDesc(d, desc'[d]), Listed(desc'[d].views),
           desc'[d].st # "unused" \/ desc[d].st = "unused"
    PROVE  /\ Lists'
           /\ \A e \in Descs : desc[e].st # "unused" => desc'[e].st # "unused"
  BY DEF Frame, Lists, OnlyDesc

-----------------------------------------------------------------------------
(* The steps of a close.                                                   *)
EnterEffect(v, d) ==
    /\ UNCHANGED <<mm, dir, used, ref, cut, rec>>
    /\ vmr' \in [Vmrs -> VmrRec] /\ OnlyVmr(v) /\ Onward(v) /\ SameLocals(v)
    /\ vmr[v].st = "enter" /\ d = vmr[v].desc /\ OnlyDesc(d, desc'[d])
    /\ \/ vmr'[v].st = "own" /\ desc[d].closer = None /\ desc'[d].closer = v
       \/ vmr'[v].st = "asleep" /\ desc[d].closer # None /\ desc' = desc
    /\ desc'[d].st = desc[d].st /\ desc'[d].shared = desc[d].shared
    /\ desc'[d].views = desc[d].views /\ desc'[d].refcount = desc[d].refcount

LEMMA CloseEnterEffect ==
    ASSUME Frame, NEW v \in Vmrs, CloseEnter(v)
    PROVE  \E d \in Descs : EnterEffect(v, d)
  <1>1. vmr[v].st = "enter" /\ "own" \in Phases /\ "asleep" \in Phases
        /\ {"enter", "own", "asleep"} \subseteq Busy
    BY DEF CloseEnter, Phases, Busy
  <1>2. Types
    BY DEF Frame
  <1>3. PICK d \in Descs : d = vmr[v].desc
    BY <1>1, BusyPlace
  <1>4. /\ UNCHANGED <<mm, dir, used, ref, cut, rec>>
        /\ \/ vmr' = In(v, "own") /\ desc[d].closer = None /\ desc' = [desc EXCEPT ![d].closer = v]
           \/ vmr' = In(v, "asleep") /\ desc[d].closer # None /\ desc' = desc
    BY <1>3 DEF CloseEnter, dirVars
  <1>5. CASE vmr' = In(v, "own") /\ desc[d].closer = None /\ desc' = [desc EXCEPT ![d].closer = v]
    <2>1. /\ vmr' \in [Vmrs -> VmrRec] /\ OnlyVmr(v) /\ Onward(v) /\ SameLocals(v) /\ vmr'[v].st = "own"
      BY <1>1, <1>2, <1>5, InEffect DEF Onward, SameLocals
    <2>2. /\ OnlyDesc(d, desc'[d]) /\ desc'[d].closer = v
          /\ desc'[d].st = desc[d].st /\ desc'[d].shared = desc[d].shared
          /\ desc'[d].views = desc[d].views /\ desc'[d].refcount = desc[d].refcount
      BY <1>2, <1>5, CloserSet
    <2>3. EnterEffect(v, d)
      BY <1>1, <1>3, <1>4, <1>5, <2>1, <2>2 DEF EnterEffect
    <2> QED BY <2>3
  <1>6. CASE vmr' = In(v, "asleep") /\ desc[d].closer # None /\ desc' = desc
    <2>1. /\ vmr' \in [Vmrs -> VmrRec] /\ OnlyVmr(v) /\ Onward(v) /\ SameLocals(v) /\ vmr'[v].st = "asleep"
      BY <1>1, <1>2, <1>6, InEffect DEF Onward, SameLocals
    <2>2. OnlyDesc(d, desc'[d])
      BY <1>2, <1>6 DEF Types, OnlyDesc
    <2>3. EnterEffect(v, d)
      BY <1>1, <1>3, <1>4, <1>6, <2>1, <2>2 DEF EnterEffect
    <2> QED BY <2>3
  <1> QED BY <1>4, <1>5, <1>6

LEMMA CloserStepFrame ==
    ASSUME Frame, NEW v \in Vmrs, NEW d \in Descs, d = vmr[v].desc,
           UNCHANGED <<mm, dir, used, ref, cut, rec>>,
           vmr' \in [Vmrs -> VmrRec], OnlyVmr(v), Onward(v),
           OnlyDesc(d, desc'[d]), Listed(desc'[d].views), desc'[d].st = desc[d].st
    PROVE  Frame'
  <1>1. Lists' /\ \A e \in Descs : desc[e].st # "unused" => desc'[e].st # "unused"
    BY OneDesc
  <1>2. (Places /\ Alone /\ Links /\ Started /\ Splitting /\ Forks)'
    BY <1>1, CloserFrame
  <1>3. Types'
    BY DEF Frame, Types, OnlyDesc
  <1> QED BY <1>1, <1>2, <1>3 DEF Frame

LEMMA CloseEnterFrame ==
    ASSUME Frame, NEW v \in Vmrs, CloseEnter(v)
    PROVE  Frame'
  <1>1. PICK d \in Descs : EnterEffect(v, d)
    BY CloseEnterEffect
  <1>2. Listed(desc[d].views)
    BY DEF Frame, Lists
  <1> QED BY <1>1, <1>2, CloserStepFrame DEF EnterEffect

DropViewEffect(v, d) ==
    /\ UNCHANGED <<mm, dir, used, ref, cut, rec>>
    /\ vmr' \in [Vmrs -> VmrRec] /\ OnlyVmr(v) /\ Onward(v) /\ SameLocals(v)
    /\ vmr[v].st = "own" /\ vmr'[v].st = "dropped" /\ d = vmr[v].desc /\ OnlyDesc(d, desc'[d])
    /\ desc'[d].views = view_del(desc[d].views, vmr[v].lo, vmr[v].hi)
    /\ Listed(desc'[d].views)
    /\ desc'[d].st = desc[d].st /\ desc'[d].shared = desc[d].shared
    /\ desc'[d].closer = desc[d].closer /\ desc'[d].refcount = desc[d].refcount

LEMMA CloseDropViewEffect ==
    ASSUME Frame, NEW v \in Vmrs, CloseDropView(v)
    PROVE  \E d \in Descs : DropViewEffect(v, d)
  <1>1. vmr[v].st = "own" /\ "dropped" \in Phases /\ {"own", "dropped"} \subseteq Busy
    BY DEF CloseDropView, Phases, Busy
  <1>2. Types
    BY DEF Frame
  <1>3. PICK d \in Descs : d = vmr[v].desc
    BY <1>1, BusyPlace
  <1>4. /\ UNCHANGED <<mm, dir, used, ref, cut, rec>> /\ vmr' = In(v, "dropped")
        /\ desc' = [desc EXCEPT ![d].views = view_del(desc[d].views, vmr[v].lo, vmr[v].hi)]
    BY <1>3 DEF CloseDropView, dirVars
  <1>5. /\ vmr' \in [Vmrs -> VmrRec] /\ OnlyVmr(v) /\ Onward(v) /\ SameLocals(v) /\ vmr'[v].st = "dropped"
    BY <1>1, <1>2, <1>4, InEffect DEF Onward, SameLocals
  <1>6. PICK l : l = view_del(desc[d].views, vmr[v].lo, vmr[v].hi)
    OBVIOUS
  <1>7. Listed(l) /\ l \in Seq(ViewRec)
    BY ZenonT(60), <1>1, <1>3, <1>6, BusyPlace, DelView DEF Listed
  <1>8. desc' = [desc EXCEPT ![d].views = l]
    BY <1>4, <1>6
  <1>9. /\ OnlyDesc(d, desc'[d]) /\ desc'[d].views = l
        /\ desc'[d].st = desc[d].st /\ desc'[d].shared = desc[d].shared
        /\ desc'[d].closer = desc[d].closer /\ desc'[d].refcount = desc[d].refcount
    BY <1>2, <1>7, <1>8, ViewsSet
  <1>10. DropViewEffect(v, d)
    BY <1>1, <1>3, <1>4, <1>5, <1>6, <1>7, <1>9 DEF DropViewEffect
  <1> QED BY <1>10

LEMMA CloseDropViewFrame ==
    ASSUME Frame, NEW v \in Vmrs, CloseDropView(v)
    PROVE  Frame'
  <1>1. PICK d \in Descs : DropViewEffect(v, d)
    BY CloseDropViewEffect
  <1> QED BY <1>1, CloserStepFrame DEF DropViewEffect

LEMMA ReleasedTyped ==
    ASSUME NEW u \in Walked
    PROVE  Released(u) \in Uncovered
  <1>1. 0 \in 0..GpaLen
    BY Sizes
  <1>2. CASE u.fine /\ u.lo < u.hi
    <2>1. u.lo \in 0..NPages /\ u.hi \in 0..NPages
      BY DEF Walked
    <2>2. SbUp(u.lo) \in 0..GpaLen /\ SbDown(u.hi) \in 0..GpaLen
      BY <2>1, RoundedPages
    <2> QED BY <1>2, <2>2 DEF Released, Uncovered
  <1>3. CASE ~(u.fine /\ u.lo < u.hi)
    BY <1>1, <1>3 DEF Released, Uncovered, Nothing, Walked
  <1> QED BY <1>2, <1>3

LEMMA CloseDropRefEffect ==
    ASSUME Frame, NEW v \in Vmrs, CloseDropRef(v)
    PROVE  LET d == vmr[v].desc
               n == desc[d].refcount - 1
               u == find_uncovered(desc[d].views, vmr[v].lo, vmr[v].hi)
           IN  /\ UNCHANGED <<mm, dir, used, ref, cut, rec>>
               /\ vmr' \in [Vmrs -> VmrRec] /\ OnlyVmr(v) /\ Onward(v)
               /\ vmr[v].st = "dropped" /\ vmr'[v].st = "walk" /\ vmr'[v].cnt = n
               /\ vmr'[v].unc = IF n > 0 THEN Released(u) ELSE Nothing
               /\ vmr'[v].todo = IF n > 0 THEN WalkOf(SbDown(vmr[v].lo), SbUp(vmr[v].hi)) ELSE Groups
               /\ vmr'[v].rel = vmr[v].rel
               /\ d \in Descs /\ OnlyDesc(d, desc'[d]) /\ n \in Int
               /\ desc'[d].refcount = n /\ desc'[d].st = desc[d].st /\ desc'[d].shared = desc[d].shared
               /\ desc'[d].closer = desc[d].closer /\ desc'[d].views = desc[d].views
  <1> DEFINE d == vmr[v].desc
             n == desc[d].refcount - 1
             u == find_uncovered(desc[d].views, vmr[v].lo, vmr[v].hi)
             nu == IF n > 0 THEN Released(u) ELSE Nothing
             nt == IF n > 0 THEN WalkOf(SbDown(vmr[v].lo), SbUp(vmr[v].hi)) ELSE LastWalk(v)
             y == [vmr[v] EXCEPT !.st = "walk", !.cnt = n, !.unc = nu, !.todo = nt]
  <1>1. vmr[v].st = "dropped" /\ "walk" \in Phases /\ {"dropped", "walk"} \subseteq Busy
    BY DEF CloseDropRef, Phases, Busy
  <1>2. Types
    BY DEF Frame
  <1>3. /\ d \in Descs /\ desc[d] \in DescRec /\ Listed(desc[d].views) /\ vmr[v] \in VmrRec
        /\ vmr[v].lo \in 0..NPages /\ vmr[v].hi \in 0..NPages /\ vmr[v].lo < vmr[v].hi
    BY <1>1, BusyPlace
  <1>4. n \in Int
    BY <1>3, DescRecs
  <1>5. u \in Walked
    BY <1>3, FoundUncovered
  <1>6. nu \in Uncovered
    BY <1>5, ReleasedTyped, NewVmrRec, VmrRecs DEF NewVmr
  <1>7. nt \subseteq Groups /\ LastWalk(v) = Groups
    BY DEF WalkOf, LastWalk
  <1>8. /\ vmr' = [vmr EXCEPT ![v] = y]
        /\ desc' = [desc EXCEPT ![d].refcount = n]
        /\ UNCHANGED <<mm, dir, used, ref, cut, rec>>
    BY DEF CloseDropRef, dirVars
  <1> HIDE DEF u, nu, nt
  <1>9. /\ y \in VmrRec /\ y.st = "walk" /\ y.cnt = n /\ y.unc = nu /\ y.todo = nt
        /\ y.mm = vmr[v].mm /\ y.desc = vmr[v].desc /\ y.lo = vmr[v].lo /\ y.hi = vmr[v].hi
        /\ y.link = vmr[v].link /\ y.rel = vmr[v].rel
    <2> HIDE DEF n, d
    <2> QED BY <1>1, <1>3, <1>4, <1>6, <1>7 DEF VmrRec
  <1> HIDE DEF y
  <1>10. vmr' \in [Vmrs -> VmrRec] /\ vmr'[v] = y /\ OnlyVmr(v)
    BY <1>2, <1>8, <1>9 DEF Types, OnlyVmr
  <1>11. /\ OnlyDesc(d, desc'[d])
         /\ desc'[d].refcount = n /\ desc'[d].st = desc[d].st /\ desc'[d].shared = desc[d].shared
         /\ desc'[d].closer = desc[d].closer /\ desc'[d].views = desc[d].views
    <2> HIDE DEF n, d
    <2> QED BY <1>2, <1>3, <1>4, <1>8, RefcountSet
  <1>12. Onward(v)
    BY <1>1, <1>9, <1>10 DEF Onward
  <1> QED BY <1>1, <1>3, <1>4, <1>7, <1>8, <1>9, <1>10, <1>11, <1>12 DEF nu, nt, u

LEMMA CloseDropRefFrame ==
    ASSUME Frame, NEW v \in Vmrs, CloseDropRef(v)
    PROVE  Frame'
  <1>1. PICK d \in Descs :
            /\ UNCHANGED <<mm, dir, used, ref, cut, rec>>
            /\ vmr' \in [Vmrs -> VmrRec] /\ OnlyVmr(v) /\ Onward(v)
            /\ OnlyDesc(d, desc'[d]) /\ desc'[d].st = desc[d].st /\ desc'[d].views = desc[d].views
    BY CloseDropRefEffect
  <1>2. Types /\ Lists
    BY DEF Frame
  <1>3. Lists' /\ \A e \in Descs : desc[e].st # "unused" => desc'[e].st # "unused"
    BY <1>1, <1>2, OneDesc DEF Lists
  <1>4. (Places /\ Alone /\ Links /\ Started /\ Splitting /\ Forks)'
    BY <1>1, <1>3, CloserFrame
  <1>5. Types'
    BY <1>1, <1>2 DEF Types, OnlyDesc
  <1> QED BY <1>3, <1>4, <1>5 DEF Frame

LEMMA CloseQueryEffect ==
    ASSUME Frame, NEW v \in Vmrs, CloseQuery(v)
    PROVE  LET g == Group(v)
           IN  /\ UNCHANGED <<mm, desc, dir, used, ref, cut, rec>>
               /\ vmr' \in [Vmrs -> VmrRec] /\ OnlyVmr(v) /\ Onward(v)
               /\ vmr[v].st = "walk" /\ ~vmr[v].unc.fine /\ Present(v) # {}
               /\ g \in Present(v) /\ g \in Groups
               /\ vmr'[v].st = "put" /\ vmr'[v].cnt = vmr[v].cnt /\ vmr'[v].unc = vmr[v].unc
               /\ vmr'[v].todo = Present(v)
               /\ vmr'[v].rel = ~is_covered(desc[vmr[v].desc].views, g.first * SbSize, g.end * SbSize)
  <1> DEFINE g == Group(v)
             b == ~is_covered(desc[vmr[v].desc].views, g.first * SbSize, g.end * SbSize)
             t == Present(v)
             y == [vmr[v] EXCEPT !.st = "put", !.todo = t, !.rel = b]
  <1>1. vmr[v].st = "walk" /\ "put" \in Phases /\ {"put", "walk"} \subseteq Busy
        /\ ~vmr[v].unc.fine /\ t # {}
    BY DEF CloseQuery, Phases, Busy
  <1>2. Types /\ vmr[v] \in VmrRec
    BY DEF Frame, Types
  <1>3. t \subseteq Groups
    BY <1>2 DEF VmrRec, Present
  <1>4. g \in t /\ g \in Groups
    BY <1>1, <1>2, GroupPresent
  <1>5. b \in BOOLEAN
    OBVIOUS
  <1>6. vmr' = [vmr EXCEPT ![v] = y] /\ UNCHANGED <<mm, desc, dir, used, ref, cut, rec>>
    BY DEF CloseQuery, dirVars
  <1> HIDE DEF b, t, g
  <1>7. /\ y \in VmrRec /\ y.st = "put" /\ y.cnt = vmr[v].cnt /\ y.unc = vmr[v].unc /\ y.todo = t
        /\ y.mm = vmr[v].mm /\ y.desc = vmr[v].desc /\ y.lo = vmr[v].lo /\ y.hi = vmr[v].hi
        /\ y.link = vmr[v].link /\ y.rel = b
    BY <1>1, <1>2, <1>3, <1>5 DEF VmrRec
  <1> HIDE DEF y
  <1>8. vmr' \in [Vmrs -> VmrRec] /\ vmr'[v] = y /\ OnlyVmr(v)
    BY <1>2, <1>6, <1>7 DEF Types, OnlyVmr
  <1>9. Onward(v)
    BY <1>1, <1>7, <1>8 DEF Onward
  <1> QED BY <1>1, <1>4, <1>6, <1>7, <1>8, <1>9 DEF t, g, b

LEMMA CloseQueryFrame ==
    ASSUME Frame, NEW v \in Vmrs, CloseQuery(v)
    PROVE  Frame'
  <1>1. /\ UNCHANGED <<mm, desc, dir, used, ref, cut, rec>>
        /\ vmr' \in [Vmrs -> VmrRec] /\ OnlyVmr(v) /\ Onward(v)
    BY CloseQueryEffect
  <1>2. /\ desc' \in [Descs -> DescRec] /\ Lists'
        /\ \A d \in Descs : desc[d].st # "unused" => desc'[d].st # "unused"
    BY <1>1, SameDesc
  <1>3. (Places /\ Alone /\ Links /\ Started /\ Splitting /\ Forks)'
    BY <1>1, <1>2, CloserFrame
  <1>4. Types'
    BY <1>1, <1>2 DEF Types, Frame
  <1> QED BY <1>2, <1>3, <1>4 DEF Frame

(* The group at hand, its descriptor, and what becomes of them.            *)
PutEffect(v, d, g, o, put) ==
    /\ d = vmr[v].desc /\ g = Group(v) /\ g \in Groups /\ g \in vmr[v].todo /\ g \in Present(v)
    /\ o = dir[d][g.first] /\ put = Releases(v)
    /\ put => \A i \in Members(g) : dir[d][i] = o
    /\ UNCHANGED <<mm, desc>>
    /\ vmr[v].st = "put" \/ (vmr[v].st = "walk" /\ vmr[v].unc.fine)
    /\ vmr' \in [Vmrs -> VmrRec] /\ OnlyVmr(v) /\ Onward(v)
    /\ vmr'[v].st = "walk" /\ vmr'[v].cnt = vmr[v].cnt /\ vmr'[v].unc = vmr[v].unc
    /\ vmr'[v].todo = Present(v) \ {g} /\ vmr'[v].rel = FALSE
    /\ rec' \in [Gpas -> [Idx -> SUBSET Vmrs]]
    /\ \A x \in Gpas, i \in Idx :
          rec'[x][i] = IF x = o /\ i \in Members(g) THEN rec[x][i] \ {v} ELSE rec[x][i]
    /\ ref' \in [Gpas -> [Idx -> Int]]
    /\ \A x \in Gpas, i \in Idx :
          ref'[x][i] = IF x = o /\ i \in Members(g) /\ put THEN ref[x][i] - 1 ELSE ref[x][i]
    /\ dir' \in [Descs -> [Idx -> Gpas \cup {None}]]
    /\ \A e \in Descs, i \in Idx :
          dir'[e][i] = IF e = d /\ i \in Members(g) /\ put THEN None ELSE dir[e][i]
    /\ used' = IF put /\ ref'[o][g.first] = 0 THEN used \ {o} ELSE used
    /\ cut' \in [Gpas -> SUBSET (0..GpaLen)]

LEMMA ClosePutEffect ==
    ASSUME Frame, NEW v \in Vmrs, ClosePut(v)
    PROVE  \E d \in Descs, g \in Groups, o \in Gpas, put \in BOOLEAN : PutEffect(v, d, g, o, put)
  <1>1. Types /\ vmr[v] \in VmrRec
    BY DEF Frame, Types
  <1>2. /\ vmr[v].st = "put" \/ (vmr[v].st = "walk" /\ vmr[v].unc.fine)
        /\ "walk" \in Phases /\ {"put", "walk"} \subseteq Busy /\ Present(v) # {}
    BY DEF ClosePut, Phases, Busy
  <1>3. PICK g \in Groups : g = Group(v) /\ g \in vmr[v].todo /\ g \in Present(v)
    BY <1>1, <1>2, GroupPresent
  <1>4. PICK d \in Descs : d = vmr[v].desc
    BY <1>2, BusyPlace
  <1>5. g.first \in Idx /\ g.first \in Members(g) /\ Members(g) \subseteq Idx
    BY Tiling, GroupsType DEF GroupsTyped
  <1>6. PICK o \in Gpas : o = dir[d][g.first]
    <2>1. dir[d][g.first] # None
      BY <1>3, <1>4 DEF Present
    <2>2. dir[d][g.first] \in Gpas \cup {None}
      BY <1>1, <1>5 DEF Types
    <2> QED BY <2>1, <2>2
  <1>7. PICK put \in BOOLEAN : put = Releases(v)
    BY <1>1, VmrRecs DEF Releases
  <1>8. PICK rest : rest = [i \in Idx |-> ref[o][i] - (IF i \in Members(g) /\ put THEN 1 ELSE 0)]
    OBVIOUS
  <1>9. /\ put => \A i \in Members(g) : dir[d][i] = o
        /\ rec' = [rec EXCEPT ![o] = [i \in Idx |-> IF i \in Members(g) THEN rec[o][i] \ {v} ELSE rec[o][i]]]
        /\ ref' = [ref EXCEPT ![o] = rest]
        /\ dir' = IF put
                  THEN [dir EXCEPT ![d] = [i \in Idx |-> IF i \in Members(g) THEN None ELSE dir[d][i]]]
                  ELSE dir
        /\ used' = IF put /\ rest[g.first] = 0 THEN used \ {o} ELSE used
        /\ cut' = IF put /\ rest[g.first] = 0 THEN [cut EXCEPT ![o] = {}] ELSE cut
        /\ UNCHANGED <<mm, desc>>
    BY <1>3, <1>4, <1>6, <1>7, <1>8 DEF ClosePut, puts_ref
  <1> DEFINE t == Present(v) \ {g}
             y == [vmr[v] EXCEPT !.st = "walk", !.todo = t, !.rel = FALSE]
  <1>10. vmr' = [vmr EXCEPT ![v] = y]
    BY <1>3 DEF ClosePut
  <1>11. t \subseteq Groups
    BY <1>1 DEF VmrRec, Present
  <1> HIDE DEF t
  <1>12. /\ y \in VmrRec /\ y.st = "walk" /\ y.cnt = vmr[v].cnt /\ y.unc = vmr[v].unc /\ y.todo = t
         /\ y.mm = vmr[v].mm /\ y.desc = vmr[v].desc /\ y.lo = vmr[v].lo /\ y.hi = vmr[v].hi
         /\ y.link = vmr[v].link /\ y.rel = FALSE
    BY <1>1, <1>2, <1>11 DEF VmrRec
  <1> HIDE DEF y
  <1>13. vmr' \in [Vmrs -> VmrRec] /\ vmr'[v] = y /\ OnlyVmr(v)
    BY <1>1, <1>10, <1>12 DEF Types, OnlyVmr
  <1>14. Onward(v)
    BY <1>2, <1>12, <1>13 DEF Onward
  <1>15. /\ rec \in [Gpas -> [Idx -> SUBSET Vmrs]] /\ ref \in [Gpas -> [Idx -> Int]]
         /\ dir \in [Descs -> [Idx -> Gpas \cup {None}]] /\ cut \in [Gpas -> SUBSET (0..GpaLen)]
    BY <1>1 DEF Types
  <1>16. /\ rec' \in [Gpas -> [Idx -> SUBSET Vmrs]]
         /\ \A x \in Gpas, i \in Idx :
               rec'[x][i] = IF x = o /\ i \in Members(g) THEN rec[x][i] \ {v} ELSE rec[x][i]
    <2>1. [i \in Idx |-> IF i \in Members(g) THEN rec[o][i] \ {v} ELSE rec[o][i]] \in [Idx -> SUBSET Vmrs]
      BY <1>15
    <2> QED BY <1>9, <1>15, <2>1
  <1>17. rest \in [Idx -> Int] /\ \A i \in Idx : rest[i] = IF i \in Members(g) /\ put THEN ref[o][i] - 1 ELSE ref[o][i]
    BY <1>8, <1>15
  <1>18. /\ ref' \in [Gpas -> [Idx -> Int]]
         /\ \A x \in Gpas, i \in Idx :
               ref'[x][i] = IF x = o /\ i \in Members(g) /\ put THEN ref[x][i] - 1 ELSE ref[x][i]
         /\ ref'[o] = rest
    BY <1>9, <1>15, <1>17
  <1>19. /\ dir' \in [Descs -> [Idx -> Gpas \cup {None}]]
         /\ \A e \in Descs, i \in Idx :
               dir'[e][i] = IF e = d /\ i \in Members(g) /\ put THEN None ELSE dir[e][i]
    <2>1. [i \in Idx |-> IF i \in Members(g) THEN None ELSE dir[d][i]] \in [Idx -> Gpas \cup {None}]
      BY <1>15
    <2> QED BY <1>9, <1>15, <2>1
  <1>20. cut' \in [Gpas -> SUBSET (0..GpaLen)]
    BY <1>9, <1>15
  <1>21. PutEffect(v, d, g, o, put)
    BY <1>2, <1>3, <1>4, <1>6, <1>7, <1>9, <1>12, <1>13, <1>14, <1>16, <1>18, <1>19, <1>20 DEF PutEffect, t
  <1> QED BY <1>21

LEMMA ClosePutFrame ==
    ASSUME Frame, NEW v \in Vmrs, ClosePut(v)
    PROVE  Frame'
  <1>1. PICK d \in Descs, g \in Groups, o \in Gpas, put \in BOOLEAN : PutEffect(v, d, g, o, put)
    BY ClosePutEffect
  <1>2. UNCHANGED <<mm, desc>> /\ vmr' \in [Vmrs -> VmrRec] /\ OnlyVmr(v) /\ Onward(v)
    BY <1>1 DEF PutEffect
  <1>3. /\ desc' \in [Descs -> DescRec] /\ Lists'
        /\ \A e \in Descs : desc[e].st # "unused" => desc'[e].st # "unused"
    BY <1>2, SameDesc
  <1>4. (Places /\ Alone /\ Links /\ Started /\ Splitting /\ Forks)'
    BY <1>2, <1>3, CloserFrame
  <1>5. Types'
    BY <1>1, <1>2, <1>3 DEF Types, Frame, PutEffect
  <1> QED BY <1>3, <1>4, <1>5 DEF Frame

ClearEffect(v, d) ==
    /\ UNCHANGED <<mm, dir, used, ref, cut, rec>>
    /\ vmr' \in [Vmrs -> VmrRec] /\ OnlyVmr(v) /\ Onward(v) /\ SameLocals(v)
    /\ vmr[v].st = "walk" /\ Present(v) = {} /\ vmr[v].cnt > 0 /\ vmr'[v].st = "wake"
    /\ d = vmr[v].desc /\ OnlyDesc(d, desc'[d]) /\ desc'[d].closer = None
    /\ desc'[d].st = desc[d].st /\ desc'[d].shared = desc[d].shared
    /\ desc'[d].views = desc[d].views /\ desc'[d].refcount = desc[d].refcount

LEMMA CloseClearEffect ==
    ASSUME Frame, NEW v \in Vmrs, CloseClear(v)
    PROVE  \E d \in Descs : ClearEffect(v, d)
  <1>1. /\ vmr[v].st = "walk" /\ Present(v) = {} /\ vmr[v].cnt > 0
        /\ "wake" \in Phases /\ {"walk", "wake"} \subseteq Busy
    BY DEF CloseClear, Phases, Busy
  <1>2. Types
    BY DEF Frame
  <1>3. PICK d \in Descs : d = vmr[v].desc
    BY <1>1, BusyPlace
  <1>4. /\ UNCHANGED <<mm, dir, used, ref, cut, rec>> /\ vmr' = In(v, "wake")
        /\ desc' = [desc EXCEPT ![d].closer = None]
    BY <1>3 DEF CloseClear, dirVars
  <1>5. /\ vmr' \in [Vmrs -> VmrRec] /\ OnlyVmr(v) /\ Onward(v) /\ SameLocals(v) /\ vmr'[v].st = "wake"
    BY <1>1, <1>2, <1>4, InEffect DEF Onward, SameLocals
  <1>6. /\ OnlyDesc(d, desc'[d]) /\ desc'[d].closer = None
        /\ desc'[d].st = desc[d].st /\ desc'[d].shared = desc[d].shared
        /\ desc'[d].views = desc[d].views /\ desc'[d].refcount = desc[d].refcount
    BY <1>2, <1>4, CloserSet
  <1>7. ClearEffect(v, d)
    BY <1>1, <1>3, <1>4, <1>5, <1>6 DEF ClearEffect
  <1> QED BY <1>7

LEMMA CloseClearFrame ==
    ASSUME Frame, NEW v \in Vmrs, CloseClear(v)
    PROVE  Frame'
  <1>1. PICK d \in Descs : ClearEffect(v, d)
    BY CloseClearEffect
  <1>2. Listed(desc[d].views)
    BY DEF Frame, Lists
  <1> QED BY <1>1, <1>2, CloserStepFrame DEF ClearEffect

LEMMA IdleRec == Idle \in MmRec /\ Idle.op = "idle"
  BY DEF Idle, MmRec

LEMMA CloserEnds ==
    ASSUME Frame, NEW v \in Vmrs, vmr[v].st \in Busy, mm' = Ended(v),
           vmr' \in [Vmrs -> VmrRec], vmr'[v] = Dead,
           \A w \in Vmrs \ {v} : \/ vmr'[w] = vmr[w]
                                 \/ /\ vmr[w].st = "asleep" /\ vmr'[w].st = "enter"
                                    /\ vmr'[w].mm = vmr[w].mm /\ vmr'[w].desc = vmr[w].desc
                                    /\ vmr'[w].lo = vmr[w].lo /\ vmr'[w].hi = vmr[w].hi
                                    /\ vmr'[w].link = vmr[w].link,
           \A d \in Descs : desc[d].st # "unused" => desc'[d].st # "unused"
    PROVE  (Places /\ Alone /\ Links /\ Started /\ Splitting /\ Forks)' /\ mm' \in [Mms -> MmRec]
  <1>1. PICK m \in Mms : m = vmr[v].mm /\ mm[m].op = "close"
    <2>1. Place(v) /\ vmr[v].st \in Placed
      BY Phase DEF Frame, Places
    <2> QED BY <2>1 DEF Place
  <1>2. /\ mm' \in [Mms -> MmRec] /\ mm'[m].op = "idle"
        /\ \A k \in Mms \ {m} : mm'[k] = mm[k]
    BY <1>1, IdleRec DEF Frame, Types, Ended
  <1>3. {"asleep", "enter"} \subseteq Busy
    BY DEF Busy
  <1> DEFINE S == {w \in Vmrs : vmr[w].st \in Busy}
  <1>4. \A w \in Vmrs \ S : Stays(w)
    BY <1>3 DEF Stays
  <1>5. ASSUME NEW w \in S PROVE Place(w)'
    <2>1. Place(w) /\ vmr[w].st \in Placed
      BY Phase DEF Frame, Places
    <2>2. CASE w = v
      BY <2>2, DeadFields DEF Place
    <2>3. CASE w # v
      <3>1. vmr[w].mm # m /\ vmr[w].mm \in Mms /\ mm'[vmr[w].mm].op = "close"
        <4>1. vmr[w].mm # vmr[v].mm
          BY <2>3 DEF Frame, Alone
        <4> QED BY <1>1, <1>2, <2>1, <4>1 DEF Place
      <3> QED BY <1>3, <2>1, <2>3, <3>1 DEF Place
    <2> QED BY <2>2, <2>3
  <1>6. FrameStep(S, v)
    <2>1. ASSUME NEW w \in S
          PROVE  /\ vmr[w].st # "unused" => vmr'[w].st # "unused"
                 /\ vmr'[w].link \in {None, vmr[w].link}
                 /\ vmr'[w].st \in Busy => vmr[w].st \in Busy /\ vmr'[w].mm = vmr[w].mm
      BY DeadFields, Phase
    <2>2. vmr'[v].st # "unused"
      BY DeadFields
    <2>3. ASSUME NEW k \in Mms, NEW w \in Vmrs \ S PROVE ~(vmr[w].st \in Busy /\ vmr[w].mm = k)
      OBVIOUS
    <2> QED BY <1>4, <1>5, <2>1, <2>2, <2>3 DEF FrameStep, Others
  <1>7. SpaceStep({m})
    <2>1. SplitAt(m)' /\ ForkAt(m)'
      BY <1>2 DEF SplitAt, ForkAt
    <2>2. ASSUME NEW w \in Vmrs, vmr[w].st = "live" PROVE vmr'[w] = vmr[w]
      BY <2>2, Phase
    <2>3. ASSUME NEW n \in Mms, mm[n].op = "fork" PROVE mm[n].kid # m
      BY <1>1, <2>3 DEF Frame, Forks, ForkAt
    <2> QED BY <1>2, <2>1, <2>2, <2>3 DEF SpaceStep
  <1>8. (Places /\ Alone /\ Links /\ Started)'
    <2> HIDE DEF S
    <2>1. S \in SUBSET Vmrs
      BY DEF S
    <2> QED BY <1>6, <2>1, FrameKept
  <1>9. (Splitting /\ Forks)'
    BY <1>7, SpacesKept
  <1> QED BY <1>2, <1>8, <1>9

LEMMA CloseWakeEffect ==
    ASSUME Frame, NEW v \in Vmrs, CloseWake(v)
    PROVE  /\ UNCHANGED <<desc, dir, used, ref, cut, rec>>
           /\ vmr[v].st = "wake" /\ vmr[v].st \in Busy /\ mm' = Ended(v)
           /\ vmr' \in [Vmrs -> VmrRec] /\ vmr'[v] = Dead
           /\ \A w \in Vmrs \ {v} : \/ vmr'[w] = vmr[w]
                                    \/ /\ vmr[w].st = "asleep" /\ vmr'[w].st = "enter"
                                       /\ vmr'[w].mm = vmr[w].mm /\ vmr'[w].desc = vmr[w].desc
                                       /\ vmr'[w].lo = vmr[w].lo /\ vmr'[w].hi = vmr[w].hi
                                       /\ vmr'[w].link = vmr[w].link
  <1>1. /\ UNCHANGED <<desc, dir, used, ref, cut, rec>> /\ vmr[v].st = "wake" /\ mm' = Ended(v)
        /\ vmr[v].st \in Busy /\ "enter" \in Phases
    BY DEF CloseWake, dirVars, Busy, Phases
  <1> DEFINE y(w) == [vmr[w] EXCEPT !.st = "enter"]
  <1>2. vmr' = [w \in Vmrs |-> IF w = v THEN Dead ELSE IF w \in woken(v) THEN y(w) ELSE vmr[w]]
    BY DEF CloseWake
  <1>3. ASSUME NEW w \in Vmrs
        PROVE  /\ y(w) \in VmrRec /\ y(w).st = "enter"
               /\ y(w).mm = vmr[w].mm /\ y(w).desc = vmr[w].desc /\ y(w).lo = vmr[w].lo
               /\ y(w).hi = vmr[w].hi /\ y(w).link = vmr[w].link
               /\ vmr[w] \in VmrRec
    <2>1. vmr[w] \in VmrRec
      BY DEF Frame, Types
    <2> QED BY <1>1, <2>1, InPhase
  <1>4. \A w \in woken(v) : vmr[w].st = "asleep"
    BY DEF woken
  <1> HIDE DEF y
  <1>5. vmr' \in [Vmrs -> VmrRec] /\ vmr'[v] = Dead
    BY <1>2, <1>3, NewVmrRec
  <1>6. \A w \in Vmrs \ {v} : vmr'[w] = vmr[w] \/ (vmr[w].st = "asleep" /\ vmr'[w] = y(w))
    BY <1>2, <1>4
  <1> QED BY <1>1, <1>3, <1>5, <1>6

LEMMA CloseWakeFrame ==
    ASSUME Frame, NEW v \in Vmrs, CloseWake(v)
    PROVE  Frame'
  <1>1. /\ UNCHANGED <<desc, dir, used, ref, cut, rec>> /\ vmr' \in [Vmrs -> VmrRec]
    BY CloseWakeEffect
  <1>2. /\ desc' \in [Descs -> DescRec] /\ Lists'
        /\ \A e \in Descs : desc[e].st # "unused" => desc'[e].st # "unused"
    BY <1>1, SameDesc
  <1>3. (Places /\ Alone /\ Links /\ Started /\ Splitting /\ Forks)' /\ mm' \in [Mms -> MmRec]
    BY <1>2, CloseWakeEffect, CloserEnds
  <1>4. Types'
    BY <1>1, <1>2, <1>3 DEF Types, Frame
  <1> QED BY <1>2, <1>3, <1>4 DEF Frame

LEMMA CloseLastEffect ==
    ASSUME Frame, NEW v \in Vmrs, CloseLast(v)
    PROVE  LET d == vmr[v].desc
           IN  /\ UNCHANGED <<dir, used, ref, cut, rec>>
               /\ vmr[v].st = "walk" /\ vmr[v].st \in Busy /\ vmr[v].cnt = 0 /\ Present(v) = {}
               /\ mm' = Ended(v) /\ vmr' \in [Vmrs -> VmrRec] /\ vmr'[v] = Dead /\ OnlyVmr(v)
               /\ d \in Descs /\ OnlyDesc(d, desc'[d])
               /\ desc'[d].refcount = desc[d].refcount /\ desc'[d].st = "freed"
               /\ desc'[d].shared = desc[d].shared
               /\ desc'[d].closer = desc[d].closer /\ desc'[d].views = desc[d].views
  <1>1. /\ UNCHANGED <<dir, used, ref, cut, rec>> /\ vmr[v].st = "walk" /\ mm' = Ended(v)
        /\ vmr[v].st \in Busy /\ vmr[v].cnt = 0 /\ Present(v) = {}
        /\ vmr' = [vmr EXCEPT ![v] = Dead]
        /\ desc' = [desc EXCEPT ![vmr[v].desc].st = "freed"]
    BY DEF CloseLast, dirVars, Busy
  <1>2. vmr' \in [Vmrs -> VmrRec] /\ vmr'[v] = Dead /\ OnlyVmr(v)
    BY <1>1, NewVmrRec DEF Frame, Types, OnlyVmr
  <1>3. Types /\ vmr[v].desc \in Descs
    BY <1>1, BusyPlace DEF Frame
  <1> QED BY <1>1, <1>2, <1>3, FreedSet

LEMMA CloseLastFrame ==
    ASSUME Frame, NEW v \in Vmrs, CloseLast(v)
    PROVE  Frame'
  <1>1. PICK d \in Descs : /\ UNCHANGED <<dir, used, ref, cut, rec>> /\ mm' = Ended(v)
            /\ vmr[v].st \in Busy /\ vmr' \in [Vmrs -> VmrRec] /\ vmr'[v] = Dead /\ OnlyVmr(v)
            /\ OnlyDesc(d, desc'[d]) /\ desc'[d].st = "freed" /\ desc'[d].views = desc[d].views
    BY CloseLastEffect
  <1>2. Lists' /\ \A e \in Descs : desc[e].st # "unused" => desc'[e].st # "unused"
    BY <1>1, OneDesc DEF Frame, Lists
  <1>3. (Places /\ Alone /\ Links /\ Started /\ Splitting /\ Forks)' /\ mm' \in [Mms -> MmRec]
    BY <1>1, <1>2, CloserEnds DEF OnlyVmr
  <1>4. Types'
    BY <1>1, <1>2, <1>3 DEF Types, Frame, OnlyDesc
  <1> QED BY <1>2, <1>3, <1>4 DEF Frame

-----------------------------------------------------------------------------
(* A close begins.                                                         *)
LEMMA CloseBeginEffect ==
    ASSUME Frame, NEW v \in Vmrs, CloseBegin(v)
    PROVE  /\ UNCHANGED <<desc, dir, used, ref, cut, rec>>
           /\ vmr[v].st = "live" /\ vmr[v].mm \in Mms /\ mm[vmr[v].mm] = Idle
           /\ vmr' \in [Vmrs -> VmrRec] /\ Others({v})
           /\ vmr'[v].st = "enter" /\ vmr'[v].mm = vmr[v].mm /\ vmr'[v].desc = vmr[v].desc
           /\ vmr'[v].lo = vmr[v].lo /\ vmr'[v].hi = vmr[v].hi /\ vmr'[v].link = None
           /\ mm' \in [Mms -> MmRec] /\ mm'[vmr[v].mm].op = "close"
           /\ \A m \in Mms \ {vmr[v].mm} : mm'[m] = mm[m]
  <1>1. /\ UNCHANGED <<desc, dir, used, ref, cut, rec>> /\ vmr[v].st = "live" /\ mm[vmr[v].mm] = Idle
        /\ vmr' = [finish_split(vmr, v) EXCEPT ![v].st = "enter"]
        /\ mm' = [mm EXCEPT ![vmr[v].mm] = [op |-> "close"]]
        /\ "enter" \in Phases
    BY DEF CloseBegin, dirVars, Phases
  <1>2. Types /\ vmr \in [Vmrs -> VmrRec] /\ vmr[v] \in VmrRec /\ vmr[v].st # "pending"
    BY <1>1 DEF Frame, Types
  <1>3. PICK m \in Mms : m = vmr[v].mm
    BY <1>1, Phase DEF Frame, Places, Place
  <1>4. [op |-> "close"] \in MmRec
    BY DEF MmRec
  <1>5. mm' \in [Mms -> MmRec] /\ mm'[m].op = "close" /\ \A k \in Mms \ {m} : mm'[k] = mm[k]
    BY <1>1, <1>2, <1>3, <1>4 DEF Types
  <1> DEFINE fs == finish_split(vmr, v)
  <1>6. /\ fs \in [Vmrs -> VmrRec] /\ fs[v] = [vmr[v] EXCEPT !.link = None]
        /\ \A w \in Vmrs \ {v} : fs[w] = vmr[w] \/ (fs[w] = Dead /\ vmr[w].st = "pending")
    BY <1>2, FinishSplit
  <1> HIDE DEF fs
  <1>7. /\ fs[v] \in VmrRec /\ fs[v].mm = vmr[v].mm /\ fs[v].desc = vmr[v].desc
        /\ fs[v].lo = vmr[v].lo /\ fs[v].hi = vmr[v].hi /\ fs[v].link = None
    BY <1>2, <1>6, Unlinked
  <1>8. PICK y \in VmrRec : y = [fs[v] EXCEPT !.st = "enter"]
    BY <1>1, <1>7, InPhase
  <1>9. /\ y.st = "enter" /\ y.mm = vmr[v].mm /\ y.desc = vmr[v].desc
        /\ y.lo = vmr[v].lo /\ y.hi = vmr[v].hi /\ y.link = None
    BY <1>1, <1>7, <1>8, InPhase
  <1>10. vmr' = [fs EXCEPT ![v] = y]
    BY <1>1, <1>8 DEF fs
  <1>11. vmr' \in [Vmrs -> VmrRec] /\ vmr'[v] = y /\ \A w \in Vmrs \ {v} : vmr'[w] = fs[w]
    BY <1>6, <1>10
  <1>12. Others({v})
    BY <1>6, <1>11 DEF Others, Stays
  <1> QED BY <1>1, <1>3, <1>5, <1>9, <1>11, <1>12

LEMMA CloseBeginFrame ==
    ASSUME Frame, NEW v \in Vmrs, CloseBegin(v)
    PROVE  Frame'
  <1>1. PICK m \in Mms :
            /\ UNCHANGED <<desc, dir, used, ref, cut, rec>>
            /\ vmr[v].st = "live" /\ vmr[v].mm = m /\ mm[m].op = "idle"
            /\ vmr' \in [Vmrs -> VmrRec] /\ Others({v})
            /\ vmr'[v].st = "enter" /\ vmr'[v].mm = m /\ vmr'[v].desc = vmr[v].desc
            /\ vmr'[v].lo = vmr[v].lo /\ vmr'[v].hi = vmr[v].hi /\ vmr'[v].link = None
            /\ mm' \in [Mms -> MmRec] /\ mm'[m].op = "close"
            /\ \A k \in Mms \ {m} : mm'[k] = mm[k]
    BY CloseBeginEffect, IdleRec
  <1>2. /\ desc' \in [Descs -> DescRec] /\ Lists'
        /\ \A e \in Descs : desc[e].st # "unused" => desc'[e].st # "unused"
    BY <1>1, SameDesc
  <1>3. Types /\ Place(v) /\ "enter" \in Busy
    BY DEF Frame, Places, Busy
  <1>4. Place(v)'
    BY <1>1, <1>3, Phase DEF Place
  <1>5. FrameStep({v}, v)
    BY <1>1, <1>2, <1>4, Phase DEF FrameStep
  <1>6. SpaceStep({m})
    <2>1. SplitAt(m)' /\ ForkAt(m)'
      BY <1>1 DEF SplitAt, ForkAt
    <2>2. ASSUME NEW w \in Vmrs, vmr[w].st = "live", vmr[w].mm # m PROVE vmr'[w] = vmr[w]
      BY <1>1, <1>3, <2>2, StaysFacts, Phase DEF Others
    <2>3. ASSUME NEW n \in Mms, mm[n].op = "fork" PROVE mm[n].kid # m
      BY <1>1, <2>3 DEF Frame, Forks, ForkAt
    <2> QED BY <1>1, <2>1, <2>2, <2>3 DEF SpaceStep
  <1>7. (Places /\ Alone /\ Links /\ Started)'
    BY <1>5, FrameKept
  <1>8. (Splitting /\ Forks)'
    BY <1>6, SpacesKept
  <1>9. Types'
    BY <1>1, <1>2, <1>3 DEF Types
  <1> QED BY <1>2, <1>7, <1>8, <1>9 DEF Frame

-----------------------------------------------------------------------------
(* get_gpadesc(): the slot has its group, or gets a new one with the whole *)
(* of its descriptor group that is empty.                                  *)
GetEffect(d, i, o) ==
    /\ dir' \in [Descs -> [Idx -> Gpas \cup {None}]] /\ used' \subseteq Gpas
    /\ ref' \in [Gpas -> [Idx -> Int]]
    /\ \/ /\ dir[d][i] = o /\ UNCHANGED <<dir, used, ref>>
       \/ /\ dir[d][i] = None /\ dir[d][GroupOf[i].first] = None
          /\ o \notin used /\ used' = used \cup {o}
          /\ \A e \in Descs, j \in Idx :
                dir'[e][j] = IF e = d /\ j \in Members(GroupOf[i]) /\ dir[d][j] = None
                             THEN o ELSE dir[e][j]
          /\ \A x \in Gpas, j \in Idx :
                ref'[x][j] = IF x = o
                             THEN IF j \in Members(GroupOf[i]) /\ dir[d][j] = None THEN 1 ELSE 0
                             ELSE ref[x][j]

LEMMA GetGpadesc ==
    ASSUME Types, NEW d \in Descs, NEW i \in Idx, get_gpadesc(d, i)
    PROVE  Gpa(d, i) \in Gpas /\ GetEffect(d, i, Gpa(d, i))
  <1>1. /\ dir \in [Descs -> [Idx -> Gpas \cup {None}]] /\ used \subseteq Gpas
        /\ ref \in [Gpas -> [Idx -> Int]]
    BY DEF Types
  <1>2. CASE dir[d][i] # None
    BY <1>1, <1>2 DEF get_gpadesc, Gpa, GetEffect
  <1>3. CASE dir[d][i] = None
    <2>1. PICK M : M = {j \in Members(GroupOf[i]) : dir[d][j] = None}
      OBVIOUS
    <2>2. PICK o : o = NextGpa
      OBVIOUS
    <2>3. /\ dir[d][GroupOf[i].first] = None /\ used # Gpas /\ used' = used \cup {o}
          /\ dir' = [dir EXCEPT ![d] = [j \in Idx |-> IF j \in M THEN o ELSE dir[d][j]]]
          /\ ref' = [ref EXCEPT ![o] = [j \in Idx |-> IF j \in M THEN 1 ELSE 0]]
      BY <1>3, <2>1, <2>2 DEF get_gpadesc, new_gpadesc
    <2>4. o \in Gpas \ used
      BY <1>1, <2>2, <2>3, NextGpaUnused
    <2>5. Gpa(d, i) = o
      BY <1>3, <2>2 DEF Gpa
    <2>6. /\ [j \in Idx |-> IF j \in M THEN o ELSE dir[d][j]] \in [Idx -> Gpas \cup {None}]
          /\ [j \in Idx |-> IF j \in M THEN 1 ELSE 0] \in [Idx -> Int]
      BY <1>1, <2>4
    <2>7. dir' \in [Descs -> [Idx -> Gpas \cup {None}]] /\ used' \subseteq Gpas /\ ref' \in [Gpas -> [Idx -> Int]]
      BY <1>1, <2>3, <2>4, <2>6
    <2>8. \A e \in Descs, j \in Idx :
             dir'[e][j] = IF e = d /\ j \in Members(GroupOf[i]) /\ dir[d][j] = None THEN o ELSE dir[e][j]
      BY <1>1, <2>1, <2>3
    <2>9. \A x \in Gpas, j \in Idx :
             ref'[x][j] = IF x = o
                          THEN IF j \in Members(GroupOf[i]) /\ dir[d][j] = None THEN 1 ELSE 0
                          ELSE ref[x][j]
      BY <1>1, <2>1, <2>3, <2>4
    <2> QED BY <1>3, <2>3, <2>4, <2>5, <2>7, <2>8, <2>9 DEF GetEffect
  <1> QED BY <1>2, <1>3

LEMMA LivePlace ==
    ASSUME Frame, NEW v \in Vmrs, vmr[v].st \in Placed
    PROVE  /\ vmr[v].desc \in Descs /\ vmr[v].mm \in Mms /\ vmr[v].lo < vmr[v].hi
           /\ vmr[v].lo \in 0..NPages /\ vmr[v].hi \in 0..NPages
           /\ vmr[v].lo \in Nat /\ vmr[v].hi \in Nat
           /\ desc[vmr[v].desc] \in DescRec /\ desc[vmr[v].desc].st # "unused"
           /\ Listed(desc[vmr[v].desc].views) /\ vmr[v] \in VmrRec
           /\ SlotsOf(v) \subseteq Idx
  <1>1. /\ vmr[v].desc \in Descs /\ vmr[v].mm \in Mms /\ vmr[v].lo < vmr[v].hi
        /\ vmr[v].lo \in 0..NPages /\ vmr[v].hi \in 0..NPages
        /\ vmr[v].lo \in Nat /\ vmr[v].hi \in Nat
        /\ desc[vmr[v].desc] \in DescRec /\ desc[vmr[v].desc].st # "unused"
        /\ Listed(desc[vmr[v].desc].views) /\ vmr[v] \in VmrRec
    BY VmrRecs DEF Frame, Places, Place, Types, Lists
  <1>2. ASSUME NEW i \in SlotsOf(v) PROVE i \in Idx
    <2>1. i \in Int
      <3>1. SbDown(vmr[v].lo) \in 0..GpaLen /\ SbUp(vmr[v].hi) \in 0..GpaLen
        BY <1>1, RoundedPages
      <3> QED BY <3>1, Sizes DEF SlotsOf, Slots
    <2> QED BY <1>1, <2>1, SlotIn DEF SlotsOf
  <1> QED BY <1>1, <1>2

(* A fault maps part of its block's group.                                 *)
FaultEffect(v, i, d, o, mapped) ==
    /\ d = vmr[v].desc /\ GetEffect(d, i, o) /\ i \in SlotsOf(v)
    /\ vmr[v].st = "live"
    /\ mapped \subseteq Members(GroupOf[i]) \cap SlotsOf(v)
    /\ rec' \in [Gpas -> [Idx -> SUBSET Vmrs]]
    /\ \A x \in Gpas, j \in Idx :
          rec'[x][j] = IF x = o /\ j \in mapped THEN rec[x][j] \cup {v} ELSE rec[x][j]
    /\ UNCHANGED <<vmr, mm, desc, cut>>

LEMMA FaultEffects ==
    ASSUME Frame, NEW v \in Vmrs, NEW i \in Idx, Fault(v, i)
    PROVE  \E d \in Descs, o \in Gpas, mapped \in SUBSET Idx : FaultEffect(v, i, d, o, mapped)
  <1>1. vmr[v].st = "live" /\ UNCHANGED <<vmr, mm, desc, cut>> /\ i \in SlotsOf(v)
    BY DEF Fault
  <1>2. PICK d \in Descs : d = vmr[v].desc
    BY <1>1, Phase DEF Frame, Places, Place
  <1>3. Types /\ get_gpadesc(d, i)
    BY <1>2 DEF Fault, Frame
  <1>4. PICK o \in Gpas : o = Gpa(d, i) /\ GetEffect(d, i, o)
    BY <1>3, GetGpadesc
  <1>5. SlotsOf(v) \subseteq Idx
    BY <1>1, LivePlace, Phase
  <1>6. PICK mapped \in SUBSET Idx : mapped = BlockOf(o, i) \cap SlotsOf(v)
    BY <1>5
  <1>7. mapped \subseteq Members(GroupOf[i]) \cap SlotsOf(v)
    BY <1>6 DEF BlockOf
  <1>8. rec' = [rec EXCEPT ![o] = [j \in Idx |-> IF j \in mapped THEN rec[o][j] \cup {v} ELSE rec[o][j]]]
    BY <1>2, <1>4, <1>6 DEF Fault
  <1>9. rec \in [Gpas -> [Idx -> SUBSET Vmrs]]
    BY <1>3 DEF Types
  <1>10. [j \in Idx |-> IF j \in mapped THEN rec[o][j] \cup {v} ELSE rec[o][j]] \in [Idx -> SUBSET Vmrs]
    BY <1>9
  <1>11. /\ rec' \in [Gpas -> [Idx -> SUBSET Vmrs]]
         /\ \A x \in Gpas, j \in Idx :
               rec'[x][j] = IF x = o /\ j \in mapped THEN rec[x][j] \cup {v} ELSE rec[x][j]
    BY <1>8, <1>9, <1>10
  <1>12. FaultEffect(v, i, d, o, mapped)
    BY <1>1, <1>2, <1>4, <1>7, <1>11 DEF FaultEffect
  <1> QED BY <1>12

LEMMA FrameUnchanged ==
    ASSUME Frame, UNCHANGED <<vmr, mm, desc>>
    PROVE  (Lists /\ Places /\ Alone /\ Links /\ Started /\ Splitting /\ Forks)'
  BY DEF Frame, Lists, Places, Place, Alone, Links, Link, Started, Unused, Splitting, SplitAt,
         Forks, ForkAt

LEMMA FaultFrame ==
    ASSUME Frame, NEW v \in Vmrs, NEW i \in Idx, Fault(v, i)
    PROVE  Frame'
  <1>1. PICK d \in Descs, o \in Gpas, mapped \in SUBSET Idx : FaultEffect(v, i, d, o, mapped)
    BY FaultEffects
  <1>2. (Lists /\ Places /\ Alone /\ Links /\ Started /\ Splitting /\ Forks)'
    BY <1>1, FrameUnchanged DEF FaultEffect
  <1>3. Types'
    BY <1>1 DEF Types, Frame, FaultEffect, GetEffect
  <1> QED BY <1>2, <1>3 DEF Frame

-----------------------------------------------------------------------------
(* Splits.                                                                 *)
AnnounceEffect(p, n) ==
    /\ vmr[p].st = "live" /\ vmr[n].st = "unused" /\ n # p
    /\ UNCHANGED <<mm, desc, dir, used, ref, cut, rec>>
    /\ vmr' \in [Vmrs -> VmrRec] /\ Others({p, n})
    /\ vmr'[p].st = "live" /\ vmr'[p].mm = vmr[p].mm /\ vmr'[p].desc = vmr[p].desc
    /\ vmr'[p].lo = vmr[p].lo /\ vmr'[p].hi = vmr[p].hi /\ vmr'[p].link = n
    /\ vmr'[n].st = "pending" /\ vmr'[n].link = None

LEMMA SplitFailsEffect ==
    ASSUME Frame, NEW p \in Vmrs, SplitFails(p)
    PROVE  \E n \in Vmrs : AnnounceEffect(p, n)
  <1>1. /\ vmr[p].st = "live" /\ mm[vmr[p].mm] = Idle /\ Unused # {}
        /\ UNCHANGED <<mm, desc, dir, used, ref, cut, rec>>
        /\ vmr' = [may_split(p, NextVmr) EXCEPT ![p].link = NextVmr]
    BY DEF SplitFails, dirVars
  <1>2. PICK n \in Vmrs : n = NextVmr /\ vmr[n].st = "unused"
    BY <1>1, NextVmrUnused
  <1>3. Types /\ Links /\ vmr[p] \in VmrRec
    BY DEF Frame, Types
  <1> DEFINE ms == may_split(p, n)
  <1>4. /\ ms \in [Vmrs -> VmrRec] /\ n # p
        /\ ms[p] = [vmr[p] EXCEPT !.link = None]
        /\ ms[n] = [NewVmr EXCEPT !.st = "pending", !.mm = vmr[p].mm]
        /\ \A w \in Vmrs \ {p, n} : ms[w] = vmr[w] \/ (ms[w] = Dead /\ vmr[w].st = "pending")
    BY <1>1, <1>2, <1>3, MaySplit
  <1>5. vmr' = [ms EXCEPT ![p].link = n]
    BY <1>1, <1>2
  <1> HIDE DEF ms
  <1>6. /\ ms[p] \in VmrRec /\ ms[p].st = "live" /\ ms[p].mm = vmr[p].mm /\ ms[p].desc = vmr[p].desc
        /\ ms[p].lo = vmr[p].lo /\ ms[p].hi = vmr[p].hi
    BY <1>1, <1>3, <1>4, Unlinked
  <1>7. PICK y : y = [ms[p] EXCEPT !.link = n]
    OBVIOUS
  <1>8. /\ y \in VmrRec /\ y.st = "live" /\ y.mm = vmr[p].mm /\ y.desc = vmr[p].desc
        /\ y.lo = vmr[p].lo /\ y.hi = vmr[p].hi /\ y.link = n
    BY <1>6, <1>7 DEF VmrRec
  <1>9. /\ vmr' \in [Vmrs -> VmrRec] /\ vmr'[p] = y /\ vmr'[n] = ms[n]
        /\ \A w \in Vmrs \ {p, n} : vmr'[w] = ms[w]
    BY <1>4, <1>5, <1>7, <1>8
  <1>10. ms[n].st = "pending" /\ ms[n].link = None
    BY <1>4 DEF NewVmr
  <1>11. Others({p, n})
    BY <1>4, <1>9 DEF Others, Stays
  <1>12. AnnounceEffect(p, n)
    BY <1>1, <1>2, <1>4, <1>8, <1>9, <1>10, <1>11 DEF AnnounceEffect
  <1> QED BY <1>12

LEMMA SplitFailsFrame ==
    ASSUME Frame, NEW p \in Vmrs, SplitFails(p)
    PROVE  Frame'
  <1>1. PICK n \in Vmrs : AnnounceEffect(p, n)
    BY SplitFailsEffect
  <1>2. /\ vmr[p].st = "live" /\ vmr[n].st = "unused"
        /\ UNCHANGED <<mm, desc, dir, used, ref, cut, rec>>
        /\ vmr' \in [Vmrs -> VmrRec] /\ Others({p, n})
        /\ vmr'[p].st = "live" /\ vmr'[p].mm = vmr[p].mm /\ vmr'[p].desc = vmr[p].desc
        /\ vmr'[p].lo = vmr[p].lo /\ vmr'[p].hi = vmr[p].hi /\ vmr'[p].link = n
        /\ vmr'[n].st = "pending" /\ vmr'[n].link = None
    BY <1>1 DEF AnnounceEffect
  <1>3. Types /\ Place(p)
    BY DEF Frame, Places
  <1>4. /\ desc' \in [Descs -> DescRec] /\ Lists'
         /\ \A e \in Descs : desc[e].st # "unused" => desc'[e].st # "unused"
    BY <1>2, SameDesc
  <1>5. Place(p)' /\ Place(n)'
    <2>1. Place(n)'
      BY <1>2, Phase DEF Place
    <2>2. /\ vmr[p].mm \in Mms /\ vmr[p].desc \in Descs /\ vmr[p].lo < vmr[p].hi
          /\ desc[vmr[p].desc].st # "unused"
      BY <1>2, <1>3, Phase DEF Place
    <2>3. desc' = desc /\ vmr'[p].st \notin Busy
      BY <1>2, Phase
    <2>4. Place(p)'
      BY <1>2, <2>2, <2>3 DEF Place
    <2> QED BY <2>1, <2>4
  <1>6. FrameStep({p, n}, p)
    <2>1. Link(p)'
      BY <1>2 DEF Link
    <2>2. vmr'[p].st = "live" /\ vmr'[n].st = "pending" /\ vmr'[n].link = None
      BY <1>2
    <2>3. mm' = mm /\ "live" \notin Busy /\ "pending" \notin Busy
      BY <1>2, Phase
    <2> QED BY <1>2, <1>4, <1>5, <2>1, <2>2, <2>3 DEF FrameStep
  <1>7. SpaceStep({})
    <2>1. ASSUME NEW w \in Vmrs, vmr[w].st = "live" PROVE vmr'[w].st = "live" /\ vmr'[w].mm = vmr[w].mm
      BY <1>2, <1>3, <2>1, StaysFacts, Phase DEF Others
    <2> QED BY <1>2, <2>1 DEF SpaceStep
  <1>8. (Places /\ Alone /\ Links /\ Started)'
    BY <1>6, FrameKept
  <1>9. (Splitting /\ Forks)'
    BY <1>7, SpacesKept
  <1>10. Types'
    BY <1>2, <1>3, <1>4 DEF Types
  <1> QED BY <1>4, <1>8, <1>9, <1>10 DEF Frame

(* The interval [lo, hi) of @p in mm @m is cut at @mid, @n gets one half.  *)
SplitEffect(p, n, m, d, o, b, mid, olo, ohi, nlo, nhi) ==
    /\ vmr[p].st = "live" /\ m = vmr[p].mm /\ mm[m].op = "idle" /\ d = vmr[p].desc
    /\ n # p /\ vmr[n].st = "unused"
    /\ mid \in Splits(d) /\ vmr[p].lo < mid /\ mid < vmr[p].hi
    /\ \/ olo = vmr[p].lo /\ ohi = mid /\ nlo = mid /\ nhi = vmr[p].hi
       \/ nlo = vmr[p].lo /\ nhi = mid /\ olo = mid /\ ohi = vmr[p].hi
    /\ b = SbDown(mid) /\ GetEffect(d, b, o)
    /\ vmr' \in [Vmrs -> VmrRec] /\ Others({p, n})
    /\ vmr'[p].st = "live" /\ vmr'[p].mm = m /\ vmr'[p].desc = d
    /\ vmr'[p].lo = olo /\ vmr'[p].hi = ohi /\ vmr'[p].link = n
    /\ vmr'[n].st = "live" /\ vmr'[n].mm = m /\ vmr'[n].desc = d
    /\ vmr'[n].lo = nlo /\ vmr'[n].hi = nhi /\ vmr'[n].link = None
    /\ OnlyDesc(d, desc'[d])
    /\ desc'[d].refcount = desc[d].refcount + 1 /\ desc'[d].st = desc[d].st
    /\ desc'[d].shared = desc[d].shared
    /\ desc'[d].closer = desc[d].closer /\ desc'[d].views = desc[d].views
    /\ rec' \in [Gpas -> [Idx -> SUBSET Vmrs]]
    /\ \A x \in Gpas, i \in Idx :
          rec'[x][i] = IF dir[d][i] = x /\ p \in rec[x][i] /\ i \in Slots(nlo, nhi)
                       THEN IF i \in Slots(olo, ohi) THEN rec[x][i] \cup {n}
                                                     ELSE (rec[x][i] \ {p}) \cup {n}
                       ELSE rec[x][i]
    /\ cut' \in [Gpas -> SUBSET (0..GpaLen)]
    /\ mm' \in [Mms -> MmRec]
    /\ mm'[m] = [op |-> "views", prev |-> p, mid |-> mid, lo |-> vmr[p].lo, hi |-> vmr[p].hi]
    /\ \A k \in Mms \ {m} : mm'[k] = mm[k]

HalfOf(x, lo, hi, q) == [x EXCEPT !.lo = lo, !.hi = hi, !.link = q]
OpenAs(x, d, lo, hi) == [x EXCEPT !.st = "live", !.desc = d, !.lo = lo, !.hi = hi]

IsHalf(y, x, lo, hi, q) ==
    /\ y \in VmrRec /\ y.st = x.st /\ y.mm = x.mm /\ y.desc = x.desc
    /\ y.lo = lo /\ y.hi = hi /\ y.link = q
IsOpen(y, x, d, lo, hi) ==
    /\ y \in VmrRec /\ y.st = "live" /\ y.mm = x.mm /\ y.desc = d
    /\ y.lo = lo /\ y.hi = hi /\ y.link = x.link

LEMMA Halved ==
    ASSUME NEW x \in VmrRec, NEW lo \in 0..NPages, NEW hi \in 0..NPages, NEW q \in Vmrs
    PROVE  IsHalf(HalfOf(x, lo, hi, q), x, lo, hi, q)
  BY DEF VmrRec, HalfOf, IsHalf

LEMMA Opened ==
    ASSUME NEW x \in VmrRec, NEW lo \in 0..NPages, NEW hi \in 0..NPages, NEW d \in Descs,
           "live" \in Phases
    PROVE  IsOpen(OpenAs(x, d, lo, hi), x, d, lo, hi)
  BY DEF VmrRec, OpenAs, IsOpen

LEMMA SplitEffects ==
    ASSUME Frame, NEW p \in Vmrs, NEW mid \in SharedSplits \cup PrivateSplits,
           NEW newIsFront \in BOOLEAN, SplitOpen(p, mid, newIsFront)
    PROVE  \E n \in Vmrs, m \in Mms, d \in Descs, o \in Gpas, b \in Idx,
              olo, ohi, nlo, nhi \in 0..NPages :
              SplitEffect(p, n, m, d, o, b, mid, olo, ohi, nlo, nhi)
  <1>1. vmr[p].st = "live" /\ mm[vmr[p].mm] = Idle /\ Unused # {}
        /\ "live" \in Phases
    BY DEF SplitOpen, Phases
  <1>2. PICK n \in Vmrs : n = NextVmr /\ vmr[n].st = "unused"
    BY <1>1, NextVmrUnused
  <1>3. Types /\ Links /\ vmr[p] \in VmrRec
    BY DEF Frame, Types
  <1>4. PICK m \in Mms, d \in Descs : m = vmr[p].mm /\ d = vmr[p].desc
    BY <1>1, LivePlace, Phase
  <1>5. PICK lo, hi \in 0..NPages : lo = vmr[p].lo /\ hi = vmr[p].hi
    BY <1>1, LivePlace, Phase
  <1>6. /\ mid \in Splits(d) /\ lo < mid /\ mid < hi /\ mid \in 0..(NPages - 1) /\ mid \in 0..NPages
    <2>1. SharedSplits \cup PrivateSplits \subseteq 1..(NPages - 1)
      BY ViewsAssumption
    <2>2. mid \in Splits(d) /\ lo < mid /\ mid < hi
      BY <1>4, <1>5 DEF SplitOpen
    <2>3. mid \in 1..(NPages - 1)
      BY <2>1
    <2> QED BY <2>2, <2>3, Sizes
  <1>7. PICK b \in Idx : b = SbDown(mid)
    BY <1>6, SlotOfPage
  <1>8. get_gpadesc(d, b)
    BY <1>4, <1>7 DEF SplitOpen
  <1>9. PICK o \in Gpas : o = Gpa(d, b) /\ GetEffect(d, b, o)
    BY <1>3, <1>8, GetGpadesc
  <1>10. PICK olo, ohi, nlo, nhi \in 0..NPages :
            IF newIsFront THEN nlo = lo /\ nhi = mid /\ olo = mid /\ ohi = hi
                          ELSE olo = lo /\ ohi = mid /\ nlo = mid /\ nhi = hi
    BY <1>6
  <1>11. /\ vmr' = [may_split(p, n) EXCEPT
              ![p].lo = olo, ![p].hi = ohi, ![p].link = n,
              ![n].st = "live", ![n].desc = d, ![n].lo = nlo, ![n].hi = nhi]
         /\ desc' = [desc EXCEPT ![d].refcount = desc[d].refcount + 1]
         /\ rec' = [x \in Gpas |-> [i \in Idx |->
               IF dir[d][i] = x
               THEN IF p \notin rec[x][i] \/ i \notin Slots(nlo, nhi) THEN rec[x][i]
                    ELSE IF i \in Slots(olo, ohi) THEN rec[x][i] \cup {n}
                    ELSE (rec[x][i] \ {p}) \cup {n}
               ELSE rec[x][i]]]
         /\ cut' = [cut EXCEPT ![o] = cut[o] \cup {b, SbUp(mid)}]
         /\ mm' = [mm EXCEPT ![m] = [op |-> "views", prev |-> p, mid |-> mid, lo |-> lo, hi |-> hi]]
    <2>1. CASE newIsFront
      BY <1>2, <1>4, <1>5, <1>7, <1>9, <1>10, <2>1 DEF SplitOpen
    <2>2. CASE ~newIsFront
      BY <1>2, <1>4, <1>5, <1>7, <1>9, <1>10, <2>2 DEF SplitOpen
    <2> QED BY <2>1, <2>2
  <1> DEFINE ms == may_split(p, n)
             y == [ms[p] EXCEPT !.lo = olo, !.hi = ohi, !.link = n]
             z == [ms[n] EXCEPT !.st = "live", !.desc = d, !.lo = nlo, !.hi = nhi]
  <1>12. /\ ms \in [Vmrs -> VmrRec] /\ n # p
         /\ ms[p] = [vmr[p] EXCEPT !.link = None]
         /\ ms[n] = [NewVmr EXCEPT !.st = "pending", !.mm = vmr[p].mm]
         /\ \A w \in Vmrs \ {p, n} : ms[w] = vmr[w] \/ (ms[w] = Dead /\ vmr[w].st = "pending")
    BY <1>1, <1>2, <1>3, MaySplit
  <1> HIDE DEF ms
  <1>13. vmr' = [[ms EXCEPT ![p] = y] EXCEPT ![n] = z]
    BY <1>11, <1>12 DEF ms
  <1>28. y = HalfOf(ms[p], olo, ohi, n) /\ z = OpenAs(ms[n], d, nlo, nhi)
    BY DEF HalfOf, OpenAs
  <1> HIDE DEF y, z
  <1>14. /\ ms[p] \in VmrRec /\ ms[p].st = "live" /\ ms[p].mm = m /\ ms[p].desc = d
    BY <1>1, <1>3, <1>4, <1>12, Unlinked
  <1>15. /\ ms[n] \in VmrRec /\ ms[n].mm = m /\ ms[n].link = None
    BY <1>4, <1>12 DEF NewVmr
  <1>16. /\ y \in VmrRec /\ y.st = "live" /\ y.mm = m /\ y.desc = d
         /\ y.lo = olo /\ y.hi = ohi /\ y.link = n
    <2>1. olo \in 0..NPages /\ ohi \in 0..NPages /\ n \in Vmrs
      BY <1>2, <1>10
    <2>2. IsHalf(y, ms[p], olo, ohi, n)
      BY <1>14, <1>28, <2>1, Halved
    <2> QED BY <1>14, <2>2 DEF IsHalf
  <1>17. /\ z \in VmrRec /\ z.st = "live" /\ z.mm = m /\ z.desc = d
         /\ z.lo = nlo /\ z.hi = nhi /\ z.link = None
    <2>1. nlo \in 0..NPages /\ nhi \in 0..NPages /\ d \in Descs
      BY <1>4, <1>10
    <2>2. IsOpen(z, ms[n], d, nlo, nhi)
      BY <1>1, <1>15, <1>28, <2>1, Opened
    <2> QED BY <1>15, <2>2 DEF IsOpen
  <1>18. /\ vmr' \in [Vmrs -> VmrRec] /\ vmr'[p] = y /\ vmr'[n] = z
         /\ \A w \in Vmrs \ {p, n} : vmr'[w] = ms[w]
    BY <1>12, <1>13, <1>16, <1>17
  <1>19. Others({p, n})
    BY <1>12, <1>18 DEF Others, Stays
  <1>20. /\ OnlyDesc(d, desc'[d])
         /\ desc'[d].refcount = desc[d].refcount + 1 /\ desc'[d].st = desc[d].st
         /\ desc'[d].shared = desc[d].shared
         /\ desc'[d].closer = desc[d].closer /\ desc'[d].views = desc[d].views
    <2>1. desc[d].refcount + 1 \in Int
      BY <1>3, DescRecs DEF Types
    <2> QED BY <1>3, <1>11, <2>1, RefcountSet
  <1>21. rec \in [Gpas -> [Idx -> SUBSET Vmrs]]
    BY <1>3 DEF Types
  <1>22. /\ rec' \in [Gpas -> [Idx -> SUBSET Vmrs]]
         /\ \A x \in Gpas, i \in Idx :
               rec'[x][i] = IF dir[d][i] = x /\ p \in rec[x][i] /\ i \in Slots(nlo, nhi)
                            THEN IF i \in Slots(olo, ohi) THEN rec[x][i] \cup {n}
                                                          ELSE (rec[x][i] \ {p}) \cup {n}
                            ELSE rec[x][i]
    BY <1>11, <1>21
  <1>23. cut' \in [Gpas -> SUBSET (0..GpaLen)]
    <2>1. SbUp(mid) \in 0..GpaLen /\ b \in 0..GpaLen
      BY <1>6, RoundedPages, Sizes DEF Idx
    <2> QED BY <1>3, <1>11, <2>1 DEF Types
  <1>24. /\ mm' \in [Mms -> MmRec]
         /\ mm'[m] = [op |-> "views", prev |-> p, mid |-> mid, lo |-> lo, hi |-> hi]
         /\ \A k \in Mms \ {m} : mm'[k] = mm[k]
    <2>1. [op |-> "views", prev |-> p, mid |-> mid, lo |-> lo, hi |-> hi] \in MmRec
      BY <1>6 DEF MmRec
    <2> QED BY <1>3, <1>11, <2>1 DEF Types
  <1>25. mm[m].op = "idle"
    BY <1>1, <1>4, IdleRec
  <1>26. \/ olo = vmr[p].lo /\ ohi = mid /\ nlo = mid /\ nhi = vmr[p].hi
         \/ nlo = vmr[p].lo /\ nhi = mid /\ olo = mid /\ ohi = vmr[p].hi
    BY <1>5, <1>10
  <1>27. SplitEffect(p, n, m, d, o, b, mid, olo, ohi, nlo, nhi)
    BY <1>1, <1>2, <1>4, <1>5, <1>6, <1>7, <1>9, <1>12, <1>16, <1>17, <1>18, <1>19, <1>20,
       <1>22, <1>23, <1>24, <1>25, <1>26 DEF SplitEffect
  <1> QED BY <1>27

LEMMA SplitOpenFrame ==
    ASSUME Frame, NEW p \in Vmrs, NEW mid \in SharedSplits \cup PrivateSplits,
           NEW newIsFront \in BOOLEAN, SplitOpen(p, mid, newIsFront)
    PROVE  Frame'
  <1>1. PICK n \in Vmrs, m \in Mms, d \in Descs, o \in Gpas, b \in Idx,
             olo, ohi, nlo, nhi \in 0..NPages :
             SplitEffect(p, n, m, d, o, b, mid, olo, ohi, nlo, nhi)
    BY SplitEffects
  <1>2. /\ vmr[p].st = "live" /\ m = vmr[p].mm /\ mm[m].op = "idle" /\ d = vmr[p].desc
        /\ n # p /\ vmr[n].st = "unused" /\ vmr[p].lo < mid /\ mid < vmr[p].hi
        /\ \/ olo = vmr[p].lo /\ ohi = mid /\ nlo = mid /\ nhi = vmr[p].hi
           \/ nlo = vmr[p].lo /\ nhi = mid /\ olo = mid /\ ohi = vmr[p].hi
        /\ vmr' \in [Vmrs -> VmrRec] /\ Others({p, n})
        /\ vmr'[p].st = "live" /\ vmr'[p].mm = m /\ vmr'[p].desc = d
        /\ vmr'[p].lo = olo /\ vmr'[p].hi = ohi /\ vmr'[p].link = n
        /\ vmr'[n].st = "live" /\ vmr'[n].mm = m /\ vmr'[n].desc = d
        /\ vmr'[n].lo = nlo /\ vmr'[n].hi = nhi /\ vmr'[n].link = None
        /\ OnlyDesc(d, desc'[d]) /\ desc'[d].st = desc[d].st /\ desc'[d].views = desc[d].views
        /\ mm' \in [Mms -> MmRec]
        /\ mm'[m] = [op |-> "views", prev |-> p, mid |-> mid, lo |-> vmr[p].lo, hi |-> vmr[p].hi]
        /\ \A k \in Mms \ {m} : mm'[k] = mm[k]
    BY <1>1 DEF SplitEffect
  <1>3. Types /\ desc[d].st # "unused"
    BY <1>2, LivePlace, Phase DEF Frame
  <1>4. Lists' /\ \A e \in Descs : desc[e].st # "unused" => desc'[e].st # "unused"
    BY <1>2, OneDesc DEF Frame, Lists
  <1>5. Place(p)' /\ Place(n)'
    BY <1>2, <1>3, <1>4, Phase DEF Place
  <1>6. FrameStep({p, n}, p)
    <2>1. Link(p)' /\ Link(n)'
      BY <1>2 DEF Link
    <2> QED BY <1>2, <1>4, <1>5, <2>1, Phase DEF FrameStep
  <1>7. SpaceStep({m})
    <2>1. SplitAt(m)' /\ ForkAt(m)'
      <3>1. mm'[m].op = "views" /\ mm'[m].lo < mm'[m].mid /\ mm'[m].mid < mm'[m].hi /\ mm'[m].prev = p
        BY <1>2
      <3> QED BY <1>2, <3>1 DEF SplitAt, ForkAt
    <2>2. ASSUME NEW w \in Vmrs, vmr[w].st = "live", vmr[w].mm # m PROVE vmr'[w] = vmr[w]
      BY <1>2, <1>3, <2>2, StaysFacts, Phase DEF Others
    <2>3. ASSUME NEW k \in Mms, mm[k].op = "fork" PROVE mm[k].kid # m
      BY <1>2, <2>3 DEF Frame, Forks, ForkAt
    <2>4. mm'[m].op # "fork"
      BY <1>2
    <2> QED BY <1>2, <2>1, <2>2, <2>3, <2>4 DEF SpaceStep
  <1>8. (Places /\ Alone /\ Links /\ Started)'
    BY <1>6, FrameKept
  <1>9. (Splitting /\ Forks)'
    BY <1>7, SpacesKept
  <1>10. Types'
    BY <1>1, <1>2, <1>3 DEF Types, SplitEffect, GetEffect, OnlyDesc
  <1> QED BY <1>4, <1>8, <1>9, <1>10 DEF Frame

(* The second half of a split.                                             *)
ViewsEffect(m, p, d, fails) ==
    /\ mm[m].op = "views" /\ p = mm[m].prev /\ d = vmr[p].desc
    /\ vmr[p].st = "live" /\ vmr[p].mm = m
    /\ UNCHANGED <<dir, used, ref, cut, rec>>
    /\ vmr' \in [Vmrs -> VmrRec]
    /\ vmr'[p].st = "live" /\ vmr'[p].mm = m /\ vmr'[p].desc = d
    /\ vmr'[p].lo = vmr[p].lo /\ vmr'[p].hi = vmr[p].hi /\ vmr'[p].link = None
    /\ Others({p})
    /\ OnlyDesc(d, desc'[d])
    /\ desc'[d].views = view_split(desc[d].views, mm[m].lo, mm[m].hi, mm[m].mid, fails)
    /\ Listed(desc'[d].views)
    /\ desc'[d].refcount = desc[d].refcount /\ desc'[d].st = desc[d].st
    /\ desc'[d].shared = desc[d].shared /\ desc'[d].closer = desc[d].closer
    /\ mm' \in [Mms -> MmRec] /\ mm'[m].op = "idle"
    /\ \A k \in Mms \ {m} : mm'[k] = mm[k]

LEMMA SplitViewsEffect ==
    ASSUME Frame, NEW m \in Mms, SplitViews(m)
    PROVE  \E p \in Vmrs, d \in Descs, fails \in Outcomes : ViewsEffect(m, p, d, fails)
  <1>1. /\ mm[m].op = "views" /\ UNCHANGED <<dir, used, ref, cut, rec>>
        /\ vmr' = finish_split(vmr, mm[m].prev) /\ mm' = [mm EXCEPT ![m] = Idle]
    BY DEF SplitViews, dirVars
  <1>2. Types /\ SplitAt(m)
    BY DEF Frame, Splitting
  <1>3. PICK p \in Vmrs : p = mm[m].prev
    BY <1>1, <1>2 DEF Types, MmRec
  <1>4. vmr[p].st = "live" /\ vmr[p].mm = m /\ vmr[p] \in VmrRec
    BY <1>1, <1>2, <1>3 DEF SplitAt, Types
  <1>5. PICK d \in Descs : d = vmr[p].desc /\ Listed(desc[d].views)
    BY <1>4, LivePlace, Phase
  <1>6. /\ mm[m].lo \in 0..NPages /\ mm[m].hi \in 0..NPages /\ mm[m].mid \in 0..NPages
        /\ mm[m].lo < mm[m].mid /\ mm[m].mid < mm[m].hi
    BY <1>1, <1>2 DEF Types, MmRec, SplitAt
  <1>7. PICK fails \in Outcomes :
            desc' = [desc EXCEPT ![d].views =
                        view_split(desc[d].views, mm[m].lo, mm[m].hi, mm[m].mid, fails)]
    BY <1>3, <1>5 DEF SplitViews
  <1>8. PICK l : l = view_split(desc[d].views, mm[m].lo, mm[m].hi, mm[m].mid, fails)
    OBVIOUS
  <1>9. Listed(l) /\ l \in Seq(ViewRec)
    BY SMTT(30), <1>5, <1>6, <1>8, SplitView DEF Listed
  <1>10. desc' = [desc EXCEPT ![d].views = l]
    BY <1>7, <1>8
  <1>11. /\ OnlyDesc(d, desc'[d]) /\ desc'[d].views = l
         /\ desc'[d].refcount = desc[d].refcount /\ desc'[d].st = desc[d].st
         /\ desc'[d].shared = desc[d].shared /\ desc'[d].closer = desc[d].closer
    BY <1>2, <1>9, <1>10, ViewsSet
  <1>12. /\ vmr' \in [Vmrs -> VmrRec] /\ vmr'[p] = [vmr[p] EXCEPT !.link = None]
         /\ \A w \in Vmrs \ {p} : vmr'[w] = vmr[w] \/ (vmr'[w] = Dead /\ vmr[w].st = "pending")
    <2> DEFINE fs == finish_split(vmr, p)
    <2>1. vmr \in [Vmrs -> VmrRec] /\ vmr[p].st # "pending"
      BY <1>2, <1>4 DEF Types
    <2>2. /\ fs \in [Vmrs -> VmrRec] /\ fs[p] = [vmr[p] EXCEPT !.link = None]
          /\ \A w \in Vmrs \ {p} : fs[w] = vmr[w] \/ (fs[w] = Dead /\ vmr[w].st = "pending")
      BY <2>1, FinishSplit
    <2>3. vmr' = fs
      BY <1>1, <1>3
    <2> HIDE DEF fs
    <2> QED BY <2>2, <2>3
  <1>13. /\ vmr'[p].st = "live" /\ vmr'[p].mm = m /\ vmr'[p].desc = d
         /\ vmr'[p].lo = vmr[p].lo /\ vmr'[p].hi = vmr[p].hi /\ vmr'[p].link = None
    BY <1>4, <1>5, <1>12, Unlinked
  <1>14. Others({p})
    BY <1>12 DEF Others, Stays
  <1>15. mm' \in [Mms -> MmRec] /\ mm'[m].op = "idle" /\ \A k \in Mms \ {m} : mm'[k] = mm[k]
    BY <1>1, <1>2, IdleRec DEF Types
  <1>16. ViewsEffect(m, p, d, fails)
    BY <1>1, <1>3, <1>4, <1>5, <1>8, <1>9, <1>11, <1>12, <1>13, <1>14, <1>15 DEF ViewsEffect
  <1> QED BY <1>16

LEMMA SplitViewsFrame ==
    ASSUME Frame, NEW m \in Mms, SplitViews(m)
    PROVE  Frame'
  <1>1. PICK p \in Vmrs, d \in Descs, fails \in Outcomes : ViewsEffect(m, p, d, fails)
    BY SplitViewsEffect
  <1>2. /\ mm[m].op = "views" /\ d = vmr[p].desc /\ vmr[p].st = "live" /\ vmr[p].mm = m
        /\ UNCHANGED <<dir, used, ref, cut, rec>>
        /\ vmr' \in [Vmrs -> VmrRec]
        /\ vmr'[p].st = "live" /\ vmr'[p].mm = m /\ vmr'[p].desc = d
        /\ vmr'[p].lo = vmr[p].lo /\ vmr'[p].hi = vmr[p].hi /\ vmr'[p].link = None
        /\ Others({p}) /\ OnlyDesc(d, desc'[d]) /\ Listed(desc'[d].views)
        /\ desc'[d].st = desc[d].st
        /\ mm' \in [Mms -> MmRec] /\ mm'[m].op = "idle"
        /\ \A k \in Mms \ {m} : mm'[k] = mm[k]
    BY <1>1 DEF ViewsEffect
  <1>3. Types /\ Place(p)
    BY DEF Frame, Places
  <1>4. Lists' /\ \A e \in Descs : desc[e].st # "unused" => desc'[e].st # "unused"
    BY <1>2, OneDesc
  <1>5. Place(p)'
    BY <1>2, <1>3, <1>4, Phase DEF Place
  <1>6. FrameStep({p}, p)
    BY <1>2, <1>4, <1>5, Phase DEF FrameStep
  <1>7. SpaceStep({m})
    <2>1. SplitAt(m)' /\ ForkAt(m)'
      BY <1>2 DEF SplitAt, ForkAt
    <2>2. ASSUME NEW w \in Vmrs, vmr[w].st = "live", vmr[w].mm # m PROVE vmr'[w] = vmr[w]
      BY <1>2, <1>3, <2>2, StaysFacts, Phase DEF Others
    <2>3. ASSUME NEW k \in Mms, mm[k].op = "fork" PROVE mm[k].kid # m
      BY <1>2, <2>3 DEF Frame, Forks, ForkAt
    <2> QED BY <1>2, <2>1, <2>2, <2>3 DEF SpaceStep
  <1>8. (Places /\ Alone /\ Links /\ Started)'
    BY <1>6, FrameKept
  <1>9. (Splitting /\ Forks)'
    BY <1>7, SpacesKept
  <1>10. Types'
    BY <1>2, <1>3 DEF Types, OnlyDesc
  <1> QED BY <1>4, <1>8, <1>9, <1>10 DEF Frame

-----------------------------------------------------------------------------
(* Forks.                                                                  *)
ForkGoesOn(m) ==
    /\ mm[m].op = "fork" /\ mm' \in [Mms -> MmRec]
    /\ mm'[m].op = "fork" /\ mm'[m].kid = mm[m].kid /\ mm'[m].todo \subseteq mm[m].todo
    /\ \A k \in Mms \ {m} : mm'[k] = mm[k]

LEMMA ForkRecs ==
    ASSUME Types, NEW m \in Mms, mm[m].op = "fork"
    PROVE  mm[m].kid \in Mms /\ mm[m].todo \in SUBSET Vmrs
  BY DEF Types, MmRec

TodoOf(x, t) == [x EXCEPT !.todo = t]
LEMMA TodoSet ==
    ASSUME NEW x \in MmRec, x.op = "fork", NEW t \in SUBSET Vmrs
    PROVE  /\ TodoOf(x, t) \in MmRec /\ TodoOf(x, t).op = "fork" /\ TodoOf(x, t).kid = x.kid
           /\ TodoOf(x, t).todo = t
  BY DEF MmRec, TodoOf

LEMMA ForkedFrom ==
    ASSUME Types, NEW m \in Mms, Forking(m), mm' = Forked(m)
    PROVE  /\ ForkGoesOn(m) /\ mm'[m].todo = mm[m].todo \ {NextVma(m)}
           /\ mm'[m].kid = mm[m].kid
  <1>1. mm \in [Mms -> MmRec] /\ mm[m] \in MmRec /\ mm[m].op = "fork"
    BY DEF Types, Forking
  <1>2. PICK t \in SUBSET Vmrs : t = mm[m].todo \ {NextVma(m)}
    BY <1>1, ForkRecs
  <1>3. PICK y : y = TodoOf(mm[m], t)
    OBVIOUS
  <1>4. y \in MmRec /\ y.op = "fork" /\ y.kid = mm[m].kid /\ y.todo = t
    BY <1>1, <1>3, TodoSet
  <1>5. mm' = [mm EXCEPT ![m] = y]
    BY <1>2, <1>3 DEF Forked, TodoOf
  <1>6. mm' \in [Mms -> MmRec] /\ mm'[m] = y /\ \A k \in Mms \ {m} : mm'[k] = mm[k]
    BY <1>1, <1>4, <1>5
  <1> QED BY <1>1, <1>2, <1>4, <1>6 DEF ForkGoesOn

(* A step of a fork in which only the vmr @n of the child changes.         *)
LEMMA ForkFrame ==
    ASSUME Frame, NEW m \in Mms, ForkGoesOn(m), NEW n \in Vmrs,
           vmr[n].st \in {"unused", "joining"},
           vmr' \in [Vmrs -> VmrRec], OnlyVmr(n), Place(n)',
           vmr'[n].st # "unused", vmr'[n].st \notin Busy, vmr'[n].link \in {None, vmr[n].link},
           \A d \in Descs : desc[d].st # "unused" => desc'[d].st # "unused"
    PROVE  (Places /\ Alone /\ Links /\ Started /\ Splitting /\ Forks)'
  <1>1. FrameStep({n}, n)
    BY DEF FrameStep, OnlyVmr, Others, Stays, ForkGoesOn
  <1>2. SpaceStep({m})
    <2>1. SplitAt(m)'
      BY DEF SplitAt, ForkGoesOn
    <2>2. ForkAt(m)'
      <3>1. ForkAt(m) /\ mm[m].kid \in Mms /\ mm[m].op = "fork" /\ mm[m].todo \in SUBSET Vmrs
        BY ForkRecs DEF Frame, Forks, ForkGoesOn
      <3>2. mm[m].kid # m /\ mm'[mm'[m].kid].op = "child"
        BY <3>1 DEF ForkAt, ForkGoesOn
      <3>3. \A k \in Mms : mm'[k].op = "fork" /\ mm'[k].kid = mm'[m].kid => k = m
        BY <3>1 DEF ForkAt, ForkGoesOn
      <3>4. \A v \in mm'[m].todo : vmr'[v].st = "live" /\ vmr'[v].mm = m
        BY <3>1 DEF ForkAt, ForkGoesOn, OnlyVmr
      <3> QED BY <3>2, <3>3, <3>4 DEF ForkAt
    <2>3. ASSUME NEW k \in Mms, mm[k].op = "fork", mm[k].kid = m PROVE FALSE
      BY <2>3 DEF Frame, Forks, ForkAt, ForkGoesOn
    <2>4. ASSUME NEW k \in Mms, k # m, mm[k].op = "fork" PROVE mm[k].kid # mm'[m].kid
      BY <2>4 DEF Frame, Forks, ForkAt, ForkGoesOn
    <2>5. ASSUME NEW w \in Vmrs, vmr[w].st = "live" PROVE vmr'[w] = vmr[w]
      BY <2>5 DEF OnlyVmr
    <2>6. \A k \in Mms \ {m} : mm'[k] = mm[k]
      BY DEF ForkGoesOn
    <2> QED BY <2>1, <2>2, <2>3, <2>4, <2>5, <2>6 DEF SpaceStep
  <1>3. (Places /\ Alone /\ Links /\ Started)'
    BY <1>1, FrameKept
  <1>4. (Splitting /\ Forks)'
    BY <1>2, SpacesKept
  <1> QED BY <1>3, <1>4

(* The vmr of a child.                                                     *)
IsChild(y, k, st, d, lo, hi) ==
    /\ y \in VmrRec /\ y.st = st /\ y.mm = k /\ y.desc = d /\ y.lo = lo /\ y.hi = hi
    /\ y.link = None

LEMMA ChildRec ==
    ASSUME Types, NEW m \in Mms, mm[m].op = "fork", NEW p \in Vmrs, NEW st \in Phases,
           NEW d \in Descs
    PROVE  IsChild(Child(m, p, st, d), mm[m].kid, st, d, vmr[p].lo, vmr[p].hi)
  <1>1. NewVmr \in VmrRec /\ NewVmr.link = None
    BY NewVmrRec DEF NewVmr
  <1>2. vmr[p].lo \in 0..NPages /\ vmr[p].hi \in 0..NPages /\ mm[m].kid \in Mms
    BY VmrRecs, ForkRecs DEF Types
  <1> QED BY <1>1, <1>2 DEF Child, VmrRec, IsChild

(* What an open in dup_mmap() starts from.                                 *)
OpensFor(m, k, p, n, c) ==
    /\ mm[m].op = "fork" /\ k = mm[m].kid /\ mm[k].op = "child" /\ k # m
    /\ p = NextVma(m) /\ p \in mm[m].todo /\ vmr[p].st = "live" /\ vmr[p].mm = m
    /\ vmr[p].desc = c
    /\ n = NextVmr /\ vmr[n].st = "unused"
    /\ \A v \in Vmrs : vmr[v].mm = k => vmr[v].st # "joining"

LEMMA OpensNow ==
    ASSUME Frame, NEW m \in Mms, NEW shared \in BOOLEAN, Opens(m, shared)
    PROVE  /\ \E k \in Mms, p \in Vmrs, n \in Vmrs, c \in Descs : OpensFor(m, k, p, n, c)
           /\ Forking(m) /\ desc[vmr[NextVma(m)].desc].shared = shared
  <1>1. /\ Forking(m) /\ mm[m].op = "fork" /\ Unused # {}
        /\ desc[vmr[NextVma(m)].desc].shared = shared
        /\ \A v \in Vmrs : vmr[v].mm = mm[m].kid => vmr[v].st # "joining"
    BY DEF Opens, Forking
  <1>2. PICK k \in Mms : k = mm[m].kid
    BY <1>1, ForkRecs DEF Frame
  <1>3. PICK p \in Vmrs : p = NextVma(m) /\ p \in mm[m].todo
    BY <1>1, NextVmaInTodo DEF Frame
  <1>4. PICK n \in Vmrs : n = NextVmr /\ vmr[n].st = "unused"
    BY <1>1, NextVmrUnused
  <1>5. mm[k].op = "child" /\ vmr[p].st = "live" /\ vmr[p].mm = m
    BY <1>1, <1>2, <1>3 DEF Frame, Forks, ForkAt
  <1>6. PICK c \in Descs : c = vmr[p].desc
    BY <1>5, LivePlace, Phase
  <1>7. k # m
    BY <1>1, <1>5
  <1>8. OpensFor(m, k, p, n, c)
    BY <1>1, <1>2, <1>3, <1>4, <1>5, <1>6, <1>7 DEF OpensFor
  <1> QED BY <1>1, <1>8

(* MAP_SHARED: the reference, ...                                          *)
JoinEffect(m, k, p, n, d) ==
    /\ OpensFor(m, k, p, n, d) /\ desc[d].shared
    /\ UNCHANGED <<mm, dir, used, ref, cut, rec>>
    /\ vmr' \in [Vmrs -> VmrRec] /\ OnlyVmr(n)
    /\ IsChild(vmr'[n], k, "joining", d, vmr[p].lo, vmr[p].hi)
    /\ OnlyDesc(d, desc'[d])
    /\ desc'[d].refcount = desc[d].refcount + 1 /\ desc'[d].st = desc[d].st
    /\ desc'[d].shared = desc[d].shared
    /\ desc'[d].closer = desc[d].closer /\ desc'[d].views = desc[d].views

LEMMA ForkSharedRefEffect ==
    ASSUME Frame, NEW m \in Mms, ForkSharedRef(m)
    PROVE  \E k \in Mms, p \in Vmrs, n \in Vmrs, d \in Descs : JoinEffect(m, k, p, n, d)
  <1>1. Opens(m, TRUE) /\ UNCHANGED <<mm, dir, used, ref, cut, rec>>
    BY DEF ForkSharedRef, dirVars
  <1>2. PICK k \in Mms, p \in Vmrs, n \in Vmrs, d \in Descs : OpensFor(m, k, p, n, d)
    BY <1>1, OpensNow
  <1>3. /\ p = NextVma(m) /\ n = NextVmr /\ d = vmr[p].desc /\ k = mm[m].kid /\ mm[m].op = "fork"
    BY <1>2 DEF OpensFor
  <1>4. desc[d].shared
    BY <1>1, <1>3, OpensNow
  <1>5. Types /\ "joining" \in Phases
    BY DEF Frame, Phases
  <1>6. PICK y : y = Child(m, p, "joining", d)
    OBVIOUS
  <1>7. IsChild(y, k, "joining", d, vmr[p].lo, vmr[p].hi)
    BY <1>3, <1>5, <1>6, ChildRec
  <1>8. vmr' = [vmr EXCEPT ![n] = y]
    BY <1>3, <1>6 DEF ForkSharedRef
  <1>9. vmr' \in [Vmrs -> VmrRec] /\ vmr'[n] = y /\ OnlyVmr(n)
    BY <1>5, <1>7, <1>8 DEF Types, OnlyVmr, IsChild
  <1>10. PICK c \in Int : c = desc[d].refcount + 1
    BY <1>5, DescRecs DEF Types
  <1>11. desc' = [desc EXCEPT ![d].refcount = c]
    BY <1>3, <1>10 DEF ForkSharedRef
  <1>12. /\ OnlyDesc(d, desc'[d])
         /\ desc'[d].refcount = c /\ desc'[d].st = desc[d].st /\ desc'[d].shared = desc[d].shared
         /\ desc'[d].closer = desc[d].closer /\ desc'[d].views = desc[d].views
    BY <1>5, <1>11, RefcountSet
  <1>13. JoinEffect(m, k, p, n, d)
    BY <1>1, <1>2, <1>4, <1>7, <1>9, <1>10, <1>12 DEF JoinEffect
  <1> QED BY <1>13

LEMMA NoForkStep ==
    ASSUME Types, NEW m \in Mms, mm[m].op = "fork", mm' = mm
    PROVE  ForkGoesOn(m)
  BY DEF Types, ForkGoesOn

LEMMA ForkSharedRefFrame ==
    ASSUME Frame, NEW m \in Mms, ForkSharedRef(m)
    PROVE  Frame'
  <1>1. PICK k \in Mms, p \in Vmrs, n \in Vmrs, d \in Descs : JoinEffect(m, k, p, n, d)
    BY ForkSharedRefEffect
  <1>2. /\ mm[m].op = "fork" /\ vmr[n].st = "unused" /\ vmr[p].st = "live" /\ vmr[p].desc = d
        /\ UNCHANGED <<mm, dir, used, ref, cut, rec>>
        /\ vmr' \in [Vmrs -> VmrRec] /\ OnlyVmr(n)
        /\ vmr'[n].st = "joining" /\ vmr'[n].mm = k /\ vmr'[n].desc = d /\ vmr'[n].link = None
        /\ vmr'[n].lo = vmr[p].lo /\ vmr'[n].hi = vmr[p].hi
        /\ OnlyDesc(d, desc'[d]) /\ desc'[d].views = desc[d].views /\ desc'[d].st = desc[d].st
    BY <1>1 DEF JoinEffect, OpensFor, IsChild
  <1>3. Types /\ ForkGoesOn(m)
    BY <1>2, NoForkStep DEF Frame
  <1>4. vmr[p].lo < vmr[p].hi /\ desc[d].st # "unused" /\ Listed(desc[d].views)
    BY <1>2, LivePlace, Phase
  <1>5. Lists' /\ \A e \in Descs : desc[e].st # "unused" => desc'[e].st # "unused"
    BY <1>2, <1>4, OneDesc
  <1>6. Place(n)'
    BY <1>2, <1>4, <1>5, Phase DEF Place
  <1>7. (Places /\ Alone /\ Links /\ Started /\ Splitting /\ Forks)'
    BY <1>2, <1>3, <1>5, <1>6, Phase, ForkFrame
  <1>8. Types'
    BY <1>2, <1>3 DEF Types, OnlyDesc
  <1> QED BY <1>5, <1>7, <1>8 DEF Frame

(* ... then the view.                                                      *)
JoinedEffect(m, v, d) ==
    /\ ForkGoesOn(m) /\ mm'[m].todo = mm[m].todo \ {NextVma(m)}
    /\ vmr[v].st = "joining" /\ vmr[v].mm = mm[m].kid /\ d = vmr[v].desc
    /\ UNCHANGED <<dir, used, ref, cut, rec>>
    /\ vmr' \in [Vmrs -> VmrRec] /\ OnlyVmr(v)
    /\ vmr'[v].st = "live"
    /\ vmr'[v].mm = vmr[v].mm /\ vmr'[v].desc = d
    /\ vmr'[v].lo = vmr[v].lo /\ vmr'[v].hi = vmr[v].hi /\ vmr'[v].link = vmr[v].link
    /\ OnlyDesc(d, desc'[d]) /\ Listed(desc'[d].views)
    /\ desc'[d].views = view_add(desc[d].views, vmr[v].lo, vmr[v].hi, FALSE)
    /\ desc'[d].refcount = desc[d].refcount /\ desc'[d].st = desc[d].st
    /\ desc'[d].shared = desc[d].shared /\ desc'[d].closer = desc[d].closer

LEMMA ForkSharedViewEffect ==
    ASSUME Frame, NEW m \in Mms, NEW v \in Vmrs, ForkSharedView(m, v)
    PROVE  \E d \in Descs : JoinedEffect(m, v, d)
  <1>1. /\ Forking(m) /\ mm' = Forked(m) /\ UNCHANGED <<dir, used, ref, cut, rec>>
        /\ vmr[v].st = "joining" /\ vmr[v].mm = mm[m].kid
        /\ vmr' = In(v, "live") /\ "live" \in Phases
    BY DEF ForkSharedView, dirVars, In, Phases
  <1>2. Types
    BY DEF Frame
  <1>3. ForkGoesOn(m) /\ mm'[m].todo = mm[m].todo \ {NextVma(m)}
    BY <1>1, <1>2, ForkedFrom
  <1>4. PICK d \in Descs : d = vmr[v].desc
    BY <1>1, LivePlace, Phase
  <1>5. PICK lo \in 0..NPages, hi \in 0..NPages : lo = vmr[v].lo /\ hi = vmr[v].hi
    BY <1>1, LivePlace, Phase
  <1>6. lo < hi /\ Listed(desc[d].views)
    BY <1>1, <1>4, <1>5, LivePlace, Phase
  <1>7. PICK l : l = view_add(desc[d].views, lo, hi, FALSE)
    OBVIOUS
  <1>8. Listed(l) /\ l \in Seq(ViewRec)
    BY <1>6, <1>7, AddView DEF Listed
  <1>9. desc' = [desc EXCEPT ![d].views = l]
    BY <1>4, <1>5, <1>7 DEF ForkSharedView, view_add_alloc
  <1>10. /\ OnlyDesc(d, desc'[d]) /\ desc'[d].views = l
         /\ desc'[d].refcount = desc[d].refcount /\ desc'[d].st = desc[d].st
         /\ desc'[d].shared = desc[d].shared /\ desc'[d].closer = desc[d].closer
    BY <1>2, <1>8, <1>9, ViewsSet
  <1>11. /\ vmr' \in [Vmrs -> VmrRec] /\ OnlyVmr(v) /\ vmr'[v].st = "live"
         /\ vmr'[v].mm = vmr[v].mm /\ vmr'[v].desc = vmr[v].desc
         /\ vmr'[v].lo = vmr[v].lo /\ vmr'[v].hi = vmr[v].hi /\ vmr'[v].link = vmr[v].link
    BY <1>1, <1>2, InEffect
  <1>12. JoinedEffect(m, v, d)
    BY <1>1, <1>3, <1>4, <1>5, <1>7, <1>8, <1>10, <1>11 DEF JoinedEffect
  <1> QED BY <1>12

LEMMA ForkSharedViewFrame ==
    ASSUME Frame, NEW m \in Mms, NEW v \in Vmrs, ForkSharedView(m, v)
    PROVE  Frame'
  <1>1. PICK d \in Descs : JoinedEffect(m, v, d)
    BY ForkSharedViewEffect
  <1>2. /\ ForkGoesOn(m) /\ vmr[v].st = "joining" /\ d = vmr[v].desc
        /\ UNCHANGED <<dir, used, ref, cut, rec>>
        /\ vmr' \in [Vmrs -> VmrRec] /\ OnlyVmr(v)
        /\ vmr'[v].st = "live"
        /\ vmr'[v].mm = vmr[v].mm /\ vmr'[v].desc = d
        /\ vmr'[v].lo = vmr[v].lo /\ vmr'[v].hi = vmr[v].hi /\ vmr'[v].link = vmr[v].link
        /\ OnlyDesc(d, desc'[d]) /\ Listed(desc'[d].views) /\ desc'[d].st = desc[d].st
    BY <1>1 DEF JoinedEffect
  <1>3. /\ vmr[v].lo < vmr[v].hi /\ desc[d].st # "unused" /\ vmr[v].mm \in Mms
        /\ Types
    BY <1>2, LivePlace, Phase DEF Frame
  <1>4. Lists' /\ \A e \in Descs : desc[e].st # "unused" => desc'[e].st # "unused"
    BY <1>2, OneDesc
  <1>5. Place(v)'
    BY <1>2, <1>3, <1>4, Phase DEF Place
  <1>6. (Places /\ Alone /\ Links /\ Started /\ Splitting /\ Forks)'
    BY <1>2, <1>4, <1>5, Phase, ForkFrame
  <1>7. Types'
    BY <1>2, <1>3 DEF Types, OnlyDesc, ForkGoesOn
  <1> QED BY <1>4, <1>6, <1>7 DEF Frame

(* __dup_vmdesc()                                                          *)
Inherited(p, dup) == IF dup THEN dup_slots(p) ELSE {}
DupEffect(p, c, d, dup) ==
    /\ dir' \in [Descs -> [Idx -> Gpas \cup {None}]] /\ ref' \in [Gpas -> [Idx -> Int]]
    /\ \A e \in Descs, i \in Idx :
          dir'[e][i] = IF e = d /\ i \in Inherited(p, dup) /\ dir[d][i] = None
                       THEN dir[c][i] ELSE dir[e][i]
    /\ \A o \in Gpas, i \in Idx :
          ref'[o][i] = IF i \in Inherited(p, dup) /\ dir[d][i] = None /\ dir[c][i] = o
                       THEN ref[o][i] + 1 ELSE ref[o][i]
    /\ UNCHANGED <<used, cut, rec>>

LEMMA Duplicated ==
    ASSUME Types, NEW p \in Vmrs, NEW c \in Descs, c = vmr[p].desc, NEW d \in Descs,
           NEW dup \in BOOLEAN, dup_vmdesc(p, d, dup)
    PROVE  DupEffect(p, c, d, dup)
  <1>1. PICK S : S = Inherited(p, dup)
    OBVIOUS
  <1>2. PICK F : F = {i \in S : dir[d][i] = None}
    OBVIOUS
  <1>3. /\ dir' = [dir EXCEPT ![d] = [i \in Idx |-> IF i \in F THEN dir[c][i] ELSE dir[d][i]]]
        /\ ref' = [o \in Gpas |-> [i \in Idx |->
                      IF i \in F /\ dir[c][i] = o THEN ref[o][i] + 1 ELSE ref[o][i]]]
        /\ UNCHANGED <<used, cut, rec>>
    BY <1>1, <1>2 DEF dup_vmdesc, Inherited
  <1>4. dir \in [Descs -> [Idx -> Gpas \cup {None}]] /\ ref \in [Gpas -> [Idx -> Int]]
    BY DEF Types
  <1>5. [i \in Idx |-> IF i \in F THEN dir[c][i] ELSE dir[d][i]] \in [Idx -> Gpas \cup {None}]
    BY <1>4
  <1>6. /\ dir' \in [Descs -> [Idx -> Gpas \cup {None}]]
        /\ \A e \in Descs, i \in Idx :
              dir'[e][i] = IF e = d /\ i \in F THEN dir[c][i] ELSE dir[e][i]
    BY <1>3, <1>4, <1>5
  <1>7. /\ ref' \in [Gpas -> [Idx -> Int]]
        /\ \A o \in Gpas, i \in Idx :
              ref'[o][i] = IF i \in F /\ dir[c][i] = o THEN ref[o][i] + 1 ELSE ref[o][i]
    BY <1>3, <1>4
  <1>8. \A i : i \in F <=> i \in Inherited(p, dup) /\ dir[d][i] = None
    BY <1>1, <1>2
  <1> QED BY <1>3, <1>6, <1>7, <1>8 DEF DupEffect

(* Private, and a sibling has made the namespace, ...                      *)
KidEffect(m, k, p, n, c, d) ==
    /\ OpensFor(m, k, p, n, c) /\ ~desc[c].shared
    /\ ForkGoesOn(m) /\ mm'[m].todo = mm[m].todo \ {p}
    /\ vmr' \in [Vmrs -> VmrRec] /\ OnlyVmr(n)
    /\ IsChild(vmr'[n], k, "live", d, vmr[p].lo, vmr[p].hi)
    /\ OnlyDesc(d, desc'[d])
SiblingEffect(m, k, p, n, c, d, w, fails) ==
    /\ KidEffect(m, k, p, n, c, d) /\ DupEffect(p, c, d, TRUE)
    /\ w \in Siblings(m, p) /\ d = vmr[w].desc /\ vmr[w].st = "live" /\ vmr[w].mm = k
    /\ Listed(desc'[d].views)
    /\ desc'[d].views = view_add_alloc(desc[d].views, vmr[p].lo, vmr[p].hi, FALSE, fails)
    /\ desc'[d].refcount = desc[d].refcount + 1 /\ desc'[d].st = desc[d].st
    /\ desc'[d].shared = desc[d].shared /\ desc'[d].closer = desc[d].closer

Viewed(x, n, l) == [x EXCEPT !.refcount = n, !.views = l]
IsViewed(y, x, n, l) ==
    /\ y \in DescRec /\ y.refcount = n /\ y.views = l
    /\ y.st = x.st /\ y.shared = x.shared /\ y.closer = x.closer

LEMMA DescViewed ==
    ASSUME NEW x \in DescRec, NEW n \in Int, NEW l \in Seq(ViewRec)
    PROVE  IsViewed(Viewed(x, n, l), x, n, l)
  BY DEF DescRec, Viewed, IsViewed

LEMMA KidOpens ==
    ASSUME Types, NEW m \in Mms, NEW k \in Mms, NEW p \in Vmrs, NEW n \in Vmrs,
           NEW c \in Descs, NEW d \in Descs,
           OpensFor(m, k, p, n, c), Forking(m), mm' = Forked(m),
           vmr' = [vmr EXCEPT ![n] = Child(m, p, "live", d)]
    PROVE  /\ ForkGoesOn(m) /\ mm'[m].todo = mm[m].todo \ {p}
           /\ vmr' \in [Vmrs -> VmrRec] /\ OnlyVmr(n)
           /\ IsChild(vmr'[n], k, "live", d, vmr[p].lo, vmr[p].hi)
  <1>1. k = mm[m].kid /\ mm[m].op = "fork" /\ p = NextVma(m) /\ "live" \in Phases
    BY DEF OpensFor, Phases
  <1>2. ForkGoesOn(m) /\ mm'[m].todo = mm[m].todo \ {p}
    BY <1>1, ForkedFrom
  <1>3. PICK y : y = Child(m, p, "live", d)
    OBVIOUS
  <1>4. IsChild(y, k, "live", d, vmr[p].lo, vmr[p].hi)
    BY <1>1, <1>3, ChildRec
  <1>5. vmr' = [vmr EXCEPT ![n] = y]
    BY <1>3
  <1>6. vmr' \in [Vmrs -> VmrRec] /\ vmr'[n] = y /\ OnlyVmr(n)
    BY <1>4, <1>5 DEF Types, OnlyVmr, IsChild
  <1> QED BY <1>2, <1>4, <1>6

LEMMA ForkSiblingEffect ==
    ASSUME Frame, NEW m \in Mms, ForkSibling(m)
    PROVE  \E k \in Mms, p \in Vmrs, n \in Vmrs, c \in Descs, d \in Descs, w \in Vmrs,
              fails \in Outcomes : SiblingEffect(m, k, p, n, c, d, w, fails)
  <1>1. Opens(m, FALSE) /\ mm' = Forked(m) /\ Types
    BY DEF ForkSibling, Frame
  <1>2. PICK k \in Mms, p \in Vmrs, n \in Vmrs, c \in Descs : OpensFor(m, k, p, n, c)
    BY <1>1, OpensNow
  <1>3. /\ p = NextVma(m) /\ n = NextVmr /\ c = vmr[p].desc /\ k = mm[m].kid /\ mm[m].op = "fork"
        /\ vmr[p].st = "live"
    BY <1>2 DEF OpensFor
  <1>4. ~desc[c].shared /\ Forking(m)
    BY <1>1, <1>3, OpensNow
  <1>5. PICK w \in Siblings(m, p), fails \in Outcomes :
           /\ vmr' = [vmr EXCEPT ![n] = Child(m, p, "live", vmr[w].desc)]
           /\ desc' = [desc EXCEPT
                 ![vmr[w].desc].refcount = @ + 1,
                 ![vmr[w].desc].views = view_add_alloc(@, vmr[p].lo, vmr[p].hi, FALSE, fails)]
           /\ dup_vmdesc(p, vmr[w].desc, TRUE)
    BY <1>3 DEF ForkSibling
  <1>6. w \in Siblings(m, p) /\ w \in Vmrs /\ vmr[w].st = "live" /\ vmr[w].mm = k
    BY <1>3, <1>5 DEF Siblings
  <1>7. PICK d \in Descs : d = vmr[w].desc
    BY <1>6, LivePlace, Phase
  <1>8. Listed(desc[d].views) /\ desc[d] \in DescRec
    BY <1>6, <1>7, LivePlace, Phase
  <1>9. PICK lo \in 0..NPages, hi \in 0..NPages : lo = vmr[p].lo /\ hi = vmr[p].hi
    BY <1>3, LivePlace, Phase
  <1>10. lo < hi
    BY <1>3, <1>9, LivePlace, Phase
  <1>11. PICK l : l = view_add_alloc(desc[d].views, lo, hi, FALSE, fails)
    OBVIOUS
  <1>12. Listed(l) /\ l \in Seq(ViewRec)
    <2>1. l = desc[d].views \/ l = view_add(desc[d].views, lo, hi, TRUE)
      BY <1>11 DEF view_add_alloc
    <2>2. Listed(l)
      BY <1>8, <1>10, <2>1, AddView
    <2> QED BY <2>2 DEF Listed
  <1>13. PICK r \in Int : r = desc[d].refcount + 1
    BY <1>8, DescRecs
  <1>14. PICK y : y = Viewed(desc[d], r, l)
    OBVIOUS
  <1>15. IsViewed(y, desc[d], r, l)
    BY <1>8, <1>12, <1>14, DescViewed
  <1>16. desc' = [desc EXCEPT ![d] = y]
    <2>1. desc' = [desc EXCEPT ![d].refcount = @ + 1,
                   ![d].views = view_add_alloc(@, lo, hi, FALSE, fails)]
      BY <1>5, <1>7, <1>9
    <2>2. desc \in [Descs -> DescRec]
      BY <1>1 DEF Types
    <2>3. desc' = [desc EXCEPT ![d] = [desc[d] EXCEPT !.refcount = @ + 1,
                   !.views = view_add_alloc(@, lo, hi, FALSE, fails)]]
      BY <2>1, <2>2
    <2> QED BY <1>8, <1>11, <1>13, <1>14, <2>3 DEF Viewed, DescRec
  <1>17. OnlyDesc(d, desc'[d]) /\ desc'[d] = y
    BY <1>1, <1>15, <1>16 DEF Types, OnlyDesc, IsViewed
  <1>18. /\ ForkGoesOn(m) /\ mm'[m].todo = mm[m].todo \ {p}
         /\ vmr' \in [Vmrs -> VmrRec] /\ OnlyVmr(n)
         /\ IsChild(vmr'[n], k, "live", d, vmr[p].lo, vmr[p].hi)
    BY <1>1, <1>2, <1>4, <1>5, <1>7, KidOpens
  <1>19. KidEffect(m, k, p, n, c, d)
    BY <1>2, <1>4, <1>17, <1>18 DEF KidEffect
  <1>20. DupEffect(p, c, d, TRUE)
    BY <1>1, <1>3, <1>5, <1>7, Duplicated
  <1>21. SiblingEffect(m, k, p, n, c, d, w, fails)
    BY <1>6, <1>7, <1>9, <1>11, <1>12, <1>13, <1>15, <1>17, <1>19, <1>20 DEF SiblingEffect, IsViewed
  <1> QED BY <1>5, <1>6, <1>21

(* ... or a new namespace.                                                 *)
PrivateEffect(m, k, p, n, c, d, wipe, fails) ==
    /\ KidEffect(m, k, p, n, c, d) /\ DupEffect(p, c, d, ~wipe)
    /\ desc[d].st = "unused" /\ Listed(desc'[d].views)
    /\ desc'[d].views = view_add_alloc(<<>>, vmr[p].lo, vmr[p].hi, FALSE, fails)
    /\ desc'[d].refcount = 1 /\ desc'[d].st = "alive"
    /\ desc'[d].shared = FALSE /\ desc'[d].closer = None

Made(shared, l) ==
    [NewDesc EXCEPT !.st = "alive", !.shared = shared, !.refcount = 1, !.views = l]
MadePrivate(l) == [NewDesc EXCEPT !.st = "alive", !.refcount = 1, !.views = l]
IsMade(y, shared, l) ==
    /\ y \in DescRec /\ y.st = "alive" /\ y.shared = shared /\ y.refcount = 1 /\ y.views = l
    /\ y.closer = None

LEMMA NewDescRec == NewDesc \in DescRec /\ NewDesc.closer = None /\ NewDesc.shared = FALSE
  <1>1. <<>> \in Seq(ViewRec) /\ None \in Vmrs \cup {None} /\ 0 \in Int /\ FALSE \in BOOLEAN
    OBVIOUS
  <1> QED BY <1>1 DEF NewDesc, DescRec

LEMMA DescMade ==
    ASSUME NEW shared \in BOOLEAN, NEW l \in Seq(ViewRec)
    PROVE  IsMade(Made(shared, l), shared, l)
  <1>1. PICK a : a = [NewDesc EXCEPT !.st = "alive"]
    OBVIOUS
  <1>2. a \in DescRec /\ a.st = "alive" /\ a.closer = None
    BY <1>1, NewDescRec DEF DescRec
  <1>3. PICK b : b = [a EXCEPT !.shared = shared]
    OBVIOUS
  <1>4. b \in DescRec /\ b.st = "alive" /\ b.closer = None
    BY <1>2, <1>3 DEF DescRec
  <1>5. b.shared = shared
    BY <1>2, <1>3 DEF DescRec
  <1>6. PICK c : c = [b EXCEPT !.refcount = 1]
    OBVIOUS
  <1>7. c \in DescRec /\ c.st = "alive" /\ c.closer = None /\ c.refcount = 1
    BY <1>4, <1>6 DEF DescRec
  <1>8. c.shared = shared
    BY <1>4, <1>5, <1>6 DEF DescRec
  <1>9. PICK d : d = [c EXCEPT !.views = l]
    OBVIOUS
  <1>10. d \in DescRec /\ d.st = "alive" /\ d.closer = None /\ d.refcount = 1 /\ d.views = l
    BY <1>7, <1>9 DEF DescRec
  <1>11. d.shared = shared
    BY <1>7, <1>8, <1>9 DEF DescRec
  <1>12. d = Made(shared, l)
    BY <1>1, <1>3, <1>6, <1>9 DEF Made
  <1> QED BY <1>10, <1>11, <1>12 DEF IsMade

LEMMA DescMadePrivate ==
    ASSUME NEW l \in Seq(ViewRec)
    PROVE  IsMade(MadePrivate(l), FALSE, l)
  <1>1. PICK a : a = [NewDesc EXCEPT !.st = "alive"]
    OBVIOUS
  <1>2. a \in DescRec /\ a.st = "alive" /\ a.closer = None /\ a.shared = FALSE
    BY <1>1, NewDescRec DEF DescRec
  <1>3. PICK c : c = [a EXCEPT !.refcount = 1]
    OBVIOUS
  <1>4. c \in DescRec /\ c.st = "alive" /\ c.closer = None /\ c.refcount = 1 /\ c.shared = FALSE
    BY <1>2, <1>3 DEF DescRec
  <1>5. PICK d : d = [c EXCEPT !.views = l]
    OBVIOUS
  <1>6. /\ d \in DescRec /\ d.st = "alive" /\ d.closer = None /\ d.refcount = 1 /\ d.views = l
        /\ d.shared = FALSE
    BY <1>4, <1>5 DEF DescRec
  <1>7. d = MadePrivate(l)
    BY <1>1, <1>3, <1>5 DEF MadePrivate
  <1> QED BY <1>6, <1>7 DEF IsMade

LEMMA FirstView ==
    ASSUME NEW lo \in 0..NPages, NEW hi \in 0..NPages, lo < hi, NEW fails
    PROVE  Listed(view_add_alloc(<<>>, lo, hi, FALSE, fails))
  BY AddView, NoViews DEF view_add_alloc

LEMMA ForkPrivateEffect ==
    ASSUME Frame, NEW m \in Mms, NEW wipe \in BOOLEAN, ForkPrivate(m, wipe)
    PROVE  \E k \in Mms, p \in Vmrs, n \in Vmrs, c \in Descs, d \in Descs,
              fails \in Outcomes : PrivateEffect(m, k, p, n, c, d, wipe, fails)
  <1>1. Opens(m, FALSE) /\ mm' = Forked(m) /\ Types /\ FreeDescs # {}
    BY DEF ForkPrivate, Frame
  <1>2. PICK k \in Mms, p \in Vmrs, n \in Vmrs, c \in Descs : OpensFor(m, k, p, n, c)
    BY <1>1, OpensNow
  <1>3. /\ p = NextVma(m) /\ n = NextVmr /\ c = vmr[p].desc /\ k = mm[m].kid /\ mm[m].op = "fork"
        /\ vmr[p].st = "live"
    BY <1>2 DEF OpensFor
  <1>4. ~desc[c].shared /\ Forking(m)
    BY <1>1, <1>3, OpensNow
  <1>5. PICK d \in Descs : d = NextDesc /\ desc[d].st = "unused"
    BY <1>1, NextDescUnused
  <1>6. PICK lo \in 0..NPages, hi \in 0..NPages : lo = vmr[p].lo /\ hi = vmr[p].hi
    BY <1>3, LivePlace, Phase
  <1>7. lo < hi
    BY <1>3, <1>6, LivePlace, Phase
  <1>8. PICK fails \in Outcomes :
           desc' = [desc EXCEPT ![d] = [NewDesc EXCEPT
                      !.st = "alive", !.refcount = 1,
                      !.views = view_add_alloc(<<>>, lo, hi, FALSE, fails)]]
    BY <1>3, <1>5, <1>6 DEF ForkPrivate
  <1>9. PICK l : l = view_add_alloc(<<>>, lo, hi, FALSE, fails)
    OBVIOUS
  <1>10. Listed(l) /\ l \in Seq(ViewRec)
    BY <1>7, <1>9, FirstView DEF Listed
  <1>11. PICK y : y = [NewDesc EXCEPT !.st = "alive", !.refcount = 1, !.views = l]
    OBVIOUS
  <1>12. IsMade(y, FALSE, l)
    BY <1>10, <1>11, DescMadePrivate DEF MadePrivate
  <1>13. desc' = [desc EXCEPT ![d] = y]
    BY <1>8, <1>9, <1>11
  <1>14. OnlyDesc(d, desc'[d]) /\ desc'[d] = y
    BY <1>1, <1>12, <1>13 DEF Types, OnlyDesc, IsMade
  <1>15. vmr' = [vmr EXCEPT ![n] = Child(m, p, "live", d)] /\ dup_vmdesc(p, d, ~wipe)
    BY <1>3, <1>5 DEF ForkPrivate
  <1>16. /\ ForkGoesOn(m) /\ mm'[m].todo = mm[m].todo \ {p}
         /\ vmr' \in [Vmrs -> VmrRec] /\ OnlyVmr(n)
         /\ IsChild(vmr'[n], k, "live", d, vmr[p].lo, vmr[p].hi)
    BY <1>1, <1>2, <1>4, <1>15, KidOpens
  <1>17. KidEffect(m, k, p, n, c, d)
    BY <1>2, <1>4, <1>14, <1>16 DEF KidEffect
  <1>18. DupEffect(p, c, d, ~wipe)
    BY <1>1, <1>3, <1>15, Duplicated
  <1>19. PrivateEffect(m, k, p, n, c, d, wipe, fails)
    BY <1>5, <1>6, <1>9, <1>10, <1>12, <1>14, <1>17, <1>18 DEF PrivateEffect, IsMade
  <1> QED BY <1>19

LEMMA KidFrame ==
    ASSUME Frame, NEW m \in Mms, NEW k \in Mms, NEW p \in Vmrs, NEW n \in Vmrs, NEW c \in Descs,
           NEW d \in Descs, NEW dup \in BOOLEAN, KidEffect(m, k, p, n, c, d), DupEffect(p, c, d, dup),
           Listed(desc'[d].views), desc'[d].st # "unused"
    PROVE  Frame'
  <1>1. /\ vmr[n].st = "unused" /\ vmr[p].st = "live"
        /\ vmr' \in [Vmrs -> VmrRec] /\ OnlyVmr(n) /\ ForkGoesOn(m)
        /\ vmr'[n].st = "live" /\ vmr'[n].mm = k /\ vmr'[n].desc = d /\ vmr'[n].link = None
        /\ vmr'[n].lo = vmr[p].lo /\ vmr'[n].hi = vmr[p].hi /\ OnlyDesc(d, desc'[d])
    BY DEF KidEffect, OpensFor, IsChild
  <1>2. vmr[p].lo < vmr[p].hi
    BY <1>1, LivePlace, Phase
  <1>3. Lists' /\ \A e \in Descs : desc[e].st # "unused" => desc'[e].st # "unused"
    BY <1>1, OneDesc
  <1>4. Place(n)'
    BY <1>1, <1>2, Phase DEF Place
  <1>5. (Places /\ Alone /\ Links /\ Started /\ Splitting /\ Forks)'
    BY <1>1, <1>3, <1>4, Phase, ForkFrame
  <1>6. Types'
    BY <1>1 DEF Frame, Types, OnlyDesc, DupEffect, ForkGoesOn
  <1> QED BY <1>3, <1>5, <1>6 DEF Frame

LEMMA ForkSiblingFrame ==
    ASSUME Frame, NEW m \in Mms, ForkSibling(m)
    PROVE  Frame'
  <1>1. PICK k \in Mms, p \in Vmrs, n \in Vmrs, c \in Descs, d \in Descs, w \in Vmrs,
              fails \in Outcomes : SiblingEffect(m, k, p, n, c, d, w, fails)
    BY ForkSiblingEffect
  <1>2. /\ KidEffect(m, k, p, n, c, d) /\ DupEffect(p, c, d, TRUE) /\ d = vmr[w].desc
        /\ vmr[w].st = "live" /\ Listed(desc'[d].views) /\ desc'[d].st = desc[d].st
    BY <1>1 DEF SiblingEffect
  <1>3. desc'[d].st # "unused"
    BY <1>2, LivePlace, Phase
  <1> QED BY <1>2, <1>3, KidFrame

LEMMA ForkPrivateFrame ==
    ASSUME Frame, NEW m \in Mms, NEW wipe \in BOOLEAN, ForkPrivate(m, wipe)
    PROVE  Frame'
  <1>1. PICK k \in Mms, p \in Vmrs, n \in Vmrs, c \in Descs, d \in Descs,
              fails \in Outcomes : PrivateEffect(m, k, p, n, c, d, wipe, fails)
    BY ForkPrivateEffect
  <1>2. /\ KidEffect(m, k, p, n, c, d) /\ DupEffect(p, c, d, ~wipe)
        /\ Listed(desc'[d].views) /\ desc'[d].st = "alive"
    BY <1>1 DEF PrivateEffect
  <1>3. desc'[d].st # "unused"
    BY <1>2
  <1>4. (~wipe) \in BOOLEAN
    OBVIOUS
  <1> QED BY <1>2, <1>3, <1>4, KidFrame

LEMMA ForkFailsFrame ==
    ASSUME Frame, NEW m \in Mms, ForkFails(m)
    PROVE  Frame'
  <1>1. PICK shared \in BOOLEAN : Opens(m, shared)
    BY DEF ForkFails
  <1>2. /\ Forking(m) /\ mm' = Forked(m) /\ vmr' = [vmr EXCEPT ![NextVmr] = Dead]
        /\ UNCHANGED <<desc, dir, used, ref, cut, rec>> /\ Types
    BY <1>1, OpensNow DEF ForkFails, Frame, dirVars
  <1>3. PICK n \in Vmrs : n = NextVmr /\ vmr[n].st = "unused"
    BY <1>1, NextVmrUnused DEF Opens
  <1>4. ForkGoesOn(m)
    BY <1>2, ForkedFrom
  <1>5. vmr' \in [Vmrs -> VmrRec] /\ vmr'[n] = Dead /\ OnlyVmr(n)
    BY <1>2, <1>3, NewVmrRec DEF Types, OnlyVmr
  <1>6. Lists' /\ desc' \in [Descs -> DescRec] /\ \A e \in Descs : desc[e].st # "unused" => desc'[e].st # "unused"
    BY <1>2, SameDesc
  <1>7. Place(n)'
    BY <1>5, DeadFields DEF Place
  <1>8. (Places /\ Alone /\ Links /\ Started /\ Splitting /\ Forks)'
    <2>1. vmr'[n].st # "unused" /\ vmr'[n].st \notin Busy /\ vmr'[n].link = None
      BY <1>5, DeadFields, Phase
    <2> QED BY <1>3, <1>4, <1>5, <1>6, <1>7, <2>1, ForkFrame
  <1>9. Types'
    BY <1>2, <1>5, <1>6, <1>4 DEF Types, ForkGoesOn
  <1> QED BY <1>6, <1>8, <1>9 DEF Frame

LEMMA ForkEndEffect ==
    ASSUME Frame, NEW m \in Mms, ForkEnd(m)
    PROVE  /\ UNCHANGED <<vmr, desc, dir, used, ref, cut, rec>>
           /\ mm[m].op = "fork" /\ mm[m].todo = {}
           /\ \E k \in Mms : /\ k = mm[m].kid /\ k # m /\ mm[k].op = "child"
                             /\ mm' \in [Mms -> MmRec] /\ mm'[m].op = "idle" /\ mm'[k].op = "idle"
                             /\ \A j \in Mms \ {m, k} : mm'[j] = mm[j]
  <1>1. /\ UNCHANGED <<vmr, desc, dir, used, ref, cut, rec>>
        /\ mm[m].op = "fork" /\ mm[m].todo = {}
        /\ mm' = [mm EXCEPT ![m] = Idle, ![mm[m].kid] = Idle]
    BY DEF ForkEnd, dirVars
  <1>2. PICK k \in Mms : k = mm[m].kid
    BY <1>1, ForkRecs DEF Frame
  <1>3. mm[k].op = "child"
    BY <1>1, <1>2 DEF Frame, Forks, ForkAt
  <1>4. k # m /\ mm \in [Mms -> MmRec]
    BY <1>1, <1>3 DEF Frame, Types
  <1>5. /\ mm' \in [Mms -> MmRec] /\ mm'[m].op = "idle" /\ mm'[k].op = "idle"
        /\ \A j \in Mms \ {m, k} : mm'[j] = mm[j]
    BY <1>1, <1>2, <1>4, IdleRec
  <1> QED BY <1>1, <1>2, <1>3, <1>4, <1>5

LEMMA SpacesFrame ==
    ASSUME Frame, vmr' = vmr, desc' = desc, \E m \in Mms : mm[m].op # "unused",
           \A m \in Mms : mm[m].op = "close" => mm'[m].op = "close"
    PROVE  (Lists /\ Places /\ Alone /\ Links /\ Started)'
  <1>1. Lists' /\ \A d \in Descs : desc[d].st # "unused" => desc'[d].st # "unused"
    BY SameDesc
  <1>2. \E w \in Vmrs : vmr'[w].st # "unused"
    BY DEF Frame, Started, Unused
  <1>3. FrameStep({}, None)
    BY <1>1, <1>2 DEF FrameStep, Others, Stays
  <1> QED BY <1>1, <1>3, FrameKept

LEMMA ForkEndFrame ==
    ASSUME Frame, NEW m \in Mms, ForkEnd(m)
    PROVE  Frame'
  <1>1. PICK k \in Mms :
           /\ k = mm[m].kid /\ k # m /\ mm[k].op = "child"
           /\ mm' \in [Mms -> MmRec] /\ mm'[m].op = "idle" /\ mm'[k].op = "idle"
           /\ \A j \in Mms \ {m, k} : mm'[j] = mm[j]
    BY ForkEndEffect
  <1>2. UNCHANGED <<vmr, desc, dir, used, ref, cut, rec>> /\ mm[m].op = "fork"
    BY ForkEndEffect
  <1>3. (Lists /\ Places /\ Alone /\ Links /\ Started)'
    <2>1. \A j \in Mms : mm[j].op = "close" => mm'[j].op = "close"
      BY <1>1, <1>2
    <2>2. mm[m].op # "unused"
      BY <1>2
    <2> QED BY <1>2, <2>1, <2>2, SpacesFrame
  <1>4. SpaceStep({m, k})
    <2>1. \A j \in {m, k} : SplitAt(j)' /\ ForkAt(j)' /\ mm'[j].op # "fork"
      BY <1>1 DEF SplitAt, ForkAt
    <2>2. ASSUME NEW n \in Mms \ {m, k}, mm[n].op = "fork" PROVE mm[n].kid \notin {m, k}
      BY <1>1, <1>2, <2>2 DEF Frame, Forks, ForkAt
    <2> QED BY <1>1, <1>2, <2>1, <2>2 DEF SpaceStep
  <1>5. (Splitting /\ Forks)'
    BY <1>4, SpacesKept
  <1>6. Types'
    BY <1>1, <1>2 DEF Frame, Types
  <1> QED BY <1>3, <1>5, <1>6 DEF Frame

ForkBeginEffect(m, k) ==
    /\ UNCHANGED <<vmr, desc, dir, used, ref, cut, rec>>
    /\ mm[m].op = "idle" /\ mm[k].op = "unused" /\ k # m
    /\ mm' \in [Mms -> MmRec]
    /\ mm'[m].op = "fork" /\ mm'[m].kid = k
    /\ mm'[m].todo = {v \in Vmrs : vmr[v].st = "live" /\ vmr[v].mm = m}
    /\ mm'[k].op = "child"
    /\ \A j \in Mms \ {m, k} : mm'[j] = mm[j]

LEMMA ForkBeginEffects ==
    ASSUME Frame, NEW m \in Mms, ForkBegin(m)
    PROVE  \E k \in Mms : ForkBeginEffect(m, k)
  <1>1. PICK live \in SUBSET Vmrs : live = {v \in Vmrs : vmr[v].st = "live" /\ vmr[v].mm = m}
    OBVIOUS
  <1>2. /\ mm[m] = Idle /\ UnusedMms # {}
        /\ mm' = [mm EXCEPT ![m] = [op |-> "fork", kid |-> NextMm, todo |-> live],
                            ![NextMm] = [op |-> "child"]]
        /\ UNCHANGED <<vmr, desc, dir, used, ref, cut, rec>>
    BY <1>1 DEF ForkBegin, dirVars
  <1>3. PICK k \in Mms : k = NextMm /\ mm[k].op = "unused"
    BY <1>2, NextMmUnused
  <1>4. mm[m].op = "idle" /\ k # m /\ mm \in [Mms -> MmRec]
    BY <1>2, <1>3, IdleRec DEF Frame, Types
  <1>5. PICK y : y = [op |-> "fork", kid |-> k, todo |-> live]
    OBVIOUS
  <1>6. PICK z : z = [op |-> "child"]
    OBVIOUS
  <1>7. y \in MmRec /\ y.op = "fork" /\ y.kid = k /\ y.todo = live /\ z \in MmRec /\ z.op = "child"
    BY <1>5, <1>6 DEF MmRec
  <1>8. mm' = [[mm EXCEPT ![m] = y] EXCEPT ![k] = z]
    BY <1>2, <1>3, <1>5, <1>6
  <1>9. /\ mm' \in [Mms -> MmRec] /\ mm'[m] = y /\ mm'[k] = z
        /\ \A j \in Mms \ {m, k} : mm'[j] = mm[j]
    BY <1>4, <1>7, <1>8
  <1>10. ForkBeginEffect(m, k)
    BY <1>1, <1>2, <1>3, <1>4, <1>7, <1>9 DEF ForkBeginEffect
  <1> QED BY <1>10

LEMMA ForkBeginFrame ==
    ASSUME Frame, NEW m \in Mms, ForkBegin(m)
    PROVE  Frame'
  <1>1. PICK k \in Mms : ForkBeginEffect(m, k)
    BY ForkBeginEffects
  <1>2. /\ UNCHANGED <<vmr, desc, dir, used, ref, cut, rec>>
        /\ mm[m].op = "idle" /\ mm[k].op = "unused" /\ k # m
        /\ mm' \in [Mms -> MmRec]
        /\ mm'[m].op = "fork" /\ mm'[m].kid = k
        /\ mm'[m].todo = {v \in Vmrs : vmr[v].st = "live" /\ vmr[v].mm = m}
        /\ mm'[k].op = "child"
        /\ \A j \in Mms \ {m, k} : mm'[j] = mm[j]
    BY <1>1 DEF ForkBeginEffect
  <1>3. (Lists /\ Places /\ Alone /\ Links /\ Started)'
    <2>1. \A j \in Mms : mm[j].op = "close" => mm'[j].op = "close"
      BY <1>2
    <2>2. mm[m].op # "unused"
      BY <1>2
    <2> QED BY <1>2, <2>1, <2>2, SpacesFrame
  <1>4. ASSUME NEW n \in Mms, mm[n].op = "fork" PROVE mm[n].kid \notin {m, k} /\ n \notin {m, k}
    BY <1>2, <1>4 DEF Frame, Forks, ForkAt
  <1>5. SpaceStep({m, k})
    <2>1. \A j \in {m, k} : SplitAt(j)'
      BY <1>2 DEF SplitAt
    <2>2. ForkAt(k)'
      BY <1>2 DEF ForkAt
    <2>3. ForkAt(m)'
      BY <1>2, <1>4 DEF ForkAt
    <2> QED BY <1>2, <1>4, <2>1, <2>2, <2>3 DEF SpaceStep
  <1>6. (Splitting /\ Forks)'
    BY <1>5, SpacesKept
  <1>7. Types'
    BY <1>2 DEF Frame, Types
  <1> QED BY <1>3, <1>6, <1>7 DEF Frame

(* The first mapping.                                                      *)
MmapEffect(v, m, d, shared, fails) ==
    /\ Unused = Vmrs /\ v = 1 /\ m = 1 /\ d = 1
    /\ UNCHANGED <<dir, used, ref, cut, rec>>
    /\ vmr' \in [Vmrs -> VmrRec] /\ OnlyVmr(v)
    /\ vmr'[v].st = "live" /\ vmr'[v].mm = m /\ vmr'[v].desc = d /\ vmr'[v].lo = 0
    /\ vmr'[v].hi = NPages /\ vmr'[v].link = None
    /\ OnlyDesc(d, desc'[d]) /\ Listed(desc'[d].views)
    /\ IsMade(desc'[d], shared, view_add_alloc(<<>>, 0, NPages, FALSE, fails))
    /\ mm' \in [Mms -> MmRec] /\ mm'[m].op = "idle"
    /\ \A k \in Mms \ {m} : mm'[k] = mm[k]

FirstVmr == [NewVmr EXCEPT !.st = "live", !.mm = 1, !.desc = 1, !.hi = NPages]

LEMMA FirstVmrRec ==
    /\ FirstVmr \in VmrRec /\ FirstVmr.st = "live" /\ FirstVmr.mm = 1 /\ FirstVmr.desc = 1
    /\ FirstVmr.lo = 0 /\ FirstVmr.hi = NPages /\ FirstVmr.link = None
  <1>1. NewVmr \in VmrRec /\ NewVmr.link = None /\ NewVmr.lo = 0
    BY NewVmrRec DEF NewVmr
  <1>2. "live" \in Phases /\ 1 \in Mms \cup {None} /\ 1 \in Descs \cup {None} /\ NPages \in 0..NPages
    BY NoneIsNone, Sizes DEF Phases
  <1> QED BY <1>1, <1>2 DEF FirstVmr, VmrRec

LEMMA MmapEffects ==
    ASSUME Frame, NEW shared \in BOOLEAN, Mmap(shared)
    PROVE  \E v \in Vmrs, m \in Mms, d \in Descs, fails \in Outcomes : MmapEffect(v, m, d, shared, fails)
  <1>1. PICK v \in Vmrs, m \in Mms, d \in Descs : v = 1 /\ m = 1 /\ d = 1
    BY NoneIsNone
  <1>2. PICK fails \in Outcomes :
           desc' = [desc EXCEPT ![d] = Made(shared, view_add_alloc(<<>>, 0, NPages, FALSE, fails))]
    BY <1>1 DEF Mmap, Made
  <1>3. PICK l : l = view_add_alloc(<<>>, 0, NPages, FALSE, fails)
    OBVIOUS
  <1>4. Listed(l) /\ l \in Seq(ViewRec)
    <2>1. 0 \in 0..NPages /\ NPages \in 0..NPages /\ 0 < NPages
      BY Sizes
    <2> QED BY <1>3, <2>1, FirstView DEF Listed
  <1>5. PICK y : y = Made(shared, l)
    OBVIOUS
  <1>6. IsMade(y, shared, l)
    BY <1>4, <1>5, DescMade
  <1>7. desc' = [desc EXCEPT ![d] = y]
    BY <1>2, <1>3, <1>5
  <1>8. Types
    BY DEF Frame
  <1>9. OnlyDesc(d, desc'[d]) /\ desc'[d] = y
    BY <1>6, <1>7, <1>8 DEF Types, OnlyDesc, IsMade
  <1>10. y.views = l
    BY <1>6 DEF IsMade
  <1>11. vmr' = [vmr EXCEPT ![v] = FirstVmr]
    BY <1>1 DEF Mmap, FirstVmr
  <1>12. vmr' \in [Vmrs -> VmrRec] /\ vmr'[v] = FirstVmr /\ OnlyVmr(v)
    BY <1>8, <1>11, FirstVmrRec DEF Types, OnlyVmr
  <1>13. mm' = [mm EXCEPT ![m] = Idle] /\ UNCHANGED <<dir, used, ref, cut, rec>> /\ Unused = Vmrs
    BY <1>1 DEF Mmap, dirVars
  <1>14. mm' \in [Mms -> MmRec] /\ mm'[m].op = "idle" /\ \A k \in Mms \ {m} : mm'[k] = mm[k]
    BY <1>8, <1>13, IdleRec DEF Types
  <1>15. MmapEffect(v, m, d, shared, fails)
    BY <1>1, <1>3, <1>4, <1>6, <1>9, <1>10, <1>12, <1>13, <1>14, FirstVmrRec DEF MmapEffect
  <1> QED BY <1>15

LEMMA MmapFrame ==
    ASSUME Frame, NEW shared \in BOOLEAN, Mmap(shared)
    PROVE  Frame'
  <1>1. PICK v \in Vmrs, m \in Mms, d \in Descs, fails \in Outcomes : MmapEffect(v, m, d, shared, fails)
    BY MmapEffects
  <1>2. /\ Unused = Vmrs /\ UNCHANGED <<dir, used, ref, cut, rec>>
        /\ vmr' \in [Vmrs -> VmrRec] /\ OnlyVmr(v)
        /\ vmr'[v].st = "live" /\ vmr'[v].mm = m /\ vmr'[v].desc = d /\ vmr'[v].lo = 0
        /\ vmr'[v].hi = NPages /\ vmr'[v].link = None
        /\ OnlyDesc(d, desc'[d]) /\ Listed(desc'[d].views) /\ desc'[d].st = "alive"
        /\ mm' \in [Mms -> MmRec] /\ mm'[m].op = "idle"
        /\ \A k \in Mms \ {m} : mm'[k] = mm[k]
    BY <1>1 DEF MmapEffect, IsMade
  <1>3. \A w \in Vmrs : vmr[w].st = "unused"
    BY <1>2 DEF Unused
  <1>4. \A k \in Mms : mm[k].op = "unused"
    BY <1>2 DEF Frame, Started
  <1>5. Lists' /\ \A e \in Descs : desc[e].st # "unused" => desc'[e].st # "unused"
    BY <1>2, OneDesc
  <1>6. Place(v)'
    BY <1>2, Phase, Sizes DEF Place
  <1>7. FrameStep({v}, v)
    BY <1>2, <1>4, <1>5, <1>6, Phase DEF FrameStep, OnlyVmr, Others, Stays
  <1>8. SpaceStep({m})
    <2>1. SplitAt(m)' /\ ForkAt(m)'
      BY <1>2 DEF SplitAt, ForkAt
    <2> QED BY <1>2, <1>3, <1>4, <2>1 DEF SpaceStep
  <1>9. (Places /\ Alone /\ Links /\ Started)'
    BY <1>7, FrameKept
  <1>10. (Splitting /\ Forks)'
    BY <1>8, SpacesKept
  <1>11. Types'
    BY <1>2 DEF Frame, Types, OnlyDesc
  <1> QED BY <1>5, <1>9, <1>10, <1>11 DEF Frame

=============================================================================
