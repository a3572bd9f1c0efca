------------------------- MODULE VmdescViewsProofs -------------------------
(***************************************************************************)
(* Proofs about VmdescViews, for any number of processes, vmrs, vmdescs    *)
(* and groups, any geometry and any places where vmas are split.           *)
(***************************************************************************)
EXTENDS VmdescViewsLemmas

LEMMA FrameInit == Init => Frame
  <1> SUFFICES ASSUME Init PROVE Frame
    OBVIOUS
  <1>1. vmr = [v \in Vmrs |-> NewVmr] /\ mm = [m \in Mms |-> [op |-> "unused"]]
        /\ desc = [d \in Descs |-> NewDesc]
    BY DEF Init
  <1>2. NewVmr.st = "unused" /\ NewVmr.link = None
    BY DEF NewVmr
  <1>3. Types
    <2>1. vmr \in [Vmrs -> VmrRec] /\ desc \in [Descs -> DescRec]
      BY <1>1, NewVmrRec, NewDescRec
    <2>2. mm \in [Mms -> MmRec]
      BY <1>1 DEF MmRec
    <2> QED BY <2>1, <2>2 DEF Types, Init
  <1>4. Lists
    <2>1. NewDesc.views = <<>>
      BY DEF NewDesc
    <2> QED BY <1>1, <2>1, NoViews DEF Lists
  <1>5. Places /\ Alone /\ Links
    BY <1>1, <1>2, Phase DEF Places, Place, Alone, Links, Link
  <1>6. Started /\ Splitting /\ Forks
    BY <1>1 DEF Started, Splitting, SplitAt, Forks, ForkAt
  <1> QED BY <1>3, <1>4, <1>5, <1>6 DEF Frame

LEMMA FrameStays == Frame /\ UNCHANGED vars => Frame'
  <1> SUFFICES ASSUME Frame, UNCHANGED <<vmr, mm, desc, dir, used, ref, rec, cut>> PROVE Frame'
    BY DEF vars
  <1>1. (Lists /\ Places /\ Alone /\ Links /\ Started /\ Splitting /\ Forks)'
    BY FrameUnchanged
  <1>2. Types'
    BY DEF Frame, Types
  <1> QED BY <1>1, <1>2 DEF Frame

LEMMA FrameStepped == Frame /\ [Next]_vars => Frame'
  <1> SUFFICES ASSUME Frame, Next PROVE Frame'
    BY FrameStays
  <1>1. ASSUME NEW shared \in Sharing, Mmap(shared) PROVE Frame'
    <2>1. shared \in BOOLEAN
      BY ViewsAssumption
    <2> QED BY <1>1, <2>1, MmapFrame
  <1>2. ASSUME NEW v \in Vmrs, NEW i \in Idx, Fault(v, i) PROVE Frame'
    BY <1>2, FaultFrame
  <1>3. ASSUME NEW v \in Vmrs, SplitFails(v) PROVE Frame'
    BY <1>3, SplitFailsFrame
  <1>4. ASSUME NEW v \in Vmrs, CloseBegin(v) PROVE Frame'
    BY <1>4, CloseBeginFrame
  <1>5. ASSUME NEW v \in Vmrs, Close(v) PROVE Frame'
    BY <1>5, CloseEnterFrame, CloseDropViewFrame, CloseDropRefFrame, CloseQueryFrame,
       ClosePutFrame, CloseClearFrame, CloseWakeFrame, CloseLastFrame DEF Close
  <1>6. ASSUME NEW v \in Vmrs, NEW mid \in SharedSplits \cup PrivateSplits,
               NEW newIsFront \in BOOLEAN, SplitOpen(v, mid, newIsFront)
        PROVE  Frame'
    BY <1>6, SplitOpenFrame
  <1>7. ASSUME NEW m \in Mms, ForkBegin(m) PROVE Frame'
    BY <1>7, ForkBeginFrame
  <1>8. ASSUME NEW m \in Mms, Locked(m) PROVE Frame'
    BY <1>8, SplitViewsFrame, ForkSharedRefFrame, ForkSharedViewFrame, ForkSiblingFrame,
       ForkPrivateFrame, ForkFailsFrame, ForkEndFrame DEF Locked
  <1> QED BY <1>1, <1>2, <1>3, <1>4, <1>5, <1>6, <1>7, <1>8 DEF Next

(* The frame holds throughout: every list is sorted, a vmr in any phase    *)
(* has what its phase says, a mmap lock that is held for writing keeps the *)
(* vmrs of a split or a fork as they were.                                 *)
THEOREM ViewsInductive == Spec => []Frame
  <1>1. Init => Frame
    BY FrameInit
  <1>2. Frame /\ [Next]_vars => Frame'
    BY FrameStepped
  <1> QED BY <1>1, <1>2, PTL DEF Spec

LEMMA FrameUncovered == Frame => UncoveredExact
  <1> SUFFICES ASSUME Frame, NEW d \in Descs, NEW s \in 0..(NPages - 1), NEW e \in (s + 1)..NPages
               PROVE  LET views == desc[d].views
                          u == find_uncovered(views, s, e)
                          bare == {p \in s..(e - 1) : \A k \in DOMAIN views :
                                      ~(views[k].start <= p /\ p < views[k].end)}
                      IN  /\ u.fine => bare = u.lo..(u.hi - 1)
                          /\ ~u.fine => bare # {}
                          /\ is_covered(views, s, e) <=> bare # s..(e - 1)
    BY DEF UncoveredExact
  <1>1. PICK views : views = desc[d].views /\ Listed(views)
    BY DEF Frame, Lists
  <1>2. s \in 0..NPages /\ e \in 0..NPages /\ s < e /\ s \in Nat /\ e \in Nat
    BY Sizes
  <1>3. PICK n \in Nat : n = Len(views) /\ DOMAIN views = 1..n
    BY <1>1 DEF Listed
  <1>4. PICK u : u = find_uncovered(views, s, e)
    OBVIOUS
  <1>5. PICK bare : bare = {p \in s..(e - 1) : Bare(views, n, p)}
    OBVIOUS
  <1>6. bare = {p \in s..(e - 1) : \A k \in DOMAIN views :
                   ~(views[k].start <= p /\ p < views[k].end)}
    BY <1>3, <1>5 DEF Bare
  <1>7. (u.fine => bare = u.lo..(u.hi - 1)) /\ (~u.fine => bare # {})
    BY <1>1, <1>2, <1>3, <1>4, <1>5, FoundUncovered
  <1>8. is_covered(views, s, e) <=> bare # s..(e - 1)
    <2>1. ASSUME NEW k \in DOMAIN views, views[k].start < e, views[k].end > s
          PROVE  bare # s..(e - 1)
      <3>1. PICK a, b \in Nat : a = views[k].start /\ b = views[k].end /\ a < b
        BY <1>1, ListedFields, ViewFields
      <3>2. PICK p \in Nat : p = (IF a <= s THEN s ELSE a)
        BY <1>2
      <3>3. p \in s..(e - 1) /\ views[k].start <= p /\ p < views[k].end
        BY <1>2, <2>1, <3>1, <3>2
      <3>4. p \notin bare
        BY <1>6, <3>3
      <3> QED BY <3>3, <3>4
    <2>2. ASSUME bare # s..(e - 1) PROVE is_covered(views, s, e)
      <3>1. PICK p \in s..(e - 1) : p \notin bare
        BY <1>6, <2>2
      <3>2. PICK k \in DOMAIN views : views[k].start <= p /\ p < views[k].end
        BY <1>6, <3>1
      <3>3. PICK a, b \in Nat : a = views[k].start /\ b = views[k].end /\ a < b
        BY <1>1, ListedFields, ViewFields
      <3>4. views[k].start < e /\ views[k].end > s
        BY <1>2, <3>1, <3>2, <3>3
      <3> QED BY <3>4 DEF is_covered
    <2> QED BY <2>1, <2>2 DEF is_covered
  <1> QED BY <1>1, <1>4, <1>6, <1>7, <1>8

(* Whatever mmaps, splits, forks and closes have made of a view list, the  *)
(* one walk of emp_vmdesc_view_find_uncovered() over it returns exactly    *)
(* the pages of a range that no view covers, or says that these are not    *)
(* one range, and the query per block is the test for an intersection.     *)
THEOREM UncoveredIsExact == Spec => []UncoveredExact
  <1>1. Spec => []Frame
    BY ViewsInductive
  <1>2. Frame => UncoveredExact
    BY FrameUncovered
  <1> QED BY <1>1, <1>2, PTL

-----------------------------------------------------------------------------
(* RefcntIsDirs.  A private vma is split at group boundaries; gpas that a  *)
(* fork duplicates in part are what the hazard at cow.c:2290 is about.     *)
SplitsAtGroups == \A mid \in PrivateSplits : \E g \in Groups : mid = g.first * SbSize

AtGroup(p) == p \in {0, NPages} \/ \E g \in Groups : p = g.first * SbSize
AtVmr(v) ==
    (vmr[v].st \in Placed /\ ~desc[vmr[v].desc].shared) =>
        AtGroup(vmr[v].lo) /\ AtGroup(vmr[v].hi)
AtGroups == \A v \in Vmrs : AtVmr(v)

(* A group is in a directory as a whole, at the same place in all of them, *)
(* and its slots are counted.                                              *)
Dirs(o, i) == {d \in Descs : dir[d][i] = o}
Whole ==
    \A d \in Descs, i \in Idx : \A j \in Members(GroupOf[i]) : dir[d][j] = dir[d][i]
OwnGroup ==
    \A d, e \in Descs : \A i, j \in Idx :
        dir[d][i] # None /\ dir[d][i] = dir[e][j] => GroupOf[i] = GroupOf[j]
Referenced ==
    \A o \in Gpas, i \in Idx :
        /\ o \in used => ref[o][i] = Cardinality(Dirs(o, i))
        /\ o \notin used => Dirs(o, i) = {}
GroupsKept == Whole /\ OwnGroup /\ Referenced
RefInv == Frame /\ AtGroups /\ GroupsKept

LEMMA SetCounts ==
    ASSUME NEW S \in SUBSET Descs
    PROVE  /\ Cardinality(S) \in Nat /\ (Cardinality(S) = 0 <=> S = {})
           /\ \A d \in Descs \ S : Cardinality(S \cup {d}) = Cardinality(S) + 1
           /\ \A d \in S : Cardinality(S \ {d}) = Cardinality(S) - 1
  <1>1. IsFiniteSet(Descs)
    BY Sizes, FS_Interval DEF Descs
  <1>2. IsFiniteSet(S)
    BY <1>1, FS_Subset
  <1>3. Cardinality(S) \in Nat /\ (Cardinality(S) = 0 <=> S = {})
    BY <1>2, FS_CardinalityType, FS_EmptySet
  <1>4. ASSUME NEW d \in Descs \ S PROVE Cardinality(S \cup {d}) = Cardinality(S) + 1
    BY <1>2, FS_AddElement
  <1>5. ASSUME NEW d \in S PROVE Cardinality(S \ {d}) = Cardinality(S) - 1
    BY <1>2, FS_RemoveElement
  <1> QED BY <1>3, <1>4, <1>5

LEMMA SameGroup ==
    ASSUME NEW i \in Idx, NEW j \in Members(GroupOf[i])
    PROVE  /\ j \in Idx /\ GroupOf[j] = GroupOf[i] /\ i \in Members(GroupOf[j])
           /\ \A g \in Groups : i \in Members(g) <=> j \in Members(g)
  BY Tiling

LEMMA GetKeeps ==
    ASSUME Types, GroupsKept, NEW d \in Descs, NEW i \in Idx, NEW o \in Gpas, GetEffect(d, i, o)
    PROVE  GroupsKept'
  <1>1. CASE UNCHANGED <<dir, used, ref>>
    <2>1. Whole' /\ OwnGroup'
      BY <1>1 DEF GroupsKept, Whole, OwnGroup
    <2>2. \A x \in Gpas, j \in Idx : Dirs(x, j)' = Dirs(x, j)
      BY <1>1 DEF Dirs
    <2>3. Referenced'
      BY <1>1, <2>2 DEF GroupsKept, Referenced
    <2> QED BY <2>1, <2>3 DEF GroupsKept
  <1>2. CASE ~UNCHANGED <<dir, used, ref>>
    <2>1. /\ dir[d][i] = None /\ o \notin used /\ used' = used \cup {o}
          /\ \A e \in Descs, j \in Idx :
                dir'[e][j] = IF e = d /\ j \in Members(GroupOf[i]) /\ dir[d][j] = None
                             THEN o ELSE dir[e][j]
          /\ \A x \in Gpas, j \in Idx :
                ref'[x][j] = IF x = o
                             THEN IF j \in Members(GroupOf[i]) /\ dir[d][j] = None THEN 1 ELSE 0
                             ELSE ref[x][j]
      BY <1>2 DEF GetEffect
    <2>2. PICK g \in Groups : g = GroupOf[i] /\ i \in Members(g) /\ Members(g) \subseteq Idx
      BY Tiling
    <2>3. \A j \in Members(g) : dir[d][j] = None
      BY <2>1, <2>2 DEF GroupsKept, Whole
    <2>4. \A e \in Descs, j \in Idx :
             dir'[e][j] = IF e = d /\ j \in Members(g) THEN o ELSE dir[e][j]
      BY <2>1, <2>2, <2>3
    <2>5. \A x \in Gpas, j \in Idx :
             ref'[x][j] = IF x = o THEN IF j \in Members(g) THEN 1 ELSE 0 ELSE ref[x][j]
      BY <2>1, <2>2, <2>3
    <2>6. \A e \in Descs, j \in Idx : dir[e][j] # o
      BY <2>1 DEF GroupsKept, Referenced, Dirs
    <2>7. o # None
      BY NoneIsNone DEF Gpas
    <2>8. Whole'
      <3> SUFFICES ASSUME NEW e \in Descs, NEW a \in Idx, NEW b \in Members(GroupOf[a])
                   PROVE  dir'[e][b] = dir'[e][a]
        BY DEF Whole
      <3>1. b \in Idx /\ (a \in Members(g) <=> b \in Members(g)) /\ dir[e][b] = dir[e][a]
        BY SameGroup DEF GroupsKept, Whole
      <3> QED BY <2>4, <3>1
    <2>9. OwnGroup'
      <3> SUFFICES ASSUME NEW a \in Descs, NEW e \in Descs, NEW j \in Idx, NEW k \in Idx,
                          dir'[a][j] # None, dir'[a][j] = dir'[e][k]
                   PROVE  GroupOf[j] = GroupOf[k]
        BY DEF OwnGroup
      <3>1. CASE dir'[a][j] = o
        <4>1. j \in Members(g)
          BY <2>4, <2>6, <3>1
        <4>2. dir'[e][k] = o
          BY <3>1
        <4>3. k \in Members(g)
          BY <2>4, <2>6, <4>2
        <4> QED BY <4>1, <4>3, Tiling
      <3>2. CASE dir'[a][j] # o
        <4>1. dir[a][j] = dir'[a][j] /\ dir[e][k] = dir'[e][k]
          BY <2>4, <3>2
        <4> QED BY <4>1 DEF GroupsKept, OwnGroup
      <3> QED BY <3>1, <3>2
    <2>10. Referenced'
      <3> SUFFICES ASSUME NEW x \in Gpas, NEW j \in Idx
                   PROVE  /\ x \in used' => ref'[x][j] = Cardinality(Dirs(x, j)')
                          /\ x \notin used' => Dirs(x, j)' = {}
        BY DEF Referenced
      <3>1. CASE x = o
        <4>1. CASE j \in Members(g)
          <5>1. Dirs(x, j)' = {d}
            BY <2>4, <2>6, <3>1, <4>1 DEF Dirs
          <5>2. {} \cup {d} = {d} /\ {} \in SUBSET Descs /\ Cardinality({}) = 0
            BY SetCounts
          <5>3. Cardinality({d}) = 1
            BY <5>2, SetCounts
          <5> QED BY <2>1, <2>5, <3>1, <4>1, <5>1, <5>3
        <4>2. CASE j \notin Members(g)
          <5>1. Dirs(x, j)' = {}
            BY <2>4, <2>6, <3>1, <4>2 DEF Dirs
          <5>2. Cardinality({}) = 0
            BY SetCounts
          <5> QED BY <2>1, <2>5, <3>1, <4>2, <5>1, <5>2
        <4> QED BY <4>1, <4>2
      <3>2. CASE x # o
        <4>1. \A e \in Descs : dir'[e][j] = x <=> dir[e][j] = x
          <5>1. x # None
            BY NoneIsNone DEF Gpas
          <5> QED BY <2>3, <2>4, <3>2, <5>1
        <4>2. Dirs(x, j)' = Dirs(x, j)
          BY <4>1 DEF Dirs
        <4> QED BY <2>1, <2>5, <3>2, <4>2 DEF GroupsKept, Referenced
      <3> QED BY <3>1, <3>2
    <2> QED BY <2>8, <2>9, <2>10 DEF GroupsKept
  <1> QED BY <1>1, <1>2

(* The release of a group takes all its slots out of one directory, and    *)
(* the first one tells whether another directory has it.                   *)
LEMMA PutKeeps ==
    ASSUME Types, GroupsKept, NEW v \in Vmrs, NEW d \in Descs, NEW g \in Groups, NEW o \in Gpas,
           NEW put \in BOOLEAN, PutEffect(v, d, g, o, put)
    PROVE  GroupsKept'
  <1>1. /\ o = dir[d][g.first]
        /\ put => \A i \in Members(g) : dir[d][i] = o
        /\ \A x \in Gpas, i \in Idx :
              ref'[x][i] = IF x = o /\ i \in Members(g) /\ put THEN ref[x][i] - 1 ELSE ref[x][i]
        /\ \A e \in Descs, i \in Idx :
              dir'[e][i] = IF e = d /\ i \in Members(g) /\ put THEN None ELSE dir[e][i]
        /\ used' = IF put /\ ref'[o][g.first] = 0 THEN used \ {o} ELSE used
    BY DEF PutEffect
  <1>2. Whole /\ OwnGroup /\ Referenced /\ o # None
    BY NoneIsNone DEF GroupsKept, Gpas
  <1>3. g.first \in Members(g) /\ Members(g) \subseteq Idx /\ \A i \in Members(g) : GroupOf[i] = g
    BY Tiling
  <1>4. Whole'
    <2> SUFFICES ASSUME NEW e \in Descs, NEW a \in Idx, NEW b \in Members(GroupOf[a])
                 PROVE  dir'[e][b] = dir'[e][a]
      BY DEF Whole
    <2>1. b \in Idx /\ (a \in Members(g) <=> b \in Members(g)) /\ dir[e][b] = dir[e][a]
      BY <1>2, SameGroup DEF Whole
    <2> QED BY <1>1, <2>1
  <1>5. OwnGroup'
    <2> SUFFICES ASSUME NEW a \in Descs, NEW e \in Descs, NEW j \in Idx, NEW k \in Idx,
                        dir'[a][j] # None, dir'[a][j] = dir'[e][k]
                 PROVE  GroupOf[j] = GroupOf[k]
      BY DEF OwnGroup
    <2>1. dir[a][j] = dir'[a][j] /\ dir[e][k] = dir'[e][k]
      BY <1>1
    <2> QED BY <1>2, <2>1 DEF OwnGroup
  <1>6. o \in used
    <2>1. d \in Dirs(o, g.first) /\ g.first \in Idx
      BY <1>1, <1>3 DEF Dirs
    <2> QED BY <1>2, <2>1 DEF Referenced
  <1>7. ASSUME NEW x \in Gpas, NEW i \in Idx, x # o \/ i \notin Members(g) \/ ~put
        PROVE  Dirs(x, i)' = Dirs(x, i) /\ ref'[x][i] = ref[x][i]
    <2>1. \A e \in Descs : dir'[e][i] = x <=> dir[e][i] = x
      <3>1. x # None
        BY NoneIsNone DEF Gpas
      <3> QED BY <1>1, <1>7, <3>1
    <2> QED BY <1>1, <1>7, <2>1 DEF Dirs
  <1>8. ASSUME NEW i \in Members(g), put
        PROVE  /\ i \in Idx /\ Dirs(o, i) \in SUBSET Descs /\ d \in Dirs(o, i)
               /\ Dirs(o, i)' = Dirs(o, i) \ {d} /\ Dirs(o, i)' \in SUBSET Descs
               /\ ref'[o][i] = Cardinality(Dirs(o, i)')
    <2>1. i \in Idx /\ Dirs(o, i) \in SUBSET Descs /\ d \in Dirs(o, i)
      BY <1>1, <1>3, <1>8 DEF Dirs
    <2>2. Dirs(o, i)' = Dirs(o, i) \ {d}
      BY <1>1, <1>2, <1>8, <2>1 DEF Dirs
    <2>3. ref[o][i] = Cardinality(Dirs(o, i)) /\ ref'[o][i] = ref[o][i] - 1
      BY <1>1, <1>2, <1>6, <1>8, <2>1 DEF Referenced
    <2>4. Cardinality(Dirs(o, i) \ {d}) = Cardinality(Dirs(o, i)) - 1
      BY <2>1, SetCounts
    <2> QED BY <2>1, <2>2, <2>3, <2>4
  <1>9. Referenced'
    <2> SUFFICES ASSUME NEW x \in Gpas, NEW i \in Idx
                 PROVE  /\ x \in used' => ref'[x][i] = Cardinality(Dirs(x, i)')
                        /\ x \notin used' => Dirs(x, i)' = {}
      BY DEF Referenced
    <2>1. x \in used' => ref'[x][i] = Cardinality(Dirs(x, i)')
      <3>1. CASE x # o \/ i \notin Members(g) \/ ~put
        <4>1. x \in used' => x \in used
          BY <1>1
        <4> QED BY <1>2, <1>7, <3>1, <4>1 DEF Referenced
      <3>2. CASE x = o /\ i \in Members(g) /\ put
        BY <1>8, <3>2
      <3> QED BY <3>1, <3>2
    <2>2. CASE x = o /\ put /\ ref'[o][g.first] = 0
      <3>1. Dirs(o, g.first)' = {}
        <4>1. PICK D \in SUBSET Descs : D = Dirs(o, g.first)' /\ Cardinality(D) = 0
          BY <1>3, <1>8, <2>2
        <4> QED BY <4>1, SetCounts
      <3>2. CASE i \in Members(g)
        <4>1. \A e \in Descs : dir'[e][i] = dir'[e][g.first]
          <5>1. g.first \in Members(GroupOf[i])
            BY <1>3, <3>2
          <5> QED BY <1>4, <5>1 DEF Whole
        <4>2. \A e \in Descs : dir'[e][g.first] # o
          BY <3>1 DEF Dirs
        <4>3. \A e \in Descs : dir'[e][i] # o
          BY <4>1, <4>2
        <4>4. Dirs(x, i)' = {}
          BY <2>2, <4>3 DEF Dirs
        <4> QED BY <2>1, <4>4
      <3>3. CASE i \notin Members(g)
        <4>1. ASSUME NEW e \in Descs, dir[e][i] = o PROVE FALSE
          <5>1. g.first \in Idx /\ GroupOf[g.first] = g /\ i \in Members(GroupOf[i])
            BY <1>3, Tiling
          <5>2. GroupOf[g.first] = GroupOf[i]
            BY <1>1, <1>2, <4>1, <5>1 DEF OwnGroup
          <5> QED BY <3>3, <5>1, <5>2
        <4>2. Dirs(x, i) = {}
          BY <2>2, <4>1 DEF Dirs
        <4>3. Dirs(x, i)' = {}
          BY <1>7, <3>3, <4>2
        <4> QED BY <2>1, <4>3
      <3> QED BY <2>1, <3>2, <3>3
    <2>3. CASE ~(x = o /\ put /\ ref'[o][g.first] = 0)
      <3>1. x \notin used' => x \notin used /\ x # o
        BY <1>1, <1>6, <2>3
      <3>2. x \notin used' => Dirs(x, i)' = {}
        BY <1>2, <1>7, <3>1 DEF Referenced
      <3> QED BY <2>1, <3>2
    <2> QED BY <2>2, <2>3
  <1> QED BY <1>4, <1>5, <1>9 DEF GroupsKept

(* An interval of whole groups has all slots of a group or none, so a fork *)
(* duplicates whole groups.                                                *)
LEMMA Aligned ==
    ASSUME NEW p \in 0..NPages, AtGroup(p), NEW i \in Idx, NEW j \in Members(GroupOf[i])
    PROVE  /\ p # NPages /\ p < SbSize * i + SbSize => p < SbSize * j + SbSize
           /\ p # 0 /\ SbSize * i < p => SbSize * j < p
  <1>0. j \in Idx
    BY SameGroup
  <1>1. /\ j \in Idx /\ i \in Nat /\ j \in Nat /\ SbSize \in Nat \ {0} /\ NPages \in Nat /\ p \in Nat
        /\ GpaLen \in Nat
    BY <1>0, Sizes, NoneIsNone
  <1>2. CASE p = 0
    <2>1. SbSize * j \in Nat
      BY <1>1
    <2>2. p < SbSize * j + SbSize
      BY <1>1, <1>2, <2>1
    <2> QED BY <1>2, <2>2
  <1>3. CASE p = NPages
    <2>1. SbUp(NPages) = GpaLen /\ j < GpaLen /\ NPages \in Int /\ j \in Int
      BY <1>1 DEF SbUp, GpaLen, Idx
    <2>2. SbSize * j < NPages
      BY <2>1, DownUp
    <2> QED BY <1>3, <2>2
  <1>4. CASE p # 0 /\ p # NPages
    <2>1. PICK g \in Groups : p = g.first * SbSize
      BY <1>4 DEF AtGroup
    <2>2. PICK h \in Groups : h = GroupOf[i] /\ i \in Members(h) /\ j \in Members(h)
      BY Tiling
    <2>3. PICK a \in Nat, b \in Nat, c \in Nat, e \in Nat :
             a = g.first /\ b = h.first /\ c = h.end /\ e = g.end
      BY GroupsType, NoneIsNone DEF GroupsTyped
    <2>4. b <= i /\ i < c /\ b <= j /\ j < c
      BY <1>1, <2>2, <2>3 DEF Members
    <2>5. a <= b \/ c <= a
      <3>1. SUFFICES ASSUME b < a, a < c PROVE FALSE
        BY <2>3
      <3>2. a \in Members(h) /\ a \in Members(g)
        BY <2>3, <3>1, Tiling DEF Members
      <3>3. g = h
        BY <3>2, Tiling
      <3> QED BY <2>3, <3>1, <3>3
    <2>6. (a <= i <=> a <= j) /\ (i < a <=> j < a)
      BY <1>1, <2>3, <2>4, <2>5
    <2>7. ASSUME NEW k \in Nat PROVE (p < SbSize * k + SbSize <=> a <= k) /\ (SbSize * k < p <=> k < a)
      <3>1. p = SbSize * a
        BY <1>1, <2>1, <2>3
      <3>2. SbSize * k \in Int /\ SbSize * (k + 1) = SbSize * k + SbSize
        BY <1>1
      <3>3. a <= k => SbSize * a <= SbSize * k
        BY <1>1, <2>3, TimesMono
      <3>4. k + 1 <= a => SbSize * (k + 1) <= SbSize * a
        BY <1>1, <2>3, TimesMono
      <3> QED BY <1>1, <2>3, <3>1, <3>2, <3>3, <3>4
    <2> QED BY <1>1, <2>6, <2>7
  <1> QED BY <1>2, <1>3, <1>4

LEMMA SlotsWhole ==
    ASSUME Frame, NEW p \in Vmrs, vmr[p].st \in Placed, AtGroup(vmr[p].lo), AtGroup(vmr[p].hi),
           NEW i \in SlotsOf(p), NEW j \in Members(GroupOf[i])
    PROVE  i \in Idx /\ j \in SlotsOf(p)
  <1>1. PICK lo \in 0..NPages, hi \in 0..NPages : lo = vmr[p].lo /\ hi = vmr[p].hi
    BY LivePlace
  <1>2. lo < hi /\ SlotsOf(p) = Slots(lo, hi) /\ i \in Idx /\ AtGroup(lo) /\ AtGroup(hi)
    BY <1>1, LivePlace DEF SlotsOf
  <1>3. lo # NPages /\ hi # 0
    BY <1>2, Sizes
  <1>4. i \in Int /\ j \in Int
    <2>1. j \in Idx
      BY <1>2, SameGroup
    <2> QED BY <1>2, <2>1, NoneIsNone
  <1>5. lo < SbSize * i + SbSize /\ SbSize * i < hi
    BY <1>2, <1>4, SlotIn
  <1>6. lo < SbSize * j + SbSize /\ SbSize * j < hi
    BY <1>2, <1>3, <1>5, Aligned
  <1> QED BY <1>2, <1>4, <1>6, SlotIn

LEMMA InheritedWhole ==
    ASSUME Frame, Whole, NEW p \in Vmrs, vmr[p].st \in Placed,
           AtGroup(vmr[p].lo), AtGroup(vmr[p].hi),
           NEW c \in Descs, c = vmr[p].desc, NEW dup \in BOOLEAN,
           NEW i \in Inherited(p, dup), NEW j \in Members(GroupOf[i])
    PROVE  i \in Idx /\ j \in Inherited(p, dup) /\ dir[c][i] # None
  <1>1. dup /\ i \in dup_slots(p)
    BY DEF Inherited
  <1>2. PICK k \in SlotsOf(p) : dir[c][k] # None /\ i \in BlockOf(dir[c][k], k)
    BY <1>1 DEF dup_slots
  <1>3. k \in Idx /\ i \in Members(GroupOf[k])
    BY <1>2, LivePlace DEF BlockOf
  <1>4. i \in Idx /\ j \in Members(GroupOf[k]) /\ j \in Idx
    BY <1>3, SameGroup
  <1>5. dir[c][i] = dir[c][k] /\ dir[c][j] = dir[c][k]
    BY <1>3, <1>4 DEF Whole
  <1>6. j \in SlotsOf(p)
    BY <1>2, <1>4, SlotsWhole
  <1>7. j \in BlockOf(dir[c][j], j)
    BY <1>4, Tiling DEF BlockOf
  <1>8. j \in dup_slots(p)
    BY <1>2, <1>5, <1>6, <1>7 DEF dup_slots
  <1> QED BY <1>1, <1>2, <1>4, <1>5, <1>8 DEF Inherited

LEMMA DupKeeps ==
    ASSUME Frame, GroupsKept, NEW p \in Vmrs, vmr[p].st \in Placed,
           AtGroup(vmr[p].lo), AtGroup(vmr[p].hi),
           NEW c \in Descs, c = vmr[p].desc, NEW d \in Descs, NEW dup \in BOOLEAN,
           DupEffect(p, c, d, dup)
    PROVE  GroupsKept'
  <1>1. PICK F : F = {i \in Inherited(p, dup) : dir[d][i] = None}
    OBVIOUS
  <1>2. Whole /\ OwnGroup /\ Referenced
    BY DEF GroupsKept
  <1>3. ASSUME NEW i \in F
        PROVE  i \in Idx /\ dir[c][i] # None /\ dir[d][i] = None /\ Members(GroupOf[i]) \subseteq F
    <2>1. i \in Inherited(p, dup) /\ dir[d][i] = None
      BY <1>1
    <2>2. i \in Idx /\ dir[c][i] # None
      <3>1. PICK k \in SlotsOf(p) : dup /\ dir[c][k] # None /\ i \in BlockOf(dir[c][k], k)
        BY <2>1 DEF Inherited, dup_slots
      <3>2. k \in Idx /\ i \in Members(GroupOf[k])
        BY <3>1, LivePlace DEF BlockOf
      <3>3. i \in Idx /\ dir[c][i] = dir[c][k]
        BY <1>2, <3>2, SameGroup DEF Whole
      <3> QED BY <3>1, <3>3
    <2>3. ASSUME NEW j \in Members(GroupOf[i]) PROVE j \in F
      <3>1. j \in Inherited(p, dup)
        BY <1>2, <2>1, InheritedWhole
      <3>2. dir[d][j] = None
        BY <1>2, <2>1, <2>2 DEF Whole
      <3> QED BY <1>1, <3>1, <3>2
    <2> QED BY <2>1, <2>2, <2>3
  <1>4. /\ \A e \in Descs, i \in Idx : dir'[e][i] = IF e = d /\ i \in F THEN dir[c][i] ELSE dir[e][i]
        /\ \A o \in Gpas, i \in Idx :
              ref'[o][i] = IF i \in F /\ dir[c][i] = o THEN ref[o][i] + 1 ELSE ref[o][i]
        /\ used' = used
    BY <1>1 DEF DupEffect
  <1>5. Whole'
    <2> SUFFICES ASSUME NEW e \in Descs, NEW a \in Idx, NEW b \in Members(GroupOf[a])
                 PROVE  dir'[e][b] = dir'[e][a]
      BY DEF Whole
    <2>1. /\ b \in Idx /\ GroupOf[b] = GroupOf[a] /\ a \in Members(GroupOf[b])
          /\ dir[e][b] = dir[e][a] /\ dir[c][b] = dir[c][a]
      BY <1>2, SameGroup DEF Whole
    <2>2. a \in F <=> b \in F
      BY <1>3, <2>1
    <2> QED BY <1>4, <2>1, <2>2
  <1>6. OwnGroup'
    <2> SUFFICES ASSUME NEW a \in Descs, NEW e \in Descs, NEW j \in Idx, NEW k \in Idx,
                        dir'[a][j] # None, dir'[a][j] = dir'[e][k]
                 PROVE  GroupOf[j] = GroupOf[k]
      BY DEF OwnGroup
    <2>1. PICK x \in Descs : dir'[a][j] = dir[x][j]
      BY <1>4
    <2>2. PICK y \in Descs : dir'[e][k] = dir[y][k]
      BY <1>4
    <2>3. dir[x][j] # None /\ dir[x][j] = dir[y][k]
      BY <2>1, <2>2
    <2> QED BY <1>2, <2>3 DEF OwnGroup
  <1>7. Referenced'
    <2> SUFFICES ASSUME NEW o \in Gpas, NEW i \in Idx
                 PROVE  /\ o \in used' => ref'[o][i] = Cardinality(Dirs(o, i)')
                        /\ o \notin used' => Dirs(o, i)' = {}
      BY DEF Referenced
    <2>1. CASE i \in F /\ dir[c][i] = o
      <3>1. o # None
        BY NoneIsNone DEF Gpas
      <3>2. Dirs(o, i) \in SUBSET Descs /\ d \in Descs \ Dirs(o, i) /\ c \in Dirs(o, i)
        BY <1>3, <2>1, <3>1 DEF Dirs
      <3>3. Dirs(o, i)' = Dirs(o, i) \cup {d}
        BY <1>4, <2>1 DEF Dirs
      <3>4. Cardinality(Dirs(o, i)') = Cardinality(Dirs(o, i)) + 1
        BY <3>2, <3>3, SetCounts
      <3>5. o \in used
        BY <1>2, <3>2 DEF Referenced
      <3> QED BY <1>2, <1>4, <2>1, <3>4, <3>5 DEF Referenced
    <2>2. CASE ~(i \in F /\ dir[c][i] = o)
      <3>1. \A e \in Descs : dir'[e][i] = o <=> dir[e][i] = o
        <4>1. o # None
          BY NoneIsNone DEF Gpas
        <4> QED BY <1>3, <1>4, <2>2, <4>1
      <3>2. Dirs(o, i)' = Dirs(o, i)
        BY <3>1 DEF Dirs
      <3> QED BY <1>2, <1>4, <2>2, <3>2 DEF Referenced
    <2> QED BY <2>1, <2>2
  <1> QED BY <1>5, <1>6, <1>7 DEF GroupsKept

-----------------------------------------------------------------------------
(* Where vmrs begin and end.                                               *)
Keeps(w) ==
    vmr'[w].st \in Placed =>
        /\ vmr[w].st \in Placed /\ vmr'[w].desc = vmr[w].desc
        /\ vmr'[w].lo = vmr[w].lo /\ vmr'[w].hi = vmr[w].hi
SharedKept == \A d \in Descs : desc[d].st # "unused" => (desc'[d].shared = desc[d].shared)

LEMMA AtKept ==
    ASSUME Frame, AtGroups, SharedKept, NEW S \in SUBSET Vmrs,
           \A w \in Vmrs \ S : Keeps(w), \A w \in S : AtVmr(w)'
    PROVE  AtGroups'
  <1> SUFFICES ASSUME NEW w \in Vmrs PROVE AtVmr(w)'
    BY DEF AtGroups
  <1>1. CASE w \in S
    BY <1>1
  <1>2. CASE w \notin S /\ vmr'[w].st \in Placed
    <2>1. /\ vmr[w].st \in Placed /\ vmr'[w].desc = vmr[w].desc
          /\ vmr'[w].lo = vmr[w].lo /\ vmr'[w].hi = vmr[w].hi
      BY <1>2 DEF Keeps
    <2>2. PICK d \in Descs : d = vmr[w].desc /\ desc[d].st # "unused"
      BY <2>1, LivePlace
    <2>3. desc'[d].shared = desc[d].shared
      BY <2>2 DEF SharedKept
    <2>4. AtVmr(w)
      BY DEF AtGroups
    <2>5. ~desc'[d].shared => ~desc[d].shared
      BY <2>3
    <2> QED BY <2>1, <2>2, <2>4, <2>5 DEF AtVmr, AtGroup
  <1>3. CASE vmr'[w].st \notin Placed
    BY <1>3 DEF AtVmr
  <1> QED BY <1>1, <1>2, <1>3

LEMMA KeepsSame == ASSUME NEW w, vmr'[w] = vmr[w] PROVE Keeps(w)
  BY DEF Keeps
LEMMA KeepsStays == ASSUME Types, NEW w \in Vmrs, Stays(w) PROVE Keeps(w)
  BY StaysFacts DEF Keeps
LEMMA KeepsOnward == ASSUME NEW w, Onward(w) PROVE Keeps(w)
  BY Phase DEF Keeps, Onward
LEMMA KeepsDead == ASSUME NEW w, vmr'[w] = Dead PROVE Keeps(w)
  BY DeadFields, Phase DEF Keeps

LEMMA SharedStays ==
    ASSUME NEW d \in Descs, OnlyDesc(d, desc'[d]), desc'[d].shared = desc[d].shared
    PROVE  SharedKept
  BY DEF SharedKept, OnlyDesc
LEMMA SharedMade ==
    ASSUME NEW d \in Descs, OnlyDesc(d, desc'[d]), desc[d].st = "unused"
    PROVE  SharedKept
  BY DEF SharedKept, OnlyDesc

-----------------------------------------------------------------------------
(* The steps that leave the directories alone.                             *)
SameDirs == UNCHANGED <<dir, used, ref>>

LEMMA SameGroups == ASSUME GroupsKept, SameDirs PROVE GroupsKept'
  <1>1. Whole' /\ OwnGroup'
    BY DEF SameDirs, GroupsKept, Whole, OwnGroup
  <1>2. \A x \in Gpas, j \in Idx : Dirs(x, j)' = Dirs(x, j)
    BY DEF SameDirs, Dirs
  <1>3. Referenced'
    BY <1>2 DEF SameDirs, GroupsKept, Referenced
  <1> QED BY <1>1, <1>3 DEF GroupsKept

LEMMA AllKeep ==
    ASSUME Frame, AtGroups, SharedKept, \A w \in Vmrs : Keeps(w)
    PROVE  AtGroups'
  <1>1. {} \in SUBSET Vmrs /\ \A w \in {} : AtVmr(w)'
    OBVIOUS
  <1> QED BY <1>1, AtKept

LEMMA CloserAt ==
    ASSUME Frame, AtGroups, NEW v \in Vmrs, Onward(v), OnlyVmr(v), SharedKept
    PROVE  AtGroups'
  <1>1. \A w \in Vmrs : Keeps(w)
    BY KeepsSame, KeepsOnward DEF OnlyVmr
  <1> QED BY <1>1, AllKeep

LEMMA SharedSame == ASSUME desc' = desc PROVE SharedKept
  BY DEF SharedKept

LEMMA CloseAt ==
    ASSUME Frame, AtGroups, GroupsKept, NEW v \in Vmrs, Close(v)
    PROVE  AtGroups' /\ GroupsKept'
  <1>1. ASSUME CloseEnter(v) PROVE AtGroups' /\ SameDirs
    <2>1. PICK d \in Descs : EnterEffect(v, d)
      BY <1>1, CloseEnterEffect
    <2>2. Onward(v) /\ OnlyVmr(v) /\ SharedKept /\ SameDirs
      BY <2>1, SharedStays DEF EnterEffect, SameDirs
    <2> QED BY <2>2, CloserAt
  <1>2. ASSUME CloseDropView(v) PROVE AtGroups' /\ SameDirs
    <2>1. PICK d \in Descs : DropViewEffect(v, d)
      BY <1>2, CloseDropViewEffect
    <2>2. Onward(v) /\ OnlyVmr(v) /\ SharedKept /\ SameDirs
      BY <2>1, SharedStays DEF DropViewEffect, SameDirs
    <2> QED BY <2>2, CloserAt
  <1>3. ASSUME CloseDropRef(v) PROVE AtGroups' /\ SameDirs
    <2>1. PICK d \in Descs : /\ UNCHANGED <<dir, used, ref>> /\ OnlyVmr(v) /\ Onward(v)
                             /\ OnlyDesc(d, desc'[d]) /\ desc'[d].shared = desc[d].shared
      BY <1>3, CloseDropRefEffect
    <2>2. SharedKept /\ SameDirs
      BY <2>1, SharedStays DEF SameDirs
    <2> QED BY <2>1, <2>2, CloserAt
  <1>4. ASSUME CloseQuery(v) PROVE AtGroups' /\ SameDirs
    <2>1. UNCHANGED <<desc, dir, used, ref>> /\ OnlyVmr(v) /\ Onward(v)
      BY <1>4, CloseQueryEffect
    <2>2. SharedKept /\ SameDirs
      BY <2>1, SharedSame DEF SameDirs
    <2> QED BY <2>1, <2>2, CloserAt
  <1>5. ASSUME ClosePut(v) PROVE AtGroups' /\ GroupsKept'
    <2>1. PICK d \in Descs, g \in Groups, o \in Gpas, put \in BOOLEAN : PutEffect(v, d, g, o, put)
      BY <1>5, ClosePutEffect
    <2>2. Onward(v) /\ OnlyVmr(v) /\ SharedKept
      BY <2>1, SharedSame DEF PutEffect
    <2>3. Types
      BY DEF Frame
    <2> QED BY <2>1, <2>2, <2>3, CloserAt, PutKeeps
  <1>6. ASSUME CloseClear(v) PROVE AtGroups' /\ SameDirs
    <2>1. PICK d \in Descs : ClearEffect(v, d)
      BY <1>6, CloseClearEffect
    <2>2. Onward(v) /\ OnlyVmr(v) /\ SharedKept /\ SameDirs
      BY <2>1, SharedStays DEF ClearEffect, SameDirs
    <2> QED BY <2>2, CloserAt
  <1>7. ASSUME CloseWake(v) PROVE AtGroups' /\ SameDirs
    <2>1. /\ UNCHANGED <<desc, dir, used, ref>> /\ vmr'[v] = Dead
          /\ \A w \in Vmrs \ {v} : \/ vmr'[w] = vmr[w]
                                   \/ /\ vmr[w].st = "asleep"
                                      /\ vmr'[w].desc = vmr[w].desc
                                      /\ vmr'[w].lo = vmr[w].lo /\ vmr'[w].hi = vmr[w].hi
      BY <1>7, CloseWakeEffect
    <2>2. SharedKept /\ SameDirs /\ "asleep" \in Placed
      BY <2>1, SharedSame DEF SameDirs, Placed, Busy
    <2>3. \A w \in Vmrs : Keeps(w)
      BY <2>1, <2>2, KeepsSame, KeepsDead DEF Keeps
    <2> QED BY <2>2, <2>3, AllKeep
  <1>8. ASSUME CloseLast(v) PROVE AtGroups' /\ SameDirs
    <2>1. PICK d \in Descs : /\ UNCHANGED <<dir, used, ref>> /\ OnlyVmr(v) /\ vmr'[v] = Dead
                             /\ OnlyDesc(d, desc'[d]) /\ desc'[d].shared = desc[d].shared
      BY <1>8, CloseLastEffect
    <2>2. SharedKept /\ SameDirs
      BY <2>1, SharedStays DEF SameDirs
    <2>3. \A w \in Vmrs : Keeps(w)
      BY <2>1, KeepsSame, KeepsDead DEF OnlyVmr
    <2> QED BY <2>2, <2>3, AllKeep
  <1> QED BY <1>1, <1>2, <1>3, <1>4, <1>5, <1>6, <1>7, <1>8, SameGroups DEF Close

LEMMA NewAt ==
    ASSUME Frame, AtGroups, SharedKept, NEW n \in Vmrs, \A w \in Vmrs \ {n} : Keeps(w), AtVmr(n)'
    PROVE  AtGroups'
  <1>1. {n} \in SUBSET Vmrs /\ \A w \in {n} : AtVmr(w)'
    OBVIOUS
  <1> QED BY <1>1, AtKept

(* A child views what its parent does.                                     *)
LEMMA ParentAt ==
    ASSUME Frame, AtGroups, NEW p \in Vmrs, vmr[p].st = "live", ~desc[vmr[p].desc].shared
    PROVE  vmr[p].st \in Placed /\ AtGroup(vmr[p].lo) /\ AtGroup(vmr[p].hi)
  BY Phase DEF AtGroups, AtVmr

LEMMA KidAt ==
    ASSUME Frame, AtGroups, NEW m \in Mms, NEW k \in Mms, NEW p \in Vmrs, NEW n \in Vmrs,
           NEW c \in Descs, NEW d \in Descs, KidEffect(m, k, p, n, c, d), SharedKept
    PROVE  /\ AtGroups' /\ c = vmr[p].desc
           /\ vmr[p].st \in Placed /\ AtGroup(vmr[p].lo) /\ AtGroup(vmr[p].hi)
  <1>1. /\ vmr[p].st = "live" /\ vmr[p].desc = c /\ OnlyVmr(n)
        /\ vmr'[n].lo = vmr[p].lo /\ vmr'[n].hi = vmr[p].hi
    BY DEF KidEffect, OpensFor, IsChild
  <1>2. ~desc[c].shared
    BY DEF KidEffect
  <1>3. vmr[p].st \in Placed /\ AtGroup(vmr[p].lo) /\ AtGroup(vmr[p].hi)
    BY <1>1, <1>2, ParentAt
  <1>4. AtVmr(n)'
    BY <1>1, <1>3 DEF AtVmr, AtGroup
  <1>5. \A w \in Vmrs \ {n} : Keeps(w)
    BY <1>1, KeepsSame DEF OnlyVmr
  <1> QED BY <1>1, <1>3, <1>4, <1>5, NewAt

LEMMA LockedAt ==
    ASSUME Frame, AtGroups, GroupsKept, NEW m \in Mms, Locked(m)
    PROVE  AtGroups' /\ GroupsKept'
  <1>1. ASSUME SplitViews(m) PROVE AtGroups' /\ SameDirs
    <2>1. PICK p \in Vmrs, d \in Descs, fails \in Outcomes : ViewsEffect(m, p, d, fails)
      BY <1>1, SplitViewsEffect
    <2>2. /\ Others({p}) /\ vmr[p].st = "live" /\ d = vmr[p].desc /\ vmr'[p].desc = d
          /\ vmr'[p].lo = vmr[p].lo /\ vmr'[p].hi = vmr[p].hi
      BY <2>1 DEF ViewsEffect
    <2>5. OnlyDesc(d, desc'[d]) /\ SameDirs
      BY <2>1 DEF ViewsEffect, SameDirs
    <2>6. desc'[d].shared = desc[d].shared
      BY <2>1 DEF ViewsEffect
    <2>7. Types
      BY DEF Frame
    <2>3. SharedKept
      BY <2>5, <2>6, SharedStays
    <2>4. \A w \in Vmrs : Keeps(w)
      BY <2>2, <2>7, KeepsStays, Phase DEF Others, Keeps
    <2> QED BY <2>3, <2>4, <2>5, AllKeep
  <1>2. ASSUME ForkSharedRef(m) PROVE AtGroups' /\ SameDirs
    <2>1. PICK k \in Mms, p \in Vmrs, n \in Vmrs, d \in Descs : JoinEffect(m, k, p, n, d)
      BY <1>2, ForkSharedRefEffect
    <2>2. /\ OnlyVmr(n) /\ OnlyDesc(d, desc'[d]) /\ SameDirs /\ vmr'[n].desc = d
      BY <2>1 DEF JoinEffect, IsChild, SameDirs
    <2>3. SharedKept /\ desc'[d].shared
      BY <2>1, <2>2, SharedStays DEF JoinEffect
    <2>4. AtVmr(n)'
      BY <2>2, <2>3 DEF AtVmr
    <2>5. \A w \in Vmrs \ {n} : Keeps(w)
      BY <2>2, KeepsSame DEF OnlyVmr
    <2> QED BY <2>2, <2>3, <2>4, <2>5, NewAt
  <1>3. ASSUME NEW v \in Vmrs, ForkSharedView(m, v) PROVE AtGroups' /\ SameDirs
    <2>1. PICK d \in Descs : JoinedEffect(m, v, d)
      BY <1>3, ForkSharedViewEffect
    <2>2. /\ OnlyVmr(v) /\ vmr[v].st = "joining" /\ d = vmr[v].desc /\ vmr'[v].desc = d
          /\ vmr'[v].lo = vmr[v].lo /\ vmr'[v].hi = vmr[v].hi
          /\ SameDirs /\ OnlyDesc(d, desc'[d])
      BY <2>1 DEF JoinedEffect, SameDirs
    <2>3. SharedKept
      BY <2>1, <2>2, SharedStays DEF JoinedEffect
    <2>4. \A w \in Vmrs : Keeps(w)
      BY <2>2, KeepsSame, Phase DEF OnlyVmr, Keeps
    <2> QED BY <2>2, <2>3, <2>4, AllKeep
  <1>4. ASSUME ForkSibling(m) PROVE AtGroups' /\ GroupsKept'
    <2>1. PICK k \in Mms, p \in Vmrs, n \in Vmrs, c \in Descs, d \in Descs, w \in Vmrs,
              fails \in Outcomes : SiblingEffect(m, k, p, n, c, d, w, fails)
      BY <1>4, ForkSiblingEffect
    <2>2. KidEffect(m, k, p, n, c, d) /\ DupEffect(p, c, d, TRUE) /\ TRUE \in BOOLEAN
      BY <2>1 DEF SiblingEffect
    <2>3. SharedKept
      BY <2>1, SharedStays DEF SiblingEffect, KidEffect
    <2>4. /\ AtGroups' /\ c = vmr[p].desc
          /\ vmr[p].st \in Placed /\ AtGroup(vmr[p].lo) /\ AtGroup(vmr[p].hi)
      BY <2>2, <2>3, KidAt
    <2> QED BY <2>2, <2>4, DupKeeps
  <1>5. ASSUME NEW wipe \in BOOLEAN, ForkPrivate(m, wipe) PROVE AtGroups' /\ GroupsKept'
    <2>1. PICK k \in Mms, p \in Vmrs, n \in Vmrs, c \in Descs, d \in Descs, fails \in Outcomes :
              PrivateEffect(m, k, p, n, c, d, wipe, fails)
      BY <1>5, ForkPrivateEffect
    <2>2. (~wipe) \in BOOLEAN
      OBVIOUS
    <2>3. KidEffect(m, k, p, n, c, d) /\ DupEffect(p, c, d, ~wipe)
      BY <2>1 DEF PrivateEffect
    <2>4. SharedKept
      BY <2>1, SharedMade DEF PrivateEffect, KidEffect
    <2>5. /\ AtGroups' /\ c = vmr[p].desc
          /\ vmr[p].st \in Placed /\ AtGroup(vmr[p].lo) /\ AtGroup(vmr[p].hi)
      BY <2>3, <2>4, KidAt
    <2> QED BY <2>2, <2>3, <2>5, DupKeeps
  <1>6. ASSUME ForkFails(m) PROVE AtGroups' /\ SameDirs
    <2>1. PICK shared \in BOOLEAN : Opens(m, shared)
      BY <1>6 DEF ForkFails
    <2>2. PICK n \in Vmrs : n = NextVmr
      BY <2>1, NextVmrUnused DEF Opens
    <2>3. vmr' = [vmr EXCEPT ![n] = Dead] /\ desc' = desc /\ SameDirs /\ vmr \in [Vmrs -> VmrRec]
      BY <1>6, <2>2 DEF ForkFails, dirVars, SameDirs, Frame, Types
    <2>4. \A w \in Vmrs : vmr'[w] = vmr[w] \/ vmr'[w] = Dead
      BY <2>3
    <2>5. \A w \in Vmrs : Keeps(w)
      BY <2>4, KeepsSame, KeepsDead
    <2> QED BY <2>3, <2>5, SharedSame, AllKeep
  <1>7. ASSUME ForkEnd(m) PROVE AtGroups' /\ SameDirs
    <2>1. UNCHANGED <<vmr, desc, dir, used, ref>>
      BY <1>7, ForkEndEffect
    <2>2. SharedKept /\ SameDirs /\ \A w \in Vmrs : Keeps(w)
      BY <2>1, SharedSame, KeepsSame DEF SameDirs
    <2> QED BY <2>2, AllKeep
  <1> QED BY <1>1, <1>2, <1>3, <1>4, <1>5, <1>6, <1>7, SameGroups DEF Locked

LEMMA SplitOpenAt ==
    ASSUME SplitsAtGroups, Frame, AtGroups, GroupsKept, NEW v \in Vmrs,
           NEW mid \in SharedSplits \cup PrivateSplits, NEW newIsFront \in BOOLEAN,
           SplitOpen(v, mid, newIsFront)
    PROVE  AtGroups' /\ GroupsKept'
  <1>1. PICK n \in Vmrs, m \in Mms, d \in Descs, o \in Gpas, b \in Idx,
             olo \in 0..NPages, ohi \in 0..NPages, nlo \in 0..NPages, nhi \in 0..NPages :
             SplitEffect(v, n, m, d, o, b, mid, olo, ohi, nlo, nhi)
    BY SplitEffects
  <1>2. /\ vmr[v].st = "live" /\ d = vmr[v].desc /\ Others({v, n})
        /\ mid \in Splits(d) /\ GetEffect(d, b, o)
        /\ \/ olo = vmr[v].lo /\ ohi = mid /\ nlo = mid /\ nhi = vmr[v].hi
           \/ nlo = vmr[v].lo /\ nhi = mid /\ olo = mid /\ ohi = vmr[v].hi
        /\ vmr'[v].desc = d /\ vmr'[v].lo = olo /\ vmr'[v].hi = ohi
        /\ vmr'[n].desc = d /\ vmr'[n].lo = nlo /\ vmr'[n].hi = nhi
        /\ OnlyDesc(d, desc'[d])
    BY <1>1 DEF SplitEffect
  <1>3. SharedKept /\ desc'[d].shared = desc[d].shared
    BY <1>1, <1>2, SharedStays DEF SplitEffect
  <1>4. ASSUME ~desc[d].shared
        PROVE  AtGroup(olo) /\ AtGroup(ohi) /\ AtGroup(nlo) /\ AtGroup(nhi)
    <2>1. AtGroup(vmr[v].lo) /\ AtGroup(vmr[v].hi)
      BY <1>2, <1>4, ParentAt
    <2>2. AtGroup(mid)
      BY <1>2, <1>4 DEF Splits, SplitsAtGroups, AtGroup
    <2> QED BY <1>2, <2>1, <2>2
  <1>5. desc'[d].shared \/ ~desc[d].shared
    BY <1>3
  <1>6. AtVmr(v)' /\ AtVmr(n)'
    BY <1>2, <1>4, <1>5 DEF AtVmr, AtGroup
  <1>7. \A w \in Vmrs \ {v, n} : Keeps(w)
    BY <1>2, KeepsStays DEF Others, Frame
  <1>8. AtGroups'
    <2>1. {v, n} \in SUBSET Vmrs /\ \A w \in {v, n} : AtVmr(w)'
      BY <1>6
    <2> QED BY <1>3, <1>7, <2>1, AtKept
  <1> QED BY <1>2, <1>8, GetKeeps DEF Frame

LEMMA RefInvInit == Init => AtGroups /\ GroupsKept
  <1> SUFFICES ASSUME Init PROVE AtGroups /\ GroupsKept
    OBVIOUS
  <1>1. /\ vmr = [v \in Vmrs |-> NewVmr] /\ dir = [d \in Descs |-> [i \in Idx |-> None]]
        /\ used = {}
    BY DEF Init
  <1>2. NewVmr.st = "unused"
    BY DEF NewVmr
  <1>3. AtGroups
    BY <1>1, <1>2, Phase DEF AtGroups, AtVmr
  <1>4. Whole /\ OwnGroup
    <2>1. \A d \in Descs, i \in Idx : dir[d][i] = None
      BY <1>1
    <2>2. Whole
      BY <2>1, SameGroup DEF Whole
    <2> QED BY <2>1, <2>2 DEF OwnGroup
  <1>5. Referenced
    <2>1. ASSUME NEW o \in Gpas, NEW i \in Idx PROVE Dirs(o, i) = {}
      <3>1. o # None
        BY NoneIsNone
      <3> QED BY <1>1, <3>1 DEF Dirs
    <2> QED BY <1>1, <2>1 DEF Referenced
  <1> QED BY <1>3, <1>4, <1>5 DEF GroupsKept

LEMMA RefInvStepped ==
    ASSUME SplitsAtGroups, Frame, AtGroups, GroupsKept, [Next]_vars
    PROVE  AtGroups' /\ GroupsKept'
  <1>1. ASSUME NEW shared \in Sharing, Mmap(shared) PROVE AtGroups' /\ SameDirs
    <2>1. shared \in BOOLEAN
      BY ViewsAssumption
    <2>2. PICK v \in Vmrs, m \in Mms, d \in Descs, fails \in Outcomes :
             MmapEffect(v, m, d, shared, fails)
      BY <1>1, <2>1, MmapEffects
    <2>3. /\ Unused = Vmrs /\ OnlyVmr(v) /\ vmr'[v].lo = 0 /\ vmr'[v].hi = NPages
      BY <2>2 DEF MmapEffect
    <2>4. SameDirs
      BY <2>2 DEF MmapEffect, SameDirs
    <2>5. ASSUME NEW w \in Vmrs PROVE AtVmr(w)'
      <3>1. CASE w = v
        BY <2>3, <3>1 DEF AtVmr, AtGroup
      <3>2. CASE w # v
        <4>1. vmr'[w].st = "unused"
          BY <2>3, <3>2 DEF OnlyVmr, Unused
        <4> QED BY <4>1, Phase DEF AtVmr
      <3> QED BY <3>1, <3>2
    <2> QED BY <2>4, <2>5 DEF AtGroups
  <1>2. ASSUME NEW v \in Vmrs, NEW i \in Idx, Fault(v, i) PROVE AtGroups' /\ GroupsKept'
    <2>1. PICK d \in Descs, o \in Gpas, mapped \in SUBSET Idx : FaultEffect(v, i, d, o, mapped)
      BY <1>2, FaultEffects
    <2>2. UNCHANGED <<vmr, desc>> /\ GetEffect(d, i, o) /\ Types
      BY <2>1 DEF FaultEffect, Frame
    <2>3. SharedKept /\ \A w \in Vmrs : Keeps(w)
      BY <2>2, SharedSame, KeepsSame
    <2> QED BY <2>2, <2>3, AllKeep, GetKeeps
  <1>3. ASSUME NEW v \in Vmrs, SplitFails(v) PROVE AtGroups' /\ SameDirs
    <2>1. PICK n \in Vmrs : AnnounceEffect(v, n)
      BY <1>3, SplitFailsEffect
    <2>2. /\ UNCHANGED <<desc, dir, used, ref>> /\ Others({v, n})
          /\ vmr[v].st = "live" /\ vmr'[v].desc = vmr[v].desc
          /\ vmr'[v].lo = vmr[v].lo /\ vmr'[v].hi = vmr[v].hi
          /\ vmr'[n].st = "pending"
      BY <2>1 DEF AnnounceEffect
    <2>3. Types
      BY DEF Frame
    <2>4. Keeps(v) /\ Keeps(n)
      BY <2>2, Phase DEF Keeps
    <2>5. \A w \in Vmrs : Keeps(w)
      BY <2>2, <2>3, <2>4, KeepsStays DEF Others
    <2>6. SharedKept /\ SameDirs
      BY <2>2, SharedSame DEF SameDirs
    <2> QED BY <2>5, <2>6, AllKeep
  <1>4. ASSUME NEW v \in Vmrs, CloseBegin(v) PROVE AtGroups' /\ SameDirs
    <2>1. /\ UNCHANGED <<desc, dir, used, ref>> /\ Others({v})
          /\ vmr[v].st = "live" /\ vmr'[v].desc = vmr[v].desc
          /\ vmr'[v].lo = vmr[v].lo /\ vmr'[v].hi = vmr[v].hi
      BY <1>4, CloseBeginEffect
    <2>2. Types
      BY DEF Frame
    <2>3. Keeps(v)
      BY <2>1, Phase DEF Keeps
    <2>4. \A w \in Vmrs : Keeps(w)
      BY <2>1, <2>2, <2>3, KeepsStays DEF Others
    <2>5. SharedKept /\ SameDirs
      BY <2>1, SharedSame DEF SameDirs
    <2> QED BY <2>4, <2>5, AllKeep
  <1>5. ASSUME NEW v \in Vmrs, Close(v) PROVE AtGroups' /\ GroupsKept'
    BY <1>5, CloseAt
  <1>6. ASSUME NEW v \in Vmrs, NEW mid \in SharedSplits \cup PrivateSplits,
               NEW newIsFront \in BOOLEAN, SplitOpen(v, mid, newIsFront)
        PROVE  AtGroups' /\ GroupsKept'
    BY <1>6, SplitOpenAt
  <1>7. ASSUME NEW m \in Mms, ForkBegin(m) PROVE AtGroups' /\ SameDirs
    <2>1. PICK k \in Mms : ForkBeginEffect(m, k)
      BY <1>7, ForkBeginEffects
    <2>2. UNCHANGED <<vmr, desc, dir, used, ref>>
      BY <2>1 DEF ForkBeginEffect
    <2>3. SharedKept /\ SameDirs /\ \A w \in Vmrs : Keeps(w)
      BY <2>2, SharedSame, KeepsSame DEF SameDirs
    <2> QED BY <2>3, AllKeep
  <1>8. ASSUME NEW m \in Mms, Locked(m) PROVE AtGroups' /\ GroupsKept'
    BY <1>8, LockedAt
  <1>9. ASSUME UNCHANGED vars PROVE AtGroups' /\ SameDirs
    <2>1. UNCHANGED <<vmr, desc, dir, used, ref>>
      BY <1>9 DEF vars
    <2>2. SharedKept /\ SameDirs /\ \A w \in Vmrs : Keeps(w)
      BY <2>1, SharedSame, KeepsSame DEF SameDirs
    <2> QED BY <2>2, AllKeep
  <1>10. ASSUME Next PROVE AtGroups' /\ GroupsKept'
    <2>1. ASSUME NEW v \in Vmrs, SplitFails(v) \/ CloseBegin(v) \/ Close(v)
          PROVE  AtGroups' /\ GroupsKept'
      BY <1>3, <1>4, <1>5, <2>1, SameGroups
    <2>2. ASSUME NEW m \in Mms, ForkBegin(m) \/ Locked(m) PROVE AtGroups' /\ GroupsKept'
      BY <1>7, <1>8, <2>2, SameGroups
    <2>3. ASSUME NEW shared \in Sharing, Mmap(shared) PROVE AtGroups' /\ GroupsKept'
      BY <1>1, <2>3, SameGroups
    <2> QED BY <1>2, <1>6, <1>10, <2>1, <2>2, <2>3 DEF Next
  <1> QED BY <1>9, <1>10, SameGroups

(* As long as private vmas are split at group boundaries: every directory  *)
(* has a group as a whole or not at all, two directories that share one    *)
(* have it in the same place, and its slots count the directories.         *)
THEOREM DirectoriesInductive == ASSUME SplitsAtGroups PROVE Spec => []RefInv
  <1>1. Init => RefInv
    BY FrameInit, RefInvInit DEF RefInv
  <1>2. RefInv /\ [Next]_vars => RefInv'
    BY FrameStepped, RefInvStepped DEF RefInv
  <1> QED BY <1>1, <1>2, PTL DEF Spec

LEMMA RefInvCounts == RefInv => RefcntIsDirs
  <1> SUFFICES ASSUME RefInv, NEW o \in Gpas, NEW i \in Idx
               PROVE  LET n == Cardinality({d \in Descs : dir[d][i] = o})
                      IN  IF o \in used THEN ref[o][i] = n ELSE n = 0
    BY DEF RefcntIsDirs
  <1>1. /\ o \in used => ref[o][i] = Cardinality(Dirs(o, i))
        /\ o \notin used => Dirs(o, i) = {}
    BY DEF RefInv, GroupsKept, Referenced
  <1>2. Cardinality({}) = 0
    BY SetCounts
  <1> QED BY <1>1, <1>2 DEF Dirs

(* As long as private vmas are split at group boundaries: gpa->refcnt of   *)
(* each slot is the number of directories the slot is in, through faults,  *)
(* forks that duplicate whole namespaces or parts of them, and closes that *)
(* release group by group; no directory names a group that was freed.      *)
THEOREM RefcntsCountDirs == ASSUME SplitsAtGroups PROVE Spec => []RefcntIsDirs
  <1>1. Spec => []RefInv
    BY DirectoriesInductive
  <1>2. RefInv => RefcntIsDirs
    BY RefInvCounts
  <1> QED BY <1>1, <1>2, PTL
-----------------------------------------------------------------------------
(* Views and references.  Between the two halves of a split the list has   *)
(* the interval as it was: the first vmr of the split stands for it, the   *)
(* second for nothing.                                                     *)
InViews(v) == vmr[v].mm \in Mms /\ mm[vmr[v].mm].op = "views"
First(v) == InViews(v) /\ mm[vmr[v].mm].prev = v
Second(v) == InViews(v) /\ vmr[mm[vmr[v].mm].prev].link = v
Claims(v, d, s, e) ==
    /\ vmr[v].st \in Viewing /\ vmr[v].desc = d /\ ~Second(v)
    /\ s = (IF First(v) THEN mm[vmr[v].mm].lo ELSE vmr[v].lo)
    /\ e = (IF First(v) THEN mm[vmr[v].mm].hi ELSE vmr[v].hi)
Claimants(d, s, e) == {v \in Vmrs : Claims(v, d, s, e)}
Matching ==
    \A d \in Descs : \A s, e \in 0..NPages :
        CountOf(desc[d].views, s, e) = Cardinality(Claimants(d, s, e))
Counted == \A d \in Descs : desc[d].refcount = Cardinality(Of(d, Holding))

HalvesOf(m, p, n) ==
    /\ n # p /\ vmr[n].st = "live" /\ vmr[n].mm = m /\ vmr[n].desc = vmr[p].desc
    /\ \/ /\ vmr[p].lo = mm[m].lo /\ vmr[p].hi = mm[m].mid
          /\ vmr[n].lo = mm[m].mid /\ vmr[n].hi = mm[m].hi
       \/ /\ vmr[n].lo = mm[m].lo /\ vmr[n].hi = mm[m].mid
          /\ vmr[p].lo = mm[m].mid /\ vmr[p].hi = mm[m].hi
HalvesAt(m) ==
    mm[m].op = "views" =>
        /\ vmr[mm[m].prev].link \in Vmrs
        /\ HalvesOf(m, mm[m].prev, vmr[mm[m].prev].link)
Halves == \A m \in Mms : HalvesAt(m)

(* A vmr that joins has the interval of a vmr its parent has yet to fork.  *)
ParentOf(v, m, p) ==
    /\ mm[m].op = "fork" /\ mm[m].kid = vmr[v].mm /\ p \in mm[m].todo
    /\ vmr[p].lo = vmr[v].lo /\ vmr[p].hi = vmr[v].hi /\ vmr[p].desc = vmr[v].desc
Joins(v) == vmr[v].st = "joining" => \E m \in Mms, p \in Vmrs : ParentOf(v, m, p)
OneJoins ==
    \A v, w \in Vmrs :
        vmr[v].st = "joining" /\ vmr[w].st = "joining" /\ vmr[v].mm = vmr[w].mm => v = w
Joining == (\A v \in Vmrs : Joins(v)) /\ OneJoins
Books == Halves /\ Joining /\ Matching /\ Counted

LEMMA VmrCounts ==
    ASSUME NEW S \in SUBSET Vmrs
    PROVE  /\ Cardinality(S) \in Nat /\ Cardinality(S) <= MaxVmr /\ (Cardinality(S) = 0 <=> S = {})
           /\ \A v \in Vmrs \ S : Cardinality(S \cup {v}) = Cardinality(S) + 1
           /\ \A v \in S : Cardinality(S \ {v}) = Cardinality(S) - 1
  <1>1. MaxVmr \in Nat
    BY Sizes
  <1>2. IsFiniteSet(Vmrs) /\ Cardinality(Vmrs) = MaxVmr
    BY <1>1, FS_Interval DEF Vmrs
  <1>3. IsFiniteSet(S) /\ Cardinality(S) <= MaxVmr
    BY <1>2, FS_Subset
  <1> QED BY <1>3, FS_CardinalityType, FS_EmptySet, FS_AddElement, FS_RemoveElement

(* A step that lets the vmrs in a split or a fork be, and those that join. *)
Still(m) == \A w \in Vmrs : vmr[w].st = "live" /\ vmr[w].mm = m => vmr'[w] = vmr[w]
CalmAt(m) ==
    \/ mm[m].op # "views" /\ mm'[m].op # "views"
    \/ mm'[m] = mm[m] /\ Still(m)
Calm == \A m \in Mms : CalmAt(m)
JoinsKept ==
    /\ \A m \in Mms : mm[m].op = "fork" => Still(m)
    /\ \A w \in Vmrs : vmr'[w].st = "joining" => vmr'[w] = vmr[w]
    /\ \A m \in Mms : mm[m].op = "fork" /\ mm'[m] # mm[m] =>
          \A w \in Vmrs : vmr[w].mm = mm[m].kid => vmr'[w].st # "joining"

LEMMA SplitRecs ==
    ASSUME Types, NEW m \in Mms, mm[m].op = "views"
    PROVE  /\ mm[m].prev \in Vmrs /\ mm[m].lo \in 0..NPages /\ mm[m].mid \in 0..NPages
           /\ mm[m].hi \in 0..NPages
  BY DEF Types, MmRec

LEMMA HalfKept ==
    ASSUME Frame, Halves, NEW m \in Mms, CalmAt(m)
    PROVE  HalvesAt(m)'
  <1> SUFFICES ASSUME mm'[m].op = "views" PROVE HalvesAt(m)'
    BY DEF HalvesAt
  <1>1. mm'[m] = mm[m] /\ mm[m].op = "views" /\ Still(m)
    BY DEF CalmAt
  <1>2. PICK p \in Vmrs : p = mm[m].prev
    BY <1>1, SplitRecs DEF Frame
  <1>3. vmr[p].st = "live" /\ vmr[p].mm = m
    BY <1>1, <1>2 DEF Frame, Splitting, SplitAt
  <1>4. PICK n \in Vmrs : n = vmr[p].link
    BY <1>1, <1>2 DEF Halves, HalvesAt
  <1>5. HalvesOf(m, p, n)
    BY <1>1, <1>2, <1>4 DEF Halves, HalvesAt
  <1>6. vmr'[p] = vmr[p] /\ vmr'[n] = vmr[n]
    BY <1>1, <1>3, <1>5 DEF Still, HalvesOf
  <1>7. HalvesOf(m, p, n)'
    BY <1>1, <1>5, <1>6 DEF HalvesOf
  <1> QED BY <1>1, <1>2, <1>4, <1>6, <1>7 DEF HalvesAt

LEMMA HalvesKept == ASSUME Frame, Halves, Calm PROVE Halves'
  BY HalfKept DEF Calm, Halves

LEMMA JoiningKept ==
    ASSUME Frame, Joining, JoinsKept
    PROVE  Joining'
  <1>1. ASSUME NEW v \in Vmrs PROVE Joins(v)'
    <2> SUFFICES ASSUME vmr'[v].st = "joining" PROVE \E m \in Mms, p \in Vmrs : ParentOf(v, m, p)'
      BY DEF Joins
    <2>1. vmr'[v] = vmr[v] /\ vmr[v].st = "joining"
      BY DEF JoinsKept
    <2>2. PICK m \in Mms, p \in Vmrs : ParentOf(v, m, p)
      BY <2>1 DEF Joining, Joins
    <2>3. mm'[m] = mm[m]
      BY <2>1, <2>2 DEF JoinsKept, ParentOf
    <2>4. vmr[p].st = "live" /\ vmr[p].mm = m /\ mm[m].op = "fork"
      BY <2>2 DEF Frame, Forks, ForkAt, ParentOf
    <2>5. vmr'[p] = vmr[p]
      BY <2>4 DEF JoinsKept, Still
    <2> QED BY <2>1, <2>2, <2>3, <2>5 DEF ParentOf
  <1>2. OneJoins'
    BY DEF Joining, OneJoins, JoinsKept
  <1> QED BY <1>1, <1>2 DEF Joining

(* A vmr that claims after a step what it claimed before it.               *)
SameView(w) ==
    /\ vmr'[w].st \in Viewing <=> vmr[w].st \in Viewing
    /\ vmr[w].st \in Viewing =>
          /\ vmr'[w].mm = vmr[w].mm /\ vmr'[w].desc = vmr[w].desc
          /\ vmr'[w].lo = vmr[w].lo /\ vmr'[w].hi = vmr[w].hi

LEMMA ClaimSame ==
    ASSUME Frame, NEW w \in Vmrs, vmr[w].mm \in Mms => CalmAt(vmr[w].mm), SameView(w),
           NEW d, NEW s, NEW e
    PROVE  Claims(w, d, s, e)' <=> Claims(w, d, s, e)
  <1>1. CASE vmr[w].st \notin Viewing
    BY <1>1 DEF SameView, Claims
  <1>2. CASE vmr[w].st \in Viewing
    <2>1. PICK m \in Mms : m = vmr[w].mm
      BY <1>2, Phase DEF Frame, Places, Place
    <2>2. vmr'[w].mm = m /\ vmr'[w].desc = vmr[w].desc /\ vmr'[w].lo = vmr[w].lo /\ vmr'[w].hi = vmr[w].hi
          /\ vmr'[w].st \in Viewing
      BY <1>2, <2>1 DEF SameView
    <2>3. CASE mm[m].op # "views" /\ mm'[m].op # "views"
      BY <1>2, <2>1, <2>2, <2>3 DEF Claims, First, Second, InViews
    <2>4. CASE mm'[m] = mm[m] /\ mm[m].op = "views" /\ Still(m)
      <3>1. PICK p \in Vmrs : p = mm[m].prev
        BY <2>4, SplitRecs DEF Frame
      <3>2. vmr[p].st = "live" /\ vmr[p].mm = m
        BY <2>4, <3>1 DEF Frame, Splitting, SplitAt
      <3>3. vmr'[p] = vmr[p]
        BY <3>2, <2>4 DEF Still
      <3>4. First(w)' <=> First(w)
        BY <2>1, <2>2, <2>4 DEF First, InViews
      <3>5. Second(w)' <=> Second(w)
        BY <2>1, <2>2, <2>4, <3>1, <3>3 DEF Second, InViews
      <3> QED BY <1>2, <2>1, <2>2, <2>4, <3>4, <3>5 DEF Claims
    <2> QED BY <2>1, <2>3, <2>4 DEF CalmAt
  <1> QED BY <1>1, <1>2

LEMMA ClaimsSame ==
    ASSUME Frame, Calm, NEW w \in Vmrs, SameView(w), NEW d, NEW s, NEW e
    PROVE  Claims(w, d, s, e)' <=> Claims(w, d, s, e)
  BY ClaimSame DEF Calm

LEMMA NoClaim ==
    ASSUME NEW w, vmr[w].st \notin Viewing, NEW d, NEW s, NEW e
    PROVE  ~Claims(w, d, s, e)
  BY DEF Claims

(* One vmr takes a claim, gives it up, or nothing changes.                 *)
LEMMA MatchStill ==
    ASSUME Matching, \A w \in Vmrs : \A d, s, e : Claims(w, d, s, e)' <=> Claims(w, d, s, e),
           \A d \in Descs : desc'[d].views = desc[d].views
    PROVE  Matching'
  <1> SUFFICES ASSUME NEW d \in Descs, NEW s \in 0..NPages, NEW e \in 0..NPages
               PROVE  CountOf(desc'[d].views, s, e) = Cardinality(Claimants(d, s, e)')
    BY DEF Matching
  <1>1. Claimants(d, s, e)' = Claimants(d, s, e)
    BY DEF Claimants
  <1> QED BY <1>1 DEF Matching

LEMMA MatchSame ==
    ASSUME Frame, Matching, Calm, \A w \in Vmrs : SameView(w),
           \A d \in Descs : desc'[d].views = desc[d].views
    PROVE  Matching'
  <1>1. \A w \in Vmrs : \A d, s, e : Claims(w, d, s, e)' <=> Claims(w, d, s, e)
    BY ClaimsSame
  <1> QED BY <1>1, MatchStill

(* The counts of a vmdesc in which one vmr more has a view.                *)
Gains(views, d, lo, hi) ==
    \A s, e \in 0..NPages :
        CountOf(views, s, e) =
            Cardinality(Claimants(d, s, e)) + (IF s = lo /\ e = hi THEN 1 ELSE 0)

LEMMA MatchGain ==
    ASSUME Frame, Matching, Calm, NEW n \in Vmrs, NEW d \in Descs, NEW lo, NEW hi,
           \A w \in Vmrs \ {n} : SameView(w), vmr[n].st \notin Viewing,
           \A x, s, e : Claims(n, x, s, e)' <=> (x = d /\ s = lo /\ e = hi),
           OnlyDesc(d, desc'[d]), Gains(desc'[d].views, d, lo, hi)
    PROVE  Matching'
  <1> SUFFICES ASSUME NEW x \in Descs, NEW s \in 0..NPages, NEW e \in 0..NPages
               PROVE  CountOf(desc'[x].views, s, e) = Cardinality(Claimants(x, s, e)')
    BY DEF Matching
  <1>1. \A w \in Vmrs \ {n} : Claims(w, x, s, e)' <=> Claims(w, x, s, e)
    BY ClaimsSame
  <1>2. n \notin Claimants(x, s, e)
    BY NoClaim DEF Claimants
  <1>3. CASE x = d /\ s = lo /\ e = hi
    <2>1. Claimants(x, s, e)' = Claimants(x, s, e) \cup {n}
      BY <1>1, <1>3 DEF Claimants
    <2>2. Cardinality(Claimants(x, s, e) \cup {n}) = Cardinality(Claimants(x, s, e)) + 1
      <3>1. Claimants(x, s, e) \in SUBSET Vmrs
        BY DEF Claimants
      <3> QED BY <1>2, <3>1, VmrCounts
    <2> QED BY <1>3, <2>1, <2>2 DEF Gains
  <1>4. CASE ~(x = d /\ s = lo /\ e = hi)
    <2>1. Claimants(x, s, e)' = Claimants(x, s, e)
      <3>1. ~Claims(n, x, s, e)' /\ ~Claims(n, x, s, e)
        BY <1>2, <1>4 DEF Claimants
      <3> QED BY <1>1, <3>1 DEF Claimants
    <2>2. Cardinality(Claimants(x, s, e)) \in Nat
      <3>1. Claimants(x, s, e) \in SUBSET Vmrs
        BY DEF Claimants
      <3> QED BY <3>1, VmrCounts
    <2>3. CASE x = d
      <3>1. CountOf(desc'[d].views, s, e) = Cardinality(Claimants(d, s, e))
        BY <1>4, <2>2, <2>3 DEF Gains
      <3> QED BY <2>1, <2>3, <3>1
    <2>4. CASE x # d
      BY <2>1, <2>4 DEF Matching, OnlyDesc
    <2> QED BY <2>3, <2>4
  <1> QED BY <1>3, <1>4

LEMMA MatchLoss ==
    ASSUME Frame, Matching, Calm, NEW n \in Vmrs, NEW d \in Descs, NEW lo \in 0..NPages,
           NEW hi \in 0..NPages,
           \A w \in Vmrs \ {n} : SameView(w), vmr'[n].st \notin Viewing,
           \A x, s, e : Claims(n, x, s, e) <=> (x = d /\ s = lo /\ e = hi),
           OnlyDesc(d, desc'[d]), desc'[d].views = view_del(desc[d].views, lo, hi)
    PROVE  Matching'
  <1> SUFFICES ASSUME NEW x \in Descs, NEW s \in 0..NPages, NEW e \in 0..NPages
               PROVE  CountOf(desc'[x].views, s, e) = Cardinality(Claimants(x, s, e)')
    BY DEF Matching
  <1>1. \A w \in Vmrs \ {n} : Claims(w, x, s, e)' <=> Claims(w, x, s, e)
    BY ClaimsSame
  <1>2. n \notin Claimants(x, s, e)'
    BY DEF Claimants, Claims
  <1>3. Claimants(x, s, e) \in SUBSET Vmrs
    BY DEF Claimants
  <1>4. CountOf(desc[x].views, s, e) = Cardinality(Claimants(x, s, e))
    BY DEF Matching
  <1>5. Listed(desc[d].views)
    BY DEF Frame, Lists
  <1>6. CASE x = d /\ s = lo /\ e = hi
    <2>1. n \in Claimants(x, s, e) /\ Claimants(x, s, e)' = Claimants(x, s, e) \ {n}
      BY <1>1, <1>2, <1>6 DEF Claimants
    <2>2. Cardinality(Claimants(x, s, e) \ {n}) = Cardinality(Claimants(x, s, e)) - 1
          /\ Cardinality(Claimants(x, s, e)) \in Nat /\ Cardinality(Claimants(x, s, e)) # 0
      BY <1>3, <2>1, VmrCounts
    <2>3. CountOf(desc[d].views, s, e) > 0
      BY <1>4, <1>6, <2>2
    <2>4. CountOf(desc'[d].views, s, e) = CountOf(desc[d].views, s, e) - 1
      BY <1>5, <1>6, <2>3, DelView
    <2> QED BY <1>4, <1>6, <2>1, <2>2, <2>4
  <1>7. CASE ~(x = d /\ s = lo /\ e = hi)
    <2>1. Claimants(x, s, e)' = Claimants(x, s, e)
      <3>1. ~Claims(n, x, s, e)' /\ ~Claims(n, x, s, e)
        BY <1>2, <1>7 DEF Claimants
      <3> QED BY <1>1, <3>1 DEF Claimants
    <2>2. CASE x = d
      <3>1. CountOf(desc'[d].views, s, e) = CountOf(desc[d].views, s, e)
        BY <1>5, <1>7, <2>2, DelView
      <3> QED BY <1>4, <2>1, <2>2, <3>1
    <2>3. CASE x # d
      BY <1>4, <2>1, <2>3 DEF OnlyDesc
    <2> QED BY <2>2, <2>3
  <1> QED BY <1>6, <1>7

(* References: a vmr takes one, gives it up, or nothing changes.           *)
SameHold(w) ==
    /\ vmr'[w].st \in Holding <=> vmr[w].st \in Holding
    /\ vmr[w].st \in Holding => vmr'[w].desc = vmr[w].desc

LEMMA CountSame ==
    ASSUME Counted, \A w \in Vmrs : SameHold(w),
           \A d \in Descs : desc'[d].refcount = desc[d].refcount
    PROVE  Counted'
  <1> SUFFICES ASSUME NEW d \in Descs
               PROVE  desc'[d].refcount = Cardinality(Of(d, Holding)')
    BY DEF Counted
  <1>1. Of(d, Holding)' = Of(d, Holding)
    BY DEF Of, SameHold
  <1> QED BY <1>1 DEF Counted

LEMMA CountGain ==
    ASSUME Counted, NEW n \in Vmrs, NEW d \in Descs,
           \A w \in Vmrs \ {n} : SameHold(w),
           vmr[n].st \notin Holding, vmr'[n].st \in Holding, vmr'[n].desc = d,
           OnlyDesc(d, desc'[d]), desc'[d].refcount = Cardinality(Of(d, Holding)) + 1
    PROVE  Counted'
  <1> SUFFICES ASSUME NEW x \in Descs
               PROVE  desc'[x].refcount = Cardinality(Of(x, Holding)')
    BY DEF Counted
  <1>1. CASE x = d
    <2>1. Of(d, Holding)' = Of(d, Holding) \cup {n} /\ n \notin Of(d, Holding)
      BY DEF Of, SameHold
    <2>2. Of(d, Holding) \in SUBSET Vmrs
      BY DEF Of
    <2> QED BY <1>1, <2>1, <2>2, VmrCounts
  <1>2. CASE x # d
    <2>1. Of(x, Holding)' = Of(x, Holding)
      BY <1>2 DEF Of, SameHold
    <2> QED BY <1>2, <2>1 DEF Counted, OnlyDesc
  <1> QED BY <1>1, <1>2

LEMMA CountLoss ==
    ASSUME Counted, NEW n \in Vmrs, NEW d \in Descs,
           \A w \in Vmrs \ {n} : SameHold(w),
           vmr[n].st \in Holding, vmr'[n].st \notin Holding, vmr[n].desc = d,
           OnlyDesc(d, desc'[d]), desc'[d].refcount = desc[d].refcount - 1
    PROVE  Counted'
  <1> SUFFICES ASSUME NEW x \in Descs
               PROVE  desc'[x].refcount = Cardinality(Of(x, Holding)')
    BY DEF Counted
  <1>1. CASE x = d
    <2>1. Of(d, Holding)' = Of(d, Holding) \ {n} /\ n \in Of(d, Holding)
      BY DEF Of, SameHold
    <2>2. Of(d, Holding) \in SUBSET Vmrs
      BY DEF Of
    <2> QED BY <1>1, <2>1, <2>2, VmrCounts DEF Counted
  <1>2. CASE x # d
    <2>1. Of(x, Holding)' = Of(x, Holding)
      BY <1>2 DEF Of, SameHold
    <2> QED BY <1>2, <2>1 DEF Counted, OnlyDesc
  <1> QED BY <1>1, <1>2

-----------------------------------------------------------------------------
(* The books through the steps of a close.                                 *)
LEMMA PhaseSets ==
    /\ {"live", "enter", "asleep", "own"} \subseteq Viewing
    /\ {"live", "enter", "asleep", "own", "joining", "dropped"} \subseteq Holding
    /\ {"joining", "dropped", "walk", "put", "wake", "dead", "unused", "pending"} \cap Viewing = {}
    /\ {"walk", "put", "wake", "dead", "unused", "pending"} \cap Holding = {}
    /\ "live" \notin Busy /\ "joining" \notin Busy
    /\ {"enter", "asleep", "own", "dropped", "walk", "put", "wake"} \subseteq Busy
  BY DEF Viewing, Holding, Busy

LEMMA CloserCalm ==
    ASSUME Frame, NEW v \in Vmrs, Onward(v), OnlyVmr(v), mm' = mm
    PROVE  /\ Calm /\ JoinsKept
           /\ \A w \in Vmrs \ {v} : SameView(w) /\ SameHold(w)
  <1>1. vmr[v].st # "live" /\ vmr'[v].st # "joining"
    BY PhaseSets DEF Onward
  <1> QED BY <1>1 DEF OnlyVmr, Calm, CalmAt, Still, JoinsKept, SameView, SameHold

LEMMA BooksSame ==
    ASSUME Frame, Books, Calm, JoinsKept, \A w \in Vmrs : SameView(w) /\ SameHold(w),
           \A d \in Descs : desc'[d].views = desc[d].views /\ desc'[d].refcount = desc[d].refcount
    PROVE  Books'
  <1>1. Halves' /\ Joining'
    BY HalvesKept, JoiningKept DEF Books
  <1>2. Matching' /\ Counted'
    BY MatchSame, CountSame DEF Books
  <1> QED BY <1>1, <1>2 DEF Books

(* Steps of a close that neither touch a view nor a reference.             *)
LEMMA CloserBooks ==
    ASSUME Frame, Books, NEW v \in Vmrs, Onward(v), OnlyVmr(v), mm' = mm,
           \/ {vmr[v].st, vmr'[v].st} \subseteq {"enter", "asleep", "own"}
           \/ {vmr[v].st, vmr'[v].st} \subseteq {"walk", "put", "wake"},
           \A d \in Descs : desc'[d].views = desc[d].views /\ desc'[d].refcount = desc[d].refcount
    PROVE  Books'
  <1>1. SameView(v) /\ SameHold(v)
    BY PhaseSets DEF SameView, SameHold, Onward
  <1> QED BY <1>1, CloserCalm, BooksSame

LEMMA OnlyDescBooks ==
    ASSUME NEW d \in Descs, OnlyDesc(d, desc'[d]), desc'[d].views = desc[d].views,
           desc'[d].refcount = desc[d].refcount
    PROVE  \A x \in Descs : desc'[x].views = desc[x].views /\ desc'[x].refcount = desc[x].refcount
  BY DEF OnlyDesc

LEMMA CloserClaims ==
    ASSUME Frame, NEW v \in Vmrs, vmr[v].st \in Busy \cap Viewing
    PROVE  \A x, s, e : Claims(v, x, s, e) <=> (x = vmr[v].desc /\ s = vmr[v].lo /\ e = vmr[v].hi)
  <1>1. mm[vmr[v].mm].op = "close"
    BY Phase DEF Frame, Places, Place
  <1> QED BY <1>1 DEF Claims, First, Second, InViews

LEMMA DropViewBooks ==
    ASSUME Frame, Books, NEW v \in Vmrs, NEW d \in Descs, DropViewEffect(v, d)
    PROVE  Books'
  <1>1. /\ Onward(v) /\ OnlyVmr(v) /\ mm' = mm /\ d = vmr[v].desc /\ OnlyDesc(d, desc'[d])
        /\ vmr[v].st = "own" /\ vmr'[v].st = "dropped"
        /\ desc'[d].views = view_del(desc[d].views, vmr[v].lo, vmr[v].hi)
        /\ desc'[d].refcount = desc[d].refcount
    BY DEF DropViewEffect
  <1>2. Calm /\ JoinsKept /\ \A w \in Vmrs \ {v} : SameView(w) /\ SameHold(w)
    BY <1>1, CloserCalm
  <1>3. SameHold(v)
    BY <1>1, PhaseSets DEF SameHold, Onward
  <1>4. Halves' /\ Joining'
    BY <1>2, HalvesKept, JoiningKept DEF Books
  <1>5. Counted'
    BY <1>1, <1>2, <1>3, CountSame DEF Books, OnlyDesc
  <1>6. vmr[v].lo \in 0..NPages /\ vmr[v].hi \in 0..NPages /\ vmr[v].st \in Busy \cap Viewing
        /\ vmr'[v].st \notin Viewing
    BY <1>1, PhaseSets, BusyPlace
  <1>7. \A x, s, e : Claims(v, x, s, e) <=> (x = d /\ s = vmr[v].lo /\ e = vmr[v].hi)
    BY <1>1, <1>6, CloserClaims
  <1>8. Matching'
    BY <1>1, <1>2, <1>6, <1>7, MatchLoss DEF Books
  <1> QED BY <1>4, <1>5, <1>8 DEF Books

LEMMA CloseDropViewBooks ==
    ASSUME Frame, Books, NEW v \in Vmrs, CloseDropView(v)
    PROVE  Books'
  BY CloseDropViewEffect, DropViewBooks

LEMMA CloseDropRefBooks ==
    ASSUME Frame, Books, NEW v \in Vmrs, CloseDropRef(v)
    PROVE  Books'
  <1>1. PICK d \in Descs : d = vmr[v].desc
    BY CloseDropRefEffect
  <1>2. /\ Onward(v) /\ OnlyVmr(v) /\ mm' = mm /\ OnlyDesc(d, desc'[d])
        /\ vmr[v].st = "dropped" /\ vmr'[v].st = "walk"
        /\ desc'[d].views = desc[d].views /\ desc'[d].refcount = desc[d].refcount - 1
    BY <1>1, CloseDropRefEffect
  <1>3. Calm /\ JoinsKept /\ \A w \in Vmrs \ {v} : SameView(w) /\ SameHold(w)
    BY <1>2, CloserCalm
  <1>4. SameView(v)
    BY <1>2, PhaseSets DEF SameView
  <1>5. Halves' /\ Joining'
    BY <1>3, HalvesKept, JoiningKept DEF Books
  <1>6. Matching'
    BY <1>2, <1>3, <1>4, MatchSame DEF Books, OnlyDesc
  <1>7. vmr[v].st \in Holding /\ vmr'[v].st \notin Holding
    BY <1>2, PhaseSets
  <1>8. Counted'
    BY <1>1, <1>2, <1>3, <1>7, CountLoss DEF Books
  <1> QED BY <1>5, <1>6, <1>8 DEF Books

LEMMA EndsCalm ==
    ASSUME Frame, NEW v \in Vmrs, vmr[v].st \in {"walk", "wake"}, mm' = Ended(v), vmr'[v] = Dead,
           \A w \in Vmrs \ {v} :
               \/ vmr'[w] = vmr[w]
               \/ /\ vmr[w].st = "asleep" /\ vmr'[w].st = "enter"
                  /\ vmr'[w].mm = vmr[w].mm /\ vmr'[w].desc = vmr[w].desc
                  /\ vmr'[w].lo = vmr[w].lo /\ vmr'[w].hi = vmr[w].hi
    PROVE  Calm /\ JoinsKept /\ \A w \in Vmrs : SameView(w) /\ SameHold(w)
  <1>1. PICK k \in Mms : k = vmr[v].mm /\ mm[k].op = "close"
    BY PhaseSets, Phase DEF Frame, Places, Place
  <1>2. mm' = [mm EXCEPT ![k] = Idle]
    BY <1>1 DEF Ended
  <1>3. \A m \in Mms : mm'[m] = mm[m] \/ (m = k /\ mm'[m] = Idle)
    BY <1>2 DEF Frame, Types
  <1>4. Calm
    BY <1>1, <1>3, IdleRec DEF Calm, CalmAt, Still
  <1>5. JoinsKept
    BY <1>1, <1>3, DeadFields DEF JoinsKept, Still
  <1>6. \A w \in Vmrs : SameView(w) /\ SameHold(w)
    <2>1. SameView(v) /\ SameHold(v)
      BY PhaseSets, DeadFields DEF SameView, SameHold
    <2>2. ASSUME NEW w \in Vmrs \ {v} PROVE SameView(w) /\ SameHold(w)
      BY PhaseSets DEF SameView, SameHold
    <2> QED BY <2>1, <2>2
  <1> QED BY <1>4, <1>5, <1>6

LEMMA CloseBooks ==
    ASSUME Frame, Books, NEW v \in Vmrs, Close(v)
    PROVE  Books'
  <1>1. CASE CloseEnter(v)
    <2>1. PICK d \in Descs : EnterEffect(v, d)
      BY <1>1, CloseEnterEffect
    <2>2. /\ Onward(v) /\ OnlyVmr(v) /\ mm' = mm
          /\ {vmr[v].st, vmr'[v].st} \subseteq {"enter", "asleep", "own"}
          /\ \A x \in Descs : desc'[x].views = desc[x].views /\ desc'[x].refcount = desc[x].refcount
      BY <2>1, OnlyDescBooks DEF EnterEffect
    <2> QED BY <2>2, CloserBooks
  <1>2. CASE CloseDropView(v)
    BY <1>2, CloseDropViewBooks
  <1>3. CASE CloseDropRef(v)
    BY <1>3, CloseDropRefBooks
  <1>4. CASE CloseQuery(v)
    <2>1. /\ Onward(v) /\ OnlyVmr(v) /\ mm' = mm /\ desc' = desc
          /\ {vmr[v].st, vmr'[v].st} \subseteq {"walk", "put", "wake"}
      BY <1>4, CloseQueryEffect
    <2> QED BY <2>1, CloserBooks
  <1>5. CASE ClosePut(v)
    <2>1. PICK d \in Descs, g \in Groups, o \in Gpas, put \in BOOLEAN : PutEffect(v, d, g, o, put)
      BY <1>5, ClosePutEffect
    <2>2. /\ Onward(v) /\ OnlyVmr(v) /\ mm' = mm /\ desc' = desc
          /\ {vmr[v].st, vmr'[v].st} \subseteq {"walk", "put", "wake"}
      BY <2>1 DEF PutEffect
    <2> QED BY <2>2, CloserBooks
  <1>6. CASE CloseClear(v)
    <2>1. PICK d \in Descs : ClearEffect(v, d)
      BY <1>6, CloseClearEffect
    <2>2. /\ Onward(v) /\ OnlyVmr(v) /\ mm' = mm
          /\ {vmr[v].st, vmr'[v].st} \subseteq {"walk", "put", "wake"}
          /\ \A x \in Descs : desc'[x].views = desc[x].views /\ desc'[x].refcount = desc[x].refcount
      BY <2>1, OnlyDescBooks DEF ClearEffect
    <2> QED BY <2>2, CloserBooks
  <1>7. CASE CloseWake(v)
    <2>1. /\ desc' = desc
          /\ Calm /\ JoinsKept /\ \A w \in Vmrs : SameView(w) /\ SameHold(w)
      BY <1>7, CloseWakeEffect, EndsCalm
    <2> QED BY <2>1, BooksSame
  <1>8. CASE CloseLast(v)
    <2>1. PICK d \in Descs : d = vmr[v].desc
      BY <1>8, CloseLastEffect
    <2>2. /\ OnlyDesc(d, desc'[d]) /\ desc'[d].views = desc[d].views
          /\ desc'[d].refcount = desc[d].refcount
          /\ vmr[v].st = "walk" /\ mm' = Ended(v) /\ vmr'[v] = Dead /\ OnlyVmr(v)
      BY <1>8, <2>1, CloseLastEffect
    <2>3. Calm /\ JoinsKept /\ \A w \in Vmrs : SameView(w) /\ SameHold(w)
      BY <2>2, EndsCalm DEF OnlyVmr
    <2> QED BY <2>2, <2>3, OnlyDescBooks, BooksSame
  <1> QED BY <1>1, <1>2, <1>3, <1>4, <1>5, <1>6, <1>7, <1>8 DEF Close

-----------------------------------------------------------------------------
(* The books through a fault, a split and the begin of a close.            *)
LEMMA StaysSame ==
    ASSUME Types, NEW w \in Vmrs, Stays(w)
    PROVE  /\ SameView(w) /\ SameHold(w)
           /\ vmr'[w].st = "joining" => vmr'[w] = vmr[w]
           /\ vmr[w].st = "live" => vmr'[w] = vmr[w]
           /\ vmr'[w].mm # vmr[w].mm => vmr'[w] = Dead
  <1>1. CASE vmr'[w] = vmr[w]
    BY <1>1 DEF SameView, SameHold
  <1>2. CASE vmr'[w] = Dead /\ vmr[w].st = "pending"
    BY <1>2, DeadFields, PhaseSets DEF SameView, SameHold
  <1> QED BY <1>1, <1>2 DEF Stays

LEMMA UnchangedBooks ==
    ASSUME Frame, Books, UNCHANGED <<vmr, mm, desc>>
    PROVE  Books'
  <1>1. Calm /\ JoinsKept /\ \A w \in Vmrs : SameView(w) /\ SameHold(w)
    BY DEF Calm, CalmAt, Still, JoinsKept, SameView, SameHold
  <1> QED BY <1>1, BooksSame

LEMMA CloseBeginBooks ==
    ASSUME Frame, Books, NEW v \in Vmrs, CloseBegin(v)
    PROVE  Books'
  <1>1. PICK m \in Mms : m = vmr[v].mm
    BY CloseBeginEffect
  <1>2. /\ desc' = desc /\ vmr[v].st = "live" /\ mm[m].op = "idle" /\ Others({v})
        /\ vmr'[v].st = "enter" /\ vmr'[v].mm = m /\ vmr'[v].desc = vmr[v].desc
        /\ vmr'[v].lo = vmr[v].lo /\ vmr'[v].hi = vmr[v].hi
        /\ mm'[m].op = "close" /\ \A k \in Mms \ {m} : mm'[k] = mm[k]
    BY <1>1, CloseBeginEffect, IdleRec
  <1>3. \A w \in Vmrs \ {v} : /\ SameView(w) /\ SameHold(w)
                              /\ vmr'[w].st = "joining" => vmr'[w] = vmr[w]
                              /\ vmr[w].st = "live" => vmr'[w] = vmr[w]
    BY <1>2, StaysSame DEF Others, Frame
  <1>4. \A k \in Mms \ {m} : Still(k)
    BY <1>1, <1>3 DEF Still
  <1>5. Calm
    BY <1>2, <1>4 DEF Calm, CalmAt
  <1>6. JoinsKept
    BY <1>2, <1>3, <1>4 DEF JoinsKept
  <1>7. SameView(v) /\ SameHold(v)
    BY <1>1, <1>2, PhaseSets DEF SameView, SameHold
  <1> QED BY <1>2, <1>3, <1>5, <1>6, <1>7, BooksSame

LEMMA SplitFailsBooks ==
    ASSUME Frame, Books, NEW p \in Vmrs, SplitFails(p)
    PROVE  Books'
  <1>1. PICK n \in Vmrs : AnnounceEffect(p, n)
    BY SplitFailsEffect
  <1>2. vmr[p].st = "live" /\ mm[vmr[p].mm].op = "idle" /\ vmr[n].st = "unused" /\ mm' = mm /\ desc' = desc
    BY <1>1, IdleRec DEF AnnounceEffect, SplitFails
  <1>3. \A w \in Vmrs \ {p, n} : /\ SameView(w) /\ SameHold(w)
                                 /\ vmr'[w].st = "joining" => vmr'[w] = vmr[w]
                                 /\ vmr[w].st = "live" => vmr'[w] = vmr[w]
    BY <1>1, StaysSame DEF AnnounceEffect, Others, Frame
  <1>4. \A k \in Mms : mm[k].op # "idle" => Still(k)
    BY <1>2, <1>3 DEF Still
  <1>5. Calm
    BY <1>2, <1>4 DEF Calm, CalmAt
  <1>6. vmr'[p].st = "live" /\ vmr'[n].st = "pending"
    BY <1>1 DEF AnnounceEffect
  <1>7. JoinsKept
    BY <1>2, <1>3, <1>4, <1>6 DEF JoinsKept
  <1>8. SameView(p) /\ SameHold(p) /\ SameView(n) /\ SameHold(n)
    BY <1>1, PhaseSets DEF SameView, SameHold, AnnounceEffect
  <1>9. \A w \in Vmrs : SameView(w) /\ SameHold(w)
    BY <1>3, <1>8
  <1> QED BY <1>2, <1>5, <1>7, <1>9, BooksSame

LEMMA SplitOpenBooks ==
    ASSUME Frame, Books, NEW p \in Vmrs, NEW mid \in SharedSplits \cup PrivateSplits,
           NEW newIsFront \in BOOLEAN, SplitOpen(p, mid, newIsFront)
    PROVE  Books'
  <1>1. PICK n \in Vmrs, m \in Mms, d \in Descs, o \in Gpas, b \in Idx,
             olo \in 0..NPages, ohi \in 0..NPages, nlo \in 0..NPages, nhi \in 0..NPages :
             SplitEffect(p, n, m, d, o, b, mid, olo, ohi, nlo, nhi)
    BY SplitEffects
  <1>2. /\ vmr[p].st = "live" /\ vmr[p].mm = m /\ mm[m].op = "idle" /\ vmr[p].desc = d
        /\ n # p /\ vmr[n].st = "unused"
        /\ \/ olo = vmr[p].lo /\ ohi = mid /\ nlo = mid /\ nhi = vmr[p].hi
           \/ nlo = vmr[p].lo /\ nhi = mid /\ olo = mid /\ ohi = vmr[p].hi
        /\ Others({p, n})
        /\ vmr'[p].st = "live" /\ vmr'[p].mm = m /\ vmr'[p].desc = d
        /\ vmr'[p].lo = olo /\ vmr'[p].hi = ohi /\ vmr'[p].link = n
        /\ vmr'[n].st = "live" /\ vmr'[n].mm = m /\ vmr'[n].desc = d
        /\ vmr'[n].lo = nlo /\ vmr'[n].hi = nhi
        /\ OnlyDesc(d, desc'[d]) /\ desc'[d].refcount = desc[d].refcount + 1
        /\ desc'[d].views = desc[d].views
        /\ mm'[m] = [op |-> "views", prev |-> p, mid |-> mid, lo |-> vmr[p].lo, hi |-> vmr[p].hi]
        /\ \A k \in Mms \ {m} : mm'[k] = mm[k]
    BY <1>1 DEF SplitEffect
  <1>3. /\ mm'[m].op = "views" /\ mm'[m].prev = p /\ mm'[m].mid = mid
        /\ mm'[m].lo = vmr[p].lo /\ mm'[m].hi = vmr[p].hi
    BY <1>2
  <1>4. \A w \in Vmrs \ {p, n} : /\ SameView(w) /\ SameHold(w)
                                 /\ vmr'[w].st = "joining" => vmr'[w] = vmr[w]
                                 /\ vmr[w].st = "live" => vmr'[w] = vmr[w]
                                 /\ vmr'[w].mm # vmr[w].mm => vmr'[w] = Dead
    BY <1>2, StaysSame DEF Others, Frame
  <1>5. \A k \in Mms \ {m} : Still(k)
    BY <1>2, <1>4 DEF Still
  <1>6. Halves'
    <2>1. \A k \in Mms \ {m} : CalmAt(k)
      BY <1>2, <1>5 DEF CalmAt
    <2>2. \A k \in Mms \ {m} : HalvesAt(k)'
      BY <2>1, HalfKept DEF Books
    <2>3. HalvesOf(m, p, n)'
      BY <1>2, <1>3 DEF HalvesOf
    <2>4. HalvesAt(m)'
      BY <1>2, <1>3, <2>3 DEF HalvesAt
    <2> QED BY <2>2, <2>4 DEF Halves
  <1>7. Joining'
    <2>1. JoinsKept
      BY <1>2, <1>4, <1>5 DEF JoinsKept
    <2> QED BY <2>1, JoiningKept DEF Books
  <1>8. Counted'
    <2>1. desc'[d].refcount = Cardinality(Of(d, Holding)) + 1
      BY <1>2 DEF Books, Counted
    <2>2. SameHold(p) /\ vmr[n].st \notin Holding /\ vmr'[n].st \in Holding
      BY <1>2, PhaseSets DEF SameHold
    <2> QED BY <1>2, <1>4, <2>1, <2>2, CountGain DEF Books
  <1>9. ASSUME NEW w \in Vmrs, NEW x, NEW s, NEW e
        PROVE  Claims(w, x, s, e)' <=> Claims(w, x, s, e)
    <2>1. CASE w = p
      <3>1. Claims(p, x, s, e)' <=> x = d /\ s = vmr[p].lo /\ e = vmr[p].hi
        BY <1>2, <1>3, PhaseSets DEF Claims, First, Second, InViews
      <3>2. Claims(p, x, s, e) <=> x = d /\ s = vmr[p].lo /\ e = vmr[p].hi
        BY <1>2, PhaseSets DEF Claims, First, Second, InViews
      <3> QED BY <2>1, <3>1, <3>2
    <2>2. CASE w = n
      <3>1. ~Claims(n, x, s, e)'
        BY <1>2, <1>3 DEF Claims, First, Second, InViews
      <3>2. ~Claims(n, x, s, e)
        BY <1>2, PhaseSets DEF Claims
      <3> QED BY <2>2, <3>1, <3>2
    <2>3. CASE w \notin {p, n} /\ vmr[w].mm # m
      <3>1. SameView(w)
        BY <1>4, <2>3
      <3>2. vmr[w].mm \in Mms => CalmAt(vmr[w].mm)
        BY <1>2, <1>5, <2>3 DEF CalmAt
      <3> QED BY <3>1, <3>2, ClaimSame
    <2>4. CASE w \notin {p, n} /\ vmr[w].mm = m /\ vmr[w].st \in Viewing
      <3>1. SameView(w)
        BY <1>4, <2>4
      <3>2. Claims(w, x, s, e)' <=> x = vmr[w].desc /\ s = vmr[w].lo /\ e = vmr[w].hi
        BY <1>2, <1>3, <2>4, <3>1 DEF SameView, Claims, First, Second, InViews
      <3>3. Claims(w, x, s, e) <=> x = vmr[w].desc /\ s = vmr[w].lo /\ e = vmr[w].hi
        BY <1>2, <2>4 DEF Claims, First, Second, InViews
      <3> QED BY <3>2, <3>3
    <2>5. CASE w \notin {p, n} /\ vmr[w].st \notin Viewing
      BY <1>4, <2>5 DEF SameView, Claims
    <2> QED BY <2>1, <2>2, <2>3, <2>4, <2>5
  <1>10. Matching'
    BY <1>2, <1>9, MatchStill DEF Books, OnlyDesc
  <1> QED BY <1>6, <1>7, <1>8, <1>10 DEF Books

LEMMA NoFailure == ASSUME ~NodeMayFail PROVE \A fails \in Outcomes : ~fails
  BY DEF Outcomes

(* The list gets the two halves, which their vmrs claim from now on.       *)
LEMMA SplitViewsBooks ==
    ASSUME ~NodeMayFail, Frame, Books, NEW m \in Mms, SplitViews(m)
    PROVE  Books'
  <1>1. PICK p \in Vmrs, d \in Descs, fails \in Outcomes : ViewsEffect(m, p, d, fails)
    BY SplitViewsEffect
  <1>2. PICK lo \in 0..NPages, hi \in 0..NPages, mid \in 0..NPages :
           /\ lo = mm[m].lo /\ hi = mm[m].hi /\ mid = mm[m].mid /\ lo < mid /\ mid < hi
    BY <1>1, SplitRecs DEF Frame, Splitting, SplitAt, ViewsEffect
  <1>3. /\ mm[m].op = "views" /\ p = mm[m].prev /\ vmr[p].desc = d
        /\ vmr[p].st = "live" /\ vmr[p].mm = m
        /\ vmr'[p].st = "live" /\ vmr'[p].mm = m /\ vmr'[p].desc = d
        /\ vmr'[p].lo = vmr[p].lo /\ vmr'[p].hi = vmr[p].hi /\ vmr'[p].link = None
        /\ Others({p})
        /\ OnlyDesc(d, desc'[d])
        /\ desc'[d].views = view_split(desc[d].views, lo, hi, mid, fails) /\ ~fails
        /\ desc'[d].refcount = desc[d].refcount
        /\ mm'[m].op = "idle" /\ \A k \in Mms \ {m} : mm'[k] = mm[k]
    BY <1>1, <1>2, NoFailure DEF ViewsEffect
  <1>4. PICK n \in Vmrs : n = vmr[p].link /\ HalvesOf(m, p, n)
    BY <1>3 DEF Books, Halves, HalvesAt
  <1>5. \A w \in Vmrs \ {p} : /\ SameView(w) /\ SameHold(w)
                              /\ vmr'[w].st = "joining" => vmr'[w] = vmr[w]
                              /\ vmr[w].st = "live" => vmr'[w] = vmr[w]
    BY <1>3, StaysSame DEF Others, Frame
  <1>6. \A k \in Mms \ {m} : Still(k) /\ CalmAt(k)
    BY <1>3, <1>5 DEF Still, CalmAt
  <1>7. n # p /\ vmr[n].st = "live" /\ vmr[n].mm = m /\ vmr[n].desc = d /\ vmr'[n] = vmr[n]
    BY <1>3, <1>4, <1>5 DEF HalvesOf
  <1>8. Halves' /\ Joining'
    <2>1. HalvesAt(m)'
      BY <1>3 DEF HalvesAt
    <2>2. \A k \in Mms \ {m} : HalvesAt(k)'
      BY <1>6, HalfKept DEF Books
    <2>3. JoinsKept
      BY <1>3, <1>5, <1>6 DEF JoinsKept
    <2> QED BY <2>1, <2>2, <2>3, JoiningKept DEF Books, Halves
  <1>9. Counted'
    <2>1. SameHold(p)
      BY <1>3 DEF SameHold
    <2> QED BY <1>3, <1>5, <2>1, CountSame DEF Books, OnlyDesc
  <1>10. PICK plo \in 0..NPages, phi \in 0..NPages, nlo \in 0..NPages, nhi \in 0..NPages :
            /\ plo = vmr[p].lo /\ phi = vmr[p].hi /\ nlo = vmr[n].lo /\ nhi = vmr[n].hi
            /\ \/ plo = lo /\ phi = mid /\ nlo = mid /\ nhi = hi
               \/ nlo = lo /\ nhi = mid /\ plo = mid /\ phi = hi
    BY <1>2, <1>4 DEF HalvesOf
  <1>11. SUFFICES ASSUME NEW x \in Descs, NEW s \in 0..NPages, NEW e \in 0..NPages
                  PROVE  CountOf(desc'[x].views, s, e) = Cardinality(Claimants(x, s, e)')
    BY <1>8, <1>9 DEF Books, Matching
  <1>12. ASSUME NEW w \in Vmrs \ {p, n}
         PROVE  Claims(w, x, s, e)' <=> Claims(w, x, s, e)
    <2>1. SameView(w)
      BY <1>5
    <2>2. CASE vmr[w].mm # m
      <3>1. vmr[w].mm \in Mms => CalmAt(vmr[w].mm)
        BY <1>6, <2>2
      <3> QED BY <2>1, <3>1, ClaimSame
    <2>3. CASE vmr[w].mm = m /\ vmr[w].st \in Viewing
      <3>1. Claims(w, x, s, e)' <=> x = vmr[w].desc /\ s = vmr[w].lo /\ e = vmr[w].hi
        BY <1>3, <2>1, <2>3 DEF SameView, Claims, First, Second, InViews
      <3>2. Claims(w, x, s, e) <=> x = vmr[w].desc /\ s = vmr[w].lo /\ e = vmr[w].hi
        BY <1>3, <1>4, <2>3 DEF Claims, First, Second, InViews
      <3> QED BY <3>1, <3>2
    <2>4. CASE vmr[w].st \notin Viewing
      BY <2>1, <2>4 DEF SameView, Claims
    <2> QED BY <2>2, <2>3, <2>4
  <1>13. /\ Claims(p, x, s, e) <=> x = d /\ s = lo /\ e = hi
         /\ ~Claims(n, x, s, e)
    BY <1>2, <1>3, <1>4, <1>7, PhaseSets DEF Claims, First, Second, InViews
  <1>14. /\ Claims(p, x, s, e)' <=> x = d /\ s = plo /\ e = phi
         /\ Claims(n, x, s, e)' <=> x = d /\ s = nlo /\ e = nhi
    BY <1>3, <1>7, <1>10, PhaseSets DEF Claims, First, Second, InViews
  <1>15. Claimants(x, s, e) \in SUBSET Vmrs
    BY DEF Claimants
  <1>16. CountOf(desc[x].views, s, e) = Cardinality(Claimants(x, s, e))
         /\ Cardinality(Claimants(x, s, e)) \in Nat
    BY <1>15, VmrCounts DEF Books, Matching
  <1>17. Listed(desc[d].views)
    BY DEF Frame, Lists
  <1>18. CountOf(desc'[d].views, s, e) =
            IF s = lo /\ e = hi /\ CountOf(desc[d].views, lo, hi) > 0
            THEN CountOf(desc[d].views, s, e) - 1
            ELSE CountOf(desc[d].views, s, e) + (IF s = lo /\ e = mid THEN 1 ELSE 0)
                                              + (IF s = mid /\ e = hi THEN 1 ELSE 0)
    BY <1>2, <1>3, <1>17, SplitView
  <1>19. CASE x = d /\ s = lo /\ e = hi
    <2>1. p \in Claimants(x, s, e)
      BY <1>13, <1>19 DEF Claimants
    <2>2. Claimants(x, s, e)' = Claimants(x, s, e) \ {p}
      <3>1. ~(s = plo /\ e = phi) /\ ~(s = nlo /\ e = nhi)
        BY <1>2, <1>10, <1>19
      <3> QED BY <1>12, <1>13, <1>14, <3>1 DEF Claimants
    <2>3. Cardinality(Claimants(x, s, e) \ {p}) = Cardinality(Claimants(x, s, e)) - 1
          /\ Cardinality(Claimants(x, s, e)) # 0
      BY <1>15, <2>1, VmrCounts
    <2> QED BY <1>16, <1>18, <1>19, <2>2, <2>3
  <1>20. CASE x = d /\ s = plo /\ e = phi
    <2>1. ~(s = lo /\ e = hi) /\ ~(s = nlo /\ e = nhi)
      BY <1>2, <1>10, <1>20
    <2>2. p \notin Claimants(x, s, e) /\ Claimants(x, s, e)' = Claimants(x, s, e) \cup {p}
      BY <1>12, <1>13, <1>14, <1>20, <2>1 DEF Claimants
    <2>3. Cardinality(Claimants(x, s, e) \cup {p}) = Cardinality(Claimants(x, s, e)) + 1
      BY <1>15, <2>2, VmrCounts
    <2>4. CountOf(desc'[d].views, s, e) = CountOf(desc[d].views, s, e) + 1
      BY <1>2, <1>10, <1>16, <1>18, <1>20, <2>1
    <2> QED BY <1>16, <1>20, <2>2, <2>3, <2>4
  <1>21. CASE x = d /\ s = nlo /\ e = nhi
    <2>1. ~(s = lo /\ e = hi) /\ ~(s = plo /\ e = phi)
      BY <1>2, <1>10, <1>21
    <2>2. n \notin Claimants(x, s, e) /\ Claimants(x, s, e)' = Claimants(x, s, e) \cup {n}
      BY <1>12, <1>13, <1>14, <1>21, <2>1 DEF Claimants
    <2>3. Cardinality(Claimants(x, s, e) \cup {n}) = Cardinality(Claimants(x, s, e)) + 1
      BY <1>15, <2>2, VmrCounts
    <2>4. CountOf(desc'[d].views, s, e) = CountOf(desc[d].views, s, e) + 1
      BY <1>2, <1>10, <1>16, <1>18, <1>21, <2>1
    <2> QED BY <1>16, <1>21, <2>2, <2>3, <2>4
  <1>22. CASE ~(x = d /\ s = lo /\ e = hi) /\ ~(x = d /\ s = plo /\ e = phi)
              /\ ~(x = d /\ s = nlo /\ e = nhi)
    <2>1. Claimants(x, s, e)' = Claimants(x, s, e)
      BY <1>12, <1>13, <1>14, <1>22 DEF Claimants
    <2>2. CASE x = d
      <3>1. CountOf(desc'[d].views, s, e) = CountOf(desc[d].views, s, e)
        BY <1>10, <1>16, <1>18, <1>22, <2>2
      <3> QED BY <1>16, <2>1, <2>2, <3>1
    <2>3. CASE x # d
      BY <1>3, <1>16, <2>1, <2>3 DEF OnlyDesc
    <2> QED BY <2>2, <2>3
  <1> QED BY <1>19, <1>20, <1>21, <1>22

-----------------------------------------------------------------------------
(* The books through a fork.                                               *)
LEMMA ForkSharedRefBooks ==
    ASSUME Frame, Books, NEW m \in Mms, ForkSharedRef(m)
    PROVE  Books'
  <1>1. PICK k \in Mms, p \in Vmrs, n \in Vmrs, d \in Descs : JoinEffect(m, k, p, n, d)
    BY ForkSharedRefEffect
  <1>2. /\ mm[m].op = "fork" /\ k = mm[m].kid /\ p \in mm[m].todo /\ vmr[p].st = "live"
        /\ vmr[n].st = "unused" /\ vmr[p].desc = d
        /\ \A v \in Vmrs : vmr[v].mm = k => vmr[v].st # "joining"
        /\ mm' = mm /\ OnlyVmr(n)
        /\ vmr'[n].st = "joining" /\ vmr'[n].mm = k /\ vmr'[n].desc = d
        /\ vmr'[n].lo = vmr[p].lo /\ vmr'[n].hi = vmr[p].hi
        /\ OnlyDesc(d, desc'[d]) /\ desc'[d].refcount = desc[d].refcount + 1
        /\ desc'[d].views = desc[d].views
    BY <1>1 DEF JoinEffect, OpensFor, IsChild
  <1>3. \A w \in Vmrs \ {n} : vmr'[w] = vmr[w] /\ SameView(w) /\ SameHold(w)
    BY <1>2 DEF OnlyVmr, SameView, SameHold
  <1>4. Calm
    BY <1>2, <1>3 DEF Calm, CalmAt, Still
  <1>5. Joining'
    <2>1. ParentOf(n, m, p)'
      BY <1>2, <1>3 DEF ParentOf
    <2>2. ASSUME NEW v \in Vmrs \ {n}, vmr'[v].st = "joining"
          PROVE  \E j \in Mms, q \in Vmrs : ParentOf(v, j, q)'
      <3>1. vmr'[v] = vmr[v]
        BY <1>3
      <3>2. PICK j \in Mms, q \in Vmrs : ParentOf(v, j, q)
        BY <2>2, <3>1 DEF Books, Joining, Joins
      <3>3. vmr[q].st = "live"
        BY <3>2 DEF Frame, Forks, ForkAt, ParentOf
      <3>4. vmr'[q] = vmr[q]
        BY <1>2, <1>3, <3>3
      <3> QED BY <1>2, <3>1, <3>2, <3>4 DEF ParentOf
    <2>3. OneJoins'
      BY <1>2, <1>3 DEF Books, Joining, OneJoins
    <2> QED BY <2>1, <2>2, <2>3 DEF Joining, Joins
  <1>6. Matching'
    <2>1. SameView(n)
      BY <1>2, PhaseSets DEF SameView
    <2> QED BY <1>2, <1>3, <1>4, <2>1, MatchSame DEF Books, OnlyDesc
  <1>7. Counted'
    <2>1. vmr[n].st \notin Holding /\ vmr'[n].st \in Holding
      BY <1>2, PhaseSets
    <2> QED BY <1>2, <1>3, <2>1, CountGain DEF Books, Counted
  <1> QED BY <1>4, <1>5, <1>6, <1>7, HalvesKept DEF Books

LEMMA PositiveEntry ==
    ASSUME NEW views, NEW s, NEW e, CountOf(views, s, e) # 0
    PROVE  EntriesOf(views, s, e) # {}
  BY DEF CountOf

(* The vmr that joins finds the entry of its parent.                       *)
LEMMA ParentsEntry ==
    ASSUME Frame, Books, NEW v \in Vmrs, vmr[v].st = "joining",
           NEW d \in Descs, d = vmr[v].desc
    PROVE  EntriesOf(desc[d].views, vmr[v].lo, vmr[v].hi) # {}
  <1>1. PICK m \in Mms, p \in Vmrs : ParentOf(v, m, p)
    BY DEF Books, Joining, Joins
  <1>2. /\ mm[m].op = "fork" /\ vmr[p].st = "live" /\ vmr[p].mm = m
        /\ vmr[p].lo = vmr[v].lo /\ vmr[p].hi = vmr[v].hi /\ vmr[p].desc = d
    BY <1>1 DEF Frame, Forks, ForkAt, ParentOf
  <1>3. Claims(p, d, vmr[v].lo, vmr[v].hi)
    BY <1>2, PhaseSets DEF Claims, First, Second, InViews
  <1>4. p \in Claimants(d, vmr[v].lo, vmr[v].hi) /\ Claimants(d, vmr[v].lo, vmr[v].hi) \in SUBSET Vmrs
    BY <1>3 DEF Claimants
  <1>5. Cardinality(Claimants(d, vmr[v].lo, vmr[v].hi)) # 0
    BY <1>4, VmrCounts
  <1>6. vmr[v].lo \in 0..NPages /\ vmr[v].hi \in 0..NPages
    BY LivePlace, Phase
  <1> QED BY <1>5, <1>6, PositiveEntry DEF Books, Matching

(* A vmr that gets its view in a fork, or a first one.                     *)
LEMMA KidGains ==
    ASSUME Frame, Books, NEW n \in Vmrs, NEW d \in Descs, Calm, JoinsKept,
           vmr[n].st \notin Viewing, vmr'[n].st \in Viewing, vmr'[n].desc = d,
           vmr'[n].mm \in Mms, mm'[vmr'[n].mm].op # "views",
           \A w \in Vmrs \ {n} : SameView(w),
           OnlyDesc(d, desc'[d]), Gains(desc'[d].views, d, vmr'[n].lo, vmr'[n].hi)
    PROVE  Halves' /\ Joining' /\ Matching'
  <1>1. Halves' /\ Joining'
    BY HalvesKept, JoiningKept DEF Books
  <1>2. PICK lo, hi : lo = vmr'[n].lo /\ hi = vmr'[n].hi
    OBVIOUS
  <1>3. \A x, s, e : Claims(n, x, s, e)' <=> (x = d /\ s = lo /\ e = hi)
    BY <1>2 DEF Claims, First, Second, InViews
  <1>4. Gains(desc'[d].views, d, lo, hi)
    BY <1>2
  <1>5. Matching
    BY DEF Books
  <1>6. Matching'
    BY <1>3, <1>4, <1>5, MatchGain
  <1> QED BY <1>1, <1>6

LEMMA ForkSharedViewBooks ==
    ASSUME Frame, Books, NEW m \in Mms, NEW v \in Vmrs, ForkSharedView(m, v)
    PROVE  Books'
  <1>1. PICK d \in Descs : JoinedEffect(m, v, d)
    BY ForkSharedViewEffect
  <1>2. /\ mm[m].op = "fork" /\ mm'[m].op = "fork" /\ \A j \in Mms \ {m} : mm'[j] = mm[j]
        /\ vmr[v].st = "joining" /\ vmr[v].mm = mm[m].kid /\ d = vmr[v].desc
        /\ OnlyVmr(v) /\ vmr'[v].st = "live" /\ vmr'[v].mm = vmr[v].mm /\ vmr'[v].desc = d
        /\ vmr'[v].lo = vmr[v].lo /\ vmr'[v].hi = vmr[v].hi
        /\ OnlyDesc(d, desc'[d])
        /\ desc'[d].views = view_add(desc[d].views, vmr[v].lo, vmr[v].hi, FALSE)
        /\ desc'[d].refcount = desc[d].refcount
    BY <1>1 DEF JoinedEffect, ForkGoesOn
  <1>3. PICK k \in Mms : k = mm[m].kid
    BY <1>2, ForkRecs DEF Frame
  <1>4. mm[k].op = "child" /\ k # m /\ mm'[k] = mm[k]
    BY <1>2, <1>3 DEF Frame, Forks, ForkAt
  <1>5. \A w \in Vmrs \ {v} : vmr'[w] = vmr[w] /\ SameView(w) /\ SameHold(w)
    BY <1>2 DEF OnlyVmr, SameView, SameHold
  <1>6. Calm
    BY <1>2, <1>5 DEF Calm, CalmAt, Still
  <1>7. JoinsKept
    BY <1>2, <1>3, <1>5 DEF JoinsKept, Still, Books, Joining, OneJoins
  <1>8. SameHold(v)
    BY <1>2, PhaseSets DEF SameHold
  <1>9. Counted'
    BY <1>2, <1>5, <1>8, CountSame DEF Books, OnlyDesc
  <1>10. PICK lo \in 0..NPages, hi \in 0..NPages : lo = vmr[v].lo /\ hi = vmr[v].hi /\ lo < hi
    BY <1>2, LivePlace, Phase
  <1>11. EntriesOf(desc[d].views, lo, hi) # {}
    BY <1>2, <1>10, ParentsEntry
  <1>12. AddedTo(desc[d].views, desc'[d].views, lo, hi)
    <2>1. Listed(desc[d].views)
      BY DEF Frame, Lists
    <2>2. AddedTo(desc[d].views, view_add(desc[d].views, lo, hi, FALSE), lo, hi)
      BY <1>10, <1>11, <2>1, AddView
    <2> QED BY <1>2, <1>10, <2>2
  <1>13. Gains(desc'[d].views, d, lo, hi)
    BY <1>12 DEF AddedTo, Books, Matching, Gains
  <1>14. /\ vmr[v].st \notin Viewing /\ vmr'[v].st \in Viewing /\ vmr'[v].mm = k
         /\ mm'[k].op # "views" /\ vmr'[v].lo = lo /\ vmr'[v].hi = hi
    BY <1>2, <1>3, <1>4, <1>10, PhaseSets
  <1>15. Halves' /\ Joining' /\ Matching'
    BY <1>2, <1>5, <1>6, <1>7, <1>13, <1>14, KidGains
  <1> QED BY <1>9, <1>15 DEF Books


(* A private fork gives the child a vmr, its reference and its view at     *)
(* once.                                                                   *)
LEMMA KidCalm ==
    ASSUME Frame, Books, NEW m \in Mms, NEW k \in Mms, NEW p \in Vmrs, NEW n \in Vmrs,
           NEW c \in Descs, OpensFor(m, k, p, n, c), ForkGoesOn(m), OnlyVmr(n),
           vmr'[n].st # "joining"
    PROVE  /\ Calm /\ JoinsKept
           /\ \A w \in Vmrs \ {n} : SameView(w) /\ SameHold(w)
  <1>1. /\ mm[m].op = "fork" /\ k = mm[m].kid /\ vmr[n].st = "unused"
        /\ \A v \in Vmrs : vmr[v].mm = k => vmr[v].st # "joining"
        /\ mm'[m].op = "fork" /\ \A j \in Mms \ {m} : mm'[j] = mm[j]
    BY DEF OpensFor, ForkGoesOn
  <1>2. \A w \in Vmrs \ {n} : vmr'[w] = vmr[w] /\ SameView(w) /\ SameHold(w)
    BY DEF OnlyVmr, SameView, SameHold
  <1>3. Calm
    BY <1>1, <1>2 DEF Calm, CalmAt, Still
  <1>4. JoinsKept
    BY <1>1, <1>2 DEF JoinsKept, Still
  <1> QED BY <1>2, <1>3, <1>4

LEMMA KidBooks ==
    ASSUME Frame, Books, NEW m \in Mms, NEW k \in Mms, NEW p \in Vmrs, NEW n \in Vmrs,
           NEW c \in Descs, NEW d \in Descs, KidEffect(m, k, p, n, c, d),
           desc'[d].refcount = Cardinality(Of(d, Holding)) + 1,
           Gains(desc'[d].views, d, vmr[p].lo, vmr[p].hi)
    PROVE  Books'
  <1>1. /\ OpensFor(m, k, p, n, c) /\ ForkGoesOn(m) /\ OnlyVmr(n) /\ OnlyDesc(d, desc'[d])
        /\ vmr'[n].st = "live" /\ vmr'[n].mm = k /\ vmr'[n].desc = d
        /\ vmr'[n].lo = vmr[p].lo /\ vmr'[n].hi = vmr[p].hi
    BY DEF KidEffect, IsChild
  <1>2. Calm /\ JoinsKept /\ \A w \in Vmrs \ {n} : SameView(w) /\ SameHold(w)
    BY <1>1, KidCalm
  <1>3. vmr[n].st = "unused" /\ mm'[k].op = "child"
    BY <1>1 DEF OpensFor, ForkGoesOn
  <1>4. /\ vmr[n].st \notin Viewing /\ vmr'[n].st \in Viewing
        /\ vmr[n].st \notin Holding /\ vmr'[n].st \in Holding
    BY <1>1, <1>3, PhaseSets
  <1>5. Gains(desc'[d].views, d, vmr'[n].lo, vmr'[n].hi)
    BY <1>1
  <1>6. Halves' /\ Joining' /\ Matching'
    BY <1>1, <1>2, <1>3, <1>4, <1>5, KidGains
  <1>7. Counted
    BY DEF Books
  <1>8. Counted'
    BY <1>1, <1>2, <1>4, <1>7, CountGain
  <1> QED BY <1>6, <1>8 DEF Books

LEMMA ForkSiblingBooks ==
    ASSUME ~NodeMayFail, Frame, Books, NEW m \in Mms, ForkSibling(m)
    PROVE  Books'
  <1>1. PICK k \in Mms, p \in Vmrs, n \in Vmrs, c \in Descs, d \in Descs, w \in Vmrs,
              fails \in Outcomes : SiblingEffect(m, k, p, n, c, d, w, fails)
    BY ForkSiblingEffect
  <1>2. /\ KidEffect(m, k, p, n, c, d) /\ ~fails /\ vmr[p].st = "live"
        /\ desc'[d].views = view_add_alloc(desc[d].views, vmr[p].lo, vmr[p].hi, FALSE, fails)
        /\ desc'[d].refcount = desc[d].refcount + 1
    BY <1>1, NoFailure DEF SiblingEffect, KidEffect, OpensFor
  <1>3. PICK lo \in 0..NPages, hi \in 0..NPages : lo = vmr[p].lo /\ hi = vmr[p].hi
    BY <1>2, LivePlace, Phase
  <1>4. lo < hi
    BY <1>2, <1>3, LivePlace, Phase
  <1>5. desc'[d].views = view_add(desc[d].views, lo, hi, TRUE)
    BY <1>2, <1>3 DEF view_add_alloc
  <1>6. AddedTo(desc[d].views, view_add(desc[d].views, lo, hi, TRUE), lo, hi)
    <2>1. Listed(desc[d].views)
      BY DEF Frame, Lists
    <2> QED BY <1>4, <2>1, AddView
  <1>7. \A s, e \in 0..NPages :
              CountOf(desc'[d].views, s, e) = CountOf(desc[d].views, s, e)
                 + (IF s = lo /\ e = hi THEN 1 ELSE 0)
    BY <1>5, <1>6 DEF AddedTo
  <1>8. Matching /\ Counted
    BY DEF Books
  <1>9. Gains(desc'[d].views, d, vmr[p].lo, vmr[p].hi)
    BY <1>3, <1>7, <1>8 DEF Matching, Gains
  <1>10. desc'[d].refcount = Cardinality(Of(d, Holding)) + 1
    BY <1>2, <1>8 DEF Counted
  <1> QED BY <1>2, <1>9, <1>10, KidBooks

(* Nobody views, or holds, a vmdesc that was never made.                   *)
LEMMA NobodysDesc ==
    ASSUME Frame, NEW d \in Descs, desc[d].st = "unused"
    PROVE  /\ Cardinality(Of(d, Holding)) = 0
           /\ \A s, e : Cardinality(Claimants(d, s, e)) = 0
  <1>1. ASSUME NEW v \in Vmrs, vmr[v].st \in Placed, vmr[v].desc = d PROVE FALSE
    BY <1>1 DEF Frame, Places, Place
  <1>2. Of(d, Holding) = {}
    BY <1>1, Phase DEF Of
  <1>3. ASSUME NEW s, NEW e PROVE Claimants(d, s, e) = {}
    BY <1>1, Phase DEF Claimants, Claims
  <1> QED BY <1>2, <1>3, FS_EmptySet

LEMMA FirstGains ==
    ASSUME NEW lo \in 0..NPages, NEW hi \in 0..NPages, lo < hi, NEW d \in Descs,
           \A s, e : Cardinality(Claimants(d, s, e)) = 0,
           NEW empty, empty = <<>>, NEW l, l = view_add(empty, lo, hi, TRUE)
    PROVE  Gains(l, d, lo, hi)
  <1>1. AddedTo(empty, l, lo, hi)
    BY AddView, NoViews
  <1>2. ASSUME NEW s \in 0..NPages, NEW e \in 0..NPages
        PROVE  CountOf(l, s, e) = Cardinality(Claimants(d, s, e))
                  + (IF s = lo /\ e = hi THEN 1 ELSE 0)
    <2>1. Cardinality(Claimants(d, s, e)) = CountOf(empty, s, e)
      BY NoViews
    <2>2. CountOf(l, s, e) = CountOf(empty, s, e) + (IF s = lo /\ e = hi THEN 1 ELSE 0)
      BY <1>1 DEF AddedTo
    <2> QED BY <2>1, <2>2
  <1> QED BY <1>2 DEF Gains

LEMMA ForkPrivateBooks ==
    ASSUME ~NodeMayFail, Frame, Books, NEW m \in Mms, NEW wipe \in BOOLEAN, ForkPrivate(m, wipe)
    PROVE  Books'
  <1>1. PICK k \in Mms, p \in Vmrs, n \in Vmrs, c \in Descs, d \in Descs,
              fails \in Outcomes : PrivateEffect(m, k, p, n, c, d, wipe, fails)
    BY ForkPrivateEffect
  <1>2. /\ KidEffect(m, k, p, n, c, d) /\ ~fails /\ vmr[p].st = "live" /\ desc[d].st = "unused"
        /\ desc'[d].views = view_add_alloc(<<>>, vmr[p].lo, vmr[p].hi, FALSE, fails)
        /\ desc'[d].refcount = 1
    BY <1>1, NoFailure DEF PrivateEffect, KidEffect, OpensFor
  <1>3. PICK lo \in 0..NPages, hi \in 0..NPages : lo = vmr[p].lo /\ hi = vmr[p].hi
    BY <1>2, LivePlace, Phase
  <1>4. lo < hi
    BY <1>2, <1>3, LivePlace, Phase
  <1>5. /\ Cardinality(Of(d, Holding)) = 0
        /\ \A s, e : Cardinality(Claimants(d, s, e)) = 0
    BY <1>2, NobodysDesc
  <1>6. PICK empty, l : /\ empty = <<>> /\ l = view_add(empty, lo, hi, TRUE)
                        /\ desc'[d].views = l
    BY <1>2, <1>3 DEF view_add_alloc
  <1>7. Gains(desc'[d].views, d, vmr[p].lo, vmr[p].hi)
    <2>1. Gains(l, d, lo, hi)
      BY <1>4, <1>5, <1>6, FirstGains
    <2> QED BY <1>3, <1>6, <2>1
  <1>8. desc'[d].refcount = Cardinality(Of(d, Holding)) + 1
    BY <1>2, <1>5
  <1> QED BY <1>2, <1>7, <1>8, KidBooks

LEMMA ForkFailsBooks ==
    ASSUME Frame, Books, NEW m \in Mms, ForkFails(m)
    PROVE  Books'
  <1>1. PICK shared \in BOOLEAN : Opens(m, shared)
    BY DEF ForkFails
  <1>2. PICK k \in Mms, p \in Vmrs, n \in Vmrs, c \in Descs : OpensFor(m, k, p, n, c)
    BY <1>1, OpensNow
  <1>3. /\ Forking(m) /\ mm' = Forked(m) /\ vmr' = [vmr EXCEPT ![n] = Dead] /\ desc' = desc
        /\ Types /\ vmr[n].st = "unused"
    BY <1>1, <1>2, OpensNow DEF ForkFails, Frame, OpensFor
  <1>4. ForkGoesOn(m)
    BY <1>3, ForkedFrom
  <1>5. vmr'[n] = Dead /\ OnlyVmr(n)
    BY <1>3 DEF Types, OnlyVmr
  <1>6. Calm /\ JoinsKept /\ \A w \in Vmrs \ {n} : SameView(w) /\ SameHold(w)
    BY <1>2, <1>4, <1>5, DeadFields, KidCalm
  <1>7. SameView(n) /\ SameHold(n)
    BY <1>3, <1>5, DeadFields, PhaseSets DEF SameView, SameHold
  <1> QED BY <1>3, <1>6, <1>7, BooksSame

(* The end of a fork: nobody in the child joins any more.                  *)
LEMMA ForkEndBooks ==
    ASSUME Frame, Books, NEW m \in Mms, ForkEnd(m)
    PROVE  Books'
  <1>1. /\ vmr' = vmr /\ desc' = desc /\ mm[m].op = "fork" /\ mm[m].todo = {}
    BY ForkEndEffect
  <1>2. PICK k \in Mms : /\ k = mm[m].kid /\ k # m /\ mm[k].op = "child"
                         /\ mm'[m].op = "idle" /\ mm'[k].op = "idle"
                         /\ \A j \in Mms \ {m, k} : mm'[j] = mm[j]
    BY ForkEndEffect
  <1>3. ASSUME NEW w \in Vmrs, vmr[w].mm = k, vmr[w].st = "joining" PROVE FALSE
    <2>1. PICK j \in Mms, q \in Vmrs : ParentOf(w, j, q)
      BY <1>3 DEF Books, Joining, Joins
    <2>2. mm[j].op = "fork" /\ mm[j].kid = k /\ q \in mm[j].todo
      BY <1>3, <2>1 DEF ParentOf
    <2>3. j = m
      BY <1>1, <1>2, <2>2 DEF Frame, Forks, ForkAt
    <2> QED BY <1>1, <2>2, <2>3
  <1>4. Calm
    BY <1>1, <1>2 DEF Calm, CalmAt, Still
  <1>5. JoinsKept
    BY <1>1, <1>2, <1>3 DEF JoinsKept, Still
  <1>6. \A w \in Vmrs : SameView(w) /\ SameHold(w)
    BY <1>1 DEF SameView, SameHold
  <1> QED BY <1>1, <1>4, <1>5, <1>6, BooksSame

LEMMA ForkBeginBooks ==
    ASSUME Frame, Books, NEW m \in Mms, ForkBegin(m)
    PROVE  Books'
  <1>1. PICK k \in Mms : ForkBeginEffect(m, k)
    BY ForkBeginEffects
  <1>2. /\ vmr' = vmr /\ desc' = desc /\ mm[m].op = "idle" /\ mm[k].op = "unused"
        /\ mm'[m].op = "fork" /\ mm'[k].op = "child" /\ \A j \in Mms \ {m, k} : mm'[j] = mm[j]
    BY <1>1 DEF ForkBeginEffect
  <1>3. Calm /\ JoinsKept
    BY <1>2 DEF Calm, CalmAt, Still, JoinsKept
  <1>4. \A w \in Vmrs : SameView(w) /\ SameHold(w)
    BY <1>2 DEF SameView, SameHold
  <1> QED BY <1>2, <1>3, <1>4, BooksSame

(* The first mapping, and the step of everybody.                           *)
LEMMA MmapBooks ==
    ASSUME ~NodeMayFail, Frame, Books, NEW shared \in BOOLEAN, Mmap(shared)
    PROVE  Books'
  <1>1. PICK v \in Vmrs, m \in Mms, d \in Descs, fails \in Outcomes : MmapEffect(v, m, d, shared, fails)
    BY MmapEffects
  <1>2. /\ Unused = Vmrs /\ OnlyVmr(v) /\ ~fails
        /\ vmr'[v].st = "live" /\ vmr'[v].mm = m /\ vmr'[v].desc = d /\ vmr'[v].lo = 0
        /\ vmr'[v].hi = NPages
        /\ OnlyDesc(d, desc'[d]) /\ desc'[d].refcount = 1
        /\ desc'[d].views = view_add_alloc(<<>>, 0, NPages, FALSE, fails)
        /\ mm'[m].op = "idle" /\ \A k \in Mms \ {m} : mm'[k] = mm[k]
    BY <1>1, NoFailure DEF MmapEffect, IsMade
  <1>3. \A w \in Vmrs : vmr[w].st = "unused"
    BY <1>2 DEF Unused
  <1>4. \A k \in Mms : mm[k].op = "unused"
    BY <1>2 DEF Frame, Started
  <1>5. Calm /\ JoinsKept
    BY <1>2, <1>3, <1>4 DEF Calm, CalmAt, JoinsKept, OnlyVmr
  <1>6. \A w \in Vmrs \ {v} : SameView(w) /\ SameHold(w)
    BY <1>2 DEF OnlyVmr, SameView, SameHold
  <1>7. /\ vmr[v].st \notin Viewing /\ vmr'[v].st \in Viewing
        /\ vmr[v].st \notin Holding /\ vmr'[v].st \in Holding
    BY <1>2, <1>3, PhaseSets
  <1>8. /\ Cardinality(Of(d, Holding)) = 0
        /\ \A s, e : Cardinality(Claimants(d, s, e)) = 0
    <2>1. Of(d, Holding) = {}
      BY <1>3, PhaseSets DEF Of
    <2>2. ASSUME NEW s, NEW e PROVE Claimants(d, s, e) = {}
      BY <1>3, PhaseSets DEF Claimants, Claims
    <2> QED BY <2>1, <2>2, FS_EmptySet
  <1>9. PICK lo \in 0..NPages, hi \in 0..NPages : lo = 0 /\ hi = NPages /\ lo < hi
    BY Sizes
  <1>10. PICK empty, l : /\ empty = <<>> /\ l = view_add(empty, lo, hi, TRUE)
                         /\ desc'[d].views = l
    BY <1>2, <1>9 DEF view_add_alloc
  <1>11. Gains(desc'[d].views, d, vmr'[v].lo, vmr'[v].hi)
    <2>1. Gains(l, d, lo, hi)
      BY <1>8, <1>9, <1>10, FirstGains
    <2> QED BY <1>2, <1>9, <1>10, <2>1
  <1>12. Halves' /\ Joining' /\ Matching'
    BY <1>2, <1>5, <1>6, <1>7, <1>11, KidGains
  <1>13. desc'[d].refcount = Cardinality(Of(d, Holding)) + 1 /\ Counted
    BY <1>2, <1>8 DEF Books
  <1>14. Counted'
    BY <1>2, <1>6, <1>7, <1>13, CountGain
  <1> QED BY <1>12, <1>14 DEF Books

LEMMA BooksInit == Init => Books
  <1> SUFFICES ASSUME Init PROVE Books
    OBVIOUS
  <1>1. /\ \A v \in Vmrs : vmr[v].st = "unused"
        /\ \A m \in Mms : mm[m].op = "unused"
        /\ \A d \in Descs : desc[d].views = <<>> /\ desc[d].refcount = 0
    BY DEF Init, NewVmr, NewDesc
  <1>2. Halves /\ Joining
    BY <1>1 DEF Halves, HalvesAt, Joining, Joins, OneJoins
  <1>3. ASSUME NEW d \in Descs, NEW s, NEW e
        PROVE  CountOf(desc[d].views, s, e) = Cardinality(Claimants(d, s, e))
    <2>1. Claimants(d, s, e) = {}
      BY <1>1, PhaseSets DEF Claimants, Claims
    <2>2. Cardinality(Claimants(d, s, e)) = 0
      BY <2>1, FS_EmptySet
    <2>3. CountOf(desc[d].views, s, e) = 0
      BY <1>1, NoViews
    <2> QED BY <2>2, <2>3
  <1>4. Matching
    BY <1>3 DEF Matching
  <1>5. ASSUME NEW d \in Descs PROVE desc[d].refcount = Cardinality(Of(d, Holding))
    <2>1. Of(d, Holding) = {}
      BY <1>1, PhaseSets DEF Of
    <2> QED BY <1>1, <2>1, FS_EmptySet
  <1> QED BY <1>2, <1>4, <1>5 DEF Books, Counted

LEMMA BooksStepped ==
    ASSUME ~NodeMayFail, Frame, Books, [Next]_vars
    PROVE  Books'
  <1>1. ASSUME NEW shared \in Sharing, Mmap(shared) PROVE Books'
    <2>1. shared \in BOOLEAN
      BY ViewsAssumption
    <2> QED BY <1>1, <2>1, MmapBooks
  <1>2. ASSUME NEW v \in Vmrs, NEW i \in Idx, Fault(v, i) PROVE Books'
    <2>1. UNCHANGED <<vmr, mm, desc>>
      BY <1>2 DEF Fault
    <2> QED BY <2>1, UnchangedBooks
  <1>3. ASSUME NEW v \in Vmrs, SplitFails(v) PROVE Books'
    BY <1>3, SplitFailsBooks
  <1>4. ASSUME NEW v \in Vmrs, CloseBegin(v) PROVE Books'
    BY <1>4, CloseBeginBooks
  <1>5. ASSUME NEW v \in Vmrs, Close(v) PROVE Books'
    BY <1>5, CloseBooks
  <1>6. ASSUME NEW v \in Vmrs, NEW mid \in SharedSplits \cup PrivateSplits,
               NEW newIsFront \in BOOLEAN, SplitOpen(v, mid, newIsFront)
        PROVE  Books'
    BY <1>6, SplitOpenBooks
  <1>7. ASSUME NEW m \in Mms, ForkBegin(m) PROVE Books'
    BY <1>7, ForkBeginBooks
  <1>8. ASSUME NEW m \in Mms, Locked(m) PROVE Books'
    BY <1>8, SplitViewsBooks, ForkSharedRefBooks, ForkSharedViewBooks, ForkSiblingBooks,
       ForkPrivateBooks, ForkFailsBooks, ForkEndBooks DEF Locked
  <1>9. CASE UNCHANGED vars
    BY <1>9, UnchangedBooks DEF vars
  <1> QED BY <1>1, <1>2, <1>3, <1>4, <1>5, <1>6, <1>7, <1>8, <1>9 DEF Next

(* As long as every view gets its memory, the books are in order: a list   *)
(* counts, for every interval, the vmrs that stand for it, in the middle   *)
(* of a split the one that is split for both, and the refcount counts the  *)
(* vmrs that have not given it up.                                         *)
THEOREM BooksInductive == ASSUME ~NodeMayFail PROVE Spec => [](Frame /\ Books)
  <1>1. Init => Frame /\ Books
    BY FrameInit, BooksInit
  <1>2. Frame /\ Books /\ [Next]_vars => (Frame /\ Books)'
    BY FrameStepped, BooksStepped
  <1> QED BY <1>1, <1>2, PTL DEF Spec

(* Outside of a split every vmr stands for its own interval.               *)
LEMMA PlainClaims ==
    ASSUME Frame, Books, NEW d \in Descs, ~InSplit(d), NEW s, NEW e
    PROVE  Claimants(d, s, e) = {w \in Of(d, Viewing) : vmr[w].lo = s /\ vmr[w].hi = e}
  <1>1. ASSUME NEW w \in Vmrs, vmr[w].desc = d PROVE ~First(w) /\ ~Second(w)
    <2>1. CASE InViews(w)
      <3>1. PICK m \in Mms : m = vmr[w].mm /\ mm[m].op = "views"
        BY <2>1 DEF InViews
      <3>2. vmr[mm[m].prev].desc # d
        BY <3>1 DEF InSplit
      <3>3. vmr[vmr[mm[m].prev].link].desc = vmr[mm[m].prev].desc
        BY <3>1 DEF Books, Halves, HalvesAt, HalvesOf
      <3> QED BY <1>1, <3>1, <3>2, <3>3 DEF First, Second
    <2> QED BY <2>1 DEF First, Second
  <1> QED BY <1>1 DEF Claimants, Claims, Of

(* The entry that @v's interval should have.                               *)
EntryOf(d, v) ==
    View(vmr[v].lo, vmr[v].hi,
         Cardinality({w \in Of(d, Viewing) : vmr[w].lo = vmr[v].lo /\ vmr[w].hi = vmr[v].hi}))

LEMMA BooksMatch == Frame /\ Books => ViewsMatchVmrs
  <1> SUFFICES ASSUME Frame, Books, NEW d \in Descs, ~InSplit(d),
                      NEW views, views = desc[d].views
               PROVE  /\ \A k \in 1..(Len(views) - 1) :
                            SortsBefore(views[k], views[k + 1].start, views[k + 1].end)
                      /\ ToSet(views) =
                            {View(vmr[v].lo, vmr[v].hi,
                                  Cardinality({w \in Of(d, Viewing) :
                                      vmr[w].lo = vmr[v].lo /\ vmr[w].hi = vmr[v].hi})) :
                                v \in Of(d, Viewing)}
                      /\ desc[d].refcount = Cardinality(Of(d, Holding))
    BY DEF ViewsMatchVmrs
  <1>1. Listed(views)
    BY DEF Frame, Lists
  <1>2. ASSUME NEW k \in 1..(Len(views) - 1)
        PROVE  SortsBefore(views[k], views[k + 1].start, views[k + 1].end)
    <2>1. k \in DOMAIN views /\ k + 1 \in DOMAIN views /\ k < k + 1
      BY <1>1 DEF Listed
    <2> QED BY <1>1, <2>1 DEF Listed
  <1>3. \A s, e : Claimants(d, s, e) = {w \in Of(d, Viewing) : vmr[w].lo = s /\ vmr[w].hi = e}
    BY PlainClaims
  <1>4. \A s, e \in 0..NPages : CountOf(views, s, e) = Cardinality(Claimants(d, s, e))
    BY DEF Books, Matching
  <1>5. \A s, e : Claimants(d, s, e) \in SUBSET Vmrs
    BY DEF Claimants
  <1>6. ASSUME NEW k \in DOMAIN views
        PROVE  \E v \in Of(d, Viewing) :
                  views[k] = EntryOf(d, v)
    <2>1. PICK s \in 0..NPages, e \in 0..NPages, c \in Nat \ {0} :
             s = views[k].start /\ e = views[k].end /\ c = views[k].count
      BY <1>1, ListedFields, ViewFields
    <2>2. c = Cardinality(Claimants(d, s, e))
      BY <1>1, <1>4, <2>1, CountAt
    <2>3. Claimants(d, s, e) # {}
      BY <1>5, <2>2, VmrCounts
    <2>4. PICK v \in Of(d, Viewing) : vmr[v].lo = s /\ vmr[v].hi = e
      BY <1>3, <2>3
    <2>5. views[k] = View(s, e, c)
      BY <1>1, <2>1, ListedFields, ViewFields
    <2>6. Claimants(d, s, e) = {w \in Of(d, Viewing) :
                                  vmr[w].lo = vmr[v].lo /\ vmr[w].hi = vmr[v].hi}
      BY <1>3, <2>4
    <2> QED BY <2>2, <2>4, <2>5, <2>6 DEF EntryOf
  <1>7. ASSUME NEW v \in Of(d, Viewing)
        PROVE  \E k \in DOMAIN views :
                  views[k] = EntryOf(d, v)
    <2>1. v \in Vmrs /\ vmr[v].st \in Placed
      BY Phase DEF Of
    <2>2. PICK s \in 0..NPages, e \in 0..NPages : s = vmr[v].lo /\ e = vmr[v].hi
      BY <2>1, LivePlace
    <2>3. v \in Claimants(d, s, e)
      BY <1>3, <2>2
    <2>4. Cardinality(Claimants(d, s, e)) \in Nat /\ Cardinality(Claimants(d, s, e)) # 0
      BY <1>5, <2>3, VmrCounts
    <2>5. CountOf(views, s, e) > 0
      BY <1>4, <2>4
    <2>6. PICK k \in DOMAIN views : views[k].start = s /\ views[k].end = e
      BY <1>1, <2>5, CountPositive
    <2>7. views[k].count = Cardinality(Claimants(d, s, e))
      BY <1>1, <1>4, <2>6, CountAt
    <2>8. views[k] = View(s, e, views[k].count)
      BY <1>1, <2>6, ListedFields, ViewFields
    <2>9. Claimants(d, s, e) = {w \in Of(d, Viewing) :
                                  vmr[w].lo = vmr[v].lo /\ vmr[w].hi = vmr[v].hi}
      BY <1>3, <2>2
    <2> QED BY <2>2, <2>7, <2>8, <2>9 DEF EntryOf
  <1>8. ToSet(views) = {EntryOf(d, v) : v \in Of(d, Viewing)}
    BY <1>6, <1>7 DEF ToSet
  <1>9. desc[d].refcount = Cardinality(Of(d, Holding))
    BY DEF Books, Counted
  <1> QED BY <1>2, <1>8, <1>9 DEF EntryOf

LEMMA ClaimedEntry ==
    ASSUME Books, NEW w \in Vmrs, NEW d \in Descs, NEW s \in 0..NPages, NEW e \in 0..NPages,
           Claims(w, d, s, e)
    PROVE  EntriesOf(desc[d].views, s, e) # {}
  <1>1. w \in Claimants(d, s, e) /\ Claimants(d, s, e) \in SUBSET Vmrs
    BY DEF Claimants
  <1>2. Cardinality(Claimants(d, s, e)) # 0
    BY <1>1, VmrCounts
  <1> QED BY <1>2, PositiveEntry DEF Books, Matching

LEMMA BooksCover == Frame /\ Books => ViewersCovered
  <1> SUFFICES ASSUME Frame, Books, NEW d \in Descs, NEW v \in Of(d, Viewing \cup {"joining"})
               PROVE  \E k \in DOMAIN desc[d].views :
                         desc[d].views[k].start <= vmr[v].lo /\ vmr[v].hi <= desc[d].views[k].end
    BY DEF ViewersCovered
  <1>1. v \in Vmrs /\ vmr[v].desc = d /\ vmr[v].st \in Viewing \cup {"joining"} /\ vmr[v].st \in Placed
    BY Phase DEF Of
  <1>2. PICK lo \in 0..NPages, hi \in 0..NPages : lo = vmr[v].lo /\ hi = vmr[v].hi
    BY <1>1, LivePlace
  <1>3. SUFFICES \E s, e \in 0..NPages :
                    s <= lo /\ hi <= e /\ EntriesOf(desc[d].views, s, e) # {}
    BY <1>2 DEF EntriesOf
  <1>4. lo <= lo /\ hi <= hi
    OBVIOUS
  <1>5. CASE vmr[v].st = "joining"
    <2>1. EntriesOf(desc[d].views, lo, hi) # {}
      BY <1>1, <1>2, <1>5, ParentsEntry
    <2> QED BY <1>4, <2>1
  <1>6. CASE vmr[v].st \in Viewing /\ ~First(v) /\ ~Second(v)
    <2>1. Claims(v, d, lo, hi)
      BY <1>1, <1>2, <1>6 DEF Claims
    <2> QED BY <1>1, <1>4, <2>1, ClaimedEntry
  <1>7. CASE vmr[v].st \in Viewing /\ (First(v) \/ Second(v))
    <2>1. PICK m \in Mms : m = vmr[v].mm /\ mm[m].op = "views"
      BY <1>7 DEF First, Second, InViews
    <2>2. PICK p \in Vmrs : p = mm[m].prev
      BY <2>1, SplitRecs DEF Frame
    <2>3. PICK s \in 0..NPages, e \in 0..NPages, mid \in 0..NPages :
             s = mm[m].lo /\ e = mm[m].hi /\ mid = mm[m].mid
      BY <2>1, SplitRecs DEF Frame
    <2>4. s < mid /\ mid < e /\ vmr[p].st = "live" /\ vmr[p].mm = m
      BY <2>1, <2>2, <2>3 DEF Frame, Splitting, SplitAt
    <2>5. HalvesOf(m, p, vmr[p].link)
      BY <2>1, <2>2 DEF Books, Halves, HalvesAt
    <2>6. v = p \/ v = vmr[p].link
      BY <1>7, <2>1, <2>2 DEF First, Second
    <2>7. s <= lo /\ hi <= e /\ vmr[p].desc = d
      BY <1>1, <1>2, <2>3, <2>4, <2>5, <2>6 DEF HalvesOf
    <2>8. Claims(p, d, s, e)
      BY <2>1, <2>2, <2>3, <2>4, <2>5, <2>7, PhaseSets DEF Claims, First, Second, InViews, HalvesOf
    <2> QED BY <2>7, <2>8, ClaimedEntry
  <1> QED BY <1>1, <1>5, <1>6, <1>7

(* debug_check_vmdesc_views() holds at any time, as long as every view     *)
(* gets its memory: outside of a split the list that mmap, fork, split and *)
(* close keep has exactly the intervals of the vmrs, each counted once for *)
(* every vmr that has it, and desc->refcount is the number of vmrs that    *)
(* have not given it up.                                                   *)
THEOREM ViewsMatch == ASSUME ~NodeMayFail PROVE Spec => []ViewsMatchVmrs
  <1>1. Spec => [](Frame /\ Books)
    BY BooksInductive
  <1>2. Frame /\ Books => ViewsMatchVmrs
    BY BooksMatch
  <1> QED BY <1>1, <1>2, PTL

(* What gpas_close() of another mm reads from the list under view_lock     *)
(* covers every vmr that still uses its interval, between the two halves   *)
(* of a split and between the reference and the view of a fork, too.       *)
THEOREM ViewersAreCovered == ASSUME ~NodeMayFail PROVE Spec => []ViewersCovered
  <1>1. Spec => [](Frame /\ Books)
    BY BooksInductive
  <1>2. Frame /\ Books => ViewersCovered
    BY BooksCover
  <1> QED BY <1>1, <1>2, PTL
-----------------------------------------------------------------------------
(* What a close takes out of a directory, and what is left in the end.     *)
Walking == {"walk", "put"}
Taking == {"own", "dropped"} \cup Walking
Standing == Placed \ {"wake"}
Joined == Viewing \cup {"joining"}
Recorded == Viewing \cup {"dropped"} \cup Walking

(* One at a time is the closer of a vmdesc.                                *)
Taker(v) == vmr[v].st \in Taking => desc[vmr[v].desc].closer = v
Closers == \A v \in Vmrs : Taker(v)

(* All namespaces are of one kind, and a private one is of one process.    *)
Alike ==
    /\ \A d, e \in Descs :
          desc[d].st # "unused" /\ desc[e].st # "unused" /\ desc[d].shared => desc[e].shared
    /\ Unused = Vmrs => \A d \in Descs : desc[d].st = "unused"
OneSpace ==
    \A v, w \in Vmrs :
        /\ vmr[v].st \in Standing /\ vmr[w].st \in Standing /\ vmr[v].desc = vmr[w].desc
        /\ ~desc[vmr[v].desc].shared
        => vmr[v].mm = vmr[w].mm

(* Nothing is left of a vmdesc that is not alive.                          *)
NoneStands(d) == \A v \in Vmrs : vmr[v].desc = d => vmr[v].st \notin Standing
Deserted(d) == NoneStands(d) /\ desc[d].views = <<>> /\ \A i \in Idx : dir[d][i] = None
Retired == \A d \in Descs : desc[d].st # "alive" => Deserted(d)

(* What the walk of a close relies on: the last one is alone; nobody views *)
(* what find_uncovered() left, or the group is_covered() said no to.       *)
NoHolders(d) == \A w \in Vmrs : vmr[w].desc = d => vmr[w].st \notin Holding
NoneViews(d, S) ==
    \A w \in Vmrs : vmr[w].desc = d /\ vmr[w].st \in Joined => \A i \in S : i \notin SlotsOf(w)
InTodo(v) == \A i \in Idx : dir[vmr[v].desc][i] # None => GroupOf[i] \in vmr[v].todo
LastWalks(v) == vmr[v].cnt = 0 => vmr[v].unc.fine /\ NoHolders(vmr[v].desc) /\ InTodo(v)
Misses(v) ==
    vmr[v].cnt # 0 /\ vmr[v].unc.fine =>
        NoneViews(vmr[v].desc, vmr[v].unc.lo..(vmr[v].unc.hi - 1))
Queried(v) ==
    vmr[v].st = "put" =>
        /\ ~vmr[v].unc.fine /\ vmr[v].cnt # 0 /\ Present(v) = vmr[v].todo
        /\ vmr[v].rel => NoneViews(vmr[v].desc, Members(Group(v)))
WalkAt(v) == vmr[v].st \in Walking => LastWalks(v) /\ Misses(v) /\ Queried(v)
Walks == \A v \in Vmrs : WalkAt(v)

(* A record is of a slot its vmr views, in the group the directory has, as *)
(* long as the close has not come by.                                      *)
RecordAt(o, i, v) ==
    /\ vmr[v].st \in Recorded
    /\ vmr[v].st \in Walking => GroupOf[i] \in vmr[v].todo
    /\ dir[vmr[v].desc][i] = o /\ i \in SlotsOf(v)
RecordsOf(v) == \A o \in Gpas, i \in Idx : v \in rec[o][i] => RecordAt(o, i, v)
Records == \A v \in Vmrs : RecordsOf(v)

Closes == Closers /\ Alike /\ OneSpace /\ Retired /\ Walks /\ Records

LEMMA Stands ==
    /\ Walking \subseteq Taking /\ Taking \subseteq Standing /\ Taking \subseteq Busy
    /\ Holding \subseteq Standing /\ Joined \subseteq Holding /\ Viewing \subseteq Joined
    /\ Standing \subseteq Placed /\ Standing \subseteq Holding \cup Walking
    /\ Recorded \subseteq Standing /\ Recorded \subseteq Viewing \cup Taking
    /\ Viewing \subseteq Recorded /\ Walking \subseteq Recorded /\ "dropped" \in Recorded
    /\ Walking \cap Holding = {} /\ Taking \cap Joined = {"own"} /\ "joining" \notin Recorded
    /\ {"live", "enter", "asleep", "joining"} \cap Taking = {} /\ "wake" \notin Standing
    /\ "joining" \in Joined /\ "dropped" \notin Joined /\ "dropped" \in Holding
  BY DEF Walking, Taking, Standing, Joined, Recorded, Holding, Viewing, Placed, Busy

(* A vmr that only goes on: it takes no place and no view that it did not  *)
(* have, and keeps its records.                                            *)
Gentle(w) ==
    /\ vmr'[w].st \in Standing =>
          vmr[w].st \in Standing /\ vmr'[w].desc = vmr[w].desc /\ vmr'[w].mm = vmr[w].mm
    /\ vmr'[w].st \in Holding => vmr[w].st \in Holding
    /\ vmr'[w].st \in Joined => vmr[w].st \in Joined /\ SlotsOf(w)' \subseteq SlotsOf(w)
    /\ vmr'[w].st \in Taking => vmr[w].st \in Taking
    /\ vmr'[w].st \in Walking => vmr'[w] = vmr[w]
    /\ vmr[w].st \in Recorded => vmr'[w].st \in Recorded /\ SlotsOf(w)' = SlotsOf(w)

LEMMA GentleSame == ASSUME NEW w, vmr'[w] = vmr[w] PROVE Gentle(w)
  BY DEF Gentle, SlotsOf
LEMMA GentleGone ==
    ASSUME NEW w, vmr[w].st \notin Recorded, vmr'[w].st \notin Standing
    PROVE  Gentle(w)
  BY Stands DEF Gentle
LEMMA GentleStays == ASSUME Types, NEW w \in Vmrs, Stays(w) PROVE Gentle(w)
  <1>1. CASE vmr'[w] = vmr[w]
    BY <1>1, GentleSame
  <1>2. CASE vmr'[w] = Dead /\ vmr[w].st = "pending"
    <2>1. vmr[w].st \notin Recorded /\ vmr'[w].st \notin Standing
      BY <1>2, DeadFields, Phase, Stands
    <2> QED BY <2>1, GentleGone
  <1> QED BY <1>1, <1>2 DEF Stays
LEMMA GentleOn ==
    ASSUME NEW w, vmr'[w].mm = vmr[w].mm, vmr'[w].desc = vmr[w].desc,
           vmr'[w].lo = vmr[w].lo, vmr'[w].hi = vmr[w].hi,
           \/ vmr[w].st \in Joined /\ vmr'[w].st \in {"live", "enter", "asleep"}
           \/ vmr[w].st = "own" /\ vmr'[w].st = "dropped"
    PROVE  Gentle(w)
  <1>1. SlotsOf(w)' = SlotsOf(w)
    BY DEF SlotsOf
  <1>2. CASE vmr[w].st \in Joined /\ vmr'[w].st \in {"live", "enter", "asleep"}
    <2>1. /\ vmr[w].st \in Standing /\ vmr[w].st \in Holding
          /\ vmr'[w].st \notin Taking /\ vmr'[w].st \in Recorded
      BY <1>2, Stands, PhaseSets
    <2> QED BY <1>1, <1>2, <2>1, Stands DEF Gentle
  <1>3. CASE vmr[w].st = "own" /\ vmr'[w].st = "dropped"
    <2>1. /\ vmr[w].st \in Standing /\ vmr[w].st \in Holding /\ vmr[w].st \in Taking
          /\ vmr'[w].st \notin Walking /\ vmr'[w].st \notin Joined
      BY <1>3, Stands DEF Taking, Walking, Holding, Viewing, Standing, Placed, Busy
    <2> QED BY <1>1, <1>3, <2>1, Stands DEF Gentle
  <1> QED BY <1>2, <1>3

(* After the step @w stands where @u stood.                                *)
Beside(w, u) ==
    /\ vmr[u].st \in Standing /\ vmr'[w].desc = vmr[u].desc
    /\ vmr'[w].mm = vmr[u].mm \/ desc[vmr[u].desc].shared
Follows(w, u) ==
    /\ Beside(w, u) /\ vmr[u].st \in Holding
    /\ vmr'[w].st \in Joined => vmr[u].st \in Joined /\ SlotsOf(w)' \subseteq SlotsOf(u)
FollowedIn(d) ==
    \A w \in Vmrs : vmr'[w].st \in Holding /\ vmr'[w].desc = d => \E u \in Vmrs : Follows(w, u)
(* Holders fill what is empty in a directory.                              *)
Filled(d) ==
    \A i \in Idx : \/ dir'[d][i] = dir[d][i]
                   \/ dir[d][i] = None /\ \E w \in Vmrs : vmr[w].desc = d /\ vmr[w].st \in Holding

LEMMA GentleBeside == ASSUME NEW w, Gentle(w), vmr'[w].st \in Standing PROVE Beside(w, w)
  BY DEF Gentle, Beside
LEMMA GentleFollows == ASSUME NEW w, Gentle(w), vmr'[w].st \in Holding PROVE Follows(w, w)
  BY Stands, GentleBeside DEF Gentle, Follows
LEMMA GentleFollowed ==
    ASSUME NEW S \in SUBSET Vmrs, \A w \in Vmrs \ S : Gentle(w), NEW d,
           \A w \in S : vmr'[w].st \in Holding /\ vmr'[w].desc = d => \E u \in Vmrs : Follows(w, u)
    PROVE  FollowedIn(d)
  BY GentleFollows DEF FollowedIn

-----------------------------------------------------------------------------
(* The parts through a step.                                               *)
LEMMA ClosersKept ==
    ASSUME Closers, \A u \in Vmrs : \/ Taker(u)'
                                    \/ /\ Gentle(u)
                                       /\ vmr[u].st \in Taking =>
                                             desc'[vmr[u].desc].closer = desc[vmr[u].desc].closer
    PROVE  Closers'
  <1> SUFFICES ASSUME NEW u \in Vmrs, Gentle(u), vmr'[u].st \in Taking,
                      vmr[u].st \in Taking => desc'[vmr[u].desc].closer = desc[vmr[u].desc].closer
               PROVE  desc'[vmr'[u].desc].closer = u
    BY DEF Closers, Taker
  <1>1. vmr[u].st \in Taking /\ vmr'[u].desc = vmr[u].desc
    BY Stands DEF Gentle
  <1> QED BY <1>1 DEF Closers, Taker

LEMMA AlikeKept ==
    ASSUME Alike, SharedKept, \A d \in Descs : desc'[d].st # "unused" => desc[d].st # "unused",
           NEW a \in Vmrs, vmr'[a].st # "unused"
    PROVE  Alike'
  <1>1. ASSUME NEW d \in Descs, NEW e \in Descs, desc'[d].st # "unused", desc'[e].st # "unused",
               desc'[d].shared
        PROVE  desc'[e].shared
    <2>1. desc[d].st # "unused" /\ desc[e].st # "unused"
      BY <1>1
    <2>2. desc'[d].shared = desc[d].shared /\ desc'[e].shared = desc[e].shared
      BY <2>1 DEF SharedKept
    <2>3. desc[d].shared
      BY <1>1, <2>2
    <2>4. desc[e].shared
      BY <2>1, <2>3 DEF Alike
    <2> QED BY <2>2, <2>4
  <1>2. Unused' # Vmrs
    BY DEF Unused
  <1> QED BY <1>1, <1>2 DEF Alike

LEMMA OneSpaceKept ==
    ASSUME Frame, OneSpace, SharedKept,
           \A w \in Vmrs : vmr'[w].st \in Standing => \E u \in Vmrs : Beside(w, u)
    PROVE  OneSpace'
  <1> SUFFICES ASSUME NEW v \in Vmrs, NEW w \in Vmrs, NEW d, d = vmr'[v].desc,
                      vmr'[v].st \in Standing, vmr'[w].st \in Standing,
                      d = vmr'[w].desc, ~desc'[d].shared
               PROVE  vmr'[v].mm = vmr'[w].mm
    BY DEF OneSpace
  <1>1. PICK p \in Vmrs : Beside(v, p)
    OBVIOUS
  <1>2. PICK q \in Vmrs : Beside(w, q)
    OBVIOUS
  <1>3. /\ vmr[p].st \in Standing /\ vmr[p].desc = d /\ vmr[q].st \in Standing /\ vmr[q].desc = d
        /\ vmr'[v].mm = vmr[p].mm \/ desc[d].shared
        /\ vmr'[w].mm = vmr[q].mm \/ desc[d].shared
    BY <1>1, <1>2 DEF Beside
  <1>4. d \in Descs /\ desc[d].st # "unused"
    BY <1>3, Stands, LivePlace
  <1>5. desc'[d].shared = desc[d].shared
    BY <1>4 DEF SharedKept
  <1>6. ~desc[d].shared
    BY <1>5
  <1> QED BY <1>3, <1>6 DEF OneSpace

(* Who stands in a vmdesc may change it.                                   *)
Untouched(d) ==
    \/ ~NoneStands(d)
    \/ desc'[d].views = desc[d].views
BesideIn(d) ==
    \A w \in Vmrs : vmr'[w].st \in Standing /\ vmr'[w].desc = d => \E u \in Vmrs : Beside(w, u)
LEMMA DesertedKept ==
    ASSUME NEW d \in Descs, Deserted(d), Filled(d), Untouched(d), BesideIn(d)
    PROVE  Deserted(d)'
  <1>2. NoneStands(d)'
    <2> SUFFICES ASSUME NEW w \in Vmrs, vmr'[w].desc = d, vmr'[w].st \in Standing PROVE FALSE
      BY DEF NoneStands
    <2>1. PICK u \in Vmrs : Beside(w, u)
      BY DEF BesideIn
    <2> QED BY <2>1 DEF Beside, Deserted, NoneStands
  <1>3. desc'[d].views = <<>>
    BY DEF Deserted, Untouched
  <1>4. ASSUME NEW i \in Idx PROVE dir'[d][i] = None
    <2>1. \A w \in Vmrs : vmr[w].desc = d => vmr[w].st \notin Holding
      BY Stands DEF Deserted, NoneStands
    <2> QED BY <2>1 DEF Deserted, Filled
  <1> QED BY <1>2, <1>3, <1>4 DEF Deserted
LEMMA RetiredKept ==
    ASSUME Retired, \A d \in Descs : desc'[d].st = desc[d].st /\ Filled(d) /\ Untouched(d),
           \A w \in Vmrs : vmr'[w].st \in Standing => \E u \in Vmrs : Beside(w, u)
    PROVE  Retired'
  <1> SUFFICES ASSUME NEW d \in Descs, desc'[d].st # "alive" PROVE Deserted(d)'
    BY DEF Retired
  <1>1. Deserted(d)
    BY DEF Retired
  <1>2. BesideIn(d)
    BY DEF BesideIn
  <1> QED BY <1>1, <1>2, DesertedKept

LEMMA NoneViewsKept ==
    ASSUME NEW d, FollowedIn(d), NEW S, NoneViews(d, S)
    PROVE  \A w \in Vmrs : vmr'[w].desc = d /\ vmr'[w].st \in Joined =>
              \A i \in S : i \notin SlotsOf(w)'
  <1> SUFFICES ASSUME NEW w \in Vmrs, vmr'[w].desc = d, vmr'[w].st \in Joined, NEW i \in S
               PROVE  i \notin SlotsOf(w)'
    OBVIOUS
  <1>1. PICK u \in Vmrs : Follows(w, u)
    BY Stands DEF FollowedIn
  <1>2. vmr[u].st \in Joined /\ SlotsOf(w)' \subseteq SlotsOf(u) /\ vmr[u].desc = d
    BY <1>1 DEF Follows, Beside
  <1> QED BY <1>2 DEF NoneViews

LEMMA WalkKept ==
    ASSUME Frame, NEW u \in Vmrs, WalkAt(u), vmr'[u] = vmr[u],
           vmr[u].st \in Walking => FollowedIn(vmr[u].desc) /\ Filled(vmr[u].desc)
    PROVE  WalkAt(u)'
  <1> SUFFICES ASSUME vmr[u].st \in Walking
               PROVE  (LastWalks(u) /\ Misses(u) /\ Queried(u))'
    BY DEF WalkAt
  <1>1. LastWalks(u) /\ Misses(u) /\ Queried(u)
    BY DEF WalkAt
  <1>2. PICK d \in Descs : d = vmr[u].desc
    BY Stands, LivePlace
  <1>3. FollowedIn(d) /\ Filled(d) /\ vmr'[u].desc = d
    BY <1>2
  <1>4. LastWalks(u)'
    <2> SUFFICES ASSUME vmr[u].cnt = 0 PROVE NoHolders(d)' /\ InTodo(u)'
      BY <1>1, <1>2 DEF LastWalks
    <2>1. NoHolders(d) /\ InTodo(u)
      BY <1>1, <1>2 DEF LastWalks
    <2>2. NoHolders(d)'
      BY <1>3, <2>1 DEF NoHolders, FollowedIn, Follows, Beside
    <2>3. \A i \in Idx : dir'[d][i] = dir[d][i]
      BY <1>3, <2>1 DEF NoHolders, Filled
    <2> QED BY <1>2, <2>1, <2>2, <2>3 DEF InTodo
  <1>5. Misses(u)'
    <2> SUFFICES ASSUME vmr[u].cnt # 0, vmr[u].unc.fine, NEW S, S = vmr[u].unc.lo..(vmr[u].unc.hi - 1)
                 PROVE  NoneViews(d, S)'
      BY <1>2 DEF Misses
    <2>1. NoneViews(d, S)
      BY <1>1, <1>2 DEF Misses
    <2>2. \A w \in Vmrs : vmr'[w].desc = d /\ vmr'[w].st \in Joined =>
              \A i \in S : i \notin SlotsOf(w)'
      BY <1>3, <2>1, NoneViewsKept
    <2> QED BY <2>2 DEF NoneViews
  <1>6. Queried(u)'
    <2> SUFFICES ASSUME vmr[u].st = "put" PROVE Queried(u)'
      BY DEF Queried
    <2>1. /\ ~vmr[u].unc.fine /\ vmr[u].cnt # 0 /\ Present(u) = vmr[u].todo
          /\ vmr[u].rel => NoneViews(d, Members(Group(u)))
      BY <1>1, <1>2 DEF Queried
    <2>2. \A g \in vmr[u].todo : dir[d][g.first] # None /\ g.first \in Idx
      <3>1. vmr[u].todo \subseteq Groups
        BY VmrRecs DEF Frame, Types
      <3> QED BY <1>2, <2>1, <3>1, GroupsType DEF Present, GroupsTyped
    <2>3. \A g \in vmr[u].todo : dir'[d][g.first] # None
      BY <1>3, <2>2 DEF Filled
    <2>4. Present(u)' = vmr[u].todo
      BY <1>2, <2>3 DEF Present
    <2>5. Group(u)' = Group(u)
      BY <2>1, <2>4 DEF Group
    <2>6. ASSUME vmr[u].rel PROVE NoneViews(d, Members(Group(u)))'
      <3>1. PICK S : S = Members(Group(u))
        OBVIOUS
      <3>2. NoneViews(d, S)
        BY <2>1, <2>6, <3>1
      <3>3. Members(Group(u))' = S
        BY <2>5, <3>1 DEF Members
      <3>4. NoneViews(d, S)'
        BY <1>3, <3>2, NoneViewsKept DEF NoneViews
      <3> QED BY <3>3, <3>4 DEF NoneViews
    <2> QED BY <1>2, <1>3, <2>1, <2>4, <2>6 DEF Queried
  <1> QED BY <1>4, <1>5, <1>6

LEMMA WalksKept ==
    ASSUME Frame, Walks,
           \A u \in Vmrs : WalkAt(u)' \/ Gentle(u),
           \A u \in Vmrs : vmr[u].st \in Walking => FollowedIn(vmr[u].desc) /\ Filled(vmr[u].desc)
    PROVE  Walks'
  <1> SUFFICES ASSUME NEW u \in Vmrs, Gentle(u) PROVE WalkAt(u)'
    BY DEF Walks
  <1>1. CASE vmr'[u].st \notin Walking
    BY <1>1 DEF WalkAt
  <1>2. CASE vmr'[u].st \in Walking
    <2>1. vmr'[u] = vmr[u] /\ WalkAt(u)
      BY <1>2 DEF Gentle, Walks
    <2> QED BY <2>1, WalkKept
  <1> QED BY <1>1, <1>2

LEMMA RecordKept ==
    ASSUME Frame, NEW v \in Vmrs, RecordsOf(v), Gentle(v),
           \A d \in Descs : Filled(d),
           \A o \in Gpas, i \in Idx : v \in rec'[o][i] => v \in rec[o][i]
    PROVE  RecordsOf(v)'
  <1> SUFFICES ASSUME NEW o \in Gpas, NEW i \in Idx, v \in rec'[o][i] PROVE RecordAt(o, i, v)'
    BY DEF RecordsOf
  <1>1. v \in rec[o][i]
    OBVIOUS
  <1>2. RecordAt(o, i, v)
    BY <1>1 DEF RecordsOf
  <1>3. /\ vmr[v].st \in Recorded
        /\ vmr[v].st \in Walking => GroupOf[i] \in vmr[v].todo
        /\ dir[vmr[v].desc][i] = o /\ i \in SlotsOf(v)
    BY <1>2 DEF RecordAt
  <1>4. /\ vmr'[v].st \in Recorded /\ SlotsOf(v)' = SlotsOf(v) /\ vmr'[v].desc = vmr[v].desc
        /\ vmr'[v].st \in Walking => vmr'[v] = vmr[v]
    <2>1. vmr'[v].st \in Recorded /\ SlotsOf(v)' = SlotsOf(v)
      BY <1>3 DEF Gentle
    <2>2. vmr'[v].st \in Standing
      BY <2>1, Stands
    <2> QED BY <2>1, <2>2 DEF Gentle
  <1>5. PICK d \in Descs : d = vmr[v].desc
    BY <1>3, Stands, LivePlace
  <1>6. dir'[d][i] = o
    BY <1>3, <1>5, NoneIsNone DEF Filled
  <1> QED BY <1>3, <1>4, <1>5, <1>6 DEF RecordAt

(* All of them, for a step in which the vmrs in S do more than go on.      *)
Even(d) == desc'[d].st = desc[d].st /\ Filled(d) /\ Untouched(d)
CloserStays(u) == vmr[u].st \in Taking => desc'[vmr[u].desc].closer = desc[vmr[u].desc].closer
LEMMA ClosesKept ==
    ASSUME Frame, Closes, NEW S \in SUBSET Vmrs,
           SharedKept, NEW a \in Vmrs, vmr'[a].st # "unused",
           \A d \in Descs : Even(d),
           \A w \in Vmrs \ S : /\ Gentle(w) /\ CloserStays(w)
                               /\ \A o \in Gpas, i \in Idx : w \in rec'[o][i] => w \in rec[o][i],
           \A w \in S : /\ vmr'[w].st \in Standing => \E u \in Vmrs : Beside(w, u)
                        /\ Taker(w)' /\ WalkAt(w)' /\ RecordsOf(w)',
           \A u \in Vmrs : vmr[u].st \in Walking => FollowedIn(vmr[u].desc)
    PROVE  Closes'
  <1>1. \A w \in Vmrs : vmr'[w].st \in Standing => \E u \in Vmrs : Beside(w, u)
    BY GentleBeside
  <1>2. Closers' 
    BY ClosersKept DEF Closes, CloserStays
  <1>3. Alike'
    BY AlikeKept DEF Closes, Even
  <1>4. OneSpace'
    BY <1>1, OneSpaceKept DEF Closes
  <1>5. Retired'
    BY <1>1, RetiredKept DEF Closes, Even
  <1>6. Walks'
    <2>1. \A u \in Vmrs : vmr[u].st \in Walking => vmr[u].desc \in Descs
      BY Stands, LivePlace
    <2> QED BY <2>1, WalksKept DEF Closes, Even
  <1>7. Records'
    BY RecordKept DEF Closes, Records, Even
  <1> QED BY <1>2, <1>3, <1>4, <1>5, <1>6, <1>7 DEF Closes

-----------------------------------------------------------------------------
(* Steps in which every vmr only goes on.                                  *)
LEMMA FilledSame == ASSUME dir' = dir PROVE \A d \in Descs : Filled(d)
  BY DEF Filled
LEMMA EvenSame == ASSUME dir' = dir, desc' = desc PROVE \A d \in Descs : Even(d)
  BY FilledSame DEF Even, Untouched
LEMMA EvenStood ==
    ASSUME NEW d \in Descs, OnlyDesc(d, desc'[d]), desc'[d].st = desc[d].st,
           \A e \in Descs : Filled(e), NEW w \in Vmrs, vmr[w].desc = d, vmr[w].st \in Standing
    PROVE  \A e \in Descs : Even(e)
  <1> SUFFICES ASSUME NEW e \in Descs PROVE Even(e)
    OBVIOUS
  <1>1. CASE e = d
    <2>1. ~NoneStands(e)
      BY <1>1 DEF NoneStands
    <2> QED BY <1>1, <2>1 DEF Even, Untouched
  <1>2. CASE e # d
    <2>1. desc'[e] = desc[e]
      BY <1>2 DEF OnlyDesc
    <2> QED BY <2>1 DEF Even, Untouched
  <1> QED BY <1>1, <1>2
LEMMA ClosersStay ==
    ASSUME Frame, NEW d \in Descs, OnlyDesc(d, desc'[d]),
           NEW u \in Vmrs, vmr[u].st \in Taking /\ vmr[u].desc = d => desc'[d].closer = desc[d].closer
    PROVE  CloserStays(u)
  <1> SUFFICES ASSUME vmr[u].st \in Taking PROVE desc'[vmr[u].desc].closer = desc[vmr[u].desc].closer
    BY DEF CloserStays
  <1>1. vmr[u].desc \in Descs
    BY Stands, LivePlace
  <1>2. CASE vmr[u].desc = d
    BY <1>2
  <1>3. CASE vmr[u].desc # d
    <2>1. desc'[vmr[u].desc] = desc[vmr[u].desc]
      BY <1>1, <1>3 DEF OnlyDesc
    <2> QED BY <2>1
  <1> QED BY <1>2, <1>3
LEMMA GentleCloses ==
    ASSUME Frame, Closes, SharedKept, NEW a \in Vmrs, vmr'[a].st # "unused", rec' = rec,
           \A d \in Descs : Even(d), \A u \in Vmrs : CloserStays(u), \A w \in Vmrs : Gentle(w)
    PROVE  Closes'
  <1>1. PICK S \in SUBSET Vmrs : S = {}
    OBVIOUS
  <1>2. \A u \in Vmrs : FollowedIn(vmr[u].desc)
    BY <1>1, GentleFollowed
  <1>3. \A w \in Vmrs \ S : /\ Gentle(w) /\ CloserStays(w)
                            /\ \A o \in Gpas, i \in Idx : w \in rec'[o][i] => w \in rec[o][i]
    OBVIOUS
  <1>4. \A w \in S : /\ vmr'[w].st \in Standing => \E u \in Vmrs : Beside(w, u)
                     /\ Taker(w)' /\ WalkAt(w)' /\ RecordsOf(w)'
    BY <1>1
  <1> QED BY <1>2, <1>3, <1>4, ClosesKept
LEMMA StillCloses ==
    ASSUME Closes, vmr' = vmr, desc' = desc, dir' = dir, rec' = rec
    PROVE  Closes'
  <1>1. Closers' /\ Alike' /\ OneSpace'
    BY DEF Closes, Closers, Taker, Alike, OneSpace, Unused
  <1>2. Retired'
    BY DEF Closes, Retired, Deserted, NoneStands
  <1>3. Walks'
    BY DEF Closes, Walks, WalkAt, LastWalks, Misses, Queried, NoHolders, InTodo, NoneViews,
           Present, Group, SlotsOf
  <1>4. Records'
    BY DEF Closes, Records, RecordsOf, RecordAt, SlotsOf
  <1> QED BY <1>1, <1>2, <1>3, <1>4 DEF Closes

LEMMA CloseBeginCloses ==
    ASSUME Frame, Closes, NEW v \in Vmrs, CloseBegin(v)
    PROVE  Closes'
  <1>1. /\ UNCHANGED <<desc, dir, used, ref, cut, rec>>
        /\ vmr[v].st = "live" /\ Others({v})
        /\ vmr'[v].st = "enter" /\ vmr'[v].mm = vmr[v].mm /\ vmr'[v].desc = vmr[v].desc
        /\ vmr'[v].lo = vmr[v].lo /\ vmr'[v].hi = vmr[v].hi
    BY CloseBeginEffect
  <1>2. Types
    BY DEF Frame
  <1>3. Gentle(v)
    BY <1>1, GentleOn, PhaseSets, Stands
  <1>4. \A w \in Vmrs : Gentle(w)
    BY <1>1, <1>2, <1>3, GentleStays DEF Others
  <1>5. \A u \in Vmrs : CloserStays(u)
    BY <1>1 DEF CloserStays
  <1> QED BY <1>1, <1>4, <1>5, EvenSame, SharedSame, GentleCloses

LEMMA CloseWakeCloses ==
    ASSUME Frame, Closes, NEW v \in Vmrs, CloseWake(v)
    PROVE  Closes'
  <1>1. /\ UNCHANGED <<desc, dir, used, ref, cut, rec>>
        /\ vmr[v].st = "wake" /\ vmr'[v] = Dead
        /\ \A w \in Vmrs \ {v} : \/ vmr'[w] = vmr[w]
                                 \/ /\ vmr[w].st = "asleep" /\ vmr'[w].st = "enter"
                                    /\ vmr'[w].mm = vmr[w].mm /\ vmr'[w].desc = vmr[w].desc
                                    /\ vmr'[w].lo = vmr[w].lo /\ vmr'[w].hi = vmr[w].hi
                                    /\ vmr'[w].link = vmr[w].link
    BY CloseWakeEffect
  <1>2. vmr'[v].st = "dead" /\ vmr'[v].st # "unused" /\ "dead" \notin Standing
    BY <1>1, DeadFields, Stands
  <1>3. Gentle(v)
    <2>1. vmr[v].st \notin Recorded
      BY <1>1, Stands
    <2> QED BY <1>2, <2>1, GentleGone
  <1>4. ASSUME NEW w \in Vmrs \ {v} PROVE Gentle(w)
    <2>1. CASE vmr'[w] = vmr[w]
      BY <2>1, GentleSame
    <2>2. CASE vmr'[w] # vmr[w]
      BY <1>1, <2>2, GentleOn, PhaseSets, Stands
    <2> QED BY <2>1, <2>2
  <1>5. \A w \in Vmrs : Gentle(w)
    BY <1>3, <1>4
  <1>6. \A u \in Vmrs : CloserStays(u)
    BY <1>1 DEF CloserStays
  <1> QED BY <1>1, <1>2, <1>5, <1>6, EvenSame, SharedSame, GentleCloses

LEMMA CloseDropViewCloses ==
    ASSUME Frame, Closes, NEW v \in Vmrs, CloseDropView(v)
    PROVE  Closes'
  <1>1. PICK d \in Descs : DropViewEffect(v, d)
    BY CloseDropViewEffect
  <1>2. /\ dir' = dir /\ rec' = rec /\ OnlyVmr(v) /\ Onward(v)
        /\ vmr[v].st = "own" /\ vmr'[v].st = "dropped" /\ d = vmr[v].desc /\ OnlyDesc(d, desc'[d])
        /\ desc'[d].st = desc[d].st /\ desc'[d].shared = desc[d].shared
        /\ desc'[d].closer = desc[d].closer
    BY <1>1 DEF DropViewEffect
  <1>3. vmr'[v].mm = vmr[v].mm /\ vmr'[v].desc = vmr[v].desc /\ vmr'[v].lo = vmr[v].lo /\ vmr'[v].hi = vmr[v].hi
    BY <1>2 DEF Onward
  <1>4. Gentle(v)
    BY <1>2, <1>3, GentleOn
  <1>5. \A w \in Vmrs : Gentle(w)
    BY <1>2, <1>4, GentleSame DEF OnlyVmr
  <1>6. \A u \in Vmrs : CloserStays(u)
    BY <1>2, ClosersStay
  <1>7. \A e \in Descs : Even(e)
    BY <1>2, FilledSame, EvenStood, Stands, PhaseSets
  <1> QED BY <1>2, <1>5, <1>6, <1>7, SharedStays, GentleCloses

LEMMA SplitFailsCloses ==
    ASSUME Frame, Closes, NEW p \in Vmrs, SplitFails(p)
    PROVE  Closes'
  <1>1. PICK n \in Vmrs : AnnounceEffect(p, n)
    BY SplitFailsEffect
  <1>2. /\ desc' = desc /\ dir' = dir /\ rec' = rec /\ vmr[p].st = "live" /\ vmr[n].st = "unused"
        /\ Others({p, n}) /\ vmr'[p].st = "live" /\ vmr'[p].mm = vmr[p].mm /\ vmr'[p].desc = vmr[p].desc
        /\ vmr'[p].lo = vmr[p].lo /\ vmr'[p].hi = vmr[p].hi /\ vmr'[n].st = "pending"
    BY <1>1 DEF AnnounceEffect
  <1>3. Gentle(p)
    BY <1>2, GentleOn, PhaseSets, Stands
  <1>4. Gentle(n)
    <2>1. vmr[n].st \notin Recorded /\ vmr'[n].st \notin Standing
      BY <1>2, Stands, Phase
    <2> QED BY <2>1, GentleGone
  <1>5. \A w \in Vmrs : Gentle(w)
    BY <1>2, <1>3, <1>4, GentleStays DEF Others, Frame
  <1>6. \A u \in Vmrs : CloserStays(u)
    BY <1>2 DEF CloserStays
  <1> QED BY <1>2, <1>5, <1>6, EvenSame, SharedSame, GentleCloses

LEMMA SplitViewsCloses ==
    ASSUME Frame, Closes, NEW m \in Mms, SplitViews(m)
    PROVE  Closes'
  <1>1. PICK p \in Vmrs, d \in Descs, fails \in Outcomes : ViewsEffect(m, p, d, fails)
    BY SplitViewsEffect
  <1>2. /\ d = vmr[p].desc /\ vmr[p].st = "live" /\ vmr[p].mm = m /\ dir' = dir /\ rec' = rec
        /\ vmr'[p].st = "live" /\ vmr'[p].mm = m /\ vmr'[p].desc = d
        /\ vmr'[p].lo = vmr[p].lo /\ vmr'[p].hi = vmr[p].hi
        /\ Others({p}) /\ OnlyDesc(d, desc'[d])
        /\ desc'[d].st = desc[d].st /\ desc'[d].shared = desc[d].shared
        /\ desc'[d].closer = desc[d].closer
    BY <1>1 DEF ViewsEffect
  <1>3. Gentle(p)
    BY <1>2, GentleOn, PhaseSets, Stands
  <1>4. \A w \in Vmrs : Gentle(w)
    BY <1>2, <1>3, GentleStays DEF Others, Frame
  <1>5. \A u \in Vmrs : CloserStays(u)
    BY <1>2, ClosersStay
  <1>6. \A e \in Descs : Even(e)
    BY <1>2, FilledSame, EvenStood, Stands, PhaseSets
  <1> QED BY <1>2, <1>4, <1>5, <1>6, SharedStays, GentleCloses

LEMMA ForkSharedViewCloses ==
    ASSUME Frame, Closes, NEW m \in Mms, NEW v \in Vmrs, ForkSharedView(m, v)
    PROVE  Closes'
  <1>1. PICK d \in Descs : JoinedEffect(m, v, d)
    BY ForkSharedViewEffect
  <1>2. /\ vmr[v].st = "joining" /\ d = vmr[v].desc /\ dir' = dir /\ rec' = rec /\ OnlyVmr(v)
        /\ vmr'[v].st = "live" /\ vmr'[v].mm = vmr[v].mm /\ vmr'[v].desc = d
        /\ vmr'[v].lo = vmr[v].lo /\ vmr'[v].hi = vmr[v].hi /\ OnlyDesc(d, desc'[d])
        /\ desc'[d].st = desc[d].st /\ desc'[d].shared = desc[d].shared
        /\ desc'[d].closer = desc[d].closer
    BY <1>1 DEF JoinedEffect
  <1>3. Gentle(v)
    BY <1>2, GentleOn, Stands
  <1>4. \A w \in Vmrs : Gentle(w)
    BY <1>2, <1>3, GentleSame DEF OnlyVmr
  <1>5. \A u \in Vmrs : CloserStays(u)
    BY <1>2, ClosersStay
  <1>6. \A e \in Descs : Even(e)
    BY <1>2, FilledSame, EvenStood, Stands
  <1> QED BY <1>2, <1>4, <1>5, <1>6, SharedStays, GentleCloses
-----------------------------------------------------------------------------
(* Steps in which one vmr does more, and no record is made.                *)
LEMMA OneCloses ==
    ASSUME Frame, Closes, SharedKept, NEW v \in Vmrs, vmr'[v].st # "unused", rec' = rec,
           \A d \in Descs : Even(d), \A w \in Vmrs \ {v} : Gentle(w) /\ CloserStays(w),
           vmr'[v].st \in Standing => \E u \in Vmrs : Beside(v, u),
           \A u \in Vmrs : /\ vmr[u].st \in Walking /\ vmr'[v].st \in Holding
                           /\ vmr'[v].desc = vmr[u].desc
                           => \E x \in Vmrs : Follows(v, x),
           Taker(v)', WalkAt(v)', RecordsOf(v)'
    PROVE  Closes'
  <1>1. PICK S \in SUBSET Vmrs : S = {v}
    OBVIOUS
  <1>2. ASSUME NEW u \in Vmrs, vmr[u].st \in Walking PROVE FollowedIn(vmr[u].desc)
    <2>1. \A w \in Vmrs \ S : Gentle(w)
      BY <1>1
    <2>2. \A w \in S : vmr'[w].st \in Holding /\ vmr'[w].desc = vmr[u].desc =>
                          \E x \in Vmrs : Follows(w, x)
      BY <1>1, <1>2
    <2> QED BY <2>1, <2>2, GentleFollowed
  <1>3. \A w \in Vmrs \ S : /\ Gentle(w) /\ CloserStays(w)
                            /\ \A o \in Gpas, i \in Idx : w \in rec'[o][i] => w \in rec[o][i]
    BY <1>1
  <1>4. \A w \in S : /\ vmr'[w].st \in Standing => \E u \in Vmrs : Beside(w, u)
                     /\ Taker(w)' /\ WalkAt(w)' /\ RecordsOf(w)'
    BY <1>1
  <1> QED BY <1>2, <1>3, <1>4, ClosesKept
LEMMA NotWalking == ASSUME NEW v, vmr'[v].st \notin Walking PROVE WalkAt(v)'
  BY DEF WalkAt
LEMMA NotTaking == ASSUME NEW v, vmr'[v].st \notin Taking PROVE Taker(v)'
  BY DEF Taker
LEMMA NoRecords ==
    ASSUME Frame, Closes, NEW v \in Vmrs, vmr[v].st \notin Recorded,
           NEW o \in Gpas, NEW i \in Idx
    PROVE  v \notin rec[o][i]
  BY DEF Closes, Records, RecordsOf, RecordAt
LEMMA RecordOn ==
    ASSUME NEW v \in Vmrs, RecordsOf(v), dir' = dir, rec' = rec, vmr'[v].desc = vmr[v].desc,
           vmr'[v].lo = vmr[v].lo, vmr'[v].hi = vmr[v].hi,
           \A o \in Gpas, i \in Idx : v \in rec[o][i] =>
               /\ vmr'[v].st \in Recorded
               /\ vmr'[v].st \in Walking => GroupOf[i] \in vmr'[v].todo
    PROVE  RecordsOf(v)'
  <1> SUFFICES ASSUME NEW o \in Gpas, NEW i \in Idx, v \in rec[o][i] PROVE RecordAt(o, i, v)'
    BY DEF RecordsOf
  <1>1. dir[vmr[v].desc][i] = o /\ i \in SlotsOf(v)
    BY DEF RecordsOf, RecordAt
  <1>2. dir'[vmr'[v].desc][i] = o
    BY <1>1
  <1>3. i \in SlotsOf(v)'
    BY <1>1 DEF SlotsOf
  <1> QED BY <1>2, <1>3 DEF RecordAt
LEMMA OnlyGentle == ASSUME NEW v, OnlyVmr(v) PROVE \A w \in Vmrs \ {v} : Gentle(w)
  BY GentleSame DEF OnlyVmr
LEMMA BesideSelf ==
    ASSUME NEW v \in Vmrs, vmr[v].st \in Standing, vmr'[v].desc = vmr[v].desc, vmr'[v].mm = vmr[v].mm
    PROVE  \E u \in Vmrs : Beside(v, u)
  BY DEF Beside
(* Another one that takes things out has another vmdesc.                   *)
LEMMA OneTaker ==
    ASSUME Closes, NEW v \in Vmrs, NEW u \in Vmrs, vmr[v].st \in Taking, vmr[u].st \in Taking,
           vmr[v].desc = vmr[u].desc
    PROVE  u = v
  BY DEF Closes, Closers, Taker

LEMMA ForkFailsCloses ==
    ASSUME Frame, Closes, NEW m \in Mms, ForkFails(m)
    PROVE  Closes'
  <1>1. PICK shared \in BOOLEAN : Opens(m, shared)
    BY DEF ForkFails
  <1>2. PICK n \in Vmrs : n = NextVmr /\ vmr[n].st = "unused"
    BY <1>1, NextVmrUnused DEF Opens
  <1>3. /\ vmr' = [vmr EXCEPT ![n] = Dead] /\ desc' = desc /\ dir' = dir /\ rec' = rec
    BY <1>2 DEF ForkFails, dirVars
  <1>4. vmr'[n] = Dead /\ OnlyVmr(n)
    BY <1>3 DEF Frame, Types, OnlyVmr
  <1>5. vmr'[n].st = "dead" /\ vmr'[n].st # "unused" /\ "dead" \notin Standing
    BY <1>4, DeadFields, Stands
  <1>6. Gentle(n)
    <2>1. vmr[n].st \notin Recorded
      BY <1>2, Stands, Phase
    <2> QED BY <1>5, <2>1, GentleGone
  <1>7. \A w \in Vmrs : Gentle(w)
    BY <1>4, <1>6, OnlyGentle
  <1>8. \A u \in Vmrs : CloserStays(u)
    BY <1>3 DEF CloserStays
  <1> QED BY <1>3, <1>5, <1>7, <1>8, EvenSame, SharedSame, GentleCloses

LEMMA CloseEnterCloses ==
    ASSUME Frame, Closes, NEW v \in Vmrs, CloseEnter(v)
    PROVE  Closes'
  <1>1. PICK d \in Descs : EnterEffect(v, d)
    BY CloseEnterEffect
  <1>2. /\ dir' = dir /\ rec' = rec /\ OnlyVmr(v) /\ Onward(v)
        /\ vmr[v].st = "enter" /\ d = vmr[v].desc /\ OnlyDesc(d, desc'[d])
        /\ \/ vmr'[v].st = "own" /\ desc[d].closer = None /\ desc'[d].closer = v
           \/ vmr'[v].st = "asleep" /\ desc[d].closer # None /\ desc' = desc
        /\ desc'[d].st = desc[d].st /\ desc'[d].shared = desc[d].shared
    BY <1>1 DEF EnterEffect
  <1>3. vmr'[v].mm = vmr[v].mm /\ vmr'[v].desc = d /\ vmr'[v].lo = vmr[v].lo /\ vmr'[v].hi = vmr[v].hi
    BY <1>2 DEF Onward
  <1>4. /\ vmr[v].st \in Standing /\ vmr[v].st \in Holding /\ vmr[v].st \in Joined
        /\ vmr'[v].st \in Recorded /\ vmr'[v].st \notin Walking /\ vmr'[v].st # "unused"
    BY <1>2, Stands, PhaseSets
  <1>5. ASSUME NEW w \in Vmrs \ {v} PROVE CloserStays(w)
    <2>1. CASE desc' = desc
      BY <2>1 DEF CloserStays
    <2>2. CASE desc[d].closer = None
      <3>1. vmr[w].st \in Taking => vmr[w].desc # d
        BY <2>2, NoneIsNone DEF Closes, Closers, Taker
      <3> QED BY <1>2, <3>1, ClosersStay
    <2> QED BY <1>2, <2>1, <2>2
  <1>6. Taker(v)'
    <2>1. CASE vmr'[v].st = "own"
      BY <1>2, <1>3, <2>1 DEF Taker
    <2>2. CASE vmr'[v].st = "asleep"
      BY <2>2, Stands, NotTaking
    <2> QED BY <1>2, <2>1, <2>2
  <1>7. WalkAt(v)'
    BY <1>4, NotWalking
  <1>8. RecordsOf(v)'
    <2>1. RecordsOf(v)
      BY DEF Closes, Records
    <2> QED BY <1>2, <1>3, <1>4, <2>1, RecordOn
  <1>9. \A e \in Descs : Even(e)
    BY <1>2, <1>4, FilledSame, EvenStood
  <1>10. Beside(v, v) /\ Follows(v, v)
    <2>1. SlotsOf(v)' = SlotsOf(v)
      BY <1>3 DEF SlotsOf
    <2> QED BY <1>2, <1>3, <1>4, <2>1 DEF Beside, Follows
  <1>11. SharedKept
    BY <1>2, SharedStays
  <1>12. \A w \in Vmrs \ {v} : Gentle(w) /\ CloserStays(w)
    BY <1>2, <1>5, OnlyGentle
  <1> QED BY <1>2, <1>4, <1>6, <1>7, <1>8, <1>9, <1>10, <1>11, <1>12, OneCloses

(* A slot that is there, in a group the walk has yet to visit.             *)
LEMMA LeftPresent ==
    ASSUME Frame, Whole, NEW v \in Vmrs, NEW d \in Descs, d = vmr[v].desc,
           NEW i \in Idx, dir[d][i] # None, GroupOf[i] \in vmr[v].todo
    PROVE  GroupOf[i] \in Present(v)
  <1>1. GroupOf[i] \in Groups /\ GroupOf[i].first \in Members(GroupOf[i])
    BY Tiling
  <1>2. dir[d][GroupOf[i].first] = dir[d][i]
    BY <1>1 DEF Whole
  <1> QED BY <1>2 DEF Present

LEMMA WalksLast ==
    ASSUME Frame, Whole, Closes, NEW v \in Vmrs, vmr[v].st \in Walking, Present(v) = {},
           NEW o \in Gpas, NEW i \in Idx
    PROVE  v \notin rec[o][i]
  <1> SUFFICES ASSUME v \in rec[o][i] PROVE FALSE
    OBVIOUS
  <1>1. GroupOf[i] \in vmr[v].todo /\ dir[vmr[v].desc][i] = o
    BY DEF Closes, Records, RecordsOf, RecordAt
  <1>2. PICK d \in Descs : d = vmr[v].desc
    BY Stands, LivePlace
  <1>3. dir[d][i] # None
    BY <1>1, <1>2, NoneIsNone
  <1> QED BY <1>1, <1>2, <1>3, LeftPresent

LEMMA CloseClearCloses ==
    ASSUME Frame, Whole, Closes, NEW v \in Vmrs, CloseClear(v)
    PROVE  Closes'
  <1>1. PICK d \in Descs : ClearEffect(v, d)
    BY CloseClearEffect
  <1>2. /\ dir' = dir /\ rec' = rec /\ OnlyVmr(v) /\ Onward(v)
        /\ vmr[v].st = "walk" /\ Present(v) = {} /\ vmr'[v].st = "wake"
        /\ d = vmr[v].desc /\ OnlyDesc(d, desc'[d])
        /\ desc'[d].st = desc[d].st /\ desc'[d].shared = desc[d].shared
    BY <1>1 DEF ClearEffect
  <1>3. /\ vmr[v].st \in Walking /\ vmr[v].st \in Taking /\ vmr[v].st \in Standing
        /\ vmr'[v].st \notin Standing /\ vmr'[v].st \notin Taking /\ vmr'[v].st \notin Walking
        /\ vmr'[v].st \notin Holding /\ vmr'[v].st # "unused"
    BY <1>2, Stands DEF Walking
  <1>4. ASSUME NEW w \in Vmrs \ {v} PROVE CloserStays(w)
    <2>1. vmr[w].st \in Taking => vmr[w].desc # d
      BY <1>2, <1>3, OneTaker
    <2> QED BY <1>2, <2>1, ClosersStay
  <1>5. Taker(v)' /\ WalkAt(v)'
    BY <1>3, NotTaking, NotWalking
  <1>6. RecordsOf(v)'
    BY <1>2, <1>3, WalksLast DEF RecordsOf
  <1>7. \A e \in Descs : Even(e)
    BY <1>2, <1>3, FilledSame, EvenStood
  <1>8. SharedKept
    BY <1>2, SharedStays
  <1>9. \A w \in Vmrs \ {v} : Gentle(w) /\ CloserStays(w)
    BY <1>2, <1>4, OnlyGentle
  <1> QED BY <1>2, <1>3, <1>5, <1>6, <1>7, <1>8, <1>9, OneCloses

LEMMA ForkSharedRefCloses ==
    ASSUME Frame, Closes, NEW m \in Mms, ForkSharedRef(m)
    PROVE  Closes'
  <1>1. PICK k \in Mms, p \in Vmrs, n \in Vmrs, d \in Descs : JoinEffect(m, k, p, n, d)
    BY ForkSharedRefEffect
  <1>2. /\ vmr[p].st = "live" /\ vmr[p].desc = d /\ vmr[n].st = "unused" /\ desc[d].shared
        /\ dir' = dir /\ rec' = rec /\ OnlyVmr(n)
        /\ vmr'[n].st = "joining" /\ vmr'[n].desc = d
        /\ vmr'[n].lo = vmr[p].lo /\ vmr'[n].hi = vmr[p].hi
        /\ OnlyDesc(d, desc'[d]) /\ desc'[d].st = desc[d].st
        /\ desc'[d].shared = desc[d].shared /\ desc'[d].closer = desc[d].closer
    BY <1>1 DEF JoinEffect, OpensFor, IsChild
  <1>3. /\ vmr[p].st \in Standing /\ vmr[p].st \in Holding /\ vmr[p].st \in Joined
        /\ vmr[n].st \notin Recorded
        /\ vmr'[n].st \notin Taking /\ vmr'[n].st \notin Walking /\ vmr'[n].st # "unused"
    BY <1>2, Stands, PhaseSets, Phase
  <1>4. Taker(n)' /\ WalkAt(n)'
    BY <1>3, NotTaking, NotWalking
  <1>5. RecordsOf(n)'
    BY <1>2, <1>3, NoRecords DEF RecordsOf
  <1>6. Beside(n, p) /\ Follows(n, p)
    <2>1. SlotsOf(n)' = SlotsOf(p)
      BY <1>2 DEF SlotsOf
    <2> QED BY <1>2, <1>3, <2>1 DEF Beside, Follows
  <1>7. \A e \in Descs : Even(e)
    BY <1>2, <1>3, FilledSame, EvenStood
  <1>8. SharedKept
    BY <1>2, SharedStays
  <1>9. \A w \in Vmrs \ {n} : Gentle(w) /\ CloserStays(w)
    BY <1>2, OnlyGentle, ClosersStay
  <1> QED BY <1>2, <1>3, <1>4, <1>5, <1>6, <1>7, <1>8, <1>9, OneCloses

LEMMA ForkSiblingCloses ==
    ASSUME Frame, Closes, NEW m \in Mms, ForkSibling(m)
    PROVE  Closes'
  <1>1. PICK k \in Mms, p \in Vmrs, n \in Vmrs, c \in Descs, d \in Descs, w \in Vmrs,
             fails \in Outcomes : SiblingEffect(m, k, p, n, c, d, w, fails)
    BY ForkSiblingEffect
  <1>0. KidEffect(m, k, p, n, c, d) /\ DupEffect(p, c, d, TRUE) /\ rec' = rec
    BY <1>1 DEF SiblingEffect, DupEffect
  <1>2. /\ vmr[p].st = "live" /\ vmr[p].desc = c /\ vmr[n].st = "unused" /\ ~desc[c].shared
        /\ mm[k].op = "child" /\ rec' = rec /\ OnlyVmr(n)
        /\ vmr'[n].st = "live" /\ vmr'[n].desc = d /\ vmr'[n].mm = k
        /\ OnlyDesc(d, desc'[d]) /\ desc'[d].st = desc[d].st
        /\ desc'[d].shared = desc[d].shared /\ desc'[d].closer = desc[d].closer
        /\ d = vmr[w].desc /\ vmr[w].st = "live" /\ vmr[w].mm = k /\ DupEffect(p, c, d, TRUE)
    BY <1>0, <1>1 DEF SiblingEffect, KidEffect, OpensFor, IsChild
  <1>3. /\ vmr[p].st \in Standing /\ vmr[w].st \in Standing /\ vmr[w].st \in Holding
        /\ vmr[n].st \notin Recorded
        /\ vmr'[n].st \notin Taking /\ vmr'[n].st \notin Walking /\ vmr'[n].st # "unused"
    BY <1>2, Stands, PhaseSets, Phase
  <1>4. Taker(n)' /\ WalkAt(n)'
    BY <1>3, NotTaking, NotWalking
  <1>5. RecordsOf(n)'
    BY <1>2, <1>3, NoRecords DEF RecordsOf
  <1>6. Beside(n, w)
    BY <1>2, <1>3 DEF Beside
  <1>7. \A e \in Descs : Even(e)
    <2>1. ASSUME NEW e \in Descs PROVE Filled(e)
      <3>1. \A i \in Idx : dir'[e][i] = dir[e][i] \/ (e = d /\ dir[d][i] = None)
        BY <1>2 DEF DupEffect
      <3> QED BY <1>2, <1>3, <3>1 DEF Filled
    <2> QED BY <1>2, <1>3, <2>1, EvenStood
  <1>8. SharedKept
    BY <1>2, SharedStays
  <1>9. \A u \in Vmrs \ {n} : Gentle(u) /\ CloserStays(u)
    BY <1>2, OnlyGentle, ClosersStay
  <1>10. ASSUME NEW u \in Vmrs, vmr[u].st \in Walking PROVE vmr[u].desc # d
    <2> SUFFICES ASSUME vmr[u].desc = d PROVE FALSE
      OBVIOUS
    <2>1. ~desc[d].shared
      <3>1. desc[c].st # "unused" /\ desc[d].st # "unused"
        BY <1>2, <1>3, Stands, LivePlace
      <3> QED BY <1>2, <3>1 DEF Closes, Alike
    <2>2. vmr[u].st \in Standing /\ vmr[u].st \in Busy /\ vmr[u].st \in Placed
      BY <1>10, Stands
    <2>3. vmr[u].mm = k
      BY <1>2, <1>3, <2>1, <2>2 DEF Closes, OneSpace
    <2>4. mm[k].op = "close"
      BY <2>2, <2>3 DEF Frame, Places, Place
    <2> QED BY <1>2, <2>4
  <1> QED BY <1>2, <1>3, <1>4, <1>5, <1>6, <1>7, <1>8, <1>9, <1>10, OneCloses
-----------------------------------------------------------------------------
(* The walk begins: what the close may take is what nobody views.          *)
LEMMA UncoveredViews ==
    ASSUME Frame, ViewersCovered, NEW d \in Descs, NEW s \in 0..NPages, NEW e \in 0..NPages, s < e,
           NEW u \in Walked, u = find_uncovered(desc[d].views, s, e), u.fine, u.lo < u.hi,
           NEW w \in Vmrs, vmr[w].desc = d, vmr[w].st \in Joined
    PROVE  ~(vmr[w].lo < u.hi /\ u.lo < vmr[w].hi)
  <1> SUFFICES ASSUME vmr[w].lo < u.hi, u.lo < vmr[w].hi PROVE FALSE
    OBVIOUS
  <1>1. PICK views : views = desc[d].views /\ Listed(views)
    BY DEF Frame, Lists
  <1>2. vmr[w].lo \in Nat /\ vmr[w].hi \in Nat /\ vmr[w].lo < vmr[w].hi
    BY Stands, LivePlace
  <1>3. u.lo \in Nat /\ u.hi \in Nat
    BY DEF Walked
  <1>4. PICK k \in DOMAIN views : views[k].start <= vmr[w].lo /\ vmr[w].hi <= views[k].end
    BY <1>1 DEF ViewersCovered, Of, Joined
  <1>5. /\ views[k].start \in Nat /\ views[k].end \in Nat /\ k \in 1..Len(views)
    BY <1>1, <1>4, ListedFields, ViewFields DEF Listed
  <1>6. {p \in s..(e - 1) : Bare(views, Len(views), p)} = u.lo..(u.hi - 1)
    BY <1>1, FoundUncovered
  <1>7. PICK p \in Nat : p = (IF vmr[w].lo < u.lo THEN u.lo ELSE vmr[w].lo)
    BY <1>2, <1>3
  <1>8. u.lo <= p /\ p < u.hi /\ vmr[w].lo <= p /\ p < vmr[w].hi
    BY <1>2, <1>3, <1>7
  <1>9. Bare(views, Len(views), p)
    <2>1. p \in u.lo..(u.hi - 1)
      BY <1>3, <1>7, <1>8
    <2> QED BY <1>6, <2>1
  <1>10. views[k].start <= p /\ p < views[k].end
    BY <1>2, <1>4, <1>5, <1>7, <1>8
  <1> QED BY <1>5, <1>9, <1>10 DEF Bare

LEMMA ReleasedUnviewed ==
    ASSUME Frame, ViewersCovered, NEW d \in Descs, NEW s \in 0..NPages, NEW e \in 0..NPages, s < e,
           NEW u \in Walked, u = find_uncovered(desc[d].views, s, e), Released(u).fine
    PROVE  NoneViews(d, Released(u).lo..(Released(u).hi - 1))
  <1> SUFFICES ASSUME NEW w \in Vmrs, vmr[w].desc = d, vmr[w].st \in Joined,
                      NEW i \in Released(u).lo..(Released(u).hi - 1), i \in SlotsOf(w)
               PROVE  FALSE
    BY DEF NoneViews
  <1>1. u.lo \in Nat /\ u.hi \in Nat /\ u.fine \in BOOLEAN
    BY DEF Walked
  <1>2. CASE u.fine /\ u.lo < u.hi
    <2>1. Released(u).lo = SbUp(u.lo) /\ Released(u).hi = SbDown(u.hi)
      BY <1>2 DEF Released
    <2>2. i \in Int /\ SbUp(u.lo) <= i /\ i < SbDown(u.hi)
      BY <1>1, <2>1, DownUp
    <2>3. u.lo <= SbSize * i /\ SbSize * i + SbSize <= u.hi
      <3>1. PICK a \in Int : a = SbSize * i
        BY <2>2, Sizes
      <3>2. i < SbUp(u.lo) <=> SbSize * i < u.lo
        BY <1>1, <2>2, DownUp
      <3>3. SbDown(u.hi) <= i <=> u.hi < SbSize * i + SbSize
        BY <1>1, <2>2, DownUp
      <3>4. SbUp(u.lo) \in Int /\ SbDown(u.hi) \in Int
        BY <1>1, <2>2, DownUp
      <3>5. ~(a < u.lo) /\ ~(u.hi < a + SbSize)
        BY <2>2, <3>1, <3>2, <3>3, <3>4
      <3> QED BY <1>1, <3>1, <3>5, Sizes
    <2>4. vmr[w].lo < SbSize * i + SbSize /\ SbSize * i < vmr[w].hi
      BY <2>2, Stands, LivePlace, SlotIn DEF SlotsOf
    <2>5. vmr[w].lo \in Nat /\ vmr[w].hi \in Nat
      BY Stands, LivePlace
    <2>6. PICK a \in Int : a = SbSize * i
      BY <2>2, Sizes
    <2>7. vmr[w].lo < u.hi /\ u.lo < vmr[w].hi
      BY <1>1, <2>3, <2>4, <2>5, <2>6, Sizes
    <2> QED BY <1>2, <2>7, UncoveredViews
  <1>3. CASE ~(u.fine /\ u.lo < u.hi)
    <2>1. Released(u).lo = 0 /\ Released(u).hi = 0
      BY <1>3 DEF Released, Nothing
    <2> QED BY <2>1
  <1> QED BY <1>2, <1>3

LEMMA SlotsWalked ==
    ASSUME Frame, NEW v \in Vmrs, vmr[v].st \in Placed, NEW i \in SlotsOf(v)
    PROVE  GroupOf[i] \in WalkOf(SbDown(vmr[v].lo), SbUp(vmr[v].hi))
  <1>1. i \in Idx /\ i \in Nat
    BY LivePlace, NoneIsNone
  <1>2. GroupOf[i] \in Groups /\ i \in Members(GroupOf[i])
    BY <1>1, Tiling
  <1>3. PICK g \in Groups : g = GroupOf[i]
    BY <1>2
  <1>4. g.first \in Int /\ g.end \in Int
    BY <1>3, GroupsType DEF GroupsTyped, Idx
  <1>5. g.first <= i /\ i < g.end
    BY <1>1, <1>2, <1>3, <1>4 DEF Members
  <1>6. SbDown(vmr[v].lo) \in Int /\ SbUp(vmr[v].hi) \in Int
    BY LivePlace, DownUp
  <1>7. SbDown(vmr[v].lo) <= i /\ i < SbUp(vmr[v].hi)
    BY <1>1, <1>6 DEF SlotsOf, Slots
  <1>8. g.first < SbUp(vmr[v].hi) /\ SbDown(vmr[v].lo) < g.end
    BY <1>1, <1>4, <1>5, <1>6, <1>7
  <1> QED BY <1>3, <1>8 DEF WalkOf

LEMMA CloseDropRefCloses ==
    ASSUME Frame, Books, Closes, NEW v \in Vmrs, CloseDropRef(v)
    PROVE  Closes'
  <1>1. PICK d \in Descs : d = vmr[v].desc
    BY CloseDropRefEffect
  <1>2. PICK n \in Int : n = desc[d].refcount - 1
    BY <1>1, CloseDropRefEffect
  <1>3. vmr[v].st = "dropped" /\ vmr[v].st \in Placed
    BY CloseDropRefEffect, Phase DEF Busy, Placed
  <1>4. /\ vmr[v].lo \in 0..NPages /\ vmr[v].hi \in 0..NPages /\ vmr[v].lo < vmr[v].hi
        /\ Listed(desc[d].views)
    BY <1>1, <1>3, LivePlace
  <1>5. PICK u \in Walked : u = find_uncovered(desc[d].views, vmr[v].lo, vmr[v].hi)
    BY <1>4, FoundUncovered
  <1>6. /\ dir' = dir /\ rec' = rec /\ OnlyVmr(v) /\ Onward(v)
        /\ vmr'[v].st = "walk" /\ vmr'[v].cnt = n
        /\ vmr'[v].unc = (IF n > 0 THEN Released(u) ELSE Nothing)
        /\ vmr'[v].todo = (IF n > 0 THEN WalkOf(SbDown(vmr[v].lo), SbUp(vmr[v].hi)) ELSE Groups)
        /\ OnlyDesc(d, desc'[d]) /\ desc'[d].st = desc[d].st /\ desc'[d].shared = desc[d].shared
        /\ desc'[d].closer = desc[d].closer
    BY <1>1, <1>2, <1>5, CloseDropRefEffect
  <1>7. /\ vmr[v].st \in Taking /\ vmr[v].st \in Standing /\ vmr[v].st \in Holding
        /\ vmr'[v].st \in Recorded /\ vmr'[v].st \notin Holding /\ vmr'[v].st # "unused"
        /\ vmr'[v].st # "put" /\ vmr'[v].st \notin Joined
    BY <1>3, <1>6, Stands DEF Taking, Walking
  <1>8. vmr'[v].mm = vmr[v].mm /\ vmr'[v].desc = d /\ vmr'[v].lo = vmr[v].lo /\ vmr'[v].hi = vmr[v].hi
    BY <1>1, <1>6 DEF Onward
  <1>9. \A i \in SlotsOf(v) : GroupOf[i] \in vmr'[v].todo
    <2> SUFFICES ASSUME NEW i \in SlotsOf(v) PROVE GroupOf[i] \in vmr'[v].todo
      OBVIOUS
    <2>1. GroupOf[i] \in WalkOf(SbDown(vmr[v].lo), SbUp(vmr[v].hi))
      BY <1>3, SlotsWalked
    <2>2. WalkOf(SbDown(vmr[v].lo), SbUp(vmr[v].hi)) \subseteq Groups
      BY DEF WalkOf
    <2> QED BY <1>6, <2>1, <2>2
  <1>10. n >= 0 /\ (n = 0 => NoHolders(d)')
    <2>1. PICK H \in SUBSET Vmrs : H = Of(d, Holding)
      BY DEF Of
    <2>2. v \in H /\ desc[d].refcount = Cardinality(H)
      BY <1>1, <1>7, <2>1 DEF Of, Books, Counted
    <2>3. PICK R \in SUBSET Vmrs : R = H \ {v}
      OBVIOUS
    <2>4. Cardinality(R) = n /\ n \in Nat /\ (n = 0 => R = {})
      BY <1>2, <2>1, <2>2, <2>3, VmrCounts
    <2>5. ASSUME n = 0, NEW w \in Vmrs, vmr'[w].desc = d, vmr'[w].st \in Holding PROVE FALSE
      <3>1. w # v
        BY <1>7, <2>5
      <3>2. vmr'[w] = vmr[w]
        BY <1>6, <3>1 DEF OnlyVmr
      <3>3. w \in R
        BY <2>1, <2>3, <2>5, <3>1, <3>2 DEF Of
      <3> QED BY <2>4, <2>5, <3>3
    <2> QED BY <2>4, <2>5 DEF NoHolders
  <1>11. WalkAt(v)'
    <2>1. LastWalks(v)'
      <3>1. SUFFICES ASSUME n = 0 PROVE vmr'[v].unc.fine /\ NoHolders(d)' /\ InTodo(v)'
        BY <1>6, <1>8 DEF LastWalks
      <3>2. vmr'[v].unc = Nothing /\ vmr'[v].todo = Groups
        BY <1>6, <3>1
      <3>3. InTodo(v)'
        BY <3>2, Tiling DEF InTodo
      <3>4. vmr'[v].unc.fine
        BY <3>2 DEF Nothing
      <3> QED BY <1>10, <3>1, <3>3, <3>4
    <2>2. Misses(v)'
      <3>1. SUFFICES ASSUME n # 0, vmr'[v].unc.fine,
                            NEW S, S = vmr'[v].unc.lo..(vmr'[v].unc.hi - 1)
                     PROVE  NoneViews(d, S)'
        BY <1>6, <1>8 DEF Misses
      <3>2. n > 0
        BY <1>10, <3>1
      <3>3. vmr'[v].unc = Released(u)
        BY <1>6, <3>2
      <3>4. ViewersCovered
        BY BooksCover
      <3>5. S = Released(u).lo..(Released(u).hi - 1) /\ Released(u).fine
        BY <3>1, <3>3
      <3>6. NoneViews(d, S)
        BY <1>4, <1>5, <3>4, <3>5, ReleasedUnviewed
      <3>7. \A w \in Vmrs : vmr'[w].desc = d /\ vmr'[w].st \in Joined => vmr'[w] = vmr[w]
        BY <1>6, <1>7 DEF OnlyVmr
      <3> QED BY <3>6, <3>7 DEF NoneViews, SlotsOf
    <2>3. Queried(v)'
      BY <1>7 DEF Queried
    <2> QED BY <2>1, <2>2, <2>3 DEF WalkAt
  <1>12. Taker(v)'
    <2>1. desc[d].closer = v
      BY <1>1, <1>7 DEF Closes, Closers, Taker
    <2> QED BY <1>6, <1>8, <2>1 DEF Taker
  <1>13. RecordsOf(v)'
    <2>1. RecordsOf(v)
      BY DEF Closes, Records
    <2>2. \A o \in Gpas, i \in Idx : v \in rec[o][i] => i \in SlotsOf(v)
      BY <2>1 DEF RecordsOf, RecordAt
    <2> QED BY <1>1, <1>6, <1>7, <1>8, <1>9, <2>1, <2>2, RecordOn
  <1>14. \A e \in Descs : Even(e)
    BY <1>1, <1>6, <1>7, FilledSame, EvenStood
  <1>15. SharedKept
    BY <1>6, SharedStays
  <1>16. \A w \in Vmrs \ {v} : Gentle(w) /\ CloserStays(w)
    BY <1>6, OnlyGentle, ClosersStay
  <1>17. \E x \in Vmrs : Beside(v, x)
    BY <1>1, <1>7, <1>8, BesideSelf
  <1> QED BY <1>6, <1>7, <1>11, <1>12, <1>13, <1>14, <1>15, <1>16, <1>17, OneCloses
-----------------------------------------------------------------------------
(* The query of a group: nobody views what is_covered() says no to.        *)
LEMMA UncoveredGroup ==
    ASSUME Frame, ViewersCovered, NEW d \in Descs, NEW g \in Groups,
           ~is_covered(desc[d].views, g.first * SbSize, g.end * SbSize)
    PROVE  NoneViews(d, Members(g))
  <1> SUFFICES ASSUME NEW w \in Vmrs, vmr[w].desc = d, vmr[w].st \in Joined,
                      NEW i \in Members(g), i \in SlotsOf(w)
               PROVE  FALSE
    BY DEF NoneViews
  <1>1. g.first \in Int /\ g.end \in Int
    BY GroupsType DEF GroupsTyped, Idx
  <1>2. i \in Int /\ g.first <= i /\ i + 1 <= g.end
    BY <1>1 DEF Members
  <1>3. vmr[w].lo < SbSize * i + SbSize /\ SbSize * i < vmr[w].hi
    BY <1>2, Stands, LivePlace, SlotIn DEF SlotsOf
  <1>4. SbSize * g.first <= SbSize * i /\ SbSize * (i + 1) <= SbSize * g.end
    BY <1>1, <1>2, Sizes, TimesMono
  <1>5. PICK a \in Int, b \in Int, c \in Int :
            a = SbSize * i /\ b = SbSize * g.first /\ c = SbSize * g.end
    BY <1>1, <1>2, Sizes
  <1>6. b = g.first * SbSize /\ c = g.end * SbSize /\ SbSize * (i + 1) = a + SbSize
    BY <1>1, <1>2, <1>5, Sizes
  <1>7. PICK views : views = desc[d].views /\ Listed(views)
    BY DEF Frame, Lists
  <1>8. PICK k \in DOMAIN views : views[k].start <= vmr[w].lo /\ vmr[w].hi <= views[k].end
    BY <1>7 DEF ViewersCovered, Of, Joined
  <1>9. views[k].start \in Nat /\ views[k].end \in Nat
    BY <1>7, <1>8, ListedFields, ViewFields
  <1>10. vmr[w].lo \in Nat /\ vmr[w].hi \in Nat
    BY Stands, LivePlace
  <1>11. views[k].start < c /\ views[k].end > b
    BY <1>3, <1>4, <1>5, <1>6, <1>8, <1>9, <1>10, Sizes
  <1>12. views[k].start < g.end * SbSize /\ views[k].end > g.first * SbSize
    BY <1>6, <1>11
  <1> QED BY <1>7, <1>12 DEF is_covered

LEMMA CloseQueryCloses ==
    ASSUME Frame, Whole, Books, Closes, NEW v \in Vmrs, CloseQuery(v)
    PROVE  Closes'
  <1>1. PICK g \in Groups : g = Group(v) /\ g \in Present(v)
    BY CloseQueryEffect
  <1>2. PICK todo : todo = Present(v)
    OBVIOUS
  <1>3. /\ desc' = desc /\ dir' = dir /\ rec' = rec /\ OnlyVmr(v) /\ Onward(v)
        /\ vmr[v].st = "walk" /\ ~vmr[v].unc.fine
        /\ vmr'[v].st = "put" /\ vmr'[v].cnt = vmr[v].cnt /\ vmr'[v].unc = vmr[v].unc
        /\ vmr'[v].todo = todo
    BY <1>2, CloseQueryEffect
  <1>4. vmr'[v].rel => ~is_covered(desc[vmr[v].desc].views, g.first * SbSize, g.end * SbSize)
    BY <1>1, CloseQueryEffect
  <1>5. vmr'[v].mm = vmr[v].mm /\ vmr'[v].desc = vmr[v].desc /\ vmr'[v].lo = vmr[v].lo /\ vmr'[v].hi = vmr[v].hi
    BY <1>3 DEF Onward
  <1>6. /\ vmr[v].st \in Walking /\ vmr[v].st \in Taking /\ vmr[v].st \in Standing
        /\ vmr'[v].st \in Recorded /\ vmr'[v].st \notin Holding /\ vmr'[v].st # "unused"
        /\ vmr'[v].st \notin Joined /\ vmr'[v].st \in Walking
    BY <1>3, Stands DEF Walking
  <1>7. PICK d \in Descs : d = vmr[v].desc
    BY <1>6, Stands, LivePlace
  <1>8. LastWalks(v)
    BY <1>6 DEF Closes, Walks, WalkAt
  <1>9. vmr[v].cnt # 0
    BY <1>3, <1>8 DEF LastWalks
  <1>10. WalkAt(v)'
    <2>1. LastWalks(v)' /\ Misses(v)'
      BY <1>3, <1>9 DEF LastWalks, Misses
    <2>2. Present(v)' = todo
      BY <1>2, <1>3, <1>5 DEF Present
    <2>3. Group(v)' = g
      BY <1>1, <1>2, <2>2 DEF Group
    <2>4. PICK S : S = Members(g)
      OBVIOUS
    <2>5. ASSUME vmr'[v].rel PROVE NoneViews(d, S)'
      <3>1. ViewersCovered
        BY BooksCover
      <3>2. NoneViews(d, S)
        BY <1>4, <1>7, <2>4, <2>5, <3>1, UncoveredGroup
      <3>3. \A w \in Vmrs : vmr'[w].desc = d /\ vmr'[w].st \in Joined => vmr'[w] = vmr[w]
        BY <1>3, <1>6 DEF OnlyVmr
      <3> QED BY <3>2, <3>3 DEF NoneViews, SlotsOf
    <2>6. Members(Group(v))' = S
      BY <2>3, <2>4 DEF Members
    <2>7. vmr'[v].rel => NoneViews(vmr[v].desc, Members(Group(v)))'
      BY <1>5, <1>7, <2>5, <2>6 DEF NoneViews
    <2>8. Queried(v)'
      BY <1>3, <1>9, <2>2, <2>7 DEF Queried
    <2> QED BY <2>1, <2>8 DEF WalkAt
  <1>11. Taker(v)'
    <2>1. desc[d].closer = v
      BY <1>6, <1>7 DEF Closes, Closers, Taker
    <2> QED BY <1>3, <1>5, <1>7, <2>1 DEF Taker
  <1>12. RecordsOf(v)'
    <2>1. RecordsOf(v)
      BY DEF Closes, Records
    <2>2. ASSUME NEW o \in Gpas, NEW i \in Idx, v \in rec[o][i] PROVE GroupOf[i] \in todo
      <3>1. RecordAt(o, i, v)
        BY <2>1, <2>2 DEF RecordsOf
      <3>2. dir[d][i] # None /\ GroupOf[i] \in vmr[v].todo
        BY <1>6, <1>7, <3>1, NoneIsNone DEF RecordAt
      <3> QED BY <1>2, <1>7, <3>2, LeftPresent
    <2> QED BY <1>3, <1>5, <1>6, <2>1, <2>2, RecordOn
  <1>12a. \A u \in Vmrs : CloserStays(u)
    BY <1>3 DEF CloserStays
  <1>13. \A w \in Vmrs \ {v} : Gentle(w) /\ CloserStays(w)
    BY <1>3, <1>12a, OnlyGentle
  <1>14. \E x \in Vmrs : Beside(v, x)
    BY <1>5, <1>6, BesideSelf
  <1> QED BY <1>3, <1>6, <1>10, <1>11, <1>12, <1>13, <1>14, EvenSame, SharedSame, OneCloses

(* The put of a group: what goes is viewed by nobody.                      *)
LEMMA PutUnviewed ==
    ASSUME Frame, Closes, NEW v \in Vmrs, NEW d \in Descs, NEW g \in Groups, d = vmr[v].desc,
           g = Group(v), vmr[v].st = "put" \/ (vmr[v].st = "walk" /\ vmr[v].unc.fine), Releases(v)
    PROVE  NoneViews(d, Members(g))
  <1>1. LastWalks(v) /\ Misses(v) /\ Queried(v)
    BY DEF Closes, Walks, WalkAt, Walking
  <1>2. CASE vmr[v].cnt = 0
    BY <1>1, <1>2, Stands DEF LastWalks, NoHolders, NoneViews
  <1>3. CASE vmr[v].cnt # 0 /\ vmr[v].unc.fine
    <2>1. vmr[v].unc.lo <= g.first /\ g.end <= vmr[v].unc.hi
      <3>1. g.first >= vmr[v].unc.lo /\ g.end <= vmr[v].unc.hi
        BY <1>3 DEF Releases
      <3> QED BY <3>1
    <2>2. vmr[v].unc \in Uncovered
      BY VmrRecs DEF Frame, Types
    <2>3. g.first \in Int /\ g.end \in Int /\ vmr[v].unc.lo \in Int /\ vmr[v].unc.hi \in Int
      BY <2>2, GroupsType, Sizes DEF GroupsTyped, Idx, Uncovered
    <2>4. Members(g) \subseteq vmr[v].unc.lo..(vmr[v].unc.hi - 1)
      BY <2>1, <2>3 DEF Members
    <2> QED BY <1>1, <1>3, <2>4 DEF Misses, NoneViews
  <1>4. CASE vmr[v].cnt # 0 /\ ~vmr[v].unc.fine
    <2>1. vmr[v].rel
      BY <1>4 DEF Releases
    <2> QED BY <1>1, <1>4, <2>1 DEF Queried
  <1> QED BY <1>2, <1>3, <1>4
LEMMA ClosePutCloses ==
    ASSUME Frame, Whole, Closes, NEW v \in Vmrs, ClosePut(v)
    PROVE  Closes'
  <1>1. PICK d \in Descs, g \in Groups, o \in Gpas, put \in BOOLEAN : PutEffect(v, d, g, o, put)
    BY ClosePutEffect
  <1>2. /\ d = vmr[v].desc /\ g = Group(v) /\ o = dir[d][g.first] /\ put = Releases(v)
        /\ desc' = desc /\ OnlyVmr(v) /\ Onward(v)
        /\ vmr[v].st = "put" \/ (vmr[v].st = "walk" /\ vmr[v].unc.fine)
        /\ vmr'[v].st = "walk" /\ vmr'[v].cnt = vmr[v].cnt /\ vmr'[v].unc = vmr[v].unc
        /\ vmr'[v].todo = Present(v) \ {g}
    BY <1>1 DEF PutEffect
  <1>3. \A x \in Gpas, i \in Idx :
          rec'[x][i] = IF x = o /\ i \in Members(g) THEN rec[x][i] \ {v} ELSE rec[x][i]
    BY <1>1 DEF PutEffect
  <1>4. \A e \in Descs, i \in Idx :
          dir'[e][i] = IF e = d /\ i \in Members(g) /\ put THEN None ELSE dir[e][i]
    BY <1>1 DEF PutEffect
  <1>5. /\ vmr[v].st \in Walking /\ vmr[v].st \in Taking /\ vmr[v].st \in Standing
        /\ vmr'[v].st \in Recorded /\ vmr'[v].st \notin Holding /\ vmr'[v].st # "unused"
        /\ vmr'[v].st \notin Joined /\ vmr'[v].st # "put"
    BY <1>2, Stands DEF Walking
  <1>6. vmr'[v].mm = vmr[v].mm /\ vmr'[v].desc = d /\ SlotsOf(v)' = SlotsOf(v)
    BY <1>2 DEF Onward, SlotsOf
  <1>7. \A w \in Vmrs \ {v} : vmr'[w] = vmr[w] /\ Gentle(w)
    BY <1>2, GentleSame DEF OnlyVmr
  <1>8. \A e : FollowedIn(e)
    <2>1. PICK S \in SUBSET Vmrs : S = {v}
      OBVIOUS
    <2>2. \A w \in Vmrs \ S : Gentle(w)
      BY <1>7, <2>1
    <2>3. \A w \in S : vmr'[w].st \notin Holding
      BY <1>5, <2>1
    <2> QED BY <2>2, <2>3, GentleFollowed
  <1>9. put => NoneViews(d, Members(g))
    BY <1>2, PutUnviewed
  <1>10. \A w \in Vmrs : vmr'[w].st \in Standing => \E u \in Vmrs : Beside(w, u)
    BY <1>2, <1>5, <1>6, <1>7, GentleBeside, BesideSelf
  <1>11. \A e \in Descs \ {d} : Filled(e)
    BY <1>4 DEF Filled
  <1>12. Closers'
    <2>1. Taker(v)'
      <3>1. desc[d].closer = v
        BY <1>2, <1>5 DEF Closes, Closers, Taker
      <3> QED BY <1>2, <1>6, <3>1 DEF Taker
    <2> QED BY <1>2, <1>7, <2>1, ClosersKept DEF Closes
  <1>13. Alike'
    BY <1>2, <1>5, SharedSame, AlikeKept DEF Closes
  <1>14. OneSpace'
    BY <1>2, <1>10, SharedSame, OneSpaceKept DEF Closes
  <1>15. Retired'
    <2> SUFFICES ASSUME NEW e \in Descs, desc'[e].st # "alive" PROVE Deserted(e)'
      BY DEF Retired
    <2>1. Deserted(e)
      BY <1>2 DEF Closes, Retired
    <2>2. e # d
      BY <1>2, <1>5, <2>1 DEF Deserted, NoneStands
    <2>3. Filled(e) /\ Untouched(e) /\ BesideIn(e)
      BY <1>2, <1>10, <1>11, <2>2 DEF Untouched, BesideIn
    <2> QED BY <2>1, <2>3, DesertedKept
  <1>16. \A i \in Idx : /\ dir'[d][i] = dir[d][i] \/ dir'[d][i] = None
                        /\ put /\ i \in Members(g) => dir'[d][i] = None
    BY <1>4
  <1>17. ASSUME NEW i \in Idx, dir[d][i] # None, GroupOf[i] \in vmr[v].todo, i \notin Members(g)
         PROVE  GroupOf[i] \in vmr'[v].todo
    <2>1. GroupOf[i] \in Present(v)
      BY <1>2, <1>17, LeftPresent
    <2>2. GroupOf[i] # g
      BY <1>17, Tiling
    <2> QED BY <1>2, <2>1, <2>2
  <1>18. WalkAt(v)'
    <2>1. LastWalks(v) /\ Misses(v)
      BY <1>5 DEF Closes, Walks, WalkAt
    <2>2. LastWalks(v)'
      <3> SUFFICES ASSUME vmr[v].cnt = 0 PROVE vmr'[v].unc.fine /\ NoHolders(d)' /\ InTodo(v)'
        BY <1>2, <1>6 DEF LastWalks
      <3>1. put
        BY <1>2 DEF Releases
      <3>2. NoHolders(d) /\ InTodo(v) /\ vmr[v].unc.fine
        BY <1>2, <2>1 DEF LastWalks
      <3>3. NoHolders(d)'
        BY <1>5, <1>7, <3>2 DEF NoHolders
      <3>4. InTodo(v)'
        <4> SUFFICES ASSUME NEW i \in Idx, dir'[d][i] # None PROVE GroupOf[i] \in vmr'[v].todo
          BY <1>6 DEF InTodo
        <4>1. dir[d][i] # None /\ i \notin Members(g)
          BY <1>16, <3>1
        <4>2. GroupOf[i] \in vmr[v].todo
          BY <1>2, <3>2, <4>1 DEF InTodo
        <4> QED BY <1>17, <4>1, <4>2
      <3> QED BY <1>2, <3>2, <3>3, <3>4
    <2>3. Misses(v)'
      <3>1. SUFFICES ASSUME vmr[v].cnt # 0, vmr[v].unc.fine,
                            NEW S, S = vmr[v].unc.lo..(vmr[v].unc.hi - 1)
                     PROVE  NoneViews(d, S)'
        BY <1>2, <1>6 DEF Misses
      <3>2. NoneViews(d, S)
        BY <1>2, <2>1, <3>1 DEF Misses
      <3>3. \A w \in Vmrs : vmr'[w].desc = d /\ vmr'[w].st \in Joined => vmr'[w] = vmr[w]
        BY <1>5, <1>7
      <3> QED BY <3>2, <3>3 DEF NoneViews, SlotsOf
    <2>4. Queried(v)'
      BY <1>5 DEF Queried
    <2> QED BY <2>2, <2>3, <2>4 DEF WalkAt
  <1>19. Walks'
    <2> SUFFICES ASSUME NEW u \in Vmrs \ {v} PROVE WalkAt(u)'
      BY <1>18 DEF Walks
    <2>1. vmr'[u] = vmr[u] /\ WalkAt(u)
      BY <1>7 DEF Closes, Walks
    <2>2. vmr[u].st \in Walking => Filled(vmr[u].desc)
      <3>1. SUFFICES ASSUME vmr[u].st \in Walking PROVE Filled(vmr[u].desc)
        OBVIOUS
      <3>2. vmr[u].desc # d /\ vmr[u].desc \in Descs
        BY <1>2, <1>5, <3>1, Stands, OneTaker, LivePlace
      <3> QED BY <1>11, <3>2
    <2> QED BY <1>8, <2>1, <2>2, WalkKept
  <1>20. RecordsOf(v)'
    <2> SUFFICES ASSUME NEW x \in Gpas, NEW i \in Idx, v \in rec'[x][i] PROVE RecordAt(x, i, v)'
      BY DEF RecordsOf
    <2>1. v \in rec[x][i] /\ ~(x = o /\ i \in Members(g))
      BY <1>3
    <2>2. RecordAt(x, i, v)
      BY <2>1 DEF Closes, Records, RecordsOf
    <2>3. dir[d][i] = x /\ x # None /\ GroupOf[i] \in vmr[v].todo /\ i \in SlotsOf(v)
      BY <1>2, <1>5, <2>2, NoneIsNone DEF RecordAt
    <2>4. i \notin Members(g)
      <3>1. SUFFICES ASSUME i \in Members(g) PROVE FALSE
        OBVIOUS
      <3>2. GroupOf[i] = g /\ g.first \in Members(g)
        BY <3>1, Tiling
      <3>3. dir[d][g.first] = dir[d][i]
        BY <3>2 DEF Whole
      <3> QED BY <1>2, <2>1, <2>3, <3>1, <3>3
    <2>5. dir'[d][i] = x
      BY <1>4, <2>3, <2>4
    <2>6. GroupOf[i] \in vmr'[v].todo
      BY <1>17, <2>3, <2>4
    <2> QED BY <1>5, <1>6, <2>3, <2>5, <2>6 DEF RecordAt
  <1>21. Records'
    <2> SUFFICES ASSUME NEW w \in Vmrs \ {v}, NEW x \in Gpas, NEW i \in Idx, w \in rec'[x][i]
                 PROVE  RecordAt(x, i, w)'
      BY <1>20 DEF Records, RecordsOf
    <2>1. w \in rec[x][i]
      BY <1>3
    <2>2. RecordAt(x, i, w)
      BY <2>1 DEF Closes, Records, RecordsOf
    <2>3. /\ vmr[w].st \in Recorded
          /\ vmr[w].st \in Walking => GroupOf[i] \in vmr[w].todo
          /\ dir[vmr[w].desc][i] = x /\ i \in SlotsOf(w)
      BY <2>2 DEF RecordAt
    <2>4. PICK e \in Descs : e = vmr[w].desc
      BY <2>3, Stands, LivePlace
    <2>5. dir'[e][i] = x
      <3>1. SUFFICES ASSUME e = d, i \in Members(g), put PROVE FALSE
        BY <1>4, <2>3, <2>4
      <3>2. vmr[w].st \notin Taking
        BY <1>2, <1>5, <2>4, <3>1, OneTaker
      <3>3. vmr[w].st \in Joined
        BY <2>3, <3>2, Stands
      <3> QED BY <1>9, <2>3, <2>4, <3>1, <3>3 DEF NoneViews
    <2>6. vmr'[w] = vmr[w] /\ SlotsOf(w)' = SlotsOf(w)
      BY <1>7 DEF SlotsOf
    <2> QED BY <2>3, <2>4, <2>5, <2>6 DEF RecordAt
  <1> QED BY <1>12, <1>13, <1>14, <1>15, <1>19, <1>21 DEF Closes

(* The last one leaves nothing behind.                                     *)
LEMMA NoViewsLeft ==
    ASSUME Frame, Books, NEW d \in Descs, NoHolders(d)
    PROVE  desc[d].views = <<>>
  <1>1. PICK views : views = desc[d].views /\ Listed(views)
    BY DEF Frame, Lists
  <1>2. PICK n \in Nat : n = Len(views) /\ DOMAIN views = 1..n
    BY <1>1 DEF Listed
  <1>3. n = 0
    <2>1. SUFFICES ASSUME n # 0 PROVE FALSE
      OBVIOUS
    <2>2. 1 \in DOMAIN views
      BY <1>2, <2>1
    <2>3. PICK s \in 0..NPages, e \in 0..NPages : s = views[1].start /\ e = views[1].end
      BY <1>1, <2>2, ListedFields, ViewFields
    <2>4. CountOf(views, s, e) > 0
      BY <1>1, <2>2, <2>3, CountPositive
    <2>5. PICK C \in SUBSET Vmrs : C = Claimants(d, s, e)
      BY DEF Claimants
    <2>6. C = {}
      <3>1. ASSUME NEW w \in C PROVE FALSE
        <4>1. vmr[w].st \in Viewing /\ vmr[w].desc = d
          BY <2>5, <3>1 DEF Claimants, Claims
        <4> QED BY <2>5, <4>1, Stands DEF NoHolders
      <3> QED BY <3>1
    <2>7. CountOf(views, s, e) = Cardinality(C)
      BY <1>1, <2>5 DEF Books, Matching
    <2> QED BY <2>4, <2>6, <2>7, VmrCounts
  <1>4. views \in Seq(ViewRec) /\ Len(views) = 0
    BY <1>1, <1>2, <1>3 DEF Listed
  <1>5. views = <<>>
    BY <1>4
  <1> QED BY <1>1, <1>5

LEMMA CloseLastCloses ==
    ASSUME Frame, Whole, Books, Closes, NEW v \in Vmrs, CloseLast(v)
    PROVE  Closes'
  <1>1. vmr[v].st = "walk"
    BY CloseLastEffect
  <1>2. /\ vmr[v].st \in Walking /\ vmr[v].st \in Taking /\ vmr[v].st \in Standing
    BY <1>1, Stands DEF Walking
  <1>3. PICK d \in Descs : d = vmr[v].desc
    BY <1>2, Stands, LivePlace
  <1>4. /\ dir' = dir /\ rec' = rec /\ vmr[v].cnt = 0 /\ Present(v) = {}
        /\ vmr'[v] = Dead /\ OnlyVmr(v) /\ OnlyDesc(d, desc'[d])
        /\ desc'[d].st = "freed" /\ desc'[d].shared = desc[d].shared
        /\ desc'[d].closer = desc[d].closer /\ desc'[d].views = desc[d].views
    BY <1>3, CloseLastEffect
  <1>5. vmr'[v].st # "unused" /\ vmr'[v].st \notin Standing /\ vmr'[v].st \notin Taking
        /\ vmr'[v].st \notin Walking /\ vmr'[v].st \notin Holding
    <2>1. vmr'[v].st = "dead"
      BY <1>4, DeadFields
    <2> QED BY <2>1, Stands DEF Placed, Busy
  <1>6. \A w \in Vmrs \ {v} : vmr'[w] = vmr[w] /\ Gentle(w)
    BY <1>4, GentleSame DEF OnlyVmr
  <1>7. \A e : FollowedIn(e)
    <2>1. PICK S \in SUBSET Vmrs : S = {v}
      OBVIOUS
    <2>2. \A w \in Vmrs \ S : Gentle(w)
      BY <1>6, <2>1
    <2>3. \A w \in S : vmr'[w].st \notin Holding
      BY <1>5, <2>1
    <2> QED BY <2>2, <2>3, GentleFollowed
  <1>8. SharedKept
    BY <1>4, SharedStays
  <1>9. \A w \in Vmrs : vmr'[w].st \in Standing => \E u \in Vmrs : Beside(w, u)
    BY <1>5, <1>6, GentleBeside
  <1>10. Closers'
    <2>1. Taker(v)'
      BY <1>5, NotTaking
    <2>2. \A u \in Vmrs : CloserStays(u)
      BY <1>4, ClosersStay
    <2> QED BY <1>6, <2>1, <2>2, ClosersKept DEF Closes, CloserStays
  <1>11. Alike'
    <2>1. desc[d].st # "unused"
      BY <1>2, <1>3, Stands, LivePlace
    <2>2. \A e \in Descs : desc'[e].st # "unused" => desc[e].st # "unused"
      BY <1>4, <2>1 DEF OnlyDesc
    <2> QED BY <1>5, <1>8, <2>2, AlikeKept DEF Closes
  <1>12. OneSpace'
    BY <1>8, <1>9, OneSpaceKept DEF Closes
  <1>13. LastWalks(v)
    BY <1>2 DEF Closes, Walks, WalkAt
  <1>14. NoHolders(d) /\ InTodo(v)
    BY <1>3, <1>4, <1>13 DEF LastWalks
  <1>15. Deserted(d)'
    <2>1. NoneStands(d)'
      <3>1. SUFFICES ASSUME NEW w \in Vmrs, vmr'[w].desc = d, vmr'[w].st \in Standing PROVE FALSE
        BY DEF NoneStands
      <3>2. w # v
        BY <1>5, <3>1
      <3>3. vmr'[w] = vmr[w] /\ vmr[w].desc = d
        BY <1>6, <3>1, <3>2
      <3>4. vmr[w].st \in Walking
        BY <1>14, <3>1, <3>3, Stands DEF NoHolders
      <3> QED BY <1>2, <1>3, <3>2, <3>3, <3>4, Stands, OneTaker
    <2>2. desc'[d].views = <<>>
      BY <1>4, <1>14, NoViewsLeft
    <2>3. ASSUME NEW i \in Idx PROVE dir'[d][i] = None
      <3>1. SUFFICES ASSUME dir[d][i] # None PROVE FALSE
        BY <1>4
      <3>2. GroupOf[i] \in vmr[v].todo
        BY <1>3, <1>14, <3>1 DEF InTodo
      <3> QED BY <1>3, <1>4, <3>1, <3>2, LeftPresent
    <2> QED BY <2>1, <2>2, <2>3 DEF Deserted
  <1>16. Retired'
    <2> SUFFICES ASSUME NEW e \in Descs \ {d}, desc'[e].st # "alive" PROVE Deserted(e)'
      BY <1>15 DEF Retired
    <2>1. desc'[e] = desc[e]
      BY <1>4 DEF OnlyDesc
    <2>2. Deserted(e)
      BY <2>1 DEF Closes, Retired
    <2>3. Filled(e) /\ Untouched(e) /\ BesideIn(e)
      BY <1>4, <1>9, <2>1, FilledSame DEF Untouched, BesideIn
    <2> QED BY <2>2, <2>3, DesertedKept
  <1>17. Walks'
    <2>1. WalkAt(v)'
      BY <1>5, NotWalking
    <2>2. \A u \in Vmrs : vmr[u].st \in Walking => vmr[u].desc \in Descs
      BY Stands, LivePlace
    <2> QED BY <1>4, <1>6, <1>7, <2>1, <2>2, FilledSame, WalksKept DEF Closes
  <1>18. Records'
    <2>1. RecordsOf(v)'
      BY <1>2, <1>4, WalksLast DEF RecordsOf
    <2>2. \A w \in Vmrs \ {v} : RecordsOf(w)'
      BY <1>4, <1>6, FilledSame, RecordKept DEF Closes, Records
    <2> QED BY <2>1, <2>2 DEF Records
  <1> QED BY <1>10, <1>11, <1>12, <1>16, <1>17, <1>18 DEF Closes
-----------------------------------------------------------------------------
(* A fault fills an empty group of a vmdesc, and records what it maps.     *)
LEMMA GetFills ==
    ASSUME NEW d \in Descs, NEW i \in Idx, NEW o \in Gpas, GetEffect(d, i, o),
           NEW w \in Vmrs, vmr[w].desc = d, vmr[w].st \in Holding
    PROVE  \A e \in Descs : Filled(e)
  <1>1. CASE dir' = dir
    BY <1>1, FilledSame
  <1>2. CASE \A e \in Descs, j \in Idx :
                dir'[e][j] = IF e = d /\ j \in Members(GroupOf[i]) /\ dir[d][j] = None
                             THEN o ELSE dir[e][j]
    BY <1>2 DEF Filled
  <1> QED BY <1>1, <1>2 DEF GetEffect

LEMMA FaultCloses ==
    ASSUME Frame, GroupsKept, Closes, NEW v \in Vmrs, NEW i \in Idx, Fault(v, i)
    PROVE  Closes'
  <1>1. PICK d \in Descs, o \in Gpas, mapped \in SUBSET Idx : FaultEffect(v, i, d, o, mapped)
    BY FaultEffects
  <1>2. /\ d = vmr[v].desc /\ GetEffect(d, i, o) /\ vmr[v].st = "live"
        /\ mapped \subseteq Members(GroupOf[i]) \cap SlotsOf(v)
        /\ vmr' = vmr /\ desc' = desc
    BY <1>1 DEF FaultEffect
  <1>3. \A x \in Gpas, j \in Idx :
          rec'[x][j] = IF x = o /\ j \in mapped THEN rec[x][j] \cup {v} ELSE rec[x][j]
    BY <1>1 DEF FaultEffect
  <1>4. /\ vmr[v].st \in Standing /\ vmr[v].st \in Holding /\ vmr[v].st \in Recorded
        /\ vmr'[v].st \notin Taking /\ vmr'[v].st \notin Walking /\ vmr'[v].st # "unused"
    BY <1>2, Stands, PhaseSets
  <1>5. \A w \in Vmrs : Gentle(w) /\ CloserStays(w)
    BY <1>2, GentleSame DEF CloserStays
  <1>6. \A e \in Descs : Filled(e)
    BY <1>2, <1>4, GetFills
  <1>7. \A e \in Descs : Even(e)
    BY <1>2, <1>6 DEF Even, Untouched
  <1>8. \A j \in Members(GroupOf[i]) : j \in Idx /\ dir'[d][j] = o
    <2>1. GroupsKept'
      BY <1>2, GetKeeps DEF Frame
    <2>2. dir'[d][i] = o
      <3>1. i \in Members(GroupOf[i])
        BY Tiling
      <3> QED BY <1>2, <3>1 DEF GetEffect
    <2> QED BY <2>1, <2>2, SameGroup DEF GroupsKept, Whole
  <1>9. RecordsOf(v)'
    <2> SUFFICES ASSUME NEW x \in Gpas, NEW j \in Idx, v \in rec'[x][j] PROVE RecordAt(x, j, v)'
      BY DEF RecordsOf
    <2>1. dir'[d][j] = x /\ j \in SlotsOf(v)
      <3>1. CASE x = o /\ j \in mapped
        BY <1>2, <1>8, <3>1
      <3>2. CASE ~(x = o /\ j \in mapped)
        <4>1. v \in rec[x][j]
          BY <1>3, <3>2
        <4>2. dir[d][j] = x /\ j \in SlotsOf(v)
          BY <1>2, <4>1 DEF Closes, Records, RecordsOf, RecordAt
        <4> QED BY <1>6, <4>2, NoneIsNone DEF Filled
      <3> QED BY <3>1, <3>2
    <2>2. SlotsOf(v)' = SlotsOf(v)
      BY <1>2 DEF SlotsOf
    <2> QED BY <1>2, <1>4, <2>1, <2>2 DEF RecordAt
  <1>10. PICK S \in SUBSET Vmrs : S = {v}
    OBVIOUS
  <1>11. \A w \in Vmrs \ S : \A x \in Gpas, j \in Idx : w \in rec'[x][j] => w \in rec[x][j]
    BY <1>3, <1>10
  <1>12. Taker(v)' /\ WalkAt(v)' /\ Beside(v, v)
    BY <1>4, <1>5, NotTaking, NotWalking, GentleBeside, <1>2
  <1>13. \A u \in Vmrs : FollowedIn(vmr[u].desc)
    <2>1. PICK E \in SUBSET Vmrs : E = {}
      OBVIOUS
    <2> QED BY <1>5, <2>1, GentleFollowed
  <1>14. \A w \in Vmrs \ S : /\ Gentle(w) /\ CloserStays(w)
                             /\ \A x \in Gpas, j \in Idx : w \in rec'[x][j] => w \in rec[x][j]
    BY <1>5, <1>11
  <1>15. \A w \in S : /\ vmr'[w].st \in Standing => \E u \in Vmrs : Beside(w, u)
                      /\ Taker(w)' /\ WalkAt(w)' /\ RecordsOf(w)'
    BY <1>9, <1>10, <1>12
  <1> QED BY <1>2, <1>4, <1>7, <1>13, <1>14, <1>15, SharedSame, ClosesKept

(* The halves of a split share out the slots and the records.              *)
LEMMA HalfSlots ==
    ASSUME NEW lo \in 0..NPages, NEW hi \in 0..NPages, NEW mid \in 0..NPages,
           lo < mid, mid < hi, NEW i
    PROVE  i \in Slots(lo, hi) <=> i \in Slots(lo, mid) \/ i \in Slots(mid, hi)
  <1>1. \A a \in 0..NPages, b \in 0..NPages : i \in Slots(a, b) => i \in Int
    BY DownUp DEF Slots
  <1>2. SUFFICES ASSUME i \in Int
                 PROVE  i \in Slots(lo, hi) <=> i \in Slots(lo, mid) \/ i \in Slots(mid, hi)
    BY <1>1
  <1>3. PICK x \in Int : x = SbSize * i
    BY <1>2, Sizes
  <1>4. \A a \in 0..NPages, b \in 0..NPages : i \in Slots(a, b) <=> a < x + SbSize /\ x < b
    BY <1>2, <1>3, SlotIn
  <1> QED BY <1>3, <1>4, Sizes

LEMMA SplitOpenCloses ==
    ASSUME Frame, Closes, NEW p \in Vmrs, NEW mid \in SharedSplits \cup PrivateSplits,
           NEW newIsFront \in BOOLEAN, SplitOpen(p, mid, newIsFront)
    PROVE  Closes'
  <1>1. PICK n \in Vmrs, m \in Mms, d \in Descs, o \in Gpas, b \in Idx,
             olo \in 0..NPages, ohi \in 0..NPages, nlo \in 0..NPages, nhi \in 0..NPages :
             SplitEffect(p, n, m, d, o, b, mid, olo, ohi, nlo, nhi)
    BY SplitEffects
  <1>2. /\ vmr[p].st = "live" /\ m = vmr[p].mm /\ d = vmr[p].desc /\ n # p /\ vmr[n].st = "unused"
        /\ Others({p, n}) /\ GetEffect(d, b, o)
        /\ vmr'[p].st = "live" /\ vmr'[p].mm = m /\ vmr'[p].desc = d
        /\ vmr'[p].lo = olo /\ vmr'[p].hi = ohi
        /\ vmr'[n].st = "live" /\ vmr'[n].mm = m /\ vmr'[n].desc = d
        /\ vmr'[n].lo = nlo /\ vmr'[n].hi = nhi
    BY <1>1 DEF SplitEffect
  <1>3. /\ OnlyDesc(d, desc'[d]) /\ desc'[d].st = desc[d].st
        /\ desc'[d].shared = desc[d].shared /\ desc'[d].closer = desc[d].closer
    BY <1>1 DEF SplitEffect
  <1>4. \A x \in Gpas, i \in Idx :
          rec'[x][i] = IF dir[d][i] = x /\ p \in rec[x][i] /\ i \in Slots(nlo, nhi)
                       THEN IF i \in Slots(olo, ohi) THEN rec[x][i] \cup {n}
                                                     ELSE (rec[x][i] \ {p}) \cup {n}
                       ELSE rec[x][i]
    BY <1>1 DEF SplitEffect
  <1>5. /\ vmr[p].st \in Standing /\ vmr[p].st \in Holding /\ vmr[p].st \in Joined
        /\ vmr[n].st \notin Recorded /\ "live" \in Recorded
        /\ "live" \notin Taking /\ "live" \notin Walking
    BY <1>2, Stands, PhaseSets, Phase
  <1>6. SlotsOf(p)' = Slots(olo, ohi) /\ SlotsOf(n)' = Slots(nlo, nhi)
    BY <1>2 DEF SlotsOf
  <1>7. \A i : i \in SlotsOf(p) <=> i \in Slots(olo, ohi) \/ i \in Slots(nlo, nhi)
    <2>1. /\ vmr[p].lo \in 0..NPages /\ vmr[p].hi \in 0..NPages /\ mid \in 0..NPages
          /\ vmr[p].lo < mid /\ mid < vmr[p].hi
          /\ \/ olo = vmr[p].lo /\ ohi = mid /\ nlo = mid /\ nhi = vmr[p].hi
             \/ nlo = vmr[p].lo /\ nhi = mid /\ olo = mid /\ ohi = vmr[p].hi
      BY <1>1, <1>5, Stands, LivePlace DEF SplitEffect
    <2>2. \A i : i \in SlotsOf(p) <=> i \in Slots(vmr[p].lo, mid) \/ i \in Slots(mid, vmr[p].hi)
      BY <2>1, HalfSlots DEF SlotsOf
    <2> QED BY <2>1, <2>2
  <1>8. Beside(p, p) /\ Beside(n, p) /\ Follows(p, p) /\ Follows(n, p)
    <2>1. Beside(p, p) /\ Beside(n, p)
      BY <1>2, <1>5 DEF Beside
    <2>2. SlotsOf(p)' \subseteq SlotsOf(p) /\ SlotsOf(n)' \subseteq SlotsOf(p)
      BY <1>6, <1>7
    <2> QED BY <1>5, <2>1, <2>2 DEF Follows
  <1>9. PICK S \in SUBSET Vmrs : S = {p, n}
    OBVIOUS
  <1>10. ASSUME NEW w \in Vmrs \ S
         PROVE  /\ Gentle(w) /\ CloserStays(w)
                /\ \A x \in Gpas, i \in Idx : w \in rec'[x][i] => w \in rec[x][i]
    <2>1. Gentle(w)
      BY <1>2, <1>9, GentleStays DEF Others, Frame
    <2>2. CloserStays(w)
      BY <1>3, ClosersStay
    <2>3. ASSUME NEW x \in Gpas, NEW i \in Idx, w \in rec'[x][i] PROVE w \in rec[x][i]
      <3>1. w # n
        BY <1>9
      <3>2. \/ rec'[x][i] = rec[x][i] \cup {n}
            \/ rec'[x][i] = (rec[x][i] \ {p}) \cup {n}
            \/ rec'[x][i] = rec[x][i]
        BY <1>4
      <3> QED BY <2>3, <3>1, <3>2
    <2> QED BY <2>1, <2>2, <2>3
  <1>11. \A e \in Descs : Filled(e)
    BY <1>2, <1>5, GetFills
  <1>12. \A e \in Descs : Even(e)
    BY <1>2, <1>3, <1>5, <1>11, EvenStood
  <1>13. ASSUME NEW x \in Gpas, NEW i \in Idx, dir[d][i] = x PROVE dir'[d][i] = x
    BY <1>11, <1>13, NoneIsNone DEF Filled
  <1>14. ASSUME NEW x \in Gpas, NEW i \in Idx, p \in rec[x][i]
         PROVE  dir[d][i] = x /\ i \in SlotsOf(p)
    BY <1>2, <1>14 DEF Closes, Records, RecordsOf, RecordAt
  <1>15. RecordsOf(p)'
    <2> SUFFICES ASSUME NEW x \in Gpas, NEW i \in Idx, p \in rec'[x][i] PROVE RecordAt(x, i, p)'
      BY DEF RecordsOf
    <2>1. p \in rec[x][i]
      BY <1>2, <1>4
    <2>2. dir[d][i] = x /\ i \in SlotsOf(p)
      BY <1>14, <2>1
    <2>3. i \in Slots(olo, ohi)
      <3>1. SUFFICES ASSUME i \notin Slots(olo, ohi) PROVE FALSE
        OBVIOUS
      <3>2. i \in Slots(nlo, nhi)
        BY <1>7, <2>2, <3>1
      <3>3. rec'[x][i] = (rec[x][i] \ {p}) \cup {n}
        BY <1>4, <2>1, <2>2, <3>1, <3>2
      <3> QED BY <1>2, <3>3
    <2> QED BY <1>2, <1>5, <1>6, <1>13, <2>2, <2>3 DEF RecordAt
  <1>16. RecordsOf(n)'
    <2> SUFFICES ASSUME NEW x \in Gpas, NEW i \in Idx, n \in rec'[x][i] PROVE RecordAt(x, i, n)'
      BY DEF RecordsOf
    <2>1. n \notin rec[x][i]
      BY <1>5, NoRecords
    <2>2. dir[d][i] = x /\ i \in Slots(nlo, nhi)
      BY <1>4, <2>1
    <2> QED BY <1>2, <1>5, <1>6, <1>13, <2>2 DEF RecordAt
  <1>17. Taker(p)' /\ WalkAt(p)' /\ Taker(n)' /\ WalkAt(n)'
    BY <1>2, <1>5, NotTaking, NotWalking
  <1>18. \A u \in Vmrs : FollowedIn(vmr[u].desc)
    <2> SUFFICES ASSUME NEW e PROVE FollowedIn(e)
      OBVIOUS
    <2>1. \A w \in Vmrs \ S : Gentle(w)
      BY <1>10
    <2>2. \A w \in S : \E u \in Vmrs : Follows(w, u)
      BY <1>8, <1>9
    <2> QED BY <2>1, <2>2, GentleFollowed
  <1>19. \A w \in S : /\ vmr'[w].st \in Standing => \E u \in Vmrs : Beside(w, u)
                      /\ Taker(w)' /\ WalkAt(w)' /\ RecordsOf(w)'
    BY <1>8, <1>9, <1>15, <1>16, <1>17
  <1>20. vmr'[p].st # "unused"
    BY <1>2
  <1> QED BY <1>3, <1>10, <1>12, <1>18, <1>19, <1>20, SharedStays, ClosesKept
-----------------------------------------------------------------------------
(* A vmdesc of its own: nobody has stood there.                            *)
LEMMA NobodyThere ==
    ASSUME Frame, NEW d \in Descs, desc[d].st = "unused", NEW w \in Vmrs, vmr[w].st \in Placed
    PROVE  vmr[w].desc # d
  BY LivePlace

LEMMA NewDescCloses ==
    ASSUME Frame, Closes, SharedKept, NEW n \in Vmrs, NEW d \in Descs,
           vmr[n].st = "unused", vmr'[n].st = "live", vmr'[n].desc = d, OnlyVmr(n),
           OnlyDesc(d, desc'[d]), desc[d].st = "unused", desc'[d].st = "alive",
           \A e \in Descs \ {d} : \A i \in Idx : dir'[e][i] = dir[e][i],
           rec' = rec, Alike'
    PROVE  Closes'
  <1>1. \A w \in Vmrs \ {n} : vmr'[w] = vmr[w] /\ Gentle(w)
    BY GentleSame DEF OnlyVmr
  <1>2. \A w \in Vmrs : vmr[w].st \in Standing => vmr[w].desc # d
    BY Stands, NobodyThere
  <1>3. /\ vmr[n].st \notin Recorded /\ vmr[n].st \notin Standing
        /\ vmr'[n].st \notin Taking /\ vmr'[n].st \notin Walking
    BY Stands, PhaseSets, Phase
  <1>4. \A e \in Descs \ {d} : Filled(e)
    BY DEF Filled
  <1>5. ASSUME NEW e \in Descs \ {d} PROVE FollowedIn(e)
    <2>1. PICK S \in SUBSET Vmrs : S = {n}
      OBVIOUS
    <2>2. \A w \in Vmrs \ S : Gentle(w)
      BY <1>1, <2>1
    <2>3. \A w \in S : vmr'[w].desc # e
      BY <1>5, <2>1
    <2> QED BY <2>2, <2>3, GentleFollowed
  <1>6. Closers'
    <2>1. Taker(n)'
      BY <1>3, NotTaking
    <2>2. ASSUME NEW u \in Vmrs PROVE CloserStays(u)
      BY <1>2, Stands, ClosersStay
    <2> QED BY <1>1, <2>1, <2>2, ClosersKept DEF Closes, CloserStays
  <1>7. OneSpace'
    <2> SUFFICES ASSUME NEW v \in Vmrs, NEW w \in Vmrs, vmr'[v].st \in Standing,
                        vmr'[w].st \in Standing, vmr'[v].desc = vmr'[w].desc,
                        ~desc'[vmr'[v].desc].shared
                 PROVE  vmr'[v].mm = vmr'[w].mm
      BY DEF OneSpace
    <2>1. v = n <=> w = n
      BY <1>1, <1>2
    <2>2. CASE v # n /\ w # n
      <3>1. vmr'[v] = vmr[v] /\ vmr'[w] = vmr[w]
        BY <1>1, <2>2
      <3>2. vmr[v].desc \in Descs /\ desc[vmr[v].desc].st # "unused"
        BY <3>1, Stands, LivePlace
      <3>3. desc'[vmr[v].desc].shared = desc[vmr[v].desc].shared
        BY <3>2 DEF SharedKept
      <3>4. ~desc[vmr[v].desc].shared
        BY <3>1, <3>3
      <3> QED BY <3>1, <3>4 DEF Closes, OneSpace
    <2> QED BY <2>1, <2>2
  <1>8. Retired'
    <2> SUFFICES ASSUME NEW e \in Descs, desc'[e].st # "alive" PROVE Deserted(e)'
      BY DEF Retired
    <2>1. e # d
      OBVIOUS
    <2>2. desc'[e] = desc[e]
      BY <2>1 DEF OnlyDesc
    <2>3. Deserted(e)
      BY <2>2 DEF Closes, Retired
    <2>4. Untouched(e) /\ Filled(e)
      BY <1>4, <2>1, <2>2 DEF Untouched
    <2>5. BesideIn(e)
      BY <1>1, <2>1, GentleBeside DEF BesideIn
    <2> QED BY <2>3, <2>4, <2>5, DesertedKept
  <1>9. Walks'
    <2>1. WalkAt(n)'
      BY <1>3, NotWalking
    <2>2. ASSUME NEW u \in Vmrs, vmr[u].st \in Walking
          PROVE  FollowedIn(vmr[u].desc) /\ Filled(vmr[u].desc)
      <3>1. vmr[u].desc \in Descs \ {d}
        BY <1>2, <2>2, Stands, LivePlace
      <3> QED BY <1>4, <1>5, <3>1
    <2> QED BY <1>1, <2>1, <2>2, WalksKept DEF Closes
  <1>10. Records'
    <2> SUFFICES ASSUME NEW w \in Vmrs, NEW o \in Gpas, NEW i \in Idx, w \in rec[o][i]
                 PROVE  RecordAt(o, i, w)'
      BY DEF Records, RecordsOf
    <2>1. RecordAt(o, i, w)
      BY DEF Closes, Records, RecordsOf
    <2>2. vmr[w].st \in Recorded
      BY <2>1 DEF RecordAt
    <2>3. vmr'[w] = vmr[w] /\ SlotsOf(w)' = SlotsOf(w)
      BY <1>1, <1>3, <2>2 DEF SlotsOf
    <2>4. PICK e \in Descs \ {d} : e = vmr[w].desc
      BY <1>2, <2>2, Stands, LivePlace
    <2>5. dir'[e][i] = dir[e][i]
      OBVIOUS
    <2> QED BY <2>1, <2>3, <2>4, <2>5 DEF RecordAt
  <1> QED BY <1>6, <1>7, <1>8, <1>9, <1>10 DEF Closes

LEMMA ForkPrivateCloses ==
    ASSUME Frame, Closes, NEW m \in Mms, NEW wipe \in BOOLEAN, ForkPrivate(m, wipe)
    PROVE  Closes'
  <1>1. PICK k \in Mms, p \in Vmrs, n \in Vmrs, c \in Descs, d \in Descs, fails \in Outcomes :
             PrivateEffect(m, k, p, n, c, d, wipe, fails)
    BY ForkPrivateEffect
  <1>2. KidEffect(m, k, p, n, c, d) /\ DupEffect(p, c, d, ~wipe)
    BY <1>1 DEF PrivateEffect
  <1>3. /\ desc[d].st = "unused" /\ desc'[d].st = "alive" /\ desc'[d].shared = FALSE
    BY <1>1 DEF PrivateEffect
  <1>4. /\ vmr[p].st = "live" /\ vmr[p].desc = c /\ vmr[n].st = "unused" /\ ~desc[c].shared
        /\ OnlyVmr(n) /\ vmr'[n].st = "live" /\ vmr'[n].desc = d /\ OnlyDesc(d, desc'[d])
    BY <1>2 DEF KidEffect, OpensFor, IsChild
  <1>5. rec' = rec /\ \A e \in Descs \ {d} : \A i \in Idx : dir'[e][i] = dir[e][i]
    BY <1>2 DEF DupEffect
  <1>6. Alike'
    <2>1. desc[c].st # "unused"
      BY <1>4, Phase, LivePlace
    <2>2. ASSUME NEW e \in Descs, desc'[e].st # "unused" PROVE ~desc'[e].shared
      <3>1. CASE e = d
        BY <1>3, <3>1
      <3>2. CASE e # d
        <4>1. desc'[e] = desc[e]
          BY <1>4, <3>2 DEF OnlyDesc
        <4> QED BY <1>4, <2>1, <2>2, <4>1 DEF Closes, Alike
      <3> QED BY <3>1, <3>2
    <2>3. Unused' # Vmrs
      BY <1>4 DEF Unused
    <2> QED BY <2>2, <2>3 DEF Alike
  <1>7. SharedKept
    BY <1>3, <1>4, SharedMade
  <1> QED BY <1>3, <1>4, <1>5, <1>6, <1>7, NewDescCloses

LEMMA MmapCloses ==
    ASSUME Frame, Closes, NEW shared \in BOOLEAN, Mmap(shared)
    PROVE  Closes'
  <1>1. PICK v \in Vmrs, m \in Mms, d \in Descs, fails \in Outcomes : MmapEffect(v, m, d, shared, fails)
    BY MmapEffects
  <1>2. /\ Unused = Vmrs /\ dir' = dir /\ rec' = rec /\ OnlyVmr(v)
        /\ vmr'[v].st = "live" /\ vmr'[v].desc = d /\ OnlyDesc(d, desc'[d])
    BY <1>1 DEF MmapEffect
  <1>3. desc'[d].st = "alive"
    BY <1>1 DEF MmapEffect, IsMade
  <1>4. \A e \in Descs : desc[e].st = "unused"
    BY <1>2 DEF Closes, Alike
  <1>5. vmr[v].st = "unused"
    BY <1>2 DEF Unused
  <1>6. Alike'
    <2>1. ASSUME NEW e \in Descs, desc'[e].st # "unused" PROVE e = d
      BY <1>2, <1>4, <2>1 DEF OnlyDesc
    <2>2. Unused' # Vmrs
      BY <1>2 DEF Unused
    <2> QED BY <2>1, <2>2 DEF Alike
  <1>7. SharedKept
    BY <1>2, <1>4, SharedMade
  <1> QED BY <1>2, <1>3, <1>4, <1>5, <1>6, <1>7, NewDescCloses

-----------------------------------------------------------------------------
LEMMA ClosesInit == Init => Closes
  <1> SUFFICES ASSUME Init PROVE Closes
    OBVIOUS
  <1>1. PICK empty : empty = <<>>
    OBVIOUS
  <1>2. /\ \A v \in Vmrs : vmr[v].st = "unused"
        /\ \A d \in Descs : desc[d].st = "unused" /\ desc[d].views = empty
        /\ \A d \in Descs, i \in Idx : dir[d][i] = None
        /\ \A o \in Gpas, i \in Idx : rec[o][i] = {}
    BY <1>1 DEF Init, NewVmr, NewDesc
  <1>3. "unused" \notin Standing /\ "unused" \notin Taking /\ "unused" \notin Walking
    BY Stands, Phase
  <1>4. Closers /\ Alike /\ OneSpace /\ Walks
    BY <1>2, <1>3 DEF Closers, Taker, Alike, OneSpace, Walks, WalkAt
  <1>5. Retired
    BY <1>1, <1>2, <1>3 DEF Retired, Deserted, NoneStands
  <1>6. Records
    BY <1>2 DEF Records, RecordsOf
  <1> QED BY <1>4, <1>5, <1>6 DEF Closes

LEMMA CloseCloses ==
    ASSUME Frame, Whole, Books, Closes, NEW v \in Vmrs, Close(v)
    PROVE  Closes'
  BY CloseEnterCloses, CloseDropViewCloses, CloseDropRefCloses, CloseQueryCloses, ClosePutCloses,
     CloseClearCloses, CloseWakeCloses, CloseLastCloses DEF Close
LEMMA LockedCloses ==
    ASSUME Frame, Closes, NEW m \in Mms, Locked(m)
    PROVE  Closes'
  <1>1. ASSUME ForkEnd(m) PROVE Closes'
    BY <1>1, ForkEndEffect, StillCloses
  <1> QED BY <1>1, SplitViewsCloses, ForkSharedRefCloses, ForkSharedViewCloses, ForkSiblingCloses,
             ForkPrivateCloses, ForkFailsCloses DEF Locked

LEMMA ClosesStepped ==
    ASSUME Frame, GroupsKept, Books, Closes, [Next]_vars
    PROVE  Closes'
  <1>1. ASSUME NEW shared \in Sharing, Mmap(shared) PROVE Closes'
    <2>1. shared \in BOOLEAN
      BY ViewsAssumption
    <2> QED BY <1>1, <2>1, MmapCloses
  <1>2. ASSUME NEW v \in Vmrs, NEW i \in Idx, Fault(v, i) PROVE Closes'
    BY <1>2, FaultCloses
  <1>3. ASSUME NEW v \in Vmrs, SplitFails(v) PROVE Closes'
    BY <1>3, SplitFailsCloses
  <1>4. ASSUME NEW v \in Vmrs, CloseBegin(v) PROVE Closes'
    BY <1>4, CloseBeginCloses
  <1>5. ASSUME NEW v \in Vmrs, Close(v) PROVE Closes'
    BY <1>5, CloseCloses DEF GroupsKept
  <1>6. ASSUME NEW v \in Vmrs, NEW mid \in SharedSplits \cup PrivateSplits,
               NEW newIsFront \in BOOLEAN, SplitOpen(v, mid, newIsFront)
        PROVE  Closes'
    BY <1>6, SplitOpenCloses
  <1>7. ASSUME NEW m \in Mms, ForkBegin(m) PROVE Closes'
    <2>1. PICK k \in Mms : ForkBeginEffect(m, k)
      BY <1>7, ForkBeginEffects
    <2> QED BY <2>1, StillCloses DEF ForkBeginEffect
  <1>8. ASSUME NEW m \in Mms, Locked(m) PROVE Closes'
    BY <1>8, LockedCloses
  <1>9. CASE UNCHANGED vars
    BY <1>9, StillCloses DEF vars
  <1> QED BY <1>1, <1>2, <1>3, <1>4, <1>5, <1>6, <1>7, <1>8, <1>9 DEF Next
ClosesInv == RefInv /\ Books /\ Closes
(* Private splits at group boundaries, and no view that got no memory.     *)
Provided == SplitsAtGroups /\ ~NodeMayFail
LEMMA ClosesInvStepped ==
    ASSUME Provided, ClosesInv, [Next]_vars
    PROVE  ClosesInv'
  <1>1. Frame /\ AtGroups /\ GroupsKept /\ Books /\ Closes
    BY DEF ClosesInv, RefInv
  <1>2. Frame' /\ AtGroups' /\ GroupsKept'
    BY <1>1, FrameStepped, RefInvStepped DEF Provided
  <1>3. Books'
    BY <1>1, BooksStepped DEF Provided
  <1>4. Closes'
    BY <1>1, ClosesStepped
  <1> QED BY <1>2, <1>3, <1>4 DEF ClosesInv, RefInv

(* A closer owns its vmdesc alone while it takes things out, finds nobody  *)
(* viewing what it will release (find_uncovered() before the walk, or      *)
(* is_covered() per group), and the records of a vmr lie in the groups its *)
(* close has yet to visit; a vmdesc that is not alive is empty.            *)
THEOREM ClosesInductive == ASSUME Provided PROVE Spec => []ClosesInv
  <1>1. Init => ClosesInv
    BY FrameInit, RefInvInit, BooksInit, ClosesInit DEF ClosesInv, RefInv
  <1>2. ClosesInv /\ [Next]_vars => ClosesInv'
    BY ClosesInvStepped
  <1> QED BY <1>1, <1>2, PTL DEF Spec

LEMMA ClosesRecords == ClosesInv => RecordsOfLiveVmrs
  <1> SUFFICES ASSUME ClosesInv, NEW o \in Gpas, NEW i \in Idx, NEW v \in rec[o][i]
               PROVE  o \in used /\ vmr[v].st \in Viewing \cup Closing
    BY DEF RecordsOfLiveVmrs
  <1>1. v \in Vmrs
    BY DEF ClosesInv, RefInv, Frame, Types
  <1>2. RecordAt(o, i, v)
    BY <1>1 DEF ClosesInv, Closes, Records, RecordsOf
  <1>3. vmr[v].st \in Recorded /\ dir[vmr[v].desc][i] = o
    BY <1>2 DEF RecordAt
  <1>4. vmr[v].desc \in Descs
    BY <1>1, <1>3, Stands, LivePlace DEF ClosesInv, RefInv
  <1>5. o \in used
    BY <1>3, <1>4 DEF ClosesInv, RefInv, GroupsKept, Referenced, Dirs
  <1>6. Recorded \subseteq Viewing \cup Closing
    BY DEF Recorded, Walking, Closing
  <1> QED BY <1>3, <1>5, <1>6

(* No mapping record outlives its vmr or the group it is in: the walk of a *)
(* close (gpas_close()) reaches every record that faults and splits made.  *)
THEOREM RecordsAreOfLiveVmrs == ASSUME Provided PROVE Spec => []RecordsOfLiveVmrs
  BY ClosesInductive, ClosesRecords, PTL

LEMMA ClosesEmpty == ClosesInv => LastCloseEmpties
  BY DEF ClosesInv, Closes, Retired, Deserted, LastCloseEmpties

(* What the last close frees with its vmdesc (free_vmdesc()) is empty: no  *)
(* view, and no group in the directory.                                    *)
THEOREM LastCloseLeavesNothing == ASSUME Provided PROVE Spec => []LastCloseEmpties
  BY ClosesInductive, ClosesEmpty, PTL

-----------------------------------------------------------------------------
(* What a step takes out of a directory, nobody views.                     *)
NothingTaken == \A d \in Descs, i \in Idx : dir[d][i] # None => dir'[d][i] # None
OnlyUnviewedTaken ==
    \A d \in Descs, i \in Idx :
        (dir[d][i] # None /\ dir'[d][i] = None) =>
            \A v \in Of(d, Viewing \cup {"joining"}) : i \notin SlotsOf(v)
LEMMA Untaken == NothingTaken => OnlyUnviewedTaken
  BY DEF NothingTaken, OnlyUnviewedTaken
LEMMA SameTaken == dir' = dir => OnlyUnviewedTaken
  BY Untaken DEF NothingTaken
LEMMA GetTakes ==
    ASSUME NEW d \in Descs, NEW i \in Idx, NEW o \in Gpas, GetEffect(d, i, o)
    PROVE  OnlyUnviewedTaken
  <1>1. NothingTaken
    BY NoneIsNone DEF GetEffect, NothingTaken
  <1> QED BY <1>1, Untaken
LEMMA DupTakes ==
    ASSUME NEW p, NEW c, NEW d \in Descs, NEW dup, DupEffect(p, c, d, dup)
    PROVE  OnlyUnviewedTaken
  <1>1. NothingTaken
    BY DEF DupEffect, NothingTaken
  <1> QED BY <1>1, Untaken
LEMMA PutTakes ==
    ASSUME Frame, Closes, NEW v \in Vmrs, ClosePut(v)
    PROVE  OnlyUnviewedTaken
  <1>1. PICK d \in Descs, g \in Groups, o \in Gpas, put \in BOOLEAN : PutEffect(v, d, g, o, put)
    BY ClosePutEffect
  <1>2. /\ d = vmr[v].desc /\ g = Group(v) /\ put = Releases(v)
        /\ vmr[v].st = "put" \/ (vmr[v].st = "walk" /\ vmr[v].unc.fine)
    BY <1>1 DEF PutEffect
  <1>3. \A e \in Descs, i \in Idx :
          dir'[e][i] = IF e = d /\ i \in Members(g) /\ put THEN None ELSE dir[e][i]
    BY <1>1 DEF PutEffect
  <1>4. put => NoneViews(d, Members(g))
    BY <1>2, PutUnviewed
  <1> SUFFICES ASSUME NEW e \in Descs, NEW i \in Idx, dir[e][i] # None, dir'[e][i] = None,
                      NEW w \in Of(e, Viewing \cup {"joining"})
               PROVE  i \notin SlotsOf(w)
    BY DEF OnlyUnviewedTaken
  <1>5. e = d /\ i \in Members(g) /\ put
    BY <1>3
  <1>6. w \in Vmrs /\ vmr[w].desc = d /\ vmr[w].st \in Joined
    BY <1>5 DEF Of, Joined
  <1> QED BY <1>4, <1>5, <1>6 DEF NoneViews

LEMMA StepTakes ==
    ASSUME Frame, Closes, Next
    PROVE  OnlyUnviewedTaken
  <1>1. ASSUME NEW v \in Vmrs, NEW i \in Idx, Fault(v, i) PROVE OnlyUnviewedTaken
    <2>1. PICK d \in Descs, o \in Gpas, mapped \in SUBSET Idx : FaultEffect(v, i, d, o, mapped)
      BY <1>1, FaultEffects
    <2>2. GetEffect(d, i, o)
      BY <2>1 DEF FaultEffect
    <2> QED BY <2>2, GetTakes
  <1>2. ASSUME NEW p \in Vmrs, NEW mid \in SharedSplits \cup PrivateSplits,
               NEW newIsFront \in BOOLEAN, SplitOpen(p, mid, newIsFront)
        PROVE  OnlyUnviewedTaken
    <2>1. PICK n \in Vmrs, m \in Mms, d \in Descs, o \in Gpas, b \in Idx,
               olo \in 0..NPages, ohi \in 0..NPages, nlo \in 0..NPages, nhi \in 0..NPages :
               SplitEffect(p, n, m, d, o, b, mid, olo, ohi, nlo, nhi)
      BY <1>2, SplitEffects
    <2>2. GetEffect(d, b, o)
      BY <2>1 DEF SplitEffect
    <2> QED BY <2>2, GetTakes
  <1>3. ASSUME NEW m \in Mms, ForkSibling(m) PROVE OnlyUnviewedTaken
    <2>1. PICK k \in Mms, p \in Vmrs, n \in Vmrs, c \in Descs, d \in Descs, w \in Vmrs,
               fails \in Outcomes : SiblingEffect(m, k, p, n, c, d, w, fails)
      BY <1>3, ForkSiblingEffect
    <2>2. DupEffect(p, c, d, TRUE)
      BY <2>1 DEF SiblingEffect
    <2> QED BY <2>2, DupTakes
  <1>4. ASSUME NEW m \in Mms, NEW wipe \in BOOLEAN, ForkPrivate(m, wipe) PROVE OnlyUnviewedTaken
    <2>1. PICK k \in Mms, p \in Vmrs, n \in Vmrs, c \in Descs, d \in Descs, fails \in Outcomes :
               PrivateEffect(m, k, p, n, c, d, wipe, fails)
      BY <1>4, ForkPrivateEffect
    <2>2. DupEffect(p, c, d, ~wipe)
      BY <2>1 DEF PrivateEffect
    <2> QED BY <2>2, DupTakes
  <1>5. ASSUME NEW v \in Vmrs, ClosePut(v) PROVE OnlyUnviewedTaken
    BY <1>5, PutTakes
  <1>6. ASSUME NEW v \in Vmrs, Close(v), ~ClosePut(v) PROVE dir' = dir
    BY <1>6 DEF Close, CloseEnter, CloseDropView, CloseDropRef, CloseQuery, CloseClear, CloseWake,
                CloseLast, dirVars
  <1>7. ASSUME NEW v \in Vmrs, SplitFails(v) \/ CloseBegin(v) PROVE dir' = dir
    BY <1>7 DEF SplitFails, CloseBegin, dirVars
  <1>8. ASSUME NEW shared \in Sharing, Mmap(shared) PROVE dir' = dir
    BY <1>8 DEF Mmap, dirVars
  <1>9. ASSUME NEW m \in Mms, ForkBegin(m) PROVE dir' = dir
    BY <1>9 DEF ForkBegin, dirVars
  <1>10. ASSUME NEW m \in Mms, Locked(m) PROVE OnlyUnviewedTaken
    <2>1. ASSUME SplitViews(m) \/ ForkSharedRef(m) \/ ForkFails(m) \/ ForkEnd(m) PROVE dir' = dir
      BY <2>1 DEF SplitViews, ForkSharedRef, ForkFails, ForkEnd, dirVars
    <2>2. ASSUME NEW v \in Vmrs, ForkSharedView(m, v) PROVE dir' = dir
      BY <2>2 DEF ForkSharedView, dirVars
    <2> QED BY <1>3, <1>4, <1>10, <2>1, <2>2, SameTaken DEF Locked
  <1> QED BY <1>1, <1>2, <1>5, <1>6, <1>7, <1>8, <1>9, <1>10, SameTaken DEF Next

(* A close never takes a slot out of the directory that another vmr views: *)
(* what find_uncovered() and is_covered() saw under the view_lock still    *)
(* holds when the group is put, as forks and splits that come in between   *)
(* only view what was viewed before.                                       *)
THEOREM ViewedSlotsAreKept == ASSUME Provided PROVE Spec => ViewedSlotsStay
  <1>1. ClosesInv /\ [Next]_vars => [OnlyUnviewedTaken]_vars
    BY StepTakes DEF ClosesInv, RefInv
  <1>2. ViewedSlotsStay <=> [][OnlyUnviewedTaken]_vars
    BY PTL DEF ViewedSlotsStay, OnlyUnviewedTaken
  <1> QED BY <1>1, <1>2, ClosesInductive, PTL DEF Spec
-----------------------------------------------------------------------------
(* TypeOK: what a vmr keeps of the count it saw.                           *)
Tally(w) == vmr'[w].cnt = vmr[w].cnt \/ vmr'[w].cnt = 0
Tallied == \A v \in Vmrs : vmr[v].cnt \in 0..MaxVmr

LEMMA CountZero == NewVmr.cnt = 0 /\ Dead.cnt = 0 /\ FirstVmr.cnt = 0
  BY DEF NewVmr, Dead, FirstVmr
LEMMA StaysTally == ASSUME NEW w, Stays(w) PROVE Tally(w)
  BY CountZero DEF Stays, Tally
LEMMA SetTally ==
    ASSUME Types, NEW v, NEW x, x.cnt = 0, vmr' = [vmr EXCEPT ![v] = x]
    PROVE  \A w \in Vmrs : Tally(w)
  BY DEF Types, Tally
LEMMA OnlyTally ==
    ASSUME NEW v \in Vmrs, OnlyVmr(v), Tally(v)
    PROVE  \A w \in Vmrs : Tally(w)
  BY DEF OnlyVmr, Tally
LEMMA ChildTally == ASSUME NEW m, NEW p, NEW st, NEW d PROVE Child(m, p, st, d).cnt = 0
  BY DEF Child, NewVmr

LEMMA FinishTally ==
    ASSUME Types, NEW p \in Vmrs, vmr[p].st = "live"
    PROVE  LET fs == finish_split(vmr, p)
           IN  /\ fs \in [Vmrs -> VmrRec] /\ fs[p].cnt = vmr[p].cnt
               /\ \A w \in Vmrs \ {p} : fs[w] = vmr[w] \/ fs[w] = Dead
  <1>1. vmr \in [Vmrs -> VmrRec] /\ vmr[p] \in VmrRec /\ vmr[p].st # "pending"
    BY DEF Types
  <1>2. PICK fs : fs = finish_split(vmr, p)
    OBVIOUS
  <1>3. /\ fs \in [Vmrs -> VmrRec] /\ fs[p] = [vmr[p] EXCEPT !.link = None]
        /\ \A w \in Vmrs \ {p} : fs[w] = vmr[w] \/ fs[w] = Dead
    BY <1>1, <1>2, FinishSplit
  <1>4. fs[p].cnt = vmr[p].cnt
    BY <1>1, <1>3, Unlinked
  <1> QED BY <1>2, <1>3, <1>4

LEMMA MayTally ==
    ASSUME Types, Links, NEW p \in Vmrs, NEW n \in Vmrs,
           vmr[p].st = "live", vmr[n].st = "unused"
    PROVE  LET ms == may_split(p, n)
           IN  /\ ms \in [Vmrs -> VmrRec] /\ n # p
               /\ ms[p].cnt = vmr[p].cnt /\ ms[n].cnt = 0
               /\ \A w \in Vmrs \ {p, n} : ms[w] = vmr[w] \/ ms[w] = Dead
  <1>1. vmr[p] \in VmrRec
    BY DEF Types
  <1> DEFINE ms == may_split(p, n)
  <1>3. /\ ms \in [Vmrs -> VmrRec] /\ n # p
        /\ ms[p] = [vmr[p] EXCEPT !.link = None]
        /\ ms[n] = [NewVmr EXCEPT !.st = "pending", !.mm = vmr[p].mm]
        /\ \A w \in Vmrs \ {p, n} : ms[w] = vmr[w] \/ (ms[w] = Dead /\ vmr[w].st = "pending")
    BY MaySplit
  <1> HIDE DEF ms
  <1>4. ms[p].cnt = vmr[p].cnt
    BY <1>1, <1>3, Unlinked
  <1>5. ms[n].cnt = 0
    BY <1>3 DEF NewVmr
  <1>6. /\ ms \in [Vmrs -> VmrRec] /\ n # p /\ ms[p].cnt = vmr[p].cnt /\ ms[n].cnt = 0
        /\ \A w \in Vmrs \ {p, n} : ms[w] = vmr[w] \/ ms[w] = Dead
    BY <1>3, <1>4, <1>5
  <1> QED BY <1>6 DEF ms

LEMMA HalfTally ==
    ASSUME NEW x \in VmrRec, NEW d, NEW lo, NEW hi, NEW q
    PROVE  HalfOf(x, lo, hi, q).cnt = x.cnt /\ OpenAs(x, d, lo, hi).cnt = x.cnt
  BY DEF VmrRec, HalfOf, OpenAs

LEMMA AnnounceTally ==
    ASSUME Frame, NEW p \in Vmrs, SplitFails(p)
    PROVE  \A w \in Vmrs : Tally(w)
  <1>1. /\ vmr[p].st = "live" /\ Unused # {} /\ Types /\ Links
        /\ vmr' = [may_split(p, NextVmr) EXCEPT ![p].link = NextVmr]
    BY DEF SplitFails, Frame
  <1>2. PICK n \in Vmrs : n = NextVmr /\ vmr[n].st = "unused"
    BY <1>1, NextVmrUnused
  <1>3. PICK ms : ms = may_split(p, n)
    OBVIOUS
  <1>4. /\ ms \in [Vmrs -> VmrRec] /\ n # p /\ ms[p].cnt = vmr[p].cnt /\ ms[n].cnt = 0
        /\ \A w \in Vmrs \ {p, n} : ms[w] = vmr[w] \/ ms[w] = Dead
    BY <1>1, <1>2, <1>3, MayTally
  <1>5. PICK y : y = [ms[p] EXCEPT !.link = n]
    OBVIOUS
  <1>6. y.cnt = ms[p].cnt
    BY <1>4, <1>5 DEF VmrRec
  <1>7. vmr' = [ms EXCEPT ![p] = y]
    BY <1>1, <1>2, <1>3, <1>5
  <1> QED BY <1>4, <1>6, <1>7, CountZero DEF Tally

LEMMA SplitTally ==
    ASSUME Frame, NEW p \in Vmrs, NEW mid \in SharedSplits \cup PrivateSplits,
           NEW newIsFront \in BOOLEAN, SplitOpen(p, mid, newIsFront)
    PROVE  \A w \in Vmrs : Tally(w)
  <1>1. vmr[p].st = "live" /\ Unused # {} /\ Types /\ Links
    BY DEF SplitOpen, Frame
  <1>2. PICK n \in Vmrs : n = NextVmr /\ vmr[n].st = "unused"
    BY <1>1, NextVmrUnused
  <1>3. PICK d, olo, ohi, nlo, nhi :
           vmr' = [may_split(p, n) EXCEPT
              ![p].lo = olo, ![p].hi = ohi, ![p].link = n,
              ![n].st = "live", ![n].desc = d, ![n].lo = nlo, ![n].hi = nhi]
    BY <1>2 DEF SplitOpen
  <1>4. PICK ms : ms = may_split(p, n)
    OBVIOUS
  <1>5. /\ ms \in [Vmrs -> VmrRec] /\ n # p /\ ms[p].cnt = vmr[p].cnt /\ ms[n].cnt = 0
        /\ \A w \in Vmrs \ {p, n} : ms[w] = vmr[w] \/ ms[w] = Dead
    BY <1>1, <1>2, <1>4, MayTally
  <1> DEFINE y == [ms[p] EXCEPT !.lo = olo, !.hi = ohi, !.link = n]
             z == [ms[n] EXCEPT !.st = "live", !.desc = d, !.lo = nlo, !.hi = nhi]
  <1>6. vmr' = [[ms EXCEPT ![p] = y] EXCEPT ![n] = z]
    BY <1>3, <1>4, <1>5
  <1>7. y = HalfOf(ms[p], olo, ohi, n) /\ z = OpenAs(ms[n], d, nlo, nhi)
    BY DEF HalfOf, OpenAs
  <1> HIDE DEF y, z
  <1>8. y.cnt = ms[p].cnt /\ z.cnt = ms[n].cnt
    BY <1>5, <1>7, HalfTally
  <1> QED BY <1>5, <1>6, <1>8, CountZero DEF Tally

LEMMA ViewsTally ==
    ASSUME Frame, NEW m \in Mms, SplitViews(m)
    PROVE  \A w \in Vmrs : Tally(w)
  <1>1. mm[m].op = "views" /\ vmr' = finish_split(vmr, mm[m].prev) /\ Types /\ SplitAt(m)
    BY DEF SplitViews, Frame, Splitting
  <1>2. PICK p \in Vmrs : p = mm[m].prev /\ vmr[p].st = "live"
    BY <1>1 DEF Types, MmRec, SplitAt
  <1>3. PICK fs : fs = finish_split(vmr, p)
    OBVIOUS
  <1>4. /\ fs[p].cnt = vmr[p].cnt
        /\ \A w \in Vmrs \ {p} : fs[w] = vmr[w] \/ fs[w] = Dead
    BY <1>1, <1>2, <1>3, FinishTally
  <1>5. vmr' = fs
    BY <1>1, <1>2, <1>3
  <1> QED BY <1>4, <1>5, CountZero DEF Tally

LEMMA BeginTally ==
    ASSUME Frame, NEW v \in Vmrs, CloseBegin(v)
    PROVE  \A w \in Vmrs : Tally(w)
  <1>1. /\ vmr[v].st = "live" /\ Types /\ "enter" \in Phases
        /\ vmr' = [finish_split(vmr, v) EXCEPT ![v].st = "enter"]
    BY DEF CloseBegin, Frame, Phases
  <1>2. PICK fs : fs = finish_split(vmr, v)
    OBVIOUS
  <1>3. /\ fs \in [Vmrs -> VmrRec] /\ fs[v].cnt = vmr[v].cnt
        /\ \A w \in Vmrs \ {v} : fs[w] = vmr[w] \/ fs[w] = Dead
    BY <1>1, <1>2, FinishTally
  <1>4. PICK y : y = [fs[v] EXCEPT !.st = "enter"]
    OBVIOUS
  <1>5. y.cnt = fs[v].cnt
    BY <1>1, <1>3, <1>4, InPhase
  <1>6. vmr' = [fs EXCEPT ![v] = y]
    BY <1>1, <1>2, <1>4
  <1> QED BY <1>3, <1>5, <1>6, CountZero DEF Tally

LEMMA WakeTally ==
    ASSUME Frame, NEW v \in Vmrs, CloseWake(v)
    PROVE  \A w \in Vmrs : Tally(w)
  <1>1. \A w \in Vmrs : \/ vmr'[w] = Dead \/ vmr'[w] = vmr[w]
                        \/ vmr'[w] = [vmr[w] EXCEPT !.st = "enter"]
    BY DEF CloseWake
  <1>2. "enter" \in Phases
    BY DEF Phases
  <1>3. ASSUME NEW w \in Vmrs PROVE Tally(w)
    <2>1. vmr[w] \in VmrRec
      BY DEF Frame, Types
    <2>2. PICK y : y = [vmr[w] EXCEPT !.st = "enter"]
      OBVIOUS
    <2>3. y.cnt = vmr[w].cnt
      BY <1>2, <2>1, <2>2, InPhase
    <2> QED BY <1>1, <2>2, <2>3, CountZero DEF Tally
  <1> QED BY <1>3

LEMMA LockedTally ==
    ASSUME Frame, NEW m \in Mms, Locked(m)
    PROVE  \A w \in Vmrs : Tally(w)
  <1> Types
    BY DEF Frame
  <1>1. CASE SplitViews(m)
    BY <1>1, ViewsTally
  <1>2. CASE ForkSharedRef(m)
    <2>1. PICK n, p, d, x : x = Child(m, p, "joining", d) /\ vmr' = [vmr EXCEPT ![n] = x]
      BY <1>2 DEF ForkSharedRef
    <2> QED BY <2>1, ChildTally, SetTally
  <1>3. ASSUME NEW v \in Vmrs, ForkSharedView(m, v) PROVE \A w \in Vmrs : Tally(w)
    <2>1. "live" \in Phases /\ vmr' = In(v, "live")
      BY <1>3 DEF ForkSharedView, In, Phases
    <2>2. OnlyVmr(v) /\ vmr'[v].cnt = vmr[v].cnt
      BY <2>1, InEffect
    <2> QED BY <2>2, OnlyTally DEF Tally
  <1>4. CASE ForkSibling(m)
    <2>1. PICK n, p, d, x : x = Child(m, p, "live", d) /\ vmr' = [vmr EXCEPT ![n] = x]
      BY <1>4 DEF ForkSibling
    <2> QED BY <2>1, ChildTally, SetTally
  <1>5. ASSUME NEW wipe \in BOOLEAN, ForkPrivate(m, wipe) PROVE \A w \in Vmrs : Tally(w)
    BY <1>5, ChildTally, SetTally DEF ForkPrivate
  <1>6. CASE ForkFails(m)
    BY <1>6, CountZero, SetTally DEF ForkFails
  <1>7. CASE ForkEnd(m)
    BY <1>7 DEF ForkEnd, Tally
  <1> QED BY <1>1, <1>2, <1>3, <1>4, <1>5, <1>6, <1>7 DEF Locked

(* The count a close goes by is what it left of the refcount.              *)
LEMMA DropTally ==
    ASSUME Frame, Counted, NEW v \in Vmrs, CloseDropRef(v)
    PROVE  OnlyVmr(v) /\ vmr'[v].cnt \in 0..MaxVmr
  <1>1. PICK d \in Descs : /\ d = vmr[v].desc /\ OnlyVmr(v) /\ vmr[v].st = "dropped"
                           /\ vmr'[v].cnt = desc[d].refcount - 1
    BY CloseDropRefEffect
  <1>2. PICK S \in SUBSET Vmrs : S = Of(d, Holding)
    BY DEF Of
  <1>3. v \in S
    BY <1>1, <1>2, Stands DEF Of
  <1>4. desc[d].refcount = Cardinality(S)
    BY <1>2 DEF Counted
  <1>5. Cardinality(S) \in Nat /\ Cardinality(S) <= MaxVmr /\ Cardinality(S) # 0
    BY <1>3, VmrCounts
  <1> QED BY <1>1, <1>4, <1>5, Sizes

LEMMA CloseTally ==
    ASSUME Frame, NEW v \in Vmrs, Close(v), ~CloseDropRef(v)
    PROVE  \A w \in Vmrs : Tally(w)
  <1>1. CASE CloseEnter(v)
    BY <1>1, CloseEnterEffect, OnlyTally DEF EnterEffect, SameLocals, Tally
  <1>2. CASE CloseDropView(v)
    BY <1>2, CloseDropViewEffect, OnlyTally DEF DropViewEffect, SameLocals, Tally
  <1>3. CASE CloseQuery(v)
    BY <1>3, CloseQueryEffect, OnlyTally DEF Tally
  <1>4. CASE ClosePut(v)
    <2>1. PICK d \in Descs, g \in Groups, o \in Gpas, put \in BOOLEAN : PutEffect(v, d, g, o, put)
      BY <1>4, ClosePutEffect
    <2>2. OnlyVmr(v) /\ vmr'[v].cnt = vmr[v].cnt
      BY <2>1 DEF PutEffect
    <2> QED BY <2>2, OnlyTally DEF Tally
  <1>5. CASE CloseClear(v)
    BY <1>5, CloseClearEffect, OnlyTally DEF ClearEffect, SameLocals, Tally
  <1>6. CASE CloseWake(v)
    BY <1>6, WakeTally
  <1>7. CASE CloseLast(v)
    BY <1>7, CountZero, SetTally DEF CloseLast, Frame
  <1> QED BY <1>1, <1>2, <1>3, <1>4, <1>5, <1>6, <1>7 DEF Close

LEMMA TalliedStepped ==
    ASSUME Frame, Counted, Tallied, [Next]_vars
    PROVE  Tallied'
  <1> Types
    BY DEF Frame
  <1>1. CASE \A w \in Vmrs : Tally(w)
    <2>1. 0 \in 0..MaxVmr
      BY Sizes
    <2> QED BY <1>1, <2>1 DEF Tallied, Tally
  <1>2. CASE UNCHANGED vars
    BY <1>1, <1>2 DEF vars, Tally
  <1>3. ASSUME NEW shared \in Sharing, Mmap(shared) PROVE Tallied'
    <2>1. vmr' = [vmr EXCEPT ![1] = FirstVmr]
      BY <1>3 DEF Mmap, FirstVmr
    <2> QED BY <1>1, <2>1, CountZero, SetTally
  <1>4. ASSUME NEW v \in Vmrs, NEW i \in Idx, Fault(v, i) PROVE Tallied'
    BY <1>1, <1>4 DEF Fault, Tally
  <1>5. ASSUME NEW v \in Vmrs, SplitFails(v) \/ CloseBegin(v) \/ Close(v) PROVE Tallied'
    <2>1. CASE SplitFails(v)
      BY <1>1, <2>1, AnnounceTally
    <2>2. CASE CloseBegin(v)
      BY <1>1, <2>2, BeginTally
    <2>3. CASE CloseDropRef(v)
      BY <2>3, DropTally DEF OnlyVmr, Tallied
    <2>4. CASE Close(v) /\ ~CloseDropRef(v)
      BY <1>1, <2>4, CloseTally
    <2> QED BY <1>5, <2>1, <2>2, <2>3, <2>4
  <1>6. ASSUME NEW v \in Vmrs, NEW mid \in SharedSplits \cup PrivateSplits,
               NEW newIsFront \in BOOLEAN, SplitOpen(v, mid, newIsFront)
        PROVE  Tallied'
    BY <1>1, <1>6, SplitTally
  <1>7. ASSUME NEW m \in Mms, ForkBegin(m) \/ Locked(m) PROVE Tallied'
    <2>1. CASE ForkBegin(m)
      BY <1>1, <2>1 DEF ForkBegin, Tally
    <2>2. CASE Locked(m)
      BY <1>1, <2>2, LockedTally
    <2> QED BY <1>7, <2>1, <2>2
  <1> QED BY <1>2, <1>3, <1>4, <1>5, <1>6, <1>7 DEF Next

-----------------------------------------------------------------------------
(* Nobody counts a group that is free.                                     *)
FreeAt(o) == \A i \in Idx : ref[o][i] = 0
Freed == \A o \in Gpas \ used : FreeAt(o)

LEMMA SameFreed == ASSUME Freed, UNCHANGED <<used, ref>> PROVE Freed'
  BY DEF Freed, FreeAt

LEMMA GetFreed ==
    ASSUME Freed, NEW d \in Descs, NEW i \in Idx, NEW o \in Gpas, GetEffect(d, i, o)
    PROVE  Freed'
  <1> SUFFICES ASSUME NEW x \in Gpas \ used', NEW j \in Idx PROVE ref'[x][j] = 0
    BY DEF Freed, FreeAt
  <1>1. CASE UNCHANGED <<dir, used, ref>>
    BY <1>1 DEF Freed, FreeAt
  <1>2. CASE ~UNCHANGED <<dir, used, ref>>
    <2>1. /\ used' = used \cup {o}
          /\ \A y \in Gpas, k \in Idx :
                ref'[y][k] = IF y = o
                             THEN IF k \in Members(GroupOf[i]) /\ dir[d][k] = None THEN 1 ELSE 0
                             ELSE ref[y][k]
      BY <1>2 DEF GetEffect
    <2>2. x # o /\ x \in Gpas \ used
      BY <2>1
    <2> QED BY <2>1, <2>2 DEF Freed, FreeAt
  <1> QED BY <1>1, <1>2

LEMMA PutFreed ==
    ASSUME Types, GroupsKept, Freed, NEW v \in Vmrs, NEW d \in Descs, NEW g \in Groups, NEW o \in Gpas,
           NEW put \in BOOLEAN, PutEffect(v, d, g, o, put)
    PROVE  Freed'
  <1> SUFFICES ASSUME NEW x \in Gpas \ used', NEW i \in Idx PROVE ref'[x][i] = 0
    BY DEF Freed, FreeAt
  <1>1. /\ o = dir[d][g.first]
        /\ put => \A j \in Members(g) : dir[d][j] = o
        /\ \A y \in Gpas, j \in Idx :
              ref'[y][j] = IF y = o /\ j \in Members(g) /\ put THEN ref[y][j] - 1 ELSE ref[y][j]
        /\ \A e \in Descs, j \in Idx :
              dir'[e][j] = IF e = d /\ j \in Members(g) /\ put THEN None ELSE dir[e][j]
        /\ used' = IF put /\ ref'[o][g.first] = 0 THEN used \ {o} ELSE used
    BY DEF PutEffect
  <1>2. Referenced /\ Referenced'
    BY PutKeeps DEF GroupsKept
  <1>3. o \in used
    <2>1. g.first \in Idx
      BY Tiling
    <2>2. d \in Dirs(o, g.first)
      BY <1>1 DEF Dirs
    <2> QED BY <1>2, <2>1, <2>2 DEF Referenced
  <1>4. CASE x # o
    <2>1. x \in Gpas \ used
      BY <1>1, <1>4
    <2> QED BY <1>1, <1>4, <2>1 DEF Freed, FreeAt
  <1>5. CASE x = o
    <2>1. put
      BY <1>1, <1>3, <1>5
    <2>2. PICK D \in SUBSET Descs : D = Dirs(o, i)
      BY DEF Dirs
    <2>3. ref[o][i] = Cardinality(D)
      BY <1>2, <1>3, <2>2 DEF Referenced
    <2>4. \A e \in Descs : dir'[e][i] # o
      BY <1>2, <1>5 DEF Referenced, Dirs
    <2>5. CASE i \in Members(g)
      <3>1. D = {} \cup {d}
        <4>1. dir[d][i] = o
          BY <1>1, <2>1, <2>5
        <4>2. \A e \in Descs \ {d} : dir[e][i] # o
          BY <1>1, <2>4
        <4> QED BY <2>2, <4>1, <4>2 DEF Dirs
      <3>2. Cardinality({} \cup {d}) = 1
        <4>1. {} \in SUBSET Descs /\ Cardinality({}) = 0
          BY SetCounts
        <4> QED BY <4>1, SetCounts
      <3> QED BY <1>1, <1>5, <2>1, <2>3, <2>5, <3>1, <3>2
    <2>6. CASE i \notin Members(g)
      <3>1. D = {}
        BY <1>1, <2>2, <2>4, <2>6 DEF Dirs
      <3> QED BY <1>1, <1>5, <2>3, <2>6, <3>1, SetCounts
    <2> QED BY <2>5, <2>6
  <1> QED BY <1>4, <1>5

LEMMA DupFreed ==
    ASSUME Freed, Referenced, NEW p \in Vmrs, NEW c \in Descs, NEW d \in Descs, NEW dup \in BOOLEAN,
           DupEffect(p, c, d, dup)
    PROVE  Freed'
  <1> SUFFICES ASSUME NEW x \in Gpas \ used', NEW i \in Idx PROVE ref'[x][i] = 0
    BY DEF Freed, FreeAt
  <1>1. x \in Gpas \ used
    BY DEF DupEffect
  <1>2. dir[c][i] # x
    BY <1>1 DEF Referenced, Dirs
  <1>3. ref'[x][i] = ref[x][i]
    BY <1>1, <1>2 DEF DupEffect
  <1> QED BY <1>1, <1>3 DEF Freed, FreeAt

LEMMA LockedFreed ==
    ASSUME Frame, Referenced, Freed, NEW m \in Mms, Locked(m)
    PROVE  Freed'
  <1>1. CASE SplitViews(m)
    BY <1>1, SameFreed DEF SplitViews, dirVars
  <1>2. CASE ForkSharedRef(m)
    BY <1>2, SameFreed DEF ForkSharedRef, dirVars
  <1>3. ASSUME NEW v \in Vmrs, ForkSharedView(m, v) PROVE Freed'
    BY <1>3, SameFreed DEF ForkSharedView, dirVars
  <1>4. CASE ForkSibling(m)
    <2>1. PICK k \in Mms, p \in Vmrs, n \in Vmrs, c \in Descs, d \in Descs, w \in Vmrs,
               fails \in Outcomes : SiblingEffect(m, k, p, n, c, d, w, fails)
      BY <1>4, ForkSiblingEffect
    <2>2. DupEffect(p, c, d, TRUE)
      BY <2>1 DEF SiblingEffect
    <2> QED BY <2>2, DupFreed
  <1>5. ASSUME NEW wipe \in BOOLEAN, ForkPrivate(m, wipe) PROVE Freed'
    <2>1. PICK k \in Mms, p \in Vmrs, n \in Vmrs, c \in Descs, d \in Descs,
               fails \in Outcomes : PrivateEffect(m, k, p, n, c, d, wipe, fails)
      BY <1>5, ForkPrivateEffect
    <2>2. PICK dup \in BOOLEAN : dup = ~wipe
      BY <1>5
    <2>3. DupEffect(p, c, d, dup)
      BY <2>1, <2>2 DEF PrivateEffect
    <2> QED BY <2>3, DupFreed
  <1>6. CASE ForkFails(m)
    BY <1>6, SameFreed DEF ForkFails, dirVars
  <1>7. CASE ForkEnd(m)
    BY <1>7, SameFreed DEF ForkEnd, dirVars
  <1> QED BY <1>1, <1>2, <1>3, <1>4, <1>5, <1>6, <1>7 DEF Locked

LEMMA CloseFreed ==
    ASSUME Frame, GroupsKept, Freed, NEW v \in Vmrs, Close(v)
    PROVE  Freed'
  <1>1. CASE CloseEnter(v)
    BY <1>1, SameFreed DEF CloseEnter, dirVars
  <1>2. CASE CloseDropView(v)
    BY <1>2, SameFreed DEF CloseDropView, dirVars
  <1>3. CASE CloseDropRef(v)
    BY <1>3, SameFreed DEF CloseDropRef, dirVars
  <1>4. CASE CloseQuery(v)
    BY <1>4, SameFreed DEF CloseQuery, dirVars
  <1>5. CASE ClosePut(v)
    <2>1. PICK d \in Descs, g \in Groups, o \in Gpas, put \in BOOLEAN : PutEffect(v, d, g, o, put)
      BY <1>5, ClosePutEffect
    <2> QED BY <2>1, PutFreed DEF Frame
  <1>6. CASE CloseClear(v)
    BY <1>6, SameFreed DEF CloseClear, dirVars
  <1>7. CASE CloseWake(v)
    BY <1>7, SameFreed DEF CloseWake, dirVars
  <1>8. CASE CloseLast(v)
    BY <1>8, SameFreed DEF CloseLast, dirVars
  <1> QED BY <1>1, <1>2, <1>3, <1>4, <1>5, <1>6, <1>7, <1>8 DEF Close

LEMMA FreedStepped ==
    ASSUME Frame, GroupsKept, Freed, [Next]_vars
    PROVE  Freed'
  <1>1. CASE UNCHANGED vars
    BY <1>1, SameFreed DEF vars
  <1>2. ASSUME NEW shared \in Sharing, Mmap(shared) PROVE Freed'
    BY <1>2, SameFreed DEF Mmap, dirVars
  <1>3. ASSUME NEW v \in Vmrs, NEW i \in Idx, Fault(v, i) PROVE Freed'
    <2>1. PICK d \in Descs, o \in Gpas, mapped \in SUBSET Idx : FaultEffect(v, i, d, o, mapped)
      BY <1>3, FaultEffects
    <2>2. GetEffect(d, i, o)
      BY <2>1 DEF FaultEffect
    <2> QED BY <2>2, GetFreed
  <1>4. ASSUME NEW v \in Vmrs, SplitFails(v) \/ CloseBegin(v) \/ Close(v) PROVE Freed'
    <2>1. CASE SplitFails(v)
      BY <2>1, SameFreed DEF SplitFails, dirVars
    <2>2. CASE CloseBegin(v)
      BY <2>2, SameFreed DEF CloseBegin, dirVars
    <2> QED BY <1>4, <2>1, <2>2, CloseFreed
  <1>5. ASSUME NEW v \in Vmrs, NEW mid \in SharedSplits \cup PrivateSplits,
               NEW newIsFront \in BOOLEAN, SplitOpen(v, mid, newIsFront)
        PROVE  Freed'
    <2>1. PICK n \in Vmrs, m \in Mms, d \in Descs, o \in Gpas, b \in Idx,
               olo, ohi, nlo, nhi \in 0..NPages :
               SplitEffect(v, n, m, d, o, b, mid, olo, ohi, nlo, nhi)
      BY <1>5, SplitEffects
    <2>2. GetEffect(d, b, o)
      BY <2>1 DEF SplitEffect
    <2> QED BY <2>2, GetFreed
  <1>6. ASSUME NEW m \in Mms, ForkBegin(m) \/ Locked(m) PROVE Freed'
    <2>1. CASE ForkBegin(m)
      BY <2>1, SameFreed DEF ForkBegin, dirVars
    <2> QED BY <1>6, <2>1, LockedFreed DEF GroupsKept
  <1> QED BY <1>1, <1>2, <1>3, <1>4, <1>5, <1>6 DEF Next

-----------------------------------------------------------------------------
(* The types, with the bounds of the counts.                               *)
Ranged == ClosesInv /\ Tallied /\ Freed

LEMMA DescCounts ==
    ASSUME NEW S \in SUBSET Descs
    PROVE  Cardinality(S) \in 0..MaxDesc
  <1>1. IsFiniteSet(Descs) /\ Cardinality(Descs) = MaxDesc
    BY Sizes, FS_Interval DEF Descs
  <1>2. Cardinality(S) \in Nat /\ Cardinality(S) <= MaxDesc
    BY <1>1, FS_Subset, FS_CardinalityType
  <1> QED BY <1>2, Sizes

LEMMA VmrTyped == ASSUME NEW x \in VmrRec, x.cnt \in 0..MaxVmr PROVE x \in VmrType
  BY DEF VmrRec, VmrType

LEMMA EntryTyped ==
    ASSUME NEW x \in ViewRec, x.count <= MaxVmr
    PROVE  x \in ViewType
  <1>1. /\ x.start \in 0..NPages /\ x.end \in 0..NPages /\ x.count \in Nat \ {0}
        /\ x.start \in Nat /\ x.end \in Nat /\ x.start < x.end
        /\ x = View(x.start, x.end, x.count)
    BY ViewFields
  <1>2. x.end \in 1..NPages /\ x.count \in 1..MaxVmr
    BY <1>1, Sizes
  <1> QED BY <1>1, <1>2 DEF View, ViewType

LEMMA ViewsTyped ==
    ASSUME Frame, Books, NEW d \in Descs
    PROVE  ToSet(desc[d].views) \subseteq ViewType
  <1>1. PICK views : views = desc[d].views
    OBVIOUS
  <1>2. Listed(views)
    BY <1>1 DEF Frame, Lists
  <1>3. ASSUME NEW k \in DOMAIN views PROVE views[k] \in ViewType
    <2>1. views[k] \in ViewRec
      BY <1>2, ListedFields
    <2>2. PICK s \in 0..NPages, e \in 0..NPages, c \in Nat \ {0} :
             s = views[k].start /\ e = views[k].end /\ c = views[k].count
      BY <2>1, ViewFields
    <2>3. PICK S \in SUBSET Vmrs : S = Claimants(d, s, e)
      BY DEF Claimants
    <2>4. c = CountOf(views, s, e)
      BY <1>2, <2>2, CountAt
    <2>5. c = Cardinality(S)
      BY <1>1, <2>3, <2>4 DEF Books, Matching
    <2>6. c <= MaxVmr
      BY <2>5, VmrCounts
    <2> QED BY <2>1, <2>2, <2>6, EntryTyped
  <1> QED BY <1>1, <1>3 DEF ToSet

LEMMA MmTyped ==
    ASSUME NEW x \in MmRec
    PROVE  x.op \in {"unused", "idle", "views", "fork", "child", "close"}
  BY DEF MmRec

LEMMA RangedTypes == Ranged => TypeOK
  <1> SUFFICES ASSUME Ranged PROVE TypeOK
    OBVIOUS
  <1>1. Frame /\ Types /\ GroupsKept /\ Books /\ Tallied /\ Freed
    BY DEF Ranged, ClosesInv, RefInv, Frame
  <1>2. vmr \in [Vmrs -> VmrType]
    <2>1. \A v \in Vmrs : vmr[v] \in VmrType
      BY <1>1, VmrTyped DEF Types, Tallied
    <2> QED BY <1>1, <2>1 DEF Types
  <1>3. \A m \in Mms : mm[m].op \in {"unused", "idle", "views", "fork", "child", "close"}
    BY <1>1, MmTyped DEF Types
  <1>4. ASSUME NEW d \in Descs
        PROVE  /\ desc[d].st \in {"unused", "alive", "freed"} /\ desc[d].shared \in BOOLEAN
               /\ desc[d].refcount \in 0..MaxVmr
               /\ desc[d].closer \in Vmrs \cup {None}
               /\ ToSet(desc[d].views) \subseteq ViewType
    <2>1. desc[d] \in DescRec
      BY <1>1 DEF Types
    <2>2. PICK S \in SUBSET Vmrs : S = Of(d, Holding)
      BY DEF Of
    <2>3. desc[d].refcount = Cardinality(S)
      BY <1>1, <2>2 DEF Books, Counted
    <2>4. desc[d].refcount \in 0..MaxVmr
      BY <2>3, VmrCounts, Sizes
    <2> QED BY <1>1, <2>1, <2>4, DescRecs, ViewsTyped
  <1>5. ref \in [Gpas -> [Idx -> 0..MaxDesc]]
    <2>1. ASSUME NEW o \in Gpas, NEW i \in Idx PROVE ref[o][i] \in 0..MaxDesc
      <3>1. CASE o \in used
        <4>1. PICK D \in SUBSET Descs : D = Dirs(o, i)
          BY DEF Dirs
        <4>2. ref[o][i] = Cardinality(D)
          BY <1>1, <3>1, <4>1 DEF GroupsKept, Referenced
        <4> QED BY <4>2, DescCounts
      <3>2. CASE o \notin used
        <4>1. ref[o][i] = 0
          BY <1>1, <3>2 DEF Freed, FreeAt
        <4> QED BY <4>1, Sizes
      <3> QED BY <3>1, <3>2
    <2>2. ref \in [Gpas -> [Idx -> Int]]
      BY <1>1 DEF Types
    <2>3. \A o \in Gpas : ref[o] \in [Idx -> 0..MaxDesc]
      BY <2>1, <2>2
    <2> QED BY <2>2, <2>3
  <1> QED BY <1>1, <1>2, <1>3, <1>4, <1>5 DEF Types, TypeOK

LEMMA RangedInit == Init => Tallied /\ Freed
  <1> SUFFICES ASSUME Init PROVE Tallied /\ Freed
    OBVIOUS
  <1>1. /\ vmr = [v \in Vmrs |-> NewVmr]
        /\ ref = [o \in Gpas |-> [i \in Idx |-> 0]]
    BY DEF Init
  <1>2. Tallied
    BY <1>1, CountZero, Sizes DEF Tallied
  <1>3. Freed
    BY <1>1 DEF Freed, FreeAt
  <1> QED BY <1>2, <1>3

(* The types of all variables and the range of every count: what a close   *)
(* keeps of desc->refcount, the refcount itself, the count of a view and   *)
(* gpa->refcnt never go below zero or beyond what can be counted, and no   *)
(* entry of a view list has count 0.                                       *)
THEOREM TypesKept == ASSUME Provided PROVE Spec => []TypeOK
  <1>1. Init => Ranged
    BY FrameInit, RefInvInit, BooksInit, ClosesInit, RangedInit DEF Ranged, ClosesInv, RefInv
  <1>2. Ranged /\ [Next]_vars => Ranged'
    <2> SUFFICES ASSUME Ranged, [Next]_vars PROVE Ranged'
      OBVIOUS
    <2>1. ClosesInv /\ Frame /\ GroupsKept /\ Counted /\ Tallied /\ Freed
      BY DEF Ranged, ClosesInv, RefInv, Books
    <2>2. ClosesInv'
      BY <2>1, ClosesInvStepped
    <2>3. Tallied' /\ Freed'
      BY <2>1, TalliedStepped, FreedStepped
    <2> QED BY <2>2, <2>3 DEF Ranged
  <1> QED BY <1>1, <1>2, RangedTypes, PTL DEF Spec
=============================================================================
