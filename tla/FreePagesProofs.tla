-------------------------- MODULE FreePagesProofs --------------------------
(***************************************************************************)
(* Proofs about FreePages: however many threads free pages while the cache *)
(* shrinks and grows, they never pay more than the debt, the cache         *)
(* outgrows its limit by no more than what is unpaid and one page for each *)
(* other thread, and no page is lost or counted twice.                     *)
(*                                                                         *)
(* The first two follow from counting the threads between two steps: those *)
(* that have taken a page off the debt (Paying), those of them that are    *)
(* about to put it back, and those that passed the check of                *)
(* alloc_pages_len.  The last needs to know what a thread has in hand      *)
(* wherever it is (Stage); each step then moves pages between a list, a    *)
(* thread and the blocks, or into and out of alloc_pages_len (Keep).       *)
(***************************************************************************)
EXTENDS FreePages, FiniteSetTheorems, TLAPS

Pcs == {"idle", "lock", "local", "host", "hostalloc", "pull", "pullglobal",
        "pullothers", "splice", "reclaim", "wait", "populate",
        "debt", "pay", "restore", "tohost", "put", "toglobal"}

(* Of the record of a thread only these fields count.                      *)
Thread(x) ==
    /\ x = [f \in DOMAIN x |-> x[f]]
    /\ {"pc", "ret", "tmp", "rest"} \subseteq DOMAIN x
    /\ x.pc \in Pcs /\ x.ret \in {"idle", "host"}
    /\ x.tmp \in Int /\ x.rest \subseteq Cpus

(* As much of the types as the counting needs.                             *)
Typed ==
    /\ config \in Configs
    /\ local \in [Cpus -> Int] /\ glob \in Int /\ alloc \in Int
    /\ cache \in Int /\ debt \in Int
    /\ resize.left \in Int /\ resize.pending \in Nat
    /\ resize = [left |-> resize.left, pending |-> resize.pending]
    /\ th = [t \in Threads |-> th[t]]
    /\ \A t \in Threads : Thread(th[t])

Off(Q) == {t \in Threads : th[t].pc \in Q}
Num(Q) == Cardinality(Off(Q))
Restoring == {"restore"}
Paying == {"restore", "tohost"}
Passed == {"hostalloc"}

NotOverpaid == debt + Num(Restoring) >= 0
WithinMax ==
    alloc + Num(Passed) <=
        LocalCacheMax + debt + resize.pending + Num(Paying) + Cardinality(config.threads) - 1

(* Who does not take part never leaves "idle".                             *)
Idling == \A t \in Threads \ config.threads : th[t].pc = "idle"

IInv == Typed /\ Idling /\ NotOverpaid /\ WithinMax

One(b) == IF b THEN 1 ELSE 0

(***************************************************************************)
(* A step of one thread changes each count by that thread alone.           *)
(***************************************************************************)
OnlyMoves(t) == \A u \in Threads \ {t} : th'[u] = th[u]

LEMMA Counted ==
    ASSUME NEW Q
    PROVE  /\ IsFiniteSet(Off(Q)) /\ Num(Q) \in Nat /\ Num(Q) <= Cardinality(Threads)
           /\ IsFiniteSet(Off(Q)') /\ Num(Q)' \in Nat
           /\ Cardinality(Threads) \in Nat
<1>1. IsFiniteSet(Threads)
  BY FreePagesAssumption
<1>2. Off(Q) \subseteq Threads /\ Off(Q)' \subseteq Threads
  BY DEF Off
<1>3. QED
  BY <1>1, <1>2, FS_Subset, FS_CardinalityType DEF Num

LEMMA Moved ==
    ASSUME NEW t \in Threads, NEW Q, OnlyMoves(t)
    PROVE  Num(Q)' = Num(Q) - One(th[t].pc \in Q) + One(th'[t].pc \in Q)
<1>1. CASE th[t].pc \in Q /\ th'[t].pc \notin Q
  <2>1. t \in Off(Q) /\ Off(Q)' = Off(Q) \ {t}
    BY <1>1 DEF Off, OnlyMoves
  <2>2. Cardinality(Off(Q)') = Cardinality(Off(Q)) - 1
    BY <2>1, Counted, FS_RemoveElement
  <2>3. QED
    BY <1>1, <2>2, Counted DEF One, Num
<1>2. CASE th[t].pc \notin Q /\ th'[t].pc \in Q
  <2>1. t \notin Off(Q) /\ Off(Q)' = Off(Q) \cup {t}
    BY <1>2 DEF Off, OnlyMoves
  <2>2. Cardinality(Off(Q)') = Cardinality(Off(Q)) + 1
    BY <2>1, Counted, FS_AddElement
  <2>3. QED
    BY <1>2, <2>2, Counted DEF One, Num
<1>3. CASE th[t].pc \in Q <=> th'[t].pc \in Q
  <2>1. Off(Q)' = Off(Q)
    BY <1>3 DEF Off, OnlyMoves
  <2>2. QED
    BY <1>3, <2>1, Counted DEF One, Num
<1>4. QED
  BY <1>1, <1>2, <1>3

-----------------------------------------------------------------------------
(***************************************************************************)
(* What each step of a thread does to the numbers and to its counter.      *)
(* Sizes are left alone by all of them.                                    *)
(***************************************************************************)
Uncounted == {"idle", "lock", "local", "host", "pull", "pullglobal", "pullothers",
              "splice", "reclaim", "wait", "populate", "debt", "pay", "put", "toglobal"}

Neutral(t) ==
    /\ th[t].pc \in Uncounted /\ th'[t].pc \in Uncounted
    /\ alloc' = alloc /\ debt' = debt
Passes(t) ==
    /\ th[t].pc \in Uncounted /\ th'[t].pc = "hostalloc"
    /\ alloc < LocalCacheMax /\ alloc' = alloc /\ debt' = debt
Allocates(t) ==
    /\ th[t].pc = "hostalloc" /\ th'[t].pc \in Uncounted
    /\ alloc' \in {alloc, alloc + 1} /\ debt' = debt
Pays(t) ==
    /\ th[t].pc \in Uncounted
    /\ th'[t].pc = IF debt >= 1 THEN "tohost" ELSE "restore"
    /\ alloc' = alloc /\ debt' = debt - 1
Restores(t) ==
    /\ th[t].pc = "restore" /\ th'[t].pc \in Uncounted
    /\ alloc' = alloc /\ debt' = debt + 1
FreesPage(t) ==
    /\ th[t].pc = "tohost" /\ th'[t].pc \in Uncounted
    /\ alloc' = alloc - 1 /\ debt' = debt

Effect(t) == Neutral(t) \/ Passes(t) \/ Allocates(t) \/ Pays(t) \/ Restores(t) \/ FreesPage(t)

LEMMA CpusFixed == config' = config => Cpus' = Cpus /\ cpu' = cpu
  BY DEF Cpus, cpu

LEMMA GotThread ==
    ASSUME NEW x, Thread(x)
    PROVE  Thread(Got(x)) /\ Got(x).pc \in {"populate", "local"}
  BY DEF Thread, Pcs, Got

LEMMA IdleThread == Thread(Idle) /\ Idle.pc = "idle"
  BY DEF Thread, Pcs, Idle

Carrying(x, n, p) == [x EXCEPT !.tmp = n, !.pc = p]
Pulling(x, n, D, p) == [x EXCEPT !.tmp = n, !.rest = D, !.pc = p]
Copying(x) == [x EXCEPT !.pc = "local", !.copy = TRUE]
Freeing(x, n) == [x EXCEPT !.pc = "debt", !.push = n]
FreeingOn(x, n, b) == [x EXCEPT !.pc = "debt", !.push = n, !.nocpu = b]
Spliced(x) == [x EXCEPT !.tmp = 0, !.rest = {}]

LEMMA ChangedThread ==
    ASSUME NEW x, Thread(x)
    PROVE  /\ \A n \in Int, p \in Pcs :
               Thread(Carrying(x, n, p)) /\ Carrying(x, n, p).pc = p
           /\ \A n \in Int, D \in SUBSET Cpus, p \in Pcs :
               Thread(Pulling(x, n, D, p)) /\ Pulling(x, n, D, p).pc = p
           /\ Thread(Copying(x)) /\ Copying(x).pc = "local"
           /\ \A n : Thread(Freeing(x, n)) /\ Freeing(x, n).pc = "debt"
           /\ \A n, b : Thread(FreeingOn(x, n, b)) /\ FreeingOn(x, n, b).pc = "debt"
           /\ Thread(Spliced(x))
<1>1. \A n \in Int, p \in Pcs : Thread(Carrying(x, n, p)) /\ Carrying(x, n, p).pc = p
  BY DEF Thread, Carrying
<1>2. \A n \in Int, D \in SUBSET Cpus, p \in Pcs :
        Thread(Pulling(x, n, D, p)) /\ Pulling(x, n, D, p).pc = p
  <2> SUFFICES ASSUME NEW n \in Int, NEW D \in SUBSET Cpus, NEW p \in Pcs
               PROVE  Thread(Pulling(x, n, D, p)) /\ Pulling(x, n, D, p).pc = p
    OBVIOUS
  <2> DEFINE y == Pulling(x, n, D, p)
  <2>1. y = [f \in DOMAIN y |-> y[f]] /\ DOMAIN y = DOMAIN x
    BY DEF Thread, Pulling
  <2>2. y.pc = p /\ y.ret = x.ret /\ y.tmp = n /\ y.rest = D
    BY DEF Thread, Pulling
  <2>3. QED
    BY <2>1, <2>2 DEF Thread
<1>3. Thread(Copying(x)) /\ Copying(x).pc = "local"
  BY DEF Thread, Pcs, Copying
<1>4. \A n : Thread(Freeing(x, n)) /\ Freeing(x, n).pc = "debt"
  BY DEF Thread, Pcs, Freeing
<1>5. \A n, b : Thread(FreeingOn(x, n, b)) /\ FreeingOn(x, n, b).pc = "debt"
  BY ZenonT(60) DEF Thread, Pcs, FreeingOn
<1>6. Thread(Spliced(x))
  <2> DEFINE y == Spliced(x)
  <2>1. y = [f \in DOMAIN y |-> y[f]] /\ DOMAIN y = DOMAIN x
    BY DEF Thread, Spliced
  <2>2. y.pc = x.pc /\ y.ret = x.ret /\ y.tmp = 0 /\ y.rest = {}
    BY DEF Thread, Spliced
  <2>3. QED
    BY <2>1, <2>2 DEF Thread
<1>7. QED
  BY <1>1, <1>2, <1>3, <1>4, <1>5, <1>6

LEMMA PushedThread ==
    ASSUME NEW x, Thread(x)
    PROVE  Thread(Pushed(x)) /\ Pushed(x).pc \in {"idle", "host", "debt"}
  BY DEF Thread, Pcs, Pushed

Outer(t) ==
    \/ StartFetch(t) \/ StartCopy(t) \/ FreeBlock(t)
    \/ Killed(t) \/ HostFails(t) \/ ReclaimFails(t)
AnyStep(t) == Outer(t) \/ Collect(t) \/ Push(t)

LEMMA Participates ==
    ASSUME Idling, NEW t \in Threads, AnyStep(t)
    PROVE  t \in config.threads
<1>1. CASE StartFetch(t) \/ StartCopy(t) \/ FreeBlock(t)
  BY <1>1 DEF StartFetch, StartCopy, FreeBlock
<1>2. CASE \/ Killed(t) \/ HostFails(t) \/ ReclaimFails(t)
           \/ LockCpu(t) \/ PopLocal(t) \/ LocalEmpty(t) \/ CheckHost(t) \/ HostAlloc(t)
  BY <1>2 DEF Idling, Killed, HostFails, ReclaimFails, LockCpu, PopLocal, LocalEmpty,
              CheckHost, HostAlloc, At
<1>3. CASE \/ PullGlobal(t) \/ PullOther(t) \/ NoOther(t) \/ Splice(t)
           \/ Reclaim(t) \/ Wake(t) \/ Populate(t)
  BY <1>3 DEF Idling, PullGlobal, PullOther, NoOther, Splice, Reclaim, Wake, Populate, At
<1>4. CASE \/ CheckDebt(t) \/ Pay(t) \/ Restore(t) \/ FreeToHost(t)
           \/ PutLocal(t) \/ PutNoCpu(t) \/ ToGlobal(t) \/ BackToLocal(t)
  BY <1>4 DEF Idling, CheckDebt, Pay, Restore, FreeToHost, PutLocal, PutNoCpu, ToGlobal,
              BackToLocal, At
<1>5. QED
  BY <1>1, <1>2, <1>3, <1>4 DEF AnyStep, Outer, Collect, Push

LEMMA ParticipantsFinite ==
    ASSUME config \in Configs
    PROVE  /\ IsFiniteSet(config.threads) /\ config.threads \subseteq Threads
           /\ Cardinality(config.threads) \in Nat \ {0}
<1>1. config.threads \subseteq Threads /\ config.threads # {} /\ IsFiniteSet(Threads)
  BY FreePagesAssumption
<1>2. QED
  BY <1>1, FS_Subset, FS_EmptySet, FS_CardinalityType

(***************************************************************************)
(* Every step of a thread leaves the sizes alone, keeps the lists integers *)
(* and replaces the state of the thread by another one.                    *)
(***************************************************************************)
Moves(t) ==
    /\ th' = [th EXCEPT ![t] = th'[t]]
    /\ Thread(th'[t])
    /\ config' = config /\ cache' = cache /\ resize' = resize
    /\ local' \in [Cpus -> Int] /\ glob' \in Int
    /\ Effect(t)

LEMMA EveryMove ==
    ASSUME Typed, NEW t \in Threads, AnyStep(t)
    PROVE  Moves(t)
<1>a. /\ Thread(th[t]) /\ th = [u \in Threads |-> th[u]]
      /\ cpu[t] \in Cpus /\ local \in [Cpus -> Int] /\ Mine(t) \in Int
      /\ glob \in Int /\ BlockSize \in Nat /\ ListMax \in Nat
  BY FreePagesAssumption DEF Typed, Cpus, Mine
<1>b. USE DEF Moves, Effect, sizes, lists, Uncounted
<1>1. CASE StartFetch(t)
  BY <1>a, <1>1 DEF StartFetch, Neutral, Idle, Thread, Pcs, Goto
<1>2. CASE LockCpu(t)
  BY <1>a, <1>2 DEF LockCpu, Neutral, At, Thread, Pcs, Goto
<1>3. CASE StartCopy(t)
  <2> DEFINE x == Copying(Idle)
  <2>1. Thread(x) /\ x.pc = "local"
    BY IdleThread, ChangedThread DEF Pcs
  <2>2. th' = [th EXCEPT ![t] = x] /\ th'[t] = x /\ th[t].pc = "idle"
    BY <1>a, <1>3 DEF StartCopy, Copying, Idle
  <2> HIDE DEF x
  <2>3. QED
    BY <2>1, <2>2, <1>a, <1>3 DEF StartCopy, Neutral
<1>4. CASE PopLocal(t)
  BY <1>a, <1>4, GotThread DEF PopLocal, Neutral, At, Thread, Pcs, TakePage, Mine
<1>5. CASE LocalEmpty(t)
  BY <1>a, <1>5 DEF LocalEmpty, Neutral, At, Thread, Pcs, Goto
<1>6. CASE CheckHost(t)
  BY <1>a, <1>6 DEF CheckHost, Neutral, Passes, At, Thread, Pcs, Goto, available
<1>7. CASE HostAlloc(t)
  BY <1>a, <1>7, GotThread DEF HostAlloc, Allocates, At, Thread, Pcs, TakePage
<1>8. CASE PullGlobal(t)
  <2> DEFINE n == IF glob < BlockSize THEN glob ELSE BlockSize
             p == IF n > 0 THEN "splice" ELSE "pullothers"
             D == Cpus \ {cpu[t]}
             x == Pulling(th[t], n, D, p)
  <2>1. n \in Int /\ p \in {"splice", "pullothers"}
    BY <1>a
  <2>2. glob' = glob - n /\ th' = [th EXCEPT ![t] = x] /\ th'[t] = x
    BY <1>a, <1>8 DEF PullGlobal, Pulling
  <2>d. D \in SUBSET Cpus
    OBVIOUS
  <2> HIDE DEF n, p, D
  <2>3. Thread(x) /\ x.pc = p
    BY <1>a, <2>1, <2>d, ChangedThread DEF Pcs
  <2> HIDE DEF x
  <2>4. QED
    BY <2>1, <2>2, <2>3, <1>a, <1>8 DEF PullGlobal, Neutral, At
<1>9. CASE PullOther(t)
  <2>1. PICK c \in th[t].rest :
           LET n == IF local[c] < BlockSize THEN local[c] ELSE BlockSize
           IN  /\ local' = [local EXCEPT ![c] = @ - n]
               /\ th' = [th EXCEPT ![t].tmp = n, ![t].rest = @ \ {c},
                                   ![t].pc = IF n > 0 THEN "splice" ELSE @]
    BY <1>9 DEF PullOther
  <2> DEFINE n == IF local[c] < BlockSize THEN local[c] ELSE BlockSize
             p == IF n > 0 THEN "splice" ELSE "pullothers"
             D == th[t].rest \ {c}
             x == Pulling(th[t], n, D, p)
  <2>2. th' = [th EXCEPT ![t] = x] /\ th'[t] = x
    BY <1>a, <1>9, <2>1 DEF PullOther, Pulling, At
  <2>3. n \in Int /\ p \in {"splice", "pullothers"}
    BY <1>a DEF Thread
  <2>d. D \in SUBSET Cpus
    BY <1>a DEF Thread
  <2>e. local' \in [Cpus -> Int]
    BY <1>a, <2>1, <2>3 DEF Thread
  <2> HIDE DEF n, p, D
  <2>4. Thread(x) /\ x.pc = p
    BY <1>a, <2>3, <2>d, ChangedThread DEF Pcs
  <2> HIDE DEF x
  <2>5. QED
    BY <2>1, <2>2, <2>3, <2>4, <2>e, <1>a, <1>9 DEF PullOther, Neutral, At
<1>10. CASE NoOther(t)
  BY <1>a, <1>10 DEF NoOther, Neutral, At, Thread, Pcs, Goto
<1>11. CASE Splice(t)
  <2> DEFINE x == Spliced(th[t])
  <2>1. Thread(x)
    BY <1>a, ChangedThread
  <2> HIDE DEF x
  <2>2. th' = [th EXCEPT ![t] = Got(x)] /\ th'[t] = Got(x)
    BY <1>a, <1>11 DEF Splice, TakePage, x, Spliced
  <2>3. local' \in [Cpus -> Int]
    BY <1>a, <1>11 DEF Splice, Thread
  <2>4. QED
    BY <2>1, <2>2, <2>3, GotThread, <1>a, <1>11 DEF Splice, Neutral, At, Typed
<1>12. CASE Reclaim(t)
  BY <1>a, <1>12 DEF Reclaim, Neutral, At, Thread, Pcs, Goto
<1>13. CASE Wake(t)
  BY <1>a, <1>13 DEF Wake, Neutral, At, Thread, Pcs, Goto
<1>14. CASE Killed(t) \/ ReclaimFails(t)
  <2> DEFINE x == Freeing(Idle, th[t].has)
  <2>1. Thread(x) /\ x.pc = "debt" /\ Thread(Idle) /\ Idle.pc = "idle"
    BY IdleThread, ChangedThread DEF Pcs
  <2> HIDE DEF x
  <2>2. th' = [th EXCEPT ![t] = th'[t]] /\ th'[t] \in {x, Idle}
    BY <1>a, <1>14 DEF Killed, ReclaimFails, GiveUp, Freeing, x
  <2>3. QED
    BY <2>1, <2>2, <1>a, <1>14 DEF Killed, ReclaimFails, GiveUp, Neutral, At, Typed
<1>15. CASE Populate(t)
  BY <1>a, <1>15 DEF Populate, Neutral, At, Thread, Pcs, Idle
<1>16. CASE FreeBlock(t)
  <2>1. PICK n \in BOOLEAN :
           th' = [th EXCEPT ![t] = [Idle EXCEPT !.pc = "debt", !.push = BlockSize, !.nocpu = n]]
    BY <1>16 DEF FreeBlock
  <2> DEFINE x == FreeingOn(Idle, BlockSize, n)
  <2>2. Thread(x) /\ x.pc = "debt"
    BY IdleThread, ChangedThread DEF Pcs
  <2>3. th' = [th EXCEPT ![t] = x] /\ th'[t] = x /\ th[t].pc = "idle"
    BY <1>a, <1>16, <2>1, IdleThread DEF FreeBlock, FreeingOn
  <2> HIDE DEF x
  <2>4. QED
    BY <2>2, <2>3, <1>a, <1>16 DEF FreeBlock, Neutral, Typed
<1>17. CASE CheckDebt(t)
  BY <1>a, <1>17 DEF CheckDebt, Neutral, At, Thread, Pcs, Goto
<1>18. CASE Pay(t)
  BY <1>a, <1>18 DEF Pay, Pays, At, Thread, Pcs, Goto
<1>19. CASE Restore(t)
  BY <1>a, <1>19 DEF Restore, Restores, At, Thread, Pcs, Goto
<1>20. CASE FreeToHost(t)
  BY <1>a, <1>20, PushedThread DEF FreeToHost, FreesPage, At, Thread, Pcs
<1>21. CASE PutLocal(t)
  <2> DEFINE len == Mine(t) + 1
             cut == len - ListMax \div 2
             x == IF len <= ListMax THEN Pushed(th[t]) ELSE Carrying(th[t], cut, "toglobal")
  <2>1. cut \in Int
    BY <1>a
  <2>2. th' = [th EXCEPT ![t] = x] /\ th'[t] = x
    BY <1>a, <1>21 DEF PutLocal, Carrying
  <2>3. local' \in [Cpus -> Int]
    BY <1>a, <1>21 DEF PutLocal
  <2> HIDE DEF cut
  <2>4. Thread(x) /\ x.pc \in Uncounted
    BY <1>a, <2>1, PushedThread, ChangedThread DEF Pcs
  <2> HIDE DEF x
  <2>5. QED
    BY <2>2, <2>3, <2>4, <1>a, <1>21 DEF PutLocal, Neutral, At
<1>22. CASE PutNoCpu(t)
  <2> DEFINE x == Carrying(th[t], 1, "toglobal")
  <2>1. Thread(x) /\ x.pc = "toglobal"
    BY <1>a, ChangedThread DEF Pcs
  <2>2. th' = [th EXCEPT ![t] = x] /\ th'[t] = x
    BY <1>a, <1>22 DEF PutNoCpu, Carrying
  <2> HIDE DEF x
  <2>3. QED
    BY <2>1, <2>2, <1>a, <1>22 DEF PutNoCpu, Neutral, At
<1>23. CASE ToGlobal(t)
  BY <1>a, <1>23, PushedThread DEF ToGlobal, Neutral, At, Thread, Pcs
<1>24. CASE BackToLocal(t)
  BY <1>a, <1>24, PushedThread DEF BackToLocal, Neutral, At, Thread, Pcs
<1>25. CASE HostFails(t)
  BY <1>a, <1>25 DEF HostFails, Allocates, At, Thread, Pcs, Goto
<1> QED
  BY <1>1, <1>2, <1>3, <1>4, <1>5, <1>6, <1>7, <1>8, <1>9, <1>10, <1>11, <1>12, <1>13,
     <1>14, <1>15, <1>16, <1>17, <1>18, <1>19, <1>20, <1>21, <1>22, <1>23, <1>24, <1>25 DEF AnyStep, Outer, Collect, Push

-----------------------------------------------------------------------------
(***************************************************************************)
(* The invariant.                                                          *)
(***************************************************************************)
LEMMA LimitTyped ==
    ASSUME cache \in Int
    PROVE  LocalCacheMax \in Int /\ LocalCacheMax >= cache
                /\ BlockSize * Cardinality(Cpus) \in Nat
<1> DEFINE f == [t \in Threads |-> cpu[t]]
<1>1. f \in Surjection(Threads, Cpus)
  BY DEF Surjection, Cpus
<1>2. Cardinality(Cpus) \in Nat
  BY <1>1, FreePagesAssumption, FS_Surjection, FS_CardinalityType
<1>3. BlockSize * Cardinality(Cpus) \in Nat
  BY <1>2, FreePagesAssumption
<1>4. QED
  BY <1>3 DEF LocalCacheMax

LEMMA InitInv == Init => IInv
<1> SUFFICES ASSUME Init PROVE IInv
  OBVIOUS
<1>1. Typed
  <2>1. \A t \in Threads : th[t] = Idle
    BY DEF Init
  <2>2. QED
    BY <2>1, IdleThread, FreePagesAssumption DEF Init, Typed
<1>2. \A t \in Threads : th[t].pc = "idle"
  BY IdleThread DEF Init
<1>3. Off(Restoring) = {} /\ Off(Paying) = {} /\ Off(Passed) = {}
  BY <1>2 DEF Off, Restoring, Paying, Passed
<1>4. Num(Restoring) = 0 /\ Num(Paying) = 0 /\ Num(Passed) = 0
  BY <1>3, FS_EmptySet DEF Num
<1>5. Cardinality(config.threads) \in Nat \ {0}
  BY <1>1, ParticipantsFinite DEF Typed
<1>6. cache >= 0 /\ LocalCacheMax \in Int /\ LocalCacheMax >= cache
  BY <1>1, LimitTyped, FreePagesAssumption DEF Init, Typed
<1>7. alloc = 0 /\ debt = 0 /\ resize.pending = 0
  BY DEF Init
<1>8. NotOverpaid /\ WithinMax
  BY <1>1, <1>4, <1>5, <1>6, <1>7 DEF NotOverpaid, WithinMax, Typed
<1>9. QED
  BY <1>1, <1>2, <1>8 DEF IInv, Idling

LEMMA MoveTyped ==
    ASSUME Typed, NEW t \in Threads, Moves(t)
    PROVE  Typed' /\ OnlyMoves(t)
<1>1. Cpus' = Cpus
  BY CpusFixed DEF Moves
<1>2. OnlyMoves(t) /\ th' = [u \in Threads |-> th'[u]]
  BY DEF Moves, OnlyMoves, Typed
<1>3. \A u \in Threads : Thread(th'[u])
  BY <1>2 DEF Moves, OnlyMoves, Typed
<1>4. \A u \in Threads : Thread(th[u])'
  BY <1>1, <1>3 DEF Thread
<1>5. alloc' \in Int /\ debt' \in Int
  BY DEF Moves, Effect, Neutral, Passes, Allocates, Pays, Restores, FreesPage, Typed
<1>6. QED
  BY <1>1, <1>2, <1>4, <1>5 DEF Typed, Moves

(* One step of a thread: the numbers and the counts move together.         *)
LEMMA MoveInv ==
    ASSUME IInv, NEW t \in Threads, t \in config.threads, Moves(t)
    PROVE  IInv'
<1>0. Idling'
  BY MoveTyped DEF IInv, Idling, OnlyMoves, Moves
<1>1. Typed' /\ OnlyMoves(t)
  BY MoveTyped DEF IInv
<1> DEFINE was(Q) == One(th[t].pc \in Q)
           is(Q) == One(th'[t].pc \in Q)
<1>2. /\ Num(Restoring)' = Num(Restoring) - was(Restoring) + is(Restoring)
      /\ Num(Paying)' = Num(Paying) - was(Paying) + is(Paying)
      /\ Num(Passed)' = Num(Passed) - was(Passed) + is(Passed)
  <2>1. \A Q : Num(Q)' = Num(Q) - was(Q) + is(Q)
    BY <1>1, Moved
  <2>2. QED
    BY <2>1 DEF Restoring, Paying, Passed
<1>3. /\ \A Q : Num(Q) \in Nat /\ Num(Q)' \in Nat
      /\ Num(Passed)' <= Cardinality(config.threads) /\ Cardinality(config.threads) \in Nat
      /\ config' = config
  <2>1. \A Q : Num(Q) \in Nat /\ Num(Q)' \in Nat
    BY Counted
  <2>2. IsFiniteSet(config.threads) /\ config' = config
    BY ParticipantsFinite DEF IInv, Typed, Moves
  <2>3. Off(Passed)' \subseteq config.threads
    BY <1>0, <2>2 DEF Off, Passed, Idling
  <2>4. Num(Passed)' <= Cardinality(config.threads) /\ Cardinality(config.threads) \in Nat
    BY <2>2, <2>3, FS_Subset, FS_CardinalityType DEF Num
  <2>5. QED
    BY <2>1, <2>2, <2>4
<1>4. LocalCacheMax' = LocalCacheMax /\ LocalCacheMax \in Int
  BY LimitTyped, CpusFixed DEF LocalCacheMax, Moves, IInv, Typed
<1>5. /\ resize'.pending = resize.pending /\ resize.pending \in Nat
      /\ alloc \in Int /\ debt \in Int
  BY DEF Moves, IInv, Typed
<1> HIDE DEF was, is
<1>6. CASE Neutral(t) \/ Passes(t) \/ Allocates(t) \/ Pays(t) \/ Restores(t) \/ FreesPage(t)
  <2>1. CASE Neutral(t)
    <3>1. /\ was(Restoring) = 0 /\ was(Paying) = 0 /\ was(Passed) = 0
          /\ is(Restoring) = 0 /\ is(Paying) = 0 /\ is(Passed) = 0
      BY <2>1 DEF was, is, One, Neutral, Uncounted, Restoring, Paying, Passed
    <3>2. QED
      BY <3>1, <2>1, <1>0, <1>1, <1>2, <1>3, <1>4, <1>5
         DEF IInv, Neutral, NotOverpaid, WithinMax
  <2>2. CASE Passes(t)
    <3>1. /\ was(Restoring) = 0 /\ was(Paying) = 0 /\ was(Passed) = 0
          /\ is(Restoring) = 0 /\ is(Paying) = 0 /\ is(Passed) = 1
      BY <2>2 DEF was, is, One, Passes, Uncounted, Restoring, Paying, Passed
    <3>2. Num(Restoring) <= Num(Paying)
      <4>1. Off(Restoring) \subseteq Off(Paying)
        BY DEF Off, Restoring, Paying
      <4>2. QED
        BY <4>1, Counted, FS_Subset DEF Num
    <3>3. QED
      BY <3>1, <3>2, <2>2, <1>0, <1>1, <1>2, <1>3, <1>4, <1>5
         DEF IInv, Passes, NotOverpaid, WithinMax
  <2>3. CASE Allocates(t)
    <3>1. /\ was(Restoring) = 0 /\ was(Paying) = 0 /\ was(Passed) = 1
          /\ is(Restoring) = 0 /\ is(Paying) = 0 /\ is(Passed) = 0
      BY <2>3 DEF was, is, One, Allocates, Uncounted, Restoring, Paying, Passed
    <3>2. QED
      BY <3>1, <2>3, <1>0, <1>1, <1>2, <1>3, <1>4, <1>5
         DEF IInv, Allocates, NotOverpaid, WithinMax
  <2>4. CASE Pays(t)
    <3>1. /\ was(Restoring) = 0 /\ was(Paying) = 0 /\ was(Passed) = 0
          /\ is(Restoring) = (IF debt >= 1 THEN 0 ELSE 1) /\ is(Paying) = 1 /\ is(Passed) = 0
      BY <2>4 DEF was, is, One, Pays, Uncounted, Restoring, Paying, Passed
    <3>2. QED
      BY <3>1, <2>4, <1>0, <1>1, <1>2, <1>3, <1>4, <1>5
         DEF IInv, Pays, NotOverpaid, WithinMax
  <2>5. CASE Restores(t)
    <3>1. /\ was(Restoring) = 1 /\ was(Paying) = 1 /\ was(Passed) = 0
          /\ is(Restoring) = 0 /\ is(Paying) = 0 /\ is(Passed) = 0
      BY <2>5 DEF was, is, One, Restores, Uncounted, Restoring, Paying, Passed
    <3>2. QED
      BY <3>1, <2>5, <1>0, <1>1, <1>2, <1>3, <1>4, <1>5
         DEF IInv, Restores, NotOverpaid, WithinMax
  <2>6. CASE FreesPage(t)
    <3>1. /\ was(Restoring) = 0 /\ was(Paying) = 1 /\ was(Passed) = 0
          /\ is(Restoring) = 0 /\ is(Paying) = 0 /\ is(Passed) = 0
      BY <2>6 DEF was, is, One, FreesPage, Uncounted, Restoring, Paying, Passed
    <3>2. QED
      BY <3>1, <2>6, <1>0, <1>1, <1>2, <1>3, <1>4, <1>5
         DEF IInv, FreesPage, NotOverpaid, WithinMax
  <2>7. QED
    BY <1>6, <2>1, <2>2, <2>3, <2>4, <2>5, <2>6
<1>7. QED
  BY <1>6 DEF Moves, Effect

(* The counts depend on the threads alone.                                 *)
LEMMA CountsFixed ==
    ASSUME th' = th, NEW Q
    PROVE  Num(Q)' = Num(Q)
  BY DEF Num, Off

(* What a shrink takes off the limit it first owes and then adds to the    *)
(* debt.                                                                   *)
LEMMA ResizeInv ==
    ASSUME IInv, \/ \E new \in config.caches : Resize(new)
                 \/ AddDebt
                 \/ UNCHANGED vars
    PROVE  IInv'
<1>1. th' = th /\ config' = config /\ local' = local /\ glob' = glob /\ alloc' = alloc
  BY DEF Resize, AddDebt, lists, vars
<1>2. /\ Num(Restoring)' = Num(Restoring) /\ Num(Paying)' = Num(Paying)
      /\ Num(Passed)' = Num(Passed)
  BY <1>1, CountsFixed DEF Restoring, Paying, Passed
<1>3. /\ cache' \in Int /\ debt' \in Int /\ debt' >= debt
      /\ resize'.left \in Int /\ resize'.pending \in Nat
      /\ resize' = [left |-> resize'.left, pending |-> resize'.pending]
      /\ cache' + debt' + resize'.pending >= cache + debt + resize.pending
  <2>1. CASE \E new \in config.caches : Resize(new)
    BY <2>1, FreePagesAssumption DEF Resize, IInv, Typed
  <2>2. CASE AddDebt
    BY <2>2 DEF AddDebt, IInv, Typed
  <2>3. CASE UNCHANGED vars
    BY <2>3 DEF vars, IInv, Typed
  <2>4. QED
    BY <2>1, <2>2, <2>3
<1>4. Typed'
  <2>1. Cpus' = Cpus
    BY <1>1, CpusFixed
  <2>2. \A t \in Threads : Thread(th[t])'
    BY <1>1, <2>1 DEF IInv, Typed, Thread
  <2>3. QED
    BY <1>1, <1>3, <2>1, <2>2 DEF IInv, Typed
<1>5. /\ LocalCacheMax' = LocalCacheMax - cache + cache'
      /\ LocalCacheMax \in Int /\ cache \in Int
  <2>1. cache \in Int /\ BlockSize * Cardinality(Cpus) \in Nat /\ LocalCacheMax \in Int
    BY LimitTyped DEF IInv, Typed
  <2>2. Cpus' = Cpus
    BY <1>1, CpusFixed
  <2>3. QED
    BY <1>3, <2>1, <2>2 DEF LocalCacheMax
<1>6. /\ Num(Restoring) \in Nat /\ Num(Paying) \in Nat /\ Num(Passed) \in Nat
      /\ Cardinality(config.threads) \in Nat
  BY Counted, ParticipantsFinite DEF Restoring, Paying, Passed, IInv, Typed
<1>7. NotOverpaid' /\ WithinMax'
  BY <1>1, <1>2, <1>3, <1>5, <1>6 DEF IInv, Typed, NotOverpaid, WithinMax
<1>8. Idling'
  BY <1>1 DEF IInv, Idling
<1>9. QED
  BY <1>4, <1>7, <1>8 DEF IInv

(* The invariant holds in every state of every behaviour.                  *)
THEOREM Inductive == Spec => []IInv
<1>1. Init => IInv
  BY InitInv
<1>2. IInv /\ [Next]_vars => IInv'
  <2> SUFFICES ASSUME IInv, [Next]_vars PROVE IInv'
    OBVIOUS
  <2>1. CASE \E t \in Threads : AnyStep(t)
    BY <2>1, EveryMove, Participates, MoveInv DEF IInv
  <2>2. CASE \/ \E new \in config.caches : Resize(new)
             \/ AddDebt
             \/ UNCHANGED vars
    BY <2>2, ResizeInv
  <2>3. QED
    BY <2>1, <2>2 DEF Next, AnyStep, Outer
<1>3. QED
  BY <1>1, <1>2, PTL DEF Spec

(***************************************************************************)
(* push_free_page_list() never takes more off free_pages_reclaim than is   *)
(* owed, whoever frees pages at the same time and however often the cache  *)
(* is resized meanwhile.                                                   *)
(***************************************************************************)
THEOREM DebtIsNotOverpaid == Spec => []DebtNotOverpaid
<1>1. IInv => DebtNotOverpaid
  <2>1. {t \in Threads : th[t].pc = "restore"} = Off(Restoring)
    BY DEF Off, Restoring
  <2>2. QED
    BY <2>1 DEF IInv, NotOverpaid, DebtNotOverpaid, Count, Num
<1>2. QED
  BY <1>1, Inductive, PTL

(***************************************************************************)
(* _alloc_pages() keeps the local cache within LOCAL_CACHE_MAX, what is    *)
(* still to be paid back, and one page for each other thread.              *)
(***************************************************************************)
THEOREM AllocStaysWithinMax == Spec => []AllocWithinMax
<1>1. IInv => AllocWithinMax
  <2> SUFFICES ASSUME IInv PROVE AllocWithinMax
    OBVIOUS
  <2>1. {t \in Threads : th[t].pc \in {"restore", "tohost"}} = Off(Paying)
    BY DEF Off, Paying
  <2>2. Count(LAMBDA t : th[t].pc \in {"restore", "tohost"}) = Num(Paying)
    BY <2>1 DEF Count, Num
  <2>3. /\ Num(Paying) \in Nat /\ Num(Passed) \in Nat
        /\ Cardinality(config.threads) \in Nat /\ LocalCacheMax \in Int
    BY Counted, LimitTyped, ParticipantsFinite DEF Paying, Passed, IInv, Typed
  <2>4. QED
    BY <2>2, <2>3 DEF IInv, Typed, WithinMax, AllocWithinMax, Unpaid
<1>2. QED
  BY <1>1, Inductive, PTL

-----------------------------------------------------------------------------
(***************************************************************************)
(* Counting pages: InAll(f) grows and shrinks with each place f counts.    *)
(***************************************************************************)
Row(f, s) == {s} \X (1 .. f[s])
Cells(f) == UNION {Row(f, s) : s \in DOMAIN f}

LEMMA CellsAre ==
    ASSUME NEW f
    PROVE  /\ InAll(f) = Cardinality(Cells(f))
           /\ \A p : p \in Cells(f) <=> \E s \in DOMAIN f : p \in Row(f, s)
  BY DEF InAll, Cells, Row

LEMMA RowFinite ==
    ASSUME NEW f, NEW s, f[s] \in Nat
    PROVE  IsFiniteSet(Row(f, s)) /\ Cardinality(Row(f, s)) = f[s]
<1>1. IsFiniteSet(1 .. f[s]) /\ Cardinality(1 .. f[s]) = f[s]
  <2>1. PICK n \in Nat : n = f[s]
    OBVIOUS
  <2>2. CASE n = 0
    <3>1. 1 .. n = {}
      BY <2>2
    <3>2. QED
      BY <2>1, <2>2, <3>1, FS_EmptySet
  <2>3. CASE n > 0
    <3>1. \A a, b \in Int : a <= b => IsFiniteSet(a .. b) /\ Cardinality(a .. b) = b - a + 1
      BY FS_Interval
    <3>2. 1 \in Int /\ n \in Int /\ 1 <= n
      BY <2>3
    <3>3. IsFiniteSet(1 .. n) /\ Cardinality(1 .. n) = n - 1 + 1
      BY <3>1, <3>2
    <3>4. n - 1 + 1 = n
      OBVIOUS
    <3>5. QED
      BY <2>1, <3>3, <3>4
  <2>4. QED
    BY <2>2, <2>3
<1>2. IsFiniteSet({s}) /\ Cardinality({s}) = 1
  BY FS_Singleton
<1>3. IsFiniteSet(Row(f, s)) /\ Cardinality(Row(f, s)) = Cardinality({s}) * Cardinality(1 .. f[s])
  BY <1>1, <1>2, FS_Product DEF Row
<1>4. Cardinality(Row(f, s)) = 1 * f[s]
  BY <1>1, <1>2, <1>3
<1>5. QED
  BY <1>3, <1>4

LEMMA CellsFinite ==
    ASSUME NEW S, IsFiniteSet(S), NEW f \in [S -> Nat]
    PROVE  IsFiniteSet(Cells(f)) /\ InAll(f) \in Nat
<1> DEFINE R == {Row(f, s) : s \in S}
           g == [s \in S |-> Row(f, s)]
<1>1. g \in Surjection(S, R)
  BY DEF Surjection
<1>2. IsFiniteSet(R)
  BY <1>1, FS_Surjection
<1>3. \A T \in R : IsFiniteSet(T)
  BY RowFinite
<1>4. IsFiniteSet(UNION R)
  BY <1>2, <1>3, FS_UNION
<1>5. QED
  BY <1>4, CellsAre, FS_CardinalityType DEF Cells

LEMMA DisjointSizes ==
    ASSUME NEW A, NEW B, IsFiniteSet(A), IsFiniteSet(B), A \cap B = {}
    PROVE  Cardinality(A \cup B) = Cardinality(A) + Cardinality(B)
<1>1. Cardinality(A \cup B) = Cardinality(A) + Cardinality(B) - Cardinality(A \cap B)
  BY FS_Union
<1>2. Cardinality(A \cap B) = 0
  BY FS_EmptySet
<1>3. Cardinality(A) \in Nat /\ Cardinality(B) \in Nat
  BY FS_CardinalityType
<1>4. QED
  BY <1>1, <1>2, <1>3

SetsAt(g, f, s, n) == g = [f EXCEPT ![s] = n]

LEMMA InAllChange ==
    ASSUME NEW S, IsFiniteSet(S), NEW f \in [S -> Nat], NEW s \in S, NEW n \in Nat,
           NEW g, SetsAt(g, f, s, n)
    PROVE  InAll(g) = InAll(f) - f[s] + n
<1>1. g \in [S -> Nat] /\ g[s] = n /\ \A u \in S \ {s} : g[u] = f[u]
  BY DEF SetsAt
<1> DEFINE R == {p \in Cells(f) : p[1] # s}
<1>2. \A h, p : p \in Row(h, s) => p[1] = s
  BY DEF Row
<1>3. \A h, u, p : p \in Row(h, u) => p[1] = u
  BY DEF Row
<1>4. \A u \in S \ {s} : Row(g, u) = Row(f, u)
  BY <1>1 DEF Row
<1>5. Cells(f) = R \cup Row(f, s)
  BY <1>3, CellsAre
<1>6. Cells(g) = R \cup Row(g, s)
  <2>1. \A p : p \in Cells(g) <=> \E u \in S : p \in Row(g, u)
    BY <1>1, CellsAre
  <2>2. \A p : p \in Cells(f) <=> \E u \in S : p \in Row(f, u)
    BY CellsAre
  <2>3. \A p : p \in Cells(g) => p \in R \/ p \in Row(g, s)
    <3>1. SUFFICES ASSUME NEW u \in S, NEW p \in Row(g, u)
                   PROVE  p \in R \/ p \in Row(g, s)
      BY <2>1
    <3>2. CASE u # s
      BY <1>3, <1>4, <2>2, <3>1, <3>2
    <3>3. QED
      BY <3>1, <3>2
  <2>4. \A p : p \in R => p \in Cells(g)
    <3>1. SUFFICES ASSUME NEW u \in S, NEW p \in Row(f, u), p[1] # s
                   PROVE  p \in Cells(g)
      BY <2>2
    <3>2. u \in S \ {s}
      BY <1>3, <3>1
    <3>3. p \in Row(g, u)
      BY <1>4, <3>1, <3>2
    <3>4. QED
      BY <2>1, <3>3
  <2>5. \A p : p \in Row(g, s) => p \in Cells(g)
    BY <2>1
  <2>6. \A p : p \in Cells(g) <=> p \in R \cup Row(g, s)
    BY <2>3, <2>4, <2>5
  <2> HIDE DEF R
  <2>7. Cells(g) = UNION {Row(g, u) : u \in DOMAIN g}
    BY DEF Cells
  <2>8. QED
    BY <2>6
<1>7. R \cap Row(f, s) = {} /\ R \cap Row(g, s) = {}
  BY <1>2
<1>8. IsFiniteSet(R)
  BY CellsFinite, FS_Subset
<1>9. f[s] \in Nat /\ g[s] \in Nat
  BY <1>1
<1>10. IsFiniteSet(Row(f, s)) /\ Cardinality(Row(f, s)) = f[s]
  BY <1>9, RowFinite
<1>11. IsFiniteSet(Row(g, s)) /\ Cardinality(Row(g, s)) = n
  BY <1>1, <1>9, RowFinite
<1> HIDE DEF R
<1>12. \A A, B : IsFiniteSet(A) /\ IsFiniteSet(B) /\ A \cap B = {}
                 => Cardinality(A \cup B) = Cardinality(A) + Cardinality(B)
  BY DisjointSizes
<1>13. Cardinality(R \cup Row(f, s)) = Cardinality(R) + Cardinality(Row(f, s))
  BY <1>7, <1>8, <1>10, <1>12
<1>14. Cardinality(R \cup Row(g, s)) = Cardinality(R) + Cardinality(Row(g, s))
  BY <1>7, <1>8, <1>11, <1>12
<1>15. InAll(f) = Cardinality(R) + f[s] /\ InAll(g) = Cardinality(R) + n
  BY <1>5, <1>6, <1>10, <1>11, <1>13, <1>14, CellsAre
<1>16. PICK r \in Nat, m \in Nat : r = Cardinality(R) /\ m = f[s]
  BY <1>8, <1>9, FS_CardinalityType
<1>17. QED
  BY <1>15, <1>16

LEMMA NothingThere ==
    ASSUME NEW S, NEW f, f = [s \in S |-> 0]
    PROVE  InAll(f) = 0
<1>1. \A s \in S : Row(f, s) = {}
  <2>1. 1 .. 0 = {}
    OBVIOUS
  <2>2. QED
    BY <2>1 DEF Row
<1>2. Cells(f) = {}
  BY <1>1, CellsAre
<1>3. QED
  BY <1>2, CellsAre, FS_EmptySet

-----------------------------------------------------------------------------
(***************************************************************************)
(* What a thread has in hand depends on where it is: pages collected for a *)
(* block, pages between two lists, or pages it is about to free.           *)
(***************************************************************************)
ThreadType ==
    [pc : Pcs, ret : {"idle", "host"}, has : 0 .. BlockSize, tmp : Nat,
     push : 0 .. BlockSize, nocpu : BOOLEAN, copy : BOOLEAN, rest : SUBSET Cpus]

Gathers == {"lock", "local", "host", "hostalloc", "pull", "pullglobal", "pullothers",
            "reclaim", "wait"}
Pushes == {"debt", "pay", "restore", "tohost", "put"}

EmptyHanded(x) == x.has = 0 /\ x.tmp = 0 /\ x.push = 0 /\ x.copy = FALSE
Owes(x) == x.push >= 1 /\ x.has < BlockSize /\ (x.ret = "idle" => x.has = 0 /\ x.copy = FALSE)

Stage(x) ==
    /\ x.pc = "idle" => EmptyHanded(x)
    /\ x.pc \in Gathers => x.has < BlockSize /\ x.tmp = 0 /\ x.push = 0
    /\ x.pc = "splice" => x.has < BlockSize /\ x.tmp >= 1 /\ x.push = 0
    /\ x.pc = "populate" => x.has = BlockSize /\ x.tmp = 0 /\ x.push = 0
    /\ x.pc \in Pushes => Owes(x) /\ x.tmp = 0
    /\ x.pc = "toglobal" => Owes(x) /\ x.tmp >= 1

Worker(x) == x \in ThreadType /\ Stage(x)

Hand(x) == x.has + x.tmp + x.push - (IF x.pc = "toglobal" THEN 1 ELSE 0)
             + IF x.copy THEN BlockSize ELSE 0

Kept == TypeOK /\ (\A t \in Threads : Worker(th[t])) /\ PagesConserved

LEMMA Sizes == BlockSize \in Nat /\ BlockSize >= 1 /\ ListMax \in Nat /\ ListMax >= 1
  BY FreePagesAssumption

LEMMA CpusFinite == IsFiniteSet(Cpus)
<1> DEFINE g == [t \in Threads |-> cpu[t]]
<1>1. g \in Surjection(Threads, Cpus)
  BY DEF Surjection, Cpus
<1>2. QED
  BY <1>1, FS_Surjection, FreePagesAssumption

LEMMA HandTyped ==
    ASSUME NEW x, Worker(x)
    PROVE  Hand(x) \in Nat
<1>1. /\ x.has \in Nat /\ x.tmp \in Nat /\ x.push \in Nat /\ BlockSize \in Nat
      /\ x.copy \in BOOLEAN /\ (x.pc = "toglobal" => x.tmp >= 1)
  BY Sizes DEF Worker, ThreadType, Stage
<1>2. QED
  BY <1>1 DEF Hand

(***************************************************************************)
(* A step of one thread that changes the list of one cpu.                  *)
(***************************************************************************)
Frame ==
    /\ config' = config /\ cache' = cache /\ resize' = resize /\ debt' \in Int
    /\ mutex' \in [Cpus -> Threads \cup {NoThread}]
    /\ glob' \in Nat /\ resident' \in Nat
Becomes(t) == th' = [th EXCEPT ![t] = th'[t]] /\ Worker(th'[t])
Relists(c, n) == SetsAt(local', local, c, n)

LEMMA Keep ==
    ASSUME Kept, NEW t \in Threads, Becomes(t), Frame,
           NEW c \in Cpus, NEW n \in Nat, Relists(c, n),
           NEW w \in Int, BlockSize * resident' = BlockSize * resident + w,
           alloc' = alloc + (n - local[c]) + (glob' - glob)
                       + (Hand(th'[t]) - Hand(th[t])) + w
    PROVE  Kept'
<1>1. config' = config /\ Cpus' = Cpus
  BY CpusFixed DEF Frame
<1>2. local \in [Cpus -> Nat] /\ local' \in [Cpus -> Nat]
  BY DEF Kept, TypeOK, Relists, SetsAt
<1>3. InAll(local') = InAll(local) - local[c] + n
  BY <1>2, CpusFinite, InAllChange DEF Relists
<1>4. \A u \in Threads : Worker(th[u]) /\ Worker(th'[u])
  BY DEF Kept, TypeOK, Becomes
<1>5. PICK f : f = [u \in Threads |-> Hand(th[u])]
  OBVIOUS
<1>6. PICK g : g = [u \in Threads |-> Hand(th'[u])]
  OBVIOUS
<1>7. f \in [Threads -> Nat] /\ g \in [Threads -> Nat]
  BY <1>4, <1>5, <1>6, HandTyped
<1>8. SetsAt(g, f, t, Hand(th'[t])) /\ f[t] = Hand(th[t])
  <2>1. \A u \in Threads \ {t} : th'[u] = th[u]
    BY DEF Kept, TypeOK, Becomes
  <2>2. \A u \in Threads \ {t} : g[u] = f[u]
    BY <2>1, <1>5, <1>6
  <2>3. g[t] = Hand(th'[t]) /\ f[t] = Hand(th[t])
    BY <1>5, <1>6
  <2>4. QED
    BY <2>2, <2>3, <1>7 DEF SetsAt
<1>9. IsFiniteSet(Threads)
  BY FreePagesAssumption
<1>10. Hand(th'[t]) \in Nat /\ Hand(th[t]) \in Nat
  BY <1>4, HandTyped
<1>11. InAll(g) = InAll(f) - Hand(th[t]) + Hand(th'[t])
  BY <1>7, <1>8, <1>9, <1>10, InAllChange
<1>12. /\ InAll(f) \in Nat /\ InAll(g) \in Nat
       /\ InAll(local) \in Nat /\ InAll(local') \in Nat
  BY <1>2, <1>7, <1>9, CpusFinite, CellsFinite
<1>13. /\ InAll([u \in Threads |-> InHand(u)]) = InAll(f)
       /\ InAll([u \in Threads |-> InHand(u)])' = InAll(g)
  <2>1. \A u : InHand(u) = Hand(th[u]) /\ InHand(u)' = Hand(th'[u])
    BY DEF InHand, Hand
  <2>2. [u \in Threads |-> InHand(u)] = f /\ [u \in Threads |-> InHand(u)]' = g
    BY <2>1, <1>5, <1>6
  <2>3. QED
    BY <2>2 DEF InAll
<1>14. InAll(local)' = InAll(local')
  BY DEF InAll
<1>15. BlockSize * resident \in Nat /\ BlockSize * resident' \in Nat
  <2>1. \A a, b \in Nat : a * b \in Nat
    OBVIOUS
  <2>2. BlockSize \in Nat /\ resident \in Nat /\ resident' \in Nat
    BY Sizes DEF Kept, TypeOK, Frame
  <2>3. QED
    BY <2>1, <2>2
<1>16. /\ alloc = InAll(local) + glob + InAll(f) + BlockSize * resident
       /\ alloc \in Nat /\ glob \in Nat /\ glob' \in Nat /\ local[c] \in Nat
  BY <1>2, <1>13 DEF Kept, PagesConserved, TypeOK, Frame
<1>17. alloc' = InAll(local') + glob' + InAll(g) + BlockSize * resident'
  BY <1>3, <1>10, <1>11, <1>12, <1>15, <1>16
<1>18. alloc' \in Nat
  BY <1>12, <1>15, <1>16, <1>17
<1>19. PagesConserved'
  BY <1>13, <1>14, <1>17 DEF PagesConserved
<1>20. ThreadType' = ThreadType
  BY <1>1 DEF ThreadType
<1>21. th' \in [Threads -> ThreadType]
  <2>1. th' = [u \in Threads |-> th'[u]]
    BY DEF Kept, TypeOK, Becomes
  <2>2. QED
    BY <2>1, <1>4 DEF Worker
<1>22. TypeOK'
  BY <1>1, <1>2, <1>18, <1>20, <1>21 DEF TypeOK, Kept, Frame, ThreadType, Pcs
<1>23. \A u \in Threads : Worker(th[u])'
  BY <1>4, <1>20 DEF Worker, Stage, EmptyHanded, Owes
<1>24. QED
  BY <1>19, <1>22, <1>23 DEF Kept

(* The lists stay as they are.                                             *)
LEMMA KeepLists ==
    ASSUME Kept, NEW t \in Threads, Becomes(t), Frame, local' = local,
           NEW w \in Int, BlockSize * resident' = BlockSize * resident + w,
           alloc' = alloc + (glob' - glob) + (Hand(th'[t]) - Hand(th[t])) + w
    PROVE  Kept'
<1>1. cpu[t] \in Cpus /\ local \in [Cpus -> Nat]
  BY DEF Cpus, Kept, TypeOK
<1>2. PICK c \in Cpus : c = cpu[t]
  BY <1>1
<1>3. PICK n \in Nat : n = local[c]
  BY <1>1
<1>4. Relists(c, n)
  BY <1>1, <1>3 DEF Relists, SetsAt
<1>5. Hand(th'[t]) \in Nat /\ Hand(th[t]) \in Nat
  BY HandTyped DEF Becomes, Kept
<1>6. alloc \in Nat /\ glob \in Nat /\ glob' \in Nat
  BY DEF Kept, TypeOK, Frame
<1>7. alloc' = alloc + (n - local[c]) + (glob' - glob)
                       + (Hand(th'[t]) - Hand(th[t])) + w
  BY <1>3, <1>5, <1>6
<1>8. QED
  BY <1>4, <1>7, Keep

(* What every action relies on.                                            *)
Surroundings(t) ==
    /\ Worker(th[t]) /\ th = [u \in Threads |-> th[u]]
    /\ cpu[t] \in Cpus /\ local \in [Cpus -> Nat] /\ Mine(t) = local[cpu[t]] /\ Mine(t) \in Nat
    /\ glob \in Nat /\ alloc \in Nat /\ resident \in Nat /\ debt \in Int
    /\ mutex \in [Cpus -> Threads \cup {NoThread}]
    /\ BlockSize * resident \in Nat

LEMMA Facts ==
    ASSUME Kept, NEW t \in Threads
    PROVE  Surroundings(t)
<1>1. \A a, b \in Nat : a * b \in Nat
  OBVIOUS
<1>2. BlockSize \in Nat /\ resident \in Nat
  BY Sizes DEF Kept, TypeOK
<1>3. BlockSize * resident \in Nat
  BY <1>1, <1>2
<1>4. cpu[t] \in Cpus
  BY DEF Cpus
<1>5. QED
  BY <1>3, <1>4 DEF Kept, TypeOK, Surroundings, Mine

LEMMA OneMoreBlock ==
    ASSUME NEW r \in Nat
    PROVE  /\ BlockSize * (r + 1) = BlockSize * r + BlockSize
           /\ BlockSize * (r + 2) = BlockSize * r + 2 * BlockSize
           /\ BlockSize * (r - 1) = BlockSize * r - BlockSize
           /\ BlockSize * r \in Nat
<1>1. PICK b \in Nat : b = BlockSize
  BY Sizes
<1>2. \A a, c \in Int : a * (c + 1) = a * c + a
  OBVIOUS
<1>3. \A a, c \in Int : a * (c + 2) = a * c + 2 * a
  OBVIOUS
<1>4. \A a, c \in Int : a * (c - 1) = a * c - a
  OBVIOUS
<1>5. \A a, c \in Nat : a * c \in Nat
  OBVIOUS
<1>6. b \in Int /\ r \in Int
  OBVIOUS
<1>7. QED
  BY <1>1, <1>2, <1>3, <1>4, <1>5, <1>6

LEMMA UnlockTyped ==
    ASSUME NEW t \in Threads, mutex \in [Cpus -> Threads \cup {NoThread}], Unlock(t)
    PROVE  mutex' \in [Cpus -> Threads \cup {NoThread}]
  BY DEF Unlock

LEMMA ConfigKept == sizes' = sizes => config' = config /\ cache' = cache /\ resize' = resize
  BY DEF sizes

LEMMA ListsKept == lists' = lists => local' = local /\ glob' = glob
  BY DEF lists

(***************************************************************************)
(* Threads that only go on.                                                *)
(***************************************************************************)
Gone(x, p) == [x EXCEPT !.pc = p]
SameStage(p, q) == {p, q} \subseteq Gathers \/ {p, q} \subseteq Pushes

LEMMA GoneWorker ==
    ASSUME NEW x, Worker(x), NEW p, SameStage(x.pc, p)
    PROVE  Worker(Gone(x, p)) /\ Hand(Gone(x, p)) = Hand(x)
<1> DEFINE y == Gone(x, p)
<1>1. p \in Pcs /\ x \in ThreadType /\ x.pc # "toglobal" /\ p # "toglobal"
  BY DEF SameStage, Gathers, Pushes, Pcs, Worker
<1>2. y \in ThreadType
  BY <1>1 DEF ThreadType, Gone
<1>3. /\ y.pc = p /\ y.has = x.has /\ y.tmp = x.tmp /\ y.push = x.push
      /\ y.ret = x.ret /\ y.copy = x.copy
  BY <1>1 DEF ThreadType, Gone
<1> HIDE DEF y
<1>4. Stage(y)
  BY <1>3 DEF Worker, Stage, SameStage, Gathers, Pushes, Owes
<1>5. Hand(y) = Hand(x)
  BY <1>1, <1>3 DEF Hand
<1>6. QED
  BY <1>2, <1>4, <1>5 DEF y, Worker

LEMMA GoOn ==
    ASSUME Kept, NEW t \in Threads, NEW p, Goto(t, p), SameStage(th[t].pc, p),
           sizes' = sizes, lists' = lists, alloc' = alloc, resident' = resident,
           debt' \in Int, mutex' \in [Cpus -> Threads \cup {NoThread}]
    PROVE  Kept'
<1>1. Surroundings(t)
  BY Facts
<1>2. th' = [th EXCEPT ![t] = Gone(th[t], p)] /\ th'[t] = Gone(th[t], p)
  BY <1>1 DEF Goto, Gone, Surroundings
<1>3. Worker(th'[t]) /\ Hand(th'[t]) = Hand(th[t]) /\ Hand(th[t]) \in Nat
  BY <1>1, <1>2, GoneWorker, HandTyped DEF Surroundings
<1>4. Becomes(t)
  BY <1>2, <1>3 DEF Becomes
<1>5. Frame /\ local' = local /\ glob' = glob
  BY <1>1, ConfigKept, ListsKept DEF Frame, Surroundings
<1>6. BlockSize * resident' = BlockSize * resident + 0
  BY <1>1 DEF Surroundings
<1>7. alloc' = alloc + (glob' - glob) + (Hand(th'[t]) - Hand(th[t])) + 0
  BY <1>1, <1>3, <1>5 DEF Surroundings
<1>8. 0 \in Int
  OBVIOUS
<1>9. QED
  BY <1>4, <1>5, <1>6, <1>7, <1>8, KeepLists

GoesOn(t) ==
    \/ LockCpu(t) \/ LocalEmpty(t) \/ CheckHost(t) \/ HostFails(t) \/ NoOther(t)
    \/ Wake(t) \/ CheckDebt(t) \/ Pay(t) \/ Restore(t)

LEMMA GoesOnKept ==
    ASSUME Kept, NEW t \in Threads, GoesOn(t)
    PROVE  Kept'
<1>1. Surroundings(t)
  BY Facts
<1> USE DEF At, SameStage, Gathers, Pushes
<1>2. CASE LockCpu(t)
  <2>1. mutex' \in [Cpus -> Threads \cup {NoThread}]
    BY <1>1, <1>2 DEF LockCpu, Surroundings
  <2>2. SameStage(th[t].pc, "local")
    BY <1>2 DEF LockCpu
  <2>3. QED
    BY <1>1, <1>2, <2>1, <2>2, GoOn DEF LockCpu, Surroundings
<1>3. CASE LocalEmpty(t)
  <2>1. PICK p : p = IF At(t, "local") THEN "host" ELSE "pullglobal"
    OBVIOUS
  <2>2. Goto(t, p) /\ SameStage(th[t].pc, p)
    BY <1>3, <2>1 DEF LocalEmpty
  <2>3. QED
    BY <1>1, <1>3, <2>2, GoOn DEF LocalEmpty, Surroundings
<1>4. CASE CheckHost(t)
  <2>1. PICK p : p = IF available THEN "hostalloc" ELSE "pull"
    OBVIOUS
  <2>2. Goto(t, p) /\ SameStage(th[t].pc, p)
    BY <1>4, <2>1 DEF CheckHost
  <2>3. QED
    BY <1>1, <1>4, <2>2, GoOn DEF CheckHost, Surroundings
<1>5. CASE NoOther(t)
  BY <1>1, <1>5, GoOn DEF NoOther, Surroundings
<1>6. CASE Wake(t)
  BY <1>1, <1>6, GoOn DEF Wake, Surroundings
<1>7. CASE CheckDebt(t)
  <2>1. PICK p : p = IF debt >= 1 THEN "pay" ELSE "put"
    OBVIOUS
  <2>2. Goto(t, p) /\ SameStage(th[t].pc, p)
    BY <1>7, <2>1 DEF CheckDebt
  <2>3. QED
    BY <1>1, <1>7, <2>2, GoOn DEF CheckDebt, Surroundings
<1>8. CASE Pay(t)
  <2>1. PICK p : p = IF debt >= 1 THEN "tohost" ELSE "restore"
    OBVIOUS
  <2>2. Goto(t, p) /\ SameStage(th[t].pc, p) /\ debt' \in Int
    BY <1>1, <1>8, <2>1 DEF Pay, Surroundings
  <2>3. QED
    BY <1>1, <1>8, <2>2, GoOn DEF Pay, Surroundings
<1>9. CASE Restore(t)
  <2>1. debt' \in Int
    BY <1>1, <1>9 DEF Restore, Surroundings
  <2>2. QED
    BY <1>1, <1>9, <2>1, GoOn DEF Restore, Surroundings
<1>10. CASE HostFails(t)
  BY <1>1, <1>10, GoOn DEF HostFails, Surroundings
<1> QED
  BY <1>2, <1>3, <1>4, <1>5, <1>6, <1>7, <1>8, <1>9, <1>10 DEF GoesOn

(***************************************************************************)
(* Threads that begin or end something.                                    *)
(***************************************************************************)
LEMMA IdleFields ==
    ASSUME NEW x, x = Idle
    PROVE  /\ x \in ThreadType /\ x.pc = "idle" /\ x.ret = "idle"
           /\ x.has = 0 /\ x.tmp = 0 /\ x.push = 0 /\ x.copy = FALSE
<1>1. 0 \in 0 .. BlockSize /\ 0 \in Nat /\ "idle" \in Pcs /\ {} \in SUBSET Cpus
  BY Sizes DEF Pcs
<1>2. QED
  BY <1>1 DEF Idle, ThreadType

LEMMA IdleWorker == Worker(Idle) /\ Hand(Idle) = 0
<1>1. PICK x : x = Idle
  OBVIOUS
<1>a. /\ x \in ThreadType /\ x.pc = "idle" /\ x.ret = "idle"
      /\ x.has = 0 /\ x.tmp = 0 /\ x.push = 0 /\ x.copy = FALSE
  BY <1>1, IdleFields
<1>2. Stage(x) /\ Hand(x) = 0
  BY <1>a DEF Stage, Hand, EmptyHanded, Gathers, Pushes
<1>3. QED
  BY <1>1, <1>2, IdleFields DEF Worker

LEMMA LockWorker ==
    ASSUME NEW x, x = Idle
    PROVE  Worker(Gone(x, "lock")) /\ Hand(Gone(x, "lock")) = 0
<1> DEFINE y == Gone(x, "lock")
<1>a. /\ x \in ThreadType /\ x.pc = "idle" /\ x.ret = "idle"
      /\ x.has = 0 /\ x.tmp = 0 /\ x.push = 0 /\ x.copy = FALSE
  BY IdleFields
<1>1. "lock" \in Pcs
  BY DEF Pcs
<1>2. y \in ThreadType
  BY <1>1, <1>a DEF ThreadType, Gone
<1>3. y.pc = "lock" /\ y.has = 0 /\ y.tmp = 0 /\ y.push = 0 /\ y.copy = FALSE
  BY <1>a DEF ThreadType, Gone
<1> HIDE DEF y
<1>4. Stage(y) /\ Hand(y) = 0
  BY <1>3, Sizes DEF Stage, Hand, Gathers, Pushes
<1>5. QED
  BY <1>2, <1>4 DEF Worker, y

LEMMA CopyWorker ==
    ASSUME NEW x, x = Idle
    PROVE  Worker(Copying(x)) /\ Hand(Copying(x)) = BlockSize
<1> DEFINE y == Copying(x)
<1>a. /\ x \in ThreadType /\ x.pc = "idle" /\ x.ret = "idle"
      /\ x.has = 0 /\ x.tmp = 0 /\ x.push = 0 /\ x.copy = FALSE
  BY IdleFields
<1>1. "local" \in Pcs
  BY DEF Pcs
<1>2. y \in ThreadType
  BY <1>1, <1>a DEF ThreadType, Copying
<1>3. y.pc = "local" /\ y.has = 0 /\ y.tmp = 0 /\ y.push = 0 /\ y.copy = TRUE
  BY <1>a DEF ThreadType, Copying
<1> HIDE DEF y
<1>4. Stage(y) /\ Hand(y) = BlockSize
  BY <1>3, Sizes DEF Stage, Hand, Gathers, Pushes
<1>5. QED
  BY <1>2, <1>4 DEF Worker, y

LEMMA FreeingWorker ==
    ASSUME NEW x, x = Idle, NEW n \in 1 .. BlockSize
    PROVE  Worker(Freeing(x, n)) /\ Hand(Freeing(x, n)) = n
<1> DEFINE y == Freeing(x, n)
<1>a. /\ x \in ThreadType /\ x.pc = "idle" /\ x.ret = "idle"
      /\ x.has = 0 /\ x.tmp = 0 /\ x.push = 0 /\ x.copy = FALSE
  BY IdleFields
<1>1. "debt" \in Pcs /\ n \in 0 .. BlockSize
  BY Sizes DEF Pcs
<1>2. y \in ThreadType
  BY <1>1, <1>a DEF ThreadType, Freeing
<1>3. /\ y.pc = "debt" /\ y.has = 0 /\ y.tmp = 0 /\ y.push = n /\ y.copy = FALSE
  BY <1>a DEF ThreadType, Freeing
<1> HIDE DEF y
<1>4. Stage(y) /\ Hand(y) = n
  BY <1>3, Sizes DEF Stage, Hand, Gathers, Pushes, Owes
<1>5. QED
  BY <1>2, <1>4 DEF Worker, y

LEMMA FreeingOnWorker ==
    ASSUME NEW x, x = Idle, NEW n \in 1 .. BlockSize, NEW b \in BOOLEAN
    PROVE  Worker(FreeingOn(x, n, b)) /\ Hand(FreeingOn(x, n, b)) = n
<1> DEFINE y == FreeingOn(x, n, b)
<1>a. /\ x \in ThreadType /\ x.pc = "idle" /\ x.ret = "idle"
      /\ x.has = 0 /\ x.tmp = 0 /\ x.push = 0 /\ x.copy = FALSE
  BY IdleFields
<1>1. "debt" \in Pcs /\ n \in 0 .. BlockSize
  BY Sizes DEF Pcs
<1>2. y \in ThreadType
  BY <1>1, <1>a DEF ThreadType, FreeingOn
<1>3. /\ y.pc = "debt" /\ y.has = 0 /\ y.tmp = 0 /\ y.push = n /\ y.copy = FALSE
  BY <1>a DEF ThreadType, FreeingOn
<1> HIDE DEF y
<1>4. Stage(y) /\ Hand(y) = n
  BY <1>3, Sizes DEF Stage, Hand, Gathers, Pushes, Owes
<1>5. QED
  BY <1>2, <1>4 DEF Worker, y

LEMMA StartFetchKept ==
    ASSUME Kept, NEW t \in Threads, StartFetch(t)
    PROVE  Kept'
<1>1. Surroundings(t)
  BY Facts
<1>2. th' = [th EXCEPT ![t] = th'[t]] /\ th'[t] = Gone(Idle, "lock") /\ th[t] = Idle
  BY <1>1 DEF StartFetch, Goto, Gone, Surroundings
<1>3. Becomes(t) /\ Hand(th'[t]) = Hand(th[t]) /\ Hand(th[t]) = 0
  BY <1>2, IdleWorker, LockWorker DEF Becomes
<1>4. Frame /\ local' = local /\ glob' = glob
  BY <1>1, ConfigKept, ListsKept DEF Frame, Surroundings, StartFetch
<1>5. BlockSize * resident' = BlockSize * resident + 0
  BY <1>1 DEF Surroundings, StartFetch
<1>6. alloc' = alloc + (glob' - glob) + (Hand(th'[t]) - Hand(th[t])) + 0
  BY <1>1, <1>3, <1>4 DEF Surroundings, StartFetch
<1>7. QED
  BY <1>3, <1>4, <1>5, <1>6, KeepLists

(* A block that nobody holds becomes the thread's.                         *)
LEMMA TakesBlock ==
    ASSUME Kept, NEW t \in Threads, Becomes(t), sizes' = sizes, lists' = lists,
           alloc' = alloc, debt' = debt, mutex' = mutex,
           resident > 0, resident' = resident - 1,
           Hand(th'[t]) = Hand(th[t]) + BlockSize
    PROVE  Kept'
<1>1. Surroundings(t)
  BY Facts
<1>2. Frame /\ local' = local /\ glob' = glob
  BY <1>1, ConfigKept, ListsKept DEF Frame, Surroundings
<1>3. PICK w \in Int : w = 0 - BlockSize
  BY Sizes
<1>4. BlockSize * resident' = BlockSize * resident - BlockSize
  BY <1>1, OneMoreBlock DEF Surroundings
<1>5. BlockSize * resident' = BlockSize * resident + w
  BY <1>1, <1>3, <1>4, Sizes DEF Surroundings
<1>6. Hand(th[t]) \in Nat
  BY <1>1, HandTyped DEF Surroundings
<1>7. alloc' = alloc + (glob' - glob) + (Hand(th'[t]) - Hand(th[t])) + w
  BY <1>1, <1>2, <1>3, <1>6, Sizes DEF Surroundings
<1>8. QED
  BY <1>2, <1>5, <1>7, KeepLists

LEMMA StartCopyKept ==
    ASSUME Kept, NEW t \in Threads, StartCopy(t)
    PROVE  Kept'
<1>1. Surroundings(t)
  BY Facts
<1>2. th' = [th EXCEPT ![t] = th'[t]] /\ th'[t] = Copying(Idle) /\ th[t] = Idle
  BY <1>1 DEF StartCopy, Copying, Surroundings
<1>3. Becomes(t) /\ Hand(th'[t]) = Hand(th[t]) + BlockSize
  BY <1>2, IdleWorker, CopyWorker, Sizes DEF Becomes
<1>4. QED
  BY <1>3, TakesBlock DEF StartCopy

LEMMA FreeBlockKept ==
    ASSUME Kept, NEW t \in Threads, FreeBlock(t)
    PROVE  Kept'
<1>1. Surroundings(t)
  BY Facts
<1>2. PICK b \in BOOLEAN :
         th' = [th EXCEPT ![t] = [Idle EXCEPT !.pc = "debt", !.push = BlockSize, !.nocpu = b]]
  BY Zenon DEF FreeBlock
<1>3. th' = [th EXCEPT ![t] = th'[t]] /\ th'[t] = FreeingOn(Idle, BlockSize, b) /\ th[t] = Idle
  BY <1>1, <1>2 DEF FreeBlock, FreeingOn, Surroundings
<1>4. BlockSize \in 1 .. BlockSize
  BY Sizes
<1>5. Becomes(t) /\ Hand(th'[t]) = Hand(th[t]) + BlockSize
  BY <1>3, <1>4, IdleWorker, FreeingOnWorker, Sizes DEF Becomes
<1>6. QED
  BY <1>5, TakesBlock DEF FreeBlock

Reclaiming(x) == [x EXCEPT !.pc = "debt", !.ret = "host", !.push = BlockSize]

LEMMA ReclaimKept ==
    ASSUME Kept, NEW t \in Threads, Reclaim(t)
    PROVE  Kept'
<1>1. Surroundings(t)
  BY Facts
<1>2. CASE resident > 0
  <2> DEFINE x == th[t]
             y == Reclaiming(x)
  <2>1. th' = [th EXCEPT ![t] = th'[t]] /\ th'[t] = y
    BY <1>1, <1>2 DEF Reclaim, Reclaiming, Surroundings
  <2>2. x \in ThreadType /\ x.pc = "reclaim" /\ Stage(x)
    BY <1>1 DEF Reclaim, At, Surroundings, Worker
  <2>3. y \in ThreadType
    <3>1. "debt" \in Pcs /\ BlockSize \in 0 .. BlockSize
      BY Sizes DEF Pcs
    <3>2. QED
      BY <2>2, <3>1 DEF ThreadType, Reclaiming
  <2>4. /\ y.pc = "debt" /\ y.has = x.has /\ y.tmp = x.tmp /\ y.push = BlockSize
        /\ y.ret = "host" /\ y.copy = x.copy
    BY <2>2 DEF ThreadType, Reclaiming
  <2>5. x.push = 0 /\ x.tmp = 0 /\ x.has < BlockSize /\ x.has \in Nat /\ x.copy \in BOOLEAN
    BY <2>2 DEF ThreadType, Stage, Gathers
  <2> HIDE DEF y
  <2>6. Stage(y)
    BY <2>4, <2>5, Sizes DEF Stage, Gathers, Pushes, Owes
  <2>7. Hand(y) = Hand(x) + BlockSize
    BY <2>2, <2>4, <2>5, Sizes DEF Hand
  <2>8. Becomes(t) /\ Hand(th'[t]) = Hand(th[t]) + BlockSize
    BY <2>1, <2>3, <2>6, <2>7 DEF Becomes, Worker
  <2>9. resident' = resident - 1
    BY <1>2 DEF Reclaim
  <2>10. QED
    BY <1>2, <2>8, <2>9, TakesBlock DEF Reclaim
<1>3. CASE ~(resident > 0)
  <2>1. PICK p : p = IF available THEN "host" ELSE "wait"
    OBVIOUS
  <2>2. Goto(t, p) /\ SameStage(th[t].pc, p) /\ resident' = resident
    BY <1>3, <2>1 DEF Reclaim, At, SameStage, Gathers
  <2>3. QED
    BY <1>1, <2>2, GoOn DEF Reclaim, Surroundings
<1>4. QED
  BY <1>2, <1>3

(* A thread that was killed frees what it has collected, and the old block *)
(* of a copy is nobody's again.                                            *)
LEMMA GivenUpKept ==
    ASSUME Kept, NEW t \in Threads, th[t].pc \in {"lock", "reclaim", "wait"}, GiveUp(t)
    PROVE  Kept'
<1>1. Surroundings(t)
  BY Facts
<1> DEFINE x == th[t]
           y == IF x.has = 0 THEN Idle ELSE Freeing(Idle, x.has)
<1>2. th' = [th EXCEPT ![t] = th'[t]] /\ th'[t] = y
  BY <1>1 DEF GiveUp, Freeing, Surroundings
<1>3. /\ x.push = 0 /\ x.tmp = 0 /\ x.has < BlockSize /\ x.has \in Nat /\ x.copy \in BOOLEAN
      /\ x.pc # "toglobal"
  BY <1>1 DEF Surroundings, Worker, ThreadType, Stage, Gathers
<1>4. Worker(y) /\ Hand(y) = x.has
  <2>1. CASE x.has = 0
    BY <2>1, IdleWorker
  <2>2. CASE x.has # 0
    <3>1. x.has \in 1 .. BlockSize
      BY <1>3, <2>2, Sizes
    <3>2. QED
      BY <2>2, <3>1, FreeingWorker
  <2>3. QED
    BY <2>1, <2>2
<1>5. Becomes(t) /\ Hand(th'[t]) = x.has
  BY <1>2, <1>4 DEF Becomes
<1> HIDE DEF y
<1>6. mutex' \in [Cpus -> Threads \cup {NoThread}]
  BY <1>1, UnlockTyped DEF GiveUp, Surroundings
<1>7. resident' \in Nat
  BY <1>1 DEF GiveUp, Surroundings
<1>8. Frame /\ local' = local /\ glob' = glob
  BY <1>1, <1>6, <1>7, ConfigKept, ListsKept DEF Frame, Surroundings, GiveUp
<1>9. alloc' = alloc
  BY DEF GiveUp
<1>10. CASE x.copy
  <2>1. Hand(x) = x.has + BlockSize
    BY <1>3, <1>10, Sizes DEF Hand
  <2>2. resident' = resident + 1
    BY <1>10 DEF GiveUp
  <2>3. BlockSize * resident' = BlockSize * resident + BlockSize
    BY <1>1, <2>2, OneMoreBlock DEF Surroundings
  <2>4. alloc' = alloc + (glob' - glob) + (Hand(th'[t]) - Hand(th[t])) + BlockSize
    BY <1>1, <1>3, <1>5, <1>8, <1>9, <2>1, Sizes DEF Surroundings
  <2>5. BlockSize \in Int
    BY Sizes
  <2>6. QED
    BY <1>5, <1>8, <2>3, <2>4, <2>5, KeepLists
<1>11. CASE ~x.copy
  <2>1. Hand(x) = x.has
    BY <1>3, <1>11, Sizes DEF Hand
  <2>2. resident' = resident
    BY <1>1, <1>11 DEF GiveUp, Surroundings
  <2>3. BlockSize * resident' = BlockSize * resident + 0
    BY <1>1, <2>2 DEF Surroundings
  <2>4. alloc' = alloc + (glob' - glob) + (Hand(th'[t]) - Hand(th[t])) + 0
    BY <1>1, <1>3, <1>5, <1>8, <1>9, <2>1 DEF Surroundings
  <2>5. QED
    BY <1>5, <1>8, <2>3, <2>4, KeepLists
<1>12. QED
  BY <1>10, <1>11

LEMMA GiveUpKept ==
    ASSUME Kept, NEW t \in Threads, Killed(t) \/ ReclaimFails(t)
    PROVE  Kept'
  BY GivenUpKept DEF Killed, ReclaimFails, At

LEMMA PopulateKept ==
    ASSUME Kept, NEW t \in Threads, Populate(t)
    PROVE  Kept'
<1>1. Surroundings(t)
  BY Facts
<1> DEFINE x == th[t]
<1>2. th' = [th EXCEPT ![t] = th'[t]] /\ th'[t] = Idle
  BY <1>1 DEF Populate, Surroundings
<1>3. x.push = 0 /\ x.tmp = 0 /\ x.has = BlockSize /\ x.copy \in BOOLEAN /\ x.pc = "populate"
  BY <1>1 DEF Surroundings, Worker, ThreadType, Stage, Populate, At
<1>4. Becomes(t) /\ Hand(th'[t]) = 0
  BY <1>2, IdleWorker DEF Becomes
<1>5. resident' \in Nat
  BY <1>1 DEF Populate, Surroundings
<1>6. Frame /\ local' = local /\ glob' = glob
  BY <1>1, <1>5, ConfigKept, ListsKept DEF Frame, Surroundings, Populate
<1>7. alloc' = alloc
  BY DEF Populate
<1>8. CASE x.copy
  <2>1. Hand(x) = BlockSize + BlockSize
    BY <1>3, <1>8, Sizes DEF Hand
  <2>2. resident' = resident + 2
    BY <1>8 DEF Populate
  <2>3. PICK w \in Int : w = 2 * BlockSize
    BY Sizes
  <2>4. BlockSize * resident' = BlockSize * resident + w
    BY <1>1, <2>2, <2>3, OneMoreBlock DEF Surroundings
  <2>5. alloc' = alloc + (glob' - glob) + (Hand(th'[t]) - Hand(th[t])) + w
    BY <1>1, <1>4, <1>6, <1>7, <2>1, <2>3, Sizes DEF Surroundings
  <2>6. QED
    BY <1>4, <1>6, <2>4, <2>5, KeepLists
<1>9. CASE ~x.copy
  <2>1. Hand(x) = BlockSize
    BY <1>3, <1>9, Sizes DEF Hand
  <2>2. resident' = resident + 1
    BY <1>9 DEF Populate
  <2>3. BlockSize * resident' = BlockSize * resident + BlockSize
    BY <1>1, <2>2, OneMoreBlock DEF Surroundings
  <2>4. alloc' = alloc + (glob' - glob) + (Hand(th'[t]) - Hand(th[t])) + BlockSize
    BY <1>1, <1>4, <1>6, <1>7, <2>1, Sizes DEF Surroundings
  <2>5. BlockSize \in Int
    BY Sizes
  <2>6. QED
    BY <1>4, <1>6, <2>3, <2>4, <2>5, KeepLists
<1>10. QED
  BY <1>8, <1>9

(***************************************************************************)
(* Threads that get a page: TakePage.                                      *)
(***************************************************************************)
LEMMA GotWorker ==
    ASSUME NEW x, x \in ThreadType, x.has < BlockSize, x.tmp = 0, x.push = 0,
           x.pc # "toglobal"
    PROVE  Worker(Got(x)) /\ Hand(Got(x)) = Hand(x) + 1
<1> DEFINE y == Got(x)
<1>1. PICK p : p = IF x.has + 1 = BlockSize THEN "populate" ELSE "local"
  OBVIOUS
<1>2. x.has \in 0 .. BlockSize /\ x.has + 1 \in 0 .. BlockSize /\ p \in Pcs
  BY <1>1, Sizes DEF ThreadType, Pcs
<1>3. y = [x EXCEPT !.has = x.has + 1, !.pc = p]
  BY <1>1 DEF Got
<1>4. y \in ThreadType
  BY <1>2, <1>3 DEF ThreadType
<1>5. /\ y.pc = p /\ y.has = x.has + 1 /\ y.tmp = x.tmp /\ y.push = x.push
      /\ y.ret = x.ret /\ y.copy = x.copy
  BY <1>3 DEF ThreadType
<1> HIDE DEF y
<1>6. Stage(y)
  BY <1>1, <1>2, <1>5, Sizes DEF Stage, Gathers, Pushes
<1>7. Hand(y) = Hand(x) + 1
  <2>1. p # "toglobal" /\ x.copy \in BOOLEAN
    BY <1>1 DEF ThreadType
  <2>2. QED
    BY <1>2, <1>5, <2>1, Sizes DEF Hand
<1>8. QED
  BY <1>4, <1>6, <1>7 DEF y, Worker

LEMMA TakesPage ==
    ASSUME Kept, NEW t \in Threads, NEW x, TakePage(t, x),
           x \in ThreadType, x.has < BlockSize, x.tmp = 0, x.push = 0, x.pc # "toglobal"
    PROVE  /\ Becomes(t) /\ Hand(th'[t]) = Hand(x) + 1
           /\ mutex' \in [Cpus -> Threads \cup {NoThread}]
<1>1. Surroundings(t)
  BY Facts
<1>2. PICK y : y = Got(x)
  OBVIOUS
<1>3. th' = [th EXCEPT ![t] = y]
  BY <1>2 DEF TakePage
<1>4. th' = [th EXCEPT ![t] = th'[t]] /\ th'[t] = y
  BY <1>1, <1>3 DEF Surroundings
<1>5. Worker(y) /\ Hand(y) = Hand(x) + 1
  BY <1>2, GotWorker
<1>6. Unlock(t) \/ mutex' = mutex
  BY DEF TakePage
<1>7. QED
  BY <1>1, <1>4, <1>5, <1>6, UnlockTyped DEF Becomes, Surroundings

LEMMA PopLocalKept ==
    ASSUME Kept, NEW t \in Threads, PopLocal(t)
    PROVE  Kept'
<1>1. Surroundings(t)
  BY Facts
<1>2. PICK x : x = th[t]
  OBVIOUS
<1>3. x \in ThreadType /\ x.has < BlockSize /\ x.tmp = 0 /\ x.push = 0 /\ x.pc # "toglobal"
  BY <1>1, <1>2 DEF PopLocal, Surroundings, Worker, Stage, Gathers
<1>4. TakePage(t, x)
  BY <1>2 DEF PopLocal
<1>5. /\ Becomes(t) /\ Hand(th'[t]) = Hand(x) + 1
      /\ mutex' \in [Cpus -> Threads \cup {NoThread}]
  BY <1>3, <1>4, TakesPage
<1>6. Frame
  BY <1>1, <1>5, ConfigKept DEF Frame, PopLocal, Surroundings
<1>7. PICK c \in Cpus, n \in Nat : c = cpu[t] /\ n = local[c] - 1
  <2>1. cpu[t] \in Cpus /\ local[cpu[t]] - 1 \in Nat
    BY <1>1 DEF PopLocal, Surroundings
  <2>2. QED
    BY <2>1
<1>8. Relists(c, n)
  BY <1>1, <1>7 DEF Relists, SetsAt, PopLocal, Surroundings
<1>9. BlockSize * resident' = BlockSize * resident + 0
  BY <1>1 DEF Surroundings, PopLocal
<1>10. Hand(x) \in Nat /\ local[c] \in Nat /\ glob' = glob /\ alloc' = alloc
  BY <1>1, <1>2, HandTyped DEF Surroundings, PopLocal
<1>11. alloc' = alloc + (n - local[c]) + (glob' - glob) + (Hand(th'[t]) - Hand(th[t])) + 0
  BY <1>1, <1>2, <1>5, <1>7, <1>10 DEF Surroundings
<1>12. QED
  BY <1>5, <1>6, <1>8, <1>9, <1>11, Keep

LEMMA HostAllocKept ==
    ASSUME Kept, NEW t \in Threads, HostAlloc(t)
    PROVE  Kept'
<1>1. Surroundings(t)
  BY Facts
<1>2. PICK x : x = th[t]
  OBVIOUS
<1>3. x \in ThreadType /\ x.has < BlockSize /\ x.tmp = 0 /\ x.push = 0 /\ x.pc # "toglobal"
  BY <1>1, <1>2 DEF HostAlloc, At, Surroundings, Worker, Stage, Gathers
<1>4. TakePage(t, x)
  BY <1>2 DEF HostAlloc
<1>5. /\ Becomes(t) /\ Hand(th'[t]) = Hand(x) + 1
      /\ mutex' \in [Cpus -> Threads \cup {NoThread}]
  BY <1>3, <1>4, TakesPage
<1>6. Frame /\ local' = local /\ glob' = glob
  BY <1>1, <1>5, ConfigKept, ListsKept DEF Frame, HostAlloc, Surroundings
<1>7. BlockSize * resident' = BlockSize * resident + 0
  BY <1>1 DEF Surroundings, HostAlloc
<1>8. Hand(x) \in Nat /\ alloc' = alloc + 1
  BY <1>1, <1>2, HandTyped DEF Surroundings, HostAlloc
<1>9. alloc' = alloc + (glob' - glob) + (Hand(th'[t]) - Hand(th[t])) + 0
  BY <1>1, <1>2, <1>5, <1>6, <1>8 DEF Surroundings
<1>10. QED
  BY <1>5, <1>6, <1>7, <1>9, KeepLists

LEMMA SpliceKept ==
    ASSUME Kept, NEW t \in Threads, Splice(t)
    PROVE  Kept'
<1>1. Surroundings(t)
  BY Facts
<1>2. PICK z : z = th[t]
  OBVIOUS
<1>3. PICK x : x = Spliced(z)
  OBVIOUS
<1>4. /\ z \in ThreadType /\ z.pc = "splice" /\ z.has < BlockSize /\ z.tmp >= 1 /\ z.push = 0
      /\ z.tmp \in Nat /\ z.has \in Nat /\ z.copy \in BOOLEAN
  BY <1>1, <1>2 DEF Splice, At, Surroundings, Worker, Stage, ThreadType
<1>5. x \in ThreadType
  BY <1>3, <1>4 DEF Spliced, ThreadType
<1>6. /\ x.pc = z.pc /\ x.has = z.has /\ x.tmp = 0 /\ x.push = z.push /\ x.copy = z.copy
  BY <1>3, <1>4 DEF Spliced, ThreadType
<1>7. Hand(z) = Hand(x) + z.tmp /\ Hand(x) \in Nat
  BY <1>4, <1>6, Sizes DEF Hand
<1>8. TakePage(t, x)
  BY <1>2, <1>3 DEF Splice, Spliced
<1>9. /\ Becomes(t) /\ Hand(th'[t]) = Hand(x) + 1
      /\ mutex' \in [Cpus -> Threads \cup {NoThread}]
  BY <1>4, <1>5, <1>6, <1>8, TakesPage
<1>10. Frame
  BY <1>1, <1>9, ConfigKept DEF Frame, Splice, Surroundings
<1>11. PICK c \in Cpus, n \in Nat : c = cpu[t] /\ n = local[c] + z.tmp - 1
  <2>1. cpu[t] \in Cpus /\ local[cpu[t]] + z.tmp - 1 \in Nat
    BY <1>1, <1>4 DEF Surroundings
  <2>2. QED
    BY <2>1
<1>12. Relists(c, n)
  BY <1>1, <1>2, <1>11 DEF Relists, SetsAt, Splice, Surroundings
<1>13. BlockSize * resident' = BlockSize * resident + 0
  BY <1>1 DEF Surroundings, Splice
<1>14. local[c] \in Nat /\ glob' = glob /\ alloc' = alloc
  BY <1>1 DEF Surroundings, Splice
<1>15. alloc' = alloc + (n - local[c]) + (glob' - glob) + (Hand(th'[t]) - Hand(th[t])) + 0
  BY <1>1, <1>2, <1>4, <1>7, <1>9, <1>11, <1>14 DEF Surroundings
<1>16. QED
  BY <1>9, <1>10, <1>12, <1>13, <1>15, Keep

(***************************************************************************)
(* Threads that pull pages from other lists.                               *)
(***************************************************************************)
LEMMA PullWorker ==
    ASSUME NEW x, Worker(x), x.pc \in Gathers, NEW n \in Nat, NEW D \in SUBSET Cpus,
           NEW p, (n > 0 /\ p = "splice") \/ (n = 0 /\ p = "pullothers")
    PROVE  Worker(Pulling(x, n, D, p)) /\ Hand(Pulling(x, n, D, p)) = Hand(x) + n
<1> DEFINE y == Pulling(x, n, D, p)
<1>1. p \in Pcs /\ x \in ThreadType
  BY DEF Pcs, Worker
<1>2. y \in ThreadType
  BY <1>1 DEF Pulling, ThreadType
<1>3. /\ y.pc = p /\ y.has = x.has /\ y.tmp = n /\ y.push = x.push
      /\ y.ret = x.ret /\ y.copy = x.copy
  BY <1>1 DEF Pulling, ThreadType
<1>4. /\ x.has < BlockSize /\ x.tmp = 0 /\ x.push = 0 /\ x.has \in Nat /\ x.copy \in BOOLEAN
      /\ x.pc # "toglobal"
  BY <1>1 DEF Worker, Stage, Gathers, ThreadType
<1> HIDE DEF y
<1>5. Stage(y)
  BY <1>3, <1>4 DEF Stage, Gathers, Pushes
<1>6. Hand(y) = Hand(x) + n
  BY <1>3, <1>4, Sizes DEF Hand
<1>7. QED
  BY <1>2, <1>5, <1>6 DEF y, Worker

LEMMA PullGlobalKept ==
    ASSUME Kept, NEW t \in Threads, PullGlobal(t)
    PROVE  Kept'
<1>1. Surroundings(t)
  BY Facts
<1>2. PICK x : x = th[t]
  OBVIOUS
<1>3. PICK n : n = IF glob < BlockSize THEN glob ELSE BlockSize
  OBVIOUS
<1>4. PICK p : p = IF n > 0 THEN "splice" ELSE "pullothers"
  OBVIOUS
<1>5. PICK D : D = Cpus \ {cpu[t]}
  OBVIOUS
<1>6. /\ n \in Nat /\ glob - n \in Nat /\ D \in SUBSET Cpus
      /\ (n > 0 /\ p = "splice") \/ (n = 0 /\ p = "pullothers")
  BY <1>1, <1>3, <1>4, <1>5, Sizes DEF Surroundings
<1>7. Worker(x) /\ x.pc \in Gathers
  BY <1>1, <1>2 DEF Surroundings, PullGlobal, At, Gathers
<1>8. PICK y : y = Pulling(x, n, D, p)
  OBVIOUS
<1>9. Worker(y) /\ Hand(y) = Hand(x) + n
  BY <1>6, <1>7, <1>8, PullWorker
<1>10. glob' = glob - n /\ th' = [th EXCEPT ![t] = y]
  BY <1>1, <1>2, <1>3, <1>4, <1>5, <1>8 DEF PullGlobal, Pulling, Surroundings
<1>11. th' = [th EXCEPT ![t] = th'[t]] /\ th'[t] = y
  BY <1>1, <1>10 DEF Surroundings
<1>12. Becomes(t) /\ Hand(th'[t]) = Hand(x) + n
  BY <1>9, <1>11 DEF Becomes
<1>13. Frame /\ local' = local
  BY <1>1, <1>6, <1>10, ConfigKept DEF Frame, PullGlobal, Surroundings
<1>14. BlockSize * resident' = BlockSize * resident + 0
  BY <1>1 DEF Surroundings, PullGlobal
<1>15. Hand(x) \in Nat /\ alloc' = alloc
  BY <1>7, HandTyped DEF PullGlobal
<1>16. alloc' = alloc + (glob' - glob) + (Hand(th'[t]) - Hand(th[t])) + 0
  BY <1>1, <1>2, <1>6, <1>10, <1>12, <1>15 DEF Surroundings
<1>17. QED
  BY <1>12, <1>13, <1>14, <1>16, KeepLists

LEMMA PullOtherKept ==
    ASSUME Kept, NEW t \in Threads, PullOther(t)
    PROVE  Kept'
<1>1. Surroundings(t)
  BY Facts
<1>2. PICK x : x = th[t]
  OBVIOUS
<1>3. Worker(x) /\ x.pc = "pullothers" /\ x \in ThreadType /\ x.rest \subseteq Cpus
  BY <1>1, <1>2 DEF Surroundings, PullOther, At, Worker, ThreadType
<1>4. PICK c \in th[t].rest :
        LET n == IF local[c] < BlockSize THEN local[c] ELSE BlockSize
        IN  /\ local' = [local EXCEPT ![c] = @ - n]
            /\ th' = [th EXCEPT ![t].tmp = n, ![t].rest = @ \ {c},
                                ![t].pc = IF n > 0 THEN "splice" ELSE @]
  BY Zenon DEF PullOther
<1>5. PICK n : n = IF local[c] < BlockSize THEN local[c] ELSE BlockSize
  OBVIOUS
<1>6. c \in Cpus /\ local[c] \in Nat
  BY <1>1, <1>2, <1>3 DEF Surroundings
<1>7. PICK D : D = x.rest \ {c}
  OBVIOUS
<1>8. PICK p : p = IF n > 0 THEN "splice" ELSE "pullothers"
  OBVIOUS
<1>9. /\ n \in Nat /\ local[c] - n \in Nat /\ D \in SUBSET Cpus
      /\ (n > 0 /\ p = "splice") \/ (n = 0 /\ p = "pullothers")
  BY <1>3, <1>5, <1>6, <1>7, <1>8, Sizes
<1>10. PICK y : y = Pulling(x, n, D, p)
  OBVIOUS
<1>11. x.pc \in Gathers
  BY <1>3 DEF Gathers
<1>12. Worker(y) /\ Hand(y) = Hand(x) + n
  BY <1>3, <1>9, <1>10, <1>11, PullWorker
<1>13. th' = [th EXCEPT ![t].tmp = n, ![t].rest = @ \ {c},
                        ![t].pc = IF n > 0 THEN "splice" ELSE @]
  BY <1>4, <1>5
<1>14. th' = [th EXCEPT ![t] = y]
  BY <1>1, <1>2, <1>3, <1>7, <1>8, <1>10, <1>13 DEF Pulling, Surroundings
<1>15. th' = [th EXCEPT ![t] = th'[t]] /\ th'[t] = y
  BY <1>1, <1>14 DEF Surroundings
<1>16. Becomes(t) /\ Hand(th'[t]) = Hand(x) + n
  BY <1>12, <1>15 DEF Becomes
<1>17. PICK m \in Nat : m = local[c] - n
  BY <1>9
<1>18. Relists(c, m)
  BY <1>4, <1>5, <1>17 DEF Relists, SetsAt
<1>19. Frame
  BY <1>1, ConfigKept DEF Frame, PullOther, Surroundings
<1>20. BlockSize * resident' = BlockSize * resident + 0
  BY <1>1 DEF Surroundings, PullOther
<1>21. Hand(x) \in Nat /\ alloc' = alloc /\ glob' = glob
  BY <1>3, HandTyped DEF PullOther
<1>22. alloc' = alloc + (m - local[c]) + (glob' - glob) + (Hand(th'[t]) - Hand(th[t])) + 0
  BY <1>1, <1>2, <1>6, <1>9, <1>16, <1>17, <1>21 DEF Surroundings
<1>23. QED
  BY <1>6, <1>16, <1>18, <1>19, <1>20, <1>22, Keep

(***************************************************************************)
(* Threads that free a page: Pushed.  Load is what a thread has in hand    *)
(* besides the pages between two lists.                                    *)
(***************************************************************************)
Load(x) == x.has + x.push + IF x.copy THEN BlockSize ELSE 0

LEMMA Loaded ==
    ASSUME NEW x, Worker(x)
    PROVE  /\ Load(x) \in Nat
           /\ x.pc \in Pushes => Hand(x) = Load(x)
           /\ x.pc = "toglobal" => Hand(x) = Load(x) + x.tmp - 1
<1>1. x.has \in Nat /\ x.push \in Nat /\ x.tmp \in Nat /\ x.copy \in BOOLEAN
  BY Sizes DEF Worker, ThreadType
<1>2. Load(x) \in Nat
  BY <1>1, Sizes DEF Load
<1>3. x.pc \in Pushes => Hand(x) = Load(x)
  <2>1. x.pc \in Pushes => x.pc # "toglobal" /\ x.tmp = 0
    BY DEF Pushes, Worker, Stage
  <2>2. QED
    BY <1>1, <2>1, Sizes DEF Load, Hand
<1>4. x.pc = "toglobal" => Hand(x) = Load(x) + x.tmp - 1
  BY <1>1, Sizes DEF Load, Hand
<1>5. QED
  BY <1>2, <1>3, <1>4

LEMMA PushedWorker ==
    ASSUME NEW x, x \in ThreadType, Owes(x), x.tmp = 0
    PROVE  Worker(Pushed(x)) /\ Hand(Pushed(x)) = Load(x) - 1
<1> DEFINE y == Pushed(x)
<1>1. /\ x.has \in 0 .. BlockSize /\ x.push \in 1 .. BlockSize /\ x.copy \in BOOLEAN
      /\ x.ret \in {"idle", "host"} /\ x.has < BlockSize
      /\ x.ret = "idle" => x.has = 0 /\ x.copy = FALSE
  BY Sizes DEF ThreadType, Owes
<1>2. CASE x.push = 1
  <2>1. x.ret \in Pcs /\ 0 \in 0 .. BlockSize /\ "idle" \in {"idle", "host"} /\ FALSE \in BOOLEAN
    BY <1>1, Sizes DEF Pcs
  <2>2. y = [x EXCEPT !.push = 0, !.nocpu = FALSE, !.pc = x.ret, !.ret = "idle"]
    BY <1>2 DEF Pushed
  <2>3. y \in ThreadType
    BY <2>1, <2>2 DEF ThreadType
  <2>4. /\ y.pc = x.ret /\ y.has = x.has /\ y.tmp = 0 /\ y.push = 0 /\ y.copy = x.copy
    BY <2>2 DEF ThreadType
  <2> HIDE DEF y
  <2>5. Stage(y)
    BY <1>1, <2>4 DEF Stage, EmptyHanded, Gathers, Pushes
  <2>6. Hand(y) = Load(x) - 1
    BY <1>1, <1>2, <2>4, Sizes DEF Hand, Load
  <2>7. QED
    BY <2>3, <2>5, <2>6 DEF y, Worker
<1>3. CASE x.push # 1
  <2>1. "debt" \in Pcs /\ x.push - 1 \in 0 .. BlockSize
    BY <1>1, <1>3, Sizes DEF Pcs
  <2>2. y = [x EXCEPT !.push = x.push - 1, !.pc = "debt"]
    BY <1>3 DEF Pushed
  <2>3. y \in ThreadType
    BY <2>1, <2>2 DEF ThreadType
  <2>4. /\ y.pc = "debt" /\ y.has = x.has /\ y.tmp = 0 /\ y.push = x.push - 1
        /\ y.copy = x.copy /\ y.ret = x.ret
    BY <2>2 DEF ThreadType
  <2> HIDE DEF y
  <2>5. Stage(y)
    BY <1>1, <1>3, <2>4 DEF Stage, Gathers, Pushes, Owes
  <2>6. Hand(y) = Load(x) - 1
    BY <1>1, <2>4, Sizes DEF Hand, Load
  <2>7. QED
    BY <2>3, <2>5, <2>6 DEF y, Worker
<1>4. QED
  BY <1>2, <1>3

LEMMA FreeToHostKept ==
    ASSUME Kept, NEW t \in Threads, FreeToHost(t)
    PROVE  Kept'
<1>1. Surroundings(t)
  BY Facts
<1>2. PICK x : x = th[t]
  OBVIOUS
<1>3. /\ Worker(x) /\ x \in ThreadType /\ x.pc \in Pushes /\ Owes(x) /\ x.tmp = 0
  BY <1>1, <1>2 DEF Surroundings, FreeToHost, At, Worker, Stage, Pushes
<1>4. PICK y : y = Pushed(x)
  OBVIOUS
<1>5. Worker(y) /\ Hand(y) = Load(x) - 1
  BY <1>3, <1>4, PushedWorker
<1>6. th' = [th EXCEPT ![t] = y]
  BY <1>2, <1>4 DEF FreeToHost
<1>7. th' = [th EXCEPT ![t] = th'[t]] /\ th'[t] = y
  BY <1>1, <1>6 DEF Surroundings
<1>8. Becomes(t)
  BY <1>5, <1>7 DEF Becomes
<1>9. Frame /\ local' = local /\ glob' = glob
  BY <1>1, ConfigKept, ListsKept DEF Frame, FreeToHost, Surroundings
<1>10. BlockSize * resident' = BlockSize * resident + 0
  BY <1>1 DEF Surroundings, FreeToHost
<1>11. Hand(x) = Load(x) /\ Load(x) \in Nat /\ alloc' = alloc - 1
  BY <1>3, Loaded DEF FreeToHost
<1>12. alloc' = alloc + (glob' - glob) + (Hand(th'[t]) - Hand(th[t])) + 0
  BY <1>1, <1>2, <1>5, <1>7, <1>9, <1>11 DEF Surroundings
<1>13. QED
  BY <1>8, <1>9, <1>10, <1>12, KeepLists

(* A list that is too long is cut; its last page stays in tmp.             *)
LEMMA CutWorker ==
    ASSUME NEW x, Worker(x), x.pc \in Pushes, NEW n \in Nat, n >= 1
    PROVE  /\ Worker(Carrying(x, n, "toglobal"))
           /\ Hand(Carrying(x, n, "toglobal")) = Load(x) + n - 1
<1> DEFINE y == Carrying(x, n, "toglobal")
<1>1. "toglobal" \in Pcs /\ x \in ThreadType /\ Owes(x)
  BY DEF Pcs, Worker, Stage
<1>2. y \in ThreadType
  BY <1>1 DEF Carrying, ThreadType
<1>3. /\ y.pc = "toglobal" /\ y.has = x.has /\ y.tmp = n /\ y.push = x.push
      /\ y.ret = x.ret /\ y.copy = x.copy
  BY <1>1 DEF Carrying, ThreadType
<1>4. x.has \in Nat /\ x.push \in Nat /\ x.copy \in BOOLEAN
  BY <1>1, Sizes DEF ThreadType
<1> HIDE DEF y
<1>5. Stage(y)
  BY <1>1, <1>3 DEF Stage, Gathers, Pushes, Owes
<1>6. Hand(y) = Load(x) + n - 1
  BY <1>3, <1>4, Sizes DEF Hand, Load
<1>7. QED
  BY <1>2, <1>5, <1>6 DEF y, Worker

LEMMA Halves == ListMax \div 2 \in Nat /\ ListMax \div 2 <= ListMax
<1>1. PICK m \in Nat : m = ListMax
  BY Sizes
<1>2. m \div 2 \in Nat /\ m \div 2 <= m
  OBVIOUS
<1>3. QED
  BY <1>1, <1>2

LEMMA PutLocalKept ==
    ASSUME Kept, NEW t \in Threads, PutLocal(t)
    PROVE  Kept'
<1>1. Surroundings(t)
  BY Facts
<1>2. PICK x : x = th[t]
  OBVIOUS
<1>3. /\ Worker(x) /\ x \in ThreadType /\ x.pc \in Pushes /\ Owes(x) /\ x.tmp = 0
  BY <1>1, <1>2 DEF Surroundings, PutLocal, At, Worker, Stage, Pushes
<1>4. Hand(x) = Load(x) /\ Load(x) \in Nat
  BY <1>3, Loaded
<1>5. PICK c \in Cpus : c = cpu[t]
  BY <1>1 DEF Surroundings
<1>6. PICK len \in Nat : len = local[c] + 1 /\ len = Mine(t) + 1
  <2>1. local[c] + 1 \in Nat /\ Mine(t) = local[c]
    BY <1>1, <1>5 DEF Surroundings
  <2>2. QED
    BY <2>1
<1>7. PICK h \in Nat : h = ListMax \div 2 /\ h <= ListMax
  BY Halves
<1>8. PICK cut : cut = len - h
  OBVIOUS
<1>9. /\ IF len <= ListMax
         THEN /\ local' = [local EXCEPT ![c] = len]
              /\ th' = [th EXCEPT ![t] = Pushed(@)]
         ELSE /\ local' = [local EXCEPT ![c] = len - cut]
              /\ th' = [th EXCEPT ![t].tmp = cut, ![t].pc = "toglobal"]
      /\ sizes' = sizes /\ glob' = glob /\ alloc' = alloc /\ debt' = debt
      /\ resident' = resident /\ mutex' = mutex
  BY <1>5, <1>6, <1>7, <1>8 DEF PutLocal
<1>10. Frame
  BY <1>1, <1>9, ConfigKept DEF Frame, Surroundings
<1>11. BlockSize * resident' = BlockSize * resident + 0
  BY <1>1, <1>9 DEF Surroundings
<1>12. local[c] \in Nat
  BY <1>1 DEF Surroundings
<1>13. CASE len <= ListMax
  <2>1. PICK y : y = Pushed(x)
    OBVIOUS
  <2>2. Worker(y) /\ Hand(y) = Load(x) - 1
    BY <1>3, <2>1, PushedWorker
  <2>3. th' = [th EXCEPT ![t] = y]
    BY <1>2, <1>9, <1>13, <2>1
  <2>4. th' = [th EXCEPT ![t] = th'[t]] /\ th'[t] = y
    BY <1>1, <2>3 DEF Surroundings
  <2>5. Becomes(t)
    BY <2>2, <2>4 DEF Becomes
  <2>6. Relists(c, len)
    BY <1>9, <1>13 DEF Relists, SetsAt
  <2>7. alloc' = alloc + (len - local[c]) + (glob' - glob) + (Hand(th'[t]) - Hand(th[t])) + 0
    BY <1>1, <1>2, <1>4, <1>6, <1>9, <1>12, <2>2, <2>4 DEF Surroundings
  <2>8. QED
    BY <1>10, <1>11, <2>5, <2>6, <2>7, Keep
<1>14. CASE ~(len <= ListMax)
  <2>1. cut \in Nat /\ cut >= 1 /\ len - cut = h
    BY <1>7, <1>8, <1>14, Sizes
  <2>2. PICK y : y = Carrying(x, cut, "toglobal")
    OBVIOUS
  <2>3. Worker(y) /\ Hand(y) = Load(x) + cut - 1
    BY <1>3, <2>1, <2>2, CutWorker
  <2>4. th' = [th EXCEPT ![t] = y]
    BY <1>1, <1>2, <1>9, <1>14, <2>2 DEF Carrying, Surroundings
  <2>5. th' = [th EXCEPT ![t] = th'[t]] /\ th'[t] = y
    BY <1>1, <2>4 DEF Surroundings
  <2>6. Becomes(t)
    BY <2>3, <2>5 DEF Becomes
  <2>7. Relists(c, h)
    BY <1>9, <1>14, <2>1 DEF Relists, SetsAt
  <2>8. alloc' = alloc + (h - local[c]) + (glob' - glob) + (Hand(th'[t]) - Hand(th[t])) + 0
    BY <1>1, <1>2, <1>4, <1>6, <1>8, <1>9, <1>12, <2>1, <2>3, <2>5 DEF Surroundings
  <2>9. QED
    BY <1>10, <1>11, <2>6, <2>7, <2>8, Keep
<1>15. QED
  BY <1>13, <1>14

LEMMA PutNoCpuKept ==
    ASSUME Kept, NEW t \in Threads, PutNoCpu(t)
    PROVE  Kept'
<1>1. Surroundings(t)
  BY Facts
<1>2. PICK x : x = th[t]
  OBVIOUS
<1>3. /\ Worker(x) /\ x.pc \in Pushes
  BY <1>1, <1>2 DEF Surroundings, PutNoCpu, At, Pushes
<1>4. Hand(x) = Load(x) /\ Load(x) \in Nat
  BY <1>3, Loaded
<1>5. PICK y : y = Carrying(x, 1, "toglobal")
  OBVIOUS
<1>6. Worker(y) /\ Hand(y) = Load(x) + 1 - 1
  BY <1>3, <1>5, CutWorker
<1>7. th' = [th EXCEPT ![t] = y]
  BY <1>1, <1>2, <1>5 DEF Carrying, PutNoCpu, Surroundings
<1>8. th' = [th EXCEPT ![t] = th'[t]] /\ th'[t] = y
  BY <1>1, <1>7 DEF Surroundings
<1>9. Becomes(t)
  BY <1>6, <1>8 DEF Becomes
<1>10. Frame /\ local' = local /\ glob' = glob
  BY <1>1, ConfigKept, ListsKept DEF Frame, PutNoCpu, Surroundings
<1>11. BlockSize * resident' = BlockSize * resident + 0
  BY <1>1 DEF Surroundings, PutNoCpu
<1>12. alloc' = alloc
  BY DEF PutNoCpu
<1>13. alloc' = alloc + (glob' - glob) + (Hand(th'[t]) - Hand(th[t])) + 0
  BY <1>1, <1>2, <1>4, <1>6, <1>8, <1>10, <1>12 DEF Surroundings
<1>14. QED
  BY <1>9, <1>10, <1>11, <1>13, KeepLists

Emptied(x) == [x EXCEPT !.tmp = 0]

(* What was cut goes to the global list or back to the list it came from.  *)
LEMMA HandsOver ==
    ASSUME Kept, NEW t \in Threads, At(t, "toglobal"),
           th' = [th EXCEPT ![t] = Pushed([@ EXCEPT !.tmp = 0])]
    PROVE  /\ Becomes(t) /\ Hand(th'[t]) \in Nat /\ th[t].tmp \in Nat
           /\ Hand(th[t]) = Hand(th'[t]) + th[t].tmp
<1>1. Surroundings(t)
  BY Facts
<1>2. PICK x : x = th[t]
  OBVIOUS
<1>3. Worker(x) /\ x.pc = "toglobal" /\ x \in ThreadType /\ Owes(x) /\ x.tmp \in Nat
  BY <1>1, <1>2 DEF Surroundings, At, Worker, Stage, ThreadType
<1>4. Hand(x) = Load(x) + x.tmp - 1 /\ Load(x) \in Nat
  BY <1>3, Loaded
<1>5. PICK z : z = Emptied(x)
  OBVIOUS
<1>6. z \in ThreadType
  BY <1>3, <1>5 DEF ThreadType, Emptied
<1>7. /\ z.has = x.has /\ z.tmp = 0 /\ z.push = x.push /\ z.ret = x.ret /\ z.copy = x.copy
  BY <1>3, <1>5 DEF ThreadType, Emptied
<1>8. Owes(z) /\ Load(z) = Load(x)
  BY <1>3, <1>7 DEF Owes, Load
<1>9. PICK y : y = Pushed(z)
  OBVIOUS
<1>10. Worker(y) /\ Hand(y) = Load(x) - 1
  BY <1>6, <1>7, <1>8, <1>9, PushedWorker
<1>11. th' = [th EXCEPT ![t] = y]
  BY <1>2, <1>5, <1>9 DEF Emptied
<1>12. th' = [th EXCEPT ![t] = th'[t]] /\ th'[t] = y
  BY <1>1, <1>11 DEF Surroundings
<1>13. Hand(y) \in Nat
  BY <1>10, HandTyped
<1>14. Hand(x) = Hand(y) + x.tmp
  BY <1>3, <1>4, <1>10
<1>15. QED
  BY <1>2, <1>3, <1>10, <1>12, <1>13, <1>14 DEF Becomes

LEMMA ToGlobalKept ==
    ASSUME Kept, NEW t \in Threads, ToGlobal(t)
    PROVE  Kept'
<1>1. Surroundings(t)
  BY Facts
<1>2. /\ Becomes(t) /\ Hand(th'[t]) \in Nat /\ th[t].tmp \in Nat
      /\ Hand(th[t]) = Hand(th'[t]) + th[t].tmp
  BY HandsOver DEF ToGlobal
<1>3. glob' = glob + th[t].tmp /\ alloc' = alloc /\ local' = local
  BY DEF ToGlobal
<1>4. Frame
  BY <1>1, <1>2, <1>3, ConfigKept DEF Frame, ToGlobal, Surroundings
<1>5. BlockSize * resident' = BlockSize * resident + 0
  BY <1>1 DEF Surroundings, ToGlobal
<1>6. alloc' = alloc + (glob' - glob) + (Hand(th'[t]) - Hand(th[t])) + 0
  BY <1>1, <1>2, <1>3 DEF Surroundings
<1>7. QED
  BY <1>2, <1>3, <1>4, <1>5, <1>6, KeepLists

LEMMA BackToLocalKept ==
    ASSUME Kept, NEW t \in Threads, BackToLocal(t)
    PROVE  Kept'
<1>1. Surroundings(t)
  BY Facts
<1>2. /\ Becomes(t) /\ Hand(th'[t]) \in Nat /\ th[t].tmp \in Nat
      /\ Hand(th[t]) = Hand(th'[t]) + th[t].tmp
  BY HandsOver DEF BackToLocal
<1>3. glob' = glob /\ alloc' = alloc
  BY DEF BackToLocal
<1>4. PICK c \in Cpus, n \in Nat : c = cpu[t] /\ n = local[c] + th[t].tmp
  <2>1. cpu[t] \in Cpus /\ local[cpu[t]] + th[t].tmp \in Nat
    BY <1>1, <1>2 DEF Surroundings
  <2>2. QED
    BY <2>1
<1>5. Relists(c, n)
  BY <1>1, <1>4 DEF Relists, SetsAt, BackToLocal, Surroundings
<1>6. Frame
  BY <1>1, <1>3, ConfigKept DEF Frame, BackToLocal, Surroundings
<1>7. BlockSize * resident' = BlockSize * resident + 0
  BY <1>1 DEF Surroundings, BackToLocal
<1>8. local[c] \in Nat
  BY <1>1 DEF Surroundings
<1>9. alloc' = alloc + (n - local[c]) + (glob' - glob) + (Hand(th'[t]) - Hand(th[t])) + 0
  BY <1>1, <1>2, <1>3, <1>4, <1>8 DEF Surroundings
<1>10. QED
  BY <1>2, <1>5, <1>6, <1>7, <1>9, Keep

(***************************************************************************)
(* The resizer leaves every page where it is.                              *)
(***************************************************************************)
LEMMA PagesStay ==
    ASSUME Kept, config' = config, th' = th, local' = local, glob' = glob, alloc' = alloc,
           resident' = resident, mutex' = mutex, debt' \in Int, cache' \in config.caches,
           resize' \in [left : 0 .. Resizes, pending : Nat]
    PROVE  Kept'
<1>1. Cpus' = Cpus
  BY CpusFixed
<1>2. ThreadType' = ThreadType
  BY <1>1 DEF ThreadType
<1>3. TypeOK'
  BY <1>1 DEF Kept, TypeOK
<1>4. \A u \in Threads : Worker(th[u])'
  BY <1>2 DEF Kept, Worker, Stage, EmptyHanded, Owes
<1>5. InAll(local)' = InAll(local)
  BY DEF InAll
<1>6. \A u : InHand(u)' = InHand(u)
  BY DEF InHand
<1>7. InAll([u \in Threads |-> InHand(u)])' = InAll([u \in Threads |-> InHand(u)])
  <2>1. [u \in Threads |-> InHand(u)]' = [u \in Threads |-> InHand(u)]
    BY <1>6
  <2>2. QED
    BY <2>1 DEF InAll
<1>8. PagesConserved'
  BY <1>5, <1>7 DEF Kept, PagesConserved
<1>9. QED
  BY <1>3, <1>4, <1>8 DEF Kept

LEMMA OthersKept ==
    ASSUME Kept, \/ \E new \in config.caches : Resize(new)
                 \/ AddDebt
                 \/ UNCHANGED vars
    PROVE  Kept'
<1>1. /\ cache \in config.caches /\ config.caches \subseteq Nat /\ debt \in Int
      /\ resize \in [left : 0 .. Resizes, pending : Nat] /\ Resizes \in Nat
  BY FreePagesAssumption DEF Kept, TypeOK
<1>2. CASE \E new \in config.caches : Resize(new)
  <2>1. PICK new \in config.caches : Resize(new)
    BY <1>2
  <2>2. PICK p : p = IF new < cache THEN cache - new ELSE 0
    OBVIOUS
  <2>3. p \in Nat
    BY <1>1, <2>2
  <2>4. resize' = [left |-> resize.left - 1, pending |-> p] /\ resize.left > 0
    BY <2>1, <2>2 DEF Resize
  <2>5. resize' \in [left : 0 .. Resizes, pending : Nat]
    BY <1>1, <2>3, <2>4
  <2>6. QED
    BY <1>1, <2>1, <2>5, ListsKept, PagesStay DEF Resize
<1>3. CASE AddDebt
  <2>1. resize' \in [left : 0 .. Resizes, pending : Nat] /\ debt' \in Int
    BY <1>1, <1>3 DEF AddDebt
  <2>2. QED
    BY <1>1, <1>3, <2>1, ListsKept, PagesStay DEF AddDebt
<1>4. CASE UNCHANGED vars
  <2>1. /\ config' = config /\ th' = th /\ local' = local /\ glob' = glob /\ alloc' = alloc
        /\ resident' = resident /\ mutex' = mutex /\ debt' = debt /\ cache' = cache
        /\ resize' = resize
    BY <1>4 DEF vars
  <2>2. QED
    BY <1>1, <2>1, PagesStay
<1>5. QED
  BY <1>2, <1>3, <1>4

LEMMA InitKept == Init => Kept
<1> SUFFICES ASSUME Init PROVE Kept
  OBVIOUS
<1>1. \A t \in Threads : th[t] = Idle
  BY DEF Init
<1>2. \A t \in Threads : Worker(th[t]) /\ Hand(th[t]) = 0
  BY <1>1, IdleWorker
<1>3. th \in [Threads -> ThreadType]
  <2>1. \A t \in Threads : th[t] \in ThreadType
    BY <1>2 DEF Worker
  <2>2. th = [t \in Threads |-> th[t]]
    BY DEF Init
  <2>3. QED
    BY <2>1, <2>2
<1>4. resize \in [left : 0 .. Resizes, pending : Nat]
  BY FreePagesAssumption DEF Init
<1>5. local \in [Cpus -> Nat] /\ mutex \in [Cpus -> Threads \cup {NoThread}]
  BY DEF Init
<1>6. TypeOK
  BY <1>3, <1>4, <1>5 DEF Init, TypeOK, ThreadType, Pcs
<1>7. InAll(local) = 0
  BY NothingThere DEF Init
<1>8. \A t : InHand(t) = Hand(th[t])
  BY DEF InHand, Hand
<1>9. [t \in Threads |-> InHand(t)] = [t \in Threads |-> 0]
  BY <1>2, <1>8
<1>10. InAll([t \in Threads |-> InHand(t)]) = 0
  BY <1>9, NothingThere
<1>11. BlockSize * resident = 0 /\ alloc = 0 /\ glob = 0
  <2>1. \A a \in Nat : a * 0 = 0
    OBVIOUS
  <2>2. QED
    BY <2>1, Sizes DEF Init
<1>12. PagesConserved
  BY <1>7, <1>10, <1>11 DEF PagesConserved
<1>13. QED
  BY <1>2, <1>6, <1>12 DEF Kept

(***************************************************************************)
(* What the threads have in hand fits where they are, and adds up.         *)
(***************************************************************************)
THEOREM AllKept == Spec => []Kept
<1>1. Init => Kept
  BY InitKept
<1>2. Kept /\ [Next]_vars => Kept'
  <2> SUFFICES ASSUME Kept, [Next]_vars PROVE Kept'
    OBVIOUS
  <2>1. ASSUME NEW t \in Threads, AnyStep(t) PROVE Kept'
    <3>1. CASE Outer(t)
      BY <3>1, StartFetchKept, StartCopyKept, FreeBlockKept, GiveUpKept,
         GoesOnKept DEF Outer, GoesOn
    <3>2. CASE Collect(t)
      BY <3>2, GoesOnKept, PopLocalKept, HostAllocKept, PullGlobalKept, PullOtherKept,
         SpliceKept, ReclaimKept, PopulateKept DEF Collect, GoesOn
    <3>3. CASE Push(t)
      BY <3>3, GoesOnKept, FreeToHostKept, PutLocalKept, PutNoCpuKept, ToGlobalKept,
         BackToLocalKept DEF Push, GoesOn
    <3>4. QED
      BY <2>1, <3>1, <3>2, <3>3 DEF AnyStep
  <2>2. CASE \/ \E new \in config.caches : Resize(new)
             \/ AddDebt
             \/ UNCHANGED vars
    BY <2>2, OthersKept
  <2>3. QED
    BY <2>1, <2>2 DEF Next, AnyStep, Outer
<1>3. QED
  BY <1>1, <1>2, PTL DEF Spec

(***************************************************************************)
(* Every counter and every list has its type; no list and no counter is    *)
(* ever below zero.                                                        *)
(***************************************************************************)
THEOREM TypesKept == Spec => []TypeOK
<1>1. Kept => TypeOK
  BY DEF Kept
<1>2. QED
  BY <1>1, AllKept, PTL

(***************************************************************************)
(* alloc_pages_len is what lies on the lists, is in transit, is collected  *)
(* for a block, is resident or is about to be freed: _alloc_pages(),       *)
(* push_free_page_list() and the paths that give up lose no page and count *)
(* none twice, for every number of threads, cpus and resizes.              *)
(***************************************************************************)
THEOREM NoPageLost == Spec => []PagesConserved
<1>1. Kept => PagesConserved
  BY DEF Kept
<1>2. QED
  BY <1>1, AllKept, PTL
=============================================================================
