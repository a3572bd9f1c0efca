------------------------- MODULE BlockListsProofs -------------------------
(***************************************************************************)
(* The lists of the local cache and the counters that reclaim decides by,  *)
(* for any number of threads, blocks and pages and for every               *)
(* configuration.  On top of the inductive invariant of                    *)
(* BlockLifecycleProofs, the list of each block goes with its state and    *)
(* its flags (Listed), each counter is the number of blocks it stands for, *)
(* but for what the threads have still to add and to subtract (Exact), and *)
(* a block that is on no list although it is in the cache is in the hands  *)
(* of some thread (Afloat).  The proof goes step by step over each block:  *)
(* the thread owes an addition just when the step makes a counter stand    *)
(* for the block, and a subtraction just when it no longer does.           *)
(***************************************************************************)
EXTENDS BlockLifecycleProofs

(* GPA_PROACTIVE_MASK is set on the proactive list and the pin list, and   *)
(* otherwise only on the way between them.  What madvise(DONTNEED) does to *)
(* GPA_PINNED_MASK spoils the last part.                                   *)
Listed(r) ==
    /\ r.list \in {"proactive", "pin"} => Has(r, "PROACTIVE")
    /\ Has(r, "PROACTIVE") => r.state = "ACTIVE" /\ r.list # "active"
    /\ "dontneed" \notin Ops => (r.list = "pin" => Has(r, "PINNED"))

(* The blocks a counter stands for; "page" are those with a local page.    *)
Counts(r, c) ==
    \/ c = "proactive" /\ Has(r, "PROACTIVE")
    \/ c = "cur_pin" /\ r.list = "pin"
    \/ c = "active" /\ r.list = "active"
    \/ c = "inactive" /\ (r.list = "inactive" \/ r.state \in {"TRANS_IL", "WB"})
    \/ c = "page" /\ r.page
    \/ c = "num_pin" /\ Has(r, "PINNED")
Lengths == {"proactive", "cur_pin", "active", "inactive"}
              \cup IF "dontneed" \in Ops THEN {} ELSE {"num_pin"}
Classes == Lengths \cup {"page"}

Members(c) == {b \in Blocks : Counts(blk[b], c)}
Amount(c) == IF c = "page" THEN Pages - free ELSE Settled(c)
Exact == \A c \in Classes : Amount(c) = Cardinality(Members(c))

(* In the cache, but on no list.  A failed writeback leaves its victims    *)
(* like this.  A thread has its victims off their lists until it has put   *)
(* them on the next one; then it still holds their locks.                  *)
Adrift(r) ==
    r.list = "none" /\ r.state \notin {"INIT"} \cup IF DonorMayFail THEN {"TRANS_IL"} ELSE {}
Off(s) == s.up \cup IF s.pc \in {"demoted", "eager"} THEN {} ELSE s.vs
Afloat == \A b \in Blocks : Adrift(blk[b]) => \E t \in Threads : b \in Off(th[t])
Aloft == \A t \in Threads : \A b \in th[t].up : blk[b].list = "none"

AllListed == \A b \in Blocks : Listed(blk[b])
Countable == \A c \in Counters, k \in {"add", "sub"} : IsFiniteSet(Of(Due(c), k))
LInv ==
    /\ AllListed
    /\ Exact
    /\ Afloat
    /\ Aloft
    /\ Countable

-----------------------------------------------------------------------------
(* Counting.                                                               *)
LEMMA FiniteBlocks ==
    ASSUME NEW S \in SUBSET Blocks
    PROVE  IsFiniteSet(S) /\ Cardinality(S) \in Nat
  BY LifecycleAssumption, FS_Subset, FS_CardinalityType

LEMMA Disjoint ==
    ASSUME NEW S, NEW T, IsFiniteSet(S), IsFiniteSet(T), S \cap T = {}
    PROVE  /\ IsFiniteSet(S \cup T)
           /\ Cardinality(S) \in Nat /\ Cardinality(T) \in Nat
           /\ Cardinality(S \cup T) = Cardinality(S) + Cardinality(T)
  <1>1. Cardinality(S) \in Nat /\ Cardinality(T) \in Nat
    BY FS_CardinalityType
  <1>2. /\ IsFiniteSet(S \cup T)
        /\ Cardinality(S \cup T) = Cardinality(S) + Cardinality(T) - Cardinality(S \cap T)
    BY FS_Union
  <1>3. Cardinality(S \cap T) = 0
    BY FS_EmptySet
  <1> QED BY <1>1, <1>2, <1>3

(* A class @M loses the blocks of @X, gains those of @Y and becomes @N.    *)
Exchanged(M, X, Y, N) ==
    /\ M \subseteq Blocks /\ X \subseteq M
    /\ Y \subseteq Blocks /\ M \cap Y = {}
    /\ N = (M \ X) \cup Y

LEMMA Exchange ==
    ASSUME NEW M, NEW X, NEW Y, NEW N, Exchanged(M, X, Y, N)
    PROVE  /\ Cardinality(N) = Cardinality(M) - Cardinality(X) + Cardinality(Y)
           /\ Cardinality(M) \in Nat /\ Cardinality(X) \in Nat /\ Cardinality(Y) \in Nat
  <1>1. /\ IsFiniteSet(M \ X) /\ IsFiniteSet(X) /\ IsFiniteSet(Y)
        /\ Cardinality(M) \in Nat
    <2>1. M \ X \in SUBSET Blocks /\ X \in SUBSET Blocks /\ Y \in SUBSET Blocks
          /\ M \in SUBSET Blocks
      BY DEF Exchanged
    <2> QED BY <2>1, FiniteBlocks
  <1>2. /\ Cardinality((M \ X) \cup Y) = Cardinality(M \ X) + Cardinality(Y)
        /\ Cardinality(M \ X) \in Nat /\ Cardinality(Y) \in Nat
    <2>1. (M \ X) \cap Y = {}
      BY DEF Exchanged
    <2> QED BY <1>1, <2>1, Disjoint
  <1>3. Cardinality(M) = Cardinality(M \ X) + Cardinality(X) /\ Cardinality(X) \in Nat
    <2>1. (M \ X) \cap X = {} /\ (M \ X) \cup X = M
      BY DEF Exchanged
    <2> QED BY <1>1, <2>1, Disjoint
  <1>4. N = (M \ X) \cup Y
    BY DEF Exchanged
  <1> QED BY <1>1, <1>2, <1>3, <1>4

(* The bill of a step of @t that changes the blocks of @V.                 *)
Bill(t, V) == {t} \X Counters \X {"add", "sub"} \X V
Accounts(t, S, c, b) ==
    /\ <<t, c, "add", b>> \in S <=> ~Counts(blk[b], c) /\ Counts(blk'[b], c)
    /\ <<t, c, "sub", b>> \in S <=> Counts(blk[b], c) /\ ~Counts(blk'[b], c)

LEMMA DueMember ==
    ASSUME NEW t, NEW c, NEW k, NEW b, NEW d, NEW V
    PROVE  /\ <<t, c, k, b>> \in Adds(t, d, V) <=> c = d /\ k = "add" /\ b \in V
           /\ <<t, c, k, b>> \in Subs(t, d, V) <=> c = d /\ k = "sub" /\ b \in V
           /\ <<t, c, k, b>> \in sub_inactive_list_page_len(t, V)
                <=> c = "inactive" /\ k = "sub" /\ b \in V
           /\ <<t, c, k, b>> \in AddsToList(t, d, V)
                <=> /\ c \in IF d = "pin" THEN {"proactive", "cur_pin"} ELSE {d}
                    /\ k = "add" /\ b \in V
  BY DEF Adds, Subs, sub_inactive_list_page_len, AddsToList

LEMMA BillOf ==
    ASSUME NEW t \in Threads, NEW V \in SUBSET Blocks, NEW W \in SUBSET V
    PROVE  /\ \A c \in Counters : Adds(t, c, W) \subseteq Bill(t, V)
                                  /\ Subs(t, c, W) \subseteq Bill(t, V)
           /\ \A l \in {"proactive", "pin", "active"} : AddsToList(t, l, W) \subseteq Bill(t, V)
           /\ sub_inactive_list_page_len(t, W) \subseteq Bill(t, V)
  <1>1. ASSUME NEW c \in Counters
        PROVE  Adds(t, c, W) \subseteq Bill(t, V) /\ Subs(t, c, W) \subseteq Bill(t, V)
    BY DEF Adds, Subs, Bill
  <1>2. {"proactive", "active", "inactive", "cur_pin"} \subseteq Counters
    BY DEF Counters
  <1> QED BY <1>1, <1>2 DEF AddsToList, sub_inactive_list_page_len

DuesFor(t, c, k, V) == {<<t, c, k, b>> : b \in V}

LEMMA OneDueEach ==
    ASSUME NEW t, NEW c, NEW k, NEW V \in SUBSET Blocks
    PROVE  /\ IsFiniteSet(DuesFor(t, c, k, V))
           /\ Cardinality(DuesFor(t, c, k, V)) = Cardinality(V)
           /\ \A d \in DuesFor(t, c, k, V) : \E b \in V : d = <<t, c, k, b>>
           /\ \A b \in V : <<t, c, k, b>> \in DuesFor(t, c, k, V)
  <1>1. /\ \A d \in DuesFor(t, c, k, V) : \E b \in V : d = <<t, c, k, b>>
        /\ \A b \in V : <<t, c, k, b>> \in DuesFor(t, c, k, V)
    BY DEF DuesFor
  <1> QED BY <1>1, DuesCounted DEF DuesFor

(* The blocks for which the bill @S has something to say of counter @c.    *)
Billed(t, c, k, S) == {b \in Blocks : <<t, c, k, b>> \in S}

(* What becomes of the dues when a thread that owes nothing runs up @S.    *)
LEMMA DuesGrow ==
    ASSUME IInv, Countable, NEW t \in Threads, ~Owes(t), NEW V \in SUBSET Blocks,
           NEW S \in SUBSET Bill(t, V), Owe(S), NEW c \in Counters, NEW k \in {"add", "sub"}
    PROVE  /\ IsFiniteSet(Of(Due(c), k)')
           /\ Cardinality(Of(Due(c), k)')
                = Cardinality(Of(Due(c), k)) + Cardinality(Billed(t, c, k, S))
           /\ Cardinality(Of(Due(c), k)) \in Nat /\ Cardinality(Billed(t, c, k, S)) \in Nat
  <1> DEFINE A == Billed(t, c, k, S)
             D == DuesFor(t, c, k, A)
             O == Of(Due(c), k)
  <1>0. A \in SUBSET Blocks /\ (\A b \in Blocks : b \in A <=> <<t, c, k, b>> \in S)
    BY DEF Billed
  <1> HIDE DEF A
  <1>1. /\ IsFiniteSet(D) /\ Cardinality(D) = Cardinality(A) /\ Cardinality(A) \in Nat
        /\ \A d \in D : \E b \in A : d = <<t, c, k, b>>
        /\ \A b \in A : <<t, c, k, b>> \in D
    BY <1>0, OneDueEach, FiniteBlocks
  <1> HIDE DEF D
  <1>2. IsFiniteSet(O)
    BY DEF Countable
  <1>3. O \cap D = {}
    <2>1. \A d \in O : d[1] # t
      BY DEF Owes, Of, Due
    <2>2. \A d \in D : d[1] = t
      BY <1>1
    <2> QED BY <2>1, <2>2
  <1>4. Of(Due(c), k)' = O \cup D
    <2>1. ASSUME NEW d \in S, d[2] = c, d[3] = k PROVE d \in D
      <3>1. PICK b \in V : d = <<t, c, k, b>>
        BY <2>1 DEF Bill
      <3> QED BY <1>0, <1>1, <3>1
    <2>2. ASSUME NEW d \in D PROVE d \in S /\ d[2] = c /\ d[3] = k
      BY <1>0, <1>1
    <2> QED BY <2>1, <2>2 DEF Of, Due, Owe
  <1> HIDE DEF O
  <1>5. /\ IsFiniteSet(O \cup D) /\ Cardinality(O) \in Nat
        /\ Cardinality(O \cup D) = Cardinality(O) + Cardinality(D)
    BY <1>1, <1>2, <1>3, Disjoint
  <1> QED BY <1>1, <1>4, <1>5 DEF O, A

LEMMA LengthTypes ==
    ASSUME IInv
    PROVE  /\ Lengths \subseteq Counters /\ "page" \notin Lengths
           /\ \A c \in Counters : len[c] \in Int
           /\ free \in Nat /\ Pages \in Nat
  BY LifecycleAssumption DEF IInv, TypeOK, Counters, Lengths

(* A counter stays exact when each block the step changes is accounted for.*)
LEMMA Booked ==
    ASSUME IInv, LInv, NEW t \in Threads, ~Owes(t), NEW V \in SUBSET Blocks,
           \A b \in Blocks \ V : blk'[b] = blk[b],
           NEW S \in SUBSET Bill(t, V), Owe(S), NEW c \in Lengths,
           len'[c] = len[c], \A b \in V : Accounts(t, S, c, b)
    PROVE  Amount(c)' = Cardinality(Members(c)')
  <1> DEFINE M == Members(c)
             X == Billed(t, c, "sub", S)
             Y == Billed(t, c, "add", S)
  <1>1. /\ M \in SUBSET Blocks /\ X \in SUBSET M /\ Y \in SUBSET Blocks /\ M \cap Y = {}
        /\ Members(c)' = (M \ X) \cup Y
    <2>1. \A b \in Blocks \ V, k \in {"add", "sub"} : <<t, c, k, b>> \notin S
      BY DEF Bill
    <2>2. \A b \in Blocks : Accounts(t, S, c, b)
      BY <2>1 DEF Accounts
    <2> QED BY <2>2 DEF Members, Accounts, Billed
  <1>2. c \in Counters /\ c # "page" /\ len[c] \in Int
    BY LengthTypes
  <1>3. Countable /\ Amount(c) = Cardinality(M)
    BY DEF LInv, Exact, Classes
  <1>4. /\ Cardinality(Of(Due(c), "add")') = Cardinality(Of(Due(c), "add")) + Cardinality(Y)
        /\ Cardinality(Of(Due(c), "sub")') = Cardinality(Of(Due(c), "sub")) + Cardinality(X)
        /\ Cardinality(Of(Due(c), "add")) \in Nat /\ Cardinality(Of(Due(c), "sub")) \in Nat
    BY <1>2, <1>3, DuesGrow
  <1> HIDE DEF M, X, Y
  <1> DEFINE N == Members(c)'
  <1> HIDE DEF N
  <1>5. /\ Cardinality(N) = Cardinality(M) - Cardinality(X) + Cardinality(Y)
        /\ Cardinality(M) \in Nat /\ Cardinality(X) \in Nat /\ Cardinality(Y) \in Nat
    <2>1. Exchanged(M, X, Y, N)
      BY <1>1 DEF N, Exchanged
    <2> QED BY <2>1, Exchange
  <1>6. /\ Amount(c) = len[c] + Cardinality(Of(Due(c), "add")) - Cardinality(Of(Due(c), "sub"))
        /\ Amount(c)' = len'[c] + Cardinality(Of(Due(c), "add")')
                                - Cardinality(Of(Due(c), "sub")')
    BY <1>2 DEF Amount, Settled
  <1> QED BY <1>2, <1>3, <1>4, <1>5, <1>6 DEF N

(* So do the pages of the cache.                                           *)
PagesMove(X, Y) ==
    /\ X \in SUBSET Blocks /\ Y \in SUBSET Blocks
    /\ \A b \in X : blk[b].page
    /\ \A b \in Y : ~blk[b].page
    /\ \A b \in Blocks : blk'[b].page <=> (blk[b].page /\ b \notin X) \/ b \in Y
    /\ free' = free + Cardinality(X) - Cardinality(Y)

LEMMA PagesExact ==
    ASSUME IInv, LInv, NEW X, NEW Y, PagesMove(X, Y)
    PROVE  Amount("page")' = Cardinality(Members("page")')
  <1> DEFINE M == Members("page")
  <1>1. /\ M = {b \in Blocks : blk[b].page}
        /\ Members("page")' = {b \in Blocks : blk'[b].page}
    BY DEF Members, Counts
  <1>2. /\ M \in SUBSET Blocks /\ X \in SUBSET M /\ Y \in SUBSET Blocks /\ M \cap Y = {}
        /\ Members("page")' = (M \ X) \cup Y
    BY <1>1 DEF PagesMove
  <1>3. Pages - free = Cardinality(M)
    BY DEF LInv, Exact, Classes, Amount
  <1> HIDE DEF M
  <1> DEFINE N == Members("page")'
  <1> HIDE DEF N
  <1>4. /\ Cardinality(N) = Cardinality(M) - Cardinality(X) + Cardinality(Y)
        /\ Cardinality(M) \in Nat /\ Cardinality(X) \in Nat /\ Cardinality(Y) \in Nat
    <2>1. Exchanged(M, X, Y, N)
      BY <1>2 DEF N, Exchanged
    <2> QED BY <2>1, Exchange
  <1>5. Amount("page")' = Pages - free'
    BY DEF Amount
  <1>6. free' = free + Cardinality(X) - Cardinality(Y)
    BY DEF PagesMove
  <1> QED BY <1>3, <1>4, <1>5, <1>6, LengthTypes DEF N

LEMMA SamePages ==
    ASSUME IInv, UNCHANGED free, \A b \in Blocks : blk'[b].page <=> blk[b].page
    PROVE  PagesMove({}, {})
  BY LengthTypes, FS_EmptySet DEF PagesMove

LEMMA OnePage ==
    ASSUME IInv, NEW b \in Blocks, \A a \in Blocks \ {b} : blk'[a].page = blk[a].page
    PROVE  /\ blk[b].page /\ ~blk'[b].page /\ free' = free + 1 => PagesMove({b}, {})
           /\ ~blk[b].page /\ blk'[b].page /\ free' = free - 1 => PagesMove({}, {b})
  <1>1. Cardinality({}) = 0 /\ Cardinality({b}) = 1
    BY FS_EmptySet, FS_Singleton
  <1>2. ASSUME blk[b].page, ~blk'[b].page, free' = free + 1 PROVE PagesMove({b}, {})
    BY <1>1, <1>2, LengthTypes DEF PagesMove
  <1>3. ASSUME ~blk[b].page, blk'[b].page, free' = free - 1 PROVE PagesMove({}, {b})
    BY <1>1, <1>3, LengthTypes DEF PagesMove
  <1> QED BY <1>2, <1>3

(* Who has a block off its list keeps it in hand while it is adrift.       *)
Rescues(t) ==
    \A b \in Blocks : Adrift(blk'[b]) =>
        \/ b \in Off(th'[t])
        \/ Adrift(blk[b]) /\ b \notin Off(th[t])

LEMMA RescuesAfloat ==
    ASSUME Afloat, NEW t \in Threads, ThreadsOK(t), Rescues(t)
    PROVE  Afloat'
  <1>1. SUFFICES ASSUME NEW b \in Blocks, Adrift(blk'[b])
                 PROVE  \E u \in Threads : b \in Off(th'[u])
    BY DEF Afloat
  <1>2. CASE b \in Off(th'[t])
    BY <1>2
  <1>3. CASE Adrift(blk[b]) /\ b \notin Off(th[t])
    BY <1>3 DEF Afloat, ThreadsOK
  <1> QED BY <1>1, <1>2, <1>3 DEF Rescues

LEMMA StaysAloft ==
    ASSUME IInv, Aloft, NEW t \in Threads, StepOK(t),
           \A b \in th'[t].up : blk'[b].list = "none"
    PROVE  Aloft'
  <1>1. SUFFICES ASSUME NEW u \in Threads, NEW b \in th'[u].up, u # t
                 PROVE  blk'[b].list = "none"
    BY DEF Aloft
  <1>2. th'[u] = th[u]
    BY <1>1 DEF StepOK, ThreadsOK
  <1>3. b \in Blocks /\ blk[b].holder = u
    BY <1>2, InHand
  <1>4. blk'[b] = blk[b]
    BY <1>1, <1>3, LifecycleAssumption DEF StepOK, BlocksOK
  <1> QED BY <1>2, <1>4 DEF Aloft

(* A step of @t that changes the blocks of @V and runs up @S for it.       *)
Books(t, V, S) ==
    /\ V \in SUBSET Blocks /\ S \in SUBSET Bill(t, V)
    /\ Runs(t) /\ Owe(S)
    /\ \A b \in Blocks \ V : blk'[b] = blk[b]
    /\ \A c \in Lengths : len'[c] = len[c]
    /\ \A b \in V : Listed(blk'[b]) /\ \A c \in Lengths : Accounts(t, S, c, b)
    /\ Rescues(t)
    /\ \A b \in th'[t].up : blk'[b].list = "none"
    /\ \E X, Y : PagesMove(X, Y)

LEMMA BooksClosed ==
    ASSUME IInv, LInv, NEW t \in Threads, StepOK(t), Runs(t), NEW V \in SUBSET Blocks,
           NEW S \in SUBSET Bill(t, V), Owe(S), \A b \in Blocks \ V : blk'[b] = blk[b],
           \A b \in V : Listed(blk'[b]), Rescues(t),
           \A b \in th'[t].up : blk'[b].list = "none",
           \A c \in Lengths : Amount(c)' = Cardinality(Members(c)'),
           NEW X, NEW Y, PagesMove(X, Y)
    PROVE  LInv'
  <1>1. AllListed'
    BY DEF LInv, AllListed
  <1>2. Exact'
    <2>1. Amount("page")' = Cardinality(Members("page")')
      BY PagesExact
    <2> QED BY <2>1 DEF Exact, Classes
  <1>3. Afloat' /\ Aloft'
    BY RescuesAfloat, StaysAloft DEF LInv, StepOK
  <1>4. Countable'
    <2> SUFFICES ASSUME NEW c \in Counters, NEW k \in {"add", "sub"}
                 PROVE  IsFiniteSet(Of(Due(c), k)')
      BY DEF Countable
    <2> QED BY DuesGrow DEF LInv, Runs
  <1> QED BY <1>1, <1>2, <1>3, <1>4 DEF LInv

LEMMA BooksKept ==
    ASSUME IInv, LInv, NEW t \in Threads, StepOK(t), NEW V, NEW S, Books(t, V, S)
    PROVE  LInv'
  <1>1. \A c \in Lengths : Amount(c)' = Cardinality(Members(c)')
    BY Booked DEF Books, Runs
  <1> QED BY <1>1, BooksClosed DEF Books

-----------------------------------------------------------------------------
(* Nothing the lists speak of has changed.                                 *)
Alike(r, s) ==
    /\ s.list = r.list /\ s.state = r.state /\ s.page = r.page
    /\ Has(s, "PROACTIVE") <=> Has(r, "PROACTIVE")
    /\ Has(s, "PINNED") <=> Has(r, "PINNED")

LEMMA AlikeFacts ==
    ASSUME NEW r, NEW s, Alike(r, s)
    PROVE  /\ \A c : Counts(s, c) <=> Counts(r, c)
           /\ Listed(s) <=> Listed(r)
           /\ Adrift(s) <=> Adrift(r)
  BY DEF Alike, Counts, Listed, Adrift

(* A step that leaves the lists and the counters alone.                    *)
Quiet ==
    /\ \A b \in Blocks : Alike(blk[b], blk'[b])
    /\ UNCHANGED <<owed, free>>
    /\ \A c \in Lengths : len'[c] = len[c]

LEMMA QuietKept ==
    ASSUME IInv, LInv, Quiet
    PROVE  AllListed' /\ Exact' /\ Countable'
  <1>1. AllListed'
    BY AlikeFacts DEF LInv, AllListed, Quiet
  <1>2. \A c : Members(c)' = Members(c)
    BY AlikeFacts DEF Quiet, Members
  <1>3. \A c \in Classes : Amount(c)' = Amount(c)
    <2>1. \A c, k : Of(Due(c), k)' = Of(Due(c), k)
      BY DEF Quiet, Of, Due
    <2> QED BY <2>1 DEF Quiet, Amount, Settled, Classes
  <1>4. Exact'
    BY <1>2, <1>3 DEF LInv, Exact
  <1>5. Countable'
    BY DEF LInv, Countable, Quiet, Of, Due
  <1> QED BY <1>1, <1>4, <1>5

LEMMA QuietStep ==
    ASSUME IInv, LInv, NEW t \in Threads, StepOK(t), Quiet,
           \A b \in Off(th[t]) : Adrift(blk[b]) => b \in Off(th'[t]),
           th'[t].up \subseteq th[t].up
    PROVE  LInv'
  <1>1. Rescues(t)
    BY AlikeFacts DEF Rescues, Quiet
  <1>2. Afloat'
    BY <1>1, RescuesAfloat DEF LInv, StepOK
  <1>3. \A b \in th'[t].up : blk'[b].list = "none"
    BY InHand DEF LInv, Aloft, Quiet, Alike
  <1>4. Aloft'
    BY <1>3, StaysAloft DEF LInv
  <1> QED BY <1>2, <1>4, QuietKept DEF LInv

-----------------------------------------------------------------------------
(* Record lemmas: what the operators do to the list of a block and to the  *)
(* flags that go with it.                                                  *)
USE DEF Alike, Sane, Literal, Block, Flags, KeepFlags, States, Lists, Requests, Has,
        Set, Clear, Lock, Unlock, Take, Lift, Relist, Ready, Misread, map

LEMMA DrainedAlike ==
    ASSUME NEW r, NEW s, Sane(r), Drained(r, s)
    PROVE  Alike(r, s)
  BY DEF Drained

LEMMA AlikeTransitive ==
    ASSUME NEW r, NEW s, NEW u, Alike(r, s), Alike(s, u)
    PROVE  Alike(r, u)
  OBVIOUS

LEMMA LockAlike ==
    ASSUME NEW r, Sane(r), NEW t
    PROVE  Alike(r, Lock(r, t)) /\ Alike(r, Unlock(r)) /\ Alike(r, map(r))
           /\ Alike(r, Unlock(map(r)))
  OBVIOUS

LEMMA FlagsAlike ==
    ASSUME NEW r, Sane(r), NEW F, F \cap {"PROACTIVE", "PINNED"} = {}
    PROVE  Alike(r, Set(r, F)) /\ Alike(r, Clear(r, F))
  OBVIOUS

LEMMA ClearAlike ==
    ASSUME NEW r, Sane(r)
    PROVE  /\ Alike(r, clear_block_w(r)) /\ Alike(r, Unlock(map(clear_block_w(r))))
           /\ Sane(clear_block_w(r))
  <1> DEFINE s == clear_block_w(r)
  <1>1. Drained(r, s)
    BY ClearDrains
  <1>2. Alike(r, s) /\ Sane(s)
    BY <1>1, DrainedAlike, DrainedSane DEF Becomes
  <1> HIDE DEF s
  <1>3. Alike(s, Unlock(map(s)))
    BY <1>2, LockAlike
  <1> QED BY <1>2, <1>3, AlikeTransitive DEF s

LEMMA MapAlike ==
    ASSUME NEW r, Sane(r), NEW F, F \cap {"PROACTIVE", "PINNED"} = {}
    PROVE  Alike(r, Unlock(map(Set(wait_read_async(r), F))))
  <1> DEFINE s == wait_read_async(r)
  <1>1. Drained(r, s)
    BY WaitDrains
  <1>2. Alike(r, s) /\ Sane(s)
    BY <1>1, DrainedAlike, DrainedSane DEF Becomes
  <1> HIDE DEF s
  <1>3. Alike(s, Unlock(map(Set(s, F))))
    BY <1>2
  <1> QED BY <1>2, <1>3, AlikeTransitive DEF s

LEMMA ClearInFlightAlike ==
    ASSUME NEW r, Sane(r)
    PROVE  Alike(r, Unlock(ClearInFlight(r)))
  <1>1. CASE r.w # "fetch"
    BY <1>1 DEF ClearInFlight
  <1>2. CASE r.w = "fetch"
    BY <1>2 DEF ClearInFlight, free_remote_page
  <1> QED BY <1>1, <1>2

(* A block is put on an active list: @r is where it was, @s where it is.   *)
Activated(r, s, target) ==
    /\ s.state = "ACTIVE" /\ s.list = ActiveTarget(r, target) /\ s.page = r.page
    /\ Has(s, "PINNED") <=> Has(r, "PINNED")
    /\ Has(s, "PROACTIVE") <=> s.list # "active" \/ Has(r, "PROACTIVE")

LEMMA AddActivates ==
    ASSUME NEW r \in Block, NEW target \in {"proactive", "active"}
    PROVE  /\ Activated(r, add_gpas_to_active_list(r, target), target)
           /\ Activated(r, Unlock(add_gpas_to_active_list(r, target)), target)
  <1> DEFINE l == ActiveTarget(r, target)
             s == add_gpas_to_active_list(r, target)
  <1>1. l \in {"proactive", "active", "pin"}
    BY DEF ActiveTarget
  <1>2. s = [r EXCEPT !.state = "ACTIVE", !.list = l,
                      !.flags = IF l = "active" THEN @ ELSE @ \cup {"PROACTIVE"}]
    BY DEF add_gpas_to_active_list
  <1> HIDE DEF l, s
  <1>3. /\ s.state = "ACTIVE" /\ s.list = l /\ s.page = r.page
        /\ s.flags = IF l = "active" THEN r.flags ELSE r.flags \cup {"PROACTIVE"}
        /\ Unlock(s).state = s.state /\ Unlock(s).list = s.list /\ Unlock(s).page = s.page
        /\ Unlock(s).flags = s.flags
    BY <1>2
  <1>4. Has(s, "PINNED") <=> Has(r, "PINNED")
    BY <1>3
  <1>5. Has(s, "PROACTIVE") <=> s.list # "active" \/ Has(r, "PROACTIVE")
    BY <1>3
  <1> QED BY <1>3, <1>4, <1>5 DEF Activated, l, s

(* Flags and contents play no part in where a block is put.                *)
LEMMA AlikeActivated ==
    ASSUME NEW r, NEW c, NEW s, NEW target, Alike(r, c), Activated(c, s, target)
    PROVE  Activated(r, s, target) /\ ActiveTarget(c, target) = ActiveTarget(r, target)
  BY DEF Activated, ActiveTarget

LEMMA WrittenAlike ==
    ASSUME NEW r, Sane(r), r.state = "WB"
    PROVE  LET c == free_remote_page(clear_writeback_block(r))
           IN  /\ c.flags = r.flags /\ c.page = r.page /\ Sane(c)
  BY DEF free_remote_page, clear_writeback_block

LEMMA FetchedAlike ==
    ASSUME NEW r, Sane(r), r.state = "INIT", NEW op
    PROVE  LET f == FetchedBlock(r, op)
           IN  /\ f.page /\ (Has(f, "PINNED") <=> Has(r, "PINNED"))
               /\ (Has(f, "PROACTIVE") <=> Has(r, "PROACTIVE"))
               /\ f \in Block
  <1> DEFINE g == [Set(r, {"TOUCHED"}) EXCEPT !.page = TRUE,
                      !.w = IF Has(r, "TOUCHED") THEN "fetch" ELSE "none",
                      !.done = ~Has(r, "TOUCHED")]
             f == FetchedBlock(r, op)
  <1>1. g \in Block /\ g.page /\ g.flags = r.flags \cup {"TOUCHED"}
    OBVIOUS
  <1>2. f \in {g, Set(g, {"PREFETCHED", "HPT"}), Set(g, {"PREFETCHED", "PROMOTE"})}
    BY DEF FetchedBlock
  <1> HIDE DEF f, g
  <1>3. f.page /\ f \in Block
    BY <1>1, <1>2
  <1>4. /\ Has(f, "PINNED") <=> Has(r, "PINNED")
        /\ Has(f, "PROACTIVE") <=> Has(r, "PROACTIVE")
    BY <1>1, <1>2
  <1> QED BY <1>3, <1>4 DEF f

HIDE DEF Alike, Sane, Literal, Block, Flags, KeepFlags, States, Lists, Requests, Has,
        Set, Clear, Lock, Unlock, Take, Lift, Relist, Ready, Misread, map

-----------------------------------------------------------------------------
(* Steps that neither move a block nor change what a counter stands for.   *)
LEMMA AlikeSelf ==
    ASSUME NEW r
    PROVE  Alike(r, r)
  BY DEF Alike

(* A thread that has no blocks off their lists takes none.                 *)
Idle(t) == Off(th[t]) = {} /\ th'[t].up = {}

LEMMA SameBlocksQuiet ==
    ASSUME IInv, LInv, NEW t \in Threads, StepOK(t), UNCHANGED <<blk, len, owed, free>>,
           Off(th[t]) \subseteq Off(th'[t]), th'[t].up \subseteq th[t].up
    PROVE  LInv'
  <1>1. Quiet
    BY AlikeSelf DEF Quiet
  <1> QED BY <1>1, QuietStep

(* One block changes, but nothing that the lists speak of.                 *)
LEMMA OneQuiet ==
    ASSUME IInv, LInv, NEW t \in Threads, StepOK(t), UNCHANGED <<len, owed, free>>,
           Idle(t), NEW b \in Blocks, NEW s, Alike(blk[b], s),
           blk' = [blk EXCEPT ![b] = s]
    PROVE  LInv'
  <1>1. \A a \in Blocks : Alike(blk[a], blk'[a])
    <2>1. \A a \in Blocks : blk'[a] = IF a = b THEN s ELSE blk[a]
      BY DEF IInv, TypeOK
    <2> QED BY <2>1, AlikeSelf
  <1>2. Quiet
    BY <1>1 DEF Quiet
  <1> QED BY <1>2, QuietStep DEF Idle

(* Most steps of a thread start and end with nothing in hand but cur.      *)
LEMMA AtIdle ==
    ASSUME IInv, NEW t \in Threads, NEW p, At(t, p),
           p \notin {"demote", "demoted", "unmap", "eager", "evict", "release", "reap"}
    PROVE  Off(th[t]) = {} /\ th[t].up = {} /\ th[t].vs = {}
  BY InHand DEF At, Off

LEMMA GotoIdle ==
    ASSUME IInv, NEW t \in Threads, NEW p, Goto(t, p), th[t].up = {}
    PROVE  th'[t].up = {} /\ th'[t].vs = th[t].vs /\ th'[t].pc = p
  BY DEF Goto, IInv, TypeOK, Thread

LEMMA LeaveIdle ==
    ASSUME IInv, NEW t \in Threads, Leave(t)
    PROVE  th'[t].up = {} /\ th'[t].vs = {}
  BY LeaveType DEF IdleThread

LEMMA EnterIdle ==
    ASSUME IInv, NEW t \in Threads, NEW p, NEW o, NEW b, Enter(t, p, o, b)
    PROVE  th'[t].up = {} /\ th'[t].vs = {}
  BY DEF Enter, IInv, TypeOK

LEMMA CallIdle ==
    ASSUME IInv, NEW t \in Threads, NEW p, NEW r, Call(t, p, r), th[t].up = {}
    PROVE  th'[t].up = {} /\ th'[t].vs = th[t].vs
  BY DEF Call, IInv, TypeOK, Thread

LEMMA PanicLists ==
    ASSUME IInv, LInv, NEW t \in Threads, StepOK(t), NEW why, Panic(why)
    PROVE  LInv'
  BY SameBlocksQuiet DEF Panic

LEMMA SkipLists ==
    ASSUME IInv, LInv, NEW t \in Threads, StepOK(t),
           \/ SkipProactive(t) \/ SkipUnpin(t) \/ SkipActive(t) \/ SkipInactive(t)
           \/ AllocReclaim(t)
           \/ \E b \in Blocks : FaultRemote(t, b) \/ FaultInvalid(t, b)
    PROVE  LInv'
  <1>1. CASE \E b \in Blocks : FaultInvalid(t, b)
    BY <1>1, PanicLists DEF FaultInvalid
  <1>2. CASE ~\E b \in Blocks : FaultInvalid(t, b)
    <2>1. PICK p \in {"proactive", "unpin", "active", "inactive", "alloc", "local"} : At(t, p)
      BY <1>2 DEF SkipProactive, SkipUnpin, SkipActive, SkipInactive, AllocReclaim, FaultRemote
    <2>2. Off(th[t]) = {} /\ th[t].up = {}
      BY <2>1, AtIdle
    <2>3. \/ \E q : Goto(t, q)
          \/ Return(t)
          \/ \E q, r : Call(t, q, r)
      BY <1>2 DEF SkipProactive, SkipUnpin, SkipActive, SkipInactive, AllocReclaim, FaultRemote
    <2>4. th'[t].up = {}
      BY <2>2, <2>3, GotoIdle, CallIdle, ReturnType DEF Stands
    <2>5. UNCHANGED <<blk, len, owed, free>>
      BY <1>2 DEF SkipProactive, SkipUnpin, SkipActive, SkipInactive, AllocReclaim, FaultRemote
    <2> QED BY <2>2, <2>4, <2>5, SameBlocksQuiet
  <1> QED BY <1>1, <1>2

LEMMA FaultLockLists ==
    ASSUME IInv, LInv, NEW t \in Threads, StepOK(t), NEW b \in Blocks, NEW op,
           FaultLock(t, b, op)
    PROVE  LInv'
  <1>1. Idle(t)
    BY AtIdle, EnterIdle DEF FaultLock, Idle
  <1>2. Alike(blk[b], Lock(blk[b], t))
    BY BlocksSane, LockAlike
  <1>3. blk' = [blk EXCEPT ![b] = Lock(blk[b], t)] /\ UNCHANGED <<len, owed, free>>
    BY DEF FaultLock
  <1> QED BY <1>1, <1>2, <1>3, OneQuiet

LEMMA FaultActiveLists ==
    ASSUME IInv, LInv, NEW t \in Threads, StepOK(t), NEW b \in Blocks, FaultActive(t, b)
    PROVE  LInv'
  <1> DEFINE r == blk[b]
             c == clear_block_w(r)
  <1>1. Off(th[t]) = {} /\ th[t].up = {} /\ Sane(r)
    BY AtIdle, BlocksSane DEF FaultActive
  <1>2. \/ Panic("misread")
        \/ /\ UNCHANGED <<len, owed, free>>
           /\ Leave(t) \/ Goto(t, "map")
           /\ \E s \in {Unlock(map(c)), Unlock(map(r)), c, r} : blk' = [blk EXCEPT ![b] = s]
    BY DEF FaultActive
  <1>3. \A s \in {Unlock(map(c)), Unlock(map(r)), c, r} : Alike(r, s)
    BY <1>1, ClearAlike, LockAlike, AlikeSelf
  <1> HIDE DEF c
  <1>4. Leave(t) \/ Goto(t, "map") => Idle(t)
    BY <1>1, LeaveIdle, GotoIdle DEF Idle
  <1> QED BY <1>1, <1>2, <1>3, <1>4, PanicLists, OneQuiet

LEMMA MapBlockLists ==
    ASSUME IInv, LInv, NEW t \in Threads, StepOK(t), NEW b \in Blocks, MapBlock(t, b)
    PROVE  LInv'
  <1> DEFINE F == {"HPT"} \cup IF th[t].op = "write" THEN {"DIRTY"} ELSE {}
             s == Unlock(map(Set(wait_read_async(blk[b]), F)))
  <1>1. Off(th[t]) = {} /\ Sane(blk[b])
    BY AtIdle, BlocksSane DEF MapBlock
  <1>2. \/ Panic("misread")
        \/ blk' = [blk EXCEPT ![b] = s] /\ UNCHANGED <<len, owed, free>> /\ Leave(t)
    BY DEF MapBlock
  <1>3. Alike(blk[b], s)
    BY <1>1, MapAlike
  <1> HIDE DEF s
  <1>4. Leave(t) => Idle(t)
    BY <1>1, LeaveIdle DEF Idle
  <1> QED BY <1>1, <1>2, <1>3, <1>4, PanicLists, OneQuiet

LEMMA UnlockLists ==
    ASSUME IInv, LInv, NEW t \in Threads, StepOK(t), Finish(t) \/ Fail(t)
    PROVE  LInv'
  <1>1. Off(th[t]) = {} /\ th'[t].up = {}
    BY AtIdle, LeaveIdle DEF Finish, Fail
  <1>2. ASSUME NEW b \in Blocks PROVE Alike(blk[b], blk'[b])
    <2>1. blk'[b] \in {blk[b], Unlock(blk[b]), Unlock(ClearInFlight(blk[b]))}
      BY DEF Finish, Fail
    <2>2. Sane(blk[b])
      BY BlocksSane
    <2> QED BY <2>1, <2>2, AlikeSelf, LockAlike, ClearInFlightAlike
  <1>3. Quiet
    BY <1>2 DEF Quiet, Finish, Fail
  <1> QED BY <1>1, <1>3, QuietStep

LEMMA PrefetchLists ==
    ASSUME IInv, LInv, NEW t \in Threads, StepOK(t), NEW b \in Blocks, Prefetch(t, b)
    PROVE  LInv'
  <1>1. Off(th[t]) = {} /\ th[t].up = {} /\ Sane(blk[b])
    BY AtIdle, BlocksSane DEF Prefetch
  <1>2. /\ UNCHANGED <<len, owed, free>>
        /\ Enter(t, "alloc", "prefetch", b) \/ UNCHANGED th
        /\ \E s \in {Lock(blk[b], t), Set(blk[b], {"PROMOTE"})} : blk' = [blk EXCEPT ![b] = s]
    BY DEF Prefetch
  <1>3. \A s \in {Lock(blk[b], t), Set(blk[b], {"PROMOTE"})} : Alike(blk[b], s)
    BY <1>1, LockAlike, FlagsAlike
  <1>4. Idle(t)
    BY <1>1, <1>2, EnterIdle DEF Idle
  <1> QED BY <1>1, <1>2, <1>3, <1>4, OneQuiet

LEMMA PopulateLists ==
    ASSUME IInv, LInv, NEW t \in Threads, StepOK(t), NEW b \in Blocks, Populate(t, b)
    PROVE  LInv'
  <1> DEFINE r == blk[b]
             resumed == Has(r, "PREFETCHED") /\ Has(r, "HPT")
             c == IF resumed THEN map(wait_read_async(r)) ELSE r
             s == Set(Clear(c, {"PREFETCHED"}), {"PROMOTE"})
             l == Lock(Clear(r, {"PREFETCHED"}), t)
  <1>1. Off(th[t]) = {} /\ th[t].up = {} /\ Sane(r)
    BY AtIdle, BlocksSane DEF Populate
  <1>2. \/ Panic("misread")
        \/ /\ UNCHANGED <<len, owed, free>>
           /\ Enter(t, "alloc", "populate", b) \/ UNCHANGED th
           /\ \E u \in {l, s} : blk' = [blk EXCEPT ![b] = u]
    BY DEF Populate
  <1>3. Alike(r, s)
    <2>1. Drained(r, wait_read_async(r))
      BY <1>1, WaitDrains
    <2>2. Alike(r, wait_read_async(r)) /\ Sane(wait_read_async(r))
      BY <1>1, <2>1, DrainedAlike, DrainedSane DEF Becomes
    <2>3. Alike(r, c) /\ c \in Block
      <3>1. CASE resumed
        <4>1. wait_read_async(r) \in Block
          BY <2>2 DEF Sane
        <4>2. map(wait_read_async(r)) \in Block
          BY <4>1 DEF map, Block
        <4>3. Alike(wait_read_async(r), map(wait_read_async(r)))
          BY <2>2, LockAlike
        <4> QED BY <2>2, <3>1, <4>2, <4>3, AlikeTransitive
      <3>2. CASE ~resumed
        BY <1>1, <3>2, AlikeSelf DEF Sane
      <3> QED BY <3>1, <3>2
    <2> HIDE DEF c
    <2>4. Alike(c, s)
      BY <2>3 DEF Alike, Set, Clear, Has, Block
    <2> QED BY <2>3, <2>4, AlikeTransitive
  <1>4. Alike(r, l)
    BY <1>1 DEF Alike, Sane, Lock, Clear, Has, Block
  <1> HIDE DEF s, l
  <1>5. Enter(t, "alloc", "populate", b) \/ UNCHANGED th => Idle(t)
    BY <1>1, EnterIdle DEF Idle
  <1> QED BY <1>1, <1>2, <1>3, <1>4, <1>5, PanicLists, OneQuiet

(* The memory and the device know nothing of lists.                        *)
LEMMA MemoryLists ==
    ASSUME IInv, LInv, NEW b \in Blocks, Write(b) \/ CompleteIO(b)
    PROVE  LInv'
  <1>1. \A a \in Blocks : Alike(blk[a], blk'[a])
    BY DEF Write, CompleteIO, IInv, TypeOK, Alike, Block, Has
  <1>2. UNCHANGED <<th, len, owed, free>>
    BY DEF Write, CompleteIO
  <1>3. AllListed' /\ Exact' /\ Countable'
    <2>1. Quiet
      BY <1>1, <1>2 DEF Quiet
    <2> QED BY <2>1, QuietKept
  <1>4. Afloat'
    BY <1>1, <1>2, AlikeFacts DEF LInv, Afloat
  <1>5. Aloft'
    BY <1>1, <1>2, InHand DEF LInv, Aloft, Alike
  <1> QED BY <1>3, <1>4, <1>5 DEF LInv

-----------------------------------------------------------------------------
(* A thread pays what it owes to one counter.                              *)
LEMMA AdjustLengthLists ==
    ASSUME IInv, LInv, NEW t \in Threads, NEW c \in Counters, AdjustLength(t, c)
    PROVE  LInv'
  <1> DEFINE mine == {d \in owed : d[1] = t /\ d[2] = c}
  <1>1. /\ UNCHANGED <<blk, th, free>>
        /\ owed' = owed \ mine
        /\ len' = [len EXCEPT ![c] = @ + Cardinality(Of(mine, "add"))
                                       - Cardinality(Of(mine, "sub"))]
    BY DEF AdjustLength
  <1>2. \A d \in mine : d \in owed /\ d[2] = c
    OBVIOUS
  <1> HIDE DEF mine
  <1>3. ASSUME NEW k \in {"add", "sub"}
        PROVE  /\ IsFiniteSet(Of(Due(c), k)')
               /\ Cardinality(Of(mine, k)) \in Nat /\ Cardinality(Of(Due(c), k)') \in Nat
               /\ Cardinality(Of(Due(c), k)) = Cardinality(Of(Due(c), k)') + Cardinality(Of(mine, k))
    <2> DEFINE O == Of(Due(c), k)
               M == Of(mine, k)
               R == Of(Due(c), k)'
    <2>1. O = R \cup M /\ R \cap M = {}
      BY <1>1, <1>2 DEF Of, Due
    <2>2. IsFiniteSet(O)
      BY DEF LInv, Countable
    <2> HIDE DEF O, M, R
    <2>3. IsFiniteSet(R) /\ IsFiniteSet(M)
      BY <2>1, <2>2, FS_Subset
    <2>4. /\ Cardinality(R) \in Nat /\ Cardinality(M) \in Nat
          /\ Cardinality(R \cup M) = Cardinality(R) + Cardinality(M)
      BY <2>1, <2>3, Disjoint
    <2> QED BY <2>1, <2>3, <2>4 DEF O, M, R
  <1>4. \A e \in Counters \ {c}, k \in {"add", "sub"} : Of(Due(e), k)' = Of(Due(e), k)
    BY <1>1, <1>2 DEF Of, Due
  <1>5. Countable'
    BY <1>3, <1>4 DEF LInv, Countable
  <1>6. ASSUME NEW e \in Lengths PROVE Settled(e)' = Settled(e)
    <2>1. CASE e = c
      <3>1. len[c] \in Int /\ c \in DOMAIN len
        BY LengthTypes DEF IInv, TypeOK
      <3>2. len'[c] = len[c] + Cardinality(Of(mine, "add")) - Cardinality(Of(mine, "sub"))
        BY <1>1, <3>1
      <3> QED BY <1>3, <2>1, <3>1, <3>2 DEF Settled
    <2>2. CASE e # c
      <3>1. e \in Counters /\ len'[e] = len[e]
        BY <1>1, <2>2, LengthTypes DEF IInv, TypeOK
      <3> QED BY <1>4, <2>2, <3>1 DEF Settled
    <2> QED BY <2>1, <2>2
  <1>7. Exact'
    <2>1. \A e : Members(e)' = Members(e)
      BY <1>1 DEF Members
    <2>2. \A e \in Classes : Amount(e)' = Amount(e)
      BY <1>1, <1>6 DEF Amount, Classes
    <2> QED BY <2>1, <2>2 DEF LInv, Exact
  <1> QED BY <1>1, <1>5, <1>7 DEF LInv, AllListed, Afloat, Aloft

-----------------------------------------------------------------------------
(* A block nobody has taken off its list is on one.                        *)
LEMMA OnSomeList ==
    ASSUME IInv, LInv, NEW b \in Blocks,
           \/ blk[b].holder = NoThread
           \/ \E t \in Threads : b \in th[t].cur
    PROVE  ~Adrift(blk[b]) /\ Sane(blk[b]) /\ Listed(blk[b])
  <1>1. Sane(blk[b]) /\ Listed(blk[b])
    BY BlocksSane DEF LInv, AllListed
  <1>2. SUFFICES ASSUME NEW u \in Threads, b \in Off(th[u])
                 PROVE  FALSE
    BY <1>1 DEF LInv, Afloat
  <1>3. blk[b].holder = u
    BY <1>2, InHand DEF Off
  <1>4. PICK t \in Threads : b \in th[t].cur
    BY <1>3, LifecycleAssumption
  <1>5. blk[b].holder = t
    BY <1>4, InHand
  <1> QED BY <1>2, <1>3, <1>4, <1>5 DEF Off, IInv, ThreadOK

(* What the list of a block says of its state and its flags.               *)
LEMMA ListFacts ==
    ASSUME NEW r, Sane(r), Listed(r)
    PROVE  /\ r.list \in Lists /\ r.state \in States
           /\ r.list \in {"proactive", "pin"} => r.state = "ACTIVE" /\ Has(r, "PROACTIVE")
           /\ r.list = "active" => r.state = "ACTIVE" /\ ~Has(r, "PROACTIVE")
           /\ r.list = "inactive" => r.state = "INACTIVE" /\ ~Has(r, "PROACTIVE")
           /\ r.list = "writeback" => r.state = "WB" /\ ~Has(r, "PROACTIVE")
           /\ r.state # "ACTIVE" => ~Has(r, "PROACTIVE")
           /\ "dontneed" \notin Ops /\ r.list = "pin" => Has(r, "PINNED")
           /\ r.page <=> r.state # "INIT"
  BY DEF Sane, Literal, Listed, Block

(* A step of @t that changes block @b alone.                               *)
LEMMA OneBook ==
    ASSUME IInv, LInv, NEW t \in Threads, StepOK(t), Runs(t), NEW b \in Blocks,
           \A a \in Blocks \ {b} : blk'[a] = blk[a],
           NEW S \in SUBSET Bill(t, {b}), Owe(S),
           \A c \in Lengths : len'[c] = len[c] /\ Accounts(t, S, c, b),
           Listed(blk'[b]), Adrift(blk'[b]) => b \in Off(th'[t]),
           Off(th[t]) \ {b} \subseteq Off(th'[t]), th'[t].up = {},
           NEW X, NEW Y, PagesMove(X, Y)
    PROVE  LInv'
  <1>1. Books(t, {b}, S)
    BY DEF Books, Rescues
  <1> QED BY <1>1, BooksKept

(* A block joins an active list.                                           *)
Targets == {"proactive", "pin", "active"}
CountersOf(target) == IF target = "pin" THEN {"proactive", "cur_pin"} ELSE {target}
Joins(r, s, target) ==
    /\ target \in Targets /\ s.list = target /\ s.state = "ACTIVE"
    /\ r.list \notin Targets /\ ~Has(r, "PROACTIVE")
    /\ Has(s, "PINNED") <=> Has(r, "PINNED")
    /\ Has(s, "PROACTIVE") <=> target # "active"
    /\ target = "pin" => Has(s, "PINNED")

LEMMA JoinsBooked ==
    ASSUME NEW t, NEW b, NEW S, NEW target, Joins(blk[b], blk'[b], target),
           \A c \in Lengths, k \in {"add", "sub"} :
              <<t, c, k, b>> \in S <=>
                 \/ k = "add" /\ c \in CountersOf(target)
                 \/ k = "sub" /\ c = "inactive" /\ Counts(blk[b], "inactive")
    PROVE  /\ Listed(blk'[b]) /\ ~Adrift(blk'[b])
           /\ \A c \in Lengths : Accounts(t, S, c, b)
  <1>1. Listed(blk'[b]) /\ ~Adrift(blk'[b])
    BY DEF Joins, Listed, Adrift, Targets
  <1>2. ASSUME NEW c \in Lengths PROVE Accounts(t, S, c, b)
    <2>1. c \in {"proactive", "cur_pin", "active", "inactive", "num_pin"}
      BY DEF Lengths
    <2>2. /\ <<t, c, "add", b>> \in S <=> c \in CountersOf(target)
          /\ <<t, c, "sub", b>> \in S <=> c = "inactive" /\ Counts(blk[b], "inactive")
      OBVIOUS
    <2> QED BY <2>1, <2>2 DEF Accounts, Joins, Counts, CountersOf, Targets
  <1> QED BY <1>1, <1>2

LEMMA TargetType ==
    ASSUME NEW r, NEW target \in {"proactive", "active"}
    PROVE  /\ ActiveTarget(r, target) \in Targets
           /\ ActiveTarget(r, target) = "pin" => Has(r, "PINNED")
  BY DEF ActiveTarget, Targets

(* @c is the block after its request was waited for, or with its new page. *)
LEMMA ActivatedJoins ==
    ASSUME NEW r, NEW c, NEW s, NEW target \in {"proactive", "active"},
           Has(c, "PINNED") <=> Has(r, "PINNED"), ~Has(c, "PROACTIVE"), ~Has(r, "PROACTIVE"),
           r.list \notin Targets, Activated(c, s, target)
    PROVE  Joins(r, s, ActiveTarget(c, target))
  BY TargetType DEF Joins, Activated

LEMMA JoinBill ==
    ASSUME NEW t \in Threads, NEW V \in SUBSET Blocks, NEW W \in SUBSET V,
           NEW target \in Targets
    PROVE  /\ AddsToList(t, target, W) \subseteq Bill(t, V)
           /\ \A c, k, b : <<t, c, k, b>> \in AddsToList(t, target, W)
                             <=> k = "add" /\ c \in CountersOf(target) /\ b \in W
  BY BillOf, DueMember DEF Targets, CountersOf

LEMMA SubBill ==
    ASSUME NEW t \in Threads, NEW V \in SUBSET Blocks, NEW W \in SUBSET V
    PROVE  /\ sub_inactive_list_page_len(t, W) \subseteq Bill(t, V)
           /\ \A c, k, b : <<t, c, k, b>> \in sub_inactive_list_page_len(t, W)
                             <=> k = "sub" /\ c = "inactive" /\ b \in W
  BY BillOf, DueMember

(* A fault brings block @b back from the inactive list or from writeback.  *)
LEMMA BackStep ==
    ASSUME IInv, LInv, NEW t \in Threads, StepOK(t), At(t, "local"), NEW b \in th[t].cur,
           blk[b].state \in {"INACTIVE", "WB"}, NEW c, NEW s,
           Has(c, "PINNED") <=> Has(blk[b], "PINNED"), ~Has(c, "PROACTIVE"),
           c.page, Activated(c, s, "proactive"), blk' = [blk EXCEPT ![b] = s],
           Owe(sub_inactive_list_page_len(t, {b})
                  \cup AddsToList(t, ActiveTarget(c, "proactive"), {b})),
           \A d \in Lengths : len'[d] = len[d], UNCHANGED free, th'[t].up = {}
    PROVE  LInv'
  <1> DEFINE l == ActiveTarget(c, "proactive")
             S == sub_inactive_list_page_len(t, {b}) \cup AddsToList(t, l, {b})
  <1>1. /\ b \in Blocks /\ Off(th[t]) = {}
        /\ ~Adrift(blk[b]) /\ Sane(blk[b]) /\ Listed(blk[b])
    BY InHand, AtIdle, OnSomeList
  <1>2. /\ blk[b].list \notin Targets /\ ~Has(blk[b], "PROACTIVE")
        /\ Counts(blk[b], "inactive") /\ blk[b].page
    BY <1>1, ListFacts DEF Counts, Adrift, Targets, Lists
  <1>3. /\ blk'[b] = s /\ s.page
        /\ \A a \in Blocks \ {b} : blk'[a] = blk[a]
    BY <1>1 DEF IInv, TypeOK, Activated
  <1>4. l \in Targets /\ Joins(blk[b], blk'[b], l)
    BY <1>2, <1>3, ActivatedJoins, TargetType
  <1> HIDE DEF l
  <1>5. /\ S \in SUBSET Bill(t, {b})
        /\ \A d, k : <<t, d, k, b>> \in S <=> \/ k = "add" /\ d \in CountersOf(l)
                                              \/ k = "sub" /\ d = "inactive"
    BY <1>1, <1>4, JoinBill, SubBill
  <1>6. Owe(S)
    BY DEF l
  <1> HIDE DEF S
  <1>7. Listed(blk'[b]) /\ ~Adrift(blk'[b]) /\ \A d \in Lengths : Accounts(t, S, d, b)
    BY <1>2, <1>4, <1>5, JoinsBooked
  <1>8. PagesMove({}, {})
    BY <1>1, <1>2, <1>3, SamePages
  <1>9. Runs(t)
    BY DEF At
  <1> QED BY <1>1, <1>3, <1>5, <1>6, <1>7, <1>8, <1>9, OneBook

LEMMA FaultInactiveLists ==
    ASSUME IInv, LInv, NEW t \in Threads, StepOK(t), NEW b \in Blocks, FaultInactive(t, b)
    PROVE  LInv'
  <1> DEFINE c == clear_block_w(blk[b])
             s == add_gpas_to_active_list(c, "proactive")
  <1>1. Sane(blk[b]) /\ Listed(blk[b]) /\ blk[b].state = "INACTIVE" /\ b \in th[t].cur
        /\ At(t, "local")
    BY BlocksSane DEF FaultInactive, LInv, AllListed
  <1>2. Alike(blk[b], c) /\ c \in Block
    BY <1>1, ClearAlike DEF Sane
  <1>3. /\ blk' = [blk EXCEPT ![b] = s]
        /\ Owe(sub_inactive_list_page_len(t, {b})
                  \cup AddsToList(t, ActiveTarget(c, "proactive"), {b}))
        /\ UNCHANGED <<len, free>> /\ Goto(t, "map")
    BY DEF FaultInactive
  <1> HIDE DEF c
  <1>4. Activated(c, s, "proactive")
    BY <1>2, AddActivates
  <1>5. (Has(c, "PINNED") <=> Has(blk[b], "PINNED")) /\ ~Has(c, "PROACTIVE") /\ c.page
    BY <1>1, <1>2, ListFacts DEF Alike
  <1> HIDE DEF s
  <1>6. th'[t].up = {}
    BY <1>3, GotoIdle DEF FaultInactive, At
  <1> QED BY <1>1, <1>3, <1>4, <1>5, <1>6, BackStep

LEMMA FaultWritebackLists ==
    ASSUME IInv, LInv, NEW t \in Threads, StepOK(t), NEW b \in Blocks, FaultWriteback(t, b)
    PROVE  LInv'
  <1> DEFINE c == free_remote_page(clear_writeback_block(blk[b]))
             s == add_gpas_to_active_list(c, "proactive")
  <1>1. Sane(blk[b]) /\ Listed(blk[b]) /\ blk[b].state = "WB" /\ b \in th[t].cur
        /\ At(t, "local")
    BY BlocksSane DEF FaultWriteback, LInv, AllListed
  <1>2. c.flags = blk[b].flags /\ c.page = blk[b].page /\ c \in Block
    BY <1>1, WrittenAlike DEF Sane
  <1>3. /\ blk' = [blk EXCEPT ![b] = s]
        /\ Owe(sub_inactive_list_page_len(t, {b})
                  \cup AddsToList(t, ActiveTarget(c, "proactive"), {b}))
        /\ len' = [len EXCEPT !["inflight"] = @ - 1]
        /\ UNCHANGED free /\ Call(t, "proactive", "map")
    BY DEF FaultWriteback
  <1> HIDE DEF c
  <1>4. Activated(c, s, "proactive")
    BY <1>2, AddActivates
  <1>5. (Has(c, "PINNED") <=> Has(blk[b], "PINNED")) /\ ~Has(c, "PROACTIVE") /\ c.page
    BY <1>1, <1>2, ListFacts DEF Has
  <1> HIDE DEF s
  <1>6. th'[t].up = {}
    BY <1>3, CallIdle DEF FaultWriteback, At
  <1>7. \A d \in Lengths : len'[d] = len[d]
    BY <1>3 DEF Lengths, IInv, TypeOK, Counters
  <1> QED BY <1>1, <1>3, <1>4, <1>5, <1>6, <1>7, BackStep

LEMMA FetchLists ==
    ASSUME IInv, LInv, NEW t \in Threads, StepOK(t), NEW b \in Blocks, Fetch(t, b)
    PROVE  LInv'
  <1>1. PICK target \in {"proactive", "active"} :
           LET f == FetchedBlock(blk[b], th[t].op)
           IN  /\ blk' = [blk EXCEPT ![b] = add_gpas_to_active_list(f, target)]
               /\ Owe(AddsToList(t, ActiveTarget(f, target), {b}))
    BY DEF Fetch
  <1> DEFINE f == FetchedBlock(blk[b], th[t].op)
             s == add_gpas_to_active_list(f, target)
             l == ActiveTarget(f, target)
             S == AddsToList(t, l, {b})
  <1>2. Sane(blk[b]) /\ Listed(blk[b]) /\ blk[b].state = "INIT" /\ Off(th[t]) = {}
        /\ At(t, "alloc") /\ th'[t].up = {}
    <2>1. b \in th[t].cur /\ th[t].pc = "alloc" /\ At(t, "alloc")
      BY DEF Fetch, At
    <2>2. blk[b].state = "INIT"
      BY <2>1 DEF IInv, ThreadOK, Serving, Pipeline
    <2>3. th'[t].up = {}
      BY <2>1, CallIdle DEF Fetch, At
    <2> QED BY <2>1, <2>2, <2>3, BlocksSane, AtIdle DEF LInv, AllListed
  <1>3. /\ blk[b].list \notin Targets /\ ~Has(blk[b], "PROACTIVE") /\ ~blk[b].page
        /\ ~Counts(blk[b], "inactive")
    BY <1>2, ListFacts DEF Targets, Counts
  <1>4. /\ f \in Block /\ f.page /\ (Has(f, "PINNED") <=> Has(blk[b], "PINNED"))
        /\ ~Has(f, "PROACTIVE")
    BY <1>2, <1>3, FetchedAlike
  <1>5. blk' = [blk EXCEPT ![b] = s] /\ Owe(S)
    BY <1>1
  <1> HIDE DEF f
  <1>6. Activated(f, s, target) /\ s.page
    BY <1>4, AddActivates DEF Activated
  <1> HIDE DEF s
  <1>7. blk'[b] = s /\ \A a \in Blocks \ {b} : blk'[a] = blk[a]
    BY <1>5 DEF IInv, TypeOK
  <1>8. l \in Targets /\ Joins(blk[b], blk'[b], l)
    BY <1>3, <1>4, <1>6, <1>7, ActivatedJoins, TargetType
  <1> HIDE DEF l
  <1>9. /\ S \in SUBSET Bill(t, {b})
        /\ \A d, k : <<t, d, k, b>> \in S <=> k = "add" /\ d \in CountersOf(l)
    BY <1>8, JoinBill
  <1> HIDE DEF S
  <1>10. Listed(blk'[b]) /\ ~Adrift(blk'[b]) /\ \A d \in Lengths : Accounts(t, S, d, b)
    BY <1>3, <1>8, <1>9, JoinsBooked
  <1>11. PagesMove({}, {b})
    BY <1>3, <1>6, <1>7, OnePage DEF Fetch
  <1>12. Runs(t) /\ UNCHANGED len
    BY DEF Fetch, At
  <1> QED BY <1>2, <1>5, <1>7, <1>9, <1>10, <1>11, <1>12, OneBook

-----------------------------------------------------------------------------
(* Steps that take one block off a list or out of the cache: it leaves no  *)
(* active list and joins none.                                             *)
Aside(b) ==
    /\ blk[b].list \notin Targets /\ blk'[b].list \notin Targets
    /\ Has(blk'[b], "PINNED") <=> Has(blk[b], "PINNED")
    /\ ~Has(blk[b], "PROACTIVE") /\ ~Has(blk'[b], "PROACTIVE")

LEMMA AsideBooked ==
    ASSUME NEW t, NEW b, NEW S, Aside(b),
           \A c \in Lengths, k \in {"add", "sub"} :
              <<t, c, k, b>> \in S <=>
                 /\ k = "sub" /\ c = "inactive"
                 /\ ~Counts(blk'[b], "inactive"),
           Counts(blk[b], "inactive")
    PROVE  Listed(blk'[b]) /\ \A c \in Lengths : Accounts(t, S, c, b)
  <1>1. Listed(blk'[b])
    BY DEF Aside, Listed, Targets
  <1>2. ASSUME NEW c \in Lengths PROVE Accounts(t, S, c, b)
    <2>1. c \in {"proactive", "cur_pin", "active", "inactive", "num_pin"}
      BY DEF Lengths
    <2>2. CASE c = "inactive"
      BY <2>2 DEF Accounts
    <2>3. CASE c # "inactive"
      BY <2>1, <2>3 DEF Accounts, Aside, Counts, Targets
    <2> QED BY <2>2, <2>3
  <1> QED BY <1>1, <1>2

LEMMA NoBill ==
    ASSUME NEW t, NEW V
    PROVE  {} \in SUBSET Bill(t, V) /\ (UNCHANGED owed => Owe({}))
  BY DEF Owe

LEMMA InflightOnly ==
    ASSUME IInv, \E n : len' = [len EXCEPT !["inflight"] = n]
    PROVE  \A c \in Lengths : len'[c] = len[c]
  BY DEF Lengths, IInv, TypeOK, Counters

LEMMA ReleasedRecord ==
    ASSUME NEW r \in Block
    PROVE  LET s == set_gpa_remote(r)
           IN  /\ s.state = "INIT" /\ s.list = "none" /\ ~s.page
               /\ Has(s, "PINNED") <=> Has(r, "PINNED")
               /\ ~Has(s, "PROACTIVE")
  <1> DEFINE s == set_gpa_remote(r)
  <1>1. /\ s.state = "INIT" /\ s.list = "none" /\ s.page = FALSE
        /\ s.flags = r.flags \cap KeepFlags
    BY DEF set_gpa_remote, Block
  <1> HIDE DEF s
  <1> QED BY <1>1 DEF s, Has, KeepFlags

LEMMA RelistRecord ==
    ASSUME NEW r \in Block, NEW l
    PROVE  LET s == Relist(r, l)
           IN  /\ s.state = r.state /\ s.list = l /\ s.page = r.page
               /\ Has(s, "PINNED") <=> Has(r, "PINNED")
               /\ Has(s, "PROACTIVE") <=> Has(r, "PROACTIVE")
  BY DEF Relist, Has, Block

LEMMA TakenRecord ==
    ASSUME NEW r \in Block, NEW t, NEW state
    PROVE  LET s == Take(r, t, state)
               u == Clear(s, {"PROACTIVE"})
           IN  /\ s.state = state /\ s.list = "none" /\ s.page = r.page
               /\ Has(s, "PINNED") <=> Has(r, "PINNED")
               /\ Has(s, "PROACTIVE") <=> Has(r, "PROACTIVE")
               /\ u.state = state /\ u.list = "none" /\ u.page = r.page
               /\ Has(u, "PINNED") <=> Has(r, "PINNED")
               /\ ~Has(u, "PROACTIVE")
  <1> DEFINE s == Take(r, t, state)
             u == Clear(s, {"PROACTIVE"})
  <1>1. /\ s.state = state /\ s.list = "none" /\ s.page = r.page /\ s.flags = r.flags
        /\ u.state = state /\ u.list = "none" /\ u.page = r.page
        /\ u.flags = r.flags \ {"PROACTIVE"}
    BY DEF Clear, Take, Block
  <1> HIDE DEF s, u
  <1> QED BY <1>1 DEF s, u, Has

LEMMA ReapLists ==
    ASSUME IInv, LInv, NEW t \in Threads, StepOK(t), NEW b \in Blocks,
           ReapAhead(t, b) \/ ReapForPage(t, b)
    PROVE  LInv'
  <1> DEFINE r == blk[b]
  <1>1. Runs(t) /\ th[t].up = {} /\ th[t].pc \in {"idle", "alloc"} /\ Reap(t, b)
    BY DEF ReapAhead, ReapForPage, At
  <1>2. /\ Off(th[t]) = {} /\ Sane(r) /\ r.list = "writeback" /\ Listed(r)
    BY <1>1, InHand, BlocksSane DEF Reap, Unlocked, LInv, AllListed, Off
  <1>3. blk'[b] = Take(r, t, "WB") /\ \A a \in Blocks \ {b} : blk'[a] = blk[a]
    BY <1>1 DEF Reap, IInv, TypeOK
  <1>4. r.state = "WB" /\ ~Has(r, "PROACTIVE")
    BY <1>2, ListFacts
  <1>5. /\ blk'[b].state = "WB" /\ blk'[b].list = "none" /\ blk'[b].page = r.page
        /\ Has(blk'[b], "PINNED") <=> Has(r, "PINNED")
        /\ Has(blk'[b], "PROACTIVE") <=> Has(r, "PROACTIVE")
    BY <1>2, <1>3 DEF Sane, Take, Block, Has
  <1>6. th'[t].vs = {b} /\ th'[t].up = {} /\ th'[t].pc = "reap"
    BY <1>1 DEF Reap, IInv, TypeOK, Thread
  <1>7. /\ \A c \in Lengths : len'[c] = len[c]
        /\ UNCHANGED <<owed, free>>
    <2>1. \E n : len' = [len EXCEPT !["inflight"] = n]
      BY <1>1 DEF Reap, DriftedInflight
    <2>2. \A c \in Lengths : len'[c] = len[c]
      BY <2>1, InflightOnly
    <2> QED BY <1>1, <2>2 DEF Reap
  <1>8. Listed(blk'[b]) /\ \A c \in Lengths : Accounts(t, {}, c, b)
    <2>1. Aside(b)
      BY <1>2, <1>4, <1>5 DEF Aside, Targets
    <2>2. Counts(r, "inactive") /\ Counts(blk'[b], "inactive")
      BY <1>4, <1>5 DEF Counts
    <2> QED BY <2>1, <2>2, AsideBooked
  <1>9. PagesMove({}, {})
    BY <1>3, <1>5, <1>7, SamePages
  <1> QED BY <1>1, <1>2, <1>3, <1>6, <1>7, <1>8, <1>9, NoBill, OneBook DEF Off

(* One victim of the inactive list is done with.                           *)
LEMMA EvictedOff ==
    ASSUME IInv, NEW t \in Threads, NEW b, Evicted(t, b), th[t].up = {}
    PROVE  th'[t].up = {} /\ Off(th[t]) \ {b} \subseteq Off(th'[t])
  <1>1. CASE th[t].vs = {b}
    <2>1. Return(t)
      BY <1>1 DEF Evicted
    <2> QED BY <1>1, <2>1, ReturnType DEF Stands, Off
  <1>2. CASE th[t].vs # {b}
    <2>1. GotoWith(t, "evict", th[t].vs \ {b}) /\ th[t].vs \ {b} \in SUBSET Blocks
          /\ "evict" \in PCs
      BY <1>2, InHand DEF Evicted, PCs
    <2> QED BY <2>1, GotoWithType DEF Stands, Off
  <1> QED BY <1>1, <1>2

LEMMA Victim ==
    ASSUME IInv, LInv, NEW t \in Threads, At(t, "evict"), NEW b \in th[t].vs
    PROVE  /\ b \in Blocks /\ Sane(blk[b]) /\ Listed(blk[b])
           /\ blk[b].state = "TRANS_IL" /\ blk[b].list \notin Targets /\ blk[b].page
           /\ ~Has(blk[b], "PROACTIVE") /\ Counts(blk[b], "inactive")
  <1>1. /\ b \in Blocks /\ Sane(blk[b]) /\ Listed(blk[b]) /\ blk[b].state = "TRANS_IL"
    BY InHand DEF At, IInv, ThreadOK, VictimOf, LInv, AllListed
  <1> QED BY <1>1, ListFacts DEF Targets, Counts

LEMMA EvictCleanLists ==
    ASSUME IInv, LInv, NEW t \in Threads, StepOK(t), NEW b \in Blocks, EvictClean(t, b)
    PROVE  LInv'
  <1> DEFINE r == blk[b]
             e == check_eager_wbr(r)
             s == set_gpa_remote(e)
             S == sub_inactive_list_page_len(t, {b})
  <1>1. /\ At(t, "evict") /\ b \in th[t].vs
        /\ Sane(r) /\ r.list \notin Targets /\ r.page
        /\ ~Has(r, "PROACTIVE") /\ Counts(r, "inactive")
    BY Victim DEF EvictClean
  <1>2. /\ blk' = [blk EXCEPT ![b] = s] /\ Goto(t, "release")
        /\ free' = free + 1 /\ Owe(S) /\ UNCHANGED len
    BY DEF EvictClean
  <1>3. Alike(r, e) /\ Sane(e)
    BY <1>1, NeedCheckSane, DrainedAlike
  <1> HIDE DEF e
  <1>4. /\ s.state = "INIT" /\ s.list = "none" /\ ~s.page
        /\ Has(s, "PINNED") <=> Has(e, "PINNED")
        /\ ~Has(s, "PROACTIVE")
    BY <1>3, ReleasedRecord DEF Sane
  <1> HIDE DEF s
  <1>5. blk'[b] = s /\ \A a \in Blocks \ {b} : blk'[a] = blk[a]
    BY <1>2 DEF IInv, TypeOK
  <1>6. S \in SUBSET Bill(t, {b})
        /\ \A c, k : <<t, c, k, b>> \in S <=> k = "sub" /\ c = "inactive"
    BY SubBill
  <1> HIDE DEF S
  <1>7. Listed(blk'[b]) /\ ~Adrift(blk'[b]) /\ \A c \in Lengths : Accounts(t, S, c, b)
    <2>1. Aside(b)
      BY <1>1, <1>3, <1>4, <1>5 DEF Aside, Alike, Targets
    <2>2. ~Counts(blk'[b], "inactive") /\ ~Adrift(blk'[b])
      BY <1>4, <1>5 DEF Counts, Adrift
    <2> QED BY <1>1, <1>6, <2>1, <2>2, AsideBooked
  <1>8. PagesMove({b}, {})
    BY <1>1, <1>2, <1>4, <1>5, OnePage
  <1>9. Runs(t) /\ th[t].up = {} /\ th'[t].up = {} /\ Off(th[t]) \subseteq Off(th'[t])
    BY <1>1, <1>2, GotoIdle DEF At, Off
  <1> QED BY <1>2, <1>5, <1>6, <1>7, <1>8, <1>9, OneBook

LEMMA EvictPostLists ==
    ASSUME IInv, LInv, NEW t \in Threads, StepOK(t), NEW b \in Blocks, EvictPost(t, b)
    PROVE  LInv'
  <1> DEFINE r == blk[b]
             e == AfterNeedCheck(check_eager_wbr(r))
             c == clear_block_w(e)
             s == Unlock(writeback_evict(e))
  <1>1. /\ At(t, "evict") /\ b \in th[t].vs
        /\ Sane(r) /\ r.list \notin Targets /\ r.page
        /\ ~Has(r, "PROACTIVE") /\ Counts(r, "inactive")
    BY Victim DEF EvictPost
  <1>2. /\ blk' = [blk EXCEPT ![b] = s] /\ Evicted(t, b)
        /\ UNCHANGED <<owed, free>> /\ len' = [len EXCEPT !["inflight"] = @ + 1]
    BY DEF EvictPost
  <1>3. Alike(r, e) /\ Sane(e)
    BY <1>1, NeedCheckSane, DrainedAlike
  <1> HIDE DEF e
  <1>4. Alike(r, c) /\ Sane(c)
    <2>1. Alike(e, c) /\ Sane(c)
      BY <1>3, ClearAlike
    <2> HIDE DEF c
    <2> QED BY <1>3, <2>1, AlikeTransitive
  <1> HIDE DEF c
  <1>5. s = Unlock([post_writeback(c, "writeback") EXCEPT !.state = "WB", !.list = "writeback"])
    BY DEF writeback_evict, c
  <1>6. /\ s.state = "WB" /\ s.list = "writeback" /\ s.page = c.page /\ s.flags = c.flags
    BY <1>4, <1>5 DEF post_writeback, Unlock, Sane, Block
  <1> HIDE DEF s
  <1>7. blk'[b] = s /\ \A a \in Blocks \ {b} : blk'[a] = blk[a]
    BY <1>2 DEF IInv, TypeOK
  <1>8. /\ Has(s, "PINNED") <=> Has(r, "PINNED")
        /\ Has(s, "PROACTIVE") <=> Has(r, "PROACTIVE")
        /\ s.page = r.page
    BY <1>4, <1>6 DEF Alike, Has
  <1>9. Listed(blk'[b]) /\ ~Adrift(blk'[b]) /\ \A k \in Lengths : Accounts(t, {}, k, b)
    <2>1. Aside(b)
      BY <1>1, <1>6, <1>7, <1>8 DEF Aside, Targets
    <2>2. Counts(blk'[b], "inactive") /\ ~Adrift(blk'[b])
      BY <1>6, <1>7 DEF Counts, Adrift
    <2> QED BY <1>1, <2>1, <2>2, AsideBooked
  <1>10. \A k \in Lengths : len'[k] = len[k]
    <2>1. \E n : len' = [len EXCEPT !["inflight"] = n]
      BY <1>2
    <2> QED BY <2>1, InflightOnly
  <1>11. PagesMove({}, {})
    BY <1>2, <1>7, <1>8, SamePages
  <1>12. Runs(t) /\ th'[t].up = {} /\ Off(th[t]) \ {b} \subseteq Off(th'[t])
    BY <1>1, <1>2, EvictedOff DEF At
  <1> QED BY <1>2, <1>7, <1>9, <1>10, <1>11, <1>12, NoBill, OneBook

-----------------------------------------------------------------------------
(* Hints that move one block, or only count it.                            *)
LEMMA UnlockedOnList ==
    ASSUME IInv, LInv, NEW t \in Threads, Runs(t), th[t].pc = "idle", th[t].up = {},
           NEW b \in Blocks, blk[b].holder = NoThread
    PROVE  /\ Off(th[t]) = {}
           /\ ~Adrift(blk[b]) /\ Sane(blk[b]) /\ Listed(blk[b]) /\ blk[b] \in Block
  BY AtIdle, OnSomeList DEF At, Sane

LEMMA AddsBill ==
    ASSUME NEW t \in Threads, NEW V \in SUBSET Blocks, NEW W \in SUBSET V, NEW d \in Counters
    PROVE  /\ Adds(t, d, W) \in SUBSET Bill(t, V)
           /\ \A c, k, b : <<t, c, k, b>> \in Adds(t, d, W) <=> c = d /\ k = "add" /\ b \in W
  BY DEF Adds, Bill

LEMMA SubsBill ==
    ASSUME NEW t \in Threads, NEW V \in SUBSET Blocks, NEW W \in SUBSET V, NEW d \in Counters
    PROVE  /\ Subs(t, d, W) \in SUBSET Bill(t, V)
           /\ \A c, k, b : <<t, c, k, b>> \in Subs(t, d, W) <=> c = d /\ k = "sub" /\ b \in W
  BY DEF Subs, Bill

LEMMA PinRecord ==
    ASSUME NEW r \in Block, NEW F \in SUBSET {"PROMOTE"}
    PROVE  LET s == Set(r, {"PINNED"} \cup F)
           IN  /\ s.state = r.state /\ s.list = r.list /\ s.page = r.page
               /\ Has(s, "PINNED") /\ (Has(s, "PROACTIVE") <=> Has(r, "PROACTIVE"))
  BY DEF Set, Has, Block

LEMMA PinLists ==
    ASSUME IInv, LInv, NEW t \in Threads, StepOK(t), NEW b \in Blocks, Pin(t, b)
    PROVE  LInv'
  <1> DEFINE r == blk[b]
             F == IF r.state = "WB" THEN {"PROMOTE"} ELSE {}
             s == Set(r, {"PINNED"} \cup F)
             S == Adds(t, "num_pin", NewlyPinned(b))
  <1>1. Runs(t) /\ th[t].pc = "idle" /\ th[t].up = {} /\ r.holder = NoThread
    BY DEF Pin, At
  <1>2. /\ Off(th[t]) = {}
        /\ ~Adrift(r) /\ Sane(r) /\ Listed(r) /\ r \in Block
    BY <1>1, UnlockedOnList
  <1>3. /\ blk' = [blk EXCEPT ![b] = s] /\ Owe(S) /\ UNCHANGED <<th, len, free>>
    BY DEF Pin
  <1>4. /\ s.state = r.state /\ s.list = r.list /\ s.page = r.page
        /\ Has(s, "PINNED") /\ (Has(s, "PROACTIVE") <=> Has(r, "PROACTIVE"))
    BY <1>2, PinRecord
  <1> HIDE DEF s
  <1>5. blk'[b] = s /\ \A a \in Blocks \ {b} : blk'[a] = blk[a]
    BY <1>3 DEF IInv, TypeOK
  <1>6. /\ S \in SUBSET Bill(t, {b})
        /\ \A c, k : <<t, c, k, b>> \in S
                        <=> c = "num_pin" /\ k = "add" /\ ~Has(r, "PINNED")
    <2>1. NewlyPinned(b) \in SUBSET {b} /\ (b \in NewlyPinned(b) <=> ~Has(r, "PINNED"))
      BY DEF NewlyPinned
    <2>2. "num_pin" \in Counters
      BY DEF Counters
    <2> DEFINE W == NewlyPinned(b)
    <2> HIDE DEF W
    <2>3. W \in SUBSET {b} /\ (b \in W <=> ~Has(r, "PINNED"))
      BY <2>1 DEF W
    <2>4. {b} \in SUBSET Blocks
      OBVIOUS
    <2>5. /\ Adds(t, "num_pin", W) \in SUBSET Bill(t, {b})
          /\ \A c, k : <<t, c, k, b>> \in Adds(t, "num_pin", W)
                         <=> c = "num_pin" /\ k = "add" /\ b \in W
      BY <2>2, <2>3, <2>4, AddsBill
    <2> QED BY <2>3, <2>5 DEF W
  <1> HIDE DEF S
  <1>7. Listed(blk'[b]) /\ ~Adrift(blk'[b])
    BY <1>2, <1>4, <1>5 DEF Listed, Adrift
  <1>8. ASSUME NEW c \in Lengths PROVE Accounts(t, S, c, b)
    <2>1. c \in {"proactive", "cur_pin", "active", "inactive", "num_pin"}
      BY DEF Lengths
    <2> QED BY <1>4, <1>5, <1>6, <2>1 DEF Accounts, Counts
  <1>9. PagesMove({}, {})
    BY <1>3, <1>4, <1>5, SamePages
  <1> QED BY <1>1, <1>2, <1>3, <1>5, <1>6, <1>7, <1>8, <1>9, OneBook

LEMMA UnpinRecord ==
    ASSUME NEW r \in Block, NEW l
    PROVE  LET c == Clear(r, {"PINNED"})
               s == IF l THEN Relist(c, "proactive") ELSE c
           IN  /\ c.list = r.list /\ (Has(c, "PROACTIVE") <=> Has(r, "PROACTIVE"))
               /\ s.state = r.state /\ s.page = r.page
               /\ s.list = IF l THEN "proactive" ELSE r.list
               /\ ~Has(s, "PINNED") /\ (Has(s, "PROACTIVE") <=> Has(r, "PROACTIVE"))
  BY DEF Clear, Relist, Has, Block

LEMMA UnpinLists ==
    ASSUME IInv, LInv, NEW t \in Threads, StepOK(t), NEW b \in Blocks, Unpin(t, b)
    PROVE  LInv'
  <1> DEFINE r == blk[b]
             c == Clear(r, {"PINNED"})
             listed == Has(c, "PROACTIVE") /\ c.list = "pin"
             s == IF listed THEN Relist(c, "proactive") ELSE c
             P == IF listed THEN {b} ELSE {}
             S == Subs(t, "num_pin", {b} \ NewlyPinned(b)) \cup Subs(t, "cur_pin", P)
  <1>1. Runs(t) /\ th[t].pc = "idle" /\ th[t].up = {} /\ r.holder = NoThread
    BY DEF Unpin, At
  <1>2. /\ Off(th[t]) = {}
        /\ ~Adrift(r) /\ Sane(r) /\ Listed(r) /\ r \in Block
    BY <1>1, UnlockedOnList
  <1>3. /\ blk' = [blk EXCEPT ![b] = s] /\ Owe(S) /\ UNCHANGED <<th, len, free>>
    BY DEF Unpin
  <1>4. /\ listed <=> r.list = "pin"
        /\ s.state = r.state /\ s.page = r.page
        /\ s.list = IF r.list = "pin" THEN "proactive" ELSE r.list
        /\ ~Has(s, "PINNED") /\ (Has(s, "PROACTIVE") <=> Has(r, "PROACTIVE"))
    <2>1. c.list = r.list /\ (Has(c, "PROACTIVE") <=> Has(r, "PROACTIVE"))
      BY <1>2, UnpinRecord
    <2>2. listed <=> r.list = "pin"
      BY <1>2, <2>1 DEF Listed
    <2> HIDE DEF listed
    <2> QED BY <1>2, <2>2, UnpinRecord
  <1> HIDE DEF s, listed
  <1>5. blk'[b] = s /\ \A a \in Blocks \ {b} : blk'[a] = blk[a]
    BY <1>3 DEF IInv, TypeOK
  <1>6. /\ S \in SUBSET Bill(t, {b})
        /\ \A d, k : <<t, d, k, b>> \in S
              <=> /\ k = "sub"
                  /\ \/ d = "num_pin" /\ Has(r, "PINNED")
                     \/ d = "cur_pin" /\ r.list = "pin"
    <2>1. {b} \ NewlyPinned(b) \in SUBSET {b}
          /\ (b \in {b} \ NewlyPinned(b) <=> Has(r, "PINNED"))
      BY DEF NewlyPinned
    <2>2. "num_pin" \in Counters /\ "cur_pin" \in Counters
      BY DEF Counters
    <2>3. P \in SUBSET {b} /\ (b \in P <=> r.list = "pin")
      BY <1>4
    <2> HIDE DEF P
    <2> DEFINE Q == {b} \ NewlyPinned(b)
    <2>4. Q \in SUBSET {b} /\ (b \in Q <=> Has(r, "PINNED")) /\ {b} \in SUBSET Blocks
      BY <2>1
    <2>5. S = Subs(t, "num_pin", Q) \cup Subs(t, "cur_pin", P)
      OBVIOUS
    <2> HIDE DEF Q
    <2>6. /\ Subs(t, "num_pin", Q) \in SUBSET Bill(t, {b})
          /\ \A d, k : <<t, d, k, b>> \in Subs(t, "num_pin", Q)
                         <=> d = "num_pin" /\ k = "sub" /\ b \in Q
      BY <2>2, <2>4, SubsBill
    <2>7. /\ Subs(t, "cur_pin", P) \in SUBSET Bill(t, {b})
          /\ \A d, k : <<t, d, k, b>> \in Subs(t, "cur_pin", P)
                         <=> d = "cur_pin" /\ k = "sub" /\ b \in P
      BY <2>2, <2>3, <2>4, SubsBill
    <2> HIDE DEF S
    <2> QED BY <2>3, <2>4, <2>5, <2>6, <2>7
  <1> HIDE DEF S
  <1>7. Listed(blk'[b]) /\ ~Adrift(blk'[b])
    BY <1>2, <1>4, <1>5 DEF Listed, Adrift
  <1>8. ASSUME NEW d \in Lengths PROVE Accounts(t, S, d, b)
    <2>1. d \in {"proactive", "cur_pin", "active", "inactive", "num_pin"}
      BY DEF Lengths
    <2>2. r.list = "pin" => r.state = "ACTIVE"
      BY <1>2, ListFacts
    <2>4. CASE d \in {"num_pin", "cur_pin"}
      BY <1>4, <1>5, <1>6, <2>4 DEF Accounts, Counts
    <2>5. CASE d \in {"proactive", "active", "inactive"}
      BY <1>4, <1>5, <1>6, <2>2, <2>5 DEF Accounts, Counts
    <2> QED BY <2>1, <2>4, <2>5
  <1>9. PagesMove({}, {})
    BY <1>3, <1>4, <1>5, SamePages
  <1> QED BY <1>1, <1>2, <1>3, <1>5, <1>6, <1>7, <1>8, <1>9, OneBook

LEMMA DontNeedRecord ==
    ASSUME NEW r \in Block
    PROVE  LET c == Clear(r, {"PROMOTE", "PINNED"})
           IN  /\ c \in Block /\ c.state = r.state /\ c.list = r.list /\ c.page = r.page
               /\ (Has(c, "PROACTIVE") <=> Has(r, "PROACTIVE"))
  BY DEF Clear, Has, Block

LEMMA DontNeedLists ==
    ASSUME IInv, LInv, NEW t \in Threads, StepOK(t), NEW b \in Blocks, DontNeed(t, b)
    PROVE  LInv'
  <1> DEFINE r == blk[b]
             c == Clear(r, {"PROMOTE", "PINNED"})
             pin == IF Has(c, "PROACTIVE") /\ c.list = "pin" THEN 1 ELSE 0
             target == IF Has(c, "PROACTIVE") THEN "proactive" ELSE "active"
             s == Clear(Take(c, t, "TRANS_AL"), {"PROACTIVE"})
             S == Subs(t, target, {b})
  <1>1. Runs(t) /\ th[t].pc = "idle" /\ th[t].up = {} /\ r.holder = NoThread
        /\ Lengths = {"proactive", "cur_pin", "active", "inactive"}
    BY DEF DontNeed, At, Lengths
  <1>2. /\ Off(th[t]) = {}
        /\ ~Adrift(r) /\ Sane(r) /\ Listed(r) /\ r \in Block
    BY <1>1, UnlockedOnList
  <1>3. /\ c \in Block /\ c.state = r.state /\ c.list = r.list /\ c.page = r.page
        /\ (Has(c, "PROACTIVE") <=> Has(r, "PROACTIVE"))
    BY <1>2, DontNeedRecord
  <1>4. UNCHANGED free /\ "dontneed" \in Ops
    BY DEF DontNeed
  <1>5. CASE blk' = [blk EXCEPT ![b] = c] /\ UNCHANGED <<th, len, owed>>
    <2> HIDE DEF c
    <2>1. blk'[b] = c /\ \A a \in Blocks \ {b} : blk'[a] = blk[a]
      BY <1>5 DEF IInv, TypeOK
    <2>2. Listed(blk'[b]) /\ ~Adrift(blk'[b])
      BY <1>2, <1>3, <1>4, <2>1 DEF Listed, Adrift
    <2>3. \A d \in Lengths : Accounts(t, {}, d, b)
      BY <1>1, <1>3, <2>1 DEF Accounts, Counts
    <2>4. PagesMove({}, {})
      BY <1>3, <1>4, <2>1, SamePages
    <2>5. {} \in SUBSET Bill(t, {b}) /\ Owe({})
      BY <1>5, NoBill
    <2> QED BY <1>1, <1>2, <1>5, <2>1, <2>2, <2>3, <2>4, <2>5, OneBook
  <1>6. CASE /\ r.state = "ACTIVE" /\ blk' = [blk EXCEPT ![b] = s]
             /\ len' = [len EXCEPT !["cur_pin"] = @ - pin] /\ Owe(S)
             /\ th' = [th EXCEPT ![t] =
                         [IdleThread EXCEPT !.pc = "unmap", !.op = "dontneed", !.vs = {b}]]
    <2> DEFINE X == IF r.list = "pin" THEN {b} ELSE {}
    <2>1. pin = Cardinality(X) /\ X \in SUBSET {b}
      <3>1. Has(c, "PROACTIVE") /\ c.list = "pin" <=> r.list = "pin"
        BY <1>2, <1>3 DEF Listed
      <3> HIDE DEF c
      <3> QED BY <3>1, FS_EmptySet, FS_Singleton
    <2>2. target = (IF Has(r, "PROACTIVE") THEN "proactive" ELSE "active")
      BY <1>3
    <2>3. /\ s.state = "TRANS_AL" /\ s.list = "none" /\ s.page = r.page
          /\ ~Has(s, "PROACTIVE")
      <3> HIDE DEF c
      <3> QED BY <1>3, TakenRecord
    <2> HIDE DEF s, pin, target, c
    <2>4. blk'[b] = s /\ \A a \in Blocks \ {b} : blk'[a] = blk[a]
      BY <1>6 DEF IInv, TypeOK
    <2>5. /\ S \in SUBSET Bill(t, {b}) /\ target \in Counters
          /\ \A d, k : <<t, d, k, b>> \in S <=> d = target /\ k = "sub"
      <3>1. target \in Counters
        BY <2>2 DEF Counters
      <3>2. {b} \in SUBSET Blocks /\ {b} \in SUBSET {b}
        OBVIOUS
      <3>3. /\ Subs(t, target, {b}) \in SUBSET Bill(t, {b})
            /\ \A d, k : <<t, d, k, b>> \in Subs(t, target, {b})
                           <=> d = target /\ k = "sub" /\ b \in {b}
        BY <3>1, <3>2, SubsBill
      <3> QED BY <3>1, <3>3
    <2> HIDE DEF S
    <2>6. Listed(blk'[b])
      BY <2>3, <2>4 DEF Listed
    <2>7. /\ r.list \in {"proactive", "pin", "active"}
          /\ r.list = "active" <=> ~Has(r, "PROACTIVE")
      BY <1>2, <1>6, ListFacts DEF Adrift, Lists, Listed
    <2>8. th'[t].up = {} /\ th'[t].vs = {b} /\ th'[t].pc = "unmap"
      BY <1>6 DEF IdleThread, IInv, TypeOK
    <2>9. PagesMove({}, {})
      BY <1>4, <2>3, <2>4, SamePages
    <2>10. ASSUME NEW d \in Lengths PROVE Amount(d)' = Cardinality(Members(d)')
      <3>1. CASE d # "cur_pin"
        <4>1. Accounts(t, S, d, b)
          BY <1>1, <1>6, <2>2, <2>3, <2>4, <2>5, <2>7, <3>1 DEF Accounts, Counts
        <4>2. len'[d] = len[d]
          BY <1>6, <3>1, LengthTypes DEF IInv, TypeOK
        <4> QED BY <1>1, <1>6, <2>4, <2>5, <4>1, <4>2, Booked DEF Runs
      <3>2. CASE d = "cur_pin"
        <4> DEFINE M == Members(d)
                   N == Members(d)'
        <4>1. Exchanged(M, X, {}, N)
          BY <2>3, <2>4, <3>2 DEF Members, Counts, Exchanged
        <4> HIDE DEF M, N
        <4>2. /\ Cardinality(N) = Cardinality(M) - Cardinality(X) /\ Cardinality(M) \in Nat
              /\ Cardinality(X) \in Nat
          BY <4>1, Exchange, FS_EmptySet
        <4>3. len'[d] = len[d] - Cardinality(X) /\ len[d] \in Int /\ d \in Counters /\ d # "page"
          BY <1>6, <2>1, <3>2, LengthTypes DEF IInv, TypeOK
        <4>4. ASSUME NEW k \in {"add", "sub"}
              PROVE  /\ Cardinality(Of(Due(d), k)') = Cardinality(Of(Due(d), k))
                     /\ Cardinality(Of(Due(d), k)) \in Nat
          <5>1. Billed(t, d, k, S) = {}
            BY <2>2, <2>5, <3>2 DEF Billed, Bill
          <5>2. /\ Cardinality(Of(Due(d), k)')
                     = Cardinality(Of(Due(d), k)) + Cardinality(Billed(t, d, k, S))
                /\ Cardinality(Of(Due(d), k)) \in Nat
            BY <1>1, <1>6, <2>5, <4>3, DuesGrow DEF LInv, Runs
          <5> QED BY <5>1, <5>2, FS_EmptySet
        <4>5. Amount(d) = Cardinality(M)
          BY DEF M, LInv, Exact, Classes
        <4> QED BY <4>2, <4>3, <4>4, <4>5 DEF N, Amount, Settled
      <3> QED BY <3>1, <3>2
    <2>11. Rescues(t)
      BY <2>4, <2>8, <1>2 DEF Rescues, Off
    <2> QED BY <1>1, <1>6, <2>4, <2>5, <2>6, <2>8, <2>9, <2>10, <2>11, BooksClosed
  <1>7. \/ blk' = [blk EXCEPT ![b] = c] /\ UNCHANGED <<th, len, owed>>
        \/ /\ c.state = "ACTIVE" /\ blk' = [blk EXCEPT ![b] = s]
           /\ len' = [len EXCEPT !["cur_pin"] = @ - pin] /\ Owe(S)
           /\ th' = [th EXCEPT ![t] =
                        [IdleThread EXCEPT !.pc = "unmap", !.op = "dontneed", !.vs = {b}]]
    BY DEF DontNeed
  <1> HIDE DEF c, s, S, pin, target
  <1> QED BY <1>3, <1>5, <1>6, <1>7

-----------------------------------------------------------------------------
(* Steps that change all blocks of a set at once.                          *)
LEMMA BatchBook ==
    ASSUME IInv, LInv, NEW t \in Threads, StepOK(t), Runs(t), NEW V \in SUBSET Blocks,
           \A b \in Blocks \ V : blk'[b] = blk[b],
           NEW S \in SUBSET Bill(t, V), Owe(S), \A c \in Lengths : len'[c] = len[c],
           \A b \in V : /\ Listed(blk'[b]) /\ (Adrift(blk'[b]) => b \in Off(th'[t]))
                        /\ \A c \in Lengths : Accounts(t, S, c, b),
           Off(th[t]) \ V \subseteq Off(th'[t]),
           \A b \in th'[t].up : blk'[b].list = "none",
           NEW X, NEW Y, PagesMove(X, Y)
    PROVE  LInv'
  <1>1. Rescues(t)
    BY DEF Rescues
  <1>2. Books(t, V, S)
    BY <1>1 DEF Books
  <1> QED BY <1>2, BooksKept

LEMMA ReapDoneLists ==
    ASSUME IInv, LInv, NEW t \in Threads, StepOK(t), ReapDone(t)
    PROVE  LInv'
  <1> DEFINE V == th[t].vs
             S == sub_inactive_list_page_len(t, V)
  <1>1. /\ At(t, "reap") /\ Owe(S) /\ Goto(t, "release") /\ UNCHANGED len
        /\ free' = free + Cardinality(V)
        /\ V \in SUBSET Blocks
    BY InHand DEF ReapDone
  <1>2. /\ \A b \in V : blk'[b] = set_gpa_remote(blk[b])
        /\ \A b \in Blocks \ V : blk'[b] = blk[b]
    BY <1>1 DEF ReapDone, Update
  <1>3. S \in SUBSET Bill(t, V)
        /\ \A c, k, b : <<t, c, k, b>> \in S <=> k = "sub" /\ c = "inactive" /\ b \in V
    BY <1>1, SubBill
  <1>4. th'[t].up = {} /\ th[t].up = {} /\ Off(th[t]) = V /\ Runs(t)
    BY <1>1, GotoIdle DEF At, Off
  <1> HIDE DEF S
  <1>5. ASSUME NEW b \in V
        PROVE  /\ blk[b].page /\ ~blk'[b].page /\ ~Adrift(blk'[b])
               /\ Listed(blk'[b]) /\ \A c \in Lengths : Accounts(t, S, c, b)
    <2>1. Sane(blk[b]) /\ Listed(blk[b]) /\ blk[b].state = "WB" /\ blk[b] \in Block
      BY <1>1, BlocksSane DEF LInv, AllListed, At, IInv, ThreadOK, VictimOf, Sane
    <2>2. blk[b].list \notin Targets /\ ~Has(blk[b], "PROACTIVE") /\ blk[b].page
          /\ Counts(blk[b], "inactive")
      BY <2>1, ListFacts DEF Targets, Counts
    <2>3. /\ blk'[b].state = "INIT" /\ blk'[b].list = "none" /\ ~blk'[b].page
          /\ Has(blk'[b], "PINNED") <=> Has(blk[b], "PINNED")
          /\ ~Has(blk'[b], "PROACTIVE")
      BY <1>2, <2>1, ReleasedRecord
    <2>4. Aside(b)
      BY <2>2, <2>3 DEF Aside, Targets
    <2>5. ~Counts(blk'[b], "inactive") /\ ~Adrift(blk'[b])
      BY <2>3 DEF Counts, Adrift
    <2> QED BY <1>3, <2>2, <2>3, <2>4, <2>5, AsideBooked
  <1>6. PagesMove(V, {})
    <2>1. free' = free + Cardinality(V) - Cardinality({})
      BY <1>1, LengthTypes, FS_EmptySet, FiniteBlocks
    <2> QED BY <1>1, <1>2, <1>5, <2>1 DEF PagesMove
  <1> HIDE DEF V
  <1> QED BY <1>1, <1>2, <1>3, <1>4, <1>5, <1>6, BatchBook

(* A scan takes the blocks of @V off their list, those of @W as victims    *)
(* and those of @U to move up.                                             *)
LEMMA ScanBook ==
    ASSUME IInv, LInv, NEW t \in Threads, StepOK(t), Runs(t), Off(th[t]) = {},
           NEW V \in SUBSET Blocks, NEW W \in SUBSET V, NEW U \in SUBSET V, V = W \cup U,
           NEW p \in PCs \ {"demoted", "eager"}, Scanned(t, p, W, U),
           \A b \in Blocks \ V : blk'[b] = blk[b],
           NEW S \in SUBSET Bill(t, V), Owe(S), UNCHANGED <<len, free>>,
           \A b \in V : /\ Listed(blk'[b]) /\ blk'[b].list = "none"
                        /\ blk'[b].page = blk[b].page
                        /\ \A c \in Lengths : Accounts(t, S, c, b)
    PROVE  LInv'
  <1>1. th'[t].pc = p /\ th'[t].vs = W /\ th'[t].up = U
    <2>1. Stands(t, p, W, U)
      <3>1. W \in SUBSET Blocks /\ U \in SUBSET Blocks /\ p \in PCs
        OBVIOUS
      <3> QED BY <3>1, ScannedType
    <2> QED BY <2>1 DEF Stands
  <1>2. Off(th'[t]) = V
    BY <1>1 DEF Off
  <1>3. PagesMove({}, {})
    <2>1. \A b \in Blocks : blk'[b].page <=> blk[b].page
      OBVIOUS
    <2> QED BY <2>1, SamePages
  <1> QED BY <1>1, <1>2, <1>3, BatchBook

LEMMA LiftedRecord ==
    ASSUME NEW r \in Block, NEW t, NEW F
    PROVE  LET s == Lift(r, t)
               c == Clear(s, F)
           IN  /\ s.state = r.state /\ s.list = "none" /\ s.page = r.page
               /\ \A f : Has(s, f) <=> Has(r, f)
               /\ c.state = r.state /\ c.list = "none" /\ c.page = r.page
               /\ \A f : Has(c, f) <=> Has(r, f) /\ f \notin F
  BY DEF Lift, Clear, Has, Block

(* What a scan finds on a list.                                            *)
LEMMA OnList ==
    ASSUME IInv, LInv, NEW l, NEW b \in Unlocked(l)
    PROVE  b \in Blocks /\ Sane(blk[b]) /\ Listed(blk[b]) /\ blk[b] \in Block
           /\ blk[b].list = l
  BY BlocksSane DEF Unlocked, LInv, AllListed, Sane

LEMMA UpdateProactiveLists ==
    ASSUME IInv, LInv, NEW t \in Threads, StepOK(t), UpdateProactive(t)
    PROVE  LInv'
  <1> DEFINE Q == Unlocked("proactive")
             pinned == Flagged(Q, "PINNED")
  <1>1. PICK V \in Selection(Q, pinned) :
           /\ Update(V, LAMBDA b :
                 IF b \in pinned THEN Lift(blk[b], t)
                 ELSE Clear(Take(blk[b], t, "TRANS_PL"), {"PROACTIVE"}))
           /\ Owe(Subs(t, "proactive", V \ pinned))
           /\ Scanned(t, IF V \subseteq pinned THEN "unpin" ELSE "demote",
                      V \ pinned, V \cap pinned)
    BY DEF UpdateProactive
  <1> DEFINE W == V \ pinned
             U == V \cap pinned
             S == Subs(t, "proactive", W)
  <1>2. /\ V \in SUBSET Blocks /\ V \subseteq Q
        /\ W \in SUBSET V /\ U \in SUBSET V /\ V = W \cup U /\ W \cap U = {}
    BY <1>1 DEF Selection, Unlocked
  <1>3. /\ \A b \in Blocks \ V : blk'[b] = blk[b]
        /\ \A b \in U : blk'[b] = Lift(blk[b], t)
        /\ \A b \in W : blk'[b] = Clear(Take(blk[b], t, "TRANS_PL"), {"PROACTIVE"})
    BY <1>1, <1>2 DEF Update
  <1>4. PICK p \in PCs \ {"demoted", "eager"} : Scanned(t, p, W, U)
    BY <1>1 DEF PCs
  <1>5. Runs(t) /\ Off(th[t]) = {} /\ UNCHANGED <<len, free>> /\ Owe(S)
    BY <1>1, AtIdle DEF UpdateProactive, At
  <1> HIDE DEF pinned, W, U
  <1>6. S \in SUBSET Bill(t, V)
        /\ \A c, k, b : <<t, c, k, b>> \in S <=> c = "proactive" /\ k = "sub" /\ b \in W
    <2>1. "proactive" \in Counters
      BY DEF Counters
    <2> QED BY <1>2, <2>1, SubsBill
  <1> HIDE DEF S
  <1>7. ASSUME NEW b \in V
        PROVE  /\ Listed(blk'[b]) /\ blk'[b].list = "none" /\ blk'[b].page = blk[b].page
               /\ \A c \in Lengths : Accounts(t, S, c, b)
    <2> DEFINE r == blk[b]
               s == blk'[b]
    <2>1. Sane(r) /\ Listed(r) /\ r \in Block /\ r.list = "proactive" /\ r.state = "ACTIVE"
          /\ Has(r, "PROACTIVE")
      BY <1>2, OnList, ListFacts
    <2>2. /\ s.list = "none" /\ s.page = r.page
          /\ s.state = IF b \in W THEN "TRANS_PL" ELSE "ACTIVE"
          /\ Has(s, "PINNED") <=> Has(r, "PINNED")
          /\ Has(s, "PROACTIVE") <=> b \notin W
      <3>1. CASE b \in W
        BY <1>3, <2>1, <3>1, TakenRecord
      <3>2. CASE b \in U
        BY <1>2, <1>3, <2>1, <3>2, LiftedRecord
      <3> QED BY <1>2, <3>1, <3>2
    <2> HIDE DEF r, s
    <2>3. Listed(s)
      BY <2>2 DEF Listed
    <2>4. ASSUME NEW c \in Lengths PROVE Accounts(t, S, c, b)
      <3>1. c \in {"proactive", "cur_pin", "active", "inactive", "num_pin"}
        BY DEF Lengths
      <3>2. \A k : <<t, c, k, b>> \in S <=> c = "proactive" /\ k = "sub" /\ b \in W
        BY <1>6
      <3> QED BY <2>1, <2>2, <3>1, <3>2 DEF Accounts, Counts, r, s
    <2> QED BY <2>2, <2>3, <2>4 DEF r, s
  <1> QED BY <1>2, <1>3, <1>4, <1>5, <1>6, <1>7, ScanBook

LEMMA UnpinVictimsLists ==
    ASSUME IInv, LInv, NEW t \in Threads, StepOK(t), UnpinVictims(t)
    PROVE  LInv'
  <1>1. PICK V \in Selection(Unlocked("pin"), {}) :
           /\ Update(V, LAMBDA b : Clear(Lift(blk[b], t), {"PINNED"}))
           /\ Owe(Subs(t, "cur_pin", V) \cup Subs(t, "num_pin", V))
           /\ Scanned(t, IF V = {} THEN "active" ELSE "rescan", {}, V)
    BY DEF UnpinVictims
  <1> DEFINE S == Subs(t, "cur_pin", V) \cup Subs(t, "num_pin", V)
  <1>2. V \in SUBSET Blocks /\ V \subseteq Unlocked("pin")
    BY <1>1 DEF Selection, Unlocked
  <1>3. /\ \A b \in Blocks \ V : blk'[b] = blk[b]
        /\ \A b \in V : blk'[b] = Clear(Lift(blk[b], t), {"PINNED"})
    BY <1>1, <1>2 DEF Update
  <1>4. PICK p \in PCs \ {"demoted", "eager"} : Scanned(t, p, {}, V)
    BY <1>1 DEF PCs
  <1>5. Runs(t) /\ Off(th[t]) = {} /\ UNCHANGED <<len, free>> /\ Owe(S)
    BY <1>1, AtIdle DEF UnpinVictims, At
  <1>6. S \in SUBSET Bill(t, V)
        /\ \A c, k, b : <<t, c, k, b>> \in S
                          <=> c \in {"cur_pin", "num_pin"} /\ k = "sub" /\ b \in V
    <2>1. "cur_pin" \in Counters /\ "num_pin" \in Counters /\ V \in SUBSET V
      BY DEF Counters
    <2>2. /\ Subs(t, "cur_pin", V) \in SUBSET Bill(t, V)
          /\ \A c, k, b : <<t, c, k, b>> \in Subs(t, "cur_pin", V)
                            <=> c = "cur_pin" /\ k = "sub" /\ b \in V
      BY <1>2, <2>1, SubsBill
    <2>3. /\ Subs(t, "num_pin", V) \in SUBSET Bill(t, V)
          /\ \A c, k, b : <<t, c, k, b>> \in Subs(t, "num_pin", V)
                            <=> c = "num_pin" /\ k = "sub" /\ b \in V
      BY <1>2, <2>1, SubsBill
    <2> QED BY <2>2, <2>3
  <1> HIDE DEF S
  <1>7. ASSUME NEW b \in V
        PROVE  /\ Listed(blk'[b]) /\ blk'[b].list = "none" /\ blk'[b].page = blk[b].page
               /\ \A c \in Lengths : Accounts(t, S, c, b)
    <2> DEFINE r == blk[b]
               s == blk'[b]
    <2>1. Sane(r) /\ Listed(r) /\ r \in Block /\ r.list = "pin" /\ r.state = "ACTIVE"
          /\ Has(r, "PROACTIVE") /\ ("dontneed" \notin Ops => Has(r, "PINNED"))
      BY <1>2, OnList, ListFacts
    <2>2. /\ s.list = "none" /\ s.page = r.page /\ s.state = "ACTIVE"
          /\ ~Has(s, "PINNED") /\ Has(s, "PROACTIVE")
      BY <1>3, <2>1, LiftedRecord
    <2> HIDE DEF r, s
    <2>3. Listed(s)
      BY <2>2 DEF Listed
    <2>4. ASSUME NEW c \in Lengths PROVE Accounts(t, S, c, b)
      <3>1. c \in {"proactive", "cur_pin", "active", "inactive", "num_pin"}
            /\ (c = "num_pin" => Has(r, "PINNED"))
        BY <2>1 DEF Lengths
      <3>2. \A k : <<t, c, k, b>> \in S <=> c \in {"cur_pin", "num_pin"} /\ k = "sub"
        BY <1>6
      <3> QED BY <2>1, <2>2, <3>1, <3>2 DEF Accounts, Counts, r, s
    <2> QED BY <2>2, <2>3, <2>4 DEF r, s
  <1>8. {} \in SUBSET V /\ V \in SUBSET V /\ V = {} \cup V
    OBVIOUS
  <1> QED BY <1>2, <1>3, <1>4, <1>5, <1>6, <1>7, <1>8, ScanBook

LEMMA UpdateActiveLists ==
    ASSUME IInv, LInv, NEW t \in Threads, StepOK(t), UpdateActive(t)
    PROVE  LInv'
  <1> DEFINE Q == Unlocked("active")
             pinned == Flagged(Q, "PINNED")
             moved == pinned \cup Flagged(Q, "PROMOTE")
             able == {b \in Q : b \in moved \/ gpa_acquire(blk[b])}
  <1>1. PICK V \in Selection(able, moved) :
           /\ Update(V, LAMBDA b :
                 IF b \in pinned THEN Lift(blk[b], t)
                 ELSE IF b \in moved THEN Clear(Lift(blk[b], t), {"PROMOTE"})
                 ELSE Take(blk[b], t, "TRANS_AL"))
           /\ Owe(Subs(t, "active", V))
           /\ Scanned(t, IF V \subseteq moved THEN "inactive" ELSE "unmap",
                      V \ moved, V \cap moved)
    BY DEF UpdateActive
  <1> DEFINE W == V \ moved
             U == V \cap moved
             S == Subs(t, "active", V)
  <1>2. /\ V \in SUBSET Blocks /\ V \subseteq Q
        /\ W \in SUBSET V /\ U \in SUBSET V /\ V = W \cup U /\ W \cap U = {}
    BY <1>1 DEF Selection, Unlocked
  <1>3. /\ \A b \in Blocks \ V : blk'[b] = blk[b]
        /\ \A b \in U : blk'[b] \in {Lift(blk[b], t), Clear(Lift(blk[b], t), {"PROMOTE"})}
        /\ \A b \in W : blk'[b] = Take(blk[b], t, "TRANS_AL")
    BY <1>1, <1>2 DEF Update
  <1>4. PICK p \in PCs \ {"demoted", "eager"} : Scanned(t, p, W, U)
    BY <1>1 DEF PCs
  <1>5. Runs(t) /\ Off(th[t]) = {} /\ UNCHANGED <<len, free>> /\ Owe(S)
    BY <1>1, AtIdle DEF UpdateActive, At
  <1> HIDE DEF pinned, moved, W, U
  <1>6. S \in SUBSET Bill(t, V)
        /\ \A c, k, b : <<t, c, k, b>> \in S <=> c = "active" /\ k = "sub" /\ b \in V
    <2>1. "active" \in Counters /\ V \in SUBSET V
      BY DEF Counters
    <2> QED BY <1>2, <2>1, SubsBill
  <1> HIDE DEF S
  <1>7. ASSUME NEW b \in V
        PROVE  /\ Listed(blk'[b]) /\ blk'[b].list = "none" /\ blk'[b].page = blk[b].page
               /\ \A c \in Lengths : Accounts(t, S, c, b)
    <2> DEFINE r == blk[b]
               s == blk'[b]
    <2>1. Sane(r) /\ Listed(r) /\ r \in Block /\ r.list = "active" /\ r.state = "ACTIVE"
          /\ ~Has(r, "PROACTIVE")
      BY <1>2, OnList, ListFacts
    <2>2. /\ s.list = "none" /\ s.page = r.page
          /\ s.state \in {"TRANS_AL", "ACTIVE"}
          /\ Has(s, "PINNED") <=> Has(r, "PINNED")
          /\ ~Has(s, "PROACTIVE")
      <3>1. CASE b \in W
        BY <1>3, <2>1, <3>1, TakenRecord
      <3>2. CASE b \in U
        BY <1>3, <2>1, <3>2, LiftedRecord
      <3> QED BY <1>2, <3>1, <3>2
    <2> HIDE DEF r, s
    <2>3. Listed(s)
      BY <2>2 DEF Listed
    <2>4. ASSUME NEW c \in Lengths PROVE Accounts(t, S, c, b)
      <3>1. c \in {"proactive", "cur_pin", "active", "inactive", "num_pin"}
        BY DEF Lengths
      <3>2. \A k : <<t, c, k, b>> \in S <=> c = "active" /\ k = "sub"
        BY <1>6
      <3> QED BY <2>1, <2>2, <3>1, <3>2 DEF Accounts, Counts, r, s
    <2> QED BY <2>2, <2>3, <2>4 DEF r, s
  <1> QED BY <1>2, <1>3, <1>4, <1>5, <1>6, <1>7, ScanBook

LEMMA UpdateInactiveLists ==
    ASSUME IInv, LInv, NEW t \in Threads, StepOK(t), UpdateInactive(t)
    PROVE  LInv'
  <1> DEFINE Q == Unlocked("inactive")
             pinned == Flagged(Q, "PINNED")
             moved == pinned \cup Flagged(Q, "PROMOTE")
             able == {b \in Q : b \in moved \/ check_block_free(blk[b])}
  <1>1. PICK V \in Selection(able, moved) :
           /\ Update(V, LAMBDA b :
                 IF b \in pinned THEN Lift(blk[b], t)
                 ELSE IF b \in moved THEN Clear(Lift(blk[b], t), {"PROMOTE"})
                 ELSE Take(blk[b], t, "TRANS_IL"))
           /\ Owe(sub_inactive_list_page_len(t, V \cap moved))
           /\ Scanned(t, IF V \ moved # {} THEN "evict"
                         ELSE IF At(t, "force") THEN "proactive" ELSE th[t].ret,
                      V \ moved, V \cap moved)
    BY DEF UpdateInactive
  <1> DEFINE W == V \ moved
             U == V \cap moved
             S == sub_inactive_list_page_len(t, U)
  <1>2. /\ V \in SUBSET Blocks /\ V \subseteq Q
        /\ W \in SUBSET V /\ U \in SUBSET V /\ V = W \cup U /\ W \cap U = {}
    BY <1>1 DEF Selection, Unlocked
  <1>3. /\ \A b \in Blocks \ V : blk'[b] = blk[b]
        /\ \A b \in U : blk'[b] \in {Lift(blk[b], t), Clear(Lift(blk[b], t), {"PROMOTE"})}
        /\ \A b \in W : blk'[b] = Take(blk[b], t, "TRANS_IL")
    BY <1>1, <1>2 DEF Update
  <1>4. PICK p \in PCs \ {"demoted", "eager"} : Scanned(t, p, W, U)
    BY <1>1 DEF PCs, IInv, TypeOK, Thread
  <1>5. Runs(t) /\ Off(th[t]) = {} /\ UNCHANGED <<len, free>> /\ Owe(S)
    BY <1>1, AtIdle DEF UpdateInactive, At
  <1> HIDE DEF pinned, moved, W, U
  <1>6. S \in SUBSET Bill(t, V)
        /\ \A c, k, b : <<t, c, k, b>> \in S <=> k = "sub" /\ c = "inactive" /\ b \in U
    BY <1>2, SubBill
  <1> HIDE DEF S
  <1>7. ASSUME NEW b \in V
        PROVE  /\ Listed(blk'[b]) /\ blk'[b].list = "none" /\ blk'[b].page = blk[b].page
               /\ \A c \in Lengths : Accounts(t, S, c, b)
    <2> DEFINE r == blk[b]
               s == blk'[b]
    <2>1. Sane(r) /\ Listed(r) /\ r \in Block /\ r.list = "inactive" /\ r.state = "INACTIVE"
          /\ ~Has(r, "PROACTIVE")
      BY <1>2, OnList, ListFacts
    <2>2. /\ s.list = "none" /\ s.page = r.page
          /\ s.state = IF b \in U THEN "INACTIVE" ELSE "TRANS_IL"
          /\ Has(s, "PINNED") <=> Has(r, "PINNED")
          /\ ~Has(s, "PROACTIVE")
      <3>1. CASE b \in W
        BY <1>2, <1>3, <2>1, <3>1, TakenRecord
      <3>2. CASE b \in U
        BY <1>3, <2>1, <3>2, LiftedRecord
      <3> QED BY <1>2, <3>1, <3>2
    <2> HIDE DEF r, s
    <2>3. Listed(s)
      BY <2>2 DEF Listed
    <2>4. ASSUME NEW c \in Lengths PROVE Accounts(t, S, c, b)
      <3>1. c \in {"proactive", "cur_pin", "active", "inactive", "num_pin"}
        BY DEF Lengths
      <3>2. \A k : <<t, c, k, b>> \in S <=> k = "sub" /\ c = "inactive" /\ b \in U
        BY <1>6
      <3> QED BY <2>1, <2>2, <3>1, <3>2 DEF Accounts, Counts, r, s
    <2> QED BY <2>2, <2>3, <2>4 DEF r, s
  <1> QED BY <1>2, <1>3, <1>4, <1>5, <1>6, <1>7, ScanBook

-----------------------------------------------------------------------------
(* Blocks go on the next list, or up again.                                *)
LEMMA DemoteLists ==
    ASSUME IInv, LInv, NEW t \in Threads, StepOK(t), Demote(t)
    PROVE  LInv'
  <1> DEFINE V == th[t].vs
             pinned == Flagged(V, "PINNED")
             rest == V \ pinned
             S == AddsToList(t, "pin", pinned) \cup AddsToList(t, "active", rest)
  <1>1. /\ At(t, "demote") /\ V \in SUBSET Blocks /\ th[t].up = {} /\ Runs(t)
        /\ Owe(S) /\ Goto(t, "demoted") /\ UNCHANGED <<len, free>>
        /\ pinned \in SUBSET V /\ rest \in SUBSET V
    BY InHand DEF Demote, At, Flagged
  <1>2. /\ \A b \in V : blk'[b] = add_gpas_to_active_list(blk[b], "active")
        /\ \A b \in Blocks \ V : blk'[b] = blk[b]
    BY <1>1 DEF Demote, Update
  <1>3. \A b \in V : (b \in pinned <=> Has(blk[b], "PINNED")) /\ (b \in rest <=> b \notin pinned)
    BY DEF Flagged
  <1> HIDE DEF pinned, rest
  <1>4. /\ S \in SUBSET Bill(t, V)
        /\ \A c, k, b : <<t, c, k, b>> \in S
              <=> /\ k = "add"
                  /\ \/ c \in CountersOf("pin") /\ b \in pinned
                     \/ c \in CountersOf("active") /\ b \in rest
    <2>1. "pin" \in Targets /\ "active" \in Targets
      BY DEF Targets
    <2>2. /\ AddsToList(t, "pin", pinned) \subseteq Bill(t, V)
          /\ \A c, k, b : <<t, c, k, b>> \in AddsToList(t, "pin", pinned)
                            <=> k = "add" /\ c \in CountersOf("pin") /\ b \in pinned
      BY <1>1, <2>1, JoinBill
    <2>3. /\ AddsToList(t, "active", rest) \subseteq Bill(t, V)
          /\ \A c, k, b : <<t, c, k, b>> \in AddsToList(t, "active", rest)
                            <=> k = "add" /\ c \in CountersOf("active") /\ b \in rest
      BY <1>1, <2>1, JoinBill
    <2> QED BY <2>2, <2>3
  <1> HIDE DEF S
  <1>5. th'[t].up = {} /\ th'[t].vs = V /\ th'[t].pc = "demoted"
    BY <1>1, GotoIdle
  <1>6. ASSUME NEW b \in V
        PROVE  /\ Listed(blk'[b]) /\ ~Adrift(blk'[b]) /\ blk'[b].page = blk[b].page
               /\ \A c \in Lengths : Accounts(t, S, c, b)
    <2> DEFINE r == blk[b]
               s == blk'[b]
               l == ActiveTarget(r, "active")
    <2>1. Sane(r) /\ Listed(r) /\ r \in Block /\ r.state = "TRANS_PL"
      BY <1>1, BlocksSane DEF LInv, AllListed, At, IInv, ThreadOK, VictimOf, Sane
    <2>2. /\ r.list \notin Targets /\ ~Has(r, "PROACTIVE") /\ ~Counts(r, "inactive")
      BY <2>1, ListFacts DEF Targets, Counts
    <2>3. Activated(r, s, "active") /\ s.page = r.page
      BY <1>2, <2>1, AddActivates DEF Activated
    <2>4. Joins(r, s, l)
      <3>1. "active" \in {"proactive", "active"} /\ (Has(r, "PINNED") <=> Has(r, "PINNED"))
        OBVIOUS
      <3> HIDE DEF s
      <3> QED BY <2>2, <2>3, <3>1, ActivatedJoins
    <2>5. l = IF b \in pinned THEN "pin" ELSE "active"
      BY <1>3 DEF ActiveTarget
    <2> HIDE DEF l
    <2>6. \A c \in Lengths, k \in {"add", "sub"} :
             <<t, c, k, b>> \in S <=> k = "add" /\ c \in CountersOf(l)
      BY <1>3, <1>4, <2>5
    <2> QED BY <2>2, <2>3, <2>4, <2>6, JoinsBooked
  <1>7. PagesMove({}, {})
    <2>1. \A b \in Blocks : blk'[b].page <=> blk[b].page
      BY <1>2, <1>6
    <2> QED BY <1>1, <2>1, SamePages
  <1>8. Off(th[t]) \ V = {}
    BY <1>1 DEF Off
  <1> HIDE DEF V
  <1> QED BY <1>1, <1>2, <1>4, <1>5, <1>6, <1>7, <1>8, BatchBook

LEMMA UnmapRecord ==
    ASSUME NEW d \in Block
    PROVE  Alike(d, unmap_gpas(d)) /\ unmap_gpas(d) \in Block
  <1> DEFINE g == unmap_gpas(d)
  <1>1. CASE ~Has(d, "HPT")
    BY <1>1, AlikeSelf DEF unmap_gpas
  <1>2. CASE Has(d, "HPT")
    <2>1. PICK F \in {{}, {"DIRTY"}} :
            g = [Clear(d, {"HPT"}) EXCEPT !.mapped = FALSE, !.pteDirty = FALSE,
                                          !.flags = @ \cup F]
      <3>1. CASE d.mapped /\ d.pteDirty
        BY <1>2, <3>1 DEF unmap_gpas, Clear, Block
      <3>2. CASE ~(d.mapped /\ d.pteDirty)
        BY <1>2, <3>2 DEF unmap_gpas, Clear, Block
      <3> QED BY <3>1, <3>2
    <2>2. PICK c \in Block : c = Clear(d, {"HPT"})
      BY DEF Clear, Block
    <2>3. /\ c.list = d.list /\ c.state = d.state /\ c.page = d.page
          /\ c.flags = d.flags \ {"HPT"}
      BY <2>2 DEF Clear, Block
    <2>4. g = [c EXCEPT !.mapped = FALSE, !.pteDirty = FALSE, !.flags = @ \cup F]
      BY <2>1, <2>2
    <2> HIDE DEF g
    <2>5. /\ g.list = c.list /\ g.state = c.state /\ g.page = c.page
          /\ g.flags = c.flags \cup F
      BY <2>4 DEF Block
    <2>6. g \in Block
      <3>1. PICK G \in SUBSET Flags : G = c.flags \cup F
        BY <2>1 DEF Block, Flags
      <3>2. g = [c EXCEPT !.mapped = FALSE, !.pteDirty = FALSE, !.flags = G]
        BY <2>4, <3>1
      <3> QED BY <3>2 DEF Block
    <2>7. Alike(d, g)
      BY <2>1, <2>3, <2>5 DEF Alike, Has
    <2> QED BY <2>6, <2>7 DEF g
  <1> QED BY <1>1, <1>2

LEMMA UnmappedRecord ==
    ASSUME NEW r, Sane(r), NEW u, u = Unmapped(r)
    PROVE  /\ u.state = "INACTIVE" /\ u.list = "inactive" /\ u.page = r.page
           /\ Has(u, "PINNED") <=> Has(r, "PINNED")
           /\ Has(u, "PROACTIVE") <=> Has(r, "PROACTIVE")
  <1> DEFINE d == IF Has(r, "PREFETCHED") THEN wait_for_prefetched_block(r) ELSE r
             g == unmap_gpas(d)
  <1>1. Alike(r, d) /\ d \in Block
    BY PrefetchedDrains, DrainedAlike, AlikeSelf DEF Drained, Sane
  <1>2. u = add_gpas_to_inactive(g)
    BY DEF Unmapped
  <1> HIDE DEF d
  <1>3. Alike(d, g) /\ g \in Block
    BY <1>1, UnmapRecord
  <1> HIDE DEF g
  <1>4. /\ u.state = "INACTIVE" /\ u.list = "inactive" /\ u.page = g.page
        /\ u.flags = g.flags
    BY <1>2, <1>3 DEF add_gpas_to_inactive, Block
  <1> QED BY <1>1, <1>3, <1>4 DEF Alike, Has

LEMMA UnmapVictimsLists ==
    ASSUME IInv, LInv, NEW t \in Threads, StepOK(t), UnmapVictims(t)
    PROVE  LInv'
  <1> DEFINE V == th[t].vs
             S == Adds(t, "inactive", V)
  <1>1. CASE Panic("misread")
    BY <1>1, PanicLists
  <1>2. CASE ~Panic("misread")
    <2>1. /\ At(t, "unmap") /\ V \in SUBSET Blocks /\ th[t].up = {} /\ Runs(t)
          /\ Owe(S) /\ Goto(t, "eager") /\ UNCHANGED <<len, free>>
      BY <1>2, InHand DEF UnmapVictims, At
    <2>2. /\ \A b \in V : blk'[b] = Unmapped(blk[b])
          /\ \A b \in Blocks \ V : blk'[b] = blk[b]
      BY <1>2, <2>1 DEF UnmapVictims, Update
    <2>3. /\ S \in SUBSET Bill(t, V)
          /\ \A c, k, b : <<t, c, k, b>> \in S <=> c = "inactive" /\ k = "add" /\ b \in V
      <3>1. "inactive" \in Counters /\ V \in SUBSET V
        BY DEF Counters
      <3> QED BY <2>1, <3>1, AddsBill
    <2> HIDE DEF S
    <2>4. th'[t].up = {} /\ th'[t].vs = V /\ th'[t].pc = "eager"
      BY <2>1, GotoIdle
    <2>5. ASSUME NEW b \in V
          PROVE  /\ Listed(blk'[b]) /\ ~Adrift(blk'[b]) /\ blk'[b].page = blk[b].page
                 /\ \A c \in Lengths : Accounts(t, S, c, b)
      <3> DEFINE r == blk[b]
                 s == blk'[b]
      <3>1. Sane(r) /\ Listed(r) /\ r.state = "TRANS_AL"
        BY <2>1, BlocksSane DEF LInv, AllListed, At, IInv, ThreadOK, VictimOf
      <3>2. r.list \in {"none", "writeback"} \ {"writeback"} /\ ~Has(r, "PROACTIVE")
        BY <3>1, ListFacts DEF Lists
      <3>3. /\ s.state = "INACTIVE" /\ s.list = "inactive" /\ s.page = r.page
            /\ Has(s, "PINNED") <=> Has(r, "PINNED")
            /\ Has(s, "PROACTIVE") <=> Has(r, "PROACTIVE")
        BY <2>2, <3>1, UnmappedRecord
      <3> HIDE DEF r, s
      <3>4. Listed(s) /\ ~Adrift(s)
        BY <3>2, <3>3 DEF Listed, Adrift
      <3>5. ASSUME NEW c \in Lengths PROVE Accounts(t, S, c, b)
        <4>1. c \in {"proactive", "cur_pin", "active", "inactive", "num_pin"}
          BY DEF Lengths
        <4>2. \A k : <<t, c, k, b>> \in S <=> c = "inactive" /\ k = "add"
          BY <2>3
        <4> QED BY <3>1, <3>2, <3>3, <4>1, <4>2 DEF Accounts, Counts, r, s
      <3> QED BY <3>3, <3>4, <3>5 DEF r, s
    <2>6. PagesMove({}, {})
      <3>1. \A b \in Blocks : blk'[b].page <=> blk[b].page
        BY <2>2, <2>5
      <3> QED BY <2>1, <3>1, SamePages
    <2>7. Off(th[t]) \ V = {}
      BY <2>1 DEF Off
    <2> HIDE DEF V
    <2> QED BY <2>1, <2>2, <2>3, <2>4, <2>5, <2>6, <2>7, BatchBook
  <1> QED BY <1>1, <1>2

(* The record s of a block that was r and has now arrived on list l.       *)
Arrives(r, s, l) ==
    /\ s.state = "ACTIVE" /\ s.list = l /\ s.page = r.page
    /\ Has(s, "PINNED") <=> Has(r, "PINNED")
    /\ Has(s, "PROACTIVE")

(* What t owes for the blocks of M it has put on list l.                   *)
Charges(t, S, M, l) ==
    \A c, k : \A b \in M : <<t, c, k, b>> \in S <=>
        /\ k = "add"
        /\ \/ c = "proactive" /\ ~Has(blk[b], "PROACTIVE")
           \/ c = "cur_pin" /\ l = "pin"

LEMMA PinnedRecord ==
    ASSUME NEW r \in Block, NEW m \in BOOLEAN
    PROVE  Arrives(r, Unlock(move_to_pin_list(r, m)), "pin")
  <1> DEFINE s == Unlock(move_to_pin_list(r, m))
  <1>1. PICK F \in {{"PROACTIVE"}, {"PROACTIVE", "PREFETCHED", "HPT"}} :
          s = Unlock([r EXCEPT !.state = "ACTIVE", !.list = "pin", !.flags = @ \cup F])
    BY DEF move_to_pin_list
  <1> HIDE DEF s
  <1>2. /\ s.state = "ACTIVE" /\ s.list = "pin" /\ s.page = r.page
        /\ s.flags = r.flags \cup F
    BY <1>1 DEF Block, Unlock
  <1>3. "PROACTIVE" \in F /\ "PINNED" \notin F
    BY <1>1
  <1> QED BY <1>2, <1>3 DEF Arrives, Has, s

LEMMA PromotedRecord ==
    ASSUME NEW r \in Block, NEW m \in BOOLEAN
    PROVE  Arrives(r, Unlock(promote_gpas(r, m)), "proactive")
  <1> DEFINE s == Unlock(promote_gpas(r, m))
  <1>1. PICK F \in {{"PROACTIVE"}, {"PROACTIVE", "PREFETCHED"}} :
          s = Unlock([r EXCEPT !.state = "ACTIVE", !.list = "proactive", !.flags = @ \cup F])
    BY DEF promote_gpas
  <1> HIDE DEF s
  <1>2. /\ s.state = "ACTIVE" /\ s.list = "proactive" /\ s.page = r.page
        /\ s.flags = r.flags \cup F
    BY <1>1 DEF Block, Unlock
  <1>3. "PROACTIVE" \in F /\ "PINNED" \notin F
    BY <1>1
  <1> QED BY <1>2, <1>3 DEF Arrives, Has, s

LEMMA PromotedInactive ==
    ASSUME NEW r, Sane(r)
    PROVE  Arrives(r, Unlock(promote_gpas(check_eager_wbr(r), FALSE)), "proactive")
  <1> DEFINE e == check_eager_wbr(r)
             s == Unlock(promote_gpas(e, FALSE))
  <1>1. Drained(r, e)
    BY EagerDrains
  <1>2. Alike(r, e) /\ e \in Block
    BY <1>1, DrainedAlike DEF Drained
  <1> HIDE DEF e
  <1>3. Arrives(e, s, "proactive")
    BY <1>2, PromotedRecord
  <1> HIDE DEF s
  <1> QED BY <1>2, <1>3 DEF Arrives, Alike, e, s

(* The blocks of @M leave the hands of @t for the proactive or pin list.   *)
LEMMA ArriveLists ==
    ASSUME IInv, LInv, NEW t \in Threads, StepOK(t), Runs(t), NEW M,
           M \subseteq th[t].up, th' = [th EXCEPT ![t].up = @ \ M],
           NEW l \in {"proactive", "pin"}, NEW S \in SUBSET Bill(t, M), Owe(S),
           \A b \in M : Arrives(blk[b], blk'[b], l),
           \A b \in M : l = "pin" => Has(blk[b], "PINNED"),
           Charges(t, S, M, l),
           \A b \in Blocks \ M : blk'[b] = blk[b],
           UNCHANGED <<len, free>>
    PROVE  LInv'
  <1>1. M \in SUBSET Blocks
    BY InHand
  <1>2. th'[t].up = th[t].up \ M /\ th'[t].vs = th[t].vs /\ th'[t].pc = th[t].pc
    BY DEF IInv, TypeOK, Thread
  <1>3. \A b \in th'[t].up : blk'[b].list = "none"
    BY <1>2, InHand DEF LInv, Aloft
  <1>4. ASSUME NEW b \in M
        PROVE  /\ Listed(blk'[b]) /\ ~Adrift(blk'[b])
               /\ \A c \in Lengths : Accounts(t, S, c, b)
    <2>1. blk[b].list = "none" /\ blk[b].state \in {"ACTIVE", "INACTIVE"}
      BY DEF LInv, Aloft, IInv, ThreadOK
    <2>2. Listed(blk'[b]) /\ ~Adrift(blk'[b])
      BY DEF Arrives, Listed, Adrift
    <2>3. ASSUME NEW c \in Lengths PROVE Accounts(t, S, c, b)
      <3>1. c \in {"proactive", "cur_pin", "active", "inactive", "num_pin"}
        BY DEF Lengths
      <3>2. \A k : <<t, c, k, b>> \in S <=>
              /\ k = "add"
              /\ \/ c = "proactive" /\ ~Has(blk[b], "PROACTIVE")
                 \/ c = "cur_pin" /\ l = "pin"
        BY DEF Charges
      <3> QED BY <2>1, <3>1, <3>2 DEF Arrives, Accounts, Counts
    <2> QED BY <2>2, <2>3
  <1>5. PagesMove({}, {})
    <2>1. \A b \in Blocks : blk'[b].page <=> blk[b].page
      BY DEF Arrives
    <2> QED BY <2>1, SamePages
  <1>6. Off(th[t]) \ M \subseteq Off(th'[t])
    BY <1>2 DEF Off
  <1> QED BY <1>1, <1>3, <1>4, <1>5, <1>6, BatchBook

LEMMA MoveToPinLists ==
    ASSUME IInv, LInv, NEW t \in Threads, StepOK(t), MoveToPin(t)
    PROVE  LInv'
  <1> DEFINE M == Flagged(th[t].up, "PINNED")
             N == M \ Flagged(M, "PROACTIVE")
             S == Adds(t, "cur_pin", M) \cup Adds(t, "proactive", N)
  <1>1. /\ Runs(t) /\ Owe(S) /\ UNCHANGED <<len, free>>
        /\ th' = [th EXCEPT ![t].up = @ \ M]
        /\ M \subseteq th[t].up /\ M \in SUBSET Blocks /\ N \in SUBSET M
        /\ \A b \in M : Has(blk[b], "PINNED") /\ (b \in N <=> ~Has(blk[b], "PROACTIVE"))
    BY InHand DEF MoveToPin, Flagged
  <1>2. /\ \A b \in M : blk'[b] = Unlock(move_to_pin_list(blk[b], blk[b].state = "ACTIVE"))
        /\ \A b \in Blocks \ M : blk'[b] = blk[b]
    BY <1>1 DEF MoveToPin, Update
  <1> HIDE DEF M, N
  <1>3. /\ S \in SUBSET Bill(t, M)
        /\ \A c, k, b : <<t, c, k, b>> \in S <=>
              k = "add" /\ ((c = "proactive" /\ b \in N) \/ (c = "cur_pin" /\ b \in M))
    <2>1. "cur_pin" \in Counters /\ "proactive" \in Counters /\ M \in SUBSET M
      BY DEF Counters
    <2>2. /\ Adds(t, "cur_pin", M) \in SUBSET Bill(t, M)
          /\ \A c, k, b : <<t, c, k, b>> \in Adds(t, "cur_pin", M)
                            <=> c = "cur_pin" /\ k = "add" /\ b \in M
      BY <1>1, <2>1, AddsBill
    <2>3. /\ Adds(t, "proactive", N) \in SUBSET Bill(t, M)
          /\ \A c, k, b : <<t, c, k, b>> \in Adds(t, "proactive", N)
                            <=> c = "proactive" /\ k = "add" /\ b \in N
      BY <1>1, <2>1, AddsBill
    <2>4. \A x : x \in S <=> x \in Adds(t, "cur_pin", M) \/ x \in Adds(t, "proactive", N)
      OBVIOUS
    <2> HIDE DEF S
    <2>5. S \in SUBSET Bill(t, M)
      BY <2>2, <2>3, <2>4
    <2>6. \A c, k, b : <<t, c, k, b>> \in S <=>
             k = "add" /\ ((c = "proactive" /\ b \in N) \/ (c = "cur_pin" /\ b \in M))
      BY <2>2, <2>3, <2>4
    <2> QED BY <2>5, <2>6
  <1> HIDE DEF S
  <1>4. \A b \in M : Arrives(blk[b], blk'[b], "pin")
    <2> SUFFICES ASSUME NEW b \in M PROVE Arrives(blk[b], blk'[b], "pin")
      OBVIOUS
    <2>1. blk[b] \in Block /\ (blk[b].state = "ACTIVE") \in BOOLEAN
      BY <1>1 DEF IInv, TypeOK
    <2> QED BY <1>2, <2>1, PinnedRecord
  <1>5. Charges(t, S, M, "pin")
    BY <1>1, <1>3 DEF Charges
  <1> QED BY <1>1, <1>2, <1>3, <1>4, <1>5, ArriveLists

LEMMA PromoteLists ==
    ASSUME IInv, LInv, NEW t \in Threads, StepOK(t), Promote(t)
    PROVE  LInv'
  <1> DEFINE M == th[t].up
             inactive == {b \in M : blk[b].state = "INACTIVE"}
             N == M \ Flagged(M, "PROACTIVE")
             S == Adds(t, "proactive", N)
  <1>1. /\ Runs(t) /\ Owe(S) /\ UNCHANGED <<len, free>>
        /\ th' = [th EXCEPT ![t].up = @ \ M]
        /\ M \in SUBSET Blocks /\ N \in SUBSET M
        /\ \A b \in M : b \in N <=> ~Has(blk[b], "PROACTIVE")
    <2>1. th[t].up \ M = {}
      OBVIOUS
    <2> QED BY <2>1, InHand DEF Promote, Flagged
  <1>2. /\ \A b \in M : blk'[b] \in {Unlock(promote_gpas(check_eager_wbr(blk[b]), FALSE)),
                                     Unlock(promote_gpas(blk[b], TRUE))}
        /\ \A b \in Blocks \ M : blk'[b] = blk[b]
    BY <1>1 DEF Promote, Update
  <1>3. M \subseteq th[t].up
    OBVIOUS
  <1> HIDE DEF M, N
  <1>4. /\ S \in SUBSET Bill(t, M)
        /\ \A c, k, b : <<t, c, k, b>> \in S <=> c = "proactive" /\ k = "add" /\ b \in N
    <2>1. "proactive" \in Counters
      BY DEF Counters
    <2> QED BY <1>1, <2>1, AddsBill
  <1> HIDE DEF S
  <1>5. \A b \in M : Arrives(blk[b], blk'[b], "proactive")
    <2> SUFFICES ASSUME NEW b \in M PROVE Arrives(blk[b], blk'[b], "proactive")
      OBVIOUS
    <2>1. Sane(blk[b]) /\ blk[b] \in Block /\ TRUE \in BOOLEAN
      BY <1>1, BlocksSane DEF Sane
    <2>2. CASE blk'[b] = Unlock(promote_gpas(check_eager_wbr(blk[b]), FALSE))
      BY <2>1, <2>2, PromotedInactive
    <2>3. CASE blk'[b] = Unlock(promote_gpas(blk[b], TRUE))
      BY <2>1, <2>3, PromotedRecord
    <2> QED BY <1>2, <2>2, <2>3
  <1>6. Charges(t, S, M, "proactive")
    BY <1>1, <1>4 DEF Charges
  <1>7. /\ \A b \in Blocks \ M : blk'[b] = blk[b]
        /\ S \in SUBSET Bill(t, M) /\ Owe(S) /\ Runs(t)
        /\ th' = [th EXCEPT ![t].up = @ \ M] /\ UNCHANGED <<len, free>>
        /\ "proactive" \in {"proactive", "pin"}
        /\ \A b \in M : "proactive" = "pin" => Has(blk[b], "PINNED")
    BY <1>1, <1>2, <1>4
  <1> QED BY <1>3, <1>5, <1>6, <1>7, ArriveLists

-----------------------------------------------------------------------------
(* Steps that let blocks go which are on a list, or lost to a failure.     *)
LEMMA PostedAlike ==
    ASSUME NEW r, Sane(r)
    PROVE  /\ \A e \in evict_block_errors(r) : Alike(r, Unlock(e))
           /\ Alike(r, Unlock(eager_evict(r)))
           /\ Alike(r, Unlock(r))
  <1> DEFINE c == clear_block_w(r)
  <1>1. Alike(r, c) /\ c \in Block
    BY ClearAlike DEF Sane
  <1>2. /\ \A e \in evict_block_errors(r) : \E m : e = [c EXCEPT !.remote = m]
        /\ eager_evict(r) = Set(post_writeback(c, "eager"), {"EAGER_WBR"})
    <2>1. ASSUME NEW e \in evict_block_errors(r) PROVE \E m : e = [c EXCEPT !.remote = m]
      <3> DEFINE q == [c EXCEPT !.remote = IF @ = "none" THEN "stale" ELSE @]
      <3>1. e \in {free_remote_page(q), c}
        BY DEF evict_block_errors
      <3> HIDE DEF c
      <3>2. c = [c EXCEPT !.remote = c.remote]
        BY <1>1 DEF Block
      <3>3. \E m : free_remote_page(q) = [c EXCEPT !.remote = m]
        <4>1. \A m : [q EXCEPT !.remote = m] = [c EXCEPT !.remote = m]
          BY <1>1 DEF Block
        <4>2. \E m : free_remote_page(q) = [q EXCEPT !.remote = m]
          BY DEF free_remote_page
        <4> QED BY <4>1, <4>2
      <3> QED BY <3>1, <3>2, <3>3
    <2> QED BY <2>1 DEF eager_evict
  <1> HIDE DEF c
  <1>3. \A m : Alike(c, Unlock([c EXCEPT !.remote = m]))
    BY <1>1 DEF Alike, Unlock, Has, Block
  <1>4. Alike(c, Unlock(Set(post_writeback(c, "eager"), {"EAGER_WBR"})))
    BY <1>1 DEF Alike, Unlock, Set, post_writeback, Has, Block
  <1> QED BY <1>1, <1>2, <1>3, <1>4, AlikeTransitive, LockAlike

LEMMA DemotedLists ==
    ASSUME IInv, LInv, NEW t \in Threads, StepOK(t), Demoted(t)
    PROVE  LInv'
  <1>1. th[t].pc = "demoted" /\ th[t].up = {} /\ th[t].vs \in SUBSET Blocks
    BY InHand DEF Demoted, At
  <1>2. ASSUME NEW b \in Blocks PROVE Alike(blk[b], blk'[b])
    <2>1. blk'[b] \in {blk[b], Unlock(blk[b])} /\ Sane(blk[b])
      BY BlocksSane DEF Demoted, Update
    <2> QED BY <2>1, AlikeSelf, LockAlike
  <1>3. Quiet
    BY <1>2 DEF Quiet, Demoted
  <1>4. Off(th[t]) = {} /\ th'[t].up = {}
    <2>1. GotoWith(t, "active", {}) /\ "active" \in PCs
      BY DEF Demoted, PCs
    <2> QED BY <1>1, <2>1, GotoWithType DEF Stands, Off
  <1> QED BY <1>3, <1>4, QuietStep

LEMMA WriteEagerlyLists ==
    ASSUME IInv, LInv, NEW t \in Threads, StepOK(t), WriteEagerly(t)
    PROVE  LInv'
  <1> DEFINE vs == th[t].vs
             able == IF EagerWriteback THEN {b \in vs : check_block_free(blk[b])} ELSE {}
  <1>1. th[t].pc = "eager" /\ th[t].up = {} /\ vs \in SUBSET Blocks
    BY InHand DEF WriteEagerly, At
  <1>2. PICK E \in SUBSET able :
             \/ Update(vs, LAMBDA b : Unlock(IF b \in E THEN eager_evict(blk[b]) ELSE blk[b]))
             \/ \E f \in able \ E : \E r \in evict_block_errors(blk[f]) :
                   Update(vs, LAMBDA b : Unlock(IF b = f THEN r
                                                ELSE IF b \in E THEN eager_evict(blk[b])
                                                ELSE blk[b]))
    BY DEF WriteEagerly
  <1>3. ASSUME NEW b \in Blocks
        PROVE  \/ blk'[b] \in {blk[b], Unlock(blk[b]), Unlock(eager_evict(blk[b]))}
               \/ \E r \in evict_block_errors(blk[b]) : blk'[b] = Unlock(r)
    <2>1. CASE Update(vs, LAMBDA a : Unlock(IF a \in E THEN eager_evict(blk[a]) ELSE blk[a]))
      BY <2>1 DEF Update
    <2>2. ASSUME NEW f \in able \ E, NEW r \in evict_block_errors(blk[f]),
                 Update(vs, LAMBDA a : Unlock(IF a = f THEN r
                                              ELSE IF a \in E THEN eager_evict(blk[a])
                                              ELSE blk[a]))
          PROVE  \/ blk'[b] \in {blk[b], Unlock(blk[b]), Unlock(eager_evict(blk[b]))}
                 \/ \E e \in evict_block_errors(blk[b]) : blk'[b] = Unlock(e)
      BY <2>2 DEF Update
    <2> QED BY <1>2, <2>1, <2>2
  <1>4. \A b \in Blocks : Alike(blk[b], blk'[b])
    BY <1>3, BlocksSane, AlikeSelf, PostedAlike
  <1>5. Quiet
    BY <1>4 DEF Quiet, WriteEagerly
  <1>6. Off(th[t]) = {} /\ th'[t].up = {}
    <2>1. "inactive" \in PCs /\ "error" \in PCs /\ {} \in SUBSET Blocks
      BY DEF PCs
    <2>2. Leave(t) \/ GotoWith(t, "inactive", {}) \/ GotoWith(t, "error", {})
      BY DEF WriteEagerly
    <2> QED BY <1>1, <2>1, <2>2, LeaveIdle, GotoWithType DEF Stands, Off
  <1> QED BY <1>5, <1>6, QuietStep

LEMMA ReleaseLists ==
    ASSUME IInv, LInv, NEW t \in Threads, StepOK(t), Release(t)
    PROVE  LInv'
  <1> DEFINE released == {b \in th[t].vs : blk[b].state = "INIT"}
             rest == th[t].vs \ released
  <1>1. th[t].pc = "release" /\ th[t].up = {} /\ th[t].vs \in SUBSET Blocks
    BY InHand DEF Release, At
  <1>2. ASSUME NEW b \in Blocks PROVE Alike(blk[b], blk'[b])
    <2>1. blk'[b] \in {blk[b], Unlock(blk[b])} /\ Sane(blk[b])
      BY BlocksSane DEF Release, Update
    <2> QED BY <2>1, AlikeSelf, LockAlike
  <1>3. Quiet
    BY <1>2 DEF Quiet, Release
  <1>4. th'[t].up = {} /\ \A b \in rest : b \in Off(th'[t])
    <2>1. CASE th[t].vs = released
      <3>1. Return(t)
        BY <2>1 DEF Release
      <3> QED BY <1>1, <2>1, <3>1, ReturnType DEF Stands
    <2>2. CASE th[t].vs # released
      <3>1. GotoWith(t, "evict", rest) /\ "evict" \in PCs /\ rest \in SUBSET Blocks
        BY <1>1, <2>2 DEF Release, PCs
      <3> QED BY <1>1, <3>1, GotoWithType DEF Stands, Off
    <2> QED BY <2>1, <2>2
  <1>5. \A b \in Off(th[t]) : Adrift(blk[b]) => b \in Off(th'[t])
    BY <1>1, <1>4 DEF Off, Adrift
  <1> QED BY <1>3, <1>4, <1>5, QuietStep

LEMMA EvictFailLists ==
    ASSUME IInv, LInv, NEW t \in Threads, StepOK(t), NEW b \in Blocks, EvictFail(t, b)
    PROVE  LInv'
  <1> DEFINE e == AfterNeedCheck(check_eager_wbr(blk[b]))
  <1>1. /\ DonorMayFail /\ UNCHANGED <<len, owed, free>> /\ GotoWith(t, "error", {})
        /\ th[t].pc = "evict" /\ th[t].up = {}
    BY DEF EvictFail, At
  <1>2. ASSUME NEW c \in Blocks PROVE Alike(blk[c], blk'[c])
    <2>1. \/ blk'[c] \in {blk[c], Unlock(blk[c])}
          \/ c = b /\ \E r \in evict_block_errors(e) : blk'[c] = Unlock(r)
      BY DEF EvictFail, Update
    <2>2. Sane(blk[c]) /\ Sane(blk[b])
      BY BlocksSane
    <2>3. Drained(blk[b], e) /\ Sane(e)
      BY <2>2, NeedCheckSane
    <2> HIDE DEF e
    <2>4. \A r \in evict_block_errors(e) : Alike(blk[b], Unlock(r))
      BY <2>2, <2>3, DrainedAlike, PostedAlike, AlikeTransitive
    <2> QED BY <2>1, <2>2, <2>4, AlikeSelf, LockAlike
  <1>3. Quiet
    BY <1>1, <1>2 DEF Quiet
  <1>4. th'[t].up = {}
    <2>1. "error" \in PCs
      BY DEF PCs
    <2> QED BY <1>1, <2>1, GotoWithType DEF Stands
  <1>5. \A c \in Off(th[t]) : ~Adrift(blk[c])
    BY <1>1 DEF Off, Adrift, IInv, ThreadOK, VictimOf
  <1> QED BY <1>3, <1>4, <1>5, QuietStep

-----------------------------------------------------------------------------
LEMMA WorkLists ==
    ASSUME IInv, LInv, NEW t \in Threads, Work(t)
    PROVE  LInv'
  <1>1. StepOK(t)
    BY WorkStep
  <1>2. CASE \E b \in Blocks :
                \/ FaultActive(t, b) \/ FaultInactive(t, b) \/ FaultWriteback(t, b)
                \/ FaultInvalid(t, b) \/ FaultRemote(t, b) \/ Fetch(t, b) \/ MapBlock(t, b)
                \/ EvictClean(t, b) \/ EvictPost(t, b) \/ EvictFail(t, b)
                \/ ReapForPage(t, b)
    BY <1>1, <1>2, FaultActiveLists, FaultInactiveLists, FaultWritebackLists, SkipLists,
       FetchLists, MapBlockLists, EvictCleanLists, EvictPostLists, EvictFailLists, ReapLists
  <1>3. CASE \/ \E c \in Counters : AdjustLength(t, c)
             \/ MoveToPin(t) \/ Promote(t)
    BY <1>1, <1>3, AdjustLengthLists, MoveToPinLists, PromoteLists
  <1>4. CASE \/ AllocReclaim(t) \/ ReapDone(t) \/ Finish(t) \/ Fail(t)
             \/ SkipProactive(t) \/ SkipUnpin(t) \/ SkipActive(t) \/ SkipInactive(t)
    BY <1>1, <1>4, SkipLists, ReapDoneLists, UnlockLists
  <1>5. CASE \/ UpdateProactive(t) \/ UnpinVictims(t) \/ Demote(t) \/ Demoted(t)
             \/ UpdateActive(t) \/ UnmapVictims(t) \/ WriteEagerly(t)
             \/ UpdateInactive(t) \/ Release(t)
    BY <1>1, <1>5, UpdateProactiveLists, UnpinVictimsLists, DemoteLists, DemotedLists,
       UpdateActiveLists, UnmapVictimsLists, WriteEagerlyLists, UpdateInactiveLists,
       ReleaseLists
  <1> QED BY <1>2, <1>3, <1>4, <1>5 DEF Work

LEMMA SyscallLists ==
    ASSUME IInv, LInv, NEW t \in Threads, Syscall(t)
    PROVE  LInv'
  <1>1. StepOK(t)
    BY SyscallStep
  <1>2. PICK b \in Blocks :
           \/ \E op \in {"read", "write"} : FaultLock(t, b, op)
           \/ ReapAhead(t, b)
           \/ Pin(t, b) \/ Unpin(t, b) \/ Prefetch(t, b) \/ Populate(t, b) \/ DontNeed(t, b)
    BY DEF Syscall
  <1> QED BY <1>1, <1>2, FaultLockLists, ReapLists, PinLists, UnpinLists, PrefetchLists,
             PopulateLists, DontNeedLists

LEMMA NextLists ==
    ASSUME IInv, LInv, [Next]_vars
    PROVE  LInv'
  <1>1. CASE UNCHANGED vars
    <2>1. UNCHANGED <<blk, th, len, owed, free>>
      BY <1>1 DEF vars
    <2>2. AllListed' /\ Afloat' /\ Aloft'
      BY <2>1 DEF LInv, AllListed, Afloat, Aloft
    <2>3. \A c, k : Of(Due(c), k)' = Of(Due(c), k)
      BY <2>1 DEF Of, Due
    <2>4. \A c : Settled(c)' = Settled(c)
      BY <2>1, <2>3 DEF Settled
    <2>5. Exact'
      BY <2>1, <2>4 DEF LInv, Exact, Amount, Members
    <2>6. Countable'
      BY <2>3 DEF LInv, Countable
    <2> QED BY <2>2, <2>5, <2>6 DEF LInv
  <1>2. ASSUME NEW t \in Threads, Work(t) \/ Syscall(t) PROVE LInv'
    BY <1>2, WorkLists, SyscallLists
  <1>3. ASSUME NEW b \in Blocks, Write(b) \/ CompleteIO(b) PROVE LInv'
    BY <1>3, MemoryLists
  <1> QED BY <1>1, <1>2, <1>3 DEF Next, Halted

LEMMA InitLists == Init => LInv
  <1> SUFFICES ASSUME Init PROVE LInv
    OBVIOUS
  <1>1. \A b \in Blocks : blk[b] = NewBlock
    BY DEF Init
  <1>2. AllListed /\ Afloat /\ Aloft
    BY <1>1 DEF AllListed, Afloat, Aloft, Listed, Adrift, NewBlock, Has, Init, IdleThread
  <1>3. \A c, k : Of(Due(c), k) = {}
    BY DEF Init, Of, Due
  <1>4. IsFiniteSet({}) /\ Cardinality({}) = 0
    BY FS_EmptySet
  <1>5. ASSUME NEW c \in Classes PROVE Amount(c) = Cardinality(Members(c))
    <2>1. Members(c) = {}
      BY <1>1 DEF Members, Counts, NewBlock, Has
    <2>2. CASE c = "page"
      BY <1>4, <2>1, <2>2, LifecycleAssumption DEF Init, Amount
    <2>3. CASE c # "page"
      <3>1. len[c] = 0
        BY <2>3 DEF Init, Classes, Lengths, Counters
      <3>2. Settled(c) = 0
        BY <1>3, <1>4, <3>1 DEF Settled
      <3> QED BY <1>4, <2>1, <2>3, <3>2 DEF Amount
    <2> QED BY <2>2, <2>3
  <1>6. Countable
    BY <1>3, <1>4 DEF Countable
  <1> QED BY <1>2, <1>5, <1>6 DEF LInv, Exact

(* The two inductive invariants hold together.                             *)
THEOREM ListsInductive == Spec => [](IInv /\ LInv)
  BY InitHolds, InitLists, NextStep, NextLists, PTL DEF Spec

-----------------------------------------------------------------------------
(* The lengths reclaim decides by lag behind the lists, by what threads    *)
(* have still to add and to subtract once they have let go of the list and *)
(* often of the blocks.  But nothing is forgotten or paid twice: at every  *)
(* moment a length and what is still owed to it make the number of blocks  *)
(* it stands for, and no page of the cache is lost or handed out twice,    *)
(* whatever the threads, the hints and the failures of the donors.         *)
THEOREM LengthsStayExact == Spec => []LengthsExact
  <1>1. ASSUME IInv, LInv PROVE LengthsExact
    <2>1. \A c \in {"proactive", "cur_pin", "active", "inactive", "page"} :
             Amount(c) = Cardinality(Members(c))
      BY <1>1 DEF LInv, Exact, Classes, Lengths
    <2>2. Settled("proactive") = Count(LAMBDA r : Has(r, "PROACTIVE"))
      <3>1. Members("proactive") = {b \in Blocks : Has(blk[b], "PROACTIVE")}
        BY DEF Members, Counts
      <3> QED BY <2>1, <3>1 DEF Amount, Count
    <2>3. Settled("cur_pin") = Count(LAMBDA r : r.list = "pin")
      <3>1. Members("cur_pin") = {b \in Blocks : blk[b].list = "pin"}
        BY DEF Members, Counts
      <3> QED BY <2>1, <3>1 DEF Amount, Count
    <2>4. Settled("active") = Count(LAMBDA r : r.list = "active")
      <3>1. Members("active") = {b \in Blocks : blk[b].list = "active"}
        BY DEF Members, Counts
      <3> QED BY <2>1, <3>1 DEF Amount, Count
    <2>5. Settled("inactive")
             = Count(LAMBDA r : r.list = "inactive" \/ r.state \in {"TRANS_IL", "WB"})
      <3>1. Members("inactive")
              = {b \in Blocks : blk[b].list = "inactive" \/ blk[b].state \in {"TRANS_IL", "WB"}}
        BY DEF Members, Counts
      <3> QED BY <2>1, <3>1 DEF Amount, Count
    <2>6. free + Count(LAMBDA r : r.page) = Pages
      <3>1. Members("page") = {b \in Blocks : blk[b].page}
        BY DEF Members, Counts
      <3>2. Pages - free = Cardinality(Members("page"))
        BY <2>1 DEF Amount
      <3>3. free + Cardinality(Members("page")) = Pages
        <4>1. free \in Nat /\ Pages \in Nat /\ Cardinality(Members("page")) \in Nat
          BY <1>1, LengthTypes, FiniteBlocks DEF Members
        <4> QED BY <3>2, <4>1
      <3> QED BY <3>1, <3>3 DEF Count
    <2> QED BY <2>2, <2>3, <2>4, <2>5, <2>6 DEF LengthsExact
  <1> QED BY <1>1, ListsInductive, PTL

(* num_pin_blocks, with what is still owed to it, is the number of pinned  *)
(* blocks, and stays it as long as nobody calls madvise(DONTNEED), which   *)
(* clears GPA_PINNED_MASK and leaves the counter alone.                    *)
THEOREM NumPinStaysExact ==
    ASSUME "dontneed" \notin Ops
    PROVE  Spec => []NumPinExact
  <1>1. ASSUME LInv PROVE NumPinExact
    <2>1. Amount("num_pin") = Cardinality(Members("num_pin"))
      BY <1>1 DEF LInv, Exact, Classes, Lengths
    <2>2. Members("num_pin") = {b \in Blocks : Has(blk[b], "PINNED")}
      BY DEF Members, Counts
    <2> QED BY <2>1, <2>2 DEF Amount, Count, NumPinExact
  <1> QED BY <1>1, ListsInductive, PTL

(* Whoever locks a block finds it on the list of its state and its mask:   *)
(* a block taken off its list is in the hands of a thread that holds its   *)
(* lock, as long as no writeback fails.                                    *)
THEOREM ListsAgreeWithStates ==
    ASSUME ~DonorMayFail
    PROVE  Spec => []ListAgreesWithState
  <1>1. ASSUME IInv, LInv PROVE ListAgreesWithState
    <2>1. SUFFICES ASSUME NEW b \in Blocks, Free(b) PROVE blk[b].list \in ListOf(blk[b])
      BY DEF ListAgreesWithState
    <2>2. ~Adrift(blk[b]) /\ Sane(blk[b]) /\ Listed(blk[b])
      BY <1>1, <2>1, OnSomeList DEF Free
    <2> QED BY <2>2, ListFacts DEF Listed, Adrift, ListOf, States, Lists
  <1> QED BY <1>1, ListsInductive, PTL
=============================================================================
