-------------------------- MODULE BlockLocksProofs --------------------------
(***************************************************************************)
(* Proofs about BlockLocks as long as no thread faults on writes after a   *)
(* fork (NoWriters): whatever the number of threads, views, groups and     *)
(* orders, and however blocks are stretched and reduced, the directory is  *)
(* published whole, no lock is left behind, and a thread that owns a head  *)
(* has the whole block around it to itself (BlockOwners).                  *)
(*                                                                         *)
(* The invariant says which locks a thread holds (LocksKept), what the     *)
(* directory may look like (DirKept), and that descriptors of one block    *)
(* agree on its order, but for the range one thread is just working on,    *)
(* all of whose heads it holds (Agreed, Working).                          *)
(***************************************************************************)
EXTENDS BlockLocks, FiniteSetTheorems, TLAPS

NoWriters == \A c \in Configs : c.writers = {}

(* Thread records are functions on these fields.                           *)
Fields == {"pc", "op", "v", "i", "dem", "gpa", "hd", "bd", "own", "old", "new",
           "k", "end", "nxt"}
Fun(x) == DOMAIN x = Fields /\ x = [f \in Fields |-> x[f]]

(* The places of a thread: it has a head and holds it but does not own it, *)
(* it owns it, and it is about to change orders.                           *)
HdHeld == {"checkdir", "checkhead", "giveup", "awaited"}
HdOwned == {"fetched", "trybuddy", "buddy", "stretch", "victim", "tryall", "undo",
            "single", "halve", "hinted"}
HdSome == HdHeld \cup HdOwned \cup {"await", "spin"}
IsHead == {"fetched", "trybuddy", "buddy", "victim", "tryall", "undo", "hinted"}
NewHeld == {"publish", "fill"}
HasBuddy == {"trybuddy", "buddy"}
Changing == {"stretch", "single", "halve"}
Looking == {"derive", "spin", "checkdir", "checkhead", "giveup"}
Pcs == {"idle", "get", "new", "got", "stretched", "flush", "done"}
            \cup HdSome \cup NewHeld \cup Looking

Known(g) == g \in Groups /\ \E v \in Views, s \in Subs : dir[v][s] = g

ThreadKept(t) ==
    LET x == th[t] IN
    /\ Fun(x)
    /\ x.pc \in Pcs /\ x.op \in {"none", "fault", "hint", "evict"}
    /\ x.pc = "idle" => x.own = {}
    /\ x.pc # "idle" => x.nxt \in {"fetched", "hinted", "victim"}
    /\ x.v \in Views /\ x.i \in Int
    /\ x.pc \notin {"idle", "done", "flush"} => x.i \in Subs
    /\ x.pc \in {"flush"} => x.i \in Subs \cup {Len}
    /\ x.own \subseteq Descs
    /\ x.pc \in Looking => Known(x.gpa)
    /\ x.pc \in Looking /\ x.op # "evict" => dir[x.v][x.i] # NoGroup
    /\ x.pc = "checkdir" => x.op # "evict"
    /\ x.pc \in HdSome => x.hd \in Descs /\ Known(x.hd[1])
    /\ \A h \in x.own : Known(h[1])
    /\ x.gpa \in Groups \cup {NoGroup}
    /\ x.pc \in NewHeld => x.new \in Groups

(* The locks of a thread, and those of them it does not own yet.           *)
Extra(t) ==
    IF th[t].pc \in HdHeld THEN {th[t].hd}
    ELSE IF th[t].pc = "buddy" THEN {th[t].bd}
    ELSE IF th[t].pc \in NewHeld THEN {<<th[t].new, 0>>}
    ELSE {}
Locks(t) == th[t].own \cup Extra(t)

ThreadLocks(t) ==
    /\ th[t].own \cap Extra(t) = {} /\ Extra(t) \subseteq Descs
    /\ th[t].pc \in HdOwned => th[t].hd \in th[t].own

LocksKept ==
    /\ lock \in [Groups -> [Subs -> Threads \cup {NoThread}]]
    /\ \A t \in Threads : \A d \in Descs : Held(d) = t <=> d \in Locks(t)
    /\ \A t \in Threads : ThreadLocks(t)

(* A thread that creates a group, or waits for the one that does.          *)
ThreadDir(t) ==
    LET x == th[t] IN
    /\ x.pc = "fill" => x.k \in Nat /\ dir[x.v][0] = x.new
    /\ x.pc = "publish" => x.new \notin fresh /\ \A v \in Views, s \in Subs : dir[v][s] # x.new
    /\ x.pc \in {"await", "awaited"} => dir[x.v][0] # NoGroup /\ x.hd = <<dir[x.v][0], 0>>
    /\ x.pc \in {"awaited", "got"} => \A s \in Subs : dir[x.v][s] # NoGroup

Fills(t, v, s) == At(t, "fill") /\ th[t].v = v /\ th[t].new = dir[v][0] /\ th[t].k <= s

DirKept ==
    /\ dir \in [Views -> [Subs -> Groups \cup {NoGroup}]]
    /\ fresh \subseteq Groups
    /\ \A v \in Views, s \in Subs : dir[v][s] \notin fresh
    /\ \A v \in Views, s \in Subs : dir[v][s] \in {NoGroup, dir[v][0]}
    /\ \A v \in Views, s \in Subs :
        dir[v][0] # NoGroup /\ dir[v][s] = NoGroup => \E t \in Threads : Fills(t, v, s)
    /\ \A t \in Threads : ThreadDir(t)

(***************************************************************************)
(* The range a thread gives a new order: one block of order p, whose       *)
(* descriptors go from order q to order r, the first of them already have. *)
(***************************************************************************)
start(t) == IF At(t, "stretch") /\ th[t].bd[2] < th[t].hd[2] THEN th[t].bd[2] ELSE th[t].hd[2]
InRange(t, s) == start(t) <= s /\ s < th[t].end
NewOrder(t, q) == IF At(t, "stretch") THEN q + 1 ELSE IF At(t, "halve") THEN q - 1 ELSE 0

WorkingOn(t, p, q) ==
    LET g == th[t].hd[1]
        r == NewOrder(t, q)
    IN  /\ p \in Orders /\ q \in 0 .. p /\ r \in 0 .. p
        /\ start(t) \in Subs /\ Head[p][start(t)] = start(t) /\ th[t].end = start(t) + Width[p]
        /\ th[t].k \in Int /\ InRange(t, th[t].k)
        /\ \A s \in Subs : InRange(t, s) =>
            /\ order[g][s] = IF s < th[t].k THEN r ELSE q
            /\ <<g, Head[q][s]>> \in th[t].own /\ <<g, Head[r][s]>> \in th[t].own
Working(t) == \E p, q \in Orders : WorkingOn(t, p, q)

Excepted(g, s, x) ==
    \E t \in Threads : /\ th[t].pc \in Changing /\ th[t].hd[1] = g
                       /\ InRange(t, s) /\ InRange(t, x)
Agreed ==
    \A g \in Groups : \A s, x \in Subs :
        Head[order[g][s]][x] = Head[order[g][s]][s] =>
            order[g][x] = order[g][s] \/ Excepted(g, s, x)

StepKept(t) ==
    LET x == th[t] IN
    /\ x.pc \in IsHead => emp_get_block_head(x.hd) = x.hd
    /\ x.pc \in HasBuddy => Ord(x.hd) < MaxOrder /\ x.bd = Buddy(x.hd) /\ x.bd \in Descs
    /\ x.pc \in {"tryall", "undo"} => Ord(x.hd) > 0 /\ x.end = Behind(x.hd)
    /\ x.pc = "tryall" =>
        /\ x.k \in Int /\ x.hd[2] < x.k /\ x.k <= x.end
        /\ \A s \in Subs : x.hd[2] <= s /\ s < x.k => <<x.hd[1], s>> \in x.own
    /\ x.pc \in Changing => Working(t)

OrderKept ==
    /\ order \in [Groups -> [Subs -> Orders]]
    /\ Agreed
    /\ \A t \in Threads : StepKept(t)

ThreadsKept ==
    /\ config \in Configs
    /\ th = [t \in Threads |-> th[t]]
    /\ \A t \in Threads : ThreadKept(t)

IInv == ThreadsKept /\ LocksKept /\ DirKept /\ OrderKept

-----------------------------------------------------------------------------
(***************************************************************************)
(* Blocks of an order: where they lie and how they divide.                 *)
(***************************************************************************)
LEMMA Sizes ==
    /\ MaxOrder \in Nat /\ 0 \in Orders /\ MaxOrder \in Orders
    /\ \A o \in Orders : Width[o] \in Nat /\ Width[o] >= 1 /\ Width[o] <= Len
    /\ \A o \in Orders : o # MaxOrder => o + 1 \in Orders /\ Width[o + 1] = 2 * Width[o]
    /\ Len \in Nat /\ 0 \in Subs
<1>1. MaxOrder \in Nat /\ 0 \in Orders /\ MaxOrder \in Orders
  BY LocksAssumption DEF Orders
<1>2. \A o \in Orders : Width[0] <= Width[o]
  BY <1>1, LocksAssumption DEF Orders
<1>3. \A o \in Orders : Width[o] \in Nat
  BY LocksAssumption
<1>4. Len \in Nat
  BY <1>1, <1>3 DEF Len
<1>5. \A o \in Orders : o # MaxOrder => o + 1 \in Orders /\ Width[o + 1] = 2 * Width[o]
  BY LocksAssumption DEF Orders
<1>6. Len >= 1 /\ 0 \in Subs
  BY <1>1, <1>2, <1>3, <1>4, LocksAssumption DEF Len
<1>7. \A o \in Orders : Width[o] >= 1 /\ Width[o] <= Len
  BY <1>1, <1>2, <1>3, <1>6, LocksAssumption DEF Len, Orders
<1>8. QED
  BY <1>1, <1>3, <1>4, <1>5, <1>6, <1>7

LEMMA Indices == Len \in Nat /\ Subs = 0 .. Len - 1 /\ Subs \subseteq Int /\ Len \notin Subs
<1>1. Len \in Nat /\ Subs = 0 .. Len - 1
  BY Sizes, LocksAssumption
<1>2. QED
  BY <1>1

LEMMA HeadType == Head \in [Orders -> [Subs -> Subs]]
  BY LocksAssumption

LEMMA Heads ==
    ASSUME NEW o \in Orders, NEW s \in Subs
    PROVE  /\ Head[o][s] \in Subs /\ Head[o][Head[o][s]] = Head[o][s]
           /\ Head[o][s] <= s /\ s < Head[o][s] + Width[o]
           /\ Head[o][s] + Width[o] <= Len
           /\ \A x \in Subs : Head[o][x] = Head[o][s]
                <=> Head[o][s] <= x /\ x < Head[o][s] + Width[o]
<1>1. o <= o
  BY DEF Orders
<1>2. Head[o][s] \in Subs
  BY HeadType
<1>3. Head[o][Head[o][s]] = Head[o][s] /\ Head[o][s] + Width[o] <= Len
  BY <1>1, LocksAssumption
<1>4. \A x \in Subs : Head[o][x] = Head[o][s]
                        <=> Head[o][s] <= x /\ x < Head[o][s] + Width[o]
  BY LocksAssumption
<1>5. QED
  BY <1>2, <1>3, <1>4

(* A block of the next order is made of two.                               *)
LEMMA Halves ==
    ASSUME NEW o \in Orders, o # MaxOrder, NEW s \in Subs
    PROVE  LET a == Head[o + 1][s]
               b == a + Width[o]
           IN  /\ o + 1 \in Orders
               /\ a \in Subs /\ Head[o][a] = a /\ Head[o + 1][a] = a
               /\ b \in Subs /\ Head[o][b] = b /\ Head[o + 1][b] = a
               /\ \A x \in Subs : Head[o + 1][x] = a => Head[o][x] \in {a, b}
<1> DEFINE a == Head[o + 1][s]
           b == a + Width[o]
<1>1. o + 1 \in Orders /\ o <= o + 1 /\ Width[o + 1] = 2 * Width[o]
        /\ Width[o] \in Nat /\ Width[o] >= 1 /\ Len \in Nat /\ Subs = 0 .. Len - 1
  BY Sizes, LocksAssumption DEF Orders
<1>2. a \in Subs /\ Head[o + 1][a] = a /\ a + Width[o + 1] <= Len
        /\ \A x \in Subs : Head[o + 1][x] = a <=> a <= x /\ x < a + Width[o + 1]
  BY <1>1, Heads
<1>3. Head[o][a] = a
  BY <1>1, LocksAssumption
<1> HIDE DEF a
<1>4. b \in Subs /\ Head[o + 1][b] = a
  BY <1>1, <1>2
<1>5. \A x \in Subs : Head[o][x] = a <=> a <= x /\ x < b
  BY <1>2, <1>3, Heads
<1>6. Head[o][b] = b
  <2> DEFINE h == Head[o][b]
  <2>1. h \in Subs /\ Head[o][h] = h /\ h <= b /\ b < h + Width[o]
    BY <1>4, Heads
  <2>2. h < b => Head[o][h] = a
    BY <2>1, <1>1, <1>2, <1>5
  <2>3. a \in Nat /\ b = a + Width[o] /\ h \in Nat /\ b \in Nat
    BY <2>1, <1>1, <1>2, <1>4
  <2>4. ~(h < b)
    <3>1. SUFFICES ASSUME h < b PROVE FALSE
      OBVIOUS
    <3>2. h = a
      BY <3>1, <2>1, <2>2
    <3>3. b < a + Width[o]
      BY <3>2, <2>1
    <3> HIDE DEF b, h
    <3>4. QED
      BY <3>3, <2>3, <1>1
  <2> HIDE DEF b, h
  <2>5. h = b
    BY <2>1, <2>3, <2>4
  <2>6. QED
    BY <2>5 DEF h
<1>7. \A x \in Subs : Head[o][x] = b <=> b <= x /\ x < b + Width[o]
  BY <1>4, <1>6, Heads
<1>8. ASSUME NEW x \in Subs, Head[o + 1][x] = a
      PROVE  Head[o][x] \in {a, b}
  <2>1. x \in Int /\ a \in Int /\ a <= x /\ x < b + Width[o]
    BY <1>1, <1>2, <1>8
  <2>2. CASE x < b
    BY <2>1, <2>2, <1>5
  <2>3. CASE b <= x
    BY <2>1, <2>3, <1>7
  <2>4. QED
    BY <2>1, <2>2, <2>3, <1>1
<1>9. QED
  BY <1>1, <1>2, <1>3, <1>4, <1>6, <1>8 DEF a

LEMMA IdleFun == Fun(Idle)
<1> DEFINE R(v, d) == [pc |-> "idle", op |-> "none", v |-> v, i |-> 0, dem |-> 0,
                         gpa |-> NoGroup, hd |-> d, bd |-> d, own |-> {}, old |-> NoGroup,
                         new |-> NoGroup, k |-> 0, end |-> 0, nxt |-> "idle"]
             w == CHOOSE v \in Views : TRUE
<1>3. \A v, d : R(v, d) = [f \in DOMAIN R(v, d) |-> R(v, d)[f]]
  OBVIOUS
<1>4. Idle = R(w, NoDesc)
  BY Zenon DEF Idle
<1> HIDE DEF R, w
<1>1. Idle = [f \in DOMAIN Idle |-> Idle[f]]
  BY <1>3, <1>4
<1>2. DOMAIN Idle = Fields
  BY DEF Idle, Fields
<1>5. QED
  BY <1>1, <1>2 DEF Fun


-----------------------------------------------------------------------------
(***************************************************************************)
(* What each step does, field by field.                                    *)
(***************************************************************************)
Only(t, F) == \A f \in Fields \ F : th'[t][f] = th[t][f]

LEMMA IdleFields ==
    /\ Fun(Idle) /\ Idle.pc = "idle" /\ Idle.op = "none" /\ Idle.i = 0
    /\ Idle.gpa = NoGroup /\ Idle.own = {}
    /\ Views # {} => Idle.v \in Views
  BY IdleFun DEF Idle

LEMMA BeginDoes ==
    ASSUME ThreadsKept, NEW t \in Threads, NEW op, NEW v, NEW i, NEW nxt, Begin(t, op, v, i, nxt)
    PROVE  /\ th[t].pc = "idle" /\ th'[t].pc = "get" /\ th'[t].op = op
           /\ th'[t].v = v /\ th'[t].i = i
           /\ th'[t].own = th[t].own /\ th'[t].gpa = NoGroup
           /\ th'[t].nxt = nxt
           /\ UNCHANGED <<dir, order, lock, fresh>>
<1>1. Idle = [f \in Fields |-> Idle[f]] /\ Idle.gpa = NoGroup
  BY IdleFields DEF Fun
<1>2. th'[t] = [Idle EXCEPT !.pc = "get", !.op = op, !.v = v, !.i = i,
                                            !.dem = i, !.nxt = nxt, !.own = th[t].own]
   BY DEF ThreadsKept, Begin
<1> HIDE DEF Idle
<1>3. th'[t].pc = "get" /\ th'[t].op = op /\ th'[t].v = v /\ th'[t].i = i
  BY <1>1, <1>2 DEF Fields
<1>4. th'[t].own = th[t].own
  BY <1>1, <1>2 DEF Fields
<1>5. th'[t].gpa = NoGroup
  BY <1>1, <1>2 DEF Fields
<1>6. th'[t].nxt = nxt
  BY <1>1, <1>2 DEF Fields
<1> QED
  BY <1>3, <1>4, <1>5, <1>6 DEF Begin, At

LEMMA NewDescDoes ==
    ASSUME ThreadsKept, NEW t \in Threads, NewDesc(t)
    PROVE  /\ th[t].pc = "new" /\ Only(t, {"new", "pc"})
           /\ th'[t].new \in fresh /\ th'[t].pc = "publish"
           /\ fresh' = fresh \ {th'[t].new} /\ Take(t, <<th'[t].new, 0>>)
           /\ order' = [order EXCEPT ![th'[t].new] = [s \in Subs |-> MaxOrder]]
           /\ UNCHANGED <<dir>>
<1>1. PICK g \in fresh :
        /\ fresh' = fresh \ {g} /\ order' = [order EXCEPT ![g] = [s \in Subs |-> MaxOrder]]
        /\ Take(t, <<g, 0>>) /\ th' = [th EXCEPT ![t].new = g, ![t].pc = "publish"]
  BY DEF NewDesc
<1>2. th'[t] = [th[t] EXCEPT !.new = g, !.pc = "publish"]
  BY <1>1 DEF ThreadsKept
<1>3. th'[t].new = g /\ th'[t].pc = "publish" /\ Only(t, {"new", "pc"})
  BY <1>2 DEF ThreadsKept, ThreadKept, Fun, Fields, Only
<1>4. QED
  BY <1>1, <1>3 DEF NewDesc, At

LEMMA PublishDoes ==
    ASSUME ThreadsKept, NEW t \in Threads, Publish(t)
    PROVE  /\ th[t].pc = "publish" /\ Only(t, {"k", "pc"})
           /\ dir[th[t].v][0] = NoGroup /\ th'[t].k = 1 /\ th'[t].pc = "fill"
           /\ dir' = [dir EXCEPT ![th[t].v][0] = th[t].new]
           /\ UNCHANGED <<order, lock, fresh>>
  BY DEF ThreadsKept, ThreadKept, Fun, Fields, Only, At, InDir, Publish

LEMMA LateAgainDoes ==
    ASSUME ThreadsKept, NEW t \in Threads, LateAgain(t)
    PROVE  /\ th[t].pc = "publish" /\ Only(t, {"new", "hd", "pc"})
           /\ dir[th[t].v][0] # NoGroup /\ th'[t].pc = "await"
           /\ th'[t].hd = <<dir[th[t].v][0], 0>>
           /\ fresh' = fresh \cup {th[t].new} /\ Drop(<<th[t].new, 0>>)
           /\ UNCHANGED <<dir, order>>
  BY DEF ThreadsKept, ThreadKept, Fun, Fields, Only, At, InDir, LateAgain

LEMMA AwaitDoes ==
    ASSUME ThreadsKept, NEW t \in Threads, Await(t)
    PROVE  /\ th[t].pc = "await" /\ Only(t, {"pc"})
           /\ th'[t].pc = "awaited" /\ Take(t, th[t].hd)
           /\ UNCHANGED <<dir, order, fresh>>
  BY DEF ThreadsKept, ThreadKept, Fun, Fields, Only, At, InDir, Await

LEMMA AwaitedDoes ==
    ASSUME ThreadsKept, NEW t \in Threads, Awaited(t)
    PROVE  /\ th[t].pc = "awaited" /\ Only(t, {"pc"})
           /\ th'[t].pc = "got" /\ Drop(th[t].hd)
           /\ UNCHANGED <<dir, order, fresh>>
  BY DEF ThreadsKept, ThreadKept, Fun, Fields, Only, At, InDir, Awaited

LEMMA GotDoes ==
    ASSUME ThreadsKept, NEW t \in Threads, Got(t)
    PROVE  /\ th[t].pc = "got" /\ Only(t, {"gpa", "pc", "new", "k"})
           /\ th'[t].pc = "derive" /\ th'[t].gpa = dir[th[t].v][th[t].i]
           /\ UNCHANGED <<dir, order, lock, fresh>>
  BY DEF ThreadsKept, ThreadKept, Fun, Fields, Only, At, InDir, Got, Found

LEMMA DeriveDoes ==
    ASSUME ThreadsKept, NEW t \in Threads, Derive(t)
    PROVE  /\ th[t].pc = "derive" /\ Only(t, {"hd", "pc"})
           /\ th'[t].pc = "spin" /\ th'[t].hd = emp_get_block_head(gpa(t))
           /\ UNCHANGED <<dir, order, lock, fresh>>
  BY DEF ThreadsKept, ThreadKept, Fun, Fields, Only, At, InDir, Derive

LEMMA SpinDoes ==
    ASSUME ThreadsKept, NEW t \in Threads, Spin(t)
    PROVE  /\ th[t].pc = "spin" /\ Only(t, {"pc"})
           /\ th'[t].pc = IF th[t].op = "evict" THEN "checkhead" ELSE "checkdir"
           /\ Take(t, th[t].hd)
           /\ UNCHANGED <<dir, order, fresh>>
  BY DEF ThreadsKept, ThreadKept, Fun, Fields, Only, At, InDir, Spin

LEMMA TryFailsDoes ==
    ASSUME ThreadsKept, NEW t \in Threads, TryFails(t)
    PROVE  /\ th[t].pc = "spin" /\ Only(t, {"pc"})
           /\ th'[t].pc = "done"
           /\ UNCHANGED <<dir, order, lock, fresh>>
  BY DEF ThreadsKept, ThreadKept, Fun, Fields, Only, At, InDir, TryFails

LEMMA CheckDirDoes ==
    ASSUME ThreadsKept, NEW t \in Threads, CheckDir(t)
    PROVE  /\ th[t].pc = "checkdir" /\ Only(t, {"gpa", "pc"})
           /\ th'[t].gpa = dir[th[t].v][th[t].i] /\ th'[t].pc \in {"checkhead", "giveup"}
           /\ UNCHANGED <<dir, order, lock, fresh>>
  BY DEF ThreadsKept, ThreadKept, Fun, Fields, Only, At, InDir, CheckDir

LEMMA GiveUpDoes ==
    ASSUME ThreadsKept, NEW t \in Threads, GiveUp(t)
    PROVE  /\ th[t].pc = "giveup" /\ Only(t, {"pc"})
           /\ th'[t].pc = "derive" /\ Drop(th[t].hd)
           /\ UNCHANGED <<dir, order, fresh>>
  BY DEF ThreadsKept, ThreadKept, Fun, Fields, Only, At, InDir, GiveUp

LEMMA DontStretchDoes ==
    ASSUME ThreadsKept, NEW t \in Threads, DontStretch(t)
    PROVE  /\ th[t].pc = "fetched" /\ Only(t, {"pc"})
           /\ th'[t].pc = "done"
           /\ UNCHANGED <<dir, order, lock, fresh>>
  BY DEF ThreadsKept, ThreadKept, Fun, Fields, Only, At, InDir, DontStretch

LEMMA PickBuddyDoes ==
    ASSUME ThreadsKept, NEW t \in Threads, PickBuddy(t)
    PROVE  /\ th[t].pc = "fetched" /\ Only(t, {"bd", "pc"})
           /\ th'[t].pc = "trybuddy" /\ th'[t].bd = Buddy(th[t].hd) /\ Ord(th[t].hd) < MaxOrder
           /\ UNCHANGED <<dir, order, lock, fresh>>
  BY DEF ThreadsKept, ThreadKept, Fun, Fields, Only, At, InDir, PickBuddy

LEMMA TryBuddyDoes ==
    ASSUME ThreadsKept, NEW t \in Threads, TryBuddy(t)
    PROVE  /\ th[t].pc = "trybuddy" /\ Only(t, {"pc"})
           /\ th'[t].pc = "buddy" /\ Take(t, th[t].bd)
           /\ UNCHANGED <<dir, order, fresh>>
  BY DEF ThreadsKept, ThreadKept, Fun, Fields, Only, At, InDir, TryBuddy

LEMMA BuddyBusyDoes ==
    ASSUME ThreadsKept, NEW t \in Threads, BuddyBusy(t)
    PROVE  /\ th[t].pc = "trybuddy" /\ Only(t, {"pc"})
           /\ th'[t].pc = "done"
           /\ UNCHANGED <<dir, order, lock, fresh>>
  BY DEF ThreadsKept, ThreadKept, Fun, Fields, Only, At, InDir, BuddyBusy

LEMMA UnsuitableDoes ==
    ASSUME ThreadsKept, NEW t \in Threads, Unsuitable(t)
    PROVE  /\ th[t].pc = "buddy" /\ Only(t, {"pc"})
           /\ th'[t].pc = "done" /\ Drop(th[t].bd)
           /\ UNCHANGED <<dir, order, fresh>>
  BY DEF ThreadsKept, ThreadKept, Fun, Fields, Only, At, InDir, Unsuitable

LEMMA SuitableDoes ==
    ASSUME ThreadsKept, NEW t \in Threads, Suitable(t)
    PROVE  /\ th[t].pc = "buddy" /\ Only(t, {"own", "pc", "k", "end"})
           /\ Ord(th[t].bd) = Ord(th[t].hd) /\ th'[t].pc = "stretch"
           /\ th'[t].own = th[t].own \cup {th[t].bd}
           /\ th'[t].k = Head[Ord(th[t].hd) + 1][th[t].hd[2]]
           /\ th'[t].end = th'[t].k + Width[Ord(th[t].hd) + 1]
           /\ UNCHANGED <<dir, order, lock, fresh>>
  BY DEF ThreadsKept, ThreadKept, Fun, Fields, Only, At, InDir, Suitable, OrderUnchanged

LEMMA DontReduceDoes ==
    ASSUME ThreadsKept, NEW t \in Threads, DontReduce(t)
    PROVE  /\ th[t].pc = "victim" /\ Only(t, {"pc"})
           /\ th'[t].pc = "done"
           /\ UNCHANGED <<dir, order, lock, fresh>>
  BY DEF ThreadsKept, ThreadKept, Fun, Fields, Only, At, InDir, DontReduce

LEMMA ReduceDoes ==
    ASSUME ThreadsKept, NEW t \in Threads, Reduce(t)
    PROVE  /\ th[t].pc = "victim" /\ Only(t, {"pc", "k", "end"})
           /\ th'[t].pc = "tryall" /\ Ord(th[t].hd) > 0
           /\ th'[t].k = th[t].hd[2] + 1 /\ th'[t].end = Behind(th[t].hd)
           /\ UNCHANGED <<dir, order, lock, fresh>>
  BY DEF ThreadsKept, ThreadKept, Fun, Fields, Only, At, InDir, Reduce

LEMMA TryAllDoes ==
    ASSUME ThreadsKept, NEW t \in Threads, TryAll(t)
    PROVE  /\ th[t].pc = "tryall" /\ Only(t, {"own", "k"})
           /\ th[t].k < th[t].end /\ th'[t].k = th[t].k + 1 /\ Take(t, <<th[t].hd[1], th[t].k>>)
           /\ th'[t].own = th[t].own \cup {<<th[t].hd[1], th[t].k>>}
           /\ UNCHANGED <<dir, order, fresh>>
  BY DEF ThreadsKept, ThreadKept, Fun, Fields, Only, At, InDir, TryAll

LEMMA TryAllFailsDoes ==
    ASSUME ThreadsKept, NEW t \in Threads, TryAllFails(t)
    PROVE  /\ th[t].pc = "tryall" /\ Only(t, {"pc"})
           /\ th'[t].pc = "undo"
           /\ UNCHANGED <<dir, order, lock, fresh>>
  BY DEF ThreadsKept, ThreadKept, Fun, Fields, Only, At, InDir, TryAllFails

LEMMA AllLockedDoes ==
    ASSUME ThreadsKept, NEW t \in Threads, AllLocked(t)
    PROVE  /\ th[t].pc = "tryall" /\ Only(t, {"k", "pc"})
           /\ th[t].k = th[t].end /\ th'[t].k = th[t].hd[2] /\ th'[t].pc = "single"
           /\ UNCHANGED <<dir, order, lock, fresh>>
  BY DEF ThreadsKept, ThreadKept, Fun, Fields, Only, At, InDir, AllLocked

LEMMA ReturnDoes ==
    ASSUME ThreadsKept, NEW t \in Threads, Return(t)
    PROVE  /\ th[t].pc = "done"
           /\ th[t].own = {} /\ th'[t] = Idle
           /\ UNCHANGED <<dir, order, lock, fresh>>
  BY DEF ThreadsKept, ThreadKept, Fun, Fields, Only, At, InDir, Return

LEMMA EvictDoes ==
    ASSUME ThreadsKept, NEW t \in Threads, Evict(t)
    PROVE  /\ th[t].pc = "idle" /\ th'[t].pc = "derive" /\ th'[t].op = "evict"
           /\ th'[t].v = Idle.v /\ th'[t].nxt = "victim"
           /\ \E v \in config.views, i \in config.at :
                dir[v][i] # NoGroup /\ th'[t].i = i /\ th'[t].gpa = dir[v][i]
           /\ th'[t].own = th[t].own
           /\ UNCHANGED <<dir, order, lock, fresh>>
<1>1. Idle = [f \in Fields |-> Idle[f]]
  BY IdleFields DEF Fun
<1>2. PICK v \in config.views, i \in config.at :
        /\ dir[v][i] # NoGroup
        /\ th'[t] = [Idle EXCEPT !.pc = "derive", !.op = "evict", !.i = i,
                            !.gpa = dir[v][i], !.nxt = "victim", !.own = th[t].own]
  BY DEF ThreadsKept, Evict
<1> HIDE DEF Idle
<1>3. th'[t].pc = "derive" /\ th'[t].op = "evict" /\ th'[t].i = i
  BY <1>1, <1>2 DEF Fields
<1>4. th'[t].gpa = dir[v][i] /\ th'[t].nxt = "victim"
  BY <1>1, <1>2 DEF Fields
<1>5. th'[t].own = th[t].own
  BY <1>1, <1>2 DEF Fields
<1>6. th'[t].v = Idle.v
  BY <1>1, <1>2 DEF Fields
<1> QED
  BY <1>2, <1>3, <1>4, <1>5, <1>6 DEF Evict, At

LEMMA GetDescDoes ==
    ASSUME ThreadsKept, NEW t \in Threads, GetDesc(t)
    PROVE  /\ th[t].pc = "get" /\ Only(t, {"gpa", "pc", "new", "k"})
           /\ \/ /\ dir[th[t].v][th[t].i] # NoGroup /\ th'[t].pc = "derive"
                 /\ th'[t].gpa = dir[th[t].v][th[t].i]
              \/ th'[t].pc \in {"done", "new"} /\ th'[t].gpa = th[t].gpa
           /\ UNCHANGED <<dir, order, lock, fresh>>
<1>1. CASE InDir(t, th[t].i) # NoGroup
  BY <1>1 DEF ThreadsKept, ThreadKept, Fun, Fields, Only, At, InDir, GetDesc, Found
<1>2. CASE InDir(t, th[t].i) = NoGroup
  BY <1>2 DEF ThreadsKept, ThreadKept, Fun, Fields, Only, At, InDir, GetDesc
<1>3. QED
  BY <1>1, <1>2

LEMMA FillDoes ==
    ASSUME ThreadsKept, NEW t \in Threads, Fill(t)
    PROVE  /\ th[t].pc = "fill" /\ UNCHANGED <<order, fresh>>
           /\ \/ /\ th[t].k < Len /\ th'[t].k = th[t].k + 1 /\ Only(t, {"k"})
                 /\ dir' = [dir EXCEPT ![th[t].v][th[t].k] = IF @ = NoGroup THEN th[t].new ELSE @]
                 /\ lock' = lock
              \/ /\ ~(th[t].k < Len) /\ th'[t].pc = "got" /\ Only(t, {"pc"})
                 /\ Drop(<<th[t].new, 0>>) /\ dir' = dir
<1>1. CASE th[t].k < Len
  BY <1>1 DEF ThreadsKept, ThreadKept, Fun, Fields, Only, At, Fill
<1>2. CASE ~(th[t].k < Len)
  BY <1>2 DEF ThreadsKept, ThreadKept, Fun, Fields, Only, At, Fill
<1>3. QED
  BY <1>1, <1>2

LEMMA CheckHeadDoes ==
    ASSUME ThreadsKept, NEW t \in Threads, CheckHead(t)
    PROVE  /\ th[t].pc = "checkhead" /\ Only(t, {"own", "pc"})
           /\ \/ /\ emp_get_block_head(gpa(t)) = th[t].hd /\ th'[t].pc = th[t].nxt
                 /\ th'[t].own = th[t].own \cup {th[t].hd}
              \/ th'[t].pc = "giveup" /\ th'[t].own = th[t].own
           /\ UNCHANGED <<dir, order, lock, fresh>>
<1>1. CASE emp_get_block_head(gpa(t)) = th[t].hd
  <2>1. th'[t] = [th[t] EXCEPT !.own = @ \cup {th[t].hd}, !.pc = th[t].nxt]
    BY <1>1 DEF ThreadsKept, CheckHead
  <2>2. Fun(th[t])
    BY DEF ThreadsKept, ThreadKept
  <2>3. th'[t].pc = th[t].nxt /\ th'[t].own = th[t].own \cup {th[t].hd}
    BY <2>1, <2>2 DEF Fun, Fields
  <2>4. Only(t, {"own", "pc"})
    BY <2>1, <2>2 DEF Fun, Fields, Only
  <2>5. QED
    BY <1>1, <2>3, <2>4 DEF CheckHead, At
<1>2. CASE emp_get_block_head(gpa(t)) # th[t].hd
  BY <1>2 DEF ThreadsKept, ThreadKept, Fun, Fields, Only, At, CheckHead
<1>3. QED
  BY <1>1, <1>2

LEMMA DisownDoes ==
    ASSUME ThreadsKept, NEW t \in Threads, NEW d, NEW pc, Disown(t, d, pc)
    PROVE  /\ th'[t].own = th[t].own \ {d} /\ th'[t].pc = pc /\ Only(t, {"own", "pc"})
           /\ Drop(d)
           /\ UNCHANGED <<dir, order, fresh>>
  BY DEF ThreadsKept, ThreadKept, Fun, Fields, Only, At, Disown

LEMMA TryHalfDoes ==
    ASSUME ThreadsKept, NEW t \in Threads, TryHalf(t)
    PROVE  LET h == th[t].hd
               d == <<h[1], h[2] + Width[Ord(h) - 1]>>
           IN  /\ th[t].pc = "undo" /\ th[t].own = {h} /\ Only(t, {"own", "bd", "pc", "k"})
               /\ \/ /\ Take(t, d) /\ th'[t].own = {h, d} /\ th'[t].k = h[2]
                     /\ th'[t].pc = "halve"
                  \/ /\ th'[t].pc = "done" /\ th'[t].own = {h} /\ UNCHANGED lock
               /\ UNCHANGED <<dir, order, fresh>>
<1> DEFINE h == th[t].hd
           d == <<h[1], h[2] + Width[Ord(h) - 1]>>
<1>0. th[t].pc = "undo" /\ th[t].own = {h} /\ UNCHANGED <<dir, order, fresh>>
  BY DEF TryHalf, At
<1>1. CASE Held(d) = NoThread
  <2>1. Take(t, d) /\ th'[t] = [th[t] EXCEPT !.own = @ \cup {d}, !.bd = d, !.pc = "halve",
                                !.k = th[t].hd[2]]
    BY <1>1 DEF ThreadsKept, TryHalf
  <2>2. Fun(th[t])
    BY DEF ThreadsKept, ThreadKept
  <2> HIDE DEF d
  <2>3. th'[t].own = {h, d}
    BY <1>0, <2>1, <2>2 DEF Fun, Fields
  <2>4. th'[t].k = h[2] /\ th'[t].pc = "halve"
    BY <2>1, <2>2 DEF Fun, Fields
  <2>5. Only(t, {"own", "bd", "pc", "k"})
    BY <2>1, <2>2 DEF Fun, Fields, Only
  <2>6. QED
    BY <1>0, <2>1, <2>3, <2>4, <2>5 DEF d
<1>2. CASE Held(d) # NoThread
  BY <1>0, <1>2 DEF ThreadsKept, ThreadKept, Fun, Fields, Only, At, TryHalf
<1>3. QED
  BY <1>1, <1>2

LEMMA RegradeDoes ==
    ASSUME ThreadsKept, NEW t \in Threads, Stretch(t) \/ Shrink(t)
    PROVE  LET g == th[t].hd[1]
               k == th[t].k
           IN  /\ th[t].pc \in Changing /\ Only(t, {"pc", "k"}) /\ th'[t].k = k + 1
               /\ th'[t].pc = IF k + 1 # th[t].end THEN th[t].pc
                              ELSE IF At(t, "stretch") THEN "stretched" ELSE "done"
               /\ order' = [order EXCEPT ![g][k] = NewOrder(t, @)]
               /\ UNCHANGED <<dir, lock, fresh>>
<1>1. CASE Stretch(t)
  BY <1>1 DEF ThreadsKept, ThreadKept, Fun, Fields, Only, At, Stretch, Changing, NewOrder
<1>2. CASE Shrink(t) /\ At(t, "halve")
  BY <1>2 DEF ThreadsKept, ThreadKept, Fun, Fields, Only, At, Shrink, Changing, NewOrder
<1>3. CASE Shrink(t) /\ ~At(t, "halve")
  BY <1>3 DEF ThreadsKept, ThreadKept, Fun, Fields, Only, At, Shrink, Changing, NewOrder
<1>4. QED
  BY <1>1, <1>2, <1>3

LEMMA KeepBlockDoes ==
    ASSUME ThreadsKept, NEW t \in Threads, KeepBlock(t)
    PROVE  /\ th[t].pc = "hinted" /\ Only(t, {"i", "pc"})
           /\ th'[t].i = Behind(th[t].hd) /\ th'[t].pc \in {"flush", "done", "get"}
           /\ th'[t].i = Len => th'[t].pc # "get"
           /\ UNCHANGED <<dir, order, lock, fresh>>
  BY DEF ThreadsKept, ThreadKept, Fun, Fields, Only, At, KeepBlock, Onward

LEMMA PassBlockDoes ==
    ASSUME ThreadsKept, NEW t \in Threads, PassBlock(t)
    PROVE  /\ th[t].pc = "hinted" /\ Only(t, {"i", "pc", "own"})
           /\ th'[t].i = Behind(th[t].hd) /\ th'[t].pc \in {"done", "get"}
           /\ th'[t].i = Len => th'[t].pc # "get"
           /\ th'[t].own = th[t].own \ {th[t].hd} /\ Drop(th[t].hd)
           /\ UNCHANGED <<dir, order, fresh>>
  BY DEF ThreadsKept, ThreadKept, Fun, Fields, Only, At, PassBlock, Onward

-----------------------------------------------------------------------------
(***************************************************************************)
(* Steps: each changes the record of one thread, and none of those that    *)
(* replace a group is ever reached.                                        *)
(***************************************************************************)
Frame(t) ==
    /\ config' = config
    /\ th' = [u \in Threads |-> th'[u]]
    /\ \A u \in Threads \ {t} : th'[u] = th[u]
    /\ Fun(th'[t])

PlainStep(t) ==
    \/ Fault(t) \/ Hint(t) \/ Evict(t) \/ GetDesc(t) \/ NewDesc(t) \/ Publish(t)
    \/ LateAgain(t) \/ Fill(t) \/ Await(t) \/ Awaited(t) \/ Got(t) \/ Derive(t)
    \/ Spin(t) \/ TryFails(t) \/ CheckDir(t) \/ CheckHead(t) \/ GiveUp(t) \/ Unlock(t)
    \/ Return(t) \/ DontStretch(t) \/ PickBuddy(t) \/ TryBuddy(t) \/ BuddyBusy(t) \/ Unsuitable(t)
    \/ Suitable(t) \/ Stretch(t) \/ Stretched(t) \/ DontReduce(t) \/ Reduce(t) \/ TryAll(t)
    \/ TryAllFails(t) \/ Undo(t) \/ TryHalf(t) \/ AllLocked(t) \/ Shrink(t) \/ KeepBlock(t)
    \/ PassBlock(t) \/ Flush(t)

LEMMA OnlyPlainSteps ==
    ASSUME ThreadsKept, NoWriters, NEW t \in Threads, Call(t) \/ Step(t)
    PROVE  PlainStep(t)
<1>1. ~WriteFault(t)
  BY DEF WriteFault, NoWriters, ThreadsKept
<1>2. th[t].pc \in Pcs /\ th[t].op # "cow"
  BY DEF ThreadsKept, ThreadKept
<1>3. ~(NoCow(t) \/ WholeGroup(t) \/ Regroup(t) \/ NextBlock(t) \/ CowAgain(t) \/ Copy(t)
        \/ CopyFails(t) \/ ChangeDir(t) \/ UnlockNew(t) \/ UnlockHead(t) \/ Replaced(t)
        \/ UnlockOld(t) \/ StrideOld(t) \/ UnlockRest(t) \/ StrideRest(t) \/ UnlockDemand(t))
  BY <1>2 DEF At, Pcs, HdSome, HdHeld, HdOwned, NewHeld, Looking, NoCow, WholeGroup,
     Regroup, NextBlock, CowAgain, Copy, CopyFails, ChangeDir, UnlockNew, UnlockHead,
     Replaced, UnlockOld, StrideOld, UnlockRest, StrideRest, UnlockDemand
<1>4. QED
  BY <1>1, <1>3 DEF Call, Step, PlainStep

LEMMA Framed ==
    ASSUME ThreadsKept, NEW t \in Threads, PlainStep(t)
    PROVE  Frame(t)
<1>1. Fun(th[t]) /\ th = [u \in Threads |-> th[u]]
  BY DEF ThreadsKept, ThreadKept
<1>2. Fun(Idle)
  BY IdleFun
<1>3. CASE Fault(t)
  BY <1>1, <1>2, <1>3 DEF Frame, Fun, Fields, Fault, Reads, Begin
<1>4. CASE Hint(t)
  BY <1>1, <1>2, <1>4 DEF Frame, Fun, Fields, Hint, Reads, Begin
<1>5. CASE Evict(t)
  BY <1>1, <1>2, <1>5 DEF Frame, Fun, Fields, Evict
<1>6. CASE GetDesc(t)
  BY <1>1, <1>2, <1>6 DEF Frame, Fun, Fields, GetDesc, Found
<1>7. CASE NewDesc(t)
  BY <1>1, <1>2, <1>7 DEF Frame, Fun, Fields, NewDesc
<1>8. CASE Publish(t)
  BY <1>1, <1>2, <1>8 DEF Frame, Fun, Fields, Publish
<1>9. CASE LateAgain(t)
  BY <1>1, <1>2, <1>9 DEF Frame, Fun, Fields, LateAgain
<1>10. CASE Fill(t)
  BY <1>1, <1>2, <1>10 DEF Frame, Fun, Fields, Fill
<1>11. CASE Await(t)
  BY <1>1, <1>2, <1>11 DEF Frame, Fun, Fields, Await
<1>12. CASE Awaited(t)
  BY <1>1, <1>2, <1>12 DEF Frame, Fun, Fields, Awaited
<1>13. CASE Got(t)
  BY <1>1, <1>2, <1>13 DEF Frame, Fun, Fields, Got, Found
<1>14. CASE Derive(t)
  BY <1>1, <1>2, <1>14 DEF Frame, Fun, Fields, Derive
<1>15. CASE Spin(t)
  BY <1>1, <1>2, <1>15 DEF Frame, Fun, Fields, Spin
<1>16. CASE TryFails(t)
  BY <1>1, <1>2, <1>16 DEF Frame, Fun, Fields, TryFails
<1>17. CASE CheckDir(t)
  BY <1>1, <1>2, <1>17 DEF Frame, Fun, Fields, CheckDir
<1>18. CASE CheckHead(t)
  BY <1>1, <1>2, <1>18 DEF Frame, Fun, Fields, CheckHead
<1>19. CASE GiveUp(t)
  BY <1>1, <1>2, <1>19 DEF Frame, Fun, Fields, GiveUp
<1>20. CASE Unlock(t)
  BY <1>1, <1>2, <1>20 DEF Frame, Fun, Fields, Unlock, Disown
<1>21. CASE Return(t)
  BY <1>1, <1>2, <1>21 DEF Frame, Fun, Fields, Return
<1>22. CASE DontStretch(t)
  BY <1>1, <1>2, <1>22 DEF Frame, Fun, Fields, DontStretch
<1>23. CASE PickBuddy(t)
  BY <1>1, <1>2, <1>23 DEF Frame, Fun, Fields, PickBuddy
<1>24. CASE TryBuddy(t)
  BY <1>1, <1>2, <1>24 DEF Frame, Fun, Fields, TryBuddy
<1>25. CASE BuddyBusy(t)
  BY <1>1, <1>2, <1>25 DEF Frame, Fun, Fields, BuddyBusy
<1>26. CASE Unsuitable(t)
  BY <1>1, <1>2, <1>26 DEF Frame, Fun, Fields, Unsuitable
<1>27. CASE Suitable(t)
  BY <1>1, <1>2, <1>27 DEF Frame, Fun, Fields, Suitable
<1>28. CASE Stretch(t)
  BY <1>1, <1>2, <1>28 DEF Frame, Fun, Fields, Stretch
<1>29. CASE Stretched(t)
  BY <1>1, <1>2, <1>29 DEF Frame, Fun, Fields, Stretched, Disown
<1>30. CASE DontReduce(t)
  BY <1>1, <1>2, <1>30 DEF Frame, Fun, Fields, DontReduce
<1>31. CASE Reduce(t)
  BY <1>1, <1>2, <1>31 DEF Frame, Fun, Fields, Reduce
<1>32. CASE TryAll(t)
  BY <1>1, <1>2, <1>32 DEF Frame, Fun, Fields, TryAll
<1>33. CASE TryAllFails(t)
  BY <1>1, <1>2, <1>33 DEF Frame, Fun, Fields, TryAllFails
<1>34. CASE Undo(t)
  BY <1>1, <1>2, <1>34 DEF Frame, Fun, Fields, Undo, Disown
<1>35. CASE TryHalf(t)
  BY <1>1, <1>2, <1>35 DEF Frame, Fun, Fields, TryHalf
<1>36. CASE AllLocked(t)
  BY <1>1, <1>2, <1>36 DEF Frame, Fun, Fields, AllLocked
<1>37. CASE Shrink(t)
  BY <1>1, <1>2, <1>37 DEF Frame, Fun, Fields, Shrink
<1>38. CASE KeepBlock(t)
  BY <1>1, <1>2, <1>38 DEF Frame, Fun, Fields, KeepBlock, Onward
<1>39. CASE PassBlock(t)
  BY <1>1, <1>2, <1>39 DEF Frame, Fun, Fields, PassBlock, Onward
<1>40. CASE Flush(t)
  BY <1>1, <1>2, <1>40 DEF Frame, Fun, Fields, Flush, Disown, Onward
<1> QED
  BY <1>3, <1>4, <1>5, <1>6, <1>7, <1>8, <1>9, <1>10, <1>11, <1>12, <1>13, <1>14, <1>15,
     <1>16, <1>17, <1>18, <1>19, <1>20, <1>21, <1>22, <1>23, <1>24, <1>25, <1>26, <1>27,
     <1>28, <1>29, <1>30, <1>31, <1>32, <1>33, <1>34, <1>35, <1>36, <1>37, <1>38, <1>39,
     <1>40 DEF PlainStep

-----------------------------------------------------------------------------
(***************************************************************************)
(* Blocks under IInv.                                                      *)
(***************************************************************************)
LEMMA HeadsInGroups ==
    ASSUME OrderKept, NEW d \in Descs
    PROVE  emp_get_block_head(d) \in Descs /\ emp_get_block_head(d)[1] = d[1]
<1>1. Ord(d) \in Orders
  BY DEF OrderKept, Descs, Ord
<1>2. QED
  BY <1>1, Heads DEF Descs, emp_get_block_head

LEMMA BehindHead ==
    ASSUME OrderKept, NEW h \in Descs, emp_get_block_head(h) = h
    PROVE  /\ Ord(h) \in Orders /\ h[2] \in Subs /\ Head[Ord(h)][h[2]] = h[2]
           /\ Behind(h) \in Subs \cup {Len} /\ Behind(h) > h[2] /\ Behind(h) <= Len
           /\ \A x \in Subs : Head[Ord(h)][x] = h[2] <=> h[2] <= x /\ x < Behind(h)
<1>1. Ord(h) \in Orders /\ h[2] \in Subs /\ h = <<h[1], h[2]>>
  BY DEF OrderKept, Descs, Ord
<1>2. Head[Ord(h)][h[2]] = h[2]
  BY <1>1 DEF emp_get_block_head
<1>3. h[2] + Width[Ord(h)] <= Len /\ Width[Ord(h)] \in Nat /\ Width[Ord(h)] >= 1
  BY <1>1, <1>2, Heads, Sizes
<1>4. \A x \in Subs : Head[Ord(h)][x] = h[2] <=> h[2] <= x /\ x < Behind(h)
  BY <1>1, <1>2, Heads DEF Behind
<1>5. Subs = 0 .. Len - 1 /\ Len \in Nat
  BY Sizes, LocksAssumption
<1>6. Behind(h) \in Int /\ Behind(h) > h[2] /\ Behind(h) <= Len
  BY <1>1, <1>3, <1>5 DEF Behind
<1>7. Behind(h) \in Subs \cup {Len}
  BY <1>1, <1>5, <1>6
<1>8. QED
  BY <1>1, <1>2, <1>4, <1>6, <1>7

(* A descriptor in the range of a thread has its head among the thread's.  *)
LEMMA RangeOwned ==
    ASSUME IInv, NEW u \in Threads, th[u].pc \in Changing, NEW s \in Subs, InRange(u, s)
    PROVE  /\ th[u].hd[1] \in Groups
           /\ emp_get_block_head(<<th[u].hd[1], s>>) \in th[u].own
           /\ Held(emp_get_block_head(<<th[u].hd[1], s>>)) = u
<1>1. th[u].hd \in Descs /\ th[u].own \subseteq Descs
  BY DEF IInv, ThreadsKept, ThreadKept, Changing, HdSome, HdOwned
<1>2. emp_get_block_head(<<th[u].hd[1], s>>) \in th[u].own
  <2>1. PICK p, q \in Orders : WorkingOn(u, p, q)
    BY DEF IInv, OrderKept, StepKept, Working
  <2>2. QED
    BY <2>1 DEF WorkingOn, emp_get_block_head, Ord
<1>3. QED
  BY <1>1, <1>2 DEF IInv, LocksKept, Locks, Descs

(* Who holds the head of a descriptor, and is not changing orders, finds   *)
(* the block around it of one order.                                       *)
LEMMA BlockAgrees ==
    ASSUME IInv, NEW t \in Threads, th[t].pc \notin Changing, NEW g \in Groups, NEW s \in Subs,
           Held(emp_get_block_head(<<g, s>>)) = t,
           NEW x \in Subs, Head[order[g][s]][x] = Head[order[g][s]][s]
    PROVE  order[g][x] = order[g][s]
<1>1. ~Excepted(g, s, x)
  BY RangeOwned DEF Excepted
<1>2. QED
  BY <1>1 DEF IInv, OrderKept, Agreed

-----------------------------------------------------------------------------
(***************************************************************************)
(* What a step of t has to keep; the rest follows.                         *)
(***************************************************************************)
LocksMove(t) ==
    /\ lock' \in [Groups -> [Subs -> Threads \cup {NoThread}]]
    /\ \A d \in Descs : Held(d)' = t <=> d \in Locks(t)'
    /\ \A u \in Threads \ {t}, d \in Descs : Held(d)' = u <=> Held(d) = u

LEMMA LocksStay ==
    ASSUME IInv, NEW t \in Threads, UNCHANGED lock, Locks(t)' = Locks(t)
    PROVE  LocksMove(t)
  BY DEF IInv, LocksKept, LocksMove, Held

LEMMA LocksTaken ==
    ASSUME IInv, NEW t \in Threads, NEW d \in Descs, Take(t, d), Locks(t)' = Locks(t) \cup {d}
    PROVE  LocksMove(t)
<1>1. lock' \in [Groups -> [Subs -> Threads \cup {NoThread}]]
  BY DEF IInv, LocksKept, Take, Descs
<1>2. \A e \in Descs : Held(e)' = IF e = d THEN t ELSE Held(e)
  BY DEF IInv, LocksKept, Take, Descs, Held
<1>3. Held(d) = NoThread /\ NoThread \notin Threads
  BY LocksAssumption DEF Take
<1>4. QED
  BY <1>1, <1>2, <1>3 DEF LocksMove, IInv, LocksKept

LEMMA LocksDropped ==
    ASSUME IInv, NEW t \in Threads, NEW d \in Locks(t), d \in Descs, Drop(d),
           Locks(t)' = Locks(t) \ {d}
    PROVE  LocksMove(t)
<1>1. lock' \in [Groups -> [Subs -> Threads \cup {NoThread}]]
  BY DEF IInv, LocksKept, Drop, Descs
<1>2. \A e \in Descs : Held(e)' = IF e = d THEN NoThread ELSE Held(e)
  BY DEF IInv, LocksKept, Drop, Descs, Held
<1>3. Held(d) = t /\ NoThread \notin Threads
  BY LocksAssumption DEF IInv, LocksKept
<1>4. QED
  BY <1>1, <1>2, <1>3 DEF LocksMove, IInv, LocksKept

Grows ==
    /\ dir' \in [Views -> [Subs -> Groups \cup {NoGroup}]]
    /\ \A v \in Views, s \in Subs : dir[v][s] # NoGroup => dir'[v][s] = dir[v][s]

LEMMA KnownStays ==
    ASSUME Grows, NEW g, Known(g)
    PROVE  Known(g)'
  BY LocksAssumption DEF Grows, Known

LEMMA OneMoves ==
    ASSUME IInv, NEW t \in Threads, Frame(t), Grows, ThreadKept(t)', LocksMove(t), ThreadLocks(t)'
    PROVE  ThreadsKept' /\ LocksKept'
<1>1. \A u \in Threads \ {t} : th'[u] = th[u]
  BY DEF Frame
<1>2. ASSUME NEW u \in Threads \ {t}
      PROVE  ThreadKept(u)'
  <2>1. ThreadKept(u) /\ th'[u] = th[u]
    BY <1>1 DEF IInv, ThreadsKept
  <2>2. /\ \A h \in th[u].own : Known(h[1])'
        /\ th[u].pc \in HdSome => Known(th[u].hd[1])'
        /\ th[u].pc \in Looking => Known(th[u].gpa)'
    BY <2>1, KnownStays DEF ThreadKept
  <2>3. th[u].pc \in Looking /\ th[u].op # "evict" => dir'[th[u].v][th[u].i] # NoGroup
    BY <2>1 DEF ThreadKept, Grows, Pcs, Looking
  <2>4. QED
    BY <2>1, <2>2, <2>3 DEF ThreadKept
<1>3. ThreadsKept'
  BY <1>2 DEF ThreadsKept, Frame, IInv
<1>4. ASSUME NEW u \in Threads \ {t}
      PROVE  ThreadLocks(u)' /\ \A d \in Descs : Held(d)' = u <=> d \in Locks(u)'
  BY <1>1, <1>4 DEF IInv, LocksKept, ThreadLocks, Locks, Extra, LocksMove
<1>5. QED
  BY <1>3, <1>4 DEF LocksKept, LocksMove

LEMMA DirStays ==
    ASSUME IInv, NEW t \in Threads, Frame(t), UNCHANGED <<dir, fresh>>, th[t].pc # "fill",
           ThreadDir(t)'
    PROVE  DirKept'
<1>1. \A u \in Threads \ {t} : th'[u] = th[u]
  BY DEF Frame
<1>2. \A u \in Threads \ {t} : ThreadDir(u)'
  BY <1>1 DEF IInv, DirKept, ThreadDir
<1>3. \A u \in Threads, v \in Views, s \in Subs : Fills(u, v, s) => Fills(u, v, s)'
  BY <1>1 DEF Fills, At
<1>4. QED
  BY <1>2, <1>3 DEF IInv, DirKept

LEMMA OrderStays ==
    ASSUME IInv, NEW t \in Threads, Frame(t), UNCHANGED order, th[t].pc \notin Changing,
           StepKept(t)'
    PROVE  OrderKept'
<1>0. \A u \in Threads \ {t} : th'[u] = th[u]
  BY DEF Frame
<1>1. \A u \in Threads \ {t} : StepKept(u)'
  <2> SUFFICES ASSUME NEW u \in Threads \ {t}
               PROVE  StepKept(u)'
    OBVIOUS
  <2>1. StepKept(u) /\ th'[u] = th[u]
    BY <1>0 DEF IInv, OrderKept
  <2>2. Working(u) => Working(u)'
    <3>1. \A s : start(u)' = start(u) /\ InRange(u, s)' = InRange(u, s)
      BY <2>1 DEF start, InRange, At
    <3>2. \A q : NewOrder(u, q)' = NewOrder(u, q)
      BY <2>1 DEF NewOrder, At
    <3>3. \A p, q \in Orders : WorkingOn(u, p, q) => WorkingOn(u, p, q)'
      BY <2>1, <3>1, <3>2 DEF WorkingOn
    <3>4. QED
      BY <3>3 DEF Working
  <2>3. QED
    BY <2>1, <2>2 DEF StepKept, emp_get_block_head, Buddy, Ord, Behind
<1>2. \A g, s, x : Excepted(g, s, x) => Excepted(g, s, x)'
  <2> SUFFICES ASSUME NEW g, NEW s, NEW x, Excepted(g, s, x)
               PROVE  Excepted(g, s, x)'
    OBVIOUS
  <2>1. PICK u \in Threads : /\ th[u].pc \in Changing /\ th[u].hd[1] = g
                             /\ InRange(u, s) /\ InRange(u, x)
    BY DEF Excepted
  <2>2. th'[u] = th[u]
    BY <1>0, <2>1
  <2>3. QED
    BY <2>1, <2>2 DEF Excepted, InRange, start, At
<1>3. QED
  BY <1>1, <1>2 DEF IInv, OrderKept, Agreed

LEMMA KeepOne ==
    ASSUME IInv, NEW t \in Threads, Frame(t), UNCHANGED <<dir, order, fresh>>,
           th[t].pc \notin Changing \cup {"fill"},
           ThreadKept(t)', LocksMove(t), ThreadLocks(t)', ThreadDir(t)', StepKept(t)'
    PROVE  IInv'
<1>1. \A u \in Threads \ {t} : th'[u] = th[u]
  BY DEF Frame
<1>2. Grows
  BY DEF Grows, IInv, DirKept
<1>3. ThreadsKept' /\ LocksKept'
  BY <1>2, OneMoves
<1>4. DirKept'
  BY DirStays
<1>5. OrderKept'
  BY OrderStays
<1>6. QED
  BY <1>3, <1>4, <1>5 DEF IInv

-----------------------------------------------------------------------------
(***************************************************************************)
(* One lemma for each step: it keeps the invariant.                        *)
(***************************************************************************)
LEMMA Mine ==
    ASSUME IInv, NEW t \in Threads
    PROVE  /\ ThreadsKept /\ ThreadKept(t) /\ ThreadLocks(t) /\ ThreadDir(t) /\ StepKept(t)
           /\ \A d \in Descs : Held(d) = t <=> d \in Locks(t)
           /\ th[t].own \subseteq Descs /\ Locks(t) \subseteq Descs
  BY DEF IInv, ThreadsKept, LocksKept, DirKept, OrderKept, ThreadKept, ThreadLocks, Locks

LEMMA FreeIsNobodys ==
    ASSUME IInv, NEW t \in Threads, NEW d \in Descs, Held(d) = NoThread
    PROVE  d \notin Locks(t) /\ d \notin th[t].own
  BY LocksAssumption DEF IInv, LocksKept, Locks

LEMMA Published ==
    ASSUME IInv, NEW v \in Views, NEW s \in Subs
    PROVE  /\ dir[v][s] # NoGroup => Known(dir[v][s])
           /\ dir[v][s] \in Groups \cup {NoGroup}
           /\ 0 \in Subs
           /\ dir[v][s] # NoGroup => dir[v][0] = dir[v][s]
<1>1. dir[v][s] \in {NoGroup, dir[v][0]} /\ dir[v][s] \in Groups \cup {NoGroup}
  BY DEF IInv, DirKept
<1>2. dir[v][s] # NoGroup => Known(dir[v][s])
  BY <1>1 DEF Known
<1>3. QED
  BY <1>1, <1>2, Sizes

(* The buddy is the other half of the block of the next order.             *)
LEMMA BuddyInGroup ==
    ASSUME OrderKept, NEW h \in Descs, emp_get_block_head(h) = h, Ord(h) < MaxOrder
    PROVE  LET o == Ord(h)
               a == Head[o + 1][h[2]]
           IN  /\ o \in Orders /\ o + 1 \in Orders /\ a \in Subs /\ h[2] \in Subs
               /\ Buddy(h) \in Descs /\ Buddy(h)[1] = h[1] /\ Buddy(h) # h
               /\ {h[2], Buddy(h)[2]} = {a, a + Width[o]}
               /\ Head[o][a] = a /\ Head[o + 1][a] = a /\ Head[o][a + Width[o]] = a + Width[o]
               /\ Head[o + 1][a + Width[o]] = a
               /\ \A x \in Subs : Head[o + 1][x] = a => Head[o][x] \in {h[2], Buddy(h)[2]}
<1> DEFINE o == Ord(h)
           a == Head[o + 1][h[2]]
           b == a + Width[o]
<1>1. o \in Orders /\ h[2] \in Subs /\ Head[o][h[2]] = h[2] /\ h[1] \in Groups
        /\ Behind(h) = h[2] + Width[o]
  BY BehindHead DEF Descs, Behind
<1>2. o # MaxOrder /\ o + 1 \in Orders /\ Width[o] \in Nat /\ Width[o] >= 1
  BY <1>1, Sizes DEF Orders
<1>3. /\ a \in Subs /\ Head[o][a] = a /\ Head[o + 1][a] = a
      /\ b \in Subs /\ Head[o][b] = b /\ Head[o + 1][b] = a
      /\ \A x \in Subs : Head[o + 1][x] = a => Head[o][x] \in {a, b}
  BY <1>1, <1>2, Halves
<1>4. h[2] \in {a, b} /\ a # b
  <2>1. h[2] \in {a, b}
    BY <1>1, <1>3
  <2>2. a \in Int
    BY <1>3, LocksAssumption
  <2> HIDE DEF a
  <2>3. QED
    BY <1>2, <2>1, <2>2
<1>5. Buddy(h) = <<h[1], IF a = h[2] THEN b ELSE a>>
  BY <1>1 DEF Buddy
<1>6. h = <<h[1], h[2]>>
  BY DEF Descs
<1> HIDE DEF a, b, o
<1>7. /\ Buddy(h) \in Descs /\ Buddy(h)[1] = h[1] /\ Buddy(h) # h
      /\ {h[2], Buddy(h)[2]} = {a, b}
  BY <1>1, <1>3, <1>4, <1>5, <1>6 DEF Descs
<1>8. QED
  BY <1>1, <1>2, <1>3, <1>7 DEF a, b, o

LEMMA DontStretchKeeps ==
    ASSUME IInv, NEW t \in Threads, Frame(t), DontStretch(t)
    PROVE  IInv'
<1>1. /\ ThreadsKept /\ ThreadKept(t) /\ ThreadLocks(t) /\ ThreadDir(t) /\ StepKept(t)
      /\ UNCHANGED <<dir, order, fresh>> /\ \A g : Known(g)' = Known(g)
  BY Mine, DontStretchDoes DEF Known
<1>2. ThreadKept(t)'
  BY <1>1, DontStretchDoes DEF ThreadKept, Only, Fields, Frame, Pcs, HdSome, HdHeld,
     HdOwned, NewHeld, Looking
<1>3. LocksMove(t)
  <2>1. Locks(t)' = Locks(t)
    BY <1>1, DontStretchDoes DEF ThreadKept, ThreadLocks, Locks, Extra, Only, Fields, Pcs,
       HdSome, HdHeld, HdOwned, NewHeld, Looking
  <2>2. QED
    BY <2>1, <1>1, DontStretchDoes, LocksStay
<1>4. ThreadLocks(t)'
  BY <1>1, DontStretchDoes DEF ThreadKept, ThreadLocks, Extra, Only, Fields, Pcs, HdSome,
     HdHeld, HdOwned, NewHeld, Looking
<1>5. ThreadDir(t)'
  BY <1>1, DontStretchDoes DEF ThreadKept, ThreadDir, Only, Fields, Pcs, HdSome, HdHeld,
     HdOwned, NewHeld, Looking
<1>6. StepKept(t)'
  BY <1>1, DontStretchDoes DEF ThreadKept, StepKept, Only, Fields, IsHead, HasBuddy,
     Changing, emp_get_block_head, Buddy, Ord, Behind
<1>7. QED
  BY <1>1, <1>2, <1>3, <1>4, <1>5, <1>6, KeepOne, DontStretchDoes DEF Changing

LEMMA BuddyBusyKeeps ==
    ASSUME IInv, NEW t \in Threads, Frame(t), BuddyBusy(t)
    PROVE  IInv'
<1>1. /\ ThreadsKept /\ ThreadKept(t) /\ ThreadLocks(t) /\ ThreadDir(t) /\ StepKept(t)
      /\ UNCHANGED <<dir, order, fresh>> /\ \A g : Known(g)' = Known(g)
  BY Mine, BuddyBusyDoes DEF Known
<1>2. ThreadKept(t)'
  BY <1>1, BuddyBusyDoes DEF ThreadKept, Only, Fields, Frame, Pcs, HdSome, HdHeld,
     HdOwned, NewHeld, Looking
<1>3. LocksMove(t)
  <2>1. Locks(t)' = Locks(t)
    BY <1>1, BuddyBusyDoes DEF ThreadKept, ThreadLocks, Locks, Extra, Only, Fields, Pcs,
       HdSome, HdHeld, HdOwned, NewHeld, Looking
  <2>2. QED
    BY <2>1, <1>1, BuddyBusyDoes, LocksStay
<1>4. ThreadLocks(t)'
  BY <1>1, BuddyBusyDoes DEF ThreadKept, ThreadLocks, Extra, Only, Fields, Pcs, HdSome,
     HdHeld, HdOwned, NewHeld, Looking
<1>5. ThreadDir(t)'
  BY <1>1, BuddyBusyDoes DEF ThreadKept, ThreadDir, Only, Fields, Pcs, HdSome, HdHeld,
     HdOwned, NewHeld, Looking
<1>6. StepKept(t)'
  BY <1>1, BuddyBusyDoes DEF ThreadKept, StepKept, Only, Fields, IsHead, HasBuddy,
     Changing, emp_get_block_head, Buddy, Ord, Behind
<1>7. QED
  BY <1>1, <1>2, <1>3, <1>4, <1>5, <1>6, KeepOne, BuddyBusyDoes DEF Changing

LEMMA TryFailsKeeps ==
    ASSUME IInv, NEW t \in Threads, Frame(t), TryFails(t)
    PROVE  IInv'
<1>1. /\ ThreadsKept /\ ThreadKept(t) /\ ThreadLocks(t) /\ ThreadDir(t) /\ StepKept(t)
      /\ UNCHANGED <<dir, order, fresh>> /\ \A g : Known(g)' = Known(g)
  BY Mine, TryFailsDoes DEF Known
<1>2. ThreadKept(t)'
  BY <1>1, TryFailsDoes DEF ThreadKept, Only, Fields, Frame, Pcs, HdSome, HdHeld, HdOwned,
     NewHeld, Looking
<1>3. LocksMove(t)
  <2>1. Locks(t)' = Locks(t)
    BY <1>1, TryFailsDoes DEF ThreadKept, ThreadLocks, Locks, Extra, Only, Fields, Pcs,
       HdSome, HdHeld, HdOwned, NewHeld, Looking
  <2>2. QED
    BY <2>1, <1>1, TryFailsDoes, LocksStay
<1>4. ThreadLocks(t)'
  BY <1>1, TryFailsDoes DEF ThreadKept, ThreadLocks, Extra, Only, Fields, Pcs, HdSome,
     HdHeld, HdOwned, NewHeld, Looking
<1>5. ThreadDir(t)'
  BY <1>1, TryFailsDoes DEF ThreadKept, ThreadDir, Only, Fields, Pcs, HdSome, HdHeld,
     HdOwned, NewHeld, Looking
<1>6. StepKept(t)'
  BY <1>1, TryFailsDoes DEF ThreadKept, StepKept, Only, Fields, IsHead, HasBuddy,
     Changing, emp_get_block_head, Buddy, Ord, Behind
<1>7. QED
  BY <1>1, <1>2, <1>3, <1>4, <1>5, <1>6, KeepOne, TryFailsDoes DEF Changing

LEMMA DontReduceKeeps ==
    ASSUME IInv, NEW t \in Threads, Frame(t), DontReduce(t)
    PROVE  IInv'
<1>1. /\ ThreadsKept /\ ThreadKept(t) /\ ThreadLocks(t) /\ ThreadDir(t) /\ StepKept(t)
      /\ UNCHANGED <<dir, order, fresh>> /\ \A g : Known(g)' = Known(g)
  BY Mine, DontReduceDoes DEF Known
<1>2. ThreadKept(t)'
  BY <1>1, DontReduceDoes DEF ThreadKept, Only, Fields, Frame, Pcs, HdSome, HdHeld,
     HdOwned, NewHeld, Looking
<1>3. LocksMove(t)
  <2>1. Locks(t)' = Locks(t)
    BY <1>1, DontReduceDoes DEF ThreadKept, ThreadLocks, Locks, Extra, Only, Fields, Pcs,
       HdSome, HdHeld, HdOwned, NewHeld, Looking
  <2>2. QED
    BY <2>1, <1>1, DontReduceDoes, LocksStay
<1>4. ThreadLocks(t)'
  BY <1>1, DontReduceDoes DEF ThreadKept, ThreadLocks, Extra, Only, Fields, Pcs, HdSome,
     HdHeld, HdOwned, NewHeld, Looking
<1>5. ThreadDir(t)'
  BY <1>1, DontReduceDoes DEF ThreadKept, ThreadDir, Only, Fields, Pcs, HdSome, HdHeld,
     HdOwned, NewHeld, Looking
<1>6. StepKept(t)'
  BY <1>1, DontReduceDoes DEF ThreadKept, StepKept, Only, Fields, IsHead, HasBuddy,
     Changing, emp_get_block_head, Buddy, Ord, Behind
<1>7. QED
  BY <1>1, <1>2, <1>3, <1>4, <1>5, <1>6, KeepOne, DontReduceDoes DEF Changing

LEMMA TryAllFailsKeeps ==
    ASSUME IInv, NEW t \in Threads, Frame(t), TryAllFails(t)
    PROVE  IInv'
<1>1. /\ ThreadsKept /\ ThreadKept(t) /\ ThreadLocks(t) /\ ThreadDir(t) /\ StepKept(t)
      /\ UNCHANGED <<dir, order, fresh>> /\ \A g : Known(g)' = Known(g)
  BY Mine, TryAllFailsDoes DEF Known
<1>2. ThreadKept(t)'
  BY <1>1, TryAllFailsDoes DEF ThreadKept, Only, Fields, Frame, Pcs, HdSome, HdHeld,
     HdOwned, NewHeld, Looking
<1>3. LocksMove(t)
  <2>1. Locks(t)' = Locks(t)
    BY <1>1, TryAllFailsDoes DEF ThreadKept, ThreadLocks, Locks, Extra, Only, Fields, Pcs,
       HdSome, HdHeld, HdOwned, NewHeld, Looking
  <2>2. QED
    BY <2>1, <1>1, TryAllFailsDoes, LocksStay
<1>4. ThreadLocks(t)'
  BY <1>1, TryAllFailsDoes DEF ThreadKept, ThreadLocks, Extra, Only, Fields, Pcs, HdSome,
     HdHeld, HdOwned, NewHeld, Looking
<1>5. ThreadDir(t)'
  BY <1>1, TryAllFailsDoes DEF ThreadKept, ThreadDir, Only, Fields, Pcs, HdSome, HdHeld,
     HdOwned, NewHeld, Looking
<1>6. StepKept(t)'
  BY <1>1, TryAllFailsDoes DEF ThreadKept, StepKept, Only, Fields, IsHead, HasBuddy,
     Changing, emp_get_block_head, Buddy, Ord, Behind
<1>7. QED
  BY <1>1, <1>2, <1>3, <1>4, <1>5, <1>6, KeepOne, TryAllFailsDoes DEF Changing

LEMMA GotKeeps ==
    ASSUME IInv, NEW t \in Threads, Frame(t), Got(t)
    PROVE  IInv'
<1>1. /\ ThreadsKept /\ ThreadKept(t) /\ ThreadLocks(t) /\ ThreadDir(t) /\ StepKept(t)
      /\ UNCHANGED <<dir, order, fresh>> /\ \A g : Known(g)' = Known(g)
  BY Mine, GotDoes DEF Known
<1>2. dir[th[t].v][th[t].i] # NoGroup
  BY <1>1, GotDoes DEF ThreadDir, ThreadKept, Pcs
<1>3. ThreadKept(t)'
  BY <1>1, <1>2, GotDoes, Published DEF ThreadKept, Only, Fields, Frame, Pcs, HdSome,
     HdHeld, HdOwned, NewHeld, Looking
<1>4. LocksMove(t)
  <2>1. Locks(t)' = Locks(t)
    BY <1>1, <1>2, GotDoes DEF ThreadKept, ThreadLocks, Locks, Extra, Only, Fields, Pcs,
       HdSome, HdHeld, HdOwned, NewHeld, Looking
  <2>2. QED
    BY <2>1, <1>1, GotDoes, LocksStay
<1>5. ThreadLocks(t)'
  BY <1>1, <1>2, GotDoes DEF ThreadKept, ThreadLocks, Extra, Only, Fields, Pcs, HdSome,
     HdHeld, HdOwned, NewHeld, Looking
<1>6. ThreadDir(t)'
  BY <1>1, <1>2, GotDoes DEF ThreadKept, ThreadDir, Only, Fields, Pcs, HdSome, HdHeld,
     HdOwned, NewHeld, Looking
<1>7. StepKept(t)'
  BY <1>1, <1>2, GotDoes DEF ThreadKept, StepKept, Only, Fields, IsHead, HasBuddy,
     Changing, emp_get_block_head, Buddy, Ord, Behind
<1>8. QED
  BY <1>1, <1>2, <1>3, <1>4, <1>5, <1>6, <1>7, KeepOne, GotDoes DEF Changing

LEMMA GetDescKeeps ==
    ASSUME IInv, NEW t \in Threads, Frame(t), GetDesc(t)
    PROVE  IInv'
<1>1. /\ ThreadsKept /\ ThreadKept(t) /\ ThreadLocks(t) /\ ThreadDir(t) /\ StepKept(t)
      /\ UNCHANGED <<dir, order, fresh>> /\ \A g : Known(g)' = Known(g)
  BY Mine, GetDescDoes DEF Known
<1>2. ThreadKept(t)'
  BY <1>1, GetDescDoes, Published DEF ThreadKept, Only, Fields, Frame, Pcs, HdSome,
     HdHeld, HdOwned, NewHeld, Looking
<1>3. LocksMove(t)
  <2>1. Locks(t)' = Locks(t)
    BY <1>1, GetDescDoes DEF ThreadKept, ThreadLocks, Locks, Extra, Only, Fields, Pcs,
       HdSome, HdHeld, HdOwned, NewHeld, Looking
  <2>2. QED
    BY <2>1, <1>1, GetDescDoes, LocksStay
<1>4. ThreadLocks(t)'
  BY <1>1, GetDescDoes DEF ThreadKept, ThreadLocks, Extra, Only, Fields, Pcs, HdSome,
     HdHeld, HdOwned, NewHeld, Looking
<1>5. ThreadDir(t)'
  BY <1>1, GetDescDoes DEF ThreadKept, ThreadDir, Only, Fields, Pcs, HdSome, HdHeld,
     HdOwned, NewHeld, Looking
<1>6. StepKept(t)'
  BY <1>1, GetDescDoes DEF ThreadKept, StepKept, Only, Fields, IsHead, HasBuddy, Changing,
     emp_get_block_head, Buddy, Ord, Behind
<1>7. QED
  BY <1>1, <1>2, <1>3, <1>4, <1>5, <1>6, KeepOne, GetDescDoes DEF Changing

LEMMA DeriveKeeps ==
    ASSUME IInv, NEW t \in Threads, Frame(t), Derive(t)
    PROVE  IInv'
<1>1. /\ ThreadsKept /\ ThreadKept(t) /\ ThreadLocks(t) /\ ThreadDir(t) /\ StepKept(t)
      /\ UNCHANGED <<dir, order, fresh>> /\ \A g : Known(g)' = Known(g)
  BY Mine, DeriveDoes DEF Known
<1>2. /\ emp_get_block_head(gpa(t)) \in Descs
      /\ emp_get_block_head(gpa(t))[1] = th[t].gpa
  BY <1>1, HeadsInGroups, DeriveDoes DEF IInv, ThreadKept, Known, Looking, Pcs, gpa, Descs
<1>3. ThreadKept(t)'
  BY <1>1, <1>2, DeriveDoes DEF ThreadKept, Only, Fields, Frame, Pcs, HdSome, HdHeld,
     HdOwned, NewHeld, Looking
<1>4. LocksMove(t)
  <2>1. Locks(t)' = Locks(t)
    BY <1>1, <1>2, DeriveDoes DEF ThreadKept, ThreadLocks, Locks, Extra, Only, Fields,
       Pcs, HdSome, HdHeld, HdOwned, NewHeld, Looking
  <2>2. QED
    BY <2>1, <1>1, DeriveDoes, LocksStay
<1>5. ThreadLocks(t)'
  BY <1>1, <1>2, DeriveDoes DEF ThreadKept, ThreadLocks, Extra, Only, Fields, Pcs, HdSome,
     HdHeld, HdOwned, NewHeld, Looking
<1>6. ThreadDir(t)'
  BY <1>1, <1>2, DeriveDoes DEF ThreadKept, ThreadDir, Only, Fields, Pcs, HdSome, HdHeld,
     HdOwned, NewHeld, Looking
<1>7. StepKept(t)'
  BY <1>1, <1>2, DeriveDoes DEF ThreadKept, StepKept, Only, Fields, IsHead, HasBuddy,
     Changing, emp_get_block_head, Buddy, Ord, Behind
<1>8. QED
  BY <1>1, <1>2, <1>3, <1>4, <1>5, <1>6, <1>7, KeepOne, DeriveDoes DEF Changing

LEMMA CheckDirKeeps ==
    ASSUME IInv, NEW t \in Threads, Frame(t), CheckDir(t)
    PROVE  IInv'
<1>1. /\ ThreadsKept /\ ThreadKept(t) /\ ThreadLocks(t) /\ ThreadDir(t) /\ StepKept(t)
      /\ UNCHANGED <<dir, order, fresh>> /\ \A g : Known(g)' = Known(g)
  BY Mine, CheckDirDoes DEF Known
<1>2. ThreadKept(t)'
  BY <1>1, CheckDirDoes, Published DEF ThreadKept, Only, Fields, Frame, Pcs, HdSome,
     HdHeld, HdOwned, NewHeld, Looking
<1>3. LocksMove(t)
  <2>1. Locks(t)' = Locks(t)
    BY <1>1, CheckDirDoes DEF ThreadKept, ThreadLocks, Locks, Extra, Only, Fields, Pcs,
       HdSome, HdHeld, HdOwned, NewHeld, Looking
  <2>2. QED
    BY <2>1, <1>1, CheckDirDoes, LocksStay
<1>4. ThreadLocks(t)'
  BY <1>1, CheckDirDoes DEF ThreadKept, ThreadLocks, Extra, Only, Fields, Pcs, HdSome,
     HdHeld, HdOwned, NewHeld, Looking
<1>5. ThreadDir(t)'
  BY <1>1, CheckDirDoes DEF ThreadKept, ThreadDir, Only, Fields, Pcs, HdSome, HdHeld,
     HdOwned, NewHeld, Looking
<1>6. StepKept(t)'
  BY <1>1, CheckDirDoes DEF ThreadKept, StepKept, Only, Fields, IsHead, HasBuddy,
     Changing, emp_get_block_head, Buddy, Ord, Behind
<1>7. QED
  BY <1>1, <1>2, <1>3, <1>4, <1>5, <1>6, KeepOne, CheckDirDoes DEF Changing

LEMMA PickBuddyKeeps ==
    ASSUME IInv, NEW t \in Threads, Frame(t), PickBuddy(t)
    PROVE  IInv'
<1>1. /\ ThreadsKept /\ ThreadKept(t) /\ ThreadLocks(t) /\ ThreadDir(t) /\ StepKept(t)
      /\ UNCHANGED <<dir, order, fresh>> /\ \A g : Known(g)' = Known(g)
  BY Mine, PickBuddyDoes DEF Known
<1>2. Buddy(th[t].hd) \in Descs
  BY <1>1, PickBuddyDoes, BuddyInGroup DEF IInv, ThreadKept, HdSome, HdOwned, StepKept,
     IsHead
<1>3. ThreadKept(t)'
  BY <1>1, <1>2, PickBuddyDoes DEF ThreadKept, Only, Fields, Frame, Pcs, HdSome, HdHeld,
     HdOwned, NewHeld, Looking
<1>4. LocksMove(t)
  <2>1. Locks(t)' = Locks(t)
    BY <1>1, <1>2, PickBuddyDoes DEF ThreadKept, ThreadLocks, Locks, Extra, Only, Fields,
       Pcs, HdSome, HdHeld, HdOwned, NewHeld, Looking
  <2>2. QED
    BY <2>1, <1>1, PickBuddyDoes, LocksStay
<1>5. ThreadLocks(t)'
  BY <1>1, <1>2, PickBuddyDoes DEF ThreadKept, ThreadLocks, Extra, Only, Fields, Pcs,
     HdSome, HdHeld, HdOwned, NewHeld, Looking
<1>6. ThreadDir(t)'
  BY <1>1, <1>2, PickBuddyDoes DEF ThreadKept, ThreadDir, Only, Fields, Pcs, HdSome,
     HdHeld, HdOwned, NewHeld, Looking
<1>7. StepKept(t)'
  BY ZenonT(60), <1>1, <1>2, PickBuddyDoes DEF ThreadKept, StepKept, Only, Fields, IsHead, HasBuddy,
     Changing, emp_get_block_head, Buddy, Ord, Behind
<1>8. QED
  BY <1>1, <1>2, <1>3, <1>4, <1>5, <1>6, <1>7, KeepOne, PickBuddyDoes DEF Changing

LEMMA ReduceKeeps ==
    ASSUME IInv, NEW t \in Threads, Frame(t), Reduce(t)
    PROVE  IInv'
<1>1. /\ ThreadsKept /\ ThreadKept(t) /\ ThreadLocks(t) /\ ThreadDir(t) /\ StepKept(t)
      /\ UNCHANGED <<dir, order, fresh>> /\ \A g : Known(g)' = Known(g)
  BY Mine, ReduceDoes DEF Known
<1>2. /\ th[t].hd \in th[t].own /\ th[t].hd = <<th[t].hd[1], th[t].hd[2]>>
      /\ th[t].hd[2] + 1 <= Behind(th[t].hd) /\ th[t].hd[2] \in Int /\ Behind(th[t].hd) \in Int
  <2>1. th[t].hd \in Descs /\ th[t].hd \in th[t].own /\ emp_get_block_head(th[t].hd) = th[t].hd
    BY <1>1, ReduceDoes DEF ThreadKept, HdSome, HdOwned, StepKept, IsHead, ThreadLocks
  <2>2. th[t].hd[2] \in Subs /\ Behind(th[t].hd) \in Subs \cup {Len}
        /\ Behind(th[t].hd) > th[t].hd[2]
    BY <2>1, BehindHead DEF IInv
  <2>3. th[t].hd = <<th[t].hd[1], th[t].hd[2]>>
    BY <2>1 DEF Descs
  <2>4. th[t].hd[2] \in Int /\ Behind(th[t].hd) \in Int
    BY <2>2, Indices
  <2>5. QED
    BY <2>1, <2>2, <2>3, <2>4
<1>3. ThreadKept(t)'
  BY <1>1, <1>2, ReduceDoes DEF ThreadKept, Only, Fields, Frame, Pcs, HdSome, HdHeld,
     HdOwned, NewHeld, Looking
<1>4. LocksMove(t)
  <2>1. Locks(t)' = Locks(t)
    BY <1>1, <1>2, ReduceDoes DEF ThreadKept, ThreadLocks, Locks, Extra, Only, Fields,
       Pcs, HdSome, HdHeld, HdOwned, NewHeld, Looking
  <2>2. QED
    BY <2>1, <1>1, ReduceDoes, LocksStay
<1>5. ThreadLocks(t)'
  BY <1>1, <1>2, ReduceDoes DEF ThreadKept, ThreadLocks, Extra, Only, Fields, Pcs, HdSome,
     HdHeld, HdOwned, NewHeld, Looking
<1>6. ThreadDir(t)'
  BY <1>1, <1>2, ReduceDoes DEF ThreadKept, ThreadDir, Only, Fields, Pcs, HdSome, HdHeld,
     HdOwned, NewHeld, Looking
<1>7. StepKept(t)'
  <2>1. th'[t].pc = "tryall" /\ th'[t].hd = th[t].hd /\ th'[t].own = th[t].own
        /\ th'[t].k = th[t].hd[2] + 1 /\ th'[t].end = Behind(th[t].hd) /\ Ord(th[t].hd) > 0
        /\ emp_get_block_head(th[t].hd) = th[t].hd /\ UNCHANGED order
    BY <1>1, ReduceDoes DEF StepKept, IsHead, Only, Fields
  <2>2. \A s \in Subs : th[t].hd[2] <= s /\ s < th[t].hd[2] + 1 => s = th[t].hd[2]
    BY <1>2, Indices
  <2>3. /\ Ord(th[t].hd)' = Ord(th[t].hd) /\ Behind(th[t].hd)' = Behind(th[t].hd)
        /\ emp_get_block_head(th[t].hd)' = emp_get_block_head(th[t].hd)
    BY <2>1, ReduceDoes DEF Ord, Behind, emp_get_block_head, Only, Fields
  <2>4. QED
    BY <1>2, <2>1, <2>2, <2>3 DEF StepKept, HasBuddy, Changing, IsHead
<1>8. QED
  BY <1>1, <1>2, <1>3, <1>4, <1>5, <1>6, <1>7, KeepOne, ReduceDoes DEF Changing

LEMMA KeepBlockKeeps ==
    ASSUME IInv, NEW t \in Threads, Frame(t), KeepBlock(t)
    PROVE  IInv'
<1>1. /\ ThreadsKept /\ ThreadKept(t) /\ ThreadLocks(t) /\ ThreadDir(t) /\ StepKept(t)
      /\ UNCHANGED <<dir, order, fresh>> /\ \A g : Known(g)' = Known(g)
  BY Mine, KeepBlockDoes DEF Known
<1>2. Behind(th[t].hd) \in Subs \cup {Len} /\ Behind(th[t].hd) \in Int
  BY <1>1, KeepBlockDoes, BehindHead, Indices DEF IInv, ThreadKept, HdSome, HdOwned,
     StepKept, IsHead
<1>3. ThreadKept(t)'
  BY <1>1, <1>2, KeepBlockDoes DEF ThreadKept, Only, Fields, Frame, Pcs, HdSome, HdHeld,
     HdOwned, NewHeld, Looking
<1>4. LocksMove(t)
  <2>1. Locks(t)' = Locks(t)
    BY <1>1, <1>2, KeepBlockDoes DEF ThreadKept, ThreadLocks, Locks, Extra, Only, Fields,
       Pcs, HdSome, HdHeld, HdOwned, NewHeld, Looking
  <2>2. QED
    BY <2>1, <1>1, KeepBlockDoes, LocksStay
<1>5. ThreadLocks(t)'
  BY <1>1, <1>2, KeepBlockDoes DEF ThreadKept, ThreadLocks, Extra, Only, Fields, Pcs,
     HdSome, HdHeld, HdOwned, NewHeld, Looking
<1>6. ThreadDir(t)'
  BY <1>1, <1>2, KeepBlockDoes DEF ThreadKept, ThreadDir, Only, Fields, Pcs, HdSome,
     HdHeld, HdOwned, NewHeld, Looking
<1>7. StepKept(t)'
  BY <1>1, <1>2, KeepBlockDoes DEF ThreadKept, StepKept, Only, Fields, IsHead, HasBuddy,
     Changing, emp_get_block_head, Buddy, Ord, Behind
<1>8. QED
  BY <1>1, <1>2, <1>3, <1>4, <1>5, <1>6, <1>7, KeepOne, KeepBlockDoes DEF Changing

LEMMA AwaitKeeps ==
    ASSUME IInv, NEW t \in Threads, Frame(t), Await(t)
    PROVE  IInv'
<1>1. /\ ThreadsKept /\ ThreadKept(t) /\ ThreadLocks(t) /\ ThreadDir(t) /\ StepKept(t)
      /\ UNCHANGED <<dir, order, fresh>> /\ \A g : Known(g)' = Known(g)
  BY Mine, AwaitDoes DEF Known
<1>2. th[t].hd \notin Locks(t) /\ th[t].hd \in Descs /\ th[t].hd \notin th[t].own
      /\ Held(th[t].hd) = NoThread
  BY <1>1, FreeIsNobodys, AwaitDoes DEF Take, ThreadKept, HdSome
<1>3. \A s \in Subs : dir[th[t].v][s] # NoGroup
  <2> DEFINE v == th[t].v
  <2>1. v \in Views /\ dir[v][0] # NoGroup /\ th[t].hd = <<dir[v][0], 0>>
    BY <1>1, AwaitDoes DEF ThreadKept, ThreadDir
  <2>2. \A u \in Threads, s \in Subs : ~Fills(u, v, s)
    <3> SUFFICES ASSUME NEW u \in Threads, NEW s \in Subs, Fills(u, v, s)
                 PROVE  FALSE
      OBVIOUS
    <3>1. th[u].pc = "fill" /\ <<th[u].new, 0>> = th[t].hd
      BY <2>1 DEF Fills, At
    <3>2. th[t].hd \in Locks(u)
      BY <3>1 DEF Locks, Extra, NewHeld, HdHeld
    <3>3. QED
      BY <1>2, <3>2, FreeIsNobodys
  <2>3. QED
    BY <2>1, <2>2 DEF IInv, DirKept
<1>4. ThreadKept(t)'
  BY <1>1, <1>2, AwaitDoes DEF ThreadKept, Only, Fields, Frame, Pcs, HdSome, HdHeld,
     HdOwned, NewHeld, Looking
<1>5. LocksMove(t)
  <2>1. Locks(t)' = Locks(t) \cup {th[t].hd}
    BY <1>1, <1>2, AwaitDoes DEF ThreadKept, ThreadLocks, Locks, Extra, Only, Fields, Pcs,
       HdSome, HdHeld, HdOwned, NewHeld, Looking
  <2>2. th[t].hd \in Descs /\ Take(t, th[t].hd)
    BY <1>1, <1>2, AwaitDoes DEF ThreadKept, HdSome, HdOwned, HdHeld, StepKept, HasBuddy
  <2>3. QED
    BY <2>1, <2>2, LocksTaken
<1>6. ThreadLocks(t)'
  BY <1>1, <1>2, AwaitDoes DEF ThreadKept, ThreadLocks, Extra, Only, Fields, Pcs, HdSome,
     HdHeld, HdOwned, NewHeld, Looking
<1>7. ThreadDir(t)'
  BY <1>1, <1>2, AwaitDoes, <1>3 DEF ThreadKept, ThreadDir, Only, Fields, Pcs, HdSome,
     HdHeld, HdOwned, NewHeld, Looking
<1>8. StepKept(t)'
  BY <1>1, <1>2, AwaitDoes DEF ThreadKept, StepKept, Only, Fields, IsHead, HasBuddy,
     Changing, emp_get_block_head, Buddy, Ord, Behind
<1>9. QED
  BY <1>1, <1>2, <1>4, <1>5, <1>6, <1>7, <1>8, KeepOne, AwaitDoes DEF Changing

LEMMA AwaitedKeeps ==
    ASSUME IInv, NEW t \in Threads, Frame(t), Awaited(t)
    PROVE  IInv'
<1>1. /\ ThreadsKept /\ ThreadKept(t) /\ ThreadLocks(t) /\ ThreadDir(t) /\ StepKept(t)
      /\ UNCHANGED <<dir, order, fresh>> /\ \A g : Known(g)' = Known(g)
  BY Mine, AwaitedDoes DEF Known
<1>2. th[t].hd \notin th[t].own
  BY <1>1, AwaitedDoes DEF ThreadLocks, Extra, HdHeld
<1>3. ThreadKept(t)'
  BY <1>1, <1>2, AwaitedDoes DEF ThreadKept, Only, Fields, Frame, Pcs, HdSome, HdHeld,
     HdOwned, NewHeld, Looking
<1>4. LocksMove(t)
  <2>1. Locks(t)' = Locks(t) \ {th[t].hd}
    BY <1>1, <1>2, AwaitedDoes DEF ThreadKept, ThreadLocks, Locks, Extra, Only, Fields,
       Pcs, HdSome, HdHeld, HdOwned, NewHeld, Looking
  <2>2. th[t].hd \in Locks(t) /\ th[t].hd \in Descs /\ Drop(th[t].hd)
    BY <1>1, <1>2, Mine, AwaitedDoes DEF ThreadKept, ThreadLocks, Locks, Extra, HdSome,
       HdOwned, HdHeld, NewHeld
  <2>3. QED
    BY <2>1, <2>2, LocksDropped
<1>5. ThreadLocks(t)'
  BY <1>1, <1>2, AwaitedDoes DEF ThreadKept, ThreadLocks, Extra, Only, Fields, Pcs,
     HdSome, HdHeld, HdOwned, NewHeld, Looking
<1>6. ThreadDir(t)'
  BY <1>1, <1>2, AwaitedDoes DEF ThreadKept, ThreadDir, Only, Fields, Pcs, HdSome, HdHeld,
     HdOwned, NewHeld, Looking
<1>7. StepKept(t)'
  BY <1>1, <1>2, AwaitedDoes DEF ThreadKept, StepKept, Only, Fields, IsHead, HasBuddy,
     Changing, emp_get_block_head, Buddy, Ord, Behind
<1>8. QED
  BY <1>1, <1>2, <1>3, <1>4, <1>5, <1>6, <1>7, KeepOne, AwaitedDoes DEF Changing

LEMMA SpinKeeps ==
    ASSUME IInv, NEW t \in Threads, Frame(t), Spin(t)
    PROVE  IInv'
<1>1. /\ ThreadsKept /\ ThreadKept(t) /\ ThreadLocks(t) /\ ThreadDir(t) /\ StepKept(t)
      /\ UNCHANGED <<dir, order, fresh>> /\ \A g : Known(g)' = Known(g)
  BY Mine, SpinDoes DEF Known
<1>2. th[t].hd \notin Locks(t) /\ th[t].hd \in Descs /\ th[t].hd \notin th[t].own
      /\ Held(th[t].hd) = NoThread
  BY <1>1, FreeIsNobodys, SpinDoes DEF Take, ThreadKept, HdSome
<1>3. ThreadKept(t)'
  BY <1>1, <1>2, SpinDoes DEF ThreadKept, Only, Fields, Frame, Pcs, HdSome, HdHeld,
     HdOwned, NewHeld, Looking
<1>4. LocksMove(t)
  <2>1. Locks(t)' = Locks(t) \cup {th[t].hd}
    BY <1>1, <1>2, SpinDoes DEF ThreadKept, ThreadLocks, Locks, Extra, Only, Fields, Pcs,
       HdSome, HdHeld, HdOwned, NewHeld, Looking
  <2>2. th[t].hd \in Descs /\ Take(t, th[t].hd)
    BY <1>1, <1>2, SpinDoes DEF ThreadKept, HdSome, HdOwned, HdHeld, StepKept, HasBuddy
  <2>3. QED
    BY <2>1, <2>2, LocksTaken
<1>5. ThreadLocks(t)'
  BY <1>1, <1>2, SpinDoes DEF ThreadKept, ThreadLocks, Extra, Only, Fields, Pcs, HdSome,
     HdHeld, HdOwned, NewHeld, Looking
<1>6. ThreadDir(t)'
  BY <1>1, <1>2, SpinDoes DEF ThreadKept, ThreadDir, Only, Fields, Pcs, HdSome, HdHeld,
     HdOwned, NewHeld, Looking
<1>7. StepKept(t)'
  BY <1>1, <1>2, SpinDoes DEF ThreadKept, StepKept, Only, Fields, IsHead, HasBuddy,
     Changing, emp_get_block_head, Buddy, Ord, Behind
<1>8. QED
  BY <1>1, <1>2, <1>3, <1>4, <1>5, <1>6, <1>7, KeepOne, SpinDoes DEF Changing

LEMMA GiveUpKeeps ==
    ASSUME IInv, NEW t \in Threads, Frame(t), GiveUp(t)
    PROVE  IInv'
<1>1. /\ ThreadsKept /\ ThreadKept(t) /\ ThreadLocks(t) /\ ThreadDir(t) /\ StepKept(t)
      /\ UNCHANGED <<dir, order, fresh>> /\ \A g : Known(g)' = Known(g)
  BY Mine, GiveUpDoes DEF Known
<1>2. th[t].hd \notin th[t].own
  BY <1>1, GiveUpDoes DEF ThreadLocks, Extra, HdHeld
<1>3. ThreadKept(t)'
  BY <1>1, <1>2, GiveUpDoes DEF ThreadKept, Only, Fields, Frame, Pcs, HdSome, HdHeld,
     HdOwned, NewHeld, Looking
<1>4. LocksMove(t)
  <2>1. Locks(t)' = Locks(t) \ {th[t].hd}
    BY <1>1, <1>2, GiveUpDoes DEF ThreadKept, ThreadLocks, Locks, Extra, Only, Fields,
       Pcs, HdSome, HdHeld, HdOwned, NewHeld, Looking
  <2>2. th[t].hd \in Locks(t) /\ th[t].hd \in Descs /\ Drop(th[t].hd)
    BY <1>1, <1>2, Mine, GiveUpDoes DEF ThreadKept, ThreadLocks, Locks, Extra, HdSome,
       HdOwned, HdHeld, NewHeld
  <2>3. QED
    BY <2>1, <2>2, LocksDropped
<1>5. ThreadLocks(t)'
  BY <1>1, <1>2, GiveUpDoes DEF ThreadKept, ThreadLocks, Extra, Only, Fields, Pcs, HdSome,
     HdHeld, HdOwned, NewHeld, Looking
<1>6. ThreadDir(t)'
  BY <1>1, <1>2, GiveUpDoes DEF ThreadKept, ThreadDir, Only, Fields, Pcs, HdSome, HdHeld,
     HdOwned, NewHeld, Looking
<1>7. StepKept(t)'
  BY <1>1, <1>2, GiveUpDoes DEF ThreadKept, StepKept, Only, Fields, IsHead, HasBuddy,
     Changing, emp_get_block_head, Buddy, Ord, Behind
<1>8. QED
  BY <1>1, <1>2, <1>3, <1>4, <1>5, <1>6, <1>7, KeepOne, GiveUpDoes DEF Changing

LEMMA TryBuddyKeeps ==
    ASSUME IInv, NEW t \in Threads, Frame(t), TryBuddy(t)
    PROVE  IInv'
<1>1. /\ ThreadsKept /\ ThreadKept(t) /\ ThreadLocks(t) /\ ThreadDir(t) /\ StepKept(t)
      /\ UNCHANGED <<dir, order, fresh>> /\ \A g : Known(g)' = Known(g)
  BY Mine, TryBuddyDoes DEF Known
<1>2. th[t].bd \notin Locks(t) /\ th[t].bd \in Descs /\ th[t].bd \notin th[t].own
      /\ Held(th[t].bd) = NoThread
  BY <1>1, FreeIsNobodys, TryBuddyDoes DEF Take, StepKept, HasBuddy
<1>3. ThreadKept(t)'
  BY <1>1, <1>2, TryBuddyDoes DEF ThreadKept, Only, Fields, Frame, Pcs, HdSome, HdHeld,
     HdOwned, NewHeld, Looking
<1>4. LocksMove(t)
  <2>1. Locks(t)' = Locks(t) \cup {th[t].bd}
    BY <1>1, <1>2, TryBuddyDoes DEF ThreadKept, ThreadLocks, Locks, Extra, Only, Fields,
       Pcs, HdSome, HdHeld, HdOwned, NewHeld, Looking
  <2>2. th[t].bd \in Descs /\ Take(t, th[t].bd)
    BY <1>1, <1>2, TryBuddyDoes DEF ThreadKept, HdSome, HdOwned, HdHeld, StepKept, HasBuddy
  <2>3. QED
    BY <2>1, <2>2, LocksTaken
<1>5. ThreadLocks(t)'
  BY <1>1, <1>2, TryBuddyDoes DEF ThreadKept, ThreadLocks, Extra, Only, Fields, Pcs,
     HdSome, HdHeld, HdOwned, NewHeld, Looking
<1>6. ThreadDir(t)'
  BY <1>1, <1>2, TryBuddyDoes DEF ThreadKept, ThreadDir, Only, Fields, Pcs, HdSome,
     HdHeld, HdOwned, NewHeld, Looking
<1>7. StepKept(t)'
  <2>1. /\ Ord(th[t].hd)' = Ord(th[t].hd) /\ Buddy(th[t].hd)' = Buddy(th[t].hd)
        /\ emp_get_block_head(th[t].hd)' = emp_get_block_head(th[t].hd)
        /\ th'[t].hd = th[t].hd /\ th'[t].bd = th[t].bd /\ th'[t].pc = "buddy"
        /\ th[t].pc = "trybuddy"
    BY ZenonT(60), <1>1, TryBuddyDoes DEF Ord, Buddy, Behind, emp_get_block_head, Only, Fields
  <2>2. QED
    BY <1>1, <2>1 DEF StepKept, HasBuddy, Changing, IsHead
<1>8. QED
  BY <1>1, <1>2, <1>3, <1>4, <1>5, <1>6, <1>7, KeepOne, TryBuddyDoes DEF Changing

LEMMA UnsuitableKeeps ==
    ASSUME IInv, NEW t \in Threads, Frame(t), Unsuitable(t)
    PROVE  IInv'
<1>1. /\ ThreadsKept /\ ThreadKept(t) /\ ThreadLocks(t) /\ ThreadDir(t) /\ StepKept(t)
      /\ UNCHANGED <<dir, order, fresh>> /\ \A g : Known(g)' = Known(g)
  BY Mine, UnsuitableDoes DEF Known
<1>2. th[t].bd \notin th[t].own
  BY <1>1, UnsuitableDoes DEF ThreadLocks, Extra, HdHeld
<1>3. ThreadKept(t)'
  BY <1>1, <1>2, UnsuitableDoes DEF ThreadKept, Only, Fields, Frame, Pcs, HdSome, HdHeld,
     HdOwned, NewHeld, Looking
<1>4. LocksMove(t)
  <2>1. Locks(t)' = Locks(t) \ {th[t].bd}
    BY <1>1, <1>2, UnsuitableDoes DEF ThreadKept, ThreadLocks, Locks, Extra, Only, Fields,
       Pcs, HdSome, HdHeld, HdOwned, NewHeld, Looking
  <2>2. th[t].bd \in Locks(t) /\ th[t].bd \in Descs /\ Drop(th[t].bd)
    BY <1>1, <1>2, Mine, UnsuitableDoes DEF ThreadKept, ThreadLocks, Locks, Extra, HdSome,
       HdOwned, HdHeld, NewHeld
  <2>3. QED
    BY <2>1, <2>2, LocksDropped
<1>5. ThreadLocks(t)'
  BY <1>1, <1>2, UnsuitableDoes DEF ThreadKept, ThreadLocks, Extra, Only, Fields, Pcs,
     HdSome, HdHeld, HdOwned, NewHeld, Looking
<1>6. ThreadDir(t)'
  BY <1>1, <1>2, UnsuitableDoes DEF ThreadKept, ThreadDir, Only, Fields, Pcs, HdSome,
     HdHeld, HdOwned, NewHeld, Looking
<1>7. StepKept(t)'
  BY <1>1, <1>2, UnsuitableDoes DEF ThreadKept, StepKept, Only, Fields, IsHead, HasBuddy,
     Changing, emp_get_block_head, Buddy, Ord, Behind
<1>8. QED
  BY <1>1, <1>2, <1>3, <1>4, <1>5, <1>6, <1>7, KeepOne, UnsuitableDoes DEF Changing

LEMMA PassBlockKeeps ==
    ASSUME IInv, NEW t \in Threads, Frame(t), PassBlock(t)
    PROVE  IInv'
<1>1. /\ ThreadsKept /\ ThreadKept(t) /\ ThreadLocks(t) /\ ThreadDir(t) /\ StepKept(t)
      /\ UNCHANGED <<dir, order, fresh>> /\ \A g : Known(g)' = Known(g)
  BY Mine, PassBlockDoes DEF Known
<1>2. /\ Behind(th[t].hd) \in Subs \cup {Len} /\ Behind(th[t].hd) \in Int
      /\ th[t].hd \in th[t].own
  BY <1>1, PassBlockDoes, BehindHead, Indices
     DEF IInv, ThreadKept, HdSome, HdOwned, StepKept, IsHead, ThreadLocks
<1>3. ThreadKept(t)'
  BY <1>1, <1>2, PassBlockDoes DEF ThreadKept, Only, Fields, Frame, Pcs, HdSome, HdHeld,
     HdOwned, NewHeld, Looking
<1>4. LocksMove(t)
  <2>1. Locks(t)' = Locks(t) \ {th[t].hd}
    BY <1>1, <1>2, PassBlockDoes DEF ThreadKept, ThreadLocks, Locks, Extra, Only, Fields,
       Pcs, HdSome, HdHeld, HdOwned, NewHeld, Looking
  <2>2. th[t].hd \in Locks(t) /\ th[t].hd \in Descs /\ Drop(th[t].hd)
    BY <1>1, <1>2, Mine, PassBlockDoes DEF ThreadKept, ThreadLocks, Locks, Extra, HdSome,
       HdOwned, HdHeld, NewHeld
  <2>3. QED
    BY <2>1, <2>2, LocksDropped
<1>5. ThreadLocks(t)'
  BY <1>1, <1>2, PassBlockDoes DEF ThreadKept, ThreadLocks, Extra, Only, Fields, Pcs,
     HdSome, HdHeld, HdOwned, NewHeld, Looking
<1>6. ThreadDir(t)'
  BY <1>1, <1>2, PassBlockDoes DEF ThreadKept, ThreadDir, Only, Fields, Pcs, HdSome,
     HdHeld, HdOwned, NewHeld, Looking
<1>7. StepKept(t)'
  BY <1>1, <1>2, PassBlockDoes DEF ThreadKept, StepKept, Only, Fields, IsHead, HasBuddy,
     Changing, emp_get_block_head, Buddy, Ord, Behind
<1>8. QED
  BY <1>1, <1>2, <1>3, <1>4, <1>5, <1>6, <1>7, KeepOne, PassBlockDoes DEF Changing

LEMMA CheckHeadKeeps ==
    ASSUME IInv, NEW t \in Threads, Frame(t), CheckHead(t)
    PROVE  IInv'
<1>1. /\ ThreadsKept /\ ThreadKept(t) /\ ThreadLocks(t) /\ ThreadDir(t) /\ StepKept(t)
      /\ UNCHANGED <<dir, order, fresh>> /\ \A g : Known(g)' = Known(g)
  BY Mine, CheckHeadDoes DEF Known
<1>2. \/ /\ th'[t].pc \in {"fetched", "hinted", "victim"}
         /\ th'[t].own = th[t].own \cup {th[t].hd} /\ emp_get_block_head(th[t].hd) = th[t].hd
      \/ th'[t].pc = "giveup" /\ th'[t].own = th[t].own
  <2>1. CASE emp_get_block_head(gpa(t)) = th[t].hd /\ th'[t].pc = th[t].nxt
             /\ th'[t].own = th[t].own \cup {th[t].hd}
    <3> DEFINE g == th[t].gpa
               s == th[t].i
               h == th[t].hd
    <3>1. g \in Groups /\ s \in Subs /\ h \in Descs /\ h = <<g, Head[order[g][s]][s]>>
          /\ Held(h) = t /\ th[t].pc \notin Changing
      BY <1>1, <2>1, Mine, CheckHeadDoes DEF emp_get_block_head, gpa, Ord, ThreadKept,
         Known, HdSome,
            HdHeld, Pcs, Looking, Locks, Extra, Changing
    <3>2. order[g][s] \in Orders
      BY <3>1 DEF IInv, OrderKept
    <3>3. h[2] \in Subs /\ Head[order[g][s]][h[2]] = Head[order[g][s]][s] /\ h[1] = g
          /\ h[2] = Head[order[g][s]][s]
      <4>1. PICK o \in Orders : o = order[g][s]
        BY <3>2
      <4>2. Head[o][s] \in Subs /\ Head[o][Head[o][s]] = Head[o][s]
        BY <3>1, Heads
      <4>3. h[1] = g /\ h[2] = Head[o][s]
        BY <3>1, <4>1
      <4> HIDE DEF g, s, h
      <4>4. QED
        BY <4>1, <4>2, <4>3
    <3>4. order[g][h[2]] = order[g][s]
      <4>1. emp_get_block_head(<<g, s>>) = h
        BY <2>1 DEF gpa
      <4>2. Held(emp_get_block_head(<<g, s>>)) = t /\ g \in Groups /\ s \in Subs
            /\ h[2] \in Subs /\ Head[order[g][s]][h[2]] = Head[order[g][s]][s]
            /\ th[t].pc \notin Changing
        BY <3>1, <3>3, <4>1
      <4> HIDE DEF g, s, h
      <4>3. QED
        BY <4>2, BlockAgrees
    <3>5. emp_get_block_head(h) = h
      BY <3>1, <3>3, <3>4 DEF emp_get_block_head, Ord
    <3>6. QED
      <4>1. th[t].nxt \in {"fetched", "hinted", "victim"}
        BY <1>1, CheckHeadDoes DEF ThreadKept
      <4>2. QED
        BY <2>1, <3>5, <4>1
  <2>2. QED
    BY <2>1, CheckHeadDoes, <1>1
<1>3. ThreadKept(t)'
  BY <1>1, <1>2, CheckHeadDoes DEF ThreadKept, Only, Fields, Frame, Pcs, HdSome, HdHeld,
     HdOwned, NewHeld, Looking
<1>4. LocksMove(t)
  <2>1. Locks(t)' = Locks(t)
    BY <1>1, <1>2, CheckHeadDoes DEF ThreadKept, ThreadLocks, Locks, Extra, Only, Fields,
       Pcs, HdSome, HdHeld, HdOwned, NewHeld, Looking
  <2>2. QED
    BY <2>1, <1>1, CheckHeadDoes, LocksStay
<1>5. ThreadLocks(t)'
  BY <1>1, <1>2, CheckHeadDoes DEF ThreadKept, ThreadLocks, Extra, Only, Fields, Pcs,
     HdSome, HdHeld, HdOwned, NewHeld, Looking
<1>6. ThreadDir(t)'
  BY <1>1, <1>2, CheckHeadDoes DEF ThreadKept, ThreadDir, Only, Fields, Pcs, HdSome,
     HdHeld, HdOwned, NewHeld, Looking
<1>7. StepKept(t)'
  BY <1>1, <1>2, CheckHeadDoes DEF ThreadKept, StepKept, Only, Fields, IsHead, HasBuddy,
     Changing, emp_get_block_head, Buddy, Ord, Behind
<1>8. QED
  BY <1>1, <1>2, <1>3, <1>4, <1>5, <1>6, <1>7, KeepOne, CheckHeadDoes DEF Changing

LEMMA TryAllKeeps ==
    ASSUME IInv, NEW t \in Threads, Frame(t), TryAll(t)
    PROVE  IInv'
<1>1. /\ ThreadsKept /\ ThreadKept(t) /\ ThreadLocks(t) /\ ThreadDir(t) /\ StepKept(t)
      /\ UNCHANGED <<dir, order, fresh>> /\ \A g : Known(g)' = Known(g)
  BY Mine, TryAllDoes DEF Known
<1>2. /\ th[t].k \in Subs /\ th[t].k \in Int /\ th[t].hd = <<th[t].hd[1], th[t].hd[2]>>
      /\ <<th[t].hd[1], th[t].k>> \in Descs /\ <<th[t].hd[1], th[t].k>> \notin Locks(t)
      /\ th[t].end \in Int /\ th[t].hd[2] \in Int
  <2>1. /\ th[t].hd \in Descs /\ emp_get_block_head(th[t].hd) = th[t].hd
        /\ th[t].k \in Int /\ th[t].hd[2] < th[t].k /\ th[t].end = Behind(th[t].hd)
        /\ th[t].k < th[t].end
    BY <1>1, TryAllDoes DEF ThreadKept, HdSome, HdOwned, StepKept, IsHead
  <2>2. th[t].hd[2] \in Subs /\ Behind(th[t].hd) \in Subs \cup {Len}
    BY <2>1, BehindHead DEF IInv
  <2>3. th[t].k \in Subs
    BY <2>1, <2>2, Indices
  <2>4. <<th[t].hd[1], th[t].k>> \in Descs /\ th[t].hd = <<th[t].hd[1], th[t].hd[2]>>
    BY <2>1, <2>3 DEF Descs
  <2>5. QED
    <3>1. <<th[t].hd[1], th[t].k>> \notin Locks(t)
      BY <2>4, FreeIsNobodys, TryAllDoes, <1>1 DEF Take
    <3>2. th[t].end \in Int /\ th[t].hd[2] \in Int
      BY <2>1, <2>2, Indices
    <3>3. QED
      BY <2>1, <2>3, <2>4, <3>1, <3>2
<1>3. ThreadKept(t)'
  BY <1>1, <1>2, TryAllDoes DEF ThreadKept, Only, Fields, Frame, Pcs, HdSome, HdHeld,
     HdOwned, NewHeld, Looking
<1>4. LocksMove(t)
  <2>1. Locks(t)' = Locks(t) \cup {<<th[t].hd[1], th[t].k>>}
    BY <1>1, <1>2, TryAllDoes DEF ThreadKept, ThreadLocks, Locks, Extra, Only, Fields,
       Pcs, HdSome, HdHeld, HdOwned, NewHeld, Looking
  <2>2. <<th[t].hd[1], th[t].k>> \in Descs /\ Take(t, <<th[t].hd[1], th[t].k>>)
    BY <1>1, <1>2, TryAllDoes DEF ThreadKept, HdSome, HdOwned, HdHeld, StepKept, HasBuddy
  <2>3. QED
    BY <2>1, <2>2, LocksTaken
<1>5. ThreadLocks(t)'
  BY <1>1, <1>2, TryAllDoes DEF ThreadKept, ThreadLocks, Extra, Only, Fields, Pcs, HdSome,
     HdHeld, HdOwned, NewHeld, Looking
<1>6. ThreadDir(t)'
  BY <1>1, <1>2, TryAllDoes DEF ThreadKept, ThreadDir, Only, Fields, Pcs, HdSome, HdHeld,
     HdOwned, NewHeld, Looking
<1>7. StepKept(t)'
  <2>1. /\ th'[t].pc = "tryall" /\ th'[t].hd = th[t].hd /\ th'[t].end = th[t].end
        /\ th'[t].own = th[t].own \cup {<<th[t].hd[1], th[t].k>>} /\ th'[t].k = th[t].k + 1
        /\ th[t].k < th[t].end /\ th[t].pc = "tryall"
    BY <1>1, TryAllDoes DEF Only, Fields
  <2>2. /\ Ord(th[t].hd)' = Ord(th[t].hd) /\ Behind(th[t].hd)' = Behind(th[t].hd)
        /\ emp_get_block_head(th[t].hd)' = emp_get_block_head(th[t].hd)
    BY <1>1, <2>1 DEF Ord, Behind, emp_get_block_head
  <2>3. ASSUME NEW s \in Subs, th[t].hd[2] <= s, s < th[t].k + 1
        PROVE  <<th[t].hd[1], s>> \in th'[t].own
    <3>1. s < th[t].k \/ s = th[t].k
      BY <1>2, <2>3, Indices
    <3>2. QED
      BY <1>1, <2>1, <2>3, <3>1 DEF StepKept
  <2>4. th'[t].k \in Int /\ th[t].hd[2] < th'[t].k /\ th'[t].k <= th'[t].end
    BY <1>1, <1>2, <2>1 DEF StepKept
  <2>5. QED
    BY <1>1, <2>1, <2>2, <2>3, <2>4 DEF StepKept, HasBuddy, Changing, IsHead
<1>8. QED
  BY <1>1, <1>2, <1>3, <1>4, <1>5, <1>6, <1>7, KeepOne, TryAllDoes DEF Changing

LEMMA DisownKeeps ==
    ASSUME IInv, NEW t \in Threads, Frame(t), NEW d \in th[t].own, NEW pc, Disown(t, d, pc),
           \/ th[t].pc \in {"done", "stretched"} /\ pc = "done"
           \/ th[t].pc = "undo" /\ pc = "undo" /\ d # th[t].hd
           \/ th[t].pc = "flush" /\ pc \in {"flush", "get", "done"} /\ (pc = "get" => th[t].i # Len)
    PROVE  IInv'
<1>1. /\ ThreadsKept /\ ThreadKept(t) /\ ThreadLocks(t) /\ ThreadDir(t) /\ StepKept(t)
      /\ UNCHANGED <<dir, order, fresh>> /\ \A g : Known(g)' = Known(g) /\ d \in Descs
      /\ th[t].pc \in {"done", "stretched", "undo", "flush"}
  BY Mine, DisownDoes DEF Known
<1>2. th'[t].own = th[t].own \ {d} /\ th'[t].pc = pc /\ Only(t, {"own", "pc"}) /\ Drop(d)
  BY <1>1, DisownDoes
<1>3. ThreadKept(t)'
  BY <1>1, <1>2 DEF ThreadKept, Only, Fields, Frame, Pcs, HdSome, HdHeld, HdOwned,
     NewHeld, Looking
<1>4. LocksMove(t)
  <2>1. Locks(t)' = Locks(t) \ {d}
    BY <1>1, <1>2 DEF Locks, Extra, Only, Fields, HdHeld, NewHeld
  <2>2. d \in Locks(t)
    BY DEF Locks
  <2>3. QED
    BY <1>1, <1>2, <2>1, <2>2, LocksDropped
<1>5. ThreadLocks(t)'
  BY <1>1, <1>2 DEF ThreadLocks, Extra, Only, Fields, HdHeld, HdOwned, NewHeld
<1>6. ThreadDir(t)'
  BY <1>1, <1>2 DEF ThreadDir, Only, Fields
<1>7. StepKept(t)'
  BY <1>1, <1>2 DEF StepKept, Only, Fields, IsHead, HasBuddy, Changing,
     emp_get_block_head, Ord, Behind
<1>8. QED
  BY <1>1, <1>3, <1>4, <1>5, <1>6, <1>7, KeepOne DEF Changing

LEMMA UnlockKeeps ==
    ASSUME IInv, NEW t \in Threads, Frame(t), Unlock(t) \/ Stretched(t) \/ Undo(t) \/ Flush(t)
    PROVE  IInv'
<1>1. CASE Unlock(t)
  BY <1>1, DisownKeeps DEF Unlock, At, IsFirst
<1>2. CASE Stretched(t)
  BY <1>2, DisownKeeps DEF Stretched, At
<1>3. CASE Undo(t)
  BY <1>3, DisownKeeps DEF Undo, At, IsFirst
<1>4. CASE Flush(t)
  <2>1. PICK d \in th[t].own : Disown(t, d, IF th[t].own = {d} THEN Onward(th[t]) ELSE "flush")
    BY <1>4 DEF Flush
  <2>2. th[t].pc = "flush"
    BY <1>4 DEF Flush, At
  <2>3. CASE th[t].own = {d} /\ th[t].i = Len
    BY <2>1, <2>2, <2>3, DisownKeeps DEF Onward
  <2>4. CASE th[t].own = {d} /\ th[t].i # Len
    BY <2>1, <2>2, <2>4, DisownKeeps DEF Onward
  <2>5. CASE th[t].own # {d}
    BY <2>1, <2>2, <2>5, DisownKeeps
  <2>6. QED
    BY <2>3, <2>4, <2>5
<1>5. QED
  BY <1>1, <1>2, <1>3, <1>4

(* A call begins where none was, and nothing is held between calls.        *)
LEMMA CallKeeps ==
    ASSUME IInv, NEW t \in Threads, Frame(t), UNCHANGED <<dir, order, lock, fresh>>,
           th[t].pc \in {"idle", "done"}, th[t].own = {}, th'[t].own = {},
           th'[t].v \in Views,
           \/ th'[t].pc = "idle" /\ th'[t].op = "none" /\ th'[t].gpa = NoGroup /\ th'[t].i = 0
           \/ /\ th'[t].pc = "get" /\ th'[t].op \in {"fault", "hint"} /\ th'[t].i \in Subs
              /\ th'[t].gpa = NoGroup /\ th'[t].nxt \in {"fetched", "hinted", "victim"}
           \/ /\ th'[t].pc = "derive" /\ th'[t].op = "evict" /\ th'[t].i \in Subs
              /\ Known(th'[t].gpa) /\ th'[t].nxt = "victim"
    PROVE  IInv'
<1>1. /\ ThreadsKept /\ ThreadKept(t) /\ ThreadLocks(t) /\ \A g : Known(g)' = Known(g)
      /\ th'[t].pc \in {"idle", "get", "derive"}
  BY Mine DEF Known
<1>2. ThreadKept(t)'
  <2>1. th'[t].i \in Int
    BY Indices
  <2>2. th'[t].gpa \in Groups \cup {NoGroup}
    BY DEF Known
  <2>3. QED
    BY <1>1, <2>1, <2>2 DEF ThreadKept, Frame, Pcs, HdSome, HdHeld, HdOwned, NewHeld,
       Looking
<1>3. LocksMove(t)
  <2>1. Locks(t)' = Locks(t)
    BY <1>1 DEF Locks, Extra, HdHeld, NewHeld
  <2>2. QED
    BY <2>1, LocksStay
<1>4. ThreadLocks(t)'
  BY <1>1 DEF ThreadLocks, Extra, HdHeld, HdOwned, NewHeld
<1>5. ThreadDir(t)'
  BY <1>1 DEF ThreadDir
<1>6. StepKept(t)'
  BY <1>1 DEF StepKept, IsHead, HasBuddy, Changing
<1>7. QED
  BY <1>2, <1>3, <1>4, <1>5, <1>6, KeepOne DEF Changing

LEMMA BeginKeeps ==
    ASSUME IInv, NEW t \in Threads, Frame(t), Fault(t) \/ Hint(t) \/ Evict(t) \/ Return(t)
    PROVE  IInv'
<1>1. /\ ThreadsKept /\ ThreadKept(t) /\ config \in Configs
      /\ config.views \subseteq Views /\ config.views # {} /\ config.at \subseteq Subs
  BY Mine, LocksAssumption DEF IInv, ThreadsKept
<1>2. /\ Idle.pc = "idle" /\ Idle.op = "none" /\ Idle.i = 0 /\ Idle.gpa = NoGroup
      /\ Idle.own = {} /\ Idle.v \in Views
  BY <1>1, IdleFields
<1>3. ASSUME NEW op \in {"fault", "hint"}, NEW nxt \in {"fetched", "hinted"}, Reads(t, op, nxt)
      PROVE  IInv'
  <2>1. PICK v \in config.views, i \in config.at : Begin(t, op, v, i, nxt)
    BY <1>3 DEF Reads
  <2>2. /\ th[t].pc = "idle" /\ th'[t].pc = "get" /\ th'[t].op = op
        /\ th'[t].v \in Views /\ th'[t].i \in Subs
        /\ th'[t].own = th[t].own /\ th'[t].gpa = NoGroup
        /\ th'[t].nxt = nxt
        /\ UNCHANGED <<dir, order, lock, fresh>>
    BY <1>1, <2>1, BeginDoes
  <2>3. th[t].own = {}
    BY <1>1, <2>2 DEF ThreadKept
  <2>4. QED
    BY <2>2, <2>3, CallKeeps
<1>4. CASE Fault(t)
  BY <1>3, <1>4 DEF Fault
<1>5. CASE Hint(t)
  BY <1>3, <1>5 DEF Hint
<1>6. CASE Evict(t)
  <2>1. /\ th[t].pc = "idle" /\ th'[t].pc = "derive" /\ th'[t].op = "evict"
        /\ th'[t].v \in Views /\ th'[t].nxt = "victim" /\ th'[t].own = th[t].own
        /\ UNCHANGED <<dir, order, lock, fresh>>
    BY <1>1, <1>2, <1>6, EvictDoes
  <2>2. PICK v \in config.views, i \in config.at :
            dir[v][i] # NoGroup /\ th'[t].i = i /\ th'[t].gpa = dir[v][i]
    BY <1>1, <1>6, EvictDoes
  <2>3. Known(th'[t].gpa) /\ th'[t].i \in Subs
    BY <1>1, <2>2, Published
  <2>4. th[t].own = {}
    BY <1>1, <2>1 DEF ThreadKept
  <2>5. QED
    BY <2>1, <2>3, <2>4, CallKeeps
<1>7. CASE Return(t)
  <2>1. th[t].pc = "done" /\ th[t].own = {} /\ th'[t] = Idle /\ UNCHANGED <<dir, order, lock, fresh>>
    BY <1>1, <1>7, ReturnDoes
  <2>2. QED
    BY <1>2, <2>1, CallKeeps
<1>8. QED
  BY <1>4, <1>5, <1>6, <1>7

-----------------------------------------------------------------------------
(***************************************************************************)
(* A thread sets out to change orders: all heads of the range are its own. *)
(***************************************************************************)
LEMMA SetsOut ==
    ASSUME IInv, NEW t \in Threads, UNCHANGED order,
           NEW p \in Orders, NEW q \in 0 .. p, NEW r \in 0 .. p, NEW a \in Subs,
           NEW g, g = th'[t].hd[1], start(t)' = a, Head[p][a] = a, th'[t].k = a,
           th'[t].end = a + Width[p], NewOrder(t, q)' = r,
           \A s \in Subs : Head[p][s] = a => order[g][s] = q /\ <<g, Head[q][s]>> \in th'[t].own
                                             /\ <<g, Head[r][s]>> \in th'[t].own
    PROVE  Working(t)'
<1>1. Width[p] \in Nat /\ Width[p] >= 1 /\ a \in Int /\ q \in Orders
  BY Sizes, Indices DEF Orders
<1>2. \A s \in Subs : InRange(t, s)' <=> a <= s /\ s < a + Width[p]
  BY DEF InRange
<1>3. \A s \in Subs : InRange(t, s)' => Head[p][s] = a /\ ~(s < a)
  <2>1. \A s \in Subs : a <= s /\ s < a + Width[p] => Head[p][s] = a
    BY Heads
  <2>2. \A s \in Subs : a <= s => ~(s < a)
    BY <1>1, Indices
  <2>3. QED
    BY <1>2, <2>1, <2>2
<1>4. InRange(t, a)'
  BY <1>1, <1>2
<1>5. WorkingOn(t, p, q)'
  BY <1>1, <1>3, <1>4 DEF WorkingOn
<1>6. QED
  BY <1>1, <1>5 DEF Working

LEMMA OwnBlock ==
    ASSUME IInv, NEW t \in Threads, th[t].pc \notin Changing,
           NEW h \in Descs, Held(h) = t, emp_get_block_head(h) = h
    PROVE  \A x \in Subs : Head[Ord(h)][x] = h[2] => order[h[1]][x] = Ord(h)
<1>1. h[1] \in Groups /\ h[2] \in Subs /\ h = <<h[1], h[2]>>
  BY DEF Descs
<1>2. Head[Ord(h)][h[2]] = h[2]
  BY BehindHead DEF IInv
<1>3. QED
  BY <1>1, <1>2, BlockAgrees DEF Ord

LEMMA AllLockedKeeps ==
    ASSUME IInv, NEW t \in Threads, Frame(t), AllLocked(t)
    PROVE  IInv'
<1> DEFINE h == th[t].hd
           g == h[1]
<1>1. /\ ThreadsKept /\ ThreadKept(t) /\ ThreadLocks(t) /\ ThreadDir(t) /\ StepKept(t)
      /\ UNCHANGED <<dir, order, fresh>> /\ \A x : Known(x)' = Known(x)
  BY Mine, AllLockedDoes DEF Known
<1>2. ThreadKept(t)'
  BY <1>1, AllLockedDoes DEF ThreadKept, Only, Fields, Frame, Pcs, HdSome, HdHeld,
     HdOwned, NewHeld, Looking
<1>3. LocksMove(t)
  <2>1. Locks(t)' = Locks(t)
    BY <1>1, AllLockedDoes DEF Locks, Extra, Only, Fields, HdHeld, NewHeld
  <2>2. QED
    BY <1>1, <2>1, AllLockedDoes, LocksStay
<1>4. ThreadLocks(t)'
  BY <1>1, AllLockedDoes DEF ThreadLocks, Extra, Only, Fields, HdHeld, HdOwned, NewHeld
<1>5. ThreadDir(t)'
  BY <1>1, AllLockedDoes DEF ThreadDir
<1>6. Working(t)'
  <2>1. /\ h \in Descs /\ h \in th[t].own /\ emp_get_block_head(h) = h /\ th[t].end = Behind(h)
        /\ th[t].k = th[t].end /\ th[t].pc = "tryall"
        /\ \A s \in Subs : h[2] <= s /\ s < th[t].k => <<g, s>> \in th[t].own
    BY <1>1, AllLockedDoes DEF ThreadKept, ThreadLocks, StepKept, HdSome, HdOwned, IsHead
  <2>2. /\ Ord(h) \in Orders /\ h[2] \in Subs /\ Head[Ord(h)][h[2]] = h[2] /\ h = <<g, h[2]>>
        /\ \A x \in Subs : Head[Ord(h)][x] = h[2] <=> h[2] <= x /\ x < Behind(h)
    BY <2>1, BehindHead DEF IInv, Descs
  <2>3. Held(h) = t
    BY <2>1, Mine DEF Locks
  <2>4. \A s \in Subs : Head[Ord(h)][s] = h[2] => order[g][s] = Ord(h)
    BY <2>1, <2>3, OwnBlock DEF Changing
  <2>5. \A s \in Subs : Head[0][s] = s
    <3>1. Width[0] = 1 /\ 0 \in Orders
      BY Sizes, LocksAssumption
    <3>2. QED
      BY <3>1, Heads, Indices
  <2>6. /\ th'[t].hd = h /\ th'[t].own = th[t].own /\ th'[t].end = h[2] + Width[Ord(h)]
        /\ th'[t].k = h[2] /\ th'[t].pc = "single"
    BY <2>1, AllLockedDoes, <1>1 DEF Only, Fields, Behind
  <2>7. start(t)' = h[2] /\ (\A q : NewOrder(t, q)' = 0) /\ UNCHANGED order
    BY <2>6, <1>1 DEF start, NewOrder, At
  <2>8. Ord(h) \in 0 .. Ord(h) /\ 0 \in 0 .. Ord(h)
    BY <2>2, Sizes DEF Orders
  <2>9. \A s \in Subs : Head[Ord(h)][s] = h[2] =>
            /\ order[g][s] = Ord(h) /\ <<g, Head[Ord(h)][s]>> \in th'[t].own
            /\ <<g, Head[0][s]>> \in th'[t].own
    BY <2>1, <2>2, <2>4, <2>5, <2>6
  <2> HIDE DEF h, g
  <2>10. QED
    BY <2>2, <2>6, <2>7, <2>8, <2>9, SetsOut DEF g
<1>7. StepKept(t)'
  BY <1>1, <1>6, AllLockedDoes DEF StepKept, IsHead, HasBuddy
<1>8. QED
  BY <1>1, <1>2, <1>3, <1>4, <1>5, <1>7, AllLockedDoes, KeepOne DEF Changing

LEMMA TryHalfKeeps ==
    ASSUME IInv, NEW t \in Threads, Frame(t), TryHalf(t)
    PROVE  IInv'
<1> DEFINE h == th[t].hd
           g == h[1]
           o == Ord(h)
           b == h[2] + Width[o - 1]
           d == <<g, b>>
<1>1. /\ ThreadsKept /\ ThreadKept(t) /\ ThreadLocks(t) /\ ThreadDir(t) /\ StepKept(t)
      /\ UNCHANGED <<dir, order, fresh>> /\ \A x : Known(x)' = Known(x)
  BY ZenonT(60), Mine, TryHalfDoes DEF Known
<1>2. /\ h \in Descs /\ emp_get_block_head(h) = h /\ th[t].end = Behind(h) /\ o > 0
      /\ th[t].pc = "undo" /\ th[t].own = {h} /\ Only(t, {"own", "bd", "pc", "k"})
      /\ Known(g)
  BY <1>1, TryHalfDoes DEF ThreadKept, StepKept, HdSome, HdOwned, IsHead
<1>3. \/ Take(t, d) /\ th'[t].own = {h, d} /\ th'[t].k = h[2] /\ th'[t].pc = "halve"
      \/ th'[t].pc = "done" /\ th'[t].own = {h} /\ UNCHANGED lock
  BY <1>1, TryHalfDoes
<1>4. /\ o \in Orders /\ h[2] \in Subs /\ Head[o][h[2]] = h[2] /\ h = <<g, h[2]>> /\ g \in Groups
      /\ Behind(h) = h[2] + Width[o]
  BY <1>2, BehindHead DEF IInv, Descs, Behind
<1>5. /\ o - 1 \in Orders /\ (o - 1) + 1 = o /\ o - 1 # MaxOrder /\ o \in 0 .. o /\ o - 1 \in 0 .. o
      /\ o \in Int
  BY <1>2, <1>4, Sizes DEF Orders
<1> HIDE DEF o
<1>6. /\ b \in Subs /\ b # h[2]
      /\ \A x \in Subs : Head[o][x] = h[2] => Head[o - 1][x] \in {h[2], b}
  <2>1. /\ b \in Subs
        /\ \A x \in Subs : Head[o][x] = h[2] => Head[o - 1][x] \in {h[2], b}
    BY <1>4, <1>5, Halves
  <2>2. Width[o - 1] \in Nat /\ Width[o - 1] >= 1 /\ h[2] \in Int
    BY <1>4, <1>5, Sizes, Indices
  <2>3. QED
    BY <2>1, <2>2
<1> HIDE DEF b
<1>7. d \in Descs /\ d # h
  BY <1>4, <1>6 DEF Descs
<1>8. /\ th'[t].hd = h /\ th'[t].op = th[t].op /\ th'[t].nxt = th[t].nxt /\ th'[t].v = th[t].v
      /\ th'[t].i = th[t].i /\ th'[t].gpa = th[t].gpa /\ th'[t].new = th[t].new
      /\ th'[t].end = th[t].end
  BY <1>2 DEF Only, Fields
<1> HIDE DEF h, g
<1>9. th'[t].pc \in {"halve", "done"} /\ th'[t].own \subseteq {h, d} /\ h \in th'[t].own
  BY <1>3
<1>10. ThreadKept(t)'
  BY <1>1, <1>2, <1>7, <1>8, <1>9 DEF d, g, ThreadKept, Frame, Pcs, HdSome, HdHeld,
     HdOwned, NewHeld, Looking
<1>11. LocksMove(t)
  <2>1. Locks(t) = {h} /\ Locks(t)' = th'[t].own
    BY <1>2, <1>9 DEF Locks, Extra, HdHeld, NewHeld
  <2>2. CASE Take(t, d) /\ th'[t].own = {h, d}
    <3>1. Locks(t)' = Locks(t) \cup {d}
      BY <2>1, <2>2
    <3> HIDE DEF d
    <3>2. QED
      BY <1>7, <2>2, <3>1, LocksTaken
  <2>3. CASE UNCHANGED lock /\ th'[t].own = {h}
    BY <2>1, <2>3, LocksStay
  <2>4. QED
    BY <1>3, <2>2, <2>3
<1>12. ThreadLocks(t)'
  BY <1>8, <1>9 DEF ThreadLocks, Extra, HdHeld, NewHeld
<1>13. ThreadDir(t)'
  BY <1>9 DEF ThreadDir
<1>14. th'[t].pc = "halve" => Working(t)'
  <2> SUFFICES ASSUME th'[t].pc = "halve"
               PROVE  Working(t)'
    OBVIOUS
  <2>1. th'[t].own = {h, d} /\ th'[t].k = h[2] /\ th'[t].end = h[2] + Width[o]
    BY <1>2, <1>3, <1>4, <1>8
  <2>2. start(t)' = h[2] /\ \A q : NewOrder(t, q)' = q - 1
    BY <1>8 DEF start, NewOrder, At
  <2>3. Held(h) = t
    BY <1>2, Mine DEF Locks
  <2>4. \A s \in Subs : Head[o][s] = h[2] => order[g][s] = o
    BY <1>2, <2>3, OwnBlock DEF Changing, o, g
  <2>5. \A s \in Subs : Head[o][s] = h[2] =>
            /\ order[g][s] = o /\ <<g, Head[o][s]>> \in th'[t].own
            /\ <<g, Head[o - 1][s]>> \in th'[t].own
    BY <1>4, <1>6, <2>1, <2>4
  <2>6. g = th'[t].hd[1] /\ UNCHANGED order
    BY <1>1, <1>8 DEF g
  <2>7. QED
    BY <1>4, <1>5, <2>1, <2>2, <2>5, <2>6, SetsOut
<1>15. StepKept(t)'
  BY <1>9, <1>14 DEF StepKept, IsHead, HasBuddy, Changing
<1>16. QED
  BY <1>1, <1>2, <1>10, <1>11, <1>12, <1>13, <1>15, KeepOne DEF Changing

LEMMA SuitableKeeps ==
    ASSUME IInv, NEW t \in Threads, Frame(t), Suitable(t)
    PROVE  IInv'
<1> DEFINE h == th[t].hd
           b == th[t].bd
           g == h[1]
           o == Ord(h)
           a == Head[o + 1][h[2]]
<1>1. /\ ThreadsKept /\ ThreadKept(t) /\ ThreadLocks(t) /\ ThreadDir(t) /\ StepKept(t)
      /\ UNCHANGED <<dir, order, fresh, lock>> /\ \A x : Known(x)' = Known(x)
      /\ th[t].pc = "buddy" /\ th'[t].pc = "stretch" /\ Only(t, {"own", "pc", "k", "end"})
  BY Mine, SuitableDoes DEF Known
<1>2. /\ th'[t].own = th[t].own \cup {b} /\ th'[t].k = a /\ th'[t].end = a + Width[o + 1]
      /\ Ord(b) = o
  BY <1>1, SuitableDoes
<1>3. /\ h \in Descs /\ b = Buddy(h) /\ b \in Descs /\ emp_get_block_head(h) = h /\ o < MaxOrder
      /\ h \in th[t].own /\ Known(g) /\ b \notin th[t].own
  BY <1>1 DEF ThreadKept, ThreadLocks, Extra, StepKept, HdSome, HdOwned, IsHead, HasBuddy,
     HdHeld
<1>4. /\ o \in Orders /\ o + 1 \in Orders /\ a \in Subs /\ h[2] \in Subs
      /\ b[1] = g /\ {h[2], b[2]} = {a, a + Width[o]} /\ h = <<g, h[2]>> /\ b = <<g, b[2]>>
      /\ Head[o][a] = a /\ Head[o + 1][a] = a /\ Head[o][a + Width[o]] = a + Width[o]
      /\ \A x \in Subs : Head[o + 1][x] = a => Head[o][x] \in {h[2], b[2]}
  <2>1. OrderKept
    BY DEF IInv
  <2>2. /\ o \in Orders /\ o + 1 \in Orders /\ a \in Subs /\ h[2] \in Subs
        /\ b[1] = h[1] /\ {h[2], b[2]} = {a, a + Width[o]}
        /\ Head[o][a] = a /\ Head[o + 1][a] = a /\ Head[o][a + Width[o]] = a + Width[o]
        /\ \A x \in Subs : Head[o + 1][x] = a => Head[o][x] \in {h[2], b[2]}
    <3>1. PICK x \in Descs : x = h
      BY <1>3
    <3>2. emp_get_block_head(x) = x /\ Ord(x) < MaxOrder
      BY <1>3, <3>1
    <3>3. /\ Ord(x) \in Orders /\ Ord(x) + 1 \in Orders
          /\ Head[Ord(x) + 1][x[2]] \in Subs /\ x[2] \in Subs /\ Buddy(x)[1] = x[1]
          /\ {x[2], Buddy(x)[2]}
             = {Head[Ord(x) + 1][x[2]], Head[Ord(x) + 1][x[2]] + Width[Ord(x)]}
          /\ Head[Ord(x)][Head[Ord(x) + 1][x[2]]] = Head[Ord(x) + 1][x[2]]
          /\ Head[Ord(x) + 1][Head[Ord(x) + 1][x[2]]] = Head[Ord(x) + 1][x[2]]
          /\ Head[Ord(x)][Head[Ord(x) + 1][x[2]] + Width[Ord(x)]]
             = Head[Ord(x) + 1][x[2]] + Width[Ord(x)]
          /\ \A y \in Subs : Head[Ord(x) + 1][y] = Head[Ord(x) + 1][x[2]]
                             => Head[Ord(x)][y] \in {x[2], Buddy(x)[2]}
      BY <2>1, <3>2, BuddyInGroup
    <3>4. QED
      BY <1>3, <3>1, <3>3
  <2>3. h = <<h[1], h[2]>> /\ b = <<b[1], b[2]>>
    BY <1>3 DEF Descs
  <2>4. QED
    BY <2>2, <2>3
<1>5. /\ th'[t].hd = h /\ th'[t].bd = b /\ th'[t].op = th[t].op /\ th'[t].nxt = th[t].nxt
      /\ th'[t].v = th[t].v /\ th'[t].i = th[t].i /\ th'[t].gpa = th[t].gpa
      /\ th'[t].new = th[t].new
  BY <1>1 DEF Only, Fields
<1>6. ThreadKept(t)'
  BY <1>1, <1>2, <1>3, <1>4, <1>5 DEF ThreadKept, Frame, Pcs, HdSome, HdHeld, HdOwned,
     NewHeld, Looking
<1>7. LocksMove(t)
  <2>1. Locks(t)' = Locks(t)
    BY <1>1, <1>2 DEF Locks, Extra, HdHeld, NewHeld
  <2>2. QED
    BY <1>1, <2>1, LocksStay
<1>8. ThreadLocks(t)'
  BY <1>1, <1>2, <1>3, <1>5 DEF ThreadLocks, Extra, HdHeld, NewHeld
<1>9. ThreadDir(t)'
  BY <1>1 DEF ThreadDir
<1>10. Held(h) = t /\ Held(b) = t
  BY <1>1, <1>3, Mine DEF Locks, Extra, HdHeld
<1>11. emp_get_block_head(b) = b
  <2> HIDE DEF a, o
  <2>1. Head[o][b[2]] = b[2]
    BY <1>4
  <2>2. QED
    BY <1>2, <1>4, <2>1 DEF emp_get_block_head
<1>12. \A s \in Subs : Head[o][s] \in {h[2], b[2]} => order[g][s] = o
  <2>1. \A s \in Subs : Head[o][s] = h[2] => order[g][s] = o
    BY <1>1, <1>3, <1>10, OwnBlock DEF Changing
  <2>2. \A s \in Subs : Head[o][s] = b[2] => order[g][s] = o
    <3>1. th[t].pc \notin Changing /\ b \in Descs /\ Held(b) = t /\ emp_get_block_head(b) = b
          /\ b[1] = g /\ Ord(b) = o
      BY <1>1, <1>2, <1>3, <1>4, <1>10, <1>11 DEF Changing
    <3> HIDE DEF a, o, g, b
    <3>2. QED
      BY <3>1, OwnBlock
  <2>3. QED
    BY <2>1, <2>2
<1>13. start(t)' = a
  <2>1. a \in Int /\ Width[o] \in Nat /\ Width[o] >= 1
    BY <1>4, Sizes, Indices
  <2>2. start(t)' = IF b[2] < h[2] THEN b[2] ELSE h[2]
    BY <1>1, <1>5 DEF start, At
  <2> HIDE DEF a, o
  <2>3. QED
    BY <1>4, <2>1, <2>2
<1>14. \A q : NewOrder(t, q)' = q + 1
  BY <1>1 DEF NewOrder, At
<1> HIDE DEF a, o, g, h, b
<1>15. o \in 0 .. o + 1 /\ o + 1 \in 0 .. o + 1
  BY <1>4, Sizes DEF Orders
<1>16. \A s \in Subs : Head[o + 1][s] = a =>
            /\ order[g][s] = o /\ <<g, Head[o][s]>> \in th'[t].own
            /\ <<g, Head[o + 1][s]>> \in th'[t].own
  <2>1. h \in th'[t].own /\ b \in th'[t].own
    BY <1>2, <1>3
  <2>2. <<g, a>> \in {h, b}
    BY <1>4
  <2>3. QED
    BY <1>4, <1>12, <2>1, <2>2
<1>17. Working(t)'
  <2>1. g = th'[t].hd[1]
    BY <1>5 DEF g
  <2>2. QED
    BY <1>1, <1>2, <1>4, <1>13, <1>14, <1>15, <1>16, <2>1, SetsOut
<1>18. StepKept(t)'
  BY <1>1, <1>17 DEF StepKept, IsHead, HasBuddy
<1>19. QED
  BY <1>1, <1>6, <1>7, <1>8, <1>9, <1>18, KeepOne DEF Changing

-----------------------------------------------------------------------------
(***************************************************************************)
(* A new order for one more descriptor of the range.                       *)
(***************************************************************************)
LEMMA Nested ==
    ASSUME NEW o \in Orders, NEW p \in Orders, o <= p, NEW s \in Subs, NEW x \in Subs,
           Head[o][x] = Head[o][s]
    PROVE  Head[p][x] = Head[p][s]
  BY SMTT(30), LocksAssumption

(* Ranges of two threads do not overlap.                                   *)
LEMMA Apart ==
    ASSUME IInv, NEW t \in Threads, NEW u \in Threads, t # u, NEW s \in Subs,
           th[t].pc \in Changing, InRange(t, s), th[u].pc \in Changing, InRange(u, s)
    PROVE  th[u].hd[1] # th[t].hd[1]
  BY RangeOwned

(* No other thread owns a head in it.                                      *)
LEMMA NoHeadInRange ==
    ASSUME IInv, NEW t \in Threads, NEW u \in Threads, t # u, NEW s \in Subs,
           th[t].pc \in Changing, InRange(t, s), NEW h \in Descs, Held(h) = u,
           emp_get_block_head(h) = h
    PROVE  h # <<th[t].hd[1], s>>
  BY RangeOwned

LEMMA RegradeSteps ==
    ASSUME IInv, NEW t \in Threads, Frame(t), Stretch(t) \/ Shrink(t)
    PROVE  \E p, q \in Orders : \E r \in 0 .. p :
                /\ WorkingOn(t, p, q) /\ q <= p /\ r = NewOrder(t, q)
                /\ \A x \in Subs : InRange(t, x) <=> Head[p][x] = start(t)
                /\ \A x \in Subs : InRange(t, x) => order[th[t].hd[1]][x] \in {q, r}
                /\ th[t].hd[1] \in Groups /\ th[t].k \in Subs /\ InRange(t, th[t].k)
                /\ \A h \in Groups, s \in Subs : order'[h][s] =
                        IF h = th[t].hd[1] /\ s = th[t].k THEN r ELSE order[h][s]
                /\ order' \in [Groups -> [Subs -> Orders]]
<1> DEFINE g == th[t].hd[1]
           k == th[t].k
<1>1. ThreadsKept /\ th[t].pc \in Changing /\ th[t].hd \in Descs
  BY Mine, RegradeDoes DEF ThreadKept, Changing, HdSome, HdOwned
<1>2. PICK p, q \in Orders : WorkingOn(t, p, q)
  BY <1>1, Mine DEF StepKept, Working
<1> DEFINE r == NewOrder(t, q)
<1>3. /\ q \in 0 .. p /\ r \in 0 .. p
      /\ start(t) \in Subs /\ Head[p][start(t)] = start(t) /\ th[t].end = start(t) + Width[p]
      /\ k \in Int /\ InRange(t, k)
      /\ \A s \in Subs : InRange(t, s) => order[g][s] = IF s < k THEN r ELSE q
  BY <1>2 DEF WorkingOn
<1>4. \A x \in Subs : InRange(t, x) <=> Head[p][x] = start(t)
  BY <1>3, Heads DEF InRange
<1>5. k \in Subs
  <2>1. start(t) + Width[p] <= Len
    BY <1>3, Heads
  <2>2. start(t) <= k /\ k < start(t) + Width[p] /\ start(t) \in Int /\ Width[p] \in Nat
    BY <1>3, Sizes, Indices DEF InRange
  <2>3. QED
    BY <1>3, <2>1, <2>2, Indices
<1>6. order[g][k] = q /\ g \in Groups
  BY <1>1, <1>3, <1>5 DEF Descs
<1>7. r \in Orders /\ q <= p
  BY <1>3, Sizes DEF Orders
<1>8. order' = [order EXCEPT ![g][k] = r] /\ order \in [Groups -> [Subs -> Orders]]
  <2>1. order' = [order EXCEPT ![g][k] = NewOrder(t, @)]
    BY <1>1, RegradeDoes
  <2>2. QED
    BY <1>6, <2>1 DEF IInv, OrderKept
<1> HIDE DEF r, g, k
<1>9. /\ order' \in [Groups -> [Subs -> Orders]]
      /\ \A h \in Groups, s \in Subs : order'[h][s] = IF h = g /\ s = k THEN r ELSE order[h][s]
  BY <1>5, <1>6, <1>7, <1>8
<1>10. QED
  BY <1>2, <1>3, <1>4, <1>5, <1>6, <1>7, <1>9 DEF r, g, k

LEMMA RegradeKeeps ==
    ASSUME IInv, NEW t \in Threads, Frame(t), Stretch(t) \/ Shrink(t)
    PROVE  IInv'
<1> DEFINE g == th[t].hd[1]
           k == th[t].k
<1>1. /\ ThreadsKept /\ ThreadKept(t) /\ ThreadLocks(t) /\ ThreadDir(t) /\ StepKept(t)
      /\ UNCHANGED <<dir, fresh, lock>> /\ \A x : Known(x)' = Known(x)
      /\ th[t].pc \in Changing /\ Only(t, {"pc", "k"}) /\ th'[t].k = k + 1
      /\ \/ k + 1 # th[t].end /\ th'[t].pc = th[t].pc
         \/ k + 1 = th[t].end /\ th'[t].pc \in {"stretched", "done"}
      /\ \A u \in Threads \ {t} : th'[u] = th[u]
  BY Mine, RegradeDoes DEF Known, Frame
<1>2. PICK p, q \in Orders : \E r \in 0 .. p :
                /\ WorkingOn(t, p, q) /\ q <= p /\ r = NewOrder(t, q)
                /\ \A x \in Subs : InRange(t, x) <=> Head[p][x] = start(t)
                /\ \A x \in Subs : InRange(t, x) => order[g][x] \in {q, r}
                /\ g \in Groups /\ k \in Subs /\ InRange(t, k)
                /\ \A h \in Groups, s \in Subs :
                        order'[h][s] = IF h = g /\ s = k THEN r ELSE order[h][s]
                /\ order' \in [Groups -> [Subs -> Orders]]
  BY RegradeSteps
<1> DEFINE r == NewOrder(t, q)
<1>3. /\ WorkingOn(t, p, q) /\ q <= p /\ r <= p /\ r \in Orders
      /\ \A x \in Subs : InRange(t, x) <=> Head[p][x] = start(t)
      /\ \A x \in Subs : InRange(t, x) => order[g][x] \in {q, r}
      /\ g \in Groups /\ k \in Subs /\ InRange(t, k)
      /\ \A h \in Groups, s \in Subs : order'[h][s] = IF h = g /\ s = k THEN r ELSE order[h][s]
      /\ order' \in [Groups -> [Subs -> Orders]]
  BY <1>2, Sizes DEF Orders
<1>4. ThreadKept(t)'
  BY <1>1 DEF ThreadKept, Only, Fields, Frame, Pcs, HdSome, HdHeld, HdOwned, NewHeld,
     Looking, Changing
<1>5. LocksMove(t)
  <2>1. Locks(t)' = Locks(t)
    BY <1>1 DEF Locks, Extra, Only, Fields, HdHeld, NewHeld, Changing
  <2>2. QED
    BY <1>1, <2>1, LocksStay
<1>6. ThreadLocks(t)'
  BY <1>1 DEF ThreadLocks, Extra, Only, Fields, HdHeld, HdOwned, NewHeld, Changing
<1>7. ThreadsKept' /\ LocksKept'
  <2>1. Grows
    BY <1>1 DEF Grows, IInv, DirKept
  <2>2. QED
    BY <1>4, <1>5, <1>6, <2>1, OneMoves
<1>8. DirKept'
  <2>1. ThreadDir(t)'
    BY <1>1 DEF ThreadDir, Changing
  <2>2. QED
    BY <1>1, <2>1, DirStays DEF Changing
<1>9. ASSUME NEW u \in Threads \ {t}, th[u].pc \in Changing, NEW s \in Subs, InRange(u, s)
      PROVE  ~(th[u].hd[1] = g /\ InRange(t, s))
  BY <1>1, <1>9, Apart
<1>10. ASSUME NEW u \in Threads \ {t}
       PROVE  StepKept(u)'
  <2>1. StepKept(u) /\ th'[u] = th[u]
    BY <1>1 DEF IInv, OrderKept
  <2>2. CASE th[u].pc \in IsHead
    <3>1. /\ th[u].hd \in Descs /\ emp_get_block_head(th[u].hd) = th[u].hd
          /\ Held(th[u].hd) = u
      BY <2>1, <2>2, Mine DEF StepKept, ThreadKept, ThreadLocks, IsHead, HdSome, HdOwned,
         Locks
    <3>2. th[u].hd # <<g, k>>
      <4>1. th[t].pc \in Changing /\ k \in Subs /\ InRange(t, k) /\ t # u
        BY <1>1, <1>3
      <4> HIDE DEF k
      <4>2. QED
        BY <3>1, <4>1, NoHeadInRange
    <3>3. Ord(th[u].hd)' = Ord(th[u].hd)
      BY <1>3, <2>1, <3>1, <3>2 DEF Ord, Descs
    <3>4. /\ Behind(th[u].hd)' = Behind(th[u].hd) /\ Buddy(th[u].hd)' = Buddy(th[u].hd)
          /\ emp_get_block_head(th[u].hd)' = emp_get_block_head(th[u].hd)
      BY <2>1, <3>3 DEF Behind, Buddy, emp_get_block_head
    <3>5. QED
      BY <2>1, <2>2, <3>3, <3>4 DEF StepKept, IsHead, Changing
  <2>3. CASE th[u].pc \in Changing
    <3>1. PICK p1, q1 \in Orders : WorkingOn(u, p1, q1)
      BY <2>1, <2>3 DEF StepKept, Working
    <3>2. \A s : start(u)' = start(u) /\ InRange(u, s)' = InRange(u, s)
      BY <2>1 DEF start, InRange, At
    <3>3. \A x : NewOrder(u, x)' = NewOrder(u, x)
      BY <2>1 DEF NewOrder, At
    <3>4. th[u].hd[1] \in Groups
      BY <2>3, Mine DEF ThreadKept, Changing, HdSome, HdOwned, Descs
    <3>5. \A s \in Subs : InRange(u, s) => order'[th[u].hd[1]][s] = order[th[u].hd[1]][s]
      BY <1>3, <1>9, <2>3, <3>4
    <3>6. WorkingOn(u, p1, q1)'
      BY <2>1, <3>1, <3>2, <3>3, <3>5 DEF WorkingOn
    <3>7. QED
      BY <2>1, <2>3, <3>6 DEF StepKept, Working, IsHead, HasBuddy, Changing
  <2>4. CASE th[u].pc \notin IsHead \cup Changing
    BY <2>1, <2>4 DEF StepKept, IsHead, HasBuddy
  <2>5. QED
    BY <2>2, <2>3, <2>4
<1>11. ASSUME k + 1 # th[t].end, th'[t].pc = th[t].pc
       PROVE  /\ StepKept(t)'
              /\ \A G, s, x : G = g /\ InRange(t, s) /\ InRange(t, x) => Excepted(G, s, x)'
  <2>1. /\ th'[t].hd = th[t].hd /\ th'[t].bd = th[t].bd /\ th'[t].end = th[t].end
        /\ th'[t].own = th[t].own
    BY <1>1 DEF Only, Fields
  <2>2. \A s : start(t)' = start(t) /\ InRange(t, s)' = InRange(t, s)
    BY <1>11, <2>1 DEF start, InRange, At
  <2>3. \A x : NewOrder(t, x)' = NewOrder(t, x)
    BY <1>11 DEF NewOrder, At
  <2>4. /\ k \in Int /\ start(t) \in Subs /\ InRange(t, k) /\ th[t].end \in Int
        /\ \A s \in Subs : InRange(t, s) => order[g][s] = IF s < k THEN r ELSE q
    <3>1. /\ k \in Int /\ start(t) \in Subs /\ th[t].end = start(t) + Width[p]
          /\ \A s \in Subs : InRange(t, s) => order[g][s] = IF s < k THEN r ELSE q
      BY <1>3 DEF WorkingOn
    <3>2. th[t].end \in Int
      BY <3>1, Sizes, Indices
    <3>3. QED
      BY <1>3, <3>1, <3>2
  <2>5. InRange(t, k + 1)
    BY <1>11, <2>4, Indices DEF InRange
  <2>6. \A s \in Subs : InRange(t, s) => order'[g][s] = IF s < k + 1 THEN r ELSE q
    <3>1. \A s \in Subs : s < k + 1 <=> s < k \/ s = k
      BY <2>4, Indices
    <3> HIDE DEF r, g, k
    <3>2. QED
      BY <1>3, <2>4, <3>1
  <2>7. WorkingOn(t, p, q)'
    <3>1. k + 1 \in Int
      BY <2>4
    <3>2. QED
      BY <1>1, <1>3, <2>1, <2>2, <2>3, <2>5, <2>6, <3>1 DEF WorkingOn
  <2>8. StepKept(t)'
    BY <1>1, <1>11, <2>7 DEF StepKept, Working, IsHead, HasBuddy, Changing
  <2>9. \A G, s, x : G = g /\ InRange(t, s) /\ InRange(t, x) => Excepted(G, s, x)'
    BY <1>1, <1>11, <2>1, <2>2 DEF Excepted
  <2>10. QED
    BY <2>8, <2>9
<1>12. ASSUME k + 1 = th[t].end, th'[t].pc \in {"stretched", "done"}
       PROVE  StepKept(t)' /\ \A s \in Subs : InRange(t, s) => order'[g][s] = r
  <2>1. StepKept(t)'
    BY <1>12 DEF StepKept, IsHead, HasBuddy, Changing
  <2>2. \A s \in Subs : InRange(t, s) => order'[g][s] = r
    <3>1. k \in Int /\ \A s \in Subs : InRange(t, s) => order[g][s] = IF s < k THEN r ELSE q
      BY <1>3 DEF WorkingOn
    <3>2. \A s \in Subs : InRange(t, s) => s < k \/ s = k
      BY <1>12, <3>1, Indices DEF InRange
    <3> HIDE DEF r, g, k
    <3>3. QED
      BY <1>3, <3>1, <3>2
  <2>3. QED
    BY <2>1, <2>2
<1> HIDE DEF g, k, r
<1>13. StepKept(t)'
  BY <1>1, <1>11, <1>12
<1>14. ASSUME NEW G \in Groups, NEW s \in Subs, NEW x \in Subs,
              Head[order'[G][s]][x] = Head[order'[G][s]][s]
       PROVE  order'[G][x] = order'[G][s] \/ Excepted(G, s, x)'
  <2>1. ASSUME NEW u \in Threads \ {t}, th[u].pc \in Changing, th[u].hd[1] = G,
               InRange(u, s), InRange(u, x)
        PROVE  Excepted(G, s, x)'
    BY <1>1, <2>1 DEF Excepted, InRange, start, At
  <2>2. Head[order[G][s]][x] = Head[order[G][s]][s] =>
            \/ order[G][x] = order[G][s]
            \/ \E u \in Threads : /\ th[u].pc \in Changing /\ th[u].hd[1] = G
                                  /\ InRange(u, s) /\ InRange(u, x)
    BY DEF IInv, OrderKept, Agreed, Excepted
  <2>3. order[G][s] \in Orders /\ p \in Int /\ q \in Int /\ r \in Int
    BY <1>3 DEF IInv, OrderKept, Orders
  <2>4. CASE G # g
    BY <1>3, <1>14, <2>1, <2>2, <2>4 DEF g
  <2>5. CASE G = g /\ InRange(t, s) /\ InRange(t, x)
    <3>1. CASE k + 1 # th[t].end /\ th'[t].pc = th[t].pc
      BY <1>11, <2>5, <3>1
    <3>2. CASE k + 1 = th[t].end /\ th'[t].pc \in {"stretched", "done"}
      BY <1>12, <2>5, <3>2
    <3>3. QED
      BY <1>1, <3>1, <3>2
  <2>6. CASE G = g /\ InRange(t, s) /\ ~InRange(t, x)
    <3>1. order'[G][s] \in {q, r}
      BY <1>3, <2>6
    <3>2. order'[G][s] \in Orders /\ order'[G][s] <= p
      BY <1>3, <3>1
    <3>3. Head[p][x] = Head[p][s]
      BY <1>14, <3>2, Nested
    <3>4. QED
      BY <1>3, <2>6, <3>3
  <2>7. CASE G = g /\ ~InRange(t, s) /\ InRange(t, x)
    <3>1. order'[G][s] = order[G][s]
      BY <1>3, <2>7
    <3>2. ~(order[G][s] <= p)
      <4>1. order[G][s] <= p => Head[p][x] = Head[p][s]
        <5>1. Head[order[G][s]][x] = Head[order[G][s]][s]
          BY <1>14, <3>1
        <5>2. QED
          BY ZenonT(60), <2>3, <5>1, Nested
      <4>2. QED
        BY <1>3, <2>7, <4>1
    <3>3. order[G][x] \in {q, r}
      BY <1>3, <2>7
    <3>4. order[G][x] # order[G][s]
      BY <1>3, <3>2, <3>3
    <3>5. PICK u \in Threads : /\ th[u].pc \in Changing /\ th[u].hd[1] = G
                               /\ InRange(u, s) /\ InRange(u, x)
      BY <1>14, <2>2, <3>1, <3>4
    <3>6. QED
      BY <1>9, <2>7, <3>5
  <2>8. CASE G = g /\ ~InRange(t, s) /\ ~InRange(t, x)
    <3>1. order'[G][s] = order[G][s] /\ order'[G][x] = order[G][x]
      BY <1>3, <2>8
    <3>2. QED
      BY <1>14, <2>1, <2>2, <2>8, <3>1
  <2>9. QED
    BY <2>4, <2>5, <2>6, <2>7, <2>8
<1>15. OrderKept'
  BY <1>3, <1>10, <1>13, <1>14 DEF OrderKept, Agreed
<1>16. QED
  BY <1>7, <1>8, <1>15 DEF IInv

-----------------------------------------------------------------------------
(***************************************************************************)
(* A new group of descriptors.                                             *)
(***************************************************************************)
LEMMA GroupsApart ==
    ASSUME IInv, NEW t \in Threads, NEW u \in Threads, t # u,
           th[t].pc \in NewHeld, th[u].pc \in NewHeld
    PROVE  th[t].new # th[u].new
<1>1. th[t].new \in Groups /\ 0 \in Subs
  BY Mine, Sizes DEF ThreadKept
<1>2. <<th[t].new, 0>> \in Locks(t) /\ <<th[u].new, 0>> \in Locks(u)
  BY DEF Locks, Extra, NewHeld, HdHeld
<1>3. <<th[t].new, 0>> \in Descs
  BY <1>1 DEF Descs
<1>4. QED
  BY <1>2, <1>3, Mine

LEMMA PublishedByOne ==
    ASSUME IInv, NEW t \in Threads, Frame(t), Grows, UNCHANGED fresh, th[t].pc \in NewHeld,
           \A v \in Views, s \in Subs : dir'[v][s] \in {dir[v][s], th[t].new},
           NEW u \in Threads \ {t}
    PROVE  ThreadDir(u)' /\ \A v \in Views, s \in Subs : Fills(u, v, s) => Fills(u, v, s)'
<1>1. /\ ThreadDir(u) /\ ThreadKept(u) /\ th'[u] = th[u] /\ th[u].v \in Views
      /\ NoGroup \notin Groups /\ 0 \in Subs
  BY Mine, LocksAssumption, Sizes DEF Frame, ThreadKept
<1>2. \A s \in Subs : dir[th[u].v][s] # NoGroup => dir'[th[u].v][s] = dir[th[u].v][s]
  BY <1>1 DEF Grows
<1>3. th[u].pc = "fill" => th[u].k \in Nat /\ dir[th[u].v][0] = th[u].new /\ th[u].new # NoGroup
  BY <1>1 DEF ThreadDir, ThreadKept, NewHeld
<1>4. th[u].pc = "publish" => \A v \in Views, s \in Subs : dir'[v][s] # th[u].new
  <2>1. th[u].pc = "publish" => th[t].new # th[u].new
    BY GroupsApart DEF NewHeld
  <2>2. QED
    BY <1>1, <2>1 DEF ThreadDir
<1>5. ThreadDir(u)'
  BY <1>1, <1>2, <1>3, <1>4 DEF ThreadDir
<1>6. \A v \in Views, s \in Subs : Fills(u, v, s) => Fills(u, v, s)'
  BY <1>1, <1>2, <1>3 DEF Fills, At
<1>7. QED
  BY <1>5, <1>6

LEMMA PublishKeeps ==
    ASSUME IInv, NEW t \in Threads, Frame(t), Publish(t)
    PROVE  IInv'
<1> DEFINE v == th[t].v
           g == th[t].new
<1>1. /\ ThreadsKept /\ ThreadKept(t) /\ ThreadLocks(t) /\ ThreadDir(t) /\ StepKept(t)
      /\ th[t].pc = "publish" /\ Only(t, {"k", "pc"}) /\ dir[v][0] = NoGroup
      /\ th'[t].k = 1 /\ th'[t].pc = "fill" /\ dir' = [dir EXCEPT ![v][0] = g]
      /\ UNCHANGED <<order, lock, fresh>>
  BY Mine, PublishDoes
<1>2. v \in Views /\ g \in Groups /\ 0 \in Subs /\ g # NoGroup /\ g \notin fresh
  BY <1>1, Sizes, LocksAssumption DEF ThreadKept, NewHeld, ThreadDir
<1>3. /\ dir' \in [Views -> [Subs -> Groups \cup {NoGroup}]]
      /\ \A w \in Views, s \in Subs : dir'[w][s] = IF w = v /\ s = 0 THEN g ELSE dir[w][s]
  <2> HIDE DEF v, g
  <2>1. dir \in [Views -> [Subs -> Groups \cup {NoGroup}]]
    BY DEF IInv, DirKept
  <2>2. QED
    BY <1>1, <1>2, <2>1
<1>4. th'[t].new = g /\ th'[t].v = v
  BY <1>1 DEF Only, Fields
<1>5. Grows
  BY <1>1, <1>3 DEF Grows
<1>6. ThreadsKept' /\ LocksKept'
  <2>1. \A x : Known(x) => Known(x)'
    BY <1>5, KnownStays
  <2>2. ThreadKept(t)'
    BY <1>1, <1>2, <2>1 DEF ThreadKept, Only, Fields, Frame, Pcs, HdSome, HdHeld, HdOwned,
       NewHeld, Looking
  <2>3. Locks(t)' = Locks(t)
    BY <1>1 DEF Locks, Extra, Only, Fields, HdHeld, NewHeld
  <2>4. LocksMove(t)
    BY <1>1, <2>3, LocksStay
  <2>5. ThreadLocks(t)'
    BY <1>1 DEF ThreadLocks, Extra, Only, Fields, HdHeld, HdOwned, NewHeld
  <2>6. QED
    BY <1>5, <2>2, <2>4, <2>5, OneMoves
<1>7. DirKept'
  <2>1. \A u \in Threads \ {t} :
            ThreadDir(u)' /\ \A w \in Views, s \in Subs : Fills(u, w, s) => Fills(u, w, s)'
    BY <1>1, <1>3, <1>5, PublishedByOne DEF NewHeld
  <2>2. ThreadDir(t)'
    BY <1>1, <1>2, <1>3, <1>4 DEF ThreadDir
  <2>3. \A w \in Views, s \in Subs : w = v /\ s # 0 => Fills(t, w, s)'
    <3>1. \A s \in Subs : s # 0 => 1 <= s
      BY Indices
    <3>2. QED
      BY <1>1, <1>2, <1>3, <1>4, <3>1 DEF Fills, At
  <2>4. /\ \A w \in Views, s \in Subs : dir[w][s] \notin fresh
        /\ \A w \in Views, s \in Subs : dir[w][s] \in {NoGroup, dir[w][0]}
        /\ fresh \subseteq Groups
    BY DEF IInv, DirKept
  <2>5. ASSUME NEW w \in Views, NEW s \in Subs
        PROVE  /\ dir'[w][s] \notin fresh' /\ dir'[w][s] \in {NoGroup, dir'[w][0]}
               /\ dir'[w][0] # NoGroup /\ dir'[w][s] = NoGroup => \E u \in Threads : Fills(u, w, s)'
    <3>1. dir'[w][s] \notin fresh' /\ dir'[w][s] \in {NoGroup, dir'[w][0]}
      BY <1>1, <1>2, <1>3, <2>4
    <3>2. CASE w = v
      <4>1. dir'[w][s] = NoGroup => s # 0
        BY <1>2, <1>3, <3>2
      <4>2. QED
        BY <2>3, <3>1, <3>2, <4>1
    <3>3. CASE w # v /\ dir'[w][0] # NoGroup /\ dir'[w][s] = NoGroup
      <4>1. PICK u \in Threads : Fills(u, w, s)
        BY <1>2, <1>3, <3>3 DEF IInv, DirKept
      <4>2. u # t
        BY <1>1, <4>1 DEF Fills, At
      <4>3. QED
        BY <2>1, <3>1, <4>1, <4>2
    <3>4. QED
      BY <3>1, <3>2, <3>3
  <2>6. QED
    BY <1>1, <1>3, <2>1, <2>2, <2>4, <2>5 DEF DirKept
<1>8. OrderKept'
  <2>1. StepKept(t)'
    BY <1>1 DEF StepKept, IsHead, HasBuddy, Changing
  <2>2. QED
    BY <1>1, <2>1, OrderStays DEF Changing
<1>9. QED
  BY <1>6, <1>7, <1>8 DEF IInv

LEMMA LateAgainKeeps ==
    ASSUME IInv, NEW t \in Threads, Frame(t), LateAgain(t)
    PROVE  IInv'
<1> DEFINE v == th[t].v
           g == th[t].new
<1>1. /\ ThreadsKept /\ ThreadKept(t) /\ ThreadLocks(t) /\ ThreadDir(t) /\ StepKept(t)
      /\ th[t].pc = "publish" /\ Only(t, {"new", "hd", "pc"}) /\ dir[v][0] # NoGroup
      /\ th'[t].pc = "await" /\ th'[t].hd = <<dir[v][0], 0>>
      /\ fresh' = fresh \cup {g} /\ Drop(<<g, 0>>) /\ UNCHANGED <<dir, order>>
      /\ \A x : Known(x)' = Known(x)
  BY Mine, LateAgainDoes DEF Known
<1>2. /\ v \in Views /\ g \in Groups /\ 0 \in Subs /\ Known(dir[v][0]) /\ <<g, 0>> \in Descs
      /\ <<dir[v][0], 0>> \in Descs
  BY <1>1, Sizes, Published DEF ThreadKept, NewHeld, Descs, Known
<1>3. th'[t].v = v /\ th'[t].own = th[t].own /\ <<g, 0>> \notin th[t].own
  BY <1>1 DEF Only, Fields, ThreadLocks, Extra, NewHeld, HdHeld
<1>4. ThreadsKept' /\ LocksKept'
  <2>1. ThreadKept(t)'
    BY <1>1, <1>2 DEF ThreadKept, Only, Fields, Frame, Pcs, HdSome, HdHeld, HdOwned,
       NewHeld, Looking
  <2>2. Locks(t)' = Locks(t) \ {<<g, 0>>} /\ <<g, 0>> \in Locks(t)
    BY <1>1, <1>3 DEF Locks, Extra, HdHeld, NewHeld
  <2> HIDE DEF g
  <2>3. LocksMove(t)
    BY <1>1, <1>2, <2>2, LocksDropped
  <2>4. ThreadLocks(t)'
    BY <1>1 DEF ThreadLocks, Extra, HdHeld, HdOwned, NewHeld
  <2>5. Grows
    BY <1>1 DEF Grows, IInv, DirKept
  <2>6. QED
    BY <2>1, <2>3, <2>4, <2>5, OneMoves
<1>5. DirKept'
  <2>1. \A w \in Views, s \in Subs : dir[w][s] # g /\ dir[w][s] \notin fresh
    BY <1>1 DEF ThreadDir, IInv, DirKept
  <2>2. ASSUME NEW u \in Threads \ {t}
        PROVE  ThreadDir(u)' /\ \A w \in Views, s \in Subs : Fills(u, w, s) => Fills(u, w, s)'
    <3>1. ThreadDir(u) /\ th'[u] = th[u] /\ (th[u].pc = "publish" => th[u].new # g)
      BY <1>1, Mine, GroupsApart DEF Frame, NewHeld
    <3>2. QED
      BY <1>1, <3>1 DEF ThreadDir, Fills, At
  <2>3. ThreadDir(t)'
    BY <1>1, <1>3 DEF ThreadDir
  <2>4. \A w \in Views, s \in Subs : ~Fills(t, w, s)
    BY <1>1 DEF Fills, At
  <2>5. QED
    BY <1>1, <1>2, <2>1, <2>2, <2>3, <2>4 DEF IInv, DirKept
<1>6. OrderKept'
  <2>1. StepKept(t)'
    BY <1>1 DEF StepKept, IsHead, HasBuddy, Changing
  <2>2. QED
    BY <1>1, <2>1, OrderStays DEF Changing
<1>7. QED
  BY <1>4, <1>5, <1>6 DEF IInv

LEMMA FillKeeps ==
    ASSUME IInv, NEW t \in Threads, Frame(t), Fill(t)
    PROVE  IInv'
<1> DEFINE v == th[t].v
           g == th[t].new
           k == th[t].k
<1>1. /\ ThreadsKept /\ ThreadKept(t) /\ ThreadLocks(t) /\ ThreadDir(t) /\ StepKept(t)
      /\ th[t].pc = "fill" /\ Only(t, {"k", "pc"}) /\ UNCHANGED <<order, fresh>>
  BY Mine, FillDoes DEF Only
<1>2. v \in Views /\ g \in Groups /\ 0 \in Subs /\ g # NoGroup /\ dir[v][0] = g /\ k \in Nat
  BY <1>1, Sizes, LocksAssumption DEF ThreadKept, NewHeld, ThreadDir
<1>3. th'[t].new = g /\ th'[t].v = v /\ th'[t].own = th[t].own
  BY <1>1 DEF Only, Fields
<1>4. /\ dir \in [Views -> [Subs -> Groups \cup {NoGroup}]] /\ fresh \subseteq Groups
      /\ \A w \in Views, s \in Subs : dir[w][s] \notin fresh /\ dir[w][s] \in {NoGroup, dir[w][0]}
      /\ \A w \in Views, s \in Subs : dir[w][0] # NoGroup /\ dir[w][s] = NoGroup =>
                                        \E u \in Threads : Fills(u, w, s)
  BY DEF IInv, DirKept
<1>5. ASSUME k < Len, th'[t].k = k + 1, Only(t, {"k"}), lock' = lock,
             dir' = [dir EXCEPT ![v][k] = IF @ = NoGroup THEN g ELSE @]
      PROVE  IInv'
  <2>1. k \in Subs /\ th'[t].pc = "fill" /\ k + 1 \in Nat
    BY <1>1, <1>2, <1>5, Indices DEF Only, Fields
  <2>2. /\ dir' \in [Views -> [Subs -> Groups \cup {NoGroup}]]
        /\ \A w \in Views, s \in Subs : dir'[w][s] =
                IF w = v /\ s = k /\ dir[w][s] = NoGroup THEN g ELSE dir[w][s]
    <3> HIDE DEF v, g, k
    <3>1. QED
      BY <1>2, <1>4, <1>5, <2>1
  <2>3. Grows /\ \A w \in Views, s \in Subs : dir'[w][s] \in {dir[w][s], g}
    BY <2>2 DEF Grows
  <2>4. ThreadsKept' /\ LocksKept'
    <3>1. \A x : Known(x) => Known(x)'
      BY <2>3, KnownStays
    <3>2. ThreadKept(t)'
      BY <1>1, <2>1, <3>1 DEF ThreadKept, Only, Fields, Frame, Pcs, HdSome, HdHeld,
         HdOwned, NewHeld, Looking
    <3>3. Locks(t)' = Locks(t)
      BY <1>1, <1>3, <2>1 DEF Locks, Extra, HdHeld, NewHeld
    <3>4. LocksMove(t)
      BY <1>5, <3>3, LocksStay
    <3>5. ThreadLocks(t)'
      BY <1>1, <1>3, <2>1 DEF ThreadLocks, Extra, HdHeld, HdOwned, NewHeld
    <3>6. QED
      BY <2>3, <3>2, <3>4, <3>5, OneMoves
  <2>5. DirKept'
    <3>1. \A u \in Threads \ {t} :
              ThreadDir(u)' /\ \A w \in Views, s \in Subs : Fills(u, w, s) => Fills(u, w, s)'
      BY <1>1, <2>3, PublishedByOne DEF NewHeld
    <3>2. dir'[v][0] = g
      BY <1>2, <2>2
    <3>3. ThreadDir(t)'
      BY <1>3, <2>1, <3>2, <1>5 DEF ThreadDir
    <3>4. ASSUME NEW w \in Views, NEW s \in Subs, dir'[w][0] # NoGroup, dir'[w][s] = NoGroup
          PROVE  \E u \in Threads : Fills(u, w, s)'
      <4>1. dir[w][s] = NoGroup /\ ~(w = v /\ s = k)
        BY <1>2, <2>2, <3>4
      <4>2. dir[w][0] # NoGroup
        BY <1>2, <2>2, <3>4
      <4>3. PICK u \in Threads : Fills(u, w, s)
        BY <1>4, <4>1, <4>2
      <4>4. CASE u = t
        <5>1. w = v \/ dir[w][0] = g
          BY <4>3, <4>4 DEF Fills
        <5>2. w = v /\ k <= s /\ s # k
          BY <4>1, <4>3, <4>4 DEF Fills
        <5>3. k + 1 <= s
          BY <1>2, <5>2, Indices
        <5>4. Fills(t, w, s)'
          BY <1>3, <1>5, <2>1, <3>2, <5>2, <5>3 DEF Fills, At
        <5>5. QED
          BY <5>4
      <4>5. CASE u # t
        BY <3>1, <4>3, <4>5
      <4>6. QED
        BY <4>4, <4>5
    <3>5. \A w \in Views, s \in Subs : dir'[w][s] \notin fresh' /\ dir'[w][s] \in {NoGroup, dir'[w][0]}
      BY <1>1, <1>2, <1>4, <2>2
    <3>6. QED
      BY <1>1, <1>4, <2>2, <3>1, <3>3, <3>4, <3>5 DEF DirKept
  <2>6. OrderKept'
    <3>1. StepKept(t)'
      BY <2>1 DEF StepKept, IsHead, HasBuddy, Changing
    <3>2. QED
      BY <1>1, <3>1, OrderStays DEF Changing
  <2>7. QED
    BY <2>4, <2>5, <2>6 DEF IInv
<1>6. ASSUME ~(k < Len), th'[t].pc = "got", Drop(<<g, 0>>), dir' = dir
      PROVE  IInv'
  <2>1. \A x : Known(x)' = Known(x)
    BY <1>6 DEF Known
  <2>2. ThreadsKept' /\ LocksKept'
    <3>1. ThreadKept(t)'
      BY <1>1, <1>6, <2>1 DEF ThreadKept, Only, Fields, Frame, Pcs, HdSome, HdHeld,
         HdOwned, NewHeld, Looking
    <3>2. <<g, 0>> \in Descs /\ <<g, 0>> \in Locks(t) /\ Locks(t)' = Locks(t) \ {<<g, 0>>}
      BY <1>1, <1>2, <1>3, <1>6 DEF Locks, Extra, HdHeld, NewHeld, ThreadLocks, Descs
    <3> HIDE DEF g
    <3>3. LocksMove(t)
      BY <1>6, <3>2, LocksDropped
    <3>4. ThreadLocks(t)'
      BY <1>6 DEF ThreadLocks, Extra, HdHeld, HdOwned, NewHeld
    <3>5. Grows
      BY <1>4, <1>6 DEF Grows
    <3>6. QED
      BY <3>1, <3>3, <3>4, <3>5, OneMoves
  <2>3. \A w \in Views, s \in Subs : ~Fills(t, w, s)
    <3>1. \A s \in Subs : ~(k <= s)
      BY <1>2, <1>6, Indices
    <3>2. QED
      BY <3>1 DEF Fills
  <2>4. \A s \in Subs : dir[v][s] # NoGroup
    <3> SUFFICES ASSUME NEW s \in Subs, dir[v][s] = NoGroup
                 PROVE  FALSE
      OBVIOUS
    <3>1. PICK u \in Threads : Fills(u, v, s)
      BY <1>2, <1>4
    <3>2. u # t
      BY <1>2, <2>3, <3>1
    <3>3. th[u].pc = "fill" /\ th[u].new = g
      BY <1>2, <3>1 DEF Fills, At
    <3>4. QED
      BY <1>1, <3>2, <3>3, GroupsApart DEF NewHeld
  <2>5. DirKept'
    <3>1. \A u \in Threads \ {t} : th'[u] = th[u] /\ ThreadDir(u)
      BY Mine DEF Frame
    <3>2. \A u \in Threads \ {t} :
              ThreadDir(u)' /\ \A w \in Views, s \in Subs : Fills(u, w, s) => Fills(u, w, s)'
      BY <1>1, <1>6, <3>1 DEF ThreadDir, Fills, At
    <3>3. ThreadDir(t)'
      BY <1>3, <1>6, <2>4 DEF ThreadDir
    <3>4. QED
      BY <1>1, <1>4, <1>6, <2>3, <3>2, <3>3 DEF DirKept
  <2>6. OrderKept'
    <3>1. StepKept(t)'
      BY <1>6 DEF StepKept, IsHead, HasBuddy, Changing
    <3>2. QED
      BY <1>1, <3>1, OrderStays DEF Changing
  <2>7. QED
    BY <2>2, <2>5, <2>6 DEF IInv
<1>7. QED
  BY <1>1, <1>5, <1>6, FillDoes

LEMMA NewDescKeeps ==
    ASSUME IInv, NEW t \in Threads, Frame(t), NewDesc(t)
    PROVE  IInv'
<1> DEFINE g == th'[t].new
<1>1. /\ ThreadsKept /\ ThreadKept(t) /\ ThreadLocks(t) /\ ThreadDir(t) /\ StepKept(t)
      /\ th[t].pc = "new" /\ Only(t, {"new", "pc"}) /\ th'[t].pc = "publish"
      /\ g \in fresh /\ fresh' = fresh \ {g} /\ Take(t, <<g, 0>>)
      /\ order' = [order EXCEPT ![g] = [s \in Subs |-> MaxOrder]]
      /\ dir' = dir /\ \A x : Known(x)' = Known(x)
      /\ \A u \in Threads \ {t} : th'[u] = th[u] /\ ThreadDir(u) /\ StepKept(u) /\ ThreadKept(u)
  BY Mine, NewDescDoes DEF Known, Frame
<1>2. /\ g \in Groups /\ 0 \in Subs /\ <<g, 0>> \in Descs /\ Held(<<g, 0>>) = NoThread
      /\ <<g, 0>> \notin th[t].own /\ \A v \in Views, s \in Subs : dir[v][s] \notin fresh
      /\ ~Known(g)
  <2>1. g \in Groups /\ 0 \in Subs /\ \A v \in Views, s \in Subs : dir[v][s] \notin fresh
    BY <1>1, Sizes DEF IInv, DirKept
  <2>2. <<g, 0>> \in Descs /\ Held(<<g, 0>>) = NoThread
    BY <1>1, <2>1 DEF Take, Descs
  <2>3. <<g, 0>> \notin th[t].own
    BY <2>2, FreeIsNobodys
  <2>4. QED
    BY <1>1, <2>1, <2>2, <2>3 DEF Known
<1>3. /\ order' \in [Groups -> [Subs -> Orders]]
      /\ \A h \in Groups, s \in Subs : order'[h][s] = IF h = g THEN MaxOrder ELSE order[h][s]
  <2>1. order \in [Groups -> [Subs -> Orders]] /\ MaxOrder \in Orders
    BY Sizes DEF IInv, OrderKept
  <2> HIDE DEF g
  <2>2. QED
    BY <1>1, <1>2, <2>1
<1>4. ThreadsKept' /\ LocksKept'
  <2>1. ThreadKept(t)'
    BY <1>1, <1>2 DEF ThreadKept, Only, Fields, Frame, Pcs, HdSome, HdHeld, HdOwned,
       NewHeld, Looking
  <2>2. Locks(t)' = Locks(t) \cup {<<g, 0>>}
    BY <1>1 DEF Locks, Extra, Only, Fields, HdHeld, NewHeld
  <2>3. LocksMove(t)
    BY <1>1, <1>2, <2>2, LocksTaken
  <2>4. ThreadLocks(t)'
    BY <1>1, <1>2 DEF ThreadLocks, Extra, Only, Fields, HdHeld, HdOwned, NewHeld
  <2>5. Grows
    BY <1>1 DEF Grows, IInv, DirKept
  <2>6. QED
    BY <2>1, <2>3, <2>4, <2>5, OneMoves
<1>5. DirKept'
  <2>1. \A u \in Threads \ {t} :
            ThreadDir(u)' /\ \A w \in Views, s \in Subs : Fills(u, w, s) => Fills(u, w, s)'
    BY <1>1 DEF ThreadDir, Fills, At
  <2>2. ThreadDir(t)'
    BY <1>1, <1>2 DEF ThreadDir
  <2>3. \A w \in Views, s \in Subs : ~Fills(t, w, s)
    BY <1>1 DEF Fills, At
  <2>4. QED
    BY <1>1, <1>2, <2>1, <2>2, <2>3 DEF IInv, DirKept
<1>6. \A u \in Threads \ {t} : th[u].pc \in HdSome => th[u].hd \in Descs /\ th[u].hd[1] # g
  BY <1>1, <1>2 DEF ThreadKept
<1>7. ASSUME NEW u \in Threads \ {t}
      PROVE  StepKept(u)'
  <2>1. th'[u] = th[u] /\ StepKept(u)
    BY <1>1
  <2>2. CASE th[u].pc \in HdSome
    <3>1. th[u].hd[1] \in Groups /\ th[u].hd[1] # g /\ th[u].hd[2] \in Subs
      BY <1>6, <2>2 DEF Descs
    <3>2. \A s \in Subs : order'[th[u].hd[1]][s] = order[th[u].hd[1]][s]
      BY <1>3, <3>1
    <3>3. Ord(th[u].hd)' = Ord(th[u].hd)
      BY <2>1, <3>1, <3>2 DEF Ord
    <3>4. /\ Behind(th[u].hd)' = Behind(th[u].hd) /\ Buddy(th[u].hd)' = Buddy(th[u].hd)
          /\ emp_get_block_head(th[u].hd)' = emp_get_block_head(th[u].hd)
      BY <2>1, <3>3 DEF Behind, Buddy, emp_get_block_head
    <3>5. Working(u) => Working(u)'
      <4>1. \A s : start(u)' = start(u) /\ InRange(u, s)' = InRange(u, s)
        BY <2>1 DEF start, InRange, At
      <4>2. \A q : NewOrder(u, q)' = NewOrder(u, q)
        BY <2>1 DEF NewOrder, At
      <4>3. \A p, q \in Orders : WorkingOn(u, p, q) => WorkingOn(u, p, q)'
        BY <2>1, <3>2, <4>1, <4>2 DEF WorkingOn
      <4>4. QED
        BY <4>3 DEF Working
    <3>6. QED
      BY <2>1, <3>3, <3>4, <3>5 DEF StepKept
  <2>3. CASE th[u].pc \notin HdSome
    BY <2>1, <2>3 DEF StepKept, HdSome, HdOwned, IsHead, HasBuddy, Changing
  <2>4. QED
    BY <2>2, <2>3
<1>8. StepKept(t)'
  BY <1>1 DEF StepKept, IsHead, HasBuddy, Changing
<1>9. ASSUME NEW h \in Groups, NEW s \in Subs, NEW x \in Subs,
             Head[order'[h][s]][x] = Head[order'[h][s]][s]
      PROVE  order'[h][x] = order'[h][s] \/ Excepted(h, s, x)'
  <2>1. CASE h = g
    BY <1>3, <2>1
  <2>2. CASE h # g
    <3>1. order'[h][s] = order[h][s] /\ order'[h][x] = order[h][x]
      BY <1>3, <2>2
    <3>2. order[h][x] = order[h][s] \/ Excepted(h, s, x)
      BY <1>9, <3>1 DEF IInv, OrderKept, Agreed
    <3>3. Excepted(h, s, x) => Excepted(h, s, x)'
      <4> SUFFICES ASSUME Excepted(h, s, x)
                   PROVE  Excepted(h, s, x)'
        OBVIOUS
      <4>1. PICK u \in Threads : /\ th[u].pc \in Changing /\ th[u].hd[1] = h
                                 /\ InRange(u, s) /\ InRange(u, x)
        BY DEF Excepted
      <4>2. th'[u] = th[u]
        BY <1>1, <4>1 DEF Changing
      <4>3. QED
        BY <4>1, <4>2 DEF Excepted, InRange, start, At
    <3>4. QED
      BY <3>1, <3>2, <3>3
  <2>3. QED
    BY <2>1, <2>2
<1>10. OrderKept'
  BY <1>3, <1>7, <1>8, <1>9 DEF OrderKept, Agreed
<1>11. QED
  BY <1>4, <1>5, <1>10 DEF IInv

-----------------------------------------------------------------------------
(***************************************************************************)
(* The invariant holds first, and every step keeps it.                     *)
(***************************************************************************)
LEMMA InitKept ==
    ASSUME Init
    PROVE  IInv
<1>1. PICK g \in Groups :
        /\ dir = [v \in Views |-> [s \in Subs |->
                    IF config.shared /\ v \in config.views THEN g ELSE NoGroup]]
        /\ fresh = IF config.shared THEN Groups \ {g} ELSE Groups
        /\ \E f \in [Subs -> Orders] :
            /\ Partition(f)
            /\ order = [h \in Groups |-> IF h = g THEN f ELSE [s \in Subs |-> MaxOrder]]
  BY DEF Init
<1>2. PICK f \in [Subs -> Orders] : Partition(f) /\
            order = [h \in Groups |-> IF h = g THEN f ELSE [s \in Subs |-> MaxOrder]]
  BY <1>1
<1>3. /\ config \in Configs /\ lock = [h \in Groups |-> [s \in Subs |-> NoThread]]
      /\ th = [t \in Threads |-> Idle] /\ NoGroup \notin Groups /\ NoThread \notin Threads
      /\ 0 \in Subs /\ MaxOrder \in Orders
  BY LocksAssumption, Sizes DEF Init
<1>4. \A t \in Threads :
        /\ Fun(th[t]) /\ th[t].pc = "idle" /\ th[t].op = "none" /\ th[t].i = 0
        /\ th[t].gpa = NoGroup /\ th[t].own = {} /\ th[t].v \in Views
  <2>1. config.views # {} /\ config.views \subseteq Views
    BY <1>3, LocksAssumption
  <2>2. QED
    BY <1>3, <2>1, IdleFields
<1>5. ThreadsKept
  <2>1. \A t \in Threads : ThreadKept(t)
    BY <1>4 DEF ThreadKept, Pcs, HdSome, HdHeld, HdOwned, NewHeld, Looking
  <2>2. QED
    BY <1>3, <2>1 DEF ThreadsKept
<1>6. LocksKept
  <2>1. \A t \in Threads : Locks(t) = {} /\ ThreadLocks(t)
    BY <1>4 DEF Locks, ThreadLocks, Extra, HdHeld, HdOwned, NewHeld
  <2>2. lock \in [Groups -> [Subs -> Threads \cup {NoThread}]]
    BY <1>3
  <2>3. \A d \in Descs : Held(d) = NoThread
    BY <1>3 DEF Held, Descs
  <2>4. QED
    BY <1>3, <2>1, <2>2, <2>3 DEF LocksKept
<1>7. DirKept
  <2>1. \A t \in Threads : ThreadDir(t)
    BY <1>4 DEF ThreadDir
  <2>2. \A v \in Views, s \in Subs :
            dir[v][s] = IF config.shared /\ v \in config.views THEN g ELSE NoGroup
    BY <1>1
  <2>3. dir \in [Views -> [Subs -> Groups \cup {NoGroup}]] /\ fresh \subseteq Groups
    BY <1>1
  <2>4. \A v \in Views, s \in Subs : dir[v][s] \notin fresh /\ dir[v][s] = dir[v][0]
    BY <1>1, <1>3, <2>2
  <2>5. QED
    BY <2>1, <2>3, <2>4 DEF DirKept
<1>8. OrderKept
  <2>1. \A t \in Threads : StepKept(t)
    BY <1>4 DEF StepKept, IsHead, HasBuddy, Changing
  <2>2. order \in [Groups -> [Subs -> Orders]]
    BY <1>2, <1>3
  <2>3. Agreed
    BY <1>2 DEF Agreed, Partition
  <2>4. QED
    BY <2>1, <2>2, <2>3 DEF OrderKept
<1>9. QED
  BY <1>5, <1>6, <1>7, <1>8 DEF IInv

LEMMA PlainStepKeeps ==
    ASSUME IInv, NEW t \in Threads, PlainStep(t)
    PROVE  IInv'
<1>1. Frame(t)
  BY Framed DEF IInv
<1>2. QED
  BY <1>1, BeginKeeps, GetDescKeeps, NewDescKeeps, PublishKeeps, LateAgainKeeps,
     FillKeeps, AwaitKeeps, AwaitedKeeps, GotKeeps, DeriveKeeps, SpinKeeps,
     TryFailsKeeps, CheckDirKeeps, CheckHeadKeeps, GiveUpKeeps, UnlockKeeps,
     DontStretchKeeps, PickBuddyKeeps, TryBuddyKeeps, BuddyBusyKeeps, UnsuitableKeeps,
     SuitableKeeps, RegradeKeeps, DontReduceKeeps, ReduceKeeps, TryAllKeeps,
     TryAllFailsKeeps, TryHalfKeeps, AllLockedKeeps, KeepBlockKeeps, PassBlockKeeps
     DEF PlainStep

LEMMA StutterKeeps ==
    ASSUME IInv, UNCHANGED vars
    PROVE  IInv'
<1>1. ThreadsKept'
  BY DEF IInv, vars, ThreadsKept, ThreadKept, Known
<1>2. LocksKept'
  BY DEF IInv, vars, LocksKept, ThreadLocks, Locks, Extra, Held
<1>3. DirKept'
  BY DEF IInv, vars, DirKept, ThreadDir, Fills, At
<1>4. OrderKept'
  <2>1. \A t \in Threads : Working(t)' = Working(t)
    BY DEF vars, Working, WorkingOn, start, InRange, NewOrder, At
  <2>2. \A t \in Threads : StepKept(t)'
    BY <2>1 DEF IInv, vars, OrderKept, StepKept, emp_get_block_head, Ord, Buddy, Behind
  <2>3. Agreed'
    BY DEF IInv, vars, OrderKept, Agreed, Excepted, InRange, start, At
  <2>4. QED
    BY <2>2, <2>3 DEF IInv, vars, OrderKept
<1>5. QED
  BY <1>1, <1>2, <1>3, <1>4 DEF IInv

(***************************************************************************)
(* Every reachable state of a run without write faults satisfies IInv: the *)
(* locks of the lock loops, of stretching, of reducing and of publishing   *)
(* are exactly those the places of the threads account for.                *)
(***************************************************************************)
THEOREM Inductive ==
    ASSUME NoWriters
    PROVE  Spec => []IInv
<1>1. Init => IInv
  BY InitKept
<1>2. IInv /\ [Next]_vars => IInv'
  <2> SUFFICES ASSUME IInv, [Next]_vars
               PROVE  IInv'
    OBVIOUS
  <2>1. CASE UNCHANGED vars
    BY <2>1, StutterKeeps
  <2>2. CASE Next
    <3>1. PICK t \in Threads : Call(t) \/ Step(t)
      BY <2>2 DEF Next
    <3>2. QED
      BY <3>1, OnlyPlainSteps, PlainStepKeeps DEF IInv
  <2>3. QED
    BY <2>1, <2>2
<1>3. QED
  BY <1>1, <1>2, PTL DEF Spec

(***************************************************************************)
(* The types of the variables: in particular no group that is free is in a *)
(* directory, so the loser of a race in new_gpadesc() frees only his own.  *)
(***************************************************************************)
THEOREM TypesKept ==
    ASSUME NoWriters
    PROVE  Spec => []TypeOK
<1>1. IInv => TypeOK
  BY DEF IInv, ThreadsKept, LocksKept, DirKept, OrderKept, ThreadKept, HdSome, TypeOK
<1>2. QED
  BY <1>1, Inductive, PTL

(***************************************************************************)
(* Who waited for the winner of a race in new_gpadesc(), or won it, finds  *)
(* every descriptor of the group in the directory.                         *)
(***************************************************************************)
THEOREM GroupsPublishedWhole ==
    ASSUME NoWriters
    PROVE  Spec => []PublishedWhole
<1>1. IInv => PublishedWhole
  <2> SUFFICES ASSUME IInv
               PROVE  PublishedWhole
    OBVIOUS
  <2>1. ASSUME NEW v \in Views, NEW i \in Subs, NEW j \in Subs, dir[v][i] # dir[v][j]
        PROVE  \E t \in Threads : th[t].v = v /\ th[t].pc \in {"fill", "change"}
    <3>1. PICK s \in Subs : dir[v][0] # NoGroup /\ dir[v][s] = NoGroup
      BY <2>1 DEF IInv, DirKept
    <3>2. PICK t \in Threads : Fills(t, v, s)
      BY <3>1 DEF IInv, DirKept
    <3>3. QED
      BY <3>2 DEF Fills, At
  <2>2. ASSUME NEW t \in Threads, At(t, "got")
        PROVE  InDir(t, th[t].i) # NoGroup
    BY <2>2, Mine DEF ThreadDir, ThreadKept, At, InDir, Pcs
  <2>3. QED
    BY <2>1, <2>2 DEF PublishedWhole
<1>2. QED
  BY <1>1, Inductive, PTL

(***************************************************************************)
(* emp_unlock_block() and the error paths of the lock loops leave no block *)
(* locked when no call is at work.                                         *)
(***************************************************************************)
THEOREM IdleHoldsNothing ==
    ASSUME NoWriters
    PROVE  Spec => []NothingLeftLocked
<1>1. IInv => NothingLeftLocked
  <2> SUFFICES ASSUME IInv, \A t \in Threads : At(t, "idle"), NEW d \in Descs
               PROVE  Held(d) = NoThread
    BY DEF NothingLeftLocked
  <2>1. \A t \in Threads : Locks(t) = {}
    BY Mine DEF ThreadKept, Locks, Extra, At, HdHeld, NewHeld
  <2>2. Held(d) \in Threads \cup {NoThread}
    BY DEF IInv, LocksKept, Descs, Held
  <2>3. QED
    BY <2>1, <2>2, Mine
<1>2. QED
  BY <1>1, Inductive, PTL

-----------------------------------------------------------------------------
(***************************************************************************)
(* Refinement of BlockOwners: a thread owns the descriptors whose head is  *)
(* among the heads it owns.                                                *)
(***************************************************************************)
Inside(t) == {d \in Descs : emp_get_block_head(d) \in th[t].own}

LEMMA OwnsInside ==
    \A t \in Threads : th[t].own \subseteq Descs => owns[t] = Inside(t)
<1> SUFFICES ASSUME NEW t \in Threads, th[t].own \subseteq Descs
             PROVE  owns[t] = Inside(t)
  OBVIOUS
<1>1. owns[t] = UNION {Block(h) : h \in th[t].own}
  BY DEF owns
<1>2. ASSUME NEW d
      PROVE  d \in UNION {Block(h) : h \in th[t].own} <=> d \in Inside(t)
  <2>1. ASSUME d \in Inside(t)
        PROVE  d \in Block(emp_get_block_head(d)) /\ emp_get_block_head(d) \in th[t].own
    BY <2>1 DEF Inside, Block, emp_get_block_head, Descs
  <2>2. ASSUME NEW h \in th[t].own, d \in Block(h)
        PROVE  d \in Inside(t)
    BY <2>2 DEF Inside, Block, Descs
  <2>3. QED
    BY <2>1, <2>2
<1>3. QED
  BY <1>1, <1>2

LEMMA OwnsInsideNext ==
    (\A t \in Threads : th[t].own \subseteq Descs => owns[t] = Inside(t))'
  BY OwnsInside, PTL

LEMMA InsideMoves ==
    ASSUME IInv, IInv', NEW t \in Threads, Frame(t), UNCHANGED order,
           th'[t].own \subseteq th[t].own \/ th[t].own \subseteq th'[t].own
    PROVE  Owners!Acquire(t) \/ Owners!Release(t)
<1>1. /\ \A u \in Threads : owns[u] = Inside(u) /\ owns'[u] = Inside(u)'
      /\ \A u \in Threads \ {t} : th'[u] = th[u]
      /\ \A d : emp_get_block_head(d)' = emp_get_block_head(d)
  <2>1. \A u \in Threads : owns[u] = Inside(u)
    BY Mine, OwnsInside
  <2>2. \A u \in Threads : owns'[u] = Inside(u)'
    <3>1. \A u \in Threads : th'[u].own \subseteq Descs
      BY DEF IInv, ThreadsKept, ThreadKept
    <3>2. QED
      BY <3>1, OwnsInsideNext
  <2>3. QED
    BY <2>1, <2>2 DEF Frame, emp_get_block_head, Ord
<1>2. owns' = [owns EXCEPT ![t] = owns'[t]]
  <2>1. \A u \in Threads \ {t} : owns'[u] = owns[u]
    BY <1>1 DEF Inside
  <2>2. owns = [u \in Threads |-> owns[u]] /\ owns' = [u \in Threads |-> owns'[u]]
    BY DEF owns
  <2>3. QED
    BY <2>1, <2>2
<1>3. CASE th'[t].own \subseteq th[t].own
  <2>1. owns'[t] \subseteq owns[t]
    BY <1>1, <1>3 DEF Inside
  <2>2. QED
    BY <1>2, <2>1 DEF Owners!Release, Owners!OthersKeep
<1>4. CASE th[t].own \subseteq th'[t].own
  <2>1. owns[t] \subseteq owns'[t] /\ owns'[t] \subseteq Descs
    BY <1>1, <1>4 DEF Inside
  <2>2. ASSUME NEW u \in Threads \ {t}, NEW d \in owns'[t], d \in owns[u]
        PROVE  FALSE
    <3>1. d \in Descs /\ emp_get_block_head(d) \in th'[t].own
          /\ emp_get_block_head(d) \in th'[u].own /\ emp_get_block_head(d) \in Descs
      BY <1>1, <2>2, Mine, HeadsInGroups DEF Inside, IInv
    <3>2. \A e \in Descs : (Held(e)' = t <=> e \in Locks(t)') /\ (Held(e)' = u <=> e \in Locks(u)')
      BY DEF IInv, LocksKept
    <3>3. QED
      BY <3>1, <3>2 DEF Locks
  <2>3. QED
    BY <1>2, <2>1, <2>2 DEF Owners!Acquire, Owners!OthersKeep
<1>5. QED
  BY <1>3, <1>4

(* A new order does not move a descriptor into or out of what is owned.    *)
LEMMA InsideStays ==
    ASSUME IInv, NEW t \in Threads, Frame(t), th'[t].own = th[t].own,
           \A u \in Threads, d \in Descs :
                emp_get_block_head(d)' \in th[u].own <=> emp_get_block_head(d) \in th[u].own
    PROVE  owns' = owns
<1>1. \A u \in Threads : th'[u].own = th[u].own /\ th[u].own \subseteq Descs
  BY Mine DEF Frame
<1>2. \A u \in Threads : owns[u] = Inside(u)
  BY <1>1, OwnsInside
<1>3. \A u \in Threads : owns'[u] = Inside(u)'
  <2>1. \A u \in Threads : th'[u].own \subseteq Descs
    BY <1>1
  <2>2. QED
    BY <2>1, OwnsInsideNext
<1>4. \A u \in Threads : Inside(u)' = Inside(u)
  BY <1>1 DEF Inside
<1>5. owns = [u \in Threads |-> owns[u]] /\ owns' = [u \in Threads |-> owns'[u]]
  BY DEF owns
<1>6. QED
  BY <1>2, <1>3, <1>4, <1>5

LEMMA RegradeInside ==
    ASSUME IInv, NEW t \in Threads, Frame(t), Stretch(t) \/ Shrink(t)
    PROVE  owns' = owns
<1> DEFINE g == th[t].hd[1]
           k == th[t].k
<1>1. /\ th'[t].own = th[t].own /\ th[t].own \subseteq Descs
  BY Mine, RegradeDoes DEF Only, Fields
<1>2. PICK p, q \in Orders : \E r \in 0 .. p :
                /\ WorkingOn(t, p, q) /\ q <= p /\ r = NewOrder(t, q)
                /\ g \in Groups /\ k \in Subs /\ InRange(t, k)
                /\ \A h \in Groups, s \in Subs :
                        order'[h][s] = IF h = g /\ s = k THEN r ELSE order[h][s]
  BY RegradeSteps
<1> DEFINE r == NewOrder(t, q)
<1>3. /\ WorkingOn(t, p, q) /\ g \in Groups /\ k \in Subs /\ InRange(t, k)
      /\ \A h \in Groups, s \in Subs : order'[h][s] = IF h = g /\ s = k THEN r ELSE order[h][s]
  BY <1>2
<1>4. order[g][k] = q
  <2>1. k \in Int /\ order[g][k] = IF k < k THEN r ELSE q
    BY <1>3 DEF WorkingOn
  <2> HIDE DEF g, k, r
  <2>2. QED
    BY <2>1
<1>5. <<g, Head[q][k]>> \in th[t].own /\ <<g, Head[r][k]>> \in th[t].own
  BY <1>3 DEF WorkingOn
<1> HIDE DEF g, k, r
<1>6. ASSUME NEW u \in Threads, NEW d \in Descs
      PROVE  emp_get_block_head(d)' \in th[u].own <=> emp_get_block_head(d) \in th[u].own
  <2>1. d = <<d[1], d[2]>> /\ d[1] \in Groups /\ d[2] \in Subs
    BY DEF Descs
  <2>2. CASE d = <<g, k>>
    <3>1. emp_get_block_head(d) = <<g, Head[q][k]>>
      BY <1>4, <2>2 DEF emp_get_block_head, Ord
    <3>2. emp_get_block_head(d)' = <<g, Head[r][k]>>
      BY <1>3, <2>2 DEF emp_get_block_head, Ord
    <3>3. \A e \in th[t].own : u # t => e \notin th[u].own
      BY <1>1, Mine DEF Locks
    <3>4. QED
      BY <1>5, <3>1, <3>2, <3>3
  <2>3. CASE d # <<g, k>>
    <3>1. Ord(d)' = Ord(d)
      BY <1>3, <2>1, <2>3 DEF Ord
    <3>2. QED
      BY <3>1 DEF emp_get_block_head
  <2>4. QED
    BY <2>2, <2>3
<1>7. QED
  BY <1>1, <1>6, InsideStays

LEMMA NewDescInside ==
    ASSUME IInv, NEW t \in Threads, Frame(t), NewDesc(t)
    PROVE  owns' = owns
<1> DEFINE g == th'[t].new
<1>1. /\ th'[t].own = th[t].own /\ g \in fresh
      /\ order' = [order EXCEPT ![g] = [s \in Subs |-> MaxOrder]]
  BY Mine, NewDescDoes DEF Only, Fields
<1>2. g \in Groups /\ \A u \in Threads : \A h \in th[u].own : h[1] # g
  <2>1. g \in Groups /\ ~Known(g)
    BY <1>1 DEF IInv, DirKept, Known
  <2>2. QED
    BY <2>1, Mine DEF ThreadKept
<1> HIDE DEF g
<1>3. ASSUME NEW u \in Threads, NEW d \in Descs
      PROVE  emp_get_block_head(d)' \in th[u].own <=> emp_get_block_head(d) \in th[u].own
  <2>1. CASE d[1] = g
    <3>1. emp_get_block_head(d)[1] = g /\ (emp_get_block_head(d)')[1] = g
      BY <2>1 DEF emp_get_block_head
    <3>2. QED
      BY <1>2, <3>1
  <2>2. CASE d[1] # g
    <3>1. Ord(d)' = Ord(d)
      BY <1>1, <2>2 DEF Ord, Descs, IInv, OrderKept
    <3>2. QED
      BY <3>1 DEF emp_get_block_head
  <2>3. QED
    BY <2>1, <2>2
<1>4. QED
  BY <1>1, <1>3, InsideStays

LEMMA OwnersStep ==
    ASSUME IInv, IInv', NEW t \in Threads, PlainStep(t)
    PROVE  Owners!Acquire(t) \/ Owners!Release(t) \/ owns' = owns
<1>1. Frame(t) /\ ThreadsKept
  BY Framed DEF IInv
<1>2. CASE Stretch(t) \/ Shrink(t) \/ NewDesc(t)
  BY <1>1, <1>2, RegradeInside, NewDescInside
<1>3. CASE ~(Stretch(t) \/ Shrink(t) \/ NewDesc(t))
  <2>1. UNCHANGED order
    BY <1>3 DEF PlainStep, Fault, Hint, Evict, GetDesc, Publish, LateAgain, Fill,
       Await, Awaited, Got, Derive, Spin, TryFails, CheckDir, CheckHead, GiveUp,
       Unlock, Return, DontStretch, PickBuddy, TryBuddy, BuddyBusy, Unsuitable,
       Suitable, Stretched, DontReduce, Reduce, TryAll, TryAllFails, Undo, TryHalf,
       AllLocked, KeepBlock, PassBlock, Flush, Reads, Begin, Disown
  <2>2. th'[t].own \subseteq th[t].own \/ th[t].own \subseteq th'[t].own
    <3>1. CASE Publish(t) \/ LateAgain(t) \/ Await(t) \/ Awaited(t)
      <4>1. CASE Publish(t) \/ LateAgain(t)
        BY <1>1, <4>1, PublishDoes, LateAgainDoes DEF Only, Fields
      <4>2. CASE Await(t) \/ Awaited(t)
        BY <1>1, <4>2, AwaitDoes, AwaitedDoes DEF Only, Fields
      <4>3. QED
        BY <3>1, <4>1, <4>2
    <3>2. CASE Got(t) \/ Derive(t) \/ Spin(t)
      BY <1>1, <3>2, GotDoes, DeriveDoes, SpinDoes DEF Only, Fields
    <3>3. CASE \/ TryFails(t) \/ CheckDir(t) \/ GiveUp(t) \/ DontStretch(t)
               \/ PickBuddy(t) \/ TryBuddy(t) \/ BuddyBusy(t)
      BY <1>1, <3>3, TryFailsDoes, CheckDirDoes, GiveUpDoes, DontStretchDoes,
         PickBuddyDoes, TryBuddyDoes, BuddyBusyDoes DEF Only, Fields
    <3>4. CASE \/ Unsuitable(t) \/ DontReduce(t) \/ Reduce(t) \/ TryAllFails(t)
               \/ AllLocked(t) \/ KeepBlock(t) \/ GetDesc(t)
      BY <1>1, <3>4, UnsuitableDoes, DontReduceDoes, ReduceDoes, TryAllFailsDoes,
         AllLockedDoes, KeepBlockDoes, GetDescDoes DEF Only, Fields
    <3>5. CASE Fill(t)
      BY <1>1, <3>5, FillDoes DEF Only, Fields
    <3>6. CASE CheckHead(t)
      BY <1>1, <3>6, CheckHeadDoes DEF Only, Fields
    <3>7. CASE Suitable(t)
      BY <1>1, <3>7, SuitableDoes DEF Only, Fields
    <3>8. CASE TryAll(t)
      BY <1>1, <3>8, TryAllDoes DEF Only, Fields
    <3>9. CASE TryHalf(t)
      BY ZenonT(60), <1>1, <3>9, TryHalfDoes DEF Only, Fields
    <3>10. CASE PassBlock(t)
      BY <1>1, <3>10, PassBlockDoes DEF Only, Fields
    <3>11. CASE Evict(t)
      BY <1>1, <3>11, EvictDoes DEF Only, Fields
    <3>12. CASE Return(t)
      BY <1>1, <3>12, ReturnDoes, IdleFields DEF Only, Fields
    <3>13. CASE Fault(t)
      BY <1>1, <3>13, BeginDoes DEF Fault, Reads
    <3>14. CASE Hint(t)
      BY <1>1, <3>14, BeginDoes DEF Hint, Reads
    <3>15. CASE Unlock(t)
      BY <1>1, <3>15, DisownDoes DEF Unlock
    <3>16. CASE Stretched(t)
      BY <1>1, <3>16, DisownDoes DEF Stretched
    <3>17. CASE Undo(t)
      BY <1>1, <3>17, DisownDoes DEF Undo
    <3>18. CASE Flush(t)
      BY <1>1, <3>18, DisownDoes DEF Flush
    <3>19. QED
      BY <1>3, <3>1, <3>2, <3>3, <3>4, <3>5, <3>6, <3>7, <3>8, <3>9, <3>10, <3>11, <3>12,
         <3>13, <3>14, <3>15, <3>16, <3>17, <3>18 DEF PlainStep
  <2>3. QED
    BY <1>1, <2>1, <2>2, InsideMoves
<1>4. QED
  BY <1>2, <1>3

(***************************************************************************)
(* A thread that owns a head has the whole block around it to itself,      *)
(* while other threads stretch and reduce blocks and publish groups.       *)
(***************************************************************************)
THEOREM BlocksAreOwned ==
    ASSUME NoWriters
    PROVE  Spec => ImplementsOwners
<1>1. Init => Owners!Init
  <2> SUFFICES ASSUME Init
               PROVE  \A t \in Threads : owns[t] = {}
    BY DEF Owners!Init, owns
  <2>1. \A t \in Threads : th[t].own = {}
    BY IdleFields DEF Init
  <2>2. QED
    BY <2>1 DEF owns
<1>2. IInv /\ IInv' /\ [Next]_vars => [Owners!Next]_owns
  <2> SUFFICES ASSUME IInv, IInv', [Next]_vars
               PROVE  [Owners!Next]_owns
    OBVIOUS
  <2>1. CASE UNCHANGED vars
    BY <2>1 DEF vars, owns, Block, emp_get_block_head, Ord
  <2>2. CASE Next
    <3>1. PICK t \in Threads : Call(t) \/ Step(t)
      BY <2>2 DEF Next
    <3>2. PlainStep(t)
      BY <3>1, OnlyPlainSteps DEF IInv
    <3>3. QED
      BY <3>2, OwnersStep DEF Owners!Next
  <2>3. QED
    BY <2>1, <2>2
<1>3. QED
  BY <1>1, <1>2, Inductive, PTL DEF Spec, ImplementsOwners, Owners!Spec

(***************************************************************************)
(* No two threads ever have the same subblock to themselves.  BlockOwners  *)
(* promises it, so the lock loops keep it.                                 *)
(***************************************************************************)
THEOREM BlocksAreExclusive ==
    ASSUME NoWriters
    PROVE  Spec => []Owners!Exclusive
<1>1. Owners!Init => Owners!Exclusive
  BY DEF Owners!Init, Owners!Exclusive
<1>2. Owners!Exclusive /\ [Owners!Next]_owns => Owners!Exclusive'
  <2> SUFFICES ASSUME Owners!Exclusive, [Owners!Next]_owns, NEW t \in Threads, NEW u \in Threads,
                      t # u
               PROVE  (owns[t] \cap owns[u] = {})'
    BY DEF Owners!Exclusive
  <2>1. owns = [x \in Threads |-> owns[x]]
    BY DEF owns
  <2>2. ASSUME NEW x \in Threads, Owners!OthersKeep(x)
        PROVE  \A y \in Threads \ {x} : owns'[y] = owns[y]
    BY <2>1, <2>2 DEF Owners!OthersKeep
  <2>3. ASSUME NEW x \in Threads, Owners!Acquire(x)
        PROVE  owns'[t] \cap owns'[u] = {}
    <3>1. \A y \in Threads \ {x} : owns'[y] = owns[y] /\ owns'[x] \cap owns[y] = {}
      BY <2>2, <2>3 DEF Owners!Acquire
    <3>2. QED
      BY <3>1 DEF Owners!Exclusive
  <2>4. ASSUME NEW x \in Threads, Owners!Release(x)
        PROVE  owns'[t] \cap owns'[u] = {}
    <3>1. owns'[x] \subseteq owns[x] /\ \A y \in Threads \ {x} : owns'[y] = owns[y]
      BY <2>2, <2>4 DEF Owners!Release
    <3>2. QED
      BY <3>1 DEF Owners!Exclusive
  <2>5. CASE owns' = owns
    BY <2>5 DEF Owners!Exclusive
  <2>6. QED
    BY <2>3, <2>4, <2>5 DEF Owners!Next
<1>3. QED
  BY <1>1, <1>2, BlocksAreOwned, PTL DEF ImplementsOwners, Owners!Spec
=============================================================================
